----------------------------- MODULE BondRoles ------------------------------
(***************************************************************************)
(* Does a user have a role (pgsql/binding_pgsql.c, bonddb/bonddbglobal.c)? *)
(* The administrator changes who is a member of what while the library     *)
(* asks.  PostgreSQL refuses a membership that closes a cycle, which is    *)
(* what ends the recursion of _db_user_has_role.                           *)
(***************************************************************************)
EXTENDS Integers, FiniteSets

CONSTANT Role   \* the roles of the server, users and groups alike

ASSUME RoleAssumption == IsFiniteSet(Role)

VARIABLES
  member,   \* pg_auth_members: <<role, group>>
  inherit   \* the roles with rolinherit

roleVars == <<member, inherit>>

\* The sets of roles that have every group of their members in asking.
Closed(asking) ==
  {S \in SUBSET Role : \A edge \in member :
                         edge[1] \in S \cap asking => edge[2] \in S}

-----------------------------------------------------------------------------
\* Mutant of UserHasRole: what a group is itself a member of is not asked.
UserHasGroup(username, role) ==
  \/ username = role
  \/ /\ username \in inherit
     /\ \/ <<username, role>> \in member
        \/ \E g \in Role : {<<username, g>>, <<g, role>>} \subseteq member

\* _db_user_has_role: the role itself, a member of it, or a member of a
\* group that has it; only a role that inherits is asked for its groups.
UserHasRole(username, role) ==
  LET has[depth \in 0..Cardinality(Role)] ==   \* those that have it
        LET groups == IF depth = 0 THEN {} ELSE has[depth - 1] IN
        {u \in Role :
           \/ u = role
           \/ /\ u \in inherit
              /\ \/ <<u, role>> \in member
                 \/ \E g \in groups : <<u, g>> \in member}
  IN  username \in has[Cardinality(Role)]

-----------------------------------------------------------------------------
(* The administrator's statements.                                         *)

Grant(g, r) ==
  /\ \E S \in Closed(Role) : g \in S /\ r \notin S
  /\ member' = member \cup {<<r, g>>}
  /\ UNCHANGED inherit

Revoke(g, r) ==
  /\ <<r, g>> \in member
  /\ member' = member \ {<<r, g>>}
  /\ UNCHANGED inherit

AlterInherit(r) ==
  /\ inherit' = IF r \in inherit THEN inherit \ {r} ELSE inherit \cup {r}
  /\ UNCHANGED member

RolesInit == member = {} /\ inherit = Role
RolesNext ==
  \/ \E g, r \in Role : Grant(g, r) \/ Revoke(g, r)
  \/ \E r \in Role : AlterInherit(r)

RolesSpec == RolesInit /\ [][RolesNext]_roleVars

-----------------------------------------------------------------------------
\* A user has exactly the roles it inherits, through however many groups:
\* those in every set that has the user and the groups of each of its
\* members that inherits; the role asked for need not inherit itself.
RolesInherited ==
  LET closed == Closed(inherit)
  IN  \A u, r \in Role :
        UserHasRole(u, r) <=> \A S \in closed : u \in S => r \in S
=============================================================================

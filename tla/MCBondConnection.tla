-------------------------- MODULE MCBondConnection --------------------------
(***************************************************************************)
(* Instances of BondConnection for TLC.                                    *)
(***************************************************************************)
EXTENDS BondConnection, TLC

InTransaction == {"inTransaction"}
Nothing == {}

Symmetry == Permutations(Obj) \cup Permutations(OneOff) \cup Permutations(Name)
            \cup Permutations(Row)
=============================================================================

----------------------------- MODULE BondPlugin -----------------------------
(***************************************************************************)
(* What the library asks of PostgreSQL besides rows                        *)
(* (pgsql/binding_pgsql.c, bonddb/bonddbglobal.c): the defaults of columns *)
(* and the foreign keys, both kept in the plugin once asked for, keys from *)
(* a sequence of the master, and notifications.  Roles are BondRoles.      *)
(*                                                                         *)
(* Abstractions.  Objects use the local connection, and all writes go to   *)
(* the master.  The default of a column is a text, and whether it is a     *)
(* call.  A notification is its number.  A connection that breaks stays    *)
(* broken, as nothing calls _db_reset; the FD_SET of its descriptor -1     *)
(* before the descriptor is tested is taken to do no harm.                 *)
(***************************************************************************)
EXTENDS Integers, SequencesExt

CONSTANTS
  NONE,
  Column,       \* the columns with a default
  Declaration,  \* what a column's default may be: [text, call]
  Reference,    \* the foreign keys: [fromtable, fromfield, totable, tofield]
  PluginDiscipline, \* the rules that the database's owner keeps
  MaxKey,       \* bound: keys drawn from the sequence
  MaxNote       \* bound: notifications raised

\* The database that is read, and the one that is written
\* (conn and conn_remote_write).
Server == {"local", "master"}

\* What a default calls: nothing, nextval, or a function such as now().
Call == {"none", "nextval", "other"}

\* "catalogKept": the catalog is not changed where the plugin keeps what it
\* said: no default that was asked for, and no foreign key once any
\* reference was;
\* "oneKeyPerColumn": a table has no two foreign keys to one column.
PluginRule == {"catalogKept", "oneKeyPerColumn"}

ASSUME PluginAssumption ==
  /\ Declaration \subseteq [text : STRING, call : Call]
  /\ MaxKey \in Nat /\ MaxNote \in Nat
  /\ PluginDiscipline \subseteq PluginRule
  /\ NONE \notin Declaration

VARIABLES
  plugin,    \* the BonddbPlugin struct: what it keeps
  database,  \* the sequence on each server, and the catalog
  conn,      \* the two connections, with their notifications
  raised,    \* how many notifications were raised
  drawn,     \* the keys that any client drew from the sequence
  answer     \* what the call just made returned

pluginVars == <<plugin, database, conn, raised, drawn, answer>>

Table == {r.fromtable : r \in Reference}

NewPlugin ==
  [cache_dictonary |-> TRUE, defaulthash |-> [c \in Column |-> NONE],
   referencehash |-> NONE]
NewConn == [s \in Server |-> [alive |-> TRUE, listening |-> FALSE,
                              wire |-> <<>>, buffer |-> <<>>]]

-----------------------------------------------------------------------------
(* Defaults.                                                               *)

\* Mutant of Entry: only the text is kept.
EntryText(d) == [value |-> d.text, func |-> NONE]

\* _db_cachedefaultvalue: the entry kept for a default.  What is a call, as
\* _db_default_isitafunction finds, is kept to be made each time.
Entry(d) == [value |-> d.text, func |-> IF d.call = "none" THEN NONE ELSE d]

\* Mutant of RunsOn: everything runs where rows are read.
RunsOnLocal(func) == "local"

\* _db_cachedefaultvalue_run: nextval runs where rows are written.
RunsOn(func) == IF func.call = "nextval" THEN "master" ELSE "local"

\* A statement on the connection k reads what has arrived on it.
ReadInput(k) ==
  IF k.alive THEN [k EXCEPT !.buffer = @ \o k.wire, !.wire = <<>>] ELSE k
Exec(S) == conn' = [s \in Server |-> IF s \in S THEN ReadInput(conn[s])
                                     ELSE conn[s]]

\* Runs the function on its server.
Run(func) ==
  LET s == RunsOn(func) IN
  IF ~conn[s].alive THEN answer' = NONE /\ UNCHANGED <<database, drawn>>
  ELSE IF func.call = "other"
  THEN answer' = [server |-> s] /\ UNCHANGED <<database, drawn>>
  ELSE /\ database.sequence[s] < MaxKey
       /\ answer' = [key |-> database.sequence[s] + 1]
       /\ database' = [database EXCEPT !.sequence[s] = @ + 1]
       /\ drawn' = Append(drawn, database.sequence[s] + 1)

\* _db_defaultvalue, for a column of a new row (bonddb_field_default_each).
DefaultValue(c) ==
  LET known == plugin.cache_dictonary /\ plugin.defaulthash[c] # NONE
      entry == IF known THEN plugin.defaulthash[c]
               ELSE Entry(database.default[c])
      asks == IF known THEN {} ELSE {"local"}
      keep == /\ plugin.cache_dictonary
              /\ plugin' = [plugin EXCEPT !.defaulthash[c] = entry]
  IN  /\ IF ~known /\ ~conn["local"].alive
         THEN /\ answer' = NONE
              /\ UNCHANGED <<plugin, database, drawn, conn>>
         ELSE /\ keep \/ (~plugin.cache_dictonary /\ UNCHANGED plugin)
              /\ IF entry.value = "" \/ entry.func = NONE
                 THEN /\ answer' = IF entry.value = "" THEN NONE
                                   ELSE [text |-> entry.value]
                      /\ Exec(asks) /\ UNCHANGED <<database, drawn>>
                 ELSE Run(entry.func) /\ Exec(asks \cup {RunsOn(entry.func)})
      /\ UNCHANGED raised

\* bonddb_plugin_setcache.
SetCache(state) ==
  /\ plugin' = [plugin EXCEPT !.cache_dictonary = state]
  /\ answer' = NONE /\ UNCHANGED <<database, conn, raised, drawn>>

-----------------------------------------------------------------------------
(* Foreign keys.                                                           *)

\* Mutant of ConstraintValid: duplicates are not looked for.
ConstraintAnyhow(list, r) == TRUE

\* _db_constraint_valid: a table has at most one reference to a field.
ConstraintValid(list, r) ==
  \A i \in DOMAIN list :
    ~(list[i].totable = r.totable /\ list[i].tofield = r.tofield)

\* _db_constraint_init: the references of each table, from the triggers; and
\* what one trigger adds to those found so far.
ConstraintAdd(hash, r) ==
  IF ConstraintValid(hash[r.fromtable], r)
  THEN [hash EXCEPT ![r.fromtable] = Append(@, r)] ELSE hash
ConstraintInit(triggers) ==
  LET found[i \in 0..Len(triggers)] ==
        IF i = 0 THEN [t \in Table |-> <<>>]
        ELSE ConstraintAdd(found[i - 1], triggers[i])
  IN  found[Len(triggers)]

\* _db_findreference.
FindReference(t) ==
  LET gathered == IF conn["local"].alive THEN ConstraintInit(database.trigger)
                  ELSE [u \in Table |-> <<>>]
      hash == IF plugin.referencehash = NONE THEN gathered
              ELSE plugin.referencehash
  IN  /\ plugin' = [plugin EXCEPT !.referencehash = hash]
      /\ answer' = [list |-> hash[t]]
      /\ Exec(IF plugin.referencehash = NONE THEN {"local"} ELSE {})
      /\ UNCHANGED <<database, raised, drawn>>

-----------------------------------------------------------------------------
(* Notifications.                                                          *)

\* bonddb_notify_listen: on both connections.
NotifyListen ==
  /\ conn' = [s \in Server |->
                [ReadInput(conn[s]) EXCEPT !.listening = @ \/ conn[s].alive]]
  /\ answer' = NONE /\ UNCHANGED <<plugin, database, raised, drawn>>

\* Mutant of CheckNotify: the socket is looked at whatever was there, and
\* what was there is overwritten.
CheckTwice(k) ==
  [ReadInput(k) EXCEPT !.buffer = IF k.buffer = <<>> THEN @ ELSE Tail(@)]

\* Mutant of CheckNotify: the socket is not looked at.
CheckBuffer(k) == k

\* _db_check_notify: what libpq has read before, else what has arrived.
CheckNotify(k) == IF k.buffer # <<>> THEN k ELSE ReadInput(k)

\* bonddb_notify_check: the next notification of the master, or NONE.
NotifyCheck ==
  LET k == CheckNotify(conn["master"]) IN
  /\ answer' = IF k.buffer = <<>> THEN NONE ELSE [note |-> Head(k.buffer)]
  /\ conn' = [conn EXCEPT !["master"] =
                IF k.buffer = <<>> THEN k
                ELSE [k EXCEPT !.buffer = Tail(@)]]
  /\ UNCHANGED <<plugin, database, raised, drawn>>

-----------------------------------------------------------------------------
(* What happens around the library.                                        *)

\* Another client inserts with the default key.
OtherDraws ==
  /\ database.sequence["master"] < MaxKey
  /\ database' = [database EXCEPT !.sequence["master"] = @ + 1]
  /\ drawn' = Append(drawn, database'.sequence["master"])
  /\ answer' = NONE /\ UNCHANGED <<plugin, conn, raised>>

\* The default of a column is declared anew.
AlterDefault(c, d) ==
  /\ "catalogKept" \in PluginDiscipline => plugin.defaulthash[c] = NONE
  /\ database' = [database EXCEPT !.default[c] = d]
  /\ answer' = NONE /\ UNCHANGED <<plugin, conn, raised, drawn>>

\* A foreign key is declared, with its three triggers, and not a second time.
AddForeignKey(r) ==
  /\ r \notin ToSet(database.trigger)
  /\ "catalogKept" \in PluginDiscipline => plugin.referencehash = NONE
  /\ "oneKeyPerColumn" \in PluginDiscipline =>
       \A q \in ToSet(database.trigger) :
         <<q.fromtable, q.totable, q.tofield>>
           # <<r.fromtable, r.totable, r.tofield>>
  /\ database' = [database EXCEPT !.trigger = @ \o <<r, r, r>>]
  /\ answer' = NONE /\ UNCHANGED <<plugin, conn, raised, drawn>>

\* A client of the master notifies.  What is raised on the local server
\* stays on the other connection, which no call checks.
Notify ==
  /\ raised < MaxNote
  /\ raised' = raised + 1
  /\ conn' = [conn EXCEPT !["master"].wire =
                IF conn["master"].alive /\ conn["master"].listening
                THEN Append(@, raised + 1) ELSE @]
  /\ answer' = NONE /\ UNCHANGED <<plugin, database, drawn>>

\* The connection to s breaks; what libpq has read stays.
Break(s) ==
  /\ conn[s].alive
  /\ conn' = [conn EXCEPT ![s].alive = FALSE, ![s].wire = <<>>]
  /\ answer' = NONE /\ UNCHANGED <<plugin, database, raised, drawn>>

\* bonddb_cleanup, and bonddb_init again.
Restart ==
  /\ plugin' = NewPlugin /\ conn' = NewConn /\ answer' = NONE
  /\ UNCHANGED <<database, raised, drawn>>

PluginInit ==
  /\ plugin = NewPlugin /\ conn = NewConn
  /\ database \in [sequence : {[s \in Server |-> 0]},
                   default : [Column -> Declaration], trigger : {<<>>}]
  /\ raised = 0 /\ drawn = <<>> /\ answer = NONE

PluginNext ==
  \/ \E c \in Column : DefaultValue(c)
  \/ \E state \in BOOLEAN : SetCache(state)
  \/ \E t \in Table : FindReference(t)
  \/ NotifyListen
  \/ NotifyCheck
  \/ OtherDraws
  \/ \E c \in Column, d \in Declaration : AlterDefault(c, d)
  \/ \E r \in Reference : AddForeignKey(r)
  \/ Notify
  \/ \E s \in Server : Break(s)
  \/ Restart

\* The application polls: bonddb_notify_check is there for nothing else.
PluginSpec ==
  /\ PluginInit /\ [][PluginNext]_pluginVars
  /\ WF_pluginVars(NotifyCheck)

-----------------------------------------------------------------------------
(* Properties.                                                             *)

\* No two rows are given the same key by the sequence, whoever inserts them
\* and whatever the plugin keeps of the default: nextval runs each time, and
\* on the master ("run the function nextval on the master to upgrade the
\* sequence", binding_pgsql.c:785).
KeysUnique == \A i, j \in DOMAIN drawn : i # j => drawn[i] # drawn[j]

\* What the library says is the default of a column is what the database
\* would use for it, whether the answer is kept or asked for and whether it
\* is a text or a call to be made now, or nothing when a connection it has to
\* ask is broken.  By "catalogKept" no default is declared anew while an
\* answer is kept: the plugin would go on giving the old one (_db_defaultvalue
\* never asks again, binding_pgsql.c:915).
DefaultAsDeclared ==
  [][\A c \in Column : DefaultValue(c) =>
       LET d == database.default[c] IN
       \/ answer' = NONE /\ (d.text = "" \/ \E s \in Server : ~conn[s].alive)
       \/ d.text # "" /\ d.call = "none" /\ answer' = [text |-> d.text]
       \/ d.call = "other" /\ answer' = [server |-> "local"]
       \/ /\ d.call = "nextval"
          /\ answer' = [key |-> database.sequence["master"] + 1]
    ]_pluginVars

\* A table is said to have every foreign key it has, and each once, though
\* three triggers stand for it (_db_constraint_init: "Find all the references
\* in the database and add them to the cache", binding_pgsql.c:1040).  By
\* "oneKeyPerColumn" only: a second key of the table to the same column is
\* taken for another trigger of the first.
ReferencesFound ==
  [][\A t \in Table : FindReference(t) /\ conn["local"].alive =>
       /\ ToSet(answer'.list)
            = {r \in ToSet(database.trigger) : r.fromtable = t}
       /\ IsInjective(answer'.list)]_pluginVars

\* A check hands out the oldest notification of the master that is there,
\* whatever statements have read of the connection in between, and says
\* there is none only when there is none.
CheckHandsOldest ==
  [][NotifyCheck =>
       LET there == conn["master"].buffer \o conn["master"].wire IN
       answer' = IF there = <<>> THEN NONE ELSE [note |-> Head(there)]
    ]_pluginVars

\* A notification of the master that has reached the library does not stay
\* there: the application gets it, or the connection breaks.
Heard ==
  LET there(n) == \/ n \in ToSet(conn["master"].wire)
                  \/ n \in ToSet(conn["master"].buffer)
  IN  \A n \in 1..MaxNote : there(n) ~> ~there(n)
=============================================================================

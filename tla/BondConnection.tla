--------------------------- MODULE BondConnection ---------------------------
(***************************************************************************)
(* The connections of BondDB and what runs on which: the read connection,  *)
(* the remote write connection, the administrator's, and the named one-off *)
(* connections that objects share and count (bonddb/bonddbglobal.c, the    *)
(* creation and freeing of objects in bonddbobj.c, the choice of a         *)
(* connection in bonddbobj.c and bonddbwrite.c).  A one-off connection     *)
(* runs a transaction from its first statement on.                         *)
(*                                                                         *)
(* Abstractions.  A table is the set of its rows; an object inserts and    *)
(* deletes one row per save.  The remote server is replicated to the local *)
(* one, row by row, some time later.  The string an object's connection    *)
(* was named by outlives the connection.  No statement waits for a row     *)
(* that another connection's transaction has changed: the program has one  *)
(* thread, and would wait for itself.                                      *)
(***************************************************************************)
EXTENDS Naturals, FiniteSets

CONSTANTS
  Obj,         \* the objects the application may have at a time
  Name,        \* names of one-off connections
  OneOff,      \* bound: the one-off connections there may be at a time
  Row,         \* rows of the table
  NULL,        \* the NULL pointer
  Remote,      \* a remote write connection is configured
  Admin,       \* an administrator's connection is configured
  MayFail,     \* what may fail, see Failure
  Discipline,  \* what the application is careful about, see Rule
  MaxFail      \* bound: failures

(* Connecting, the BEGIN of a one-off connection, and statements of objects *)
(* that are on a one-off connection ("named") or on none ("plain").         *)
Failure == {"connect", "begin", "named", "plain"}

(* inTransaction: an object on a one-off connection neither deletes nor     *)
(* runs its query by bonddb_sql_runnow_write.                               *)
Rule == {"inTransaction"}

ASSUME ConnectionAssumption ==
  /\ Remote \in BOOLEAN /\ Admin \in BOOLEAN
  /\ MaxFail \in Nat
  /\ IsFiniteSet(Obj)
  /\ MayFail \subseteq Failure /\ Discipline \subseteq Rule
  /\ NULL \notin Name \cup OneOff \cup Obj /\ \A S \in SUBSET Row : S # NULL
  /\ {"main", "remote", "admin"} \cap OneOff = {}

VARIABLES
  objs,        \* the objects that are allocated, NULL for one that is not
  oo_conns,    \* bonddb->oo_conns: a name to its connection
  references,  \* of a one-off connection
  txn,         \* the transaction of a connection, on its server
  data,        \* the committed rows of each server
  ship,        \* rows changed on the remote server, not yet on the local one
  refreshing,  \* the object whose save has a result to fetch again
  saved,       \* rows saved under a name since its transaction began
  fails        \* failures so far

server == <<data, ship>>
counts == <<oo_conns, references>>
vars   == <<objs, counts, txn, server, refreshing, saved, fails>>

-----------------------------------------------------------------------------
(* The servers.                                                            *)

Server == {"local", "master"}
Conn == {"main", "remote", "admin"} \cup OneOff
Txn == [state : {"none", "open", "failed"}, ins : SUBSET Row, del : SUBSET Row]

Ended == [state |-> "none", ins |-> {}, del |-> {}]
Begun == [state |-> "open", ins |-> {}, del |-> {}]
Broken == [state |-> "failed", ins |-> {}, del |-> {}]

\* The server a connection string leads to.
ServerOf(c) == IF Remote /\ c \notin {"main", "admin"} THEN "master" ELSE "local"

Home == IF Remote THEN "master" ELSE "local"       \* of a one-off connection

\* What a query on c returns.
View(c) == (data[ServerOf(c)] \cup txn[c].ins) \ txn[c].del

\* No transaction of another connection than c has changed row r.
Untouched(c, r) == \A d \in Conn \ {c} : r \notin txn[d].ins \cup txn[d].del

\* Rows S of the server of c change, and go to the other server later.
Changed(c, S) == ship' = IF ServerOf(c) = "master" THEN ship \cup S ELSE ship

\* A statement on c that inserts row r, t being the transactions when it is
\* run, and one that deletes it, if it is there.
Insertion(c, r, t) ==
  IF t[c].state = "open"
  THEN txn' = [t EXCEPT ![c].ins = @ \cup {r}] /\ UNCHANGED server
  ELSE /\ txn' = t
       /\ data' = [data EXCEPT ![ServerOf(c)] = @ \cup {r}]
       /\ Changed(c, {r})
Deletion(c, r) ==
  IF r \notin View(c) THEN UNCHANGED <<txn, server>>
  ELSE IF txn[c].state = "open"
  THEN txn' = [txn EXCEPT ![c].del = @ \cup {r}] /\ UNCHANGED server
  ELSE /\ UNCHANGED txn
       /\ data' = [data EXCEPT ![ServerOf(c)] = @ \ {r}]
       /\ Changed(c, {r})

\* A statement fails on each of the connections C: it breaks the transactions
\* it is part of.
AfterError(C) ==
  [c \in Conn |-> IF c \in C /\ txn[c].state = "open" THEN Broken ELSE txn[c]]
Fails(kind) ==
  /\ kind \in MayFail /\ fails < MaxFail
  /\ fails' = fails + 1

\* A change reaches the local server.
Replicate(r) ==
  /\ r \in ship /\ ship' = ship \ {r}
  /\ data' = [data EXCEPT !["local"] =
                IF r \in data["master"] THEN @ \cup {r} ELSE @ \ {r}]
  /\ UNCHANGED <<objs, counts, txn, refreshing, saved, fails>>

-----------------------------------------------------------------------------
(* The connections.                                                        *)

\* What bonddb_init makes of the configuration: without a remote write
\* connection the read connection is used, without an administrator's too;
\* conn_remote_write_admin is never set.
conn_remote_write == IF Remote THEN "remote" ELSE "main"
conn_admin == IF Admin THEN "admin" ELSE "main"
conn_remote_write_admin == NULL

\* A BonddbClass as far as connections go: gone is the rows it has deleted
\* since its result was last asked for.
Object == [conn : Conn, conn_name : Name \cup {NULL}, admin : BOOLEAN,
           res : {NULL} \cup SUBSET Row, gone : SUBSET Row]

ASSUME ObjectAssumption == NULL \notin Object

Live == {o \in Obj : objs[o] # NULL}
Idle == refreshing = NULL
Named(o) == objs[o].conn_name # NULL
Kind(o) == IF Named(o) THEN "named" ELSE "plain"

\* Mutant of QueryConn: a query always goes to the read connection.
QueryConnMain(o) == IF objs[o].admin THEN conn_admin ELSE "main"

\* bonddb_sql_internal_exec of a query that is to be read.
QueryConn(o) ==
  IF ~Named(o) /\ objs[o].admin THEN conn_admin ELSE objs[o].conn

\* Mutant of WriteConn: the one-off connection is forgotten.
WriteConnRemote(o) == conn_remote_write

\* bonddb_write_execsql: where an INSERT or UPDATE goes, and where it is
\* tried again when it fails there.
WriteConn(o) ==
  IF Named(o) THEN objs[o].conn
  ELSE IF objs[o].admin /\ conn_remote_write_admin # NULL
  THEN conn_remote_write_admin ELSE conn_remote_write
LocalConn(o) == IF ~Named(o) /\ objs[o].admin THEN conn_admin ELSE "main"

\* bonddb_write_sql_delete.
DeleteConn(o) == IF Named(o) THEN objs[o].conn ELSE conn_remote_write

-----------------------------------------------------------------------------
(* Creating and freeing objects.                                           *)

Blank(c, n, adm) ==
  [conn |-> c, conn_name |-> n, admin |-> adm, res |-> NULL, gone |-> {}]
Unused == {c \in OneOff : \A n \in Name : oo_conns[n] # c}

\* Without a name, on the read connection.
NewPlain(o, adm) ==
  /\ Idle /\ objs[o] = NULL
  /\ objs' = [objs EXCEPT ![o] = Blank("main", NULL, adm)]
  /\ UNCHANGED <<counts, txn, server, refreshing, saved, fails>>

\* bonddb_connection_ref, and its mutant: the new user is not counted.
RefForgets(c) == UNCHANGED references
Ref(c) == references' = [references EXCEPT ![c] = @ + 1]

\* Mutant of NewShared: the object is left on the read connection.
NewSharedMain(o, n, adm) ==
  /\ Idle /\ objs[o] = NULL /\ oo_conns[n] # NULL
  /\ objs' = [objs EXCEPT ![o] = Blank("main", n, adm)]
  /\ Ref(oo_conns[n])
  /\ UNCHANGED <<oo_conns, txn, server, refreshing, saved, fails>>

\* With the name of a connection that is there.
NewShared(o, n, adm) ==
  /\ Idle /\ objs[o] = NULL /\ oo_conns[n] # NULL
  /\ objs' = [objs EXCEPT ![o] = Blank(oo_conns[n], n, adm)]
  /\ Ref(oo_conns[n])
  /\ UNCHANGED <<oo_conns, txn, server, refreshing, saved, fails>>

\* bonddb_connection_new, and its mutant: the first user is not counted.
ConnectionNewUncounted(c) ==
  /\ UNCHANGED references
  /\ txn' = [txn EXCEPT ![c] = Begun]
ConnectionNew(c) ==
  /\ references' = [references EXCEPT ![c] = 1]
  /\ txn' = [txn EXCEPT ![c] = Begun]

\* With a name that has no connection yet.
NewConnected(o, n, adm) ==
  /\ Idle /\ objs[o] = NULL /\ oo_conns[n] = NULL
  /\ \E c \in Unused :
       /\ ConnectionNew(c)
       /\ oo_conns' = [oo_conns EXCEPT ![n] = c]
       /\ objs' = [objs EXCEPT ![o] = Blank(c, n, adm)]
  /\ UNCHANGED <<server, refreshing, saved, fails>>

\* The connection or its BEGIN fails: bonddb_new_full frees the object and
\* returns NULL.  Not modelled: what bonddb_new_sql_full does with that NULL,
\* which alone does not look (bonddbobj.c:156), and the memory of a connection
\* that was not made, which nothing frees.
NewFails(o, n) ==
  /\ Idle /\ objs[o] = NULL /\ oo_conns[n] = NULL
  /\ Fails("connect") \/ Fails("begin")
  /\ UNCHANGED <<objs, counts, txn, server, refreshing, saved>>

\* bonddb_free, with nothing left to save.  The last user of a connection
\* ends its transaction and closes it.
Free(o) ==
  LET n == objs[o].conn_name
      c == oo_conns[n]
  IN  /\ Idle /\ objs[o] # NULL
      /\ objs' = [objs EXCEPT ![o] = NULL]
      /\ IF ~Named(o) THEN UNCHANGED <<counts, txn, saved>>
         ELSE /\ references' = [references EXCEPT ![c] = @ - 1]
              /\ IF references[c] = 1
                 THEN /\ oo_conns' = [oo_conns EXCEPT ![n] = NULL]
                      /\ txn' = [txn EXCEPT ![c] = Ended]
                      /\ saved' = [saved EXCEPT ![n] = {}]
                 ELSE UNCHANGED <<oo_conns, txn, saved>>
      /\ UNCHANGED <<server, refreshing, fails>>

-----------------------------------------------------------------------------
(* Using them.                                                             *)

\* Row r has been saved under the name of o, if it has one.
Saved(o, r) ==
  saved' = IF Named(o) THEN [saved EXCEPT ![objs[o].conn_name] = @ \cup {r}]
           ELSE saved

\* The outcome of a query of o on c, in objects that are now objects: an error
\* leaves no result.
Asked(o, c, objects) ==
  \/ /\ txn[c].state # "failed"
     /\ objs' = [objects EXCEPT ![o].res = View(c), ![o].gone = {}]
     /\ UNCHANGED <<txn, fails>>
  \/ /\ IF txn[c].state = "failed" THEN UNCHANGED fails ELSE Fails(Kind(o))
     /\ objs' = [objects EXCEPT ![o].res = NULL, ![o].gone = {}]
     /\ txn' = AfterError({c})

\* bonddb_loadall, bonddb_sql of a SELECT.
Query(o) ==
  /\ Idle /\ objs[o] # NULL
  /\ Asked(o, QueryConn(o), objs)
  /\ UNCHANGED <<counts, server, refreshing, saved>>

\* bonddb_sql_runnow_write: the object is moved to the remote write
\* connection, whichever it was on; an administrator's has nowhere to go.
RunnowWrite(o) ==
  LET c == conn_remote_write
      moved == [objs EXCEPT ![o].conn = c]
  IN  /\ Idle /\ objs[o] # NULL /\ objs[o].res = NULL
      /\ "inTransaction" \in Discipline => ~Named(o)
      /\ IF ~Named(o) /\ objs[o].admin /\ conn_remote_write_admin = NULL
         THEN objs' = moved /\ UNCHANGED <<txn, fails>>
         ELSE Asked(o, c, moved)
      /\ UNCHANGED <<counts, server, refreshing, saved>>

\* bonddb_save of a new row r: where it goes first.
Insertable(o, r) ==
  /\ Idle /\ objs[o] # NULL
  /\ r \notin data["local"] \cup data["master"]
  /\ \A c \in Conn : r \notin txn[c].ins \cup txn[c].del
Insert(o, r) ==
  /\ Insertable(o, r) /\ txn[WriteConn(o)].state # "failed"
  /\ Insertion(WriteConn(o), r, txn) /\ Saved(o, r)
  /\ UNCHANGED <<objs, counts, refreshing, fails>>

\* The statement fails there; it is tried again on the local connection, if
\* that is another, and may fail there too.
InsertFailing(o) ==
  IF txn[WriteConn(o)].state = "failed" THEN UNCHANGED fails
  ELSE Fails(Kind(o))
InsertLocally(o, r) ==
  LET c == WriteConn(o) IN
  /\ Insertable(o, r) /\ InsertFailing(o)
  /\ LocalConn(o) # c /\ txn[LocalConn(o)].state # "failed"
  /\ Insertion(LocalConn(o), r, AfterError({c})) /\ Saved(o, r)
  /\ UNCHANGED <<objs, counts, refreshing>>
InsertFails(o, r) ==
  /\ Insertable(o, r) /\ InsertFailing(o)
  /\ txn' = AfterError({WriteConn(o), LocalConn(o)})
  /\ UNCHANGED <<objs, counts, server, refreshing, saved>>

\* bonddb_save of a deletion: the record goes first, then the row, then the
\* result is to be fetched again.
Deletes(o, r) ==
  /\ Idle /\ objs[o] # NULL /\ objs[o].res # NULL
  /\ r \in objs[o].res \ objs[o].gone
  /\ "inTransaction" \in Discipline => ~Named(o)
  /\ Untouched(DeleteConn(o), r)
  /\ objs' = [objs EXCEPT ![o].gone = @ \cup {r}]
Delete(o, r) ==
  /\ Deletes(o, r) /\ txn[DeleteConn(o)].state # "failed"
  /\ Deletion(DeleteConn(o), r)
  /\ saved' = [n \in Name |-> saved[n] \ {r}]
  /\ refreshing' = o
  /\ UNCHANGED <<counts, fails>>
DeleteFails(o, r) ==
  LET c == DeleteConn(o) IN
  /\ Deletes(o, r)
  /\ IF txn[c].state = "failed" THEN UNCHANGED fails ELSE Fails(Kind(o))
  /\ txn' = AfterError({c})
  /\ UNCHANGED <<counts, server, refreshing, saved>>

\* The end of bonddb_write_all.  The check of the result is given the query
\* in its place: it may see an error where there is none, or none where there
\* is one, a result without rows.
Refresh ==
  /\ ~Idle /\ refreshing' = NULL
  /\ \E res \in {IF txn["main"].state = "failed" THEN {} ELSE View("main"), NULL} :
       objs' = [objs EXCEPT ![refreshing].res = res]
  /\ UNCHANGED <<counts, txn, server, saved, fails>>

\* An object on a one-off connection is given BEGIN, COMMIT or ROLLBACK as
\* its query, whose result has no rows.  A transaction that is broken is rolled
\* back, without an error.
Begin(o) ==
  LET c == QueryConn(o) IN
  /\ Idle /\ objs[o] # NULL /\ Named(o) /\ txn[c].state = "none"
  /\ txn' = [txn EXCEPT ![c] = Begun]
  /\ saved' = [saved EXCEPT ![objs[o].conn_name] = {}]
  /\ objs' = [objs EXCEPT ![o].res = {}, ![o].gone = {}]
  /\ UNCHANGED <<counts, server, refreshing, fails>>
End(o, commits) ==
  LET c == QueryConn(o)
      t == txn[c]
  IN  /\ Idle /\ objs[o] # NULL /\ Named(o) /\ t.state # "none"
      /\ txn' = [txn EXCEPT ![c] = Ended]
      /\ IF commits
         THEN /\ data' = [data EXCEPT ![ServerOf(c)] = (@ \cup t.ins) \ t.del]
              /\ Changed(c, t.ins \cup t.del)
         ELSE UNCHANGED server
      /\ saved' = [saved EXCEPT ![objs[o].conn_name] = {}]
      /\ objs' = [objs EXCEPT ![o].res = {}, ![o].gone = {}]
      /\ UNCHANGED <<counts, refreshing, fails>>

-----------------------------------------------------------------------------
Init ==
  /\ objs = [o \in Obj |-> NULL]
  /\ oo_conns = [n \in Name |-> NULL]
  /\ references = [c \in OneOff |-> 0]
  /\ txn = [c \in Conn |-> Ended]
  /\ data = [s \in Server |-> {}] /\ ship = {}
  /\ refreshing = NULL /\ fails = 0
  /\ saved = [n \in Name |-> {}]

Next ==
  \/ \E o \in Obj :
       \/ \E adm \in BOOLEAN :
            \/ NewPlain(o, adm)
            \/ \E n \in Name : NewShared(o, n, adm) \/ NewConnected(o, n, adm)
       \/ \E n \in Name : NewFails(o, n)
       \/ Free(o) \/ Query(o) \/ RunnowWrite(o) \/ Begin(o)
       \/ \E commits \in BOOLEAN : End(o, commits)
       \/ \E r \in Row :
            \/ Insert(o, r) \/ InsertLocally(o, r) \/ InsertFails(o, r)
            \/ Delete(o, r) \/ DeleteFails(o, r)
  \/ Refresh \/ \E r \in Row : Replicate(r)

Spec == Init /\ [][Next]_vars

-----------------------------------------------------------------------------
(* Properties.                                                             *)

\* Every variable has its type.
TypeOK ==
  /\ objs \in [Obj -> {NULL} \cup Object]
  /\ oo_conns \in [Name -> OneOff \cup {NULL}]
  /\ references \in [OneOff -> Nat]
  /\ txn \in [Conn -> Txn]
  /\ data \in [Server -> SUBSET Row] /\ ship \subseteq Row
  /\ refreshing \in Obj \cup {NULL}
  /\ saved \in [Name -> SUBSET Row] /\ fails \in 0..MaxFail

\* A one-off connection is open, under one name, exactly while objects use it,
\* and counts them all (bonddb_connection_ref and unref, called by
\* bonddb_new_full and bonddb_free): none is closed under an object.
Users(n) == {o \in Live : objs[o].conn_name = n}
Counted ==
  \A n \in Name :
    IF oo_conns[n] = NULL THEN Users(n) = {}
    ELSE /\ references[oo_conns[n]] = Cardinality(Users(n))
         /\ Users(n) # {}
         /\ \A m \in Name \ {n} : oo_conns[m] # oo_conns[n]

\* What objects save on a one-off connection stays in its transaction: no row
\* of it is committed while the transaction goes on (bonddb_new_full: the
\* connection is there "to do something in a transaction").
Isolated ==
  \A n \in Name :
    oo_conns[n] # NULL /\ txn[oo_conns[n]].state # "none" =>
      saved[n] \cap (data["local"] \cup data["master"]) = {}

\* It is all committed or all forgotten when the transaction ends.
EndsWhole(n) ==
  LET c == oo_conns[n] IN
  c # NULL /\ txn[c].state # "none" /\ txn'[c].state = "none" =>
    \/ saved[n] \subseteq data'[Home]
    \/ saved[n] \cap (data'["local"] \cup data'["master"]) = {}
Atomic == [][\A n \in Name : EndsWhole(n)]_vars

\* An object sees what has been saved under its name when it runs its query.
SeesOwn ==
  [][\A o \in Live :
       Idle /\ Named(o) /\ objs'[o] # NULL
         /\ objs'[o].res \notin {NULL, objs[o].res}
       => saved'[objs[o].conn_name] \subseteq objs'[o].res]_vars

\* A row an object has deleted is not in its result after the save, whose
\* last part fetches the result again (bonddb_write_all).
DeletionSeen ==
  Idle => \A o \in Live : objs[o].res # NULL => objs[o].res \cap objs[o].gone = {}

\* To whoever uses names only, a one-off connection is a transaction that
\* starts with the connection, or with a BEGIN, that nobody sees into, that is
\* committed whole, and that is rolled back when its last user is freed.
Unfinished(n) == IF oo_conns[n] = NULL THEN NULL
              ELSE IF txn[oo_conns[n]].state = "none" THEN NULL ELSE saved[n]
Transactions ==
  INSTANCE NamedTransactions
    WITH NoTxn <- NULL, store <- data["local"] \cup data["master"],
         pending <- [n \in Name |-> Unfinished(n)]
ImplementsTransactions == Transactions!TSpec
=============================================================================

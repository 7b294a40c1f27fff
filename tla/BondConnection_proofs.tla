------------------------ MODULE BondConnection_proofs ------------------------
(***************************************************************************)
(* Proofs about BondConnection, for any number of objects, names and       *)
(* connections: type correctness and the counts of connections; then       *)
(* transactions; then what an object sees; then the refinement of          *)
(* NamedTransactions.                                                      *)
(*                                                                         *)
(* Whatever fails, every one-off connection counts exactly the objects     *)
(* that use it.                                                            *)
(***************************************************************************)
EXTENDS BondConnection, FiniteSetTheorems, TLAPS

USE DEF Server

-----------------------------------------------------------------------------
(* Types.                                                                  *)

\* The connections a statement may go to exist.
LEMMA ConnType ==
  ASSUME TypeOK, NEW o \in Live
  PROVE  /\ objs[o] \in Object
         /\ QueryConn(o) \in Conn /\ WriteConn(o) \in Conn
         /\ LocalConn(o) \in Conn /\ DeleteConn(o) \in Conn
         /\ conn_remote_write \in Conn
<1>1. objs[o] \in Object
  BY DEF TypeOK, Live
<1>2. conn_remote_write \in Conn /\ conn_admin \in Conn
  BY DEF conn_remote_write, conn_admin, Conn
<1>3. "main" \in Conn
  BY DEF Conn
<1>4. objs[o].conn \in Conn
  BY <1>1 DEF Object
<1> QED
  BY <1>1, <1>2, <1>3, <1>4
  DEF QueryConn, WriteConn, LocalConn, DeleteConn, conn_remote_write_admin

\* A query returns rows.
LEMMA ViewType ==
  ASSUME TypeOK, NEW c \in Conn
  PROVE  View(c) \in SUBSET Row /\ ServerOf(c) \in Server
<1>1. ServerOf(c) \in Server
  BY DEF ServerOf
<1>2. txn[c] \in Txn /\ data[ServerOf(c)] \in SUBSET Row
  BY <1>1 DEF TypeOK
<1> QED
  BY <1>1, <1>2 DEF View, Txn

\* What an error leaves of the transactions.
LEMMA ErrorType ==
  ASSUME TypeOK, NEW C
  PROVE  AfterError(C) \in [Conn -> Txn]
<1>1. Broken \in Txn
  BY DEF Broken, Txn
<1> QED
  BY <1>1 DEF AfterError, TypeOK

LEMMA ChangedType ==
  ASSUME TypeOK, NEW c \in Conn, NEW S \in SUBSET Row, Changed(c, S)
  PROVE  ship' \subseteq Row
BY DEF TypeOK, Changed

LEMMA InsertionType ==
  ASSUME TypeOK, NEW c \in Conn, NEW r \in Row, NEW t \in [Conn -> Txn],
         Insertion(c, r, t)
  PROVE  /\ txn' \in [Conn -> Txn]
         /\ data' \in [Server -> SUBSET Row] /\ ship' \subseteq Row
<1>1. CASE t[c].state = "open"
  <2>1. t[c] \in Txn
    OBVIOUS
  <2>2. [t EXCEPT ![c].ins = @ \cup {r}] \in [Conn -> Txn]
    BY <2>1 DEF Txn
  <2> QED
    BY <1>1, <2>2 DEF Insertion, TypeOK, server
<1>2. CASE t[c].state # "open"
  <2>1. ship' \subseteq Row
    BY <1>2, ChangedType DEF Insertion
  <2>2. data' = [data EXCEPT ![ServerOf(c)] = @ \cup {r}] /\ txn' = t
    BY <1>2 DEF Insertion
  <2>3. data \in [Server -> SUBSET Row]
    BY DEF TypeOK
  <2> QED
    BY <2>1, <2>2, <2>3
<1> QED
  BY <1>1, <1>2

LEMMA DeletionType ==
  ASSUME TypeOK, NEW c \in Conn, NEW r \in Row, Deletion(c, r)
  PROVE  /\ txn' \in [Conn -> Txn]
         /\ data' \in [Server -> SUBSET Row] /\ ship' \subseteq Row
<1>0. txn \in [Conn -> Txn] /\ data \in [Server -> SUBSET Row]
  BY DEF TypeOK
<1>1. CASE r \notin View(c)
  BY <1>1 DEF Deletion, TypeOK, server
<1>2. CASE r \in View(c) /\ txn[c].state = "open"
  <2>1. [txn EXCEPT ![c].del = @ \cup {r}] \in [Conn -> Txn]
    BY <1>0 DEF Txn
  <2> QED
    BY <1>2, <2>1 DEF Deletion, TypeOK, server
<1>3. CASE r \in View(c) /\ txn[c].state # "open"
  <2>1. ship' \subseteq Row
    BY <1>3, ChangedType DEF Deletion
  <2>2. data' = [data EXCEPT ![ServerOf(c)] = @ \ {r}] /\ UNCHANGED txn
    BY <1>3 DEF Deletion
  <2> QED
    BY <2>1, <2>2, <1>0
<1> QED
  BY <1>1, <1>2, <1>3

LEMMA FailsType ==
  ASSUME TypeOK, NEW kind, Fails(kind)
  PROVE  fails' \in 0..MaxFail
BY ConnectionAssumption DEF TypeOK, Fails

LEMMA SavedType ==
  ASSUME TypeOK, NEW o \in Live, NEW r \in Row, Saved(o, r)
  PROVE  saved' \in [Name -> SUBSET Row]
<1>1. objs[o].conn_name \in Name \cup {NULL}
  BY ConnType DEF Object
<1> QED
  BY <1>1 DEF Saved, Named, TypeOK

-----------------------------------------------------------------------------
(* The users of a connection.                                              *)

\* No object is created, freed, or moved to another name.
SameUsers ==
  \A o \in Obj : /\ objs'[o] = NULL <=> objs[o] = NULL
                 /\ objs[o] # NULL => objs'[o].conn_name = objs[o].conn_name

LEMMA UsersFinite ==
  ASSUME NEW n
  PROVE  IsFiniteSet(Users(n))
<1>1. Users(n) \subseteq Obj
  BY DEF Users, Live
<1> QED
  BY <1>1, FS_Subset, ConnectionAssumption

LEMMA CountKept ==
  ASSUME Counted, SameUsers, UNCHANGED counts
  PROVE  Counted'
<1>1. ASSUME NEW n \in Name
      PROVE  Users(n)' = Users(n)
  BY DEF SameUsers, Users, Live
<1> QED
  BY <1>1 DEF Counted, counts

\* The struct of an object is changed to e, which has the same name.
LEMMA EditKeeps ==
  ASSUME TypeOK, NEW o \in Live, NEW e \in Object,
         e.conn_name = objs[o].conn_name, objs' = [objs EXCEPT ![o] = e]
  PROVE  objs' \in [Obj -> {NULL} \cup Object] /\ SameUsers
<1>1. objs \in [Obj -> {NULL} \cup Object] /\ objs[o] # NULL /\ o \in Obj
  BY DEF TypeOK, Live
<1> QED
  BY <1>1, ObjectAssumption DEF SameUsers

-----------------------------------------------------------------------------
(* Every step keeps the types and the counts.                              *)

\* The object whose result is to be fetched again has not been freed.
Pending == refreshing \in Live \cup {NULL}

IInv == TypeOK /\ Counted /\ Pending

LEMMA InitIInv == Init => IInv
<1> SUFFICES ASSUME Init PROVE IInv
  OBVIOUS
<1>1. TypeOK
  BY ConnectionAssumption DEF Init, TypeOK, Ended, Txn
<1>2. Counted
  BY DEF Init, Counted, Users, Live
<1>3. Pending
  BY DEF Init, Pending
<1> QED
  BY <1>1, <1>2, <1>3 DEF IInv

\* A step that touches the users of one name n at most: what is left to show
\* of the counts is the part of n.
LEMMA CountOthers ==
  ASSUME Counted, NEW n \in Name,
         \A m \in Name \ {n} :
           /\ oo_conns'[m] = oo_conns[m] /\ Users(m)' = Users(m)
           /\ oo_conns[m] # NULL =>
                references'[oo_conns[m]] = references[oo_conns[m]],
         IF oo_conns'[n] = NULL THEN Users(n)' = {}
         ELSE /\ references'[oo_conns'[n]] = Cardinality(Users(n)')
              /\ Users(n)' # {}
              /\ \A m \in Name \ {n} : oo_conns[m] # oo_conns'[n]
  PROVE  Counted'
<1>1. ASSUME NEW k \in Name \ {n}, oo_conns'[k] = NULL
      PROVE  Users(k)' = {}
  BY <1>1 DEF Counted
<1>2. ASSUME NEW k \in Name \ {n}, oo_conns'[k] # NULL
      PROVE  /\ references'[oo_conns'[k]] = Cardinality(Users(k)')
             /\ Users(k)' # {}
             /\ \A m \in Name \ {k, n} : oo_conns'[m] # oo_conns'[k]
             /\ oo_conns'[n] # oo_conns'[k]
  <2>1. /\ oo_conns[k] # NULL
        /\ references[oo_conns[k]] = Cardinality(Users(k))
        /\ Users(k) # {}
        /\ \A m \in Name \ {k} : oo_conns[m] # oo_conns[k]
    BY <1>2 DEF Counted
  <2>2. Cardinality(Users(k)') = Cardinality(Users(k))
    OBVIOUS
  <2>3. oo_conns'[n] # oo_conns'[k]
    BY <1>2
  <2> QED
    BY <2>1, <2>2, <2>3
<1> QED
  BY <1>1, <1>2 DEF Counted

\* A step that only edits the struct of an object keeps the counts.
LEMMA CountEdit ==
  ASSUME IInv, NEW o \in Live, NEW e \in Object,
         e.conn_name = objs[o].conn_name, objs' = [objs EXCEPT ![o] = e],
         UNCHANGED counts, 
         txn' \in [Conn -> Txn],
         data' \in [Server -> SUBSET Row], ship' \subseteq Row,
         refreshing' \in Live \cup {NULL},
         saved' \in [Name -> SUBSET Row], fails' \in 0..MaxFail
  PROVE  IInv'
<1>1. objs' \in [Obj -> {NULL} \cup Object] /\ SameUsers
  BY EditKeeps DEF IInv
<1>2. Counted'
  BY <1>1, CountKept DEF IInv
<1>3. Pending' /\ refreshing' \in Obj \cup {NULL}
  BY <1>1 DEF Pending, Live, SameUsers
<1> QED
  BY <1>1, <1>2, <1>3 DEF IInv, TypeOK, counts

\* Nor does one that leaves the objects alone.
LEMMA CountSame ==
  ASSUME IInv, UNCHANGED <<objs, counts>>,
         txn' \in [Conn -> Txn],
         data' \in [Server -> SUBSET Row], ship' \subseteq Row,
         refreshing' \in Live \cup {NULL},
         saved' \in [Name -> SUBSET Row], fails' \in 0..MaxFail
  PROVE  IInv'
<1>1. SameUsers
  BY DEF SameUsers
<1>2. Counted'
  BY <1>1, CountKept DEF IInv
<1>3. Pending' /\ refreshing' \in Obj \cup {NULL}
  BY DEF Pending, Live
<1> QED
  BY <1>2, <1>3 DEF IInv, TypeOK, counts

\* A new object, of name n, is the one more user of its connection.
LEMMA UserAdded ==
  ASSUME TypeOK, NEW o \in Obj, objs[o] = NULL, NEW e \in Object,
         objs' = [objs EXCEPT ![o] = e]
  PROVE  /\ objs' \in [Obj -> {NULL} \cup Object]
         /\ \A n \in Name : Users(n)' =
              IF e.conn_name = n THEN Users(n) \cup {o} ELSE Users(n)
         /\ \A n : o \notin Users(n)
<1>1. e # NULL /\ objs \in [Obj -> {NULL} \cup Object]
  BY ObjectAssumption DEF TypeOK
<1>2. objs'[o] = e /\ \A p \in Obj \ {o} : objs'[p] = objs[p]
  BY <1>1
<1> QED
  BY <1>1, <1>2 DEF Users, Live

\* The struct of an object that is created.
LEMMA BlankType ==
  ASSUME NEW c \in Conn, NEW n \in Name \cup {NULL}, NEW adm \in BOOLEAN
  PROVE  Blank(c, n, adm) \in Object /\ Blank(c, n, adm).conn_name = n
BY DEF Blank, Object

LEMMA NewPlainKeeps ==
  ASSUME IInv, NEW o \in Obj, NEW adm \in BOOLEAN, NewPlain(o, adm)
  PROVE  IInv'
<1> DEFINE e == Blank("main", NULL, adm)
<1>1. e \in Object /\ e.conn_name = NULL
  BY BlankType DEF Conn
<1>2. objs[o] = NULL /\ objs' = [objs EXCEPT ![o] = e]
  BY DEF NewPlain
<1>3. /\ objs' \in [Obj -> {NULL} \cup Object]
      /\ \A n \in Name : Users(n)' = Users(n)
  BY <1>1, <1>2, UserAdded, ConnectionAssumption DEF IInv
<1>4. UNCHANGED <<oo_conns, references, txn, data, ship, refreshing, saved, fails>>
  BY DEF NewPlain, counts, server
<1> QED
  BY <1>3, <1>4 DEF NewPlain, IInv, TypeOK, Counted, Pending, Idle

LEMMA NewSharedKeeps ==
  ASSUME IInv, NEW o \in Obj, NEW n \in Name, NEW adm \in BOOLEAN,
         NewShared(o, n, adm)
  PROVE  IInv'
<1> DEFINE c == oo_conns[n]
           e == Blank(c, n, adm)
<1>0. c \in OneOff /\ c \in Conn
  BY DEF NewShared, IInv, TypeOK, Conn
<1>1. e \in Object /\ e.conn_name = n
  BY <1>0, BlankType
<1>2. objs[o] = NULL /\ objs' = [objs EXCEPT ![o] = e]
  BY DEF NewShared
<1>3. /\ objs' \in [Obj -> {NULL} \cup Object]
      /\ \A m \in Name :
           Users(m)' = IF n = m THEN Users(m) \cup {o} ELSE Users(m)
      /\ \A m : o \notin Users(m)
  BY <1>1, <1>2, UserAdded DEF IInv
<1>4. UNCHANGED <<oo_conns, txn, data, ship, refreshing, saved, fails>>
  BY DEF NewShared, server
<1>5. references' = [references EXCEPT ![c] = @ + 1]
  BY DEF NewShared, Ref
<1>6. references' \in [OneOff -> Nat] /\ references'[c] = references[c] + 1
  BY <1>0, <1>5 DEF IInv, TypeOK
<1>7. Cardinality(Users(n)') = Cardinality(Users(n)) + 1
  BY <1>3, UsersFinite, FS_AddElement
<1>8. Counted'
  <2>1. oo_conns[n] # NULL /\ \A m \in Name \ {n} : oo_conns[m] # c
    BY DEF NewShared, Counted, IInv
  <2>2. \A m \in Name \ {n} : oo_conns[m] # NULL =>
          references'[oo_conns[m]] = references[oo_conns[m]]
    BY <1>0, <1>5, <2>1 DEF IInv, TypeOK
  <2>3. \A m \in Name \ {n} : Users(m)' = Users(m)
    BY <1>3
  <2>4. references'[c] = Cardinality(Users(n)') /\ Users(n)' # {}
    BY <1>3, <1>6, <1>7, <2>1 DEF IInv, Counted
  <2> QED
    BY <1>4, <2>1, <2>2, <2>3, <2>4 DEF IInv, Counted
<1> QED
  BY <1>3, <1>4, <1>6, <1>8 DEF NewShared, IInv, TypeOK, Pending, Idle

LEMMA NewConnectedKeeps ==
  ASSUME IInv, NEW o \in Obj, NEW n \in Name, NEW adm \in BOOLEAN,
         NewConnected(o, n, adm)
  PROVE  IInv'
<1>0. PICK c \in Unused :
        /\ ConnectionNew(c)
        /\ oo_conns' = [oo_conns EXCEPT ![n] = c]
        /\ objs' = [objs EXCEPT ![o] = Blank(c, n, adm)]
  BY DEF NewConnected
<1> DEFINE e == Blank(c, n, adm)
<1>1. c \in OneOff /\ c \in Conn /\ c # NULL
  BY ConnectionAssumption DEF Unused, Conn
<1>2. e \in Object /\ e.conn_name = n
  BY <1>1, BlankType
<1>3. objs[o] = NULL /\ oo_conns[n] = NULL
  BY DEF NewConnected
<1>4. /\ objs' \in [Obj -> {NULL} \cup Object]
      /\ \A m \in Name :
           Users(m)' = IF n = m THEN Users(m) \cup {o} ELSE Users(m)
  BY <1>0, <1>2, <1>3, UserAdded DEF IInv
<1>5. UNCHANGED <<data, ship, refreshing, saved, fails>>
  BY DEF NewConnected, server
<1>6. references' = [references EXCEPT ![c] = 1] /\ references' \in [OneOff -> Nat]
  BY <1>0 DEF ConnectionNew, IInv, TypeOK
<1>7. txn' \in [Conn -> Txn]
  <2>1. Begun \in Txn
    BY DEF Begun, Txn
  <2> QED
    BY <1>0, <2>1 DEF ConnectionNew, IInv, TypeOK
<1>8. oo_conns' \in [Name -> OneOff \cup {NULL}]
  BY <1>0, <1>1 DEF IInv, TypeOK
<1>9. Counted'
  <2>1. Users(n)' = {o}
    BY <1>3, <1>4 DEF IInv, Counted
  <2>2. references'[c] = Cardinality({o})
    BY <1>1, <1>6, FS_Singleton DEF IInv, TypeOK
  <2>3. oo_conns'[n] = c /\ \A m \in Name \ {n} : oo_conns'[m] = oo_conns[m]
    BY <1>0 DEF IInv, TypeOK
  <2>4. \A m \in Name : oo_conns[m] # c
    BY DEF Unused
  <2>5. \A m \in Name \ {n} : oo_conns[m] # NULL =>
          references'[oo_conns[m]] = references[oo_conns[m]]
    BY <1>6, <2>4 DEF IInv, TypeOK
  <2>6. \A m \in Name \ {n} : Users(m)' = Users(m)
    BY <1>4
  <2>7. Cardinality(Users(n)') = Cardinality({o}) /\ Users(n)' # {}
    BY <2>1
  <2> QED
    BY <1>1, <2>2, <2>3, <2>4, <2>5, <2>6, <2>7, CountOthers DEF IInv
<1> QED
  BY <1>4, <1>5, <1>6, <1>7, <1>8, <1>9
  DEF NewConnected, IInv, TypeOK, Pending, Idle

LEMMA NewFailsKeeps ==
  ASSUME IInv, NEW o \in Obj, NEW n \in Name, NewFails(o, n)
  PROVE  IInv'
<1>1. fails' \in 0..MaxFail
  BY FailsType DEF NewFails, IInv
<1> QED
  BY <1>1, CountSame DEF NewFails, IInv, TypeOK, Pending, server

\* The last user closes the connection, any other leaves it to the rest.
LEMMA FreeKeeps ==
  ASSUME IInv, NEW o \in Obj, Free(o)
  PROVE  IInv'
<1>0. PICK n : n = objs[o].conn_name
  OBVIOUS
<1> DEFINE c == oo_conns[n]
<1>1. objs[o] \in Object /\ o \in Live
  BY DEF Free, IInv, TypeOK, Live
<1>2. objs' \in [Obj -> {NULL} \cup Object]
  BY DEF Free, IInv, TypeOK
<1>3. \A m \in Name : Users(m)' = Users(m) \ {o}
  BY DEF Free, IInv, TypeOK, Users, Live
<1>4. \A m \in Name : o \in Users(m) <=> m = n
  BY <1>0, <1>1 DEF Users
<1>5. UNCHANGED <<data, ship, refreshing, fails>> /\ Pending'
  BY DEF Free, server, Pending, Idle
<1>6. CASE ~Named(o)
  <2>1. \A m \in Name : Users(m)' = Users(m)
    BY <1>0, <1>3, <1>4, <1>6, ConnectionAssumption DEF Named
  <2>2. UNCHANGED <<oo_conns, references, txn, saved>>
    BY <1>6 DEF Free, counts
  <2> QED
    BY <1>2, <1>5, <2>1, <2>2 DEF IInv, TypeOK, Counted
<1>7. CASE Named(o)
  <2>1. n \in Name
    BY <1>0, <1>1, <1>7 DEF Object, Named
  <2>2. o \in Users(n)
    BY <1>4, <2>1
  <2>3. c \in OneOff /\ c \in Conn /\ references[c] = Cardinality(Users(n))
    BY <2>1, <2>2 DEF IInv, Counted, TypeOK, Conn
  <2>4. Cardinality(Users(n)') = references[c] - 1
    BY <1>3, <2>1, <2>2, <2>3, UsersFinite, FS_RemoveElement
  <2>5. references' = [references EXCEPT ![c] = @ - 1]
    BY <1>0, <1>7 DEF Free
  <2>6. references[c] \in Nat \ {0}
    <3>1. references[c] \in Nat
      BY <2>3 DEF IInv, TypeOK
    <3>2. references[c] # 0
      BY <2>2, <2>3, UsersFinite, FS_EmptySet
    <3> QED
      BY <3>1, <3>2
  <2>7. references' \in [OneOff -> Nat]
    BY <2>3, <2>5, <2>6 DEF IInv, TypeOK
  <2>8. \A m \in Name \ {n} : oo_conns[m] # c /\ Users(m)' = Users(m)
    <3>1. \A m \in Name \ {n} : o \notin Users(m)
      BY <1>4
    <3>2. \A m \in Name \ {n} : Users(m)' = Users(m)
      BY <1>3, <3>1
    <3>3. c # NULL
      BY <2>3, ConnectionAssumption
    <3>4. \A m \in Name \ {n} : oo_conns[m] # c
      BY <2>1, <3>3 DEF IInv, Counted
    <3> QED
      BY <3>2, <3>4
  <2>9. \A m \in Name \ {n} : oo_conns[m] # NULL =>
          references'[oo_conns[m]] = references[oo_conns[m]]
    BY <2>5, <2>8 DEF IInv, TypeOK
  <2>10. CASE references[c] = 1
    <3>1. /\ oo_conns' = [oo_conns EXCEPT ![n] = NULL]
          /\ txn' = [txn EXCEPT ![c] = Ended]
          /\ saved' = [saved EXCEPT ![n] = {}]
      BY <1>0, <1>7, <2>10 DEF Free
    <3>2. Users(n)' = {}
      <4>1. IsFiniteSet(Users(n)')
        BY <1>3, <2>1, UsersFinite, FS_RemoveElement
      <4>2. Cardinality(Users(n)') = 0
        BY <2>4, <2>10
      <4> QED
        BY <4>1, <4>2, FS_EmptySet
    <3>3. oo_conns'[n] = NULL /\ \A m \in Name \ {n} : oo_conns'[m] = oo_conns[m]
      BY <2>1, <3>1 DEF IInv, TypeOK
    <3>4. Counted'
      BY <2>1, <2>8, <2>9, <3>2, <3>3, CountOthers DEF IInv
    <3>5. Ended \in Txn
      BY DEF Ended, Txn
    <3> QED
      BY <1>2, <1>5, <2>3, <2>7, <3>1, <3>4, <3>5 DEF IInv, TypeOK
  <2>11. CASE references[c] # 1
    <3>1. UNCHANGED <<oo_conns, txn, saved>>
      BY <1>0, <1>7, <2>11 DEF Free
    <3>2. references'[c] = Cardinality(Users(n)')
      BY <2>3, <2>4, <2>5 DEF IInv, TypeOK
    <3>3. Users(n)' # {}
      <4>1. Cardinality(Users(n)') # 0
        BY <2>4, <2>6, <2>11
      <4> QED
        BY <4>1, FS_EmptySet
    <3>4. Counted'
      <4>1. oo_conns'[n] = c /\ c # NULL
        BY <2>3, <3>1, ConnectionAssumption
      <4> QED
        BY <2>1, <2>8, <2>9, <3>1, <3>2, <3>3, <4>1, CountOthers DEF IInv
    <3> QED
      BY <1>2, <1>5, <2>7, <3>1, <3>4 DEF IInv, TypeOK
  <2> QED
    BY <2>10, <2>11
<1> QED
  BY <1>6, <1>7

\* An object is given another result.
LEMMA ResultEdit ==
  ASSUME TypeOK, NEW o \in Live, NEW res \in {NULL} \cup SUBSET Row,
         NEW gone \in SUBSET Row, NEW c \in Conn
  PROVE  LET e == [objs[o] EXCEPT !.conn = c, !.res = res, !.gone = gone]
         IN  e \in Object /\ e.conn_name = objs[o].conn_name
<1>1. objs[o] \in Object
  BY ConnType
<1> QED
  BY <1>1 DEF Object

\* The objects when o has been moved to connection d.
Moved(o, d) == [objs EXCEPT ![o].conn = d]

\* Object o is moved to d and given some result.
Asks(o, d) ==
  \E res \in {NULL} \cup SUBSET Row :
    objs' = [objs EXCEPT ![o] =
               [objs[o] EXCEPT !.conn = d, !.res = res, !.gone = {}]]

\* What a query of o on c leaves when o is then on d.
LEMMA AskedType ==
  ASSUME TypeOK, NEW o \in Live, NEW c \in Conn, NEW d \in Conn,
         Asked(o, c, Moved(o, d))
  PROVE  /\ txn' \in [Conn -> Txn] /\ fails' \in 0..MaxFail
         /\ Asks(o, d)
<1>0. objs \in [Obj -> {NULL} \cup Object] /\ o \in Obj /\ objs[o] \in Object
  BY ConnType DEF TypeOK, Live
<1>1. ASSUME NEW res,
             objs' = [Moved(o, d) EXCEPT ![o].res = res, ![o].gone = {}]
      PROVE  objs' = [objs EXCEPT ![o] =
                        [objs[o] EXCEPT !.conn = d, !.res = res, !.gone = {}]]
  BY <1>0, <1>1 DEF Moved
<1>2. CASE /\ objs' = [Moved(o, d) EXCEPT ![o].res = View(c), ![o].gone = {}]
           /\ UNCHANGED <<txn, fails>>
  BY <1>1, <1>2, ViewType DEF TypeOK, Asks
<1>3. CASE /\ IF txn[c].state = "failed" THEN UNCHANGED fails ELSE Fails(Kind(o))
           /\ objs' = [Moved(o, d) EXCEPT ![o].res = NULL, ![o].gone = {}]
           /\ txn' = AfterError({c})
  <2>1. fails' \in 0..MaxFail
    BY <1>3, FailsType DEF TypeOK
  <2> QED
    BY <1>1, <1>3, <2>1, ErrorType DEF Asks
<1> QED
  BY <1>2, <1>3 DEF Asked

\* A step that gives an object another result, and maybe another connection.
LEMMA AskedKeeps ==
  ASSUME IInv, NEW o \in Live, NEW d \in Conn, Asks(o, d),
         txn' \in [Conn -> Txn], fails' \in 0..MaxFail,
         Idle, UNCHANGED <<counts, server, refreshing, saved>>
  PROVE  IInv'
<1>0. PICK res \in {NULL} \cup SUBSET Row :
        objs' = [objs EXCEPT ![o] =
                   [objs[o] EXCEPT !.conn = d, !.res = res, !.gone = {}]]
  BY DEF Asks
<1> DEFINE e == [objs[o] EXCEPT !.conn = d, !.res = res, !.gone = {}]
<1>1. e \in Object /\ e.conn_name = objs[o].conn_name
  BY ResultEdit DEF IInv
<1>2. objs' = [objs EXCEPT ![o] = e]
  BY <1>0
<1>3. /\ UNCHANGED counts /\ data' \in [Server -> SUBSET Row]
      /\ ship' \subseteq Row /\ refreshing' \in Live \cup {NULL}
      /\ saved' \in [Name -> SUBSET Row]
  BY DEF IInv, TypeOK, server, Idle
<1> HIDE DEF e
<1> QED
  BY <1>1, <1>2, <1>3, CountEdit

LEMMA QueryKeeps ==
  ASSUME IInv, NEW o \in Obj, Query(o)
  PROVE  IInv'
<1>1. o \in Live /\ TypeOK
  BY DEF Query, Live, IInv
<1>0. PICK c, d : c = QueryConn(o) /\ d = objs[o].conn
  OBVIOUS
<1>2. c \in Conn /\ d \in Conn
  BY <1>0, <1>1, ConnType DEF Object
<1>3. objs = Moved(o, d)
  <2>1. objs \in [Obj -> {NULL} \cup Object] /\ objs[o] \in Object
    BY <1>1, ConnType DEF TypeOK
  <2>2. objs[o] = [objs[o] EXCEPT !.conn = objs[o].conn]
    BY <2>1 DEF Object
  <2> QED
    BY <1>0, <2>1, <2>2 DEF Moved
<1>4. Asked(o, c, Moved(o, d))
  BY <1>0, <1>3 DEF Query
<1>5. /\ txn' \in [Conn -> Txn] /\ fails' \in 0..MaxFail
      /\ Asks(o, d)
  BY <1>1, <1>2, <1>4, AskedType
<1>6. Idle /\ UNCHANGED <<counts, server, refreshing, saved>>
  BY DEF Query
<1> QED
  BY <1>1, <1>2, <1>5, <1>6, AskedKeeps

LEMMA RunnowWriteKeeps ==
  ASSUME IInv, NEW o \in Obj, RunnowWrite(o)
  PROVE  IInv'
<1>0. PICK d : d = conn_remote_write
  OBVIOUS
<1>1. o \in Live /\ TypeOK
  BY DEF RunnowWrite, Live, IInv
<1>2. /\ objs[o] \in Object /\ d \in Conn
      /\ objs \in [Obj -> {NULL} \cup Object]
  BY <1>0, <1>1, ConnType DEF TypeOK
<1>3. Idle /\ UNCHANGED <<counts, server, refreshing, saved>>
  BY DEF RunnowWrite
<1>4. CASE ~Named(o) /\ objs[o].admin /\ conn_remote_write_admin = NULL
  <2>1. objs' = [objs EXCEPT ![o].conn = d] /\ UNCHANGED <<txn, fails>>
    BY <1>0, <1>4 DEF RunnowWrite
  <2> DEFINE e == [objs[o] EXCEPT !.conn = d]
  <2>2. e \in Object /\ e.conn_name = objs[o].conn_name
    BY <1>2 DEF Object
  <2>3. objs' = [objs EXCEPT ![o] = e]
    BY <2>1
  <2>4. /\ UNCHANGED counts /\ data' \in [Server -> SUBSET Row]
        /\ ship' \subseteq Row /\ refreshing' \in Live \cup {NULL}
        /\ saved' \in [Name -> SUBSET Row]
        /\ txn' \in [Conn -> Txn] /\ fails' \in 0..MaxFail
    BY <1>1, <1>3, <2>1 DEF TypeOK, server, Idle
  <2> HIDE DEF e
  <2> QED
    BY <1>1, <2>2, <2>3, <2>4, CountEdit
<1>5. CASE ~(~Named(o) /\ objs[o].admin /\ conn_remote_write_admin = NULL)
  <2>1. Asked(o, d, Moved(o, d))
    BY <1>0, <1>5 DEF RunnowWrite, Moved
  <2>2. /\ txn' \in [Conn -> Txn] /\ fails' \in 0..MaxFail
        /\ Asks(o, d)
    BY <1>1, <1>2, <2>1, AskedType
  <2> QED
    BY <1>1, <1>2, <1>3, <2>2, AskedKeeps
<1> QED
  BY <1>4, <1>5

LEMMA RefreshKeeps == IInv /\ Refresh => IInv'
<1> SUFFICES ASSUME IInv, Refresh PROVE IInv'
  OBVIOUS
<1>1. PICK res \in {IF txn["main"].state = "failed" THEN {} ELSE View("main"),
                    NULL} :
        objs' = [objs EXCEPT ![refreshing].res = res]
  BY DEF Refresh
<1>2. TypeOK /\ "main" \in Conn
  BY DEF IInv, Conn
<1>3. res \in {NULL} \cup SUBSET Row
  BY <1>2, ViewType
<1>4. PICK o \in Live : o = refreshing
  BY DEF Refresh, Idle, IInv, Pending
<1>5. /\ UNCHANGED counts /\ txn' \in [Conn -> Txn]
      /\ data' \in [Server -> SUBSET Row] /\ ship' \subseteq Row
      /\ refreshing' \in Live \cup {NULL} /\ saved' \in [Name -> SUBSET Row]
      /\ fails' \in 0..MaxFail
  BY <1>2 DEF Refresh, TypeOK, server
<1>6. objs[o] \in Object /\ objs \in [Obj -> {NULL} \cup Object] /\ o \in Obj
  BY <1>2, ConnType DEF TypeOK, Live
<1> DEFINE e == [objs[o] EXCEPT !.res = res]
<1>7. e \in Object /\ e.conn_name = objs[o].conn_name
  BY <1>3, <1>6 DEF Object
<1>8. objs' = [objs EXCEPT ![o] = e]
  BY <1>1, <1>4, <1>6
<1> HIDE DEF e
<1> QED
  BY <1>5, <1>7, <1>8, CountEdit

LEMMA InsertKeeps ==
  ASSUME IInv, NEW o \in Obj, NEW r \in Row,
         Insert(o, r) \/ InsertLocally(o, r) \/ InsertFails(o, r)
  PROVE  IInv'
<1>1. o \in Live /\ TypeOK /\ refreshing' \in Live \cup {NULL}
      /\ UNCHANGED <<objs, counts>>
  BY DEF Insert, InsertLocally, InsertFails, Insertable, Live, Idle, IInv
<1>2. WriteConn(o) \in Conn /\ LocalConn(o) \in Conn
  BY <1>1, ConnType
<1>3. ASSUME InsertFailing(o) PROVE fails' \in 0..MaxFail
  BY <1>1, <1>3, FailsType DEF InsertFailing, TypeOK
<1>4. CASE Insert(o, r)
  <2>1. /\ txn' \in [Conn -> Txn]
        /\ data' \in [Server -> SUBSET Row] /\ ship' \subseteq Row
    BY <1>1, <1>2, <1>4, InsertionType DEF Insert, TypeOK
  <2>2. saved' \in [Name -> SUBSET Row] /\ fails' \in 0..MaxFail
    BY <1>1, <1>4, SavedType DEF Insert, TypeOK
  <2> QED
    BY <1>1, <2>1, <2>2, CountSame
<1>5. CASE InsertLocally(o, r)
  <2>1. AfterError({WriteConn(o)}) \in [Conn -> Txn]
    BY <1>1, <1>2, ErrorType
  <2>2. /\ txn' \in [Conn -> Txn]
        /\ data' \in [Server -> SUBSET Row] /\ ship' \subseteq Row
    BY <1>1, <1>2, <1>5, <2>1, InsertionType DEF InsertLocally
  <2>3. saved' \in [Name -> SUBSET Row] /\ fails' \in 0..MaxFail
    BY <1>1, <1>3, <1>5, SavedType DEF InsertLocally
  <2> QED
    BY <1>1, <2>2, <2>3, CountSame
<1>6. CASE InsertFails(o, r)
  <2>1. txn' \in [Conn -> Txn] /\ fails' \in 0..MaxFail
    BY <1>1, <1>2, <1>3, <1>6, ErrorType DEF InsertFails
  <2>2. /\ data' \in [Server -> SUBSET Row] /\ ship' \subseteq Row
        /\ saved' \in [Name -> SUBSET Row]
    BY <1>1, <1>6 DEF InsertFails, TypeOK, server
  <2> QED
    BY <1>1, <2>1, <2>2, CountSame
<1> QED
  BY <1>4, <1>5, <1>6

LEMMA DeleteKeeps ==
  ASSUME IInv, NEW o \in Obj, NEW r \in Row,
         Delete(o, r) \/ DeleteFails(o, r)
  PROVE  IInv'
<1>1. o \in Live /\ TypeOK /\ Deletes(o, r) /\ UNCHANGED counts
  BY DEF Delete, DeleteFails, Deletes, Live, IInv
<1>2. /\ objs[o] \in Object /\ DeleteConn(o) \in Conn
      /\ objs \in [Obj -> {NULL} \cup Object] /\ o \in Obj
  BY <1>1, ConnType DEF TypeOK, Live
<1> DEFINE e == [objs[o] EXCEPT !.gone = @ \cup {r}]
<1>3. e \in Object /\ e.conn_name = objs[o].conn_name
  BY <1>2 DEF Object
<1>4. objs' = [objs EXCEPT ![o] = e]
  BY <1>1, <1>2 DEF Deletes
<1> HIDE DEF e
<1>5. CASE Delete(o, r)
  <2>1. /\ txn' \in [Conn -> Txn]
        /\ data' \in [Server -> SUBSET Row] /\ ship' \subseteq Row
    BY <1>1, <1>2, <1>5, DeletionType DEF Delete
  <2>2. /\ refreshing' \in Live \cup {NULL}
        /\ saved' \in [Name -> SUBSET Row] /\ fails' \in 0..MaxFail
    BY <1>1, <1>5 DEF Delete, TypeOK
  <2> QED
    BY <1>1, <1>3, <1>4, <2>1, <2>2, CountEdit
<1>6. CASE DeleteFails(o, r)
  <2>1. fails' \in 0..MaxFail
    BY <1>1, <1>6, FailsType DEF DeleteFails, TypeOK
  <2>2. txn' \in [Conn -> Txn]
    BY <1>1, <1>2, <1>6, ErrorType DEF DeleteFails
  <2>3. /\ data' \in [Server -> SUBSET Row] /\ ship' \subseteq Row
        /\ saved' \in [Name -> SUBSET Row] /\ refreshing' \in Live \cup {NULL}
    BY <1>1, <1>6 DEF DeleteFails, Deletes, Idle, TypeOK, server
  <2> QED
    BY <1>1, <1>3, <1>4, <2>1, <2>2, <2>3, CountEdit
<1> QED
  BY <1>5, <1>6

LEMMA BeginKeeps ==
  ASSUME IInv, NEW o \in Obj, Begin(o)
  PROVE  IInv'
<1>1. o \in Live /\ TypeOK
  BY DEF Begin, Live, IInv
<1>2. /\ objs[o] \in Object /\ QueryConn(o) \in Conn /\ objs[o].conn \in Conn
      /\ objs \in [Obj -> {NULL} \cup Object] /\ o \in Obj
  BY <1>1, ConnType DEF TypeOK, Live, Object
<1> DEFINE e == [objs[o] EXCEPT !.res = {}, !.gone = {}]
<1>3. e \in Object /\ e.conn_name = objs[o].conn_name
  BY <1>2 DEF Object
<1>4. objs' = [objs EXCEPT ![o] = e]
  BY <1>2 DEF Begin
<1> HIDE DEF e
<1>5. txn' \in [Conn -> Txn]
  <2>1. Begun \in Txn
    BY DEF Begun, Txn
  <2> QED
    BY <1>1, <1>2, <2>1 DEF Begin, TypeOK
<1>6. /\ UNCHANGED counts /\ data' \in [Server -> SUBSET Row]
      /\ ship' \subseteq Row /\ refreshing' \in Live \cup {NULL}
      /\ saved' \in [Name -> SUBSET Row] /\ fails' \in 0..MaxFail
  BY <1>1 DEF Begin, Idle, TypeOK, server
<1> QED
  BY <1>1, <1>3, <1>4, <1>5, <1>6, CountEdit

LEMMA EndKeeps ==
  ASSUME IInv, NEW o \in Obj, NEW commits \in BOOLEAN, End(o, commits)
  PROVE  IInv'
<1>1. o \in Live /\ TypeOK
  BY DEF End, Live, IInv
<1> DEFINE c == QueryConn(o)
<1>2. /\ objs[o] \in Object /\ c \in Conn
      /\ objs \in [Obj -> {NULL} \cup Object] /\ o \in Obj
  BY <1>1, ConnType DEF TypeOK, Live
<1> DEFINE e == [objs[o] EXCEPT !.res = {}, !.gone = {}]
<1>3. e \in Object /\ e.conn_name = objs[o].conn_name
  BY <1>2 DEF Object
<1>4. objs' = [objs EXCEPT ![o] = e]
  BY <1>2 DEF End
<1>5. txn' \in [Conn -> Txn]
  <2>1. Ended \in Txn
    BY DEF Ended, Txn
  <2> QED
    BY <1>1, <1>2, <2>1 DEF End, TypeOK
<1>6. data' \in [Server -> SUBSET Row] /\ ship' \subseteq Row
  <2>1. txn[c].ins \in SUBSET Row /\ txn[c].del \in SUBSET Row
        /\ data \in [Server -> SUBSET Row]
    BY <1>1, <1>2 DEF TypeOK, Txn
  <2>2. CASE commits
    <3>1. /\ data' = [data EXCEPT ![ServerOf(c)] =
                        (@ \cup txn[c].ins) \ txn[c].del]
          /\ Changed(c, txn[c].ins \cup txn[c].del)
      BY <2>2 DEF End
    <3> HIDE DEF c
    <3>2. txn[c].ins \cup txn[c].del \in SUBSET Row
      BY <2>1
    <3> QED
      BY <1>1, <1>2, <2>1, <3>1, <3>2, ChangedType
  <2>3. CASE ~commits
    BY <1>1, <2>3 DEF End, TypeOK, server
  <2> QED
    BY <2>2, <2>3
<1>7. /\ UNCHANGED counts /\ refreshing' \in Live \cup {NULL}
      /\ saved' \in [Name -> SUBSET Row] /\ fails' \in 0..MaxFail
  BY <1>1 DEF End, Idle, TypeOK
<1> HIDE DEF c, e
<1> QED
  BY <1>1, <1>3, <1>4, <1>5, <1>6, <1>7, CountEdit

LEMMA ReplicateKeeps ==
  ASSUME IInv, NEW r \in Row, Replicate(r)
  PROVE  IInv'
<1>1. data' \in [Server -> SUBSET Row] /\ ship' \subseteq Row
  BY DEF Replicate, IInv, TypeOK
<1>2. /\ UNCHANGED <<objs, counts>> /\ txn' \in [Conn -> Txn]
      /\ refreshing' \in Live \cup {NULL}
      /\ saved' \in [Name -> SUBSET Row] /\ fails' \in 0..MaxFail
  BY DEF Replicate, IInv, TypeOK, Pending
<1> QED
  BY <1>1, <1>2, CountSame

\* IInv is inductive.
LEMMA Inductive == IInv /\ [Next]_vars => IInv'
<1> SUFFICES ASSUME IInv, [Next]_vars PROVE IInv'
  OBVIOUS
<1>1. ASSUME NEW o \in Obj, NEW adm \in BOOLEAN, NewPlain(o, adm)
      PROVE  IInv'
  BY <1>1, NewPlainKeeps
<1>2. ASSUME NEW o \in Obj, NEW adm \in BOOLEAN, NEW n \in Name,
             NewShared(o, n, adm) \/ NewConnected(o, n, adm)
      PROVE  IInv'
  BY <1>2, NewSharedKeeps, NewConnectedKeeps
<1>3. ASSUME NEW o \in Obj, NEW n \in Name, NewFails(o, n)
      PROVE  IInv'
  BY <1>3, NewFailsKeeps
<1>4. ASSUME NEW o \in Obj,
             Free(o) \/ Query(o) \/ RunnowWrite(o) \/ Begin(o)
      PROVE  IInv'
  BY <1>4, FreeKeeps, QueryKeeps, RunnowWriteKeeps, BeginKeeps
<1>5. ASSUME NEW o \in Obj, NEW commits \in BOOLEAN, End(o, commits)
      PROVE  IInv'
  BY <1>5, EndKeeps
<1>6. ASSUME NEW o \in Obj, NEW r \in Row,
             Insert(o, r) \/ InsertLocally(o, r) \/ InsertFails(o, r)
      PROVE  IInv'
  BY <1>6, InsertKeeps
<1>7. ASSUME NEW o \in Obj, NEW r \in Row, Delete(o, r) \/ DeleteFails(o, r)
      PROVE  IInv'
  BY <1>7, DeleteKeeps
<1>8. CASE Refresh
  BY <1>8, RefreshKeeps
<1>9. ASSUME NEW r \in Row, Replicate(r) PROVE IInv'
  BY <1>9, ReplicateKeeps
<1>10. CASE UNCHANGED vars
  <2>1. /\ UNCHANGED <<objs, counts, txn, data, ship, refreshing, saved, fails>>
        /\ refreshing' \in Live \cup {NULL}
    BY <1>10 DEF vars, server, IInv, Pending
  <2> QED
    BY <2>1, CountSame DEF IInv, TypeOK
<1> QED
  BY <1>1, <1>2, <1>3, <1>4, <1>5, <1>6, <1>7, <1>8, <1>9, <1>10 DEF Next

LEMMA Invariance == Spec => []IInv
<1> QED
  BY InitIInv, Inductive, PTL DEF Spec

\* Whatever is configured and whatever fails, the variables keep their types.
THEOREM ConnectionTypes == Spec => []TypeOK
<1>1. IInv => TypeOK
  BY DEF IInv
<1> QED
  BY <1>1, Invariance, PTL

\* A one-off connection is open under one name exactly while objects use it,
\* and its count is the number of them: bonddb_free closes no connection under
\* another object, and leaves none open behind the last.
THEOREM ConnectionsCounted == Spec => []Counted
<1>1. IInv => Counted
  BY DEF IInv
<1> QED
  BY <1>1, Invariance, PTL

-----------------------------------------------------------------------------
(***************************************************************************)
(* Proofs about the transactions of BondConnection: as long as no          *)
(* statement of an object on a one-off connection fails, and no such       *)
(* object leaves its transaction by a deletion or bonddb_sql_runnow_write, *)
(* what is saved on the connection stays in its transaction until it ends. *)
(***************************************************************************)

\* What the theorems assume of the application and the backend.
Careful == "inTransaction" \in Discipline /\ "named" \notin MayFail

-----------------------------------------------------------------------------
(* The inductive invariant.                                                *)

\* An object is on the connection of its name, or on none that has a name.
Placed ==
  \A o \in Live : IF Named(o) THEN objs[o].conn = oo_conns[objs[o].conn_name]
                  ELSE objs[o].conn \notin OneOff

\* Only one-off connections have a transaction; nothing breaks it, and nothing
\* is deleted in it.
Unbroken ==
  /\ \A c \in Conn \ OneOff : txn[c].state = "none"
  /\ \A c \in Conn : /\ txn[c].state # "failed" /\ txn[c].del = {}
                     /\ txn[c].state = "none" => txn[c].ins = {}

\* The rows saved under a name since its transaction began are what is in it.
Own ==
  \A n \in Name :
    IF oo_conns[n] = NULL THEN saved[n] = {}
    ELSE txn[oo_conns[n]].state # "none" => saved[n] = txn[oo_conns[n]].ins

\* A row is in one transaction at most, and in none when it is committed.
Committed == data["local"] \cup data["master"]
Apart ==
  \A c \in Conn : /\ txn[c].ins \cap Committed = {}
                  /\ \A d \in Conn \ {c} : txn[c].ins \cap txn[d].ins = {}

TInv == IInv /\ Placed /\ Unbroken /\ Own /\ Apart

\* It says that what is saved is not committed.
LEMMA TInvIsolated == TInv => Isolated
<1> SUFFICES ASSUME TInv, NEW n \in Name, oo_conns[n] # NULL,
                    txn[oo_conns[n]].state # "none"
             PROVE  saved[n] \cap Committed = {}
  BY DEF Isolated, Committed
<1>1. oo_conns[n] \in Conn
  BY DEF TInv, IInv, TypeOK, Conn
<1> QED
  BY <1>1 DEF TInv, Own, Apart

-----------------------------------------------------------------------------
(* Where statements go, and what an error does there.                      *)

LEMMA NotOneOff ==
  /\ conn_remote_write \in Conn \ OneOff /\ conn_admin \in Conn \ OneOff
  /\ "main" \in Conn \ OneOff
BY ConnectionAssumption DEF conn_remote_write, conn_admin, Conn

LEMMA Places ==
  ASSUME TInv, NEW o \in Live
  PROVE  /\ Named(o) => /\ objs[o].conn_name \in Name
                        /\ oo_conns[objs[o].conn_name] \in OneOff
                        /\ WriteConn(o) = oo_conns[objs[o].conn_name]
                        /\ QueryConn(o) = oo_conns[objs[o].conn_name]
         /\ ~Named(o) => /\ WriteConn(o) \notin OneOff
                         /\ QueryConn(o) \notin OneOff
                         /\ LocalConn(o) \notin OneOff
                         /\ DeleteConn(o) = conn_remote_write
<1>1. objs[o] \in Object
  BY ConnType DEF TInv, IInv
<1>2. CASE Named(o)
  <2>1. objs[o].conn_name \in Name
    BY <1>1, <1>2 DEF Object, Named
  <2>2. Users(objs[o].conn_name) # {}
    BY DEF Users
  <2>3. oo_conns[objs[o].conn_name] \in OneOff
    BY <2>1, <2>2 DEF TInv, IInv, Counted, TypeOK
  <2> QED
    BY <1>2, <2>1, <2>3 DEF TInv, Placed, WriteConn, QueryConn
<1>3. CASE ~Named(o)
  BY <1>3, NotOneOff
  DEF TInv, Placed, WriteConn, QueryConn, LocalConn, DeleteConn,
      conn_remote_write_admin
<1> QED
  BY <1>2, <1>3

\* An error outside the one-off connections breaks no transaction.
LEMMA NoHarm ==
  ASSUME TInv, NEW C, C \cap OneOff = {}
  PROVE  AfterError(C) = txn
<1>1. txn \in [Conn -> Txn]
  BY DEF TInv, IInv, TypeOK
<1>2. \A c \in Conn : c \in C => txn[c].state # "open"
  BY DEF TInv, Unbroken
<1> QED
  BY <1>1, <1>2 DEF AfterError

\* A query of a careful application changes no transaction.
LEMMA AskedHarmless ==
  ASSUME Careful, TInv, NEW o \in Live, NEW objects,
         NEW c \in Conn, IF Named(o) THEN c \in OneOff ELSE c \notin OneOff,
         Asked(o, c, objects)
  PROVE  UNCHANGED txn
<1>1. txn[c].state # "failed"
  BY DEF TInv, Unbroken
<1>2. CASE Named(o)
  BY <1>1, <1>2 DEF Asked, Fails, Kind, Careful
<1>3. CASE ~Named(o)
  BY <1>1, <1>3, NoHarm DEF Asked
<1> QED
  BY <1>2, <1>3

-----------------------------------------------------------------------------
(* The steps.                                                              *)

\* Steps that change neither transactions nor what is saved in them.
LEMMA Still ==
  ASSUME TInv, IInv', Placed', UNCHANGED <<oo_conns, txn, saved>>,
         \A c \in Conn : txn[c].ins \cap Committed' = {}
  PROVE  TInv'
BY DEF TInv, Unbroken, Own, Apart

\* Steps that leave every object on its connection.
LEMMA PlacedKept ==
  ASSUME Placed, UNCHANGED oo_conns,
         \A o \in Live' : /\ o \in Live
                          /\ objs'[o].conn = objs[o].conn
                          /\ objs'[o].conn_name = objs[o].conn_name
  PROVE  Placed'
BY DEF Placed, Named

\* What Committed becomes when nothing happens on the servers.
LEMMA QuietKeeps ==
  ASSUME TInv, IInv', Placed', UNCHANGED <<oo_conns, txn, saved, server>>
  PROVE  TInv'
<1>1. \A c \in Conn : txn[c].ins \cap Committed' = {}
  BY DEF TInv, Apart, Committed, server
<1> QED
  BY <1>1, Still

\* Object o is given the struct e; nobody else is on a connection that changes.
LEMMA PlacedBy ==
  ASSUME Placed, IInv, NEW o \in Obj, NEW e, objs' = [objs EXCEPT ![o] = e],
         e # NULL => IF e.conn_name # NULL THEN e.conn = oo_conns'[e.conn_name]
                     ELSE e.conn \notin OneOff,
         \A p \in Live \ {o} :
           Named(p) => oo_conns'[objs[p].conn_name] = oo_conns[objs[p].conn_name]
  PROVE  Placed'
<1> SUFFICES ASSUME NEW p \in Live'
             PROVE  IF Named(p)' THEN objs'[p].conn = oo_conns'[objs'[p].conn_name]
                    ELSE objs'[p].conn \notin OneOff
  BY DEF Placed
<1>0. objs \in [Obj -> {NULL} \cup Object]
  BY DEF IInv, TypeOK
<1>1. CASE p = o
  BY <1>0, <1>1 DEF Live, Named
<1>2. CASE p # o
  <2>1. objs'[p] = objs[p] /\ p \in Live
    BY <1>0, <1>2 DEF Live
  <2> QED
    BY <1>2, <2>1 DEF Placed, Named
<1> QED
  BY <1>1, <1>2

LEMMA NewPlainApart ==
  ASSUME TInv, IInv', NEW o \in Obj, NEW adm \in BOOLEAN, NewPlain(o, adm)
  PROVE  TInv'
<1>1. Placed'
  BY PlacedBy, NotOneOff DEF NewPlain, counts, Blank, TInv
<1> QED
  BY <1>1, QuietKeeps DEF NewPlain, counts

LEMMA NewSharedApart ==
  ASSUME TInv, IInv', NEW o \in Obj, NEW n \in Name, NEW adm \in BOOLEAN,
         NewShared(o, n, adm)
  PROVE  TInv'
<1>1. Placed'
  BY PlacedBy, ConnectionAssumption DEF NewShared, Blank, TInv
<1> QED
  BY <1>1, QuietKeeps DEF NewShared

LEMMA NewConnectedApart ==
  ASSUME TInv, IInv', NEW o \in Obj, NEW n \in Name, NEW adm \in BOOLEAN,
         NewConnected(o, n, adm)
  PROVE  TInv'
<1>0. PICK c \in Unused :
        /\ ConnectionNew(c)
        /\ oo_conns' = [oo_conns EXCEPT ![n] = c]
        /\ objs' = [objs EXCEPT ![o] = Blank(c, n, adm)]
  BY DEF NewConnected
<1>1. /\ oo_conns \in [Name -> OneOff \cup {NULL}] /\ txn \in [Conn -> Txn]
      /\ c \in OneOff /\ c \in Conn /\ c # NULL
  BY ConnectionAssumption DEF TInv, IInv, TypeOK, Unused, Conn
<1>2. oo_conns'[n] = c /\ \A m \in Name \ {n} : oo_conns'[m] = oo_conns[m]
  BY <1>0, <1>1
<1>3. /\ txn'[c] = Begun
      /\ \A d \in Conn \ {c} : txn'[d] = txn[d]
  BY <1>0, <1>1 DEF ConnectionNew
<1>4. Placed'
  <2>1. Users(n) = {}
    BY DEF NewConnected, TInv, IInv, Counted
  <2>2. \A p \in Live \ {o} :
          Named(p) => oo_conns'[objs[p].conn_name] = oo_conns[objs[p].conn_name]
    BY <1>2, <2>1, Places DEF Users
  <2> QED
    BY <1>0, <1>2, <2>2, PlacedBy, ConnectionAssumption DEF Blank, TInv
<1>5. Unbroken'
  BY <1>1, <1>3 DEF TInv, Unbroken, Begun
<1>6. Own'
  <2>1. UNCHANGED saved /\ saved[n] = {}
    BY DEF NewConnected, TInv, Own
  <2>2. \A m \in Name \ {n} : oo_conns[m] # c
    BY <1>0 DEF Unused
  <2>3. ASSUME NEW m \in Name \ {n}, oo_conns[m] # NULL
        PROVE  txn'[oo_conns[m]] = txn[oo_conns[m]]
    BY <1>1, <1>3, <2>2, <2>3 DEF Conn
  <2>4. saved'[n] = {} /\ txn'[oo_conns'[n]].ins = {} /\ oo_conns'[n] # NULL
    BY <1>1, <1>2, <1>3, <2>1 DEF Begun
  <2>5. ASSUME NEW m \in Name
        PROVE  IF oo_conns'[m] = NULL THEN saved'[m] = {}
               ELSE txn'[oo_conns'[m]].state # "none" =>
                      saved'[m] = txn'[oo_conns'[m]].ins
    <3>1. CASE m = n
      BY <2>4, <3>1
    <3>2. CASE m # n
      BY <1>2, <2>1, <2>3, <3>2 DEF TInv, Own
    <3> QED
      BY <3>1, <3>2
  <2> QED
    BY <2>5 DEF Own
<1>7. Apart'
  <2>1. UNCHANGED data
    BY DEF NewConnected, server
  <2> QED
    BY <1>3, <2>1 DEF TInv, Apart, Committed, Begun
<1> QED
  BY <1>4, <1>5, <1>6, <1>7 DEF TInv

\* The transaction of c, the connection of name n, ends without a trace or
\* begins.
LEMMA FreshKeeps ==
  ASSUME TInv, IInv', Placed', NEW n \in Name, NEW c \in OneOff,
         oo_conns[n] = c,
         \A m \in Name \ {n} : oo_conns'[m] = oo_conns[m],
         oo_conns'[n] \in {NULL, c},
         NEW t \in {Ended, Begun}, txn' = [txn EXCEPT ![c] = t],
         saved' = [saved EXCEPT ![n] = {}],
         \A d \in Conn \ {c} : txn[d].ins \cap Committed' = {}
  PROVE  TInv'
<1>1. c \in Conn /\ c # NULL /\ txn \in [Conn -> Txn]
      /\ oo_conns \in [Name -> OneOff \cup {NULL}]
      /\ saved \in [Name -> SUBSET Row]
  BY ConnectionAssumption DEF Conn, TInv, IInv, TypeOK
<1>2. txn'[c] = t /\ \A d \in Conn \ {c} : txn'[d] = txn[d]
  BY <1>1
<1>3. t.ins = {} /\ t.del = {} /\ t.state \in {"none", "open"}
  BY DEF Ended, Begun
<1>4. Unbroken'
  BY <1>2, <1>3 DEF TInv, Unbroken
<1>5. Own'
  <2>1. saved'[n] = {} /\ \A m \in Name \ {n} : saved'[m] = saved[m]
    BY <1>1
  <2>2. ASSUME NEW m \in Name \ {n}, oo_conns[m] # NULL
        PROVE  txn'[oo_conns[m]] = txn[oo_conns[m]]
    <3>1. oo_conns[m] # c
      BY <1>1, <2>2 DEF TInv, IInv, Counted
    <3> QED
      BY <1>1, <1>2, <2>2, <3>1 DEF Conn
  <2>3. ASSUME NEW m \in Name
        PROVE  IF oo_conns'[m] = NULL THEN saved'[m] = {}
               ELSE txn'[oo_conns'[m]].state # "none" =>
                      saved'[m] = txn'[oo_conns'[m]].ins
    <3>1. CASE m = n
      BY <1>1, <1>2, <1>3, <2>1, <3>1
    <3>2. CASE m # n
      BY <2>1, <2>2, <3>2 DEF TInv, Own
    <3> QED
      BY <3>1, <3>2
  <2> QED
    BY <2>3 DEF Own
<1>6. Apart'
  BY <1>2, <1>3 DEF TInv, Apart
<1> QED
  BY <1>4, <1>5, <1>6 DEF TInv

LEMMA FreeApart ==
  ASSUME TInv, IInv', NEW o \in Obj, Free(o)
  PROVE  TInv'
<1>0. PICK n : n = objs[o].conn_name
  OBVIOUS
<1>1. objs \in [Obj -> {NULL} \cup Object] /\ o \in Live
      /\ objs' = [objs EXCEPT ![o] = NULL] /\ UNCHANGED server
  BY DEF Free, TInv, IInv, TypeOK, Live
<1>2. CASE UNCHANGED <<oo_conns, txn, saved>>
  <2>1. Placed'
    BY <1>1, <1>2, PlacedBy DEF TInv
  <2> QED
    BY <1>1, <1>2, <2>1, QuietKeeps
<1>3. CASE ~UNCHANGED <<oo_conns, txn, saved>>
  <2>0. PICK c : c = oo_conns[n]
    OBVIOUS
  <2>1. /\ Named(o)
        /\ oo_conns' = [oo_conns EXCEPT ![n] = NULL]
        /\ txn' = [txn EXCEPT ![c] = Ended]
        /\ saved' = [saved EXCEPT ![n] = {}]
    BY <1>0, <1>3, <2>0 DEF Free, counts
  <2>2. n \in Name /\ c \in OneOff
    BY <1>0, <1>1, <2>0, <2>1, Places
  <2>3. oo_conns'[n] = NULL /\ \A m \in Name \ {n} : oo_conns'[m] = oo_conns[m]
    BY <2>1, <2>2 DEF TInv, IInv, TypeOK
  <2>4. Placed'
    <3>1. Users(n)' = {}
      BY <2>2, <2>3 DEF IInv, Counted
    <3>2. \A p \in Live \ {o} : objs'[p] = objs[p] /\ p \in Live'
      BY <1>1 DEF Live
    <3>3. \A p \in Live \ {o} : objs[p].conn_name # n
      BY <3>1, <3>2 DEF Users
    <3>4. \A p \in Live \ {o} :
            Named(p) => oo_conns'[objs[p].conn_name] = oo_conns[objs[p].conn_name]
      BY <2>3, <3>3, Places
    <3> QED
      BY <1>1, <3>4, PlacedBy DEF TInv
  <2>5. \A d \in Conn \ {c} : txn[d].ins \cap Committed' = {}
    BY <1>1 DEF TInv, Apart, Committed, server
  <2> QED
    BY <2>0, <2>1, <2>2, <2>3, <2>4, <2>5, FreshKeeps
<1> QED
  BY <1>2, <1>3

LEMMA NewFailsApart ==
  ASSUME TInv, IInv', NEW o \in Obj, NEW n \in Name, NewFails(o, n)
  PROVE  TInv'
<1>1. Placed'
  BY PlacedKept DEF NewFails, counts, TInv, Live
<1> QED
  BY <1>1, QuietKeeps DEF NewFails, counts

LEMMA QueryApart ==
  ASSUME Careful, TInv, IInv', NEW o \in Obj, Query(o)
  PROVE  TInv'
<1>1. o \in Live /\ objs \in [Obj -> {NULL} \cup Object] /\ objs[o] \in Object
  BY ConnType DEF Query, Live, TInv, IInv, TypeOK
<1>2. UNCHANGED txn
  <2>1. QueryConn(o) \in Conn
    BY <1>1, ConnType DEF TInv, IInv
  <2>2. IF Named(o) THEN QueryConn(o) \in OneOff ELSE QueryConn(o) \notin OneOff
    BY <1>1, Places
  <2> QED
    BY <1>1, <2>1, <2>2, AskedHarmless DEF Query
<1>3. \E res : objs' = [objs EXCEPT ![o].res = res, ![o].gone = {}]
  BY DEF Query, Asked
<1>4. Placed'
  BY <1>1, <1>3, PlacedKept, ObjectAssumption DEF Query, counts, TInv, Live, Object
<1> QED
  BY <1>2, <1>4, QuietKeeps DEF Query, counts

LEMMA RunnowWriteApart ==
  ASSUME Careful, TInv, IInv', NEW o \in Obj, RunnowWrite(o)
  PROVE  TInv'
<1>0. PICK c : c = conn_remote_write
  OBVIOUS
<1>1. /\ o \in Live /\ objs \in [Obj -> {NULL} \cup Object] /\ objs[o] \in Object
      /\ ~Named(o) /\ c \in Conn \ OneOff
  BY <1>0, ConnType, NotOneOff DEF RunnowWrite, Careful, Live, TInv, IInv, TypeOK
<1>2. \/ objs' = Moved(o, c) /\ UNCHANGED txn
      \/ Asked(o, c, Moved(o, c))
  BY <1>0 DEF RunnowWrite, Moved
<1>3. UNCHANGED txn
  BY <1>1, <1>2, AskedHarmless
<1>4. \E e : /\ objs' = [objs EXCEPT ![o] = e]
            /\ e # NULL /\ e.conn_name = NULL /\ e.conn = c
  <2>1. CASE objs' = Moved(o, c)
    <3> DEFINE e == [objs[o] EXCEPT !.conn = c]
    <3>1. objs' = [objs EXCEPT ![o] = e] /\ e \in Object
      BY <1>1, <2>1 DEF Moved, Object
    <3>2. e.conn_name = NULL /\ e.conn = c
      BY <1>1 DEF Object, Named
    <3> HIDE DEF e
    <3> QED
      BY <3>1, <3>2, ObjectAssumption
  <2>2. CASE Asked(o, c, Moved(o, c))
    <3>1. Asks(o, c)
      BY <1>1, <2>2, AskedType DEF TInv, IInv
    <3>2. PICK res \in {NULL} \cup SUBSET Row :
            objs' = [objs EXCEPT ![o] =
                       [objs[o] EXCEPT !.conn = c, !.res = res, !.gone = {}]]
      BY <3>1 DEF Asks
    <3> DEFINE e == [objs[o] EXCEPT !.conn = c, !.res = res, !.gone = {}]
    <3>3. e \in Object /\ e.conn_name = NULL /\ e.conn = c
      BY <1>1 DEF Object, Named
    <3>4. objs' = [objs EXCEPT ![o] = e]
      BY <3>2
    <3> HIDE DEF e
    <3> QED
      BY <3>3, <3>4, ObjectAssumption
  <2> QED
    BY <1>2, <2>1, <2>2
<1>5. Placed'
  <2>1. UNCHANGED oo_conns
    BY DEF RunnowWrite, counts
  <2> QED
    BY <1>1, <1>4, <2>1, PlacedBy DEF TInv
<1> QED
  BY <1>3, <1>5, QuietKeeps DEF RunnowWrite, counts

LEMMA RefreshApart ==
  ASSUME TInv, IInv', Refresh
  PROVE  TInv'
<1>1. PICK o \in Live : o = refreshing
  BY DEF Refresh, Idle, TInv, IInv, Pending
<1>2. objs \in [Obj -> {NULL} \cup Object] /\ objs[o] \in Object
  BY ConnType DEF TInv, IInv, TypeOK
<1>3. \E res : objs' = [objs EXCEPT ![o].res = res]
  BY <1>1 DEF Refresh
<1>4. Placed'
  BY <1>2, <1>3, PlacedKept, ObjectAssumption DEF Refresh, counts, TInv, Live, Object
<1> QED
  BY <1>4, QuietKeeps DEF Refresh, counts

LEMMA InsertFailsApart ==
  ASSUME Careful, TInv, IInv', NEW o \in Obj, NEW r \in Row, InsertFails(o, r)
  PROVE  TInv'
<1>1. o \in Live
  BY DEF InsertFails, Insertable, Live
<1>2. ~Named(o)
  <2>1. WriteConn(o) \in Conn
    BY <1>1, ConnType DEF TInv, IInv
  <2> QED
    BY <2>1 DEF InsertFails, InsertFailing, Fails, Kind, Careful, TInv, Unbroken
<1>3. UNCHANGED txn
  BY <1>1, <1>2, Places, NoHarm DEF InsertFails
<1>4. Placed'
  BY PlacedKept DEF InsertFails, counts, TInv, Live
<1> QED
  BY <1>3, <1>4, QuietKeeps DEF InsertFails, counts

\* An object that has no name inserts: the row is committed.
LEMMA Committing ==
  ASSUME TInv, IInv', NEW o \in Live, ~Named(o), NEW r \in Row,
         NEW c \in Conn \ OneOff,
         Insertable(o, r), Insertion(c, r, txn), Saved(o, r),
         UNCHANGED <<objs, oo_conns>>
  PROVE  TInv'
<1>1. txn[c].state # "open"
  BY DEF TInv, Unbroken
<1>2. UNCHANGED txn /\ data' = [data EXCEPT ![ServerOf(c)] = @ \cup {r}]
  BY <1>1 DEF Insertion
<1>3. data \in [Server -> SUBSET Row]
  BY DEF TInv, IInv, TypeOK
<1>4. Committed' \subseteq Committed \cup {r}
  BY <1>2, <1>3 DEF Committed
<1>5. \A d \in Conn : r \notin txn[d].ins
  BY DEF Insertable
<1>6. \A d \in Conn : txn[d].ins \cap Committed' = {}
  BY <1>4, <1>5 DEF TInv, Apart
<1>7. Placed' /\ UNCHANGED saved
  BY PlacedKept DEF Saved, TInv, Live
<1> QED
  BY <1>2, <1>6, <1>7, Still

LEMMA InsertApart ==
  ASSUME TInv, IInv', NEW o \in Obj, NEW r \in Row, Insert(o, r)
  PROVE  TInv'
<1>1. /\ o \in Live /\ Insertable(o, r) /\ Insertion(WriteConn(o), r, txn)
      /\ Saved(o, r) /\ UNCHANGED <<objs, oo_conns>>
  BY DEF Insert, Insertable, Live, counts
<1>2. Placed'
  BY <1>1, PlacedKept DEF TInv, Live
<1>3. CASE ~Named(o)
  <2>1. WriteConn(o) \in Conn \ OneOff
    BY <1>1, <1>3, Places, ConnType DEF TInv, IInv
  <2> QED
    BY <1>1, <1>3, <2>1, Committing
<1>4. CASE Named(o)
  <2>0. PICK n, c : n = objs[o].conn_name /\ c = WriteConn(o)
    OBVIOUS
  <2>1. n \in Name /\ c \in OneOff /\ c = oo_conns[n] /\ c \in Conn /\ c # NULL
    BY <1>1, <1>4, <2>0, Places, ConnectionAssumption DEF Conn
  <2>2. /\ txn \in [Conn -> Txn] /\ saved \in [Name -> SUBSET Row]
        /\ data \in [Server -> SUBSET Row] /\ txn[c] \in Txn
    BY <2>1 DEF TInv, IInv, TypeOK
  <2>3. \A d \in Conn : r \notin txn[d].ins
    BY <1>1 DEF Insertable
  <2>4. saved'[n] = saved[n] \cup {r} /\ \A m \in Name \ {n} : saved'[m] = saved[m]
    BY <1>1, <1>4, <2>0, <2>1, <2>2 DEF Saved
  <2>5. \A m \in Name \ {n} : oo_conns[m] # c
    BY <2>1 DEF TInv, IInv, Counted
  <2>6. \A m \in Name : oo_conns[m] # NULL => oo_conns[m] \in Conn
    BY DEF TInv, IInv, TypeOK, Conn
  <2>7. CASE txn[c].state = "open"
    <3>1. txn' = [txn EXCEPT ![c].ins = @ \cup {r}] /\ UNCHANGED data
      BY <1>1, <2>0, <2>7 DEF Insertion, server
    <3>2. /\ txn'[c].ins = txn[c].ins \cup {r}
          /\ txn'[c].state = "open" /\ txn'[c].del = txn[c].del
          /\ \A d \in Conn \ {c} : txn'[d] = txn[d]
      BY <2>1, <2>2, <2>7, <3>1 DEF Txn
    <3>3. r \notin Committed
      BY <1>1 DEF Insertable, Committed
    <3>4. Unbroken'
      BY <2>1, <3>2 DEF TInv, Unbroken
    <3>5. Apart'
      BY <2>3, <3>1, <3>2, <3>3 DEF TInv, Apart, Committed
    <3>6. ASSUME NEW m \in Name \ {n}, oo_conns[m] # NULL
          PROVE  txn'[oo_conns[m]] = txn[oo_conns[m]]
      BY <2>5, <2>6, <3>2, <3>6
    <3>7. Own'
      <4>1. UNCHANGED oo_conns /\ Own
        BY <1>1 DEF TInv
      <4>2. saved'[n] = txn'[c].ins
        BY <2>1, <2>4, <2>7, <3>2, <4>1 DEF Own
      <4>3. ASSUME NEW m \in Name \ {n}
            PROVE  IF oo_conns[m] = NULL THEN saved'[m] = {}
                   ELSE txn'[oo_conns[m]].state # "none" =>
                          saved'[m] = txn'[oo_conns[m]].ins
        <5>1. saved'[m] = saved[m]
          BY <2>4
        <5>2. CASE oo_conns[m] = NULL
          BY <4>1, <5>1, <5>2 DEF Own
        <5>3. CASE oo_conns[m] # NULL
          <6>1. txn'[oo_conns[m]] = txn[oo_conns[m]]
            BY <3>6, <5>3
          <6> QED
            BY <4>1, <5>1, <5>3, <6>1 DEF Own
        <5> QED
          BY <5>2, <5>3
      <4> QED
        BY <2>1, <4>1, <4>2, <4>3 DEF Own
    <3> QED
      BY <1>2, <3>4, <3>5, <3>7 DEF TInv
  <2>8. CASE txn[c].state # "open"
    <3>1. txn' = txn /\ data' = [data EXCEPT ![ServerOf(c)] = @ \cup {r}]
      BY <1>1, <2>0, <2>8 DEF Insertion
    <3>2. Committed' \subseteq Committed \cup {r}
      BY <2>2, <3>1 DEF Committed
    <3>3. Unbroken'
      BY <3>1 DEF TInv, Unbroken
    <3>4. Apart'
      BY <2>3, <3>1, <3>2 DEF TInv, Apart
    <3>5. txn[c].state = "none"
      BY <2>1, <2>2, <2>8 DEF TInv, Unbroken, Txn
    <3>6. Own'
      <4>1. UNCHANGED <<oo_conns, txn>> /\ Own
        BY <1>1, <3>1 DEF TInv
      <4> QED
        BY <2>1, <2>4, <3>5, <4>1 DEF Own
    <3> QED
      BY <1>2, <3>3, <3>4, <3>6 DEF TInv
  <2> QED
    BY <2>7, <2>8
<1> QED
  BY <1>3, <1>4

LEMMA InsertLocallyApart ==
  ASSUME Careful, TInv, IInv', NEW o \in Obj, NEW r \in Row, InsertLocally(o, r)
  PROVE  TInv'
<1>1. /\ o \in Live /\ Insertable(o, r) /\ InsertFailing(o) /\ Saved(o, r)
      /\ Insertion(LocalConn(o), r, AfterError({WriteConn(o)}))
      /\ UNCHANGED <<objs, oo_conns>>
  BY DEF InsertLocally, Insertable, Live, counts
<1>2. WriteConn(o) \in Conn /\ LocalConn(o) \in Conn
  BY <1>1, ConnType DEF TInv, IInv
<1>3. ~Named(o)
  BY <1>1, <1>2 DEF InsertFailing, Fails, Kind, Careful, TInv, Unbroken
<1>4. LocalConn(o) \notin OneOff /\ WriteConn(o) \notin OneOff
  BY <1>1, <1>3, Places
<1>5. AfterError({WriteConn(o)}) = txn
  BY <1>4, NoHarm
<1>6. Insertion(LocalConn(o), r, txn)
  BY <1>1, <1>5
<1> QED
  BY <1>1, <1>2, <1>3, <1>4, <1>6, Committing

LEMMA DeleteApart ==
  ASSUME Careful, TInv, IInv', NEW o \in Obj, NEW r \in Row,
         Delete(o, r) \/ DeleteFails(o, r)
  PROVE  TInv'
<1>1. /\ o \in Live /\ ~Named(o) /\ UNCHANGED oo_conns
      /\ objs' = [objs EXCEPT ![o].gone = @ \cup {r}]
  BY DEF Delete, DeleteFails, Deletes, Live, counts, Careful
<1>2. /\ objs \in [Obj -> {NULL} \cup Object] /\ objs[o] \in Object
      /\ data \in [Server -> SUBSET Row] /\ saved \in [Name -> SUBSET Row]
  BY <1>1, ConnType DEF TInv, IInv, TypeOK
<1>3. Placed'
  BY <1>1, <1>2, PlacedKept, ObjectAssumption DEF TInv, Live, Object
<1>4. PICK c \in Conn \ OneOff : c = DeleteConn(o)
  BY <1>1, Places, NotOneOff
<1>5. CASE DeleteFails(o, r)
  <2>1. UNCHANGED txn
    BY <1>4, <1>5, NoHarm DEF DeleteFails
  <2> QED
    BY <1>3, <1>5, <2>1, QuietKeeps DEF DeleteFails, counts
<1>6. CASE Delete(o, r)
  <2>1. txn[c].state = "none" /\ Deletion(c, r)
    BY <1>4, <1>6 DEF Delete, TInv, Unbroken
  <2>2. /\ UNCHANGED txn
        /\ UNCHANGED data \/ data' = [data EXCEPT ![ServerOf(c)] = @ \ {r}]
    BY <2>1 DEF Deletion, server
  <2>3. Committed' \subseteq Committed
    <3>1. \A s \in Server : data'[s] \subseteq data[s]
      BY <1>2, <2>2
    <3> QED
      BY <3>1 DEF Committed
  <2>4. \A d \in OneOff : r \notin txn[d].ins
    BY <1>4, <1>6 DEF Delete, Deletes, Untouched, Conn
  <2>5. Own'
    <3>1. \A n \in Name : oo_conns[n] # NULL => oo_conns[n] \in OneOff
      BY DEF TInv, IInv, TypeOK
    <3>2. \A n \in Name : saved'[n] = saved[n] \ {r}
      BY <1>6 DEF Delete
    <3> SUFFICES ASSUME NEW n \in Name
                 PROVE  IF oo_conns[n] = NULL THEN saved'[n] = {}
                        ELSE txn[oo_conns[n]].state # "none" =>
                               saved'[n] = txn[oo_conns[n]].ins
      BY <1>1, <2>2 DEF Own
    <3>3. CASE oo_conns[n] = NULL
      BY <3>2, <3>3 DEF TInv, Own
    <3>4. CASE oo_conns[n] # NULL /\ txn[oo_conns[n]].state # "none"
      <4>1. saved[n] = txn[oo_conns[n]].ins
        BY <3>4 DEF TInv, Own
      <4>2. r \notin saved[n]
        BY <2>4, <3>1, <3>4, <4>1
      <4> QED
        BY <3>2, <3>4, <4>1, <4>2
    <3> QED
      BY <3>3, <3>4
  <2>6. Unbroken' /\ Apart'
    BY <2>2, <2>3 DEF TInv, Unbroken, Apart
  <2> QED
    BY <1>3, <2>5, <2>6 DEF TInv
<1> QED
  BY <1>5, <1>6

\* An object on a one-off connection runs a query that has no rows.
LEMMA RanKeeps ==
  ASSUME TInv, NEW o \in Live, UNCHANGED oo_conns,
         objs' = [objs EXCEPT ![o].res = {}, ![o].gone = {}]
  PROVE  Placed'
<1>1. objs \in [Obj -> {NULL} \cup Object] /\ objs[o] \in Object
  BY ConnType DEF TInv, IInv, TypeOK
<1> QED
  BY <1>1, PlacedKept, ObjectAssumption DEF TInv, Live, Object

LEMMA BeginApart ==
  ASSUME TInv, IInv', NEW o \in Obj, Begin(o)
  PROVE  TInv'
<1>0. PICK n, c : n = objs[o].conn_name /\ c = QueryConn(o)
  OBVIOUS
<1>1. o \in Live /\ Named(o) /\ UNCHANGED <<oo_conns, data>>
  BY DEF Begin, Live, counts, server
<1>2. n \in Name /\ c \in OneOff /\ oo_conns[n] = c
  BY <1>0, <1>1, Places
<1>3. /\ txn' = [txn EXCEPT ![c] = Begun]
      /\ saved' = [saved EXCEPT ![n] = {}]
  BY <1>0 DEF Begin
<1>4. Placed'
  BY <1>1, RanKeeps DEF Begin
<1>5. \A d \in Conn \ {c} : txn[d].ins \cap Committed' = {}
  BY <1>1 DEF TInv, Apart, Committed
<1> QED
  BY <1>1, <1>2, <1>3, <1>4, <1>5, FreshKeeps

LEMMA EndApart ==
  ASSUME TInv, IInv', NEW o \in Obj, NEW commits \in BOOLEAN, End(o, commits)
  PROVE  TInv'
<1>0. PICK n, c : n = objs[o].conn_name /\ c = QueryConn(o)
  OBVIOUS
<1>1. o \in Live /\ Named(o) /\ UNCHANGED oo_conns
  BY DEF End, Live, counts
<1>2. n \in Name /\ c \in OneOff /\ c \in Conn /\ oo_conns[n] = c
  BY <1>0, <1>1, Places DEF Conn
<1>3. /\ txn' = [txn EXCEPT ![c] = Ended]
      /\ saved' = [saved EXCEPT ![n] = {}]
      /\ UNCHANGED data \/
           data' = [data EXCEPT ![ServerOf(c)] = (@ \cup txn[c].ins) \ txn[c].del]
  BY <1>0 DEF End, server
<1>4. Placed'
  BY <1>1, RanKeeps DEF End
<1>5. Committed' \subseteq Committed \cup txn[c].ins
  <2>1. \A s \in Server : data'[s] \subseteq data[s] \cup txn[c].ins
    BY <1>3 DEF TInv, IInv, TypeOK
  <2> QED
    BY <2>1 DEF Committed
<1>6. \A d \in Conn \ {c} : txn[d].ins \cap Committed' = {}
  BY <1>2, <1>5 DEF TInv, Apart
<1> QED
  BY <1>1, <1>2, <1>3, <1>4, <1>6, FreshKeeps

LEMMA ReplicateApart ==
  ASSUME TInv, IInv', NEW r \in Row, Replicate(r)
  PROVE  TInv'
<1>1. Committed' \subseteq Committed
  BY DEF Replicate, Committed, TInv, IInv, TypeOK
<1>2. Placed'
  BY PlacedKept DEF Replicate, counts, TInv, Live
<1> QED
  BY <1>1, <1>2, Still DEF Replicate, counts, TInv, Apart

LEMMA InitTInv == Init => TInv
<1> SUFFICES ASSUME Init PROVE TInv
  OBVIOUS
<1>1. IInv
  BY InitIInv
<1>2. Placed /\ Own
  BY DEF Init, Placed, Own, Live
<1>3. Unbroken /\ Apart
  BY DEF Init, Unbroken, Apart, Committed, Ended
<1> QED
  BY <1>1, <1>2, <1>3 DEF TInv

\* TInv is inductive for a careful application.
LEMMA TInductive ==
  ASSUME Careful, TInv, [Next]_vars
  PROVE  TInv'
<1>0. IInv'
  BY Inductive DEF TInv
<1>1. ASSUME NEW o \in Obj, NEW adm \in BOOLEAN, NewPlain(o, adm)
      PROVE  TInv'
  BY <1>0, <1>1, NewPlainApart
<1>2. ASSUME NEW o \in Obj, NEW adm \in BOOLEAN, NEW n \in Name,
             NewShared(o, n, adm) \/ NewConnected(o, n, adm)
      PROVE  TInv'
  BY <1>0, <1>2, NewSharedApart, NewConnectedApart
<1>3. ASSUME NEW o \in Obj, NEW n \in Name, NewFails(o, n)
      PROVE  TInv'
  BY <1>0, <1>3, NewFailsApart
<1>4. ASSUME NEW o \in Obj,
             Free(o) \/ Query(o) \/ RunnowWrite(o) \/ Begin(o)
      PROVE  TInv'
  BY <1>0, <1>4, FreeApart, QueryApart, RunnowWriteApart, BeginApart
<1>5. ASSUME NEW o \in Obj, NEW commits \in BOOLEAN, End(o, commits)
      PROVE  TInv'
  BY <1>0, <1>5, EndApart
<1>6. ASSUME NEW o \in Obj, NEW r \in Row,
             Insert(o, r) \/ InsertLocally(o, r) \/ InsertFails(o, r)
      PROVE  TInv'
  BY <1>0, <1>6, InsertApart, InsertLocallyApart, InsertFailsApart
<1>7. ASSUME NEW o \in Obj, NEW r \in Row, Delete(o, r) \/ DeleteFails(o, r)
      PROVE  TInv'
  BY <1>0, <1>7, DeleteApart
<1>8. CASE Refresh
  BY <1>0, <1>8, RefreshApart
<1>9. ASSUME NEW r \in Row, Replicate(r) PROVE TInv'
  BY <1>0, <1>9, ReplicateApart
<1>10. CASE UNCHANGED vars
  <2>1. Placed'
    BY <1>10, PlacedKept DEF vars, counts, TInv, Live
  <2> QED
    BY <1>0, <1>10, <2>1, QuietKeeps DEF vars, counts
<1> QED
  BY <1>1, <1>2, <1>3, <1>4, <1>5, <1>6, <1>7, <1>8, <1>9, <1>10 DEF Next

LEMMA TInvariance == ASSUME Careful PROVE Spec => []TInv
<1>1. TInv /\ [Next]_vars => TInv'
  BY TInductive
<1> QED
  BY <1>1, InitTInv, PTL DEF Spec

-----------------------------------------------------------------------------
(* The theorems.                                                           *)

\* If no statement of an object on a one-off connection fails, and such an
\* object neither deletes nor uses bonddb_sql_runnow_write, no row saved on
\* the connection is committed while its transaction goes on.
THEOREM TransactionIsolated == ASSUME Careful PROVE Spec => []Isolated
<1> QED
  BY TInvariance, TInvIsolated, PTL

\* Nothing is committed when a connection is closed.
LEMMA QuietWhole ==
  ASSUME TInv, NEW n \in Name, UNCHANGED data
  PROVE  EndsWhole(n)
BY TInvIsolated DEF Isolated, EndsWhole

\* A statement of a save ends no transaction.
LEMMA StatementWhole ==
  ASSUME TInv, NEW n \in Name,
         \A d \in Conn : txn[d].state = "open" => txn'[d].state # "none"
  PROVE  EndsWhole(n)
<1>1. oo_conns[n] # NULL => oo_conns[n] \in Conn /\ txn[oo_conns[n]] \in Txn
  BY DEF TInv, IInv, TypeOK, Conn
<1> QED
  BY <1>1 DEF EndsWhole, TInv, Unbroken, Txn

\* Insertions leave the transactions t open that were.
LEMMA InsertionOpen ==
  ASSUME NEW c \in Conn, NEW r, NEW t \in [Conn -> Txn], Insertion(c, r, t),
         NEW d \in Conn, t[d].state # "none"
  PROVE  txn'[d].state # "none"
<1>1. CASE t[c].state = "open"
  <2>1. txn' = [t EXCEPT ![c].ins = @ \cup {r}]
    BY <1>1 DEF Insertion
  <2>2. txn'[d].state = t[d].state
    BY <2>1 DEF Txn
  <2> QED
    BY <2>2
<1>2. CASE t[c].state # "open"
  BY <1>2 DEF Insertion
<1> QED
  BY <1>1, <1>2

LEMMA InsertWhole ==
  ASSUME TInv, NEW n \in Name, NEW o \in Obj, NEW r \in Row,
         Insert(o, r) \/ InsertLocally(o, r)
  PROVE  EndsWhole(n)
<1>1. o \in Live /\ TypeOK
  BY DEF Insert, InsertLocally, Insertable, Live, TInv, IInv
<1>2. /\ WriteConn(o) \in Conn /\ LocalConn(o) \in Conn
      /\ txn \in [Conn -> Txn] /\ AfterError({WriteConn(o)}) \in [Conn -> Txn]
  BY <1>1, ConnType, ErrorType DEF TypeOK
<1>3. \A d \in Conn : txn[d].state = "open" =>
        AfterError({WriteConn(o)})[d].state # "none"
  BY DEF AfterError, Broken
<1>4. CASE Insert(o, r)
  <2>1. Insertion(WriteConn(o), r, txn)
    BY <1>4 DEF Insert
  <2> QED
    BY <1>2, <2>1, InsertionOpen, StatementWhole
<1>5. CASE InsertLocally(o, r)
  <2>1. Insertion(LocalConn(o), r, AfterError({WriteConn(o)}))
    BY <1>5 DEF InsertLocally
  <2> QED
    BY <1>2, <1>3, <2>1, InsertionOpen, StatementWhole
<1> QED
  BY <1>4, <1>5

LEMMA DeleteWhole ==
  ASSUME TInv, NEW n \in Name, NEW o \in Obj, NEW r \in Row, Delete(o, r)
  PROVE  EndsWhole(n)
<1>1. txn \in [Conn -> Txn] /\ Deletion(DeleteConn(o), r)
  BY DEF Delete, TInv, IInv, TypeOK
<1>2. \/ UNCHANGED txn
      \/ txn' = [txn EXCEPT ![DeleteConn(o)].del = @ \cup {r}]
  BY <1>1 DEF Deletion
<1>3. \A d \in Conn : txn'[d].state = txn[d].state
  BY <1>1, <1>2 DEF Txn
<1> QED
  BY <1>3, StatementWhole

\* COMMIT stores all of it.
LEMMA EndWhole ==
  ASSUME TInv, NEW n \in Name, NEW o \in Obj, NEW commits \in BOOLEAN,
         End(o, commits)
  PROVE  EndsWhole(n)
<1>1. CASE ~commits
  BY <1>1, QuietWhole DEF End, server
<1>2. CASE commits
  <2>0. PICK c : c = QueryConn(o)
    OBVIOUS
  <2>1. o \in Live /\ Named(o)
    BY DEF End, Live
  <2>2. c \in OneOff /\ c \in Conn
    BY <2>0, <2>1, Places DEF Conn
  <2>3. /\ txn' = [txn EXCEPT ![c] = Ended]
        /\ data' = [data EXCEPT ![ServerOf(c)] = (@ \cup txn[c].ins) \ txn[c].del]
    BY <1>2, <2>0 DEF End
  <2>4. /\ txn \in [Conn -> Txn] /\ data \in [Server -> SUBSET Row]
        /\ txn[c].del = {}
    BY <2>2 DEF TInv, IInv, TypeOK, Unbroken
  <2>5. ServerOf(c) = Home
    <3>1. c \notin {"main", "admin"}
      BY <2>2, ConnectionAssumption
    <3>2. CASE Remote
      BY <3>1, <3>2 DEF ServerOf, Home
    <3>3. CASE ~Remote
      BY <3>3 DEF ServerOf, Home
    <3> QED
      BY <3>2, <3>3
  <2>6. Home \in Server
    BY DEF Home
  <2>7. txn[c].ins \subseteq data'[Home]
    BY <2>3, <2>4, <2>5, <2>6
  <2>8. CASE oo_conns[n] = c
    BY <2>7, <2>8 DEF EndsWhole, TInv, Own
  <2>9. CASE oo_conns[n] # c
    <3>1. oo_conns[n] # NULL => oo_conns[n] \in Conn
      BY DEF TInv, IInv, TypeOK, Conn
    <3>2. oo_conns[n] # NULL => txn'[oo_conns[n]] = txn[oo_conns[n]]
      BY <2>3, <2>4, <2>9, <3>1
    <3> QED
      BY <3>2 DEF EndsWhole
  <2> QED
    BY <2>8, <2>9
<1> QED
  BY <1>1, <1>2

LEMMA StepWhole ==
  ASSUME TInv, [Next]_vars, NEW n \in Name
  PROVE  EndsWhole(n)
<1>1. ASSUME NEW o \in Obj, NEW adm \in BOOLEAN, NEW m \in Name,
             NewShared(o, m, adm) \/ NewConnected(o, m, adm)
      PROVE  EndsWhole(n)
  BY <1>1, QuietWhole DEF NewShared, NewConnected, server
<1>2. ASSUME NEW o \in Obj,
             Free(o) \/ Query(o) \/ RunnowWrite(o) \/ Begin(o)
      PROVE  EndsWhole(n)
  BY <1>2, QuietWhole DEF Free, Query, RunnowWrite, Begin, server
<1>3. ASSUME NEW o \in Obj, NEW commits \in BOOLEAN, End(o, commits)
      PROVE  EndsWhole(n)
  BY <1>3, EndWhole
<1>4. ASSUME NEW o \in Obj, NEW r \in Row, InsertFails(o, r) \/ DeleteFails(o, r)
      PROVE  EndsWhole(n)
  BY <1>4, QuietWhole DEF InsertFails, DeleteFails, server
<1>5. ASSUME NEW o \in Obj, NEW r \in Row,
             Insert(o, r) \/ InsertLocally(o, r) \/ Delete(o, r)
      PROVE  EndsWhole(n)
  BY <1>5, InsertWhole, DeleteWhole
<1>6. CASE Refresh \/ UNCHANGED vars
  BY <1>6, QuietWhole DEF Refresh, vars, server
<1>7. ASSUME NEW r \in Row, Replicate(r) PROVE EndsWhole(n)
  BY <1>7 DEF Replicate, EndsWhole
<1>8. ASSUME NEW o \in Obj, NEW adm \in BOOLEAN, NewPlain(o, adm)
      PROVE  EndsWhole(n)
  BY <1>8, QuietWhole DEF NewPlain, server
<1>9. ASSUME NEW o \in Obj, NEW m \in Name, NewFails(o, m)
      PROVE  EndsWhole(n)
  BY <1>9, QuietWhole DEF NewFails, server
<1> QED
  BY <1>1, <1>2, <1>3, <1>4, <1>5, <1>6, <1>7, <1>8, <1>9 DEF Next

\* Under the same conditions what is saved on a one-off connection is all
\* committed or all forgotten when its transaction ends, by COMMIT, ROLLBACK or
\* the freeing of the last object that uses it.
THEOREM TransactionAtomic == ASSUME Careful PROVE Spec => Atomic
<1>1. TInv /\ [Next]_vars => [\A n \in Name : EndsWhole(n)]_vars
  BY StepWhole
<1> QED
  BY <1>1, TInvariance, PTL DEF Spec, Atomic

-----------------------------------------------------------------------------
(***************************************************************************)
(* The proof that an object sees what has been saved under its name.  What *)
(* is in an open transaction is in every query on its connection; what was *)
(* saved outside of one is committed where the connection leads to.        *)
(***************************************************************************)

\* Without a remote server nothing is replicated; after the end of a
\* transaction what is saved on its connection is committed at once.
Visible ==
  /\ Remote \/ ship = {}
  /\ \A n \in Name :
       oo_conns[n] # NULL /\ txn[oo_conns[n]].state = "none" =>
         saved[n] \subseteq data[Home]

\* The server of the one-off connections.
LEMMA OneOffHome ==
  /\ Home \in Server
  /\ \A c \in OneOff : ServerOf(c) = Home
  /\ ~Remote => \A c \in Conn : ServerOf(c) # "master"
<1>1. \A c \in OneOff : c \notin {"main", "admin"}
  BY ConnectionAssumption
<1>2. CASE Remote
  BY <1>1, <1>2 DEF ServerOf, Home
<1>3. CASE ~Remote
  BY <1>3 DEF ServerOf, Home
<1> QED
  BY <1>2, <1>3

\* No transaction of a name ends, and the name keeps its rows.
GoesOn(n) ==
  /\ oo_conns'[n] = oo_conns[n]
  /\ saved'[n] \subseteq saved[n]
  /\ oo_conns[n] # NULL /\ txn'[oo_conns[n]].state = "none" =>
       txn[oo_conns[n]].state = "none"

LEMMA GoingOn ==
  ASSUME Visible, NEW n \in Name, GoesOn(n), data[Home] \subseteq data'[Home],
         oo_conns'[n] # NULL, txn'[oo_conns'[n]].state = "none"
  PROVE  saved'[n] \subseteq data'[Home]
BY DEF Visible, GoesOn

\* Steps that leave the servers alone and end no transaction.
LEMMA GoesOnKeeps ==
  ASSUME Visible, UNCHANGED server, \A n \in Name : GoesOn(n)
  PROVE  Visible'
BY DEF Visible, GoesOn, server

\* An error ends no transaction.
LEMMA ErrorEndsNone ==
  ASSUME TInv, NEW C, txn' = AfterError(C), NEW c \in Conn,
         txn'[c].state = "none"
  PROVE  txn[c].state = "none"
BY DEF AfterError, Broken

LEMMA TxnOfName ==
  ASSUME TInv, NEW n \in Name, oo_conns[n] # NULL
  PROVE  oo_conns[n] \in OneOff /\ oo_conns[n] \in Conn
BY DEF TInv, IInv, TypeOK, Conn

LEMMA AskVisible ==
  ASSUME TInv, Visible, NEW c, NEW objects, NEW o, Asked(o, c, objects),
         UNCHANGED <<oo_conns, server, saved>>
  PROVE  Visible'
<1>1. \A n \in Name : GoesOn(n)
  BY TxnOfName, ErrorEndsNone DEF Asked, GoesOn
<1> QED
  BY <1>1, GoesOnKeeps

LEMMA ErrorVisible ==
  ASSUME TInv, Visible, NEW C, txn' = AfterError(C),
         UNCHANGED <<oo_conns, server, saved>>
  PROVE  Visible'
<1>1. \A n \in Name : GoesOn(n)
  BY TxnOfName, ErrorEndsNone DEF GoesOn
<1> QED
  BY <1>1, GoesOnKeeps

LEMMA QuietVisible ==
  ASSUME Visible, UNCHANGED <<oo_conns, server, saved, txn>>
  PROVE  Visible'
BY DEF Visible, server

LEMMA NewConnectedVisible ==
  ASSUME TInv, Visible, NEW o \in Obj, NEW n \in Name, NEW adm \in BOOLEAN,
         NewConnected(o, n, adm)
  PROVE  Visible'
<1>0. PICK c \in Unused : /\ txn' = [txn EXCEPT ![c] = Begun]
                          /\ oo_conns' = [oo_conns EXCEPT ![n] = c]
  BY DEF NewConnected, ConnectionNew
<1>1. /\ oo_conns \in [Name -> OneOff \cup {NULL}] /\ txn \in [Conn -> Txn]
      /\ c \in Conn /\ UNCHANGED <<server, saved>>
  BY DEF TInv, IInv, TypeOK, Unused, Conn, NewConnected
<1>2. txn'[c].state # "none" /\ oo_conns'[n] = c
  BY <1>0, <1>1 DEF Begun
<1>3. ASSUME NEW m \in Name \ {n}, oo_conns'[m] # NULL
      PROVE  oo_conns'[m] = oo_conns[m] /\ txn'[oo_conns[m]] = txn[oo_conns[m]]
  <2>1. oo_conns'[m] = oo_conns[m] /\ oo_conns[m] # c
    BY <1>0, <1>1, <1>3 DEF Unused
  <2>2. oo_conns[m] \in Conn
    BY <1>3, <2>1, TxnOfName
  <2> QED
    BY <1>0, <1>1, <2>1, <2>2
<1> QED
  BY <1>1, <1>2, <1>3 DEF Visible, server

LEMMA FreeVisible ==
  ASSUME TInv, Visible, NEW o \in Obj, Free(o)
  PROVE  Visible'
<1>0. PICK n, c : n = objs[o].conn_name /\ c = oo_conns[n]
  OBVIOUS
<1>1. UNCHANGED server
  BY DEF Free
<1>2. CASE UNCHANGED <<oo_conns, txn, saved>>
  BY <1>1, <1>2, QuietVisible
<1>3. CASE ~UNCHANGED <<oo_conns, txn, saved>>
  <2>1. /\ Named(o) /\ o \in Live
        /\ oo_conns' = [oo_conns EXCEPT ![n] = NULL]
        /\ txn' = [txn EXCEPT ![c] = Ended]
        /\ saved' = [saved EXCEPT ![n] = {}]
    BY <1>0, <1>3 DEF Free, counts, Live
  <2>2. /\ oo_conns \in [Name -> OneOff \cup {NULL}] /\ txn \in [Conn -> Txn]
        /\ saved \in [Name -> SUBSET Row] /\ n \in Name /\ c \in OneOff
    BY <1>0, <2>1, Places DEF TInv, IInv, TypeOK
  <2>3. \A m \in Name \ {n} : oo_conns[m] # c
    BY <1>0, <2>1, <2>2, ConnectionAssumption DEF TInv, IInv, Counted
  <2>4. ASSUME NEW m \in Name \ {n}, oo_conns'[m] # NULL
        PROVE  GoesOn(m)
    <3>1. oo_conns'[m] = oo_conns[m] /\ saved'[m] = saved[m]
      BY <2>1, <2>2
    <3>2. oo_conns[m] \in Conn /\ oo_conns[m] # c
      BY <2>3, <2>4, <3>1, TxnOfName
    <3> QED
      BY <2>1, <2>2, <3>1, <3>2 DEF GoesOn
  <2>5. oo_conns'[n] = NULL
    BY <2>1, <2>2
  <2> QED
    BY <1>1, <2>4, <2>5 DEF Visible, GoesOn, server
<1> QED
  BY <1>2, <1>3

\* An insertion in a transaction leaves the others alone; outside of one it
\* adds the row to the server of its connection.
LEMMA InsertionDoes ==
  ASSUME TInv, NEW c \in Conn, NEW r \in Row, NEW t \in [Conn -> Txn],
         Insertion(c, r, t), Visible
  PROVE  /\ \A d \in Conn : txn'[d].state = t[d].state
         /\ data[Home] \subseteq data'[Home]
         /\ t[c].state # "open" => r \in data'[ServerOf(c)]
         /\ Remote \/ ship' = {}
<1>1. data \in [Server -> SUBSET Row] /\ ServerOf(c) \in Server
  BY DEF TInv, IInv, TypeOK, ServerOf
<1>2. CASE t[c].state = "open"
  <2>1. txn' = [t EXCEPT ![c].ins = @ \cup {r}] /\ UNCHANGED server
    BY <1>2 DEF Insertion
  <2>2. \A d \in Conn : txn'[d].state = t[d].state
    BY <2>1 DEF Txn
  <2> QED
    BY <1>2, <2>1, <2>2 DEF server, Visible
<1>3. CASE t[c].state # "open"
  <2>1. /\ txn' = t /\ data' = [data EXCEPT ![ServerOf(c)] = @ \cup {r}]
        /\ Changed(c, {r})
    BY <1>3 DEF Insertion
  <2>2. Remote \/ ship' = {}
    BY <2>1, OneOffHome DEF Changed, Visible
  <2>3. data[Home] \subseteq data'[Home] /\ r \in data'[ServerOf(c)]
    BY <1>1, <2>1, OneOffHome
  <2> QED
    BY <2>1, <2>2, <2>3
<1> QED
  BY <1>2, <1>3

LEMMA InsertVisible ==
  ASSUME TInv, Visible, NEW o \in Obj, NEW r \in Row, Insert(o, r)
  PROVE  Visible'
<1>0. PICK c : c = WriteConn(o)
  OBVIOUS
<1>1. /\ o \in Live /\ c \in Conn /\ txn \in [Conn -> Txn]
      /\ txn[c].state # "failed" /\ saved \in [Name -> SUBSET Row]
  BY <1>0, ConnType DEF Insert, Insertable, Live, TInv, IInv, TypeOK
<1>2. Insertion(c, r, txn) /\ Saved(o, r) /\ UNCHANGED oo_conns
  BY <1>0 DEF Insert, counts
<1>3. /\ \A d \in Conn : txn'[d].state = txn[d].state
      /\ data[Home] \subseteq data'[Home]
      /\ txn[c].state # "open" => r \in data'[ServerOf(c)]
      /\ Remote \/ ship' = {}
  BY <1>1, <1>2, InsertionDoes
<1>4. ASSUME NEW n \in Name, oo_conns[n] # NULL, txn'[oo_conns[n]].state = "none"
      PROVE  saved'[n] \subseteq data'[Home]
  <2>1. txn[oo_conns[n]].state = "none"
    BY <1>3, <1>4, TxnOfName
  <2>2. saved[n] \subseteq data'[Home]
    BY <1>3, <1>4, <2>1 DEF Visible
  <2>3. CASE Named(o) /\ objs[o].conn_name = n
    <3>1. c = oo_conns[n] /\ c \in OneOff
      BY <1>0, <1>1, <2>3, Places
    <3>2. r \in data'[Home]
      BY <1>3, <2>1, <3>1, OneOffHome
    <3>3. saved'[n] = saved[n] \cup {r}
      BY <1>1, <1>2, <2>3 DEF Saved
    <3> QED
      BY <2>2, <3>2, <3>3
  <2>4. CASE ~(Named(o) /\ objs[o].conn_name = n)
    BY <1>1, <1>2, <2>2, <2>4 DEF Saved
  <2> QED
    BY <2>3, <2>4
<1> QED
  BY <1>2, <1>3, <1>4 DEF Visible

LEMMA InsertLocallyVisible ==
  ASSUME Careful, TInv, Visible, NEW o \in Obj, NEW r \in Row,
         InsertLocally(o, r)
  PROVE  Visible'
<1>0. PICK c, d : c = WriteConn(o) /\ d = LocalConn(o)
  OBVIOUS
<1>1. /\ o \in Live /\ c \in Conn /\ d \in Conn
  BY <1>0, ConnType DEF InsertLocally, Insertable, Live, TInv, IInv
<1>2. ~Named(o)
  BY <1>0, <1>1
  DEF InsertLocally, InsertFailing, Fails, Kind, Careful, TInv, Unbroken
<1>3. /\ Insertion(d, r, AfterError({c})) /\ UNCHANGED <<oo_conns, saved>>
      /\ AfterError({c}) \in [Conn -> Txn]
  BY <1>0, <1>1, <1>2, ErrorType
  DEF InsertLocally, Saved, counts, TInv, IInv, TypeOK
<1>4. /\ \A b \in Conn : txn'[b].state = AfterError({c})[b].state
      /\ data[Home] \subseteq data'[Home]
      /\ Remote \/ ship' = {}
  BY <1>1, <1>3, InsertionDoes
<1>5. \A b \in Conn : txn'[b].state = "none" => txn[b].state = "none"
  BY <1>4 DEF AfterError, Broken
<1>6. \A n \in Name : GoesOn(n)
  BY <1>3, <1>5, TxnOfName DEF GoesOn
<1> QED
  BY <1>3, <1>4, <1>6, GoingOn DEF Visible

LEMMA DeleteVisible ==
  ASSUME TInv, Visible, NEW o \in Obj, NEW r \in Row, Delete(o, r)
  PROVE  Visible'
<1>0. PICK c : c = DeleteConn(o)
  OBVIOUS
<1>1. /\ o \in Live /\ c \in Conn /\ txn \in [Conn -> Txn]
      /\ data \in [Server -> SUBSET Row] /\ saved \in [Name -> SUBSET Row]
  BY <1>0, ConnType DEF Delete, Deletes, Live, TInv, IInv, TypeOK
<1>2. /\ Deletion(c, r) /\ UNCHANGED oo_conns
      /\ saved' = [n \in Name |-> saved[n] \ {r}]
  BY <1>0 DEF Delete, counts
<1>3. /\ \A b \in Conn : txn'[b].state = txn[b].state
      /\ data[Home] \ {r} \subseteq data'[Home]
      /\ Remote \/ ship' = {}
  <2>1. CASE r \notin View(c)
    BY <1>2, <2>1 DEF Deletion, server, Visible
  <2>2. CASE r \in View(c) /\ txn[c].state = "open"
    <3>1. txn' = [txn EXCEPT ![c].del = @ \cup {r}] /\ UNCHANGED server
      BY <1>2, <2>2 DEF Deletion
    <3>2. \A b \in Conn : txn'[b].state = txn[b].state
      BY <1>1, <3>1 DEF Txn
    <3> QED
      BY <3>1, <3>2 DEF server, Visible
  <2>3. CASE r \in View(c) /\ txn[c].state # "open"
    <3>1. /\ UNCHANGED txn /\ Changed(c, {r})
          /\ data' = [data EXCEPT ![ServerOf(c)] = @ \ {r}]
      BY <1>2, <2>3 DEF Deletion
    <3>2. data[Home] \ {r} \subseteq data'[Home]
      BY <1>1, <3>1, OneOffHome
    <3>3. Remote \/ ship' = {}
      BY <1>1, <3>1, OneOffHome DEF Changed, Visible
    <3> QED
      BY <3>1, <3>2, <3>3
  <2> QED
    BY <2>1, <2>2, <2>3
<1>4. ASSUME NEW n \in Name, oo_conns[n] # NULL, txn'[oo_conns[n]].state = "none"
      PROVE  saved'[n] \subseteq data'[Home]
  <2>1. saved[n] \subseteq data[Home]
    BY <1>3, <1>4, TxnOfName DEF Visible
  <2> QED
    BY <1>2, <1>3, <2>1
<1> QED
  BY <1>2, <1>3, <1>4 DEF Visible

LEMMA BeginVisible ==
  ASSUME TInv, Visible, NEW o \in Obj, Begin(o)
  PROVE  Visible'
<1>0. PICK c : c = QueryConn(o)
  OBVIOUS
<1>1. /\ txn \in [Conn -> Txn] /\ saved \in [Name -> SUBSET Row]
      /\ UNCHANGED <<oo_conns, server>>
  BY DEF Begin, TInv, IInv, TypeOK, counts
<1>2. /\ txn' = [txn EXCEPT ![c] = Begun]
      /\ saved' = [saved EXCEPT ![objs[o].conn_name] = {}]
  BY <1>0 DEF Begin
<1>3. \A b \in Conn : txn'[b].state = "none" => txn[b].state = "none"
  BY <1>1, <1>2 DEF Begun
<1>4. \A n \in Name : saved'[n] \subseteq saved[n]
  BY <1>1, <1>2
<1>5. \A n \in Name : GoesOn(n)
  BY <1>1, <1>3, <1>4, TxnOfName DEF GoesOn
<1> QED
  BY <1>1, <1>5, GoesOnKeeps

LEMMA EndVisible ==
  ASSUME TInv, Visible, NEW o \in Obj, NEW commits \in BOOLEAN, End(o, commits)
  PROVE  Visible'
<1>0. PICK n, c : n = objs[o].conn_name /\ c = QueryConn(o)
  OBVIOUS
<1>1. o \in Live /\ Named(o)
  BY DEF End, Live
<1>2. /\ n \in Name /\ c = oo_conns[n] /\ c \in OneOff /\ c \in Conn
      /\ ServerOf(c) = Home /\ Home \in Server
  BY <1>0, <1>1, Places, OneOffHome DEF Conn
<1>3. /\ txn \in [Conn -> Txn] /\ saved \in [Name -> SUBSET Row]
      /\ data \in [Server -> SUBSET Row] /\ txn[c].del = {}
  BY <1>2 DEF TInv, IInv, TypeOK, Unbroken
<1>4. /\ txn' = [txn EXCEPT ![c] = Ended] /\ UNCHANGED oo_conns
      /\ saved' = [saved EXCEPT ![n] = {}]
      /\ \/ UNCHANGED server
         \/ /\ data' = [data EXCEPT ![ServerOf(c)] = (@ \cup txn[c].ins) \ txn[c].del]
            /\ Changed(c, txn[c].ins \cup txn[c].del)
  BY <1>0 DEF End, counts
<1>5. data[Home] \subseteq data'[Home] /\ (Remote \/ ship' = {})
  <2>1. CASE UNCHANGED server
    BY <2>1 DEF server, Visible
  <2>2. CASE /\ data' = [data EXCEPT ![ServerOf(c)] =
                           (@ \cup txn[c].ins) \ txn[c].del]
             /\ Changed(c, txn[c].ins \cup txn[c].del)
    <3>1. data[Home] \subseteq data'[Home]
      BY <1>2, <1>3, <2>2
    <3>2. Remote \/ ship' = {}
      BY <1>2, <2>2, OneOffHome DEF Changed, Visible
    <3> QED
      BY <3>1, <3>2
  <2> QED
    BY <1>4, <2>1, <2>2
<1>6. saved'[n] = {}
  BY <1>2, <1>3, <1>4
<1>7. ASSUME NEW m \in Name \ {n}, oo_conns[m] # NULL
      PROVE  GoesOn(m)
  <2>1. oo_conns[m] \in Conn /\ oo_conns[m] # c
    BY <1>2, <1>7, TxnOfName, ConnectionAssumption DEF TInv, IInv, Counted
  <2> QED
    BY <1>3, <1>4, <2>1 DEF GoesOn
<1> QED
  BY <1>4, <1>5, <1>6, <1>7, GoingOn DEF Visible

\* What is replicated does not leave the server it came from.
LEMMA ReplicateVisible ==
  ASSUME TInv, Visible, NEW r \in Row, Replicate(r)
  PROVE  Visible'
<1>1. /\ Remote /\ data \in [Server -> SUBSET Row]
      /\ UNCHANGED <<oo_conns, txn, saved>>
  BY ConnectionAssumption DEF Replicate, Visible, TInv, IInv, TypeOK, counts
<1>2. data'[Home] = data[Home]
  BY <1>1 DEF Replicate, Home
<1> QED
  BY <1>1, <1>2 DEF Visible

LEMMA VisibleStep ==
  ASSUME Careful, TInv, Visible, [Next]_vars
  PROVE  Visible'
<1>1. ASSUME NEW o \in Obj, NEW adm \in BOOLEAN, NEW m \in Name,
             NewShared(o, m, adm)
      PROVE  Visible'
  BY <1>1, QuietVisible DEF NewShared
<1>2. ASSUME NEW o \in Obj, NEW adm \in BOOLEAN, NEW m \in Name,
             NewConnected(o, m, adm)
      PROVE  Visible'
  BY <1>2, NewConnectedVisible
<1>3. ASSUME NEW o \in Obj, Free(o) \/ Begin(o) PROVE Visible'
  BY <1>3, FreeVisible, BeginVisible
<1>4. ASSUME NEW o \in Obj, Query(o) PROVE Visible'
  BY <1>4, AskVisible DEF Query, counts
<1>5. ASSUME NEW o \in Obj, RunnowWrite(o) PROVE Visible'
  <2>1. UNCHANGED <<oo_conns, server, saved>>
    BY <1>5 DEF RunnowWrite, counts
  <2>2. UNCHANGED txn \/ \E c, objects : Asked(o, c, objects)
    BY <1>5 DEF RunnowWrite
  <2> QED
    BY <2>1, <2>2, AskVisible, QuietVisible
<1>6. ASSUME NEW o \in Obj, NEW commits \in BOOLEAN, End(o, commits)
      PROVE  Visible'
  BY <1>6, EndVisible
<1>7. ASSUME NEW o \in Obj, NEW r \in Row, InsertFails(o, r) \/ DeleteFails(o, r)
      PROVE  Visible'
  BY <1>7, ErrorVisible DEF InsertFails, DeleteFails, counts
<1>8. ASSUME NEW o \in Obj, NEW r \in Row,
             Insert(o, r) \/ InsertLocally(o, r) \/ Delete(o, r)
      PROVE  Visible'
  BY <1>8, InsertVisible, InsertLocallyVisible, DeleteVisible
<1>9. CASE Refresh \/ UNCHANGED vars
  BY <1>9, QuietVisible DEF Refresh, vars, counts
<1>10. ASSUME NEW r \in Row, Replicate(r) PROVE Visible'
  BY <1>10, ReplicateVisible
<1>11. ASSUME NEW o \in Obj, NEW adm \in BOOLEAN, NewPlain(o, adm)
       PROVE  Visible'
  BY <1>11, QuietVisible DEF NewPlain, counts
<1>12. ASSUME NEW o \in Obj, NEW m \in Name, NewFails(o, m) PROVE Visible'
  BY <1>12, QuietVisible DEF NewFails, counts
<1> QED
  BY <1>1, <1>2, <1>3, <1>4, <1>5, <1>6, <1>7, <1>8, <1>9, <1>10, <1>11, <1>12
  DEF Next

-----------------------------------------------------------------------------
(* What an object sees.                                                    *)

\* A query of an object with a name shows what is saved under it.
Shows(o) ==
  Idle /\ Named(o) /\ objs'[o] # NULL /\ objs'[o].res \notin {NULL, objs[o].res}
    => saved'[objs[o].conn_name] \subseteq objs'[o].res

\* Steps that give no object another result.
SameResult(o) == objs'[o] = NULL \/ objs'[o].res = objs[o].res

LEMMA SameShows ==
  ASSUME NEW o, SameResult(o)
  PROVE  Shows(o)
BY DEF SameResult, Shows

LEMMA ViewShows ==
  ASSUME TInv, Visible, NEW o \in Live, Named(o)
  PROVE  saved[objs[o].conn_name] \subseteq View(QueryConn(o))
<1>0. PICK n, c : n = objs[o].conn_name /\ c = QueryConn(o)
  OBVIOUS
<1>1. /\ n \in Name /\ c = oo_conns[n] /\ c \in OneOff /\ c \in Conn
      /\ ServerOf(c) = Home /\ c # NULL
  BY <1>0, Places, OneOffHome, ConnectionAssumption DEF Conn
<1>2. txn[c].del = {}
  BY <1>1 DEF TInv, Unbroken
<1>3. CASE txn[c].state = "none"
  BY <1>0, <1>1, <1>2, <1>3 DEF Visible, View
<1>4. CASE txn[c].state # "none"
  BY <1>0, <1>1, <1>2, <1>4 DEF TInv, Own, View
<1> QED
  BY <1>3, <1>4

LEMMA QueryShows ==
  ASSUME TInv, Visible, NEW o \in Live, NEW p \in Obj, Query(p)
  PROVE  Shows(o)
<1>1. /\ objs \in [Obj -> {NULL} \cup Object] /\ UNCHANGED saved /\ o \in Obj
      /\ objs[o] \in Object
  BY ConnType DEF Query, TInv, IInv, TypeOK, Live
<1>2. PICK res : /\ objs' = [objs EXCEPT ![p].res = res, ![p].gone = {}]
                 /\ res \in {NULL, View(QueryConn(p))}
  BY DEF Query, Asked
<1>3. CASE o = p
  <2>1. objs'[o].res = res
    BY <1>1, <1>2, <1>3 DEF Object
  <2> QED
    BY <1>1, <1>2, <1>3, <2>1, ViewShows DEF Shows
<1>4. CASE o # p
  <2>1. objs'[o] = objs[o]
    BY <1>1, <1>2, <1>4
  <2> QED
    BY <2>1, SameShows DEF SameResult
<1> QED
  BY <1>3, <1>4

\* bonddb_sql_runnow_write is for objects without a name.
LEMMA RunnowShows ==
  ASSUME Careful, TInv, NEW o \in Live, NEW p \in Obj, RunnowWrite(p)
  PROVE  Shows(o)
<1>1. objs \in [Obj -> {NULL} \cup Object] /\ ~Named(p) /\ o \in Obj
  BY DEF RunnowWrite, Careful, TInv, IInv, TypeOK, Live
<1>2. CASE o = p
  BY <1>1, <1>2 DEF Shows
<1>3. CASE o # p
  <2>1. objs'[o] = objs[o]
    BY <1>1, <1>3 DEF RunnowWrite, Asked
  <2> QED
    BY <2>1, SameShows DEF SameResult
<1> QED
  BY <1>2, <1>3

\* BEGIN, COMMIT and ROLLBACK leave nothing that is saved under the name.
LEMMA BoundaryShows ==
  ASSUME TInv, NEW o \in Live, NEW p \in Live, Named(p),
         objs' = [objs EXCEPT ![p].res = {}, ![p].gone = {}],
         saved' = [saved EXCEPT ![objs[p].conn_name] = {}]
  PROVE  Shows(o)
<1>1. /\ objs \in [Obj -> {NULL} \cup Object] /\ o \in Obj
      /\ saved \in [Name -> SUBSET Row] /\ objs[p].conn_name \in Name
  BY Places DEF TInv, IInv, TypeOK, Live
<1>2. CASE o = p
  <2>1. saved'[objs[o].conn_name] = {}
    BY <1>1, <1>2
  <2> QED
    BY <2>1 DEF Shows
<1>3. CASE o # p
  <2>1. objs'[o] = objs[o]
    BY <1>1, <1>3
  <2> QED
    BY <2>1, SameShows DEF SameResult
<1> QED
  BY <1>2, <1>3

\* An object is created or freed.
LEMMA NewShows ==
  ASSUME TInv, NEW o \in Live, NEW p \in Obj, NEW e,
         objs' = [objs EXCEPT ![p] = e],
         \/ objs[p] = NULL
         \/ e = NULL
  PROVE  Shows(o)
<1>1. objs \in [Obj -> {NULL} \cup Object] /\ o \in Obj /\ objs[o] # NULL
  BY DEF TInv, IInv, TypeOK, Live
<1> QED
  BY <1>1, SameShows DEF SameResult

LEMMA DeletesShows ==
  ASSUME TInv, NEW o \in Live, NEW p \in Obj, NEW r, Deletes(p, r)
  PROVE  Shows(o)
<1>1. /\ objs \in [Obj -> {NULL} \cup Object] /\ o \in Obj
      /\ objs[o] \in Object
      /\ objs' = [objs EXCEPT ![p].gone = @ \cup {r}]
  BY ConnType DEF Deletes, TInv, IInv, TypeOK, Live
<1>2. objs'[o].res = objs[o].res
  BY <1>1 DEF Object
<1> QED
  BY <1>2, SameShows DEF SameResult

LEMMA StepShows ==
  ASSUME Careful, TInv, Visible, [Next]_vars, NEW o \in Live
  PROVE  Shows(o)
<1>1. ASSUME NEW p \in Obj, NEW adm \in BOOLEAN, NewPlain(p, adm)
      PROVE  Shows(o)
  BY <1>1, NewShows DEF NewPlain
<1>2. ASSUME NEW p \in Obj, NEW adm \in BOOLEAN, NEW m \in Name,
             NewShared(p, m, adm) \/ NewConnected(p, m, adm)
      PROVE  Shows(o)
  BY <1>2, NewShows DEF NewShared, NewConnected
<1>3. ASSUME NEW p \in Obj, Free(p) PROVE Shows(o)
  BY <1>3, NewShows DEF Free
<1>4. ASSUME NEW p \in Obj, Query(p) \/ RunnowWrite(p) PROVE Shows(o)
  BY <1>4, QueryShows, RunnowShows
<1>5. ASSUME NEW p \in Obj, Begin(p) PROVE Shows(o)
  BY <1>5, BoundaryShows DEF Begin, Live
<1>6. ASSUME NEW p \in Obj, NEW commits \in BOOLEAN, End(p, commits)
      PROVE  Shows(o)
  BY <1>6, BoundaryShows DEF End, Live
<1>7. ASSUME NEW p \in Obj, NEW r \in Row, Delete(p, r) \/ DeleteFails(p, r)
      PROVE  Shows(o)
  BY <1>7, DeletesShows DEF Delete, DeleteFails
<1>8. ASSUME UNCHANGED objs PROVE Shows(o)
  BY <1>8, SameShows DEF SameResult
<1>9. ASSUME NEW p \in Obj, NEW r \in Row,
             Insert(p, r) \/ InsertLocally(p, r) \/ InsertFails(p, r)
      PROVE  Shows(o)
  BY <1>8, <1>9 DEF Insert, InsertLocally, InsertFails
<1>10. ASSUME NEW p \in Obj, NEW m \in Name, NewFails(p, m) PROVE Shows(o)
  BY <1>8, <1>10 DEF NewFails
<1>11. ASSUME NEW r \in Row, Replicate(r) PROVE Shows(o)
  BY <1>8, <1>11 DEF Replicate
<1>12. CASE UNCHANGED vars
  BY <1>8, <1>12 DEF vars
<1>13. CASE Refresh
  BY <1>13 DEF Refresh, Shows
<1> QED
  BY <1>1, <1>2, <1>3, <1>4, <1>5, <1>6, <1>7, <1>9, <1>10, <1>11, <1>12, <1>13
  DEF Next

\* Whatever its connection has been through, an object with a name sees, when
\* it runs its query, every row saved under the name since its transaction
\* began, committed or not, if the application is careful.
THEOREM ObjectsSeeTheirOwn == ASSUME Careful PROVE Spec => SeesOwn
<1>1. Init => Visible
  BY DEF Init, Visible
<1>2. TInv /\ Visible /\ [Next]_vars => Visible'
  BY VisibleStep
<1>3. TInv /\ Visible /\ [Next]_vars =>
        [\A o \in Live :
           Idle /\ Named(o) /\ objs'[o] # NULL
             /\ objs'[o].res \notin {NULL, objs[o].res}
           => saved'[objs[o].conn_name] \subseteq objs'[o].res]_vars
  BY StepShows DEF Shows
<1> QED
  BY <1>1, <1>2, <1>3, TInvariance, PTL DEF Spec, SeesOwn

-----------------------------------------------------------------------------
(***************************************************************************)
(* The proof that BondConnection implements NamedTransactions for a        *)
(* careful application: every step of it starts, extends, commits or rolls *)
(* back one transaction, changes one row outside of all, or does nothing.  *)
(***************************************************************************)

\* What the refinement makes of the state.
AsPending == [n \in Name |-> Unfinished(n)]
Step == [Transactions!TNext]_(Transactions!tvars)

\* The steps in terms of Committed and Pending.
LEMMA StutterStep ==
  ASSUME Committed' = Committed, \A n \in Name : Unfinished(n)' = Unfinished(n)
  PROVE  Step
<1>1. AsPending' = AsPending
  BY DEF AsPending
<1> QED
  BY <1>1 DEF Step, Transactions!tvars, Committed, AsPending

LEMMA RowStep ==
  ASSUME NEW r \in Row, Committed' \in {Committed \cup {r}, Committed \ {r}},
         \A n \in Name : Unfinished(n)' = Unfinished(n),
         \A n \in Name : Unfinished(n) # NULL => r \notin Unfinished(n)
  PROVE  Step
<1>1. AsPending' = AsPending
  BY DEF AsPending
<1>2. Transactions!InNone(r)
  BY DEF Transactions!InNone, Transactions!Open
<1> QED
  BY <1>1, <1>2
  DEF Step, Transactions!TNext, Transactions!Put, Transactions!Remove,
      Committed, AsPending

\* The pending rows of n become p.
LEMMA OneName ==
  ASSUME NEW n \in Name, NEW p, Unfinished(n)' = p,
         \A m \in Name \ {n} : Unfinished(m)' = Unfinished(m)
  PROVE  AsPending' = [AsPending EXCEPT ![n] = p]
BY DEF AsPending

LEMMA StartStep ==
  ASSUME NEW n \in Name, Unfinished(n) = NULL, Unfinished(n)' = {},
         \A m \in Name \ {n} : Unfinished(m)' = Unfinished(m), Committed' = Committed
  PROVE  Step
<1>1. AsPending' = [AsPending EXCEPT ![n] = {}]
  BY OneName
<1>2. Transactions!Start(n)
  BY <1>1 DEF Transactions!Start, AsPending, Committed
<1> QED
  BY <1>2 DEF Step, Transactions!TNext

LEMMA SaveStep ==
  ASSUME NEW n \in Name, NEW r \in Row, Unfinished(n) # NULL,
         Unfinished(n)' = Unfinished(n) \cup {r}, r \notin Committed,
         \A m \in Name : Unfinished(m) # NULL => r \notin Unfinished(m),
         \A m \in Name \ {n} : Unfinished(m)' = Unfinished(m), Committed' = Committed
  PROVE  Step
<1>1. AsPending' = [AsPending EXCEPT ![n] = AsPending[n] \cup {r}]
  BY OneName DEF AsPending
<1>2. Transactions!Save(n, r)
  BY <1>1 DEF Transactions!Save, Transactions!Open, Transactions!InNone,
              AsPending, Committed
<1> QED
  BY <1>2 DEF Step, Transactions!TNext

LEMMA EndStep ==
  ASSUME NEW n \in Name, Unfinished(n) # NULL, Unfinished(n)' = NULL,
         \A m \in Name \ {n} : Unfinished(m)' = Unfinished(m),
         Committed' \in {Committed, Committed \cup Unfinished(n)}
  PROVE  Step
<1>1. AsPending' = [AsPending EXCEPT ![n] = NULL] /\ AsPending[n] = Unfinished(n)
  BY OneName DEF AsPending
<1>2. Transactions!Commit(n) \/ Transactions!Rollback(n)
  BY <1>1 DEF Transactions!Commit, Transactions!Rollback, Transactions!Open,
              AsPending, Committed
<1> QED
  BY <1>2 DEF Step, Transactions!TNext

-----------------------------------------------------------------------------
(* What the steps of BondConnection do to the state of the abstraction.    *)

LEMMA SamePending ==
  ASSUME UNCHANGED <<oo_conns, txn, saved>>
  PROVE  \A n \in Name : Unfinished(n)' = Unfinished(n)
BY DEF Unfinished

LEMMA Quiet ==
  ASSUME UNCHANGED <<oo_conns, txn, saved, data>>
  PROVE  Step
<1>1. Committed' = Committed
  BY DEF Committed
<1> QED
  BY <1>1, SamePending, StutterStep

\* A row that is in the transaction of no connection is pending nowhere.
LEMMA NowherePending ==
  ASSUME TInv, NEW r, \A c \in OneOff : r \notin txn[c].ins
  PROVE  \A n \in Name : Unfinished(n) # NULL => r \notin Unfinished(n)
<1>1. \A n \in Name : oo_conns[n] # NULL => oo_conns[n] \in OneOff
  BY DEF TInv, IInv, TypeOK
<1> QED
  BY <1>1 DEF Unfinished, TInv, Own

\* Only name n and its connection c change.
LEMMA OthersPending ==
  ASSUME TInv, NEW n \in Name, NEW c \in Conn,
         \A m \in Name \ {n} : /\ oo_conns[m] # c
                               /\ oo_conns'[m] = oo_conns[m]
                               /\ saved'[m] = saved[m],
         \A d \in Conn \ {c} : txn'[d] = txn[d]
  PROVE  \A m \in Name \ {n} : Unfinished(m)' = Unfinished(m)
<1>1. \A m \in Name : oo_conns[m] # NULL => oo_conns[m] \in Conn
  BY DEF TInv, IInv, TypeOK, Conn
<1> QED
  BY <1>1 DEF Unfinished

\* A set of rows is no NULL.
LEMMA SavedIsSet ==
  ASSUME TInv, NEW n \in Name
  PROVE  saved[n] # NULL /\ (Unfinished(n) # NULL => Unfinished(n) = saved[n])
BY ConnectionAssumption DEF TInv, IInv, TypeOK, Unfinished

-----------------------------------------------------------------------------
(* The steps.                                                              *)

LEMMA NewConnectedImplements ==
  ASSUME TInv, NEW o \in Obj, NEW n \in Name, NEW adm \in BOOLEAN,
         NewConnected(o, n, adm)
  PROVE  Step
<1>1. PICK c \in Unused :
        /\ txn' = [txn EXCEPT ![c] = Begun]
        /\ oo_conns' = [oo_conns EXCEPT ![n] = c]
  BY DEF NewConnected, ConnectionNew
<1>2. /\ oo_conns \in [Name -> OneOff \cup {NULL}] /\ txn \in [Conn -> Txn]
      /\ c \in Conn /\ c # NULL
  BY ConnectionAssumption DEF TInv, IInv, TypeOK, Unused, Conn
<1>3. UNCHANGED <<saved, data>> /\ oo_conns[n] = NULL /\ saved[n] = {}
  BY DEF NewConnected, server, TInv, Own
<1>4. \A m \in Name \ {n} : oo_conns[m] # c /\ oo_conns'[m] = oo_conns[m]
  BY <1>1, <1>2 DEF Unused
<1>5. \A m \in Name \ {n} : Unfinished(m)' = Unfinished(m)
  BY <1>1, <1>2, <1>3, <1>4, OthersPending
<1>6. Unfinished(n) = NULL /\ Unfinished(n)' = {}
  BY <1>1, <1>2, <1>3 DEF Unfinished, Begun
<1>7. Committed' = Committed
  BY <1>3 DEF Committed
<1> QED
  BY <1>5, <1>6, <1>7, StartStep

\* The transaction of a named object's connection ends.
LEMMA Ends ==
  ASSUME TInv, NEW n \in Name, NEW c \in OneOff, oo_conns[n] = c,
         oo_conns'[n] \in {NULL, c},
         \A m \in Name \ {n} : oo_conns'[m] = oo_conns[m],
         txn' = [txn EXCEPT ![c] = Ended], saved' = [saved EXCEPT ![n] = {}],
         Committed' \in {Committed, Committed \cup txn[c].ins},
         txn[c].state = "none" => Committed' = Committed
  PROVE  Step
<1>1. /\ c \in Conn /\ c # NULL /\ txn \in [Conn -> Txn]
      /\ saved \in [Name -> SUBSET Row]
  BY ConnectionAssumption DEF Conn, TInv, IInv, TypeOK
<1>2. \A m \in Name \ {n} : Unfinished(m)' = Unfinished(m)
  <2>1. \A m \in Name \ {n} : oo_conns[m] # c /\ saved'[m] = saved[m]
    BY <1>1 DEF TInv, IInv, Counted
  <2> QED
    BY <1>1, <2>1, OthersPending
<1>3. Unfinished(n)' = NULL
  BY <1>1 DEF Unfinished, Ended
<1>4. CASE txn[c].state = "none"
  <2>1. Unfinished(n) = NULL
    BY <1>1, <1>4 DEF Unfinished
  <2> QED
    BY <1>2, <1>3, <1>4, <2>1, StutterStep
<1>5. CASE txn[c].state # "none"
  <2>1. Unfinished(n) = saved[n] /\ saved[n] = txn[c].ins
    BY <1>1, <1>5 DEF Unfinished, TInv, Own
  <2> QED
    BY <1>2, <1>3, <2>1, SavedIsSet, EndStep
<1> QED
  BY <1>4, <1>5

LEMMA FreeImplements ==
  ASSUME TInv, NEW o \in Obj, Free(o)
  PROVE  Step
<1>0. PICK n, c : n = objs[o].conn_name /\ c = oo_conns[n]
  OBVIOUS
<1>1. o \in Live /\ UNCHANGED data
  BY DEF Free, Live, server
<1>2. CASE UNCHANGED <<oo_conns, txn, saved>>
  BY <1>1, <1>2, Quiet
<1>3. CASE ~UNCHANGED <<oo_conns, txn, saved>>
  <2>1. /\ Named(o)
        /\ oo_conns' = [oo_conns EXCEPT ![n] = NULL]
        /\ txn' = [txn EXCEPT ![c] = Ended]
        /\ saved' = [saved EXCEPT ![n] = {}]
    BY <1>0, <1>3 DEF Free, counts
  <2>2. n \in Name /\ c \in OneOff
    BY <1>0, <1>1, <2>1, Places
  <2>3. oo_conns'[n] = NULL /\ \A m \in Name \ {n} : oo_conns'[m] = oo_conns[m]
    BY <2>1, <2>2 DEF TInv, IInv, TypeOK
  <2>4. Committed' = Committed
    BY <1>1 DEF Committed
  <2> QED
    BY <1>0, <2>1, <2>2, <2>3, <2>4, Ends
<1> QED
  BY <1>2, <1>3

\* A row is inserted on a connection without a transaction.
LEMMA PutStep ==
  ASSUME TInv, NEW o \in Obj, NEW r \in Row, Insertable(o, r),
         NEW c \in Conn, txn[c].state # "open",
         Insertion(c, r, txn),
         \A n \in Name : Unfinished(n)' = Unfinished(n)
  PROVE  Step
<1>1. data' = [data EXCEPT ![ServerOf(c)] = @ \cup {r}]
  BY DEF Insertion
<1>2. data \in [Server -> SUBSET Row] /\ ServerOf(c) \in Server
  BY DEF TInv, IInv, TypeOK, ServerOf
<1>3. Committed' = Committed \cup {r}
  BY <1>1, <1>2 DEF Committed
<1>4. \A d \in OneOff : r \notin txn[d].ins
  BY DEF Insertable, Conn
<1> QED
  BY <1>3, <1>4, NowherePending, RowStep

\* An object that has no name inserts on none of the one-off connections.
LEMMA PlainInsert ==
  ASSUME TInv, NEW o \in Live, ~Named(o), NEW r \in Row, Insertable(o, r),
         NEW c \in Conn \ OneOff, Insertion(c, r, txn), Saved(o, r),
         UNCHANGED oo_conns
  PROVE  Step
<1>1. txn[c].state # "open"
  BY DEF TInv, Unbroken
<1>2. UNCHANGED <<txn, saved>>
  BY <1>1 DEF Insertion, Saved
<1> QED
  BY <1>1, <1>2, SamePending, PutStep DEF Live

LEMMA InsertImplements ==
  ASSUME TInv, NEW o \in Obj, NEW r \in Row, Insert(o, r)
  PROVE  Step
<1>0. PICK n, c : n = objs[o].conn_name /\ c = WriteConn(o)
  OBVIOUS
<1>1. /\ o \in Live /\ Insertable(o, r) /\ Insertion(c, r, txn)
      /\ Saved(o, r) /\ UNCHANGED <<objs, oo_conns>>
  BY <1>0 DEF Insert, Insertable, Live, counts
<1>2. CASE ~Named(o)
  <2>1. c \in Conn \ OneOff
    BY <1>0, <1>1, <1>2, Places, ConnType DEF TInv, IInv
  <2> QED
    BY <1>1, <1>2, <2>1, PlainInsert
<1>3. CASE Named(o)
  <2>1. n \in Name /\ c \in OneOff /\ c = oo_conns[n] /\ c \in Conn /\ c # NULL
    BY <1>0, <1>1, <1>3, Places, ConnectionAssumption DEF Conn
  <2>2. /\ txn \in [Conn -> Txn] /\ saved \in [Name -> SUBSET Row]
        /\ txn[c] \in Txn
    BY <2>1 DEF TInv, IInv, TypeOK
  <2>3. saved'[n] = saved[n] \cup {r} /\ \A m \in Name \ {n} : saved'[m] = saved[m]
    BY <1>0, <1>1, <1>3, <2>1, <2>2 DEF Saved
  <2>4. \A m \in Name \ {n} : oo_conns[m] # c
    BY <2>1 DEF TInv, IInv, Counted
  <2>5. \A d \in OneOff : r \notin txn[d].ins
    BY <1>1 DEF Insertable, Conn
  <2>6. CASE txn[c].state = "open"
    <3>1. /\ txn'[c].state = "open"
          /\ \A d \in Conn \ {c} : txn'[d] = txn[d]
          /\ UNCHANGED data
      BY <1>1, <2>1, <2>2, <2>6 DEF Insertion, Txn, server
    <3>2. \A m \in Name \ {n} : Unfinished(m)' = Unfinished(m)
      BY <1>1, <2>1, <2>3, <2>4, <3>1, OthersPending
    <3>3. Unfinished(n) = saved[n] /\ Unfinished(n)' = saved[n] \cup {r}
      BY <1>1, <2>1, <2>3, <2>6, <3>1 DEF Unfinished
    <3>4. Committed' = Committed /\ r \notin Committed
      BY <1>1, <3>1 DEF Committed, Insertable
    <3> QED
      BY <2>1, <2>5, <3>2, <3>3, <3>4, SavedIsSet, NowherePending, SaveStep
  <2>7. CASE txn[c].state # "open"
    <3>1. txn[c].state = "none" /\ UNCHANGED txn
      BY <1>1, <2>1, <2>2, <2>7 DEF TInv, Unbroken, Txn, Insertion
    <3>2. \A m \in Name \ {n} : Unfinished(m)' = Unfinished(m)
      BY <1>1, <2>1, <2>3, <2>4, <3>1, OthersPending
    <3>3. Unfinished(n)' = Unfinished(n)
      BY <1>1, <2>1, <3>1 DEF Unfinished
    <3> QED
      BY <1>1, <2>1, <2>7, <3>2, <3>3, PutStep
  <2> QED
    BY <2>6, <2>7
<1> QED
  BY <1>2, <1>3

LEMMA InsertLocallyImplements ==
  ASSUME Careful, TInv, NEW o \in Obj, NEW r \in Row, InsertLocally(o, r)
  PROVE  Step
<1>1. /\ o \in Live /\ Insertable(o, r) /\ InsertFailing(o) /\ Saved(o, r)
      /\ Insertion(LocalConn(o), r, AfterError({WriteConn(o)}))
      /\ UNCHANGED oo_conns
  BY DEF InsertLocally, Insertable, Live, counts
<1>2. WriteConn(o) \in Conn /\ LocalConn(o) \in Conn
  BY <1>1, ConnType DEF TInv, IInv
<1>3. ~Named(o)
  BY <1>1, <1>2 DEF InsertFailing, Fails, Kind, Careful, TInv, Unbroken
<1>4. LocalConn(o) \notin OneOff /\ WriteConn(o) \notin OneOff
  BY <1>1, <1>3, Places
<1>5. Insertion(LocalConn(o), r, txn)
  BY <1>1, <1>4, NoHarm
<1> QED
  BY <1>1, <1>2, <1>3, <1>4, <1>5, PlainInsert

LEMMA InsertFailsImplements ==
  ASSUME Careful, TInv, NEW o \in Obj, NEW r \in Row, InsertFails(o, r)
  PROVE  Step
<1>1. o \in Live
  BY DEF InsertFails, Insertable, Live
<1>2. ~Named(o)
  <2>1. WriteConn(o) \in Conn
    BY <1>1, ConnType DEF TInv, IInv
  <2> QED
    BY <2>1 DEF InsertFails, InsertFailing, Fails, Kind, Careful, TInv, Unbroken
<1>3. UNCHANGED txn
  BY <1>1, <1>2, Places, NoHarm DEF InsertFails
<1> QED
  BY <1>3, Quiet DEF InsertFails, counts, server

LEMMA DeleteImplements ==
  ASSUME Careful, TInv, NEW o \in Obj, NEW r \in Row,
         Delete(o, r) \/ DeleteFails(o, r)
  PROVE  Step
<1>1. o \in Live /\ ~Named(o) /\ UNCHANGED oo_conns
  BY DEF Delete, DeleteFails, Deletes, Live, counts, Careful
<1>2. PICK c \in Conn \ OneOff : c = DeleteConn(o)
  BY <1>1, Places, NotOneOff
<1>3. CASE DeleteFails(o, r)
  <2>1. UNCHANGED txn
    BY <1>2, <1>3, NoHarm DEF DeleteFails
  <2> QED
    BY <1>3, <2>1, Quiet DEF DeleteFails, counts, server
<1>4. CASE Delete(o, r)
  <2>1. txn[c].state = "none" /\ Deletion(c, r)
    BY <1>2, <1>4 DEF Delete, TInv, Unbroken
  <2>2. /\ UNCHANGED txn
        /\ UNCHANGED data \/ data' = [data EXCEPT ![ServerOf(c)] = @ \ {r}]
    BY <2>1 DEF Deletion, server
  <2>3. Committed' \in {Committed, Committed \ {r}}
    <3>1. data \in [Server -> SUBSET Row] /\ ServerOf(c) \in Server
      BY DEF TInv, IInv, TypeOK, ServerOf
    <3> QED
      BY <2>2, <3>1 DEF Committed
  <2>4. \A d \in OneOff : r \notin txn[d].ins
    BY <1>2, <1>4 DEF Delete, Deletes, Untouched, Conn
  <2>5. \A n \in Name : Unfinished(n)' = Unfinished(n)
    <3>1. \A n \in Name : saved'[n] = saved[n] \ {r}
      BY <1>4 DEF Delete
    <3>2. \A n \in Name : Unfinished(n) # NULL => r \notin Unfinished(n)
      BY <2>4, NowherePending
    <3> QED
      BY <1>1, <2>2, <3>1, <3>2, SavedIsSet DEF Unfinished
  <2>6. CASE Committed' = Committed
    BY <2>5, <2>6, StutterStep
  <2>7. CASE Committed' = Committed \ {r}
    BY <2>4, <2>5, <2>7, NowherePending, RowStep
  <2> QED
    BY <2>3, <2>6, <2>7
<1> QED
  BY <1>3, <1>4

LEMMA BeginImplements ==
  ASSUME TInv, NEW o \in Obj, Begin(o)
  PROVE  Step
<1>0. PICK n, c : n = objs[o].conn_name /\ c = QueryConn(o)
  OBVIOUS
<1>1. o \in Live /\ Named(o) /\ UNCHANGED <<oo_conns, data>>
  BY DEF Begin, Live, counts, server
<1>2. n \in Name /\ c \in OneOff /\ oo_conns[n] = c /\ c \in Conn /\ c # NULL
  BY <1>0, <1>1, Places, ConnectionAssumption DEF Conn
<1>3. /\ txn' = [txn EXCEPT ![c] = Begun] /\ txn[c].state = "none"
      /\ saved' = [saved EXCEPT ![n] = {}]
  BY <1>0 DEF Begin
<1>4. txn \in [Conn -> Txn] /\ saved \in [Name -> SUBSET Row]
  BY DEF TInv, IInv, TypeOK
<1>5. \A m \in Name \ {n} : oo_conns[m] # c /\ saved'[m] = saved[m]
  BY <1>2, <1>3, <1>4 DEF TInv, IInv, Counted
<1>6. \A m \in Name \ {n} : Unfinished(m)' = Unfinished(m)
  BY <1>1, <1>2, <1>3, <1>4, <1>5, OthersPending
<1>7. Unfinished(n) = NULL /\ Unfinished(n)' = {}
  BY <1>1, <1>2, <1>3, <1>4 DEF Unfinished, Begun
<1>8. Committed' = Committed
  BY <1>1 DEF Committed
<1> QED
  BY <1>2, <1>6, <1>7, <1>8, StartStep

LEMMA EndImplements ==
  ASSUME TInv, NEW o \in Obj, NEW commits \in BOOLEAN, End(o, commits)
  PROVE  Step
<1>0. PICK n, c : n = objs[o].conn_name /\ c = QueryConn(o)
  OBVIOUS
<1>1. o \in Live /\ Named(o) /\ UNCHANGED oo_conns
  BY DEF End, Live, counts
<1>2. n \in Name /\ c \in OneOff /\ c \in Conn /\ oo_conns[n] = c
  BY <1>0, <1>1, Places DEF Conn
<1>3. /\ txn' = [txn EXCEPT ![c] = Ended] /\ txn[c].state # "none"
      /\ saved' = [saved EXCEPT ![n] = {}]
      /\ UNCHANGED data \/
           data' = [data EXCEPT ![ServerOf(c)] = (@ \cup txn[c].ins) \ txn[c].del]
  BY <1>0 DEF End, server
<1>4. data \in [Server -> SUBSET Row] /\ ServerOf(c) \in Server /\ txn[c].del = {}
  BY <1>2 DEF TInv, IInv, TypeOK, ServerOf, Unbroken
<1>5. Committed' \in {Committed, Committed \cup txn[c].ins}
  BY <1>3, <1>4 DEF Committed
<1> QED
  BY <1>1, <1>2, <1>3, <1>5, Ends

LEMMA ReplicateImplements ==
  ASSUME TInv, NEW r \in Row, Replicate(r)
  PROVE  Step
<1>1. /\ data \in [Server -> SUBSET Row] /\ UNCHANGED <<oo_conns, txn, saved>>
      /\ data' = [data EXCEPT !["local"] =
                    IF r \in data["master"] THEN @ \cup {r} ELSE @ \ {r}]
  BY DEF Replicate, TInv, IInv, TypeOK, counts
<1>2. Committed' \in {Committed, Committed \ {r}}
  BY <1>1 DEF Committed
<1>3. CASE Committed' = Committed
  BY <1>1, <1>3, SamePending, StutterStep
<1>4. CASE Committed' # Committed
  <2>1. r \in Committed /\ Committed' = Committed \ {r}
    BY <1>2, <1>4
  <2>2. \A d \in OneOff : r \notin txn[d].ins
    BY <2>1 DEF TInv, Apart, Conn
  <2> QED
    BY <1>1, <2>1, <2>2, SamePending, NowherePending, RowStep
<1> QED
  BY <1>3, <1>4

\* A query of a careful application changes no transaction.
LEMMA AskImplements ==
  ASSUME Careful, TInv, NEW o \in Obj, Query(o) \/ RunnowWrite(o)
  PROVE  Step
<1>1. o \in Live
  BY DEF Query, RunnowWrite, Live
<1>2. CASE Query(o)
  <2>1. QueryConn(o) \in Conn
    BY <1>1, ConnType DEF TInv, IInv
  <2>2. IF Named(o) THEN QueryConn(o) \in OneOff ELSE QueryConn(o) \notin OneOff
    BY <1>1, Places
  <2>3. UNCHANGED txn
    BY <1>1, <1>2, <2>1, <2>2, AskedHarmless DEF Query
  <2> QED
    BY <1>2, <2>3, Quiet DEF Query, counts, server
<1>3. CASE RunnowWrite(o)
  <2>1. ~Named(o)
    BY <1>3 DEF RunnowWrite, Careful
  <2>2. UNCHANGED txn
    <3>1. CASE UNCHANGED txn
      BY <3>1
    <3>2. CASE Asked(o, conn_remote_write,
                     [objs EXCEPT ![o].conn = conn_remote_write])
      BY <1>1, <2>1, <3>2, NotOneOff, AskedHarmless
    <3> QED
      BY <1>3, <3>1, <3>2 DEF RunnowWrite
  <2> QED
    BY <1>3, <2>2, Quiet DEF RunnowWrite, counts, server
<1> QED
  BY <1>2, <1>3

LEMMA StepImplements ==
  ASSUME Careful, TInv, [Next]_vars
  PROVE  Step
<1>1. ASSUME NEW o \in Obj, NEW adm \in BOOLEAN, NewPlain(o, adm) PROVE Step
  BY <1>1, Quiet DEF NewPlain, counts, server
<1>2. ASSUME NEW o \in Obj, NEW adm \in BOOLEAN, NEW n \in Name,
             NewShared(o, n, adm)
      PROVE  Step
  BY <1>2, Quiet DEF NewShared, server
<1>3. ASSUME NEW o \in Obj, NEW adm \in BOOLEAN, NEW n \in Name,
             NewConnected(o, n, adm)
      PROVE  Step
  BY <1>3, NewConnectedImplements
<1>4. ASSUME NEW o \in Obj, NEW n \in Name, NewFails(o, n) PROVE Step
  BY <1>4, Quiet DEF NewFails, counts, server
<1>5. ASSUME NEW o \in Obj, Free(o) \/ Query(o) \/ RunnowWrite(o) \/ Begin(o)
      PROVE  Step
  BY <1>5, FreeImplements, AskImplements, BeginImplements
<1>6. ASSUME NEW o \in Obj, NEW commits \in BOOLEAN, End(o, commits) PROVE Step
  BY <1>6, EndImplements
<1>7. ASSUME NEW o \in Obj, NEW r \in Row,
             Insert(o, r) \/ InsertLocally(o, r) \/ InsertFails(o, r)
      PROVE  Step
  BY <1>7, InsertImplements, InsertLocallyImplements, InsertFailsImplements
<1>8. ASSUME NEW o \in Obj, NEW r \in Row, Delete(o, r) \/ DeleteFails(o, r)
      PROVE  Step
  BY <1>8, DeleteImplements
<1>9. CASE Refresh
  BY <1>9, Quiet DEF Refresh, counts, server
<1>10. ASSUME NEW r \in Row, Replicate(r) PROVE Step
  BY <1>10, ReplicateImplements
<1>11. CASE UNCHANGED vars
  BY <1>11, Quiet DEF vars, counts, server
<1> QED
  BY <1>1, <1>2, <1>3, <1>4, <1>5, <1>6, <1>7, <1>8, <1>9, <1>10, <1>11 DEF Next

LEMMA InitImplements == Init => Transactions!TInit
<1> SUFFICES ASSUME Init PROVE Transactions!TInit
  OBVIOUS
<1>1. data["local"] \cup data["master"] = {}
  BY DEF Init
<1>2. \A n \in Name : Unfinished(n) = NULL
  BY DEF Init, Unfinished
<1> QED
  BY <1>1, <1>2 DEF Transactions!TInit

-----------------------------------------------------------------------------
\* If no statement of an object on a one-off connection fails, and such an
\* object neither deletes nor uses bonddb_sql_runnow_write, the connections
\* of bonddbglobal.c, their counts, the second connections statements are
\* tried on and the replication of the servers together are one transaction
\* per name over one store.
THEOREM ConnectionsImplementTransactions ==
  ASSUME Careful PROVE Spec => ImplementsTransactions
<1>1. TInv /\ [Next]_vars => [Transactions!TNext]_(Transactions!tvars)
  BY StepImplements DEF Step
<1> QED
  BY <1>1, InitImplements, TInvariance, PTL
  DEF Spec, ImplementsTransactions, Transactions!TSpec
=============================================================================

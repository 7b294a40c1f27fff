-------------------------- MODULE BondObject_proofs --------------------------
(***************************************************************************)
(* Proofs about BondObject.  First what holds for every table, every bound *)
(* and however careless the application is: type correctness, and the      *)
(* agreement of the write queue with its hash.  Then what the object       *)
(* promises to a careful application.                                      *)
(***************************************************************************)
EXTENDS BondObject, WellFoundedInduction, TLAPS

\* The struct is well formed, and the record it works with is in its array.
Sound(o) ==
  /\ o \in Object
  /\ o.currentrecord \in Row => o.record[o.currentrecord] # NULL

\* What two objects have in common when one is what an id lookup, or a write
\* to a record, has made of the other.
Alike(p, o) ==
  /\ p.currentrow = o.currentrow /\ p.currentrecord = o.currentrecord
  /\ p.numrecord = o.numrecord
  /\ \A i \in Row : p.record[i] \in Record <=> o.record[i] \in Record

-----------------------------------------------------------------------------
(* What the functions of the object return.                                *)

\* A blank record is a record.
LEMMA BlankType ==
  ASSUME NEW m \in Mode
  PROVE  BlankRecord(m) \in Record /\ BlankRecord(m) # NULL
BY NullAssumption DEF BlankRecord, Record, Cache, Col

\* bonddb_getvalue of the key yields a key, of a row that has a record.
LEMMA CurrentKeyType ==
  ASSUME NEW o \in Object
  PROVE  /\ CurrentKey(o) \in Key \cup {NULL}
         /\ CurrentKey(o) # NULL => o.record[o.currentrow] \in Record
<1> DEFINE r == o.record[o.currentrow]
<1>1. r \in Record \cup {NULL}
  BY DEF Object
<1>2. r \in Record => r.cache[KeyField] \in Key \cup {NULL}
  BY DEF Record, Cache
<1>3. ASSUME Usable(o), o.mode \notin Inserting, o.currentrow \in DOMAIN o.res
      PROVE  o.res[o.currentrow].key \in Key
  <2>1. PICK n \in 0..MaxKey : o.res \in [0..(n - 1) -> ResultRow]
    BY <1>3 DEF Usable, Object, ResultSet
  <2>2. o.res[o.currentrow] \in ResultRow
    BY <2>1, <1>3
  <2> QED
    BY <2>2 DEF ResultRow
<1> QED
  BY <1>1, <1>2, <1>3 DEF CurrentKey

LEMMA IdGetType ==
  ASSUME NEW o \in Object
  PROVE  /\ IdGet(o) \in Id \cup {NULL}
         /\ IdGet(o) # NULL => o.record[o.currentrow] \in Record
BY CurrentKeyType DEF IdGet, NewId, Id

LEMMA CacheWrite ==
  ASSUME NEW k \in Cache, NEW c \in Col, NEW v \in Datum \cup {NULL},
         c = KeyField => v \in Key \cup {NULL}
  PROVE  [k EXCEPT ![c] = v] \in Cache
BY DEF Cache, Col

\* A record is put in the array.
LEMMA PlaceRecord ==
  ASSUME NEW o \in Object, NEW row \in Row, NEW r \in Record
  PROVE  [o EXCEPT !.record[row] = r] \in Object
BY DEF Object

LEMMA PutRecord ==
  ASSUME NEW o, Sound(o), NEW row \in Row, NEW r \in Record
  PROVE  /\ Sound([o EXCEPT !.record[row] = r])
         /\ o.record[row] \in Record => Alike([o EXCEPT !.record[row] = r], o)
<1> DEFINE p == [o EXCEPT !.record[row] = r]
<1>1. p.record = [o.record EXCEPT ![row] = r]
  BY DEF Sound, Object
<1>2. /\ p.currentrecord = o.currentrecord /\ p.currentrow = o.currentrow
      /\ p.numrecord = o.numrecord
  BY DEF Sound, Object
<1>3. r # NULL
  BY NullAssumption
<1>4. p \in Object
  BY PlaceRecord DEF Sound
<1>5. o.record \in [Row -> Record \cup {NULL}]
  BY DEF Sound, Object
<1>6. Sound(p)
  BY <1>1, <1>2, <1>3, <1>4, <1>5 DEF Sound
<1>7. o.record[row] \in Record => Alike(p, o)
  BY <1>1, <1>2, <1>5 DEF Alike
<1> QED
  BY <1>6, <1>7

LEMMA PutCache ==
  ASSUME NEW o, Sound(o), NEW row \in Row, o.record[row] \in Record,
         NEW c \in Col, NEW v \in Datum \cup {NULL},
         c = KeyField => v \in Key \cup {NULL}
  PROVE  /\ Sound([o EXCEPT !.record[row].cache[c] = v])
         /\ Alike([o EXCEPT !.record[row].cache[c] = v], o)
<1> DEFINE r == [o.record[row] EXCEPT !.cache[c] = v]
<1>1. [o.record[row].cache EXCEPT ![c] = v] \in Cache
  BY CacheWrite DEF Record
<1>2. r \in Record
  BY <1>1 DEF Record
<1>3. /\ Sound([o EXCEPT !.record[row] = r])
      /\ Alike([o EXCEPT !.record[row] = r], o)
  BY <1>2, PutRecord
<1> QED
  BY <1>3

LEMMA PutMode ==
  ASSUME NEW o, Sound(o), NEW row \in Row, o.record[row] \in Record,
         NEW m \in Mode
  PROVE  /\ Sound([o EXCEPT !.record[row].mode = m])
         /\ Alike([o EXCEPT !.record[row].mode = m], o)
<1> DEFINE r == [o.record[row] EXCEPT !.mode = m]
<1>1. r \in Record
  BY DEF Record
<1>2. /\ Sound([o EXCEPT !.record[row] = r])
      /\ Alike([o EXCEPT !.record[row] = r], o)
  BY <1>1, PutRecord
<1> QED
  BY <1>2

LEMMA PutId ==
  ASSUME NEW o, Sound(o), NEW row \in Row, o.record[row] \in Record,
         NEW id \in Id \cup {NULL}
  PROVE  /\ Sound([o EXCEPT !.record[row].id = id])
         /\ Alike([o EXCEPT !.record[row].id = id], o)
<1> DEFINE r == [o.record[row] EXCEPT !.id = id]
<1>1. r \in Record
  BY DEF Record
<1>2. /\ Sound([o EXCEPT !.record[row] = r])
      /\ Alike([o EXCEPT !.record[row] = r], o)
  BY <1>1, PutRecord
<1> QED
  BY <1>2

LEMMA PutCurrentId ==
  ASSUME NEW o, Sound(o), NEW id \in Id \cup {NULL}
  PROVE  /\ Sound([o EXCEPT !.currentid = id])
         /\ Alike([o EXCEPT !.currentid = id], o)
BY DEF Sound, Object, Alike

LEMMA AlikeTrans ==
  ASSUME NEW o, NEW p, NEW q, Alike(p, o), Alike(q, p)
  PROVE  Alike(q, o)
BY DEF Alike

LEMMA AfterIdGetType ==
  ASSUME NEW o, Sound(o)
  PROVE  Sound(AfterIdGet(o)) /\ Alike(AfterIdGet(o), o)
<1> DEFINE k == CurrentKey(o)
           row == o.currentrow
<1>1. CASE o.noprimarykey
  BY <1>1 DEF AfterIdGet, Alike
<1>2. CASE ~o.noprimarykey /\ k = NULL
  BY <1>2 DEF AfterIdGet, Alike, Sound, Object
<1>3. CASE ~o.noprimarykey /\ k # NULL
  <2>1. k \in Key /\ o.record[row] \in Record /\ row \in Row
    BY <1>3, CurrentKeyType DEF Sound, Object
  <2>2. AfterIdGet(o) = [o EXCEPT !.record[row].cache[KeyField] = k]
    BY <1>3 DEF AfterIdGet
  <2> QED
    BY <2>1, <2>2, PutCache DEF Col, Datum
<1> QED
  BY <1>1, <1>2, <1>3

LEMMA PopulateObject ==
  ASSUME NEW o \in Object, NEW row \in Row
  PROVE  /\ Populate(o, row) \in Object
         /\ o.numrecord > 0 => Populate(o, row).record[row] \in Record
         /\ Populate(o, row).currentrecord = o.currentrecord
         /\ Populate(o, row).currentrow = o.currentrow
         /\ \A i \in Row : o.record[i] # NULL
                           => Populate(o, row).record[i] # NULL
<1>1. CASE o.numrecord > 0 /\ o.record[row] = NULL
  <2>1. BlankRecord(o.mode) \in Record /\ BlankRecord(o.mode) # NULL
    BY BlankType DEF Object
  <2>2. Populate(o, row) = [o EXCEPT !.record[row] = BlankRecord(o.mode)]
    BY <1>1 DEF Populate
  <2>3. Populate(o, row) \in Object
    BY <2>1, <2>2, PlaceRecord
  <2>4. /\ Populate(o, row).record
             = [o.record EXCEPT ![row] = BlankRecord(o.mode)]
        /\ Populate(o, row).currentrecord = o.currentrecord
        /\ Populate(o, row).currentrow = o.currentrow
    BY <2>2 DEF Object
  <2> QED
    BY <2>1, <2>3, <2>4 DEF Object
<1>2. CASE ~(o.numrecord > 0 /\ o.record[row] = NULL)
  BY <1>2 DEF Populate, Object
<1> QED
  BY <1>1, <1>2

LEMMA StaleType ==
  ASSUME NEW id \in Id \cup {NULL}, NEW k, NEW o
  PROVE  Stale(id, k, o) \in Id \cup {NULL} /\ Released(id) \in Id \cup {NULL}
<1>1. \A b \in BOOLEAN : id \in Id => [id EXCEPT !.freed = b] \in Id
  BY DEF Id
<1>2. id \in Id => (id.freed \/ IF id.oid = NULL THEN id.key = k
                                               ELSE id.oid = o) \in BOOLEAN
  BY DEF Id
<1> QED
  BY <1>1, <1>2 DEF Stale, Released

LEMMA FetchType ==
  ASSUME NEW o, Sound(o), NEW row \in Row, row < o.numrecord
  PROVE  Sound(Fetch(o, row))
<1> DEFINE start == [o EXCEPT !.currentrow = row, !.mode = "READ",
                              !.currentrecord = row, !.currentid = NULL]
           fresh == Populate(start, row)
           id == IdGet(fresh)
<1>1. /\ start \in Object /\ start.numrecord > 0
      /\ start.currentrecord = row /\ start.currentrow = row
  <2>1. "READ" \in Mode
    BY DEF Mode
  <2>2. o.numrecord > 0
    BY ConstantAssumption DEF Sound, Object, Row
  <2> QED
    BY <2>1, <2>2 DEF Sound, Object
<1> HIDE DEF start
<1>2. fresh \in Object /\ fresh.record[row] \in Record
  BY <1>1, PopulateObject
<1>3. fresh.currentrecord = row /\ fresh.currentrow = row
  BY <1>1, PopulateObject
<1>4. Sound(fresh)
  BY <1>2, <1>3, NullAssumption DEF Sound
<1>5. CASE FirstTable
  <2> DEFINE q == AfterIdGet(fresh)
  <2>1. Sound(q) /\ q.record[row] \in Record
    BY <1>2, <1>4, AfterIdGetType, NullAssumption DEF Alike, Sound, Object
  <2>2. id \in Id \cup {NULL}
    BY <1>2, IdGetType
  <2>3. Sound([q EXCEPT !.record[row].id = id])
    BY <2>1, <2>2, PutId
  <2>4. Sound([[q EXCEPT !.record[row].id = id] EXCEPT !.currentid = id])
    BY <2>2, <2>3, PutCurrentId
  <2>5. Fetch(o, row)
          = [[q EXCEPT !.record[row].id = id] EXCEPT !.currentid = id]
    BY <1>5 DEF Fetch, start
  <2> QED
    BY <2>4, <2>5
<1>6. CASE ~FirstTable
  BY <1>4, <1>6 DEF Fetch, start
<1> QED
  BY <1>5, <1>6

LEMMA LandType ==
  ASSUME NEW o, Sound(o), NEW row \in Row
  PROVE  Sound(Land(o, row))
<1> DEFINE r == o.record[row]
<1>1. CASE row >= o.numrecord
  BY <1>1 DEF Land
<1>2. CASE row < o.numrecord /\ r # NULL
  <2>1. r \in Record
    BY <1>2 DEF Sound, Object
  <2>2. Land(o, row) = [o EXCEPT !.currentrow = row, !.currentrecord = row,
                                 !.mode = r.mode, !.currentid = r.id]
    BY <1>2 DEF Land, Sound, Object, Row
  <2> QED
    BY <1>2, <2>1, <2>2 DEF Sound, Object, Record
<1>3. CASE row < o.numrecord /\ r = NULL /\ o.state = "READ_RAW"
  BY <1>3, FetchType DEF Land, Sound, Object, Row
<1>4. CASE row < o.numrecord /\ r = NULL /\ o.state # "READ_RAW"
  BY <1>4 DEF Land, Sound, Object, Row
<1> QED
  BY <1>1, <1>2, <1>3, <1>4 DEF Sound, Object, Row

LEMMA RecordDeleteType ==
  ASSUME NEW o, Sound(o), NEW row \in Row,
         row < o.numrecord => o.record[row] # NULL
  PROVE  Sound(RecordDelete(o, row))
<1>1. CASE row >= o.numrecord
  BY <1>1 DEF RecordDelete
<1>2. CASE row < o.numrecord
  <2> DEFINE n == o.numrecord
             rec == o.currentrecord
             p == RecordDelete(o, row)
  <2>1. /\ n \in 1..MaxRow /\ row \in 0..(n - 1) /\ o.currentrow \in Row
        /\ rec \in Row \cup {NULL, Freed} /\ o.record \in [Row -> Record \cup {NULL}]
    BY <1>2, ConstantAssumption DEF Sound, Object, Row
  <2>2. p.record = [i \in Row |-> IF i \in row..(n - 2) THEN o.record[i + 1]
                                  ELSE IF i = n - 1 THEN NULL ELSE o.record[i]]
    BY <1>2, <2>1 DEF RecordDelete, Sound, Object, Row
  <2>3. p.record \in [Row -> Record \cup {NULL}]
    BY <2>1, <2>2, ConstantAssumption DEF Row
  <2>4. p.numrecord = n - 1 /\ n - 1 \in 0..MaxRow
    BY <1>2, <2>1, ConstantAssumption DEF RecordDelete, Sound, Object, Row
  <2>5. p.currentrow \in Row
    BY <1>2, <2>1, ConstantAssumption DEF RecordDelete, Sound, Object, Row
  <2>6. p.currentid \in Id \cup {NULL}
    BY <1>2, <2>1, StaleType DEF RecordDelete, Sound, Object, Row
  <2>7. p.currentrecord = IF o.currentrow = row THEN NULL
                          ELSE IF rec = row THEN Freed
                          ELSE IF rec \in (row + 1)..(n - 1) THEN rec - 1
                          ELSE rec
    BY <1>2, <2>1 DEF RecordDelete, Sound, Object, Row
  <2>8. p.currentrecord \in Row \cup {NULL, Freed}
    BY <2>1, <2>7, ConstantAssumption DEF Row
  <2>9. p \in Object
    BY <1>2, <2>1, <2>3, <2>4, <2>5, <2>6, <2>8
    DEF RecordDelete, Sound, Object, Row
  <2>10. ASSUME p.currentrecord \in Row
         PROVE  p.record[p.currentrecord] # NULL
    <3>1. rec \in Row /\ rec # row
      <4>1. p.currentrecord # NULL /\ p.currentrecord # Freed
        BY <2>10, ConstantAssumption
      <4>2. CASE rec \in (row + 1)..(n - 1)
        BY <2>1, <4>2, ConstantAssumption DEF Row
      <4>3. CASE rec \notin (row + 1)..(n - 1)
        <5>1. rec # row /\ p.currentrecord = rec
          BY <2>7, <4>1, <4>3
        <5> QED
          BY <2>10, <5>1
      <4> QED
        BY <4>2, <4>3
    <3>2. o.record[rec] # NULL
      BY <3>1 DEF Sound
    <3>3. CASE rec \in (row + 1)..(n - 1)
      BY <2>1, <2>2, <2>7, <2>10, <3>1, <3>2, <3>3, ConstantAssumption DEF Row
    <3>4. CASE rec \notin (row + 1)..(n - 1)
      BY <2>1, <2>2, <2>7, <2>10, <3>1, <3>2, <3>4, ConstantAssumption DEF Row
    <3> QED
      BY <3>3, <3>4
  <2> QED
    BY <2>9, <2>10 DEF Sound
<1> QED
  BY <1>1, <1>2 DEF Sound, Object, Row


\* The record an object works with, when it is not a dangling pointer.
LEMMA WorkingRecord ==
  ASSUME NEW o, Sound(o), o.currentrecord \in Row
  PROVE  o.record[o.currentrecord] \in Record
BY DEF Sound, Object

LEMMA CachedType ==
  ASSUME NEW o, Sound(o), NEW c \in Col, NEW v \in Datum \cup {NULL},
         c = KeyField => v \in Key \cup {NULL},
         v = NULL \/ o.record[o.currentrow] \in Record
  PROVE  Sound(Cached(o, c, v)) /\ Alike(Cached(o, c, v), o)
<1>1. CASE v = NULL
  BY <1>1 DEF Cached, Alike
<1>2. CASE v # NULL
  <2>1. Cached(o, c, v) = [o EXCEPT !.record[o.currentrow].cache[c] = v]
    BY <1>2 DEF Cached
  <2>2. o.currentrow \in Row
    BY DEF Sound, Object
  <2> QED
    BY <1>2, <2>1, <2>2, PutCache
<1> QED
  BY <1>1, <1>2

LEMMA TouchedType ==
  ASSUME NEW o, Sound(o), o.currentrecord \in Row
  PROVE  Sound(Touched(o)) /\ Alike(Touched(o), o)
<1> DEFINE m == IF o.mode = "READ" THEN "UPDATE" ELSE o.mode
           p == [o EXCEPT !.mode = m]
<1>1. m \in Mode
  BY DEF Sound, Object, Mode
<1>2. Sound(p) /\ Alike(p, o) /\ p.record = o.record
  BY <1>1 DEF Sound, Object, Alike
<1>3. p.record[o.currentrecord] \in Record
  BY <1>2, WorkingRecord
<1>4. /\ Sound([p EXCEPT !.record[o.currentrecord].mode = m])
      /\ Alike([p EXCEPT !.record[o.currentrecord].mode = m], p)
  BY <1>1, <1>2, <1>3, PutMode
<1>5. Touched(o) = [p EXCEPT !.record[o.currentrecord].mode = m]
  BY DEF Touched
<1> QED
  BY <1>2, <1>4, <1>5, AlikeTrans

LEMMA IdentifiedType ==
  ASSUME NEW o, Sound(o), o.currentrecord \in Row
  PROVE  Sound(Identified(o)) /\ Alike(Identified(o), o)
<1>1. CASE ~NeedsId(o)
  BY <1>1 DEF Identified, Alike
<1>2. CASE NeedsId(o)
  <2> DEFINE p == AfterIdGet(o)
             id == IdGet(o)
  <2>1. Sound(p) /\ Alike(p, o) /\ id \in Id \cup {NULL}
    BY AfterIdGetType, IdGetType DEF Sound
  <2>2. p.record[o.currentrecord] \in Record
    BY <2>1, WorkingRecord DEF Alike
  <2>3. /\ Sound([p EXCEPT !.record[o.currentrecord].id = id])
        /\ Alike([p EXCEPT !.record[o.currentrecord].id = id], p)
    BY <2>1, <2>2, PutId
  <2>4. Identified(o) = [p EXCEPT !.record[o.currentrecord].id = id]
    BY <1>2 DEF Identified
  <2> QED
    BY <2>1, <2>3, <2>4, AlikeTrans
<1> QED
  BY <1>1, <1>2

\* bonddb_write_handleinsert, of a row that has a record.
LEMMA HandleInsertType ==
  ASSUME NEW o, Sound(o), NEW row \in Row, o.record[row] \in Record,
         NEW oid \in Key
  PROVE  Sound(HandleInsert(o, row, oid))
<1> DEFINE s == [o EXCEPT !.record[row].mode = "INSERT_SAVED"]
           id == IF IdGet(s) = NULL THEN NULL
                 ELSE [IdGet(s) EXCEPT !.oid = oid]
           t == [AfterIdGet(s) EXCEPT !.record[row].id = id]
<1>1. Sound(s) /\ Alike(s, o)
  BY PutMode DEF Mode
<1>2. IdGet(s) \in Id \cup {NULL}
  BY <1>1, IdGetType DEF Sound
<1>3. id \in Id \cup {NULL}
  BY <1>2 DEF Id
<1>4. Sound(AfterIdGet(s)) /\ AfterIdGet(s).record[row] \in Record
  BY <1>1, AfterIdGetType DEF Alike
<1> HIDE DEF id, s
<1>5. Sound(t)
  BY <1>3, <1>4, PutId
<1>6. \A u : Sound(u) =>
        Sound([[u EXCEPT !.mode = "INSERT_SAVED"] EXCEPT !.currentid = id])
  BY <1>3 DEF Sound, Object, Mode
<1>7. HandleInsert(o, row, oid) =
        IF o.currentrow = row
        THEN [[t EXCEPT !.mode = "INSERT_SAVED"] EXCEPT !.currentid = id]
        ELSE t
  BY DEF HandleInsert, id, s
<1> HIDE DEF t
<1> QED
  BY <1>5, <1>6, <1>7

\* bonddb_loadall: what is freed, and what is loaded.
LEMMA UnloadedType ==
  ASSUME Sound(obj)
  PROVE  Sound(Unloaded)
<1>2. CASE obj.res = NULL
  BY <1>2 DEF Unloaded
<1>3. CASE obj.res # NULL
  <2>1. obj.currentid \in Id \cup {NULL}
    BY DEF Sound, Object
  <2>2. Released(obj.currentid) \in Id \cup {NULL}
    BY <2>1, StaleType
  <2>3. 0 \in 0..MaxRow
    BY ConstantAssumption
  <2>4. NULL \notin Row
    BY ConstantAssumption
  <2> QED
    BY <1>3, <2>2, <2>3, <2>4 DEF Unloaded, Sound, Object
<1> QED
  BY <1>2, <1>3

LEMMA LoadedType ==
  ASSUME Sound(obj), NEW rs \in ResultSet \cup {NULL}, NEW n \in 0..MaxRow
  PROVE  Sound(Loaded(rs, n))
<1> DEFINE u == [Unloaded EXCEPT !.res = rs, !.state = "READ_RAW",
                                 !.numrecord = n, !.mode = "READ",
                                 !.currentrow = 0]
           o == Populate(u, 0)
<1>1. Sound(Unloaded)
  BY UnloadedType
<1>2. 0 \in Row /\ NULL \notin Row
  BY ConstantAssumption DEF Row
<1>3. u \in Object /\ u.numrecord = n
  BY <1>1, <1>2 DEF Sound, Object, Mode
<1> HIDE DEF u
<1>4. o \in Object /\ (n > 0 => o.record[0] # NULL)
  BY <1>2, <1>3, PopulateObject, NullAssumption
<1>5. Loaded(rs, n) = [o EXCEPT !.currentrecord = IF n = 0 THEN NULL ELSE 0]
  BY DEF Loaded, u
<1> HIDE DEF o
<1> QED
  BY <1>2, <1>4, <1>5 DEF Sound, Object

-----------------------------------------------------------------------------
(* The write queue.                                                        *)

\* The queue has its type, and agrees with its hash.
QueueOK ==
  writequeue \subseteq Write /\ tail \in Nat \ {0} /\ HashAgrees

\* Entries that differ at most in mark, value and id; and a queue made of such
\* variants of some of the entries of P.
Same(e, x) ==
  e.pos = x.pos /\ e.row = x.row /\ e.type = x.type /\ e.field = x.field
Made(Q, P) ==
  /\ Q \subseteq Write
  /\ \A e \in Q : \E x \in P : Same(e, x)
  /\ \A e, x \in Q : e.pos = x.pos => e = x

\* A write that supersedes the one to the same column, and no other.
LEMMA EnqueueKeeps ==
  ASSUME QueueOK, NEW e \in Write, e.pos = tail, e.type # "DELETE", Enqueue(e)
  PROVE  QueueOK'
<1> DEFINE old == {x \in writequeue :
                     /\ HashKey(e) \in DOMAIN writequeuehash
                     /\ x.pos = writequeuehash[HashKey(e)]}
           new == [e EXCEPT !.mark = @ \/ \E x \in old : x.mark]
<1>1. /\ writequeue' = (writequeue \ old) \cup {new}
      /\ writequeuehash' =
           [k \in DOMAIN writequeuehash \cup {HashKey(e)} |->
              IF k = HashKey(e) THEN e.pos ELSE writequeuehash[k]]
      /\ tail' = tail + 1
  BY DEF Enqueue
<1>2. new \in Write /\ Same(new, e)
  <2>1. (e.mark \/ \E x \in old : x.mark) \in BOOLEAN
    BY DEF Write
  <2>2. \A b \in BOOLEAN :
          [e EXCEPT !.mark = b] \in Write /\ Same([e EXCEPT !.mark = b], e)
    BY DEF Write, Same
  <2> QED
    BY <2>1, <2>2
<1>3. new.pos = tail /\ new.type # "DELETE" /\ HashKey(new) = HashKey(e)
  BY <1>2 DEF Same, HashKey
<1>4. ASSUME NEW x \in Fields(writequeue)
      PROVE  HashKey(x) = HashKey(e) <=> x \in old
  <2>1. HashKey(x) \in DOMAIN writequeuehash /\ x \in writequeue
        /\ writequeuehash[HashKey(x)] = x.pos
    BY DEF QueueOK, HashAgrees, Fields
  <2>2. HashKey(x) = HashKey(e) => x \in old
    BY <2>1
  <2>3. ASSUME x \in old PROVE HashKey(x) = HashKey(e)
    <3>1. PICK y \in Fields(writequeue) : HashKey(y) = HashKey(e)
      BY <2>3 DEF QueueOK, HashAgrees
    <3>2. y.pos = x.pos /\ y \in writequeue
      BY <2>3, <3>1 DEF QueueOK, HashAgrees, Fields
    <3> QED
      BY <2>1, <3>1, <3>2 DEF QueueOK, HashAgrees
  <2> QED
    BY <2>2, <2>3
<1> HIDE DEF new
<1>5. Fields(writequeue') = (Fields(writequeue) \ old) \cup {new}
  BY <1>1, <1>3 DEF Fields
<1>6. /\ \A x \in writequeue' : x.pos < tail'
      /\ \A x, y \in writequeue' : x.pos = y.pos => x = y
  <2>1. \A x \in writequeue : x.pos \in Nat /\ x.pos < tail
    BY DEF QueueOK, HashAgrees, Write
  <2> QED
    BY <1>1, <1>3, <2>1 DEF QueueOK, HashAgrees
<1>7. DOMAIN writequeuehash' = {HashKey(x) : x \in Fields(writequeue')}
  BY <1>1, <1>3, <1>4, <1>5 DEF QueueOK, HashAgrees
<1>8. \A x \in Fields(writequeue') : writequeuehash'[HashKey(x)] = x.pos
  BY <1>1, <1>3, <1>4, <1>5 DEF QueueOK, HashAgrees
<1>9. writequeue' \subseteq Write /\ tail' \in Nat \ {0}
  BY <1>1, <1>2 DEF QueueOK
<1> QED
  BY <1>6, <1>7, <1>8, <1>9 DEF QueueOK, HashAgrees

\* The queue is left with some of its entries.
LEMMA LeaveKeeps ==
  ASSUME QueueOK, NEW Q, Made(Q, writequeue), Leave(Q)
  PROVE  QueueOK'
<1>1. /\ writequeue' = Q
      /\ writequeuehash' =
           [k \in {HashKey(e) : e \in Fields(Q)} |-> writequeuehash[k]]
      /\ tail' = IF Q = {} THEN 1 ELSE tail
  BY DEF Leave
<1>2. \A e \in Q : \E x \in writequeue : Same(e, x)
  BY DEF Made
<1>3. \A e \in Q : e.pos < tail'
  BY <1>1, <1>2 DEF QueueOK, HashAgrees, Same
<1>4. ASSUME NEW e \in Fields(Q) PROVE writequeuehash[HashKey(e)] = e.pos
  <2>1. PICK x \in writequeue : Same(e, x)
    BY <1>2 DEF Fields
  <2>2. x \in Fields(writequeue) /\ HashKey(e) = HashKey(x)
    BY <2>1 DEF Fields, Same, HashKey
  <2> QED
    BY <2>1, <2>2 DEF QueueOK, HashAgrees, Same
<1>5. \A e \in Fields(Q) : writequeuehash'[HashKey(e)] = e.pos
  BY <1>1, <1>4
<1> QED
  BY <1>1, <1>3, <1>5 DEF QueueOK, HashAgrees, Made

\* Every entry stays, in some variant.
LEMMA SameKeeps ==
  ASSUME QueueOK, Made(writequeue', writequeue),
         \A x \in writequeue : \E e \in writequeue' : Same(e, x),
         UNCHANGED <<writequeuehash, tail>>
  PROVE  QueueOK'
<1>1. \A e \in writequeue' : \E x \in writequeue : Same(e, x)
  BY DEF Made
<1>2. \A e, x : Same(e, x) => HashKey(e) = HashKey(x)
  BY DEF Same, HashKey
<1>3. \A e \in Fields(writequeue') : \E x \in Fields(writequeue) : Same(e, x)
  BY <1>1 DEF Fields, Same
<1>4. \A x \in Fields(writequeue) : \E e \in Fields(writequeue') : Same(e, x)
  BY DEF Fields, Same
<1>5. {HashKey(e) : e \in Fields(writequeue')}
        = {HashKey(e) : e \in Fields(writequeue)}
  BY <1>2, <1>3, <1>4
<1>6. \A e \in Fields(writequeue') : writequeuehash'[HashKey(e)] = e.pos
  BY <1>2, <1>3 DEF QueueOK, HashAgrees, Same
<1>7. \A e \in writequeue' : e.pos < tail'
  BY <1>1 DEF QueueOK, HashAgrees, Same
<1> QED
  BY <1>5, <1>6, <1>7 DEF QueueOK, HashAgrees, Made

\* A deletion is queued: it has no column, so the hash is not concerned.
LEMMA DeletionKeeps ==
  ASSUME QueueOK, NEW e \in Write, e.pos = tail, e.type = "DELETE",
         writequeue' = writequeue \cup {e}, tail' = tail + 1,
         UNCHANGED writequeuehash
  PROVE  QueueOK'
<1>1. \A x \in writequeue : x.pos \in Nat /\ x.pos < tail
  BY DEF QueueOK, HashAgrees, Write
<1>2. Fields(writequeue') = Fields(writequeue)
  BY DEF Fields
<1>3. \A x \in writequeue' : x.pos < tail'
  BY <1>1 DEF QueueOK
<1>4. \A x, y \in writequeue' : x.pos = y.pos => x = y
  BY <1>1 DEF QueueOK, HashAgrees
<1>5. writequeue' \subseteq Write /\ tail' \in Nat \ {0}
  BY DEF QueueOK
<1>6. /\ DOMAIN writequeuehash' = {HashKey(x) : x \in Fields(writequeue')}
      /\ \A x \in Fields(writequeue') : writequeuehash'[HashKey(x)] = x.pos
  BY <1>2 DEF QueueOK, HashAgrees
<1> QED
  BY <1>3, <1>4, <1>5, <1>6 DEF QueueOK, HashAgrees

\* Queues made of the entries of another.
LEMMA PartMade ==
  ASSUME NEW P, NEW R, Made(R, P), NEW Q, Q \subseteq R
  PROVE  Made(Q, P)
BY DEF Made

LEMMA WholeMade ==
  ASSUME QueueOK
  PROVE  Made(writequeue, writequeue)
BY DEF Made, QueueOK, HashAgrees, Same

\* An entry is given another id, or is marked.
LEMMA WriteId ==
  ASSUME NEW e \in Write, NEW id \in Id \cup {NULL}
  PROVE  [e EXCEPT !.id = id] \in Write /\ Same([e EXCEPT !.id = id], e)
BY DEF Write, Same

LEMMA StaleMade ==
  ASSUME NEW P, NEW R, Made(R, P), NEW k, NEW o
  PROVE  /\ Made(StaleQueue(R, k, o), P)
         /\ \A x \in R : \E e \in StaleQueue(R, k, o) : Same(e, x)
<1> DEFINE g(e) == [e EXCEPT !.id = Stale(@, k, o)]
<1>1. \A e \in R : g(e) \in Write /\ Same(g(e), e)
  <2> TAKE e \in R
  <2>1. e \in Write /\ e.id \in Id \cup {NULL}
    BY DEF Made, Write
  <2>2. Stale(e.id, k, o) \in Id \cup {NULL}
    BY <2>1, StaleType
  <2> QED
    BY <2>1, <2>2, WriteId
<1>2. StaleQueue(R, k, o) = {g(e) : e \in R}
  BY DEF StaleQueue
<1> HIDE DEF g
<1> QED
  BY <1>1, <1>2 DEF Made, Same

LEMMA ReleasedMade ==
  ASSUME NEW P, NEW R, Made(R, P)
  PROVE  /\ Made(ReleasedQueue(R), P)
         /\ \A x \in R : \E e \in ReleasedQueue(R) : Same(e, x)
<1> DEFINE g(e) == [e EXCEPT !.id = Released(@)]
<1>1. \A e \in R : g(e) \in Write /\ Same(g(e), e)
  <2> TAKE e \in R
  <2>1. e \in Write /\ e.id \in Id \cup {NULL}
    BY DEF Made, Write
  <2>2. Released(e.id) \in Id \cup {NULL}
    BY <2>1, StaleType
  <2> QED
    BY <2>1, <2>2, WriteId
<1>2. ReleasedQueue(R) = {g(e) : e \in R}
  BY DEF ReleasedQueue
<1> HIDE DEF g
<1> QED
  BY <1>1, <1>2 DEF Made, Same

LEMMA MarkedMade ==
  ASSUME QueueOK,
         writequeue' = {[e EXCEPT !.mark = TRUE] : e \in writequeue}
  PROVE  /\ Made(writequeue', writequeue)
         /\ \A x \in writequeue : \E e \in writequeue' : Same(e, x)
<1> DEFINE g(e) == [e EXCEPT !.mark = TRUE]
<1>1. \A e \in writequeue : g(e) \in Write /\ Same(g(e), e)
  BY DEF QueueOK, Write, Same
<1>2. writequeue' = {g(e) : e \in writequeue}
  OBVIOUS
<1> HIDE DEF g
<1> QED
  BY <1>1, <1>2 DEF Made, Same, QueueOK, HashAgrees

\* bonddb_write_sql_where leaves an id of the right type and a sound object.
LEMMA WhereType ==
  ASSUME Sound(obj), NEW w \in Write, WhereFault(w) = "none"
  PROVE  /\ WhereId(w) \in Id \cup {NULL}
         /\ Sound(AfterWhere(w)) /\ Alike(AfterWhere(w), obj)
<1>1. obj.record[w.row] \in Record \cup {NULL} /\ w.id \in Id \cup {NULL}
  BY DEF Sound, Object, Write
<1>2. \A r \in Record : r.id \in Id \cup {NULL}
  BY DEF Record
<1>3. IdGet(obj) \in Id \cup {NULL} /\ obj.currentid \in Id \cup {NULL}
  BY IdGetType DEF Sound, Object
<1>4. w.id = NULL => obj.record[w.row] # NULL
  BY DEF WhereFault
<1>5. WhereId(w) \in Id \cup {NULL}
  BY <1>1, <1>2, <1>3, <1>4 DEF WhereId
<1>6. Sound(AfterIdGet(obj)) /\ Alike(AfterIdGet(obj), obj)
  BY AfterIdGetType
<1>7. ASSUME IdGet(obj) # NULL
      PROVE  LET p == [AfterIdGet(obj) EXCEPT
                         !.record[obj.currentrow].id = IdGet(obj),
                         !.currentid = IdGet(obj)]
             IN  Sound(p) /\ Alike(p, obj)
  <2> DEFINE row == obj.currentrow
             p == [AfterIdGet(obj) EXCEPT !.record[row].id = IdGet(obj)]
             q == [p EXCEPT !.currentid = IdGet(obj)]
  <2>1. AfterIdGet(obj).record[row] \in Record /\ row \in Row
    BY <1>6, <1>7, IdGetType DEF Alike, Sound, Object
  <2>2. Sound(p) /\ Alike(p, AfterIdGet(obj))
    BY <1>3, <1>6, <2>1, PutId
  <2>3. Sound(q) /\ Alike(q, p)
    BY <1>3, <2>2, PutCurrentId
  <2> QED
    BY <1>6, <2>2, <2>3, AlikeTrans
<1>8. Sound(AfterWhere(w)) /\ Alike(AfterWhere(w), obj)
  BY <1>6, <1>7 DEF AfterWhere, Alike
<1> QED
  BY <1>5, <1>8

\* A set of entries of the queue that is not empty has a last one.
LEMMA LastEntry ==
  ASSUME QueueOK, NEW G, G \subseteq writequeue, G # {}
  PROVE  \E e \in G : \A x \in G : x.pos <= e.pos
<1> DEFINE T == {tail - e.pos : e \in G}
           R == OpToRel(<, Nat)
<1>1. \A e \in G : e.pos \in Nat /\ e.pos < tail
  BY DEF QueueOK, HashAgrees, Write
<1>2. T \subseteq Nat /\ T # {}
  BY <1>1 DEF QueueOK
<1>3. PICK m \in T : \A y \in T : ~(<<y, m>> \in R)
  BY <1>2, NatLessThanWellFounded, WFMin
<1>4. \A y, z \in Nat : y < z => <<y, z>> \in R
  BY DEF OpToRel
<1>5. PICK e \in G : m = tail - e.pos
  BY <1>3
<1>6. \A x \in G : ~(tail - x.pos < tail - e.pos)
  BY <1>2, <1>3, <1>4, <1>5
<1>7. \A x \in G : x.pos <= e.pos
  BY <1>1, <1>6 DEF QueueOK
<1> QED
  BY <1>7

\* The entry a statement takes its type and its id from.
LEMMA LastMarkedType ==
  ASSUME QueueOK, NEW w, Marked(Group(w)) # {}
  PROVE  LastMarked(Group(w)) \in Group(w)
<1>1. Marked(Group(w)) \subseteq writequeue
  BY DEF Marked, Group, Fields
<1>2. \E e \in Marked(Group(w)) : \A x \in Marked(Group(w)) : x.pos <= e.pos
  BY <1>1, LastEntry
<1>3. LastMarked(Group(w)) \in Marked(Group(w))
  BY <1>2 DEF LastMarked
<1> QED
  BY <1>3 DEF Marked

LEMMA WithWhereMade ==
  ASSUME QueueOK, Sound(obj), NEW w \in writequeue, WhereFault(w) = "none"
  PROVE  /\ Made(WithWhere(w), writequeue)
         /\ \A x \in writequeue : \E e \in WithWhere(w) : Same(e, x)
<1> DEFINE v == [w EXCEPT !.id = WhereId(w)]
<1>1. w \in Write
  BY DEF QueueOK
<1>2. v \in Write /\ Same(v, w)
  BY <1>1, WhereType, WriteId
<1>3. WithWhere(w) = (writequeue \ {w}) \cup {v}
  BY DEF WithWhere
<1> HIDE DEF v
<1> QED
  BY <1>2, <1>3 DEF Made, Same, QueueOK, HashAgrees

-----------------------------------------------------------------------------
(* The inductive invariant, and the calls that keep it.                    *)

\* The variables other than the struct and its queue.
Plain ==
  /\ db \in [Key -> TableRow \cup {NULL}]
  /\ nextkey \in Nat \ {0} /\ fails \in 0..MaxFail /\ others \in 0..MaxOther
  /\ pc \in {"idle", "saving", "refresh"} /\ walk \in Nat
  /\ wrote \subseteq Row /\ corrupt \in BOOLEAN /\ fault \in Fault

IInv == Plain /\ Sound(obj) /\ QueueOK

\* What the object's SELECT returns is a result set.
LEMMA AnswerType ==
  ASSUME Plain, NEW n \in 0..MaxKey, NEW r \in [0..(n - 1) -> Key],
         IsAnswer(n, r)
  PROVE  Answer(n, r) \in ResultSet
<1>1. \A i \in 0..(n - 1) : r[i] \in Key /\ db[r[i]] \in TableRow
  BY DEF IsAnswer, Present, Plain
<1>2. Answer(n, r) \in [0..(n - 1) -> ResultRow]
  BY <1>1 DEF Answer, ResultRow
<1> QED
  BY <1>2 DEF ResultSet

LEMMA NoAnswerType == ASSUME NEW r PROVE Answer(0, r) \in ResultSet
<1>1. Answer(0, r) \in [0..(0 - 1) -> ResultRow]
  BY DEF Answer
<1>2. 0 \in 0..MaxKey
  BY ConstantAssumption
<1> QED
  BY <1>1, <1>2 DEF ResultSet

\* A value is written through a record the object is on.
LEMMA WrittenType ==
  ASSUME QueueOK, NEW o, Sound(o), o.currentrecord \in Row,
         NEW c \in Col, NEW v \in Datum \cup {NULL}, NEW mark \in BOOLEAN,
         c = KeyField => v \in Key \cup {NULL},
         v = NULL \/ o.record[o.currentrow] \in Record,
         Write1(Identified(Touched(Cached(o, c, v))), c, v, mark)
  PROVE  Sound(obj') /\ QueueOK'
<1> DEFINE p == Identified(Touched(Cached(o, c, v)))
           id == p.record[p.currentrecord].id
           s == [p EXCEPT !.currentid = id]
<1>1. Sound(Cached(o, c, v)) /\ Cached(o, c, v).currentrecord \in Row
  BY CachedType DEF Alike
<1>2. /\ Sound(Touched(Cached(o, c, v)))
      /\ Touched(Cached(o, c, v)).currentrecord \in Row
  BY <1>1, TouchedType DEF Alike
<1>3. Sound(p) /\ p.currentrecord \in Row
  BY <1>2, IdentifiedType DEF Alike
<1> HIDE DEF p
<1>4. id \in Id \cup {NULL}
  BY <1>3, WorkingRecord DEF Record
<1>5. Sound(s)
  BY <1>3, <1>4, PutCurrentId
<1>6. CASE NeedsId(p)
  <2>1. obj' = p /\ UNCHANGED queue
    BY <1>6 DEF Write1, p
  <2> QED
    BY <1>3, <2>1 DEF queue, QueueOK, HashAgrees, Fields
<1>7. CASE ~NeedsId(p)
  <2>1. /\ obj' = IF s.currentid = NULL THEN s ELSE AfterIdGet(s)
        /\ WriteAdd(s, c, v, mark)
    BY <1>7 DEF Write1, p
  <2>2. Sound(obj')
    BY <1>5, <2>1, AfterIdGetType
  <2> DEFINE e == [pos |-> tail, row |-> s.currentrow, field |-> c, value |-> v,
                   type |-> IF s.mode = "INSERT" THEN "INSERT" ELSE "UPDATE",
                   mark |-> mark,
                   id |-> IF s.currentid = NULL THEN NULL ELSE IdGet(s)]
  <2>3. s.currentrow \in Row /\ IdGet(s) \in Id \cup {NULL} /\ tail \in Nat
    BY <1>5, IdGetType DEF Sound, Object, QueueOK
  <2> HIDE DEF s
  <2>4. e \in Write /\ e.pos = tail /\ e.type # "DELETE"
    BY <2>3 DEF Write
  <2>5. Enqueue(e)
    BY <2>1 DEF WriteAdd
  <2>6. QueueOK'
    BY <2>4, <2>5, EnqueueKeeps
  <2> QED
    BY <2>2, <2>6
<1> QED
  BY <1>6, <1>7

LEMMA SetValueKeeps ==
  ASSUME IInv, NEW c \in Col, NEW v \in Datum \cup {NULL},
         NEW m \in BOOLEAN, SetValue(c, v, m)
  PROVE  IInv'
<1>1. Plain'
  BY DEF IInv, Plain, SetValue, saving, Fault
<1>2. CASE obj.currentrecord = Freed
  BY <1>1, <1>2 DEF IInv, SetValue, queue, QueueOK, HashAgrees, Fields
<1>3. CASE obj.currentrecord # Freed
  <2>1. Write1(Identified(Touched(Cached(obj, c, v))), c, v, m)
    BY <1>3 DEF SetValue
  <2>2. obj.currentrecord \in Row
    BY <1>3 DEF SetValue, Usable, IInv, Sound, Object
  <2>3. c = KeyField => v \in Key \cup {NULL}
    BY DEF SetValue, Settable
  <2>4. v = NULL \/ obj.record[obj.currentrow] \in Record
    BY DEF SetValue, IInv, Sound, Object
  <2>5. Sound(obj') /\ QueueOK'
    BY <2>1, <2>2, <2>3, <2>4, WrittenType DEF IInv
  <2> QED
    BY <1>1, <2>5 DEF IInv
<1> QED
  BY <1>2, <1>3

LEMMA AddKeeps ==
  ASSUME IInv, Add
  PROVE  IInv'
<1> DEFINE row == obj.numrecord
           o == [obj EXCEPT !.mode = "INSERT", !.currentrow = row,
                            !.numrecord = row + 1]
           new == [Populate(o, row) EXCEPT !.currentrecord = row]
<1>1. Plain'
  <2>1. UNCHANGED <<db, fails, others, saving, fault>>
    BY DEF Add
  <2>2. nextkey' = nextkey \/ nextkey' = nextkey + 1
    BY DEF Add
  <2> QED
    BY <2>1, <2>2 DEF IInv, Plain, saving
<1>2. row \in Row /\ row + 1 \in 0..MaxRow
  BY ConstantAssumption DEF IInv, Sound, Object, Add, Row
<1>3. o \in Object /\ o.numrecord = row + 1 /\ o.currentrow = row
  BY <1>2 DEF IInv, Sound, Object, Mode
<1> HIDE DEF o
<1>4. /\ Populate(o, row) \in Object /\ Populate(o, row).currentrow = row
      /\ Populate(o, row).record[row] \in Record
  <2>1. row + 1 > 0
    BY <1>2, ConstantAssumption DEF Row
  <2> QED
    BY <1>2, <1>3, <2>1, PopulateObject
<1>5. /\ Sound(new) /\ new.currentrecord = row /\ new.currentrow = row
      /\ new.record[row] \in Record
  BY <1>2, <1>4, NullAssumption DEF Sound, Object
<1> HIDE DEF new
<1>6. CASE KeyDefault
  <2>1. /\ nextkey \in Key
        /\ Write1(Identified(Touched(Cached(new, KeyField, nextkey))),
                  KeyField, nextkey, FALSE)
    BY <1>6 DEF Add, new, o
  <2>2. Sound(obj') /\ QueueOK'
    BY <1>2, <1>5, <2>1, WrittenType DEF IInv, Col, Datum
  <2> QED
    BY <1>1, <2>2 DEF IInv
<1>7. CASE ~KeyDefault
  <2>1. obj' = new /\ UNCHANGED queue
    BY <1>7 DEF Add, new, o
  <2> QED
    BY <1>1, <1>5, <2>1 DEF IInv, queue, QueueOK, HashAgrees, Fields
<1> QED
  BY <1>6, <1>7

LEMMA MovetoKeeps ==
  ASSUME IInv, NEW row \in Row, Moveto(row)
  PROVE  IInv'
<1>1. Sound(obj')
  BY LandType DEF IInv, Moveto
<1> QED
  BY <1>1 DEF IInv, Plain, Moveto, backend, queue, saving, QueueOK, HashAgrees,
              Fields

LEMMA GetValueKeeps ==
  ASSUME IInv, NEW c \in Col, GetValue(c)
  PROVE  IInv'
<1> DEFINE row == obj.currentrow
           v == IF c = KeyField THEN obj.res[row].key ELSE obj.res[row].val[c]
<1>1. obj.res[row] \in ResultRow
  <2>1. obj.res \in ResultSet /\ row \in DOMAIN obj.res
    BY DEF GetValue, Usable, IInv, Sound, Object
  <2>2. PICK n \in 0..MaxKey : obj.res \in [0..(n - 1) -> ResultRow]
    BY <2>1 DEF ResultSet
  <2> QED
    BY <2>1, <2>2
<1>2. v \in Datum \cup {NULL} /\ (c = KeyField => v \in Key \cup {NULL})
  BY <1>1 DEF ResultRow, TableRow, Datum, Col
<1>3. row \in Row /\ obj.record[row] \in Record
  BY DEF GetValue, IInv, Sound, Object
<1>4. obj' = [obj EXCEPT !.record[row].cache[c] = v]
  BY DEF GetValue
<1> HIDE DEF v
<1>5. Sound(obj')
  BY <1>2, <1>3, <1>4, PutCache DEF IInv
<1> QED
  BY <1>5 DEF IInv, Plain, GetValue, backend, queue, saving, QueueOK,
              HashAgrees, Fields

LEMMA WriteDeleteKeeps ==
  ASSUME IInv, WriteDelete
  PROVE  IInv'
<1> DEFINE row == obj.currentrow
           inserts == {e \in Pending(row) : e.type = "INSERT"}
           kept == writequeue \ inserts
           gone == RecordDelete(obj, row)
<1>1. row \in Row
  BY DEF IInv, Sound, Object
<1>2. UNCHANGED <<backend, saving>>
  BY DEF WriteDelete
<1>4. CASE DeleteUnsaved(row, inserts)
  <2>1. CASE row < obj.numrecord /\ obj.record[row] = NULL
    <3>1. fault' = "null_record" /\ UNCHANGED <<obj, queue>>
      BY <1>4, <2>1 DEF DeleteUnsaved
    <3> QED
      BY <1>2, <3>1 DEF IInv, Plain, backend, saving, queue, QueueOK,
                        HashAgrees, Fields, Fault
  <2>2. CASE ~(row < obj.numrecord /\ obj.record[row] = NULL)
    <3> DEFINE Q == IF row < obj.numrecord
                    THEN StaleQueue(kept, obj.record[row].cache[KeyField],
                                    OidOf(obj.record[row]))
                    ELSE kept
    <3>1. /\ obj' = Land(gone, gone.currentrow)
          /\ Leave(Q) /\ UNCHANGED fault
      BY <1>4, <2>2 DEF DeleteUnsaved
    <3>2. Sound(gone)
      BY <1>1, <2>2, RecordDeleteType DEF IInv
    <3>3. gone.currentrow \in Row
      BY <3>2 DEF Sound, Object
    <3>4. Sound(obj')
      BY <3>1, <3>2, <3>3, LandType
    <3>5. Made(kept, writequeue)
      BY WholeMade, PartMade DEF IInv
    <3>6. Made(Q, writequeue)
      BY <3>5, StaleMade
    <3>7. QueueOK'
      BY <3>1, <3>6, LeaveKeeps DEF IInv
    <3> QED
      BY <1>2, <3>1, <3>4, <3>7 DEF IInv, Plain, backend, saving
  <2> QED
    BY <2>1, <2>2
<1>5. CASE DeleteSaved(row, inserts)
  <2> DEFINE e == [pos |-> tail, row |-> row, type |-> "DELETE",
                   field |-> NULL, value |-> NULL, mark |-> FALSE,
                   id |-> obj.currentid]
  <2>1. /\ writequeue' = writequeue \cup {e} /\ tail' = tail + 1
        /\ UNCHANGED <<obj, writequeuehash, fault>>
    BY <1>5 DEF DeleteSaved
  <2>2. e \in Write /\ e.pos = tail /\ e.type = "DELETE"
    BY <1>1 DEF Write, IInv, Sound, Object, QueueOK
  <2> HIDE DEF e
  <2>3. QueueOK'
    BY <2>1, <2>2, DeletionKeeps DEF IInv
  <2> QED
    BY <1>2, <2>1, <2>3 DEF IInv, Plain, backend, saving
<1> QED
  BY <1>4, <1>5 DEF WriteDelete

LEMMA ForceMarkKeeps ==
  ASSUME IInv, ForceMark
  PROVE  IInv'
<1>1. QueueOK'
  BY MarkedMade, SameKeeps DEF IInv, ForceMark
<1> QED
  BY <1>1 DEF IInv, Plain, ForceMark, backend, saving

LEMMA AbortSaveKeeps ==
  ASSUME IInv, AbortSave
  PROVE  IInv'
<1>1. Made({}, writequeue)
  BY DEF Made
<1>2. QueueOK'
  BY <1>1, LeaveKeeps DEF IInv, AbortSave
<1> QED
  BY <1>2 DEF IInv, Plain, AbortSave, backend, saving

LEMMA UndoKeeps ==
  ASSUME IInv, Undo
  PROVE  IInv'
<1> DEFINE row == obj.currentrow
           k == obj.record[row].cache[KeyField]
           Emptied(x, i) ==
             IF x = NULL THEN NULL
             ELSE [x EXCEPT !.id = Stale(@, k, NULL),
                            !.cache = IF i = row THEN BlankRecord("READ").cache
                                      ELSE @]
           record == [i \in Row |-> Emptied(obj.record[i], i)]
           id == Stale(obj.currentid, k, NULL)
<1>1. /\ obj' = [obj EXCEPT !.record = record, !.currentid = id]
      /\ writequeue' = StaleQueue(writequeue, k, NULL)
      /\ UNCHANGED <<backend, writequeuehash, tail, saving, fault>>
  BY DEF Undo
<1>2. \A i \in Row, x \in Record : Emptied(x, i) \in Record
  <2> TAKE i \in Row, x \in Record
  <2>1. x.id \in Id \cup {NULL} /\ x # NULL
    BY NullAssumption DEF Record
  <2>2. Stale(x.id, k, NULL) \in Id \cup {NULL}
    BY <2>1, StaleType
  <2>3. BlankRecord("READ").cache \in Cache
    BY BlankType DEF Record, Mode
  <2> QED
    BY <2>1, <2>2, <2>3 DEF Record
<1>3. \A i \in Row : obj.record[i] \in Record \cup {NULL}
  BY DEF IInv, Sound, Object
<1>4. \A i \in Row : /\ record[i] \in Record \cup {NULL}
                     /\ obj.record[i] # NULL => record[i] # NULL
  BY <1>2, <1>3, NullAssumption
<1>5. record \in [Row -> Record \cup {NULL}]
  BY <1>4
<1>6. id \in Id \cup {NULL}
  BY StaleType DEF IInv, Sound, Object
<1> HIDE DEF record, id
<1>7. Sound(obj')
  BY <1>1, <1>4, <1>5, <1>6 DEF IInv, Sound, Object
<1>8. QueueOK'
  BY <1>1, WholeMade, StaleMade, SameKeeps DEF IInv
<1> QED
  BY <1>1, <1>7, <1>8 DEF IInv, Plain, backend, saving

LEMMA LoadAllKeeps ==
  ASSUME IInv, LoadAll
  PROVE  IInv'
<1>1. /\ writequeue' = IF obj.res = NULL THEN writequeue
                       ELSE ReleasedQueue(writequeue)
      /\ UNCHANGED <<db, nextkey, others, writequeuehash, tail, saving, fault>>
  BY DEF LoadAll
<1>2. QueueOK'
  <2>1. Made(writequeue, writequeue)
    BY WholeMade DEF IInv
  <2>2. /\ Made(writequeue', writequeue)
        /\ \A x \in writequeue : \E e \in writequeue' : Same(e, x)
    BY <1>1, <2>1, ReleasedMade DEF Same
  <2> QED
    BY <1>1, <2>2, SameKeeps DEF IInv
<1>3. Sound(obj') /\ fails' \in 0..MaxFail
  <2>1. ASSUME NEW n \in 0..MaxKey, NEW r \in [0..(n - 1) -> Key],
               n <= MaxRow, IsAnswer(n, r), obj' = Loaded(Answer(n, r), n),
               UNCHANGED fails
        PROVE  Sound(obj') /\ fails' \in 0..MaxFail
    <3>1. n \in 0..MaxRow
      BY <2>1, ConstantAssumption
    <3> QED
      BY <2>1, <3>1, AnswerType, LoadedType DEF IInv, Plain
  <2>2. ASSUME Rejects("SELECT"), obj' = [Unloaded EXCEPT !.state = "INVALID"]
        PROVE  Sound(obj') /\ fails' \in 0..MaxFail
    <3>1. Sound(Unloaded)
      BY UnloadedType DEF IInv
    <3>2. Sound(obj')
      BY <2>2, <3>1 DEF Sound, Object
    <3> QED
      BY <2>2, <3>2, ConstantAssumption DEF Rejects, IInv, Plain
  <2> QED
    BY <2>1, <2>2 DEF LoadAll
<1> QED
  BY <1>1, <1>2, <1>3 DEF IInv, Plain, saving

LEMMA SaveKeeps ==
  ASSUME IInv, Save
  PROVE  IInv'
BY DEF IInv, Plain, Save, backend, queue, QueueOK, HashAgrees, Fields

LEMMA OtherClientKeeps ==
  ASSUME IInv, NEW k \in Key, NEW v \in TableRow \cup {NULL}, OtherClient(k, v)
  PROVE  IInv'
BY ConstantAssumption
DEF IInv, Plain, OtherClient, queue, saving, QueueOK, HashAgrees, Fields

-----------------------------------------------------------------------------
(* The steps of bonddb_write_all.                                          *)

\* What a statement leaves in a column is what was written or what was there.
LEMMA WroteType ==
  ASSUME NEW G, G \subseteq Write, NEW f, NEW v \in Datum \cup {NULL}
  PROVE  Wrote(G, f, v) \in Datum \cup {NULL}
BY DEF Wrote, Write

LEMMA FinishKeeps ==
  ASSUME IInv, NEW Q, Made(Q, writequeue), Finish(Q), Sound(obj'),
         fails' \in 0..MaxFail, UNCHANGED <<db, nextkey, others, fault>>
  PROVE  IInv'
<1>1. QueueOK'
  BY LeaveKeeps DEF Finish, IInv
<1> QED
  BY <1>1 DEF IInv, Plain, Finish

LEMMA SkipKeeps ==
  ASSUME IInv, NEW w \in writequeue, SaveSkip(w) \/ SaveUnmarked(w)
  PROVE  IInv'
<1>1. w.pos \in Nat /\ w.row \in Row
  BY DEF IInv, QueueOK, Write
<1> QED
  BY <1>1 DEF IInv, Plain, SaveSkip, SaveUnmarked, Visited, DealtWith, backend,
              queue, QueueOK, HashAgrees, Fields

LEMMA SaveInsertKeeps ==
  ASSUME IInv, NEW w \in writequeue, SaveInsert(w)
  PROVE  IInv'
<1> DEFINE G == Group(w)
           k == InsertKey(G)
           r == obj.record[w.row]
           row == [f \in Field |-> Wrote(G, f, NULL)]
<1>1. w.pos \in Nat /\ w.row \in Row /\ w.row \in Row
  BY DEF IInv, QueueOK, Write
<1>2. k \in Key
  BY DEF SaveInsert, InsertKey
<1>3. row \in TableRow
  <2>1. G \subseteq Write
    BY DEF Group, Fields, IInv, QueueOK
  <2> QED
    BY <2>1, WroteType DEF TableRow
<1>4. /\ db' = [db EXCEPT ![k] = row]
      /\ nextkey' = IF k = nextkey THEN k + 1 ELSE nextkey
      /\ walk' = w.pos /\ wrote' = wrote \cup {w.row}
      /\ UNCHANGED <<fails, others, queue, pc, corrupt>>
  BY DEF SaveInsert, Visited, DealtWith
<1>5. Sound(obj') /\ fault' \in Fault
  <2>1. r \in Record \cup {NULL}
    BY <1>1 DEF IInv, Sound, Object
  <2>2. CASE r = NULL \/ r.id # NULL
    BY <2>2 DEF SaveInsert, IInv, Plain, Fault
  <2>3. CASE r # NULL /\ r.id = NULL
    <3>1. obj' = HandleInsert(obj, w.row, k) /\ UNCHANGED fault
      BY <2>3 DEF SaveInsert
    <3> QED
      BY <1>1, <1>2, <2>1, <2>3, <3>1, HandleInsertType DEF IInv, Plain
  <2> QED
    BY <2>2, <2>3
<1> HIDE DEF row, k
<1>6. Plain'
  BY <1>1, <1>2, <1>3, <1>4, <1>5 DEF IInv, Plain
<1> QED
  BY <1>4, <1>5, <1>6 DEF IInv, queue, QueueOK, HashAgrees, Fields

LEMMA SaveUpdateKeeps ==
  ASSUME IInv, NEW w \in writequeue, SaveUpdate(w)
  PROVE  IInv'
<1> DEFINE G == Group(w)
           l == LastMarked(G)
           k == Selects(WhereId(l))
           row == [f \in Field |-> Wrote(G, f, db[k][f])]
<1>1. l \in writequeue /\ l \in Write /\ w.pos \in Nat /\ w.row \in Row
  <2>1. l \in G
    BY LastMarkedType DEF SaveUpdate, GroupOf, IInv
  <2> QED
    BY <2>1 DEF Group, Fields, IInv, QueueOK, Write
<1>2. WhereFault(l) = "none"
  BY DEF SaveUpdate
<1>3. /\ db' = IF db[k] = NULL THEN db ELSE [db EXCEPT ![k] = row]
      /\ obj' = AfterWhere(l) /\ writequeue' = WithWhere(l)
      /\ walk' = w.pos /\ wrote' = wrote \cup {w.row}
      /\ UNCHANGED <<nextkey, fails, others, writequeuehash, tail, pc, corrupt,
                    fault>>
  BY DEF SaveUpdate, Visited, DealtWith
<1>4. Sound(obj') /\ QueueOK'
  BY <1>1, <1>2, <1>3, WhereType, WithWhereMade, SameKeeps DEF IInv
<1>5. db' \in [Key -> TableRow \cup {NULL}]
  <2>1. G \subseteq Write
    BY DEF Group, Fields, IInv, QueueOK
  <2>2. ASSUME k \in Key, db[k] # NULL PROVE row \in TableRow
    <3>1. \A f \in Field : db[k][f] \in Datum \cup {NULL}
      BY <2>2 DEF IInv, Plain, TableRow
    <3> QED
      BY <2>1, <3>1, WroteType DEF TableRow
  <2> HIDE DEF row, k
  <2> QED
    BY <1>3, <2>2 DEF IInv, Plain
<1> QED
  BY <1>1, <1>3, <1>4, <1>5 DEF IInv, Plain

LEMMA SaveNoWhereKeeps ==
  ASSUME IInv, NEW w \in writequeue, SaveNoWhere(w)
  PROVE  IInv'
<1> DEFINE l == LastMarked(Group(w))
<1>1. l \in Write /\ w.pos \in Nat /\ w.row \in Row
  <2>1. l \in Group(w)
    BY LastMarkedType DEF SaveNoWhere, GroupOf, IInv
  <2> QED
    BY <2>1 DEF Group, Fields, IInv, QueueOK, Write
<1>2. Sound(obj')
  BY <1>1, WhereType DEF IInv, SaveNoWhere
<1> QED
  BY <1>1, <1>2 DEF IInv, Plain, SaveNoWhere, Visited, DealtWith, backend, queue,
                    QueueOK, HashAgrees, Fields

LEMMA RejectsType ==
  ASSUME Plain, NEW stmt, Rejects(stmt)
  PROVE  fails' \in 0..MaxFail
BY ConstantAssumption DEF Plain, Rejects

LEMMA SaveFailRowKeeps ==
  ASSUME IInv, NEW w \in writequeue, SaveFailRow(w)
  PROVE  IInv'
<1> DEFINE l == LastMarked(Group(w))
           inserts == GroupOf(w, "INSERT")
           Q == IF inserts THEN writequeue ELSE WithWhere(l)
<1>1. /\ UNCHANGED fails \/ Rejects(l.type)
      /\ obj' = IF inserts THEN obj ELSE AfterWhere(l)
      /\ Finish(Kept(w, Q))
      /\ UNCHANGED <<db, nextkey, others, fault>>
      /\ inserts \/ (GroupOf(w, "UPDATE") /\ WhereFault(l) = "none")
  BY DEF SaveFailRow
<1>2. fails' \in 0..MaxFail
  BY <1>1, RejectsType DEF IInv, Plain
<1>3. l \in writequeue /\ l \in Write
  <2>1. l \in Group(w)
    BY <1>1, LastMarkedType DEF GroupOf, IInv
  <2> QED
    BY <2>1 DEF Group, Fields, IInv, QueueOK
<1> HIDE DEF l, inserts
<1>4. Sound(obj') /\ Made(Q, writequeue)
  BY <1>1, <1>3, WhereType, WholeMade, WithWhereMade DEF IInv
<1>5. Made(Kept(w, Q), writequeue)
  BY <1>4, PartMade DEF Kept
<1> QED
  BY <1>1, <1>2, <1>4, <1>5, FinishKeeps

\* The record of the row that is deleted goes from the array.
LEMMA DeletableType ==
  ASSUME IInv, NEW w \in writequeue, Deletes(w), Deletable(w)
  PROVE  Sound(obj')
<1>1. w \in Write /\ w.row \in Row /\ WhereFault(w) = "none"
  BY DEF IInv, QueueOK, Write, Deletes
<1>2. Sound(AfterWhere(w)) /\ Alike(AfterWhere(w), obj)
  BY <1>1, WhereType DEF IInv
<1>3. w.row < AfterWhere(w).numrecord => AfterWhere(w).record[w.row] # NULL
  <2>1. w.row < obj.numrecord => obj.record[w.row] \in Record
    BY <1>1 DEF Deletable, IInv, Sound, Object
  <2> QED
    BY <1>1, <1>2, <2>1, NullAssumption DEF Alike
<1> QED
  BY <1>1, <1>2, <1>3, RecordDeleteType DEF Deletable

LEMMA SaveDeleteKeeps ==
  ASSUME IInv, NEW w \in writequeue, SaveDelete(w)
  PROVE  IInv'
<1>1. Sound(obj')
  BY DeletableType DEF SaveDelete
<1>2. /\ Made(writequeue', writequeue)
      /\ \A x \in writequeue : \E e \in writequeue' : Same(e, x)
  <2>1. Made(writequeue, writequeue)
    BY WholeMade DEF IInv
  <2>2. /\ Made(Orphaned(w), writequeue)
        /\ \A x \in writequeue : \E e \in Orphaned(w) : Same(e, x)
    BY <2>1, StaleMade DEF Orphaned, Same
  <2> QED
    BY <2>2 DEF SaveDelete
<1>3. QueueOK'
  BY <1>2, SameKeeps DEF IInv, SaveDelete
<1>4. w.pos \in Nat
  BY DEF IInv, QueueOK, Write
<1>5. db' \in [Key -> TableRow \cup {NULL}]
  BY DEF IInv, Plain, SaveDelete
<1> QED
  BY <1>1, <1>3, <1>4, <1>5 DEF IInv, Plain, SaveDelete

LEMMA SaveDeleteFailKeeps ==
  ASSUME IInv, NEW w \in writequeue, SaveDeleteFail(w)
  PROVE  IInv'
<1>1. Sound(obj') /\ fails' \in 0..MaxFail
  BY DeletableType, RejectsType DEF SaveDeleteFail, IInv
<1>2. Made({}, writequeue)
  BY DEF Made
<1> QED
  BY <1>1, <1>2, FinishKeeps DEF SaveDeleteFail

LEMMA SaveDeleteNoWhereKeeps ==
  ASSUME IInv, NEW w \in writequeue, SaveDeleteNoWhere(w)
  PROVE  IInv'
<1>1. w \in Write /\ w.pos \in Nat
  BY DEF IInv, QueueOK, Write
<1>2. Sound(obj')
  BY <1>1, WhereType DEF IInv, SaveDeleteNoWhere, Deletes
<1> QED
  BY <1>1, <1>2 DEF IInv, Plain, SaveDeleteNoWhere, Deletes, backend, queue,
                    QueueOK, HashAgrees, Fields

LEMMA SaveCrashKeeps ==
  ASSUME IInv, NEW w \in writequeue, SaveCrash(w)
  PROVE  IInv'
<1>1. fault' \in Fault
  BY DEF SaveCrash, Crash, WhereFault, Fault
<1> QED
  BY <1>1 DEF IInv, Plain, SaveCrash, backend, queue, saving, QueueOK,
              HashAgrees, Fields

LEMMA SaveEndKeeps ==
  ASSUME IInv, SaveEnd
  PROVE  IInv'
<1>1. Made({}, writequeue)
  BY DEF Made
<1> QED
  BY <1>1, FinishKeeps DEF SaveEnd, backend, IInv, Plain

LEMMA RefreshKeeps ==
  ASSUME IInv, Refresh
  PROVE  IInv'
<1>1. ASSUME NEW rs \in ResultSet \cup {NULL}, Refreshed(rs)
      PROVE  Sound(obj')
  <2>1. Sound([obj EXCEPT !.res = rs]) /\ obj.currentrow \in Row
    BY DEF IInv, Sound, Object
  <2> QED
    BY <1>1, <2>1, LandType DEF Refreshed
<1>2. Sound(obj') /\ fails' \in 0..MaxFail
  <2>1. ASSUME NEW n \in 0..MaxKey, NEW r \in [0..(n - 1) -> Key],
               IsAnswer(n, r), Refreshed(Answer(n, r)), UNCHANGED fails
        PROVE  Sound(obj') /\ fails' \in 0..MaxFail
    BY <1>1, <2>1, AnswerType DEF IInv, Plain
  <2>2. CASE Refreshed(NULL) /\ UNCHANGED fails
    BY <1>1, <2>2 DEF IInv, Plain
  <2>3. CASE Rejects("SELECT") /\ Refreshed(Answer(0, NoHash))
    BY <1>1, <2>3, NoAnswerType, RejectsType DEF IInv
  <2> QED
    BY <2>1, <2>2, <2>3 DEF Refresh
<1> QED
  BY <1>2 DEF IInv, Plain, Refresh, queue, QueueOK, HashAgrees, Fields

-----------------------------------------------------------------------------
(* The theorems.                                                           *)

\* The invariant holds at first.
LEMMA InitIInv == Init => IInv
<1> SUFFICES ASSUME Init PROVE IInv
  OBVIOUS
<1>1. db \in [Key -> TableRow \cup {NULL}]
  <2>1. (CHOOSE v \in Value : TRUE) \in Value
    BY ConstantAssumption
  <2> QED
    BY <2>1 DEF Init, TableRow, Datum
<1>2. Plain
  <2>1. nextkey \in Nat \ {0} /\ fails \in 0..MaxFail /\ others \in 0..MaxOther
    BY ConstantAssumption DEF Init
  <2>2. /\ pc = "idle" /\ walk = 0 /\ wrote = {} /\ corrupt = FALSE
        /\ fault = "none"
    BY DEF Init
  <2> QED
    BY <1>1, <2>1, <2>2 DEF Plain, Fault
<1>3. Sound(obj)
  BY ConstantAssumption DEF Init, Sound, Object, Row, Mode
<1>4. QueueOK
  BY DEF Init, QueueOK, HashAgrees, Fields, NoHash
<1> QED
  BY <1>2, <1>3, <1>4 DEF IInv

\* Every step keeps it.
LEMMA NextIInv == IInv /\ [Next]_vars => IInv'
<1> SUFFICES ASSUME IInv, [Next]_vars PROVE IInv'
  OBVIOUS
<1>1. CASE Calls
  BY <1>1, MovetoKeeps, GetValueKeeps, SetValueKeeps, AddKeeps,
     WriteDeleteKeeps, ForceMarkKeeps, AbortSaveKeeps, UndoKeeps, LoadAllKeeps,
     SaveKeeps DEF Calls
<1>2. CASE SaveStep
  BY <1>2, SkipKeeps, SaveInsertKeeps, SaveUpdateKeeps, SaveNoWhereKeeps,
     SaveFailRowKeeps, SaveDeleteKeeps, SaveDeleteFailKeeps,
     SaveDeleteNoWhereKeeps, SaveCrashKeeps, SaveEndKeeps, RefreshKeeps
  DEF SaveStep
<1>3. CASE \E k \in Key, v \in TableRow \cup {NULL} : OtherClient(k, v)
  BY <1>3, OtherClientKeeps
<1>4. CASE Aborted \/ UNCHANGED vars
  BY <1>4 DEF Aborted, vars, backend, queue, saving, IInv, Plain, QueueOK,
              HashAgrees, Fields
<1> QED
  BY <1>1, <1>2, <1>3, <1>4 DEF Next

LEMMA Inductive == Spec => []IInv
BY InitIInv, NextIInv, PTL DEF Spec

\* Every variable has its type: whatever the application does, in whatever
\* order, and whichever statements the backend rejects, no function of the
\* object stores a row, an id, a mode or a record of the wrong kind.
THEOREM TypeCorrect == Spec => []TypeOK
<1>1. IInv => TypeOK
  BY DEF IInv, Plain, Sound, QueueOK, TypeOK
<1> QED
  BY <1>1, Inductive, PTL

\* The write queue and its hash agree, in every state of every program that
\* uses the object: bonddb_write_add supersedes the write to the same column
\* and no other, and what a failed save keeps can be superseded too.
THEOREM QueueHash == Spec => []HashAgrees
<1>1. IInv => HashAgrees
  BY DEF IInv, QueueOK
<1> QED
  BY <1>1, Inductive, PTL

-----------------------------------------------------------------------------
(***************************************************************************)
(* A careful application: the rows, the cursor and the result stay in      *)
(* step, no call aborts, a save touches the rows it shows and loses no     *)
(* write.                                                                  *)
(*                                                                         *)
(* The inductive invariant speaks of K, the key of the row behind every    *)
(* place of the array, whether or not the object knows it yet.  Deletions  *)
(* shift K, insertions extend it, and a result is aligned with the array   *)
(* exactly when it lists K.                                                *)
(***************************************************************************)

\* The application keeps the rules, the key has a default, nobody else writes
\* to the table, and only an INSERT or an UPDATE may be rejected; if any may,
\* a new row is written and saved alone.
CarefulUse ==
  /\ KeyDefault /\ MaxOther = 0 /\ MayFail \subseteq {"INSERT", "UPDATE"}
  /\ Rule \ {"newRowAlone"} \subseteq Discipline
  /\ MayFail = {} \/ "newRowAlone" \in Discipline

Live(o) == 0..(o.numrecord - 1)
IsNew(o, i) == o.record[i] # NULL /\ o.record[i].mode \in Inserting
IsInsert(o, i) == o.record[i] # NULL /\ o.record[i].mode = "INSERT"

\* A row of the table that no id can be made for any more.
Stuck(o, i) ==
  o.record[i] # NULL /\ o.record[i].mode # "INSERT" /\ o.record[i].id = NULL

\* The record r stands for the row of key k.
RecordFits(r, k) ==
  /\ r.cache[KeyField] \in {NULL, k}
  /\ r.id # NULL => /\ Selects(r.id) = k /\ ~r.id.freed
                    /\ r.cache[KeyField] # NULL
  /\ r.mode = "INSERT" => r.id = NULL /\ r.cache[KeyField] # NULL
  /\ r.mode = "UPDATE" => r.id # NULL

\* The array holds the rows K in key order, the new ones at its end.
Rows(o, K) ==
  /\ \A i \in Row : i >= o.numrecord => o.record[i] = NULL
  /\ \A i \in Live(o) : K[i] \in Key
  /\ \A i \in Live(o) : o.record[i] # NULL => RecordFits(o.record[i], K[i])
  /\ \A i, j \in Live(o) : i < j => K[i] < K[j]
  /\ \A i, j \in Live(o) : i < j /\ IsNew(o, i) => IsNew(o, j)

\* Before the first load there are new rows only.
Modes(o) ==
  /\ o.state \in {"NEW", "READ_RAW"}
  /\ o.state = "NEW" =>
       o.res = NULL /\ ~o.noprimarykey /\ \A i \in Live(o) : IsNew(o, i)

\* Ids are given up for good only when the result is lost, and then a row
\* remains that cannot be deleted.
Unkeyed(o) ==
  /\ o.noprimarykey => o.res = NULL /\ \E i \in Live(o) : Stuck(o, i)
  /\ ~o.noprimarykey => \A i \in Live(o) : IsNew(o, i) => ~Stuck(o, i)

\* The object is on one row, or on none.  The id freed by a load stays until
\* the first row is written.
OnRow(o) ==
  LET r == o.record[o.currentrow] IN
  /\ o.currentrecord = o.currentrow /\ o.currentrow < o.numrecord
  /\ r # NULL /\ r.mode = o.mode
  /\ \/ o.currentid = r.id
     \/ /\ o.currentid # NULL /\ o.currentid.freed
        /\ r.mode = "READ" /\ r.id = NULL /\ o.res # NULL
OnNone(o) ==
  /\ o.currentrecord = NULL
  /\ o.currentid # NULL => o.numrecord = 0 /\ o.res # NULL
Cursor(o) == OnRow(o) \/ OnNone(o)

\* The result lists the rows that were not added here.
Fetched(o, K) ==
  o.res # NULL =>
    \A i \in Live(o) : ~IsNew(o, i) => /\ i \in DOMAIN o.res
                                       /\ o.res[i].key = K[i]

\* The table holds the rows of the array, but for those still to be inserted;
\* once they have been loaded, no others.
Table(o, K) ==
  /\ \A k \in Key : db[k] # NULL => k < nextkey
  /\ \A i \in Live(o) : K[i] < nextkey
  /\ \A i \in Live(o) : db[K[i]] = NULL <=> IsInsert(o, i)
  /\ o.state = "READ_RAW" =>
       \A k \in Key : db[k] # NULL => \E i \in Live(o) : K[i] = k

\* A pending write is one to the row it was made for.
EntryFits(e, K) ==
  LET r == obj.record[e.row] IN
  /\ e.row < obj.numrecord /\ r # NULL /\ e.pos # 0
  /\ e.id # NULL => Selects(e.id) = K[e.row] /\ ~e.id.freed
  /\ e.type = "INSERT" => r.mode = "INSERT" \/ e.row \in wrote
  /\ e.type = "UPDATE" => r.id # NULL /\ e.field # KeyField
  /\ e.type # "DELETE" =>
       /\ e.field # NULL
       /\ e.field = KeyField => e.value = K[e.row]
       /\ e.field \in Field => e.value \in {NULL, r.cache[e.field]}
LastDeletes(e) ==
  LET r == obj.record[e.row] IN
  /\ e.row = obj.currentrow /\ r.mode # "INSERT"
  /\ e.id = r.id /\ obj.currentid = r.id
  /\ \A x \in writequeue : x.row = e.row /\ x.type # "INSERT" /\ x.pos <= e.pos
KeyWritten(i) ==
  \E e \in writequeue : e.row = i /\ e.type = "INSERT" /\ e.field = KeyField
Waiting(K) ==
  /\ \A e \in writequeue : EntryFits(e, K)
  /\ \A e \in writequeue : e.type = "DELETE" => LastDeletes(e)
  /\ \A i \in Live(obj) : IsInsert(obj, i) => KeyWritten(i)
  /\ Careful("newRowAlone") =>
       \A e, x \in writequeue : e.type = "INSERT" => x.row = e.row
  /\ writequeue # {} => obj.currentrecord # NULL

\* While entries are visited, the rows dealt with are those written.
Done(e, K) ==
  /\ obj.record[e.row].mode # "INSERT"
  /\ obj.record[e.row].cache[KeyField] # NULL
  /\ e.field \in Field => db[K[e.row]][e.field] = e.value
Under(K) ==
  /\ \A e \in Fields(writequeue) : Marked(Group(e)) # {}
  /\ \A e \in Fields(writequeue) : e.pos <= walk => e.row \in wrote
  /\ \A e \in Fields(writequeue) : e.row \in wrote => Done(e, K)

\* After a deletion, until the result is fetched again.
Settled == ~corrupt /\ pc # "refresh"
Gap ==
  /\ \A i \in Live(obj) : ~IsInsert(obj, i)
  /\ obj.currentrecord = NULL /\ obj.currentid = NULL
  /\ pc = "saving" => \E d \in writequeue :
       d.type = "DELETE" /\ \A x \in writequeue : x.row = d.row /\ x.pos <= walk
  /\ pc = "refresh" => writequeue = {} /\ obj.res # NULL

Calmness ==
  /\ fault = "none"
  /\ pc # "saving" => walk = 0 /\ wrote = {} /\ ~corrupt

CarefulInvOf(K) ==
  /\ Calmness
  /\ Rows(obj, K) /\ Modes(obj) /\ Unkeyed(obj) /\ Cursor(obj)
  /\ Table(obj, K)
  /\ Settled => Fetched(obj, K) /\ Waiting(K)
  /\ pc = "saving" /\ ~corrupt => Under(K)
  /\ ~Settled => Gap

Keys == [Row -> 0..MaxKey]
CarefulInv == \E K \in Keys : CarefulInvOf(K)

-----------------------------------------------------------------------------
(* The array.                                                              *)

\* The rows of the array.
LEMMA LiveType ==
  ASSUME NEW o, Sound(o)
  PROVE  /\ o.numrecord \in Nat /\ o.numrecord <= MaxRow
         /\ o.currentrow \in Row /\ Row \subseteq Nat
         /\ o.record \in [Row -> Record \cup {NULL}]
         /\ \A i : i \in Live(o) <=> i \in Row /\ i < o.numrecord
BY ConstantAssumption DEF Sound, Object, Row, Live

\* Keys are numbers.
LEMMA KeyType ==
  ASSUME NEW K \in Keys
  PROVE  /\ \A i \in Row : K[i] \in Nat
         /\ \A k \in Key : k \in Nat /\ k # NULL
BY ConstantAssumption DEF Keys, Key, Datum

\* p is o with another record r at place i, which stands for the same row.
Changes(p, o, i, r, k) ==
  /\ p.record = [o.record EXCEPT ![i] = r] /\ p.numrecord = o.numrecord
  /\ p.res = o.res /\ p.state = o.state
  /\ p.noprimarykey => o.noprimarykey \/ o.state # "NEW"
  /\ r \in Record /\ RecordFits(r, k)
  /\ r.mode \in Inserting <=> IsNew(o, i)

\* The other records are left alone.
LEMMA ChangesOne ==
  ASSUME NEW o, Sound(o), NEW i \in Live(o), NEW r, NEW p, NEW k,
         Changes(p, o, i, r, k)
  PROVE  /\ p.record[i] = r /\ r # NULL
         /\ \A j \in Row \ {i} : p.record[j] = o.record[j]
         /\ \A j \in Row : IsNew(p, j) <=> IsNew(o, j)
<1>1. i \in Row /\ o.record \in [Row -> Record \cup {NULL}]
  BY LiveType
<1>2. p.record = [o.record EXCEPT ![i] = r] /\ r \in Record
  BY DEF Changes
<1>3. p.record[i] = r /\ \A j \in Row \ {i} : p.record[j] = o.record[j]
  BY <1>1, <1>2
<1> QED
  BY <1>2, <1>3, NullAssumption DEF IsNew, Changes

\* One record of the array is made or changed, and stands for the same row.
LEMMA RecordChange ==
  ASSUME NEW o, Sound(o), NEW K \in Keys, Rows(o, K), Modes(o),
         NEW i \in Live(o), NEW r, NEW p, Changes(p, o, i, r, K[i])
  PROVE  Rows(p, K) /\ Modes(p) /\ (Fetched(o, K) => Fetched(p, K))
<1>1. /\ Live(p) = Live(o) /\ i \in Row
      /\ \A j : j \in Live(o) <=> j \in Row /\ j < o.numrecord
  BY LiveType DEF Live, Changes
<1>2. /\ p.record[i] = r /\ r # NULL
      /\ \A j \in Row \ {i} : p.record[j] = o.record[j]
      /\ \A j \in Row : IsNew(p, j) <=> IsNew(o, j)
  BY ChangesOne
<1>4. Rows(p, K)
  <2>1. \A j \in Row : j >= p.numrecord => p.record[j] = NULL
    BY <1>1, <1>2, LiveType DEF Rows, Changes
  <2>2. \A j \in Live(p) : p.record[j] # NULL => RecordFits(p.record[j], K[j])
    BY <1>1, <1>2 DEF Rows, Changes
  <2>3. \A j, l \in Live(p) : j < l /\ IsNew(p, j) => IsNew(p, l)
    BY <1>1, <1>2 DEF Rows
  <2> QED
    BY <1>1, <2>1, <2>2, <2>3 DEF Rows
<1>5. Modes(p)
  BY <1>1, <1>2 DEF Modes, Changes
<1>6. Fetched(o, K) => Fetched(p, K)
  BY <1>1, <1>2 DEF Fetched, Changes
<1> QED
  BY <1>4, <1>5, <1>6

\* The same, of a record that has an id when it had one.
LEMMA RecordRekeyed ==
  ASSUME NEW o, Unkeyed(o), NEW i \in Live(o), NEW p,
         p.numrecord = o.numrecord, p.res = o.res,
         p.noprimarykey = o.noprimarykey,
         \A j \in Row \ {i} : p.record[j] = o.record[j],
         \A j \in Row : IsNew(p, j) <=> IsNew(o, j), Live(o) \subseteq Row,
         o.noprimarykey /\ Stuck(o, i) => Stuck(p, i),
         ~o.noprimarykey /\ IsNew(p, i) => ~Stuck(p, i)
  PROVE  Unkeyed(p)
<1>1. \A j \in Live(o) \ {i} : Stuck(p, j) <=> Stuck(o, j)
  BY DEF Stuck
<1>2. Live(p) = Live(o)
  BY DEF Live
<1> QED
  BY <1>1, <1>2 DEF Unkeyed

\* The object is on the record of its row, which is read or touched.
At(o) ==
  LET r == o.record[o.currentrow] IN
  /\ r # NULL
  /\ r.mode = o.mode \/ (r.mode = "READ" /\ o.mode = "UPDATE")
  /\ o.currentrecord = o.currentrow /\ o.currentrow < o.numrecord

\* What the object knows of the key of its row.
LEMMA KeyHere ==
  ASSUME NEW o, Sound(o), NEW K \in Keys, Rows(o, K), Modes(o), Unkeyed(o),
         Fetched(o, K), At(o)
  PROVE  /\ o.currentrow \in Live(o) /\ K[o.currentrow] \in Key
         /\ Usable(o) <=> o.mode \in Inserting \/ o.res # NULL
         /\ ~o.noprimarykey /\ Usable(o) => CurrentKey(o) = K[o.currentrow]
         /\ ~Usable(o) => CurrentKey(o) = NULL
<1> DEFINE row == o.currentrow
           k == K[o.currentrow]
           r == o.record[o.currentrow]
<1>1. row \in Live(o) /\ row \in Row /\ k \in Key /\ r \in Record /\ r # NULL
  BY LiveType DEF Rows, At
<1>2. r.mode \in Inserting <=> o.mode \in Inserting
  BY DEF Inserting, At
<1>3. Usable(o) <=> o.mode \in Inserting \/ o.res # NULL
  BY <1>1, <1>2, ConstantAssumption DEF Usable, Modes, IsNew, At
<1>4. RecordFits(r, k)
  BY <1>1 DEF Rows
<1>5. ASSUME ~o.noprimarykey, Usable(o) PROVE CurrentKey(o) = k
  <2>1. CASE r.cache[KeyField] # NULL
    BY <1>1, <1>4, <1>5, <2>1 DEF CurrentKey, RecordFits
  <2>2. CASE r.cache[KeyField] = NULL
    <3>1. ~IsNew(o, row)
      BY <1>1, <1>4, <1>5, <2>2 DEF IsNew, Unkeyed, Stuck, RecordFits
    <3>2. o.mode \notin Inserting /\ o.res # NULL
      BY <1>1, <1>2, <1>3, <1>5, <3>1 DEF IsNew
    <3>3. row \in DOMAIN o.res /\ o.res[row].key = k
      BY <1>1, <3>1, <3>2 DEF Fetched
    <3> QED
      BY <1>1, <1>5, <2>2, <3>2, <3>3 DEF CurrentKey
  <2> QED
    BY <2>1, <2>2
<1> QED
  BY <1>1, <1>3, <1>5 DEF CurrentKey

\* The id that is made for a row.
LEMMA NewIdType ==
  ASSUME NEW k \in Key
  PROVE  /\ NewId(k) \in Id /\ NewId(k) # NULL /\ Selects(NewId(k)) = k
         /\ ~NewId(k).freed /\ NewId(k).key = k /\ NewId(k).oid = NULL
<1>1. NewId(k) \in Id
  BY DEF NewId, Id
<1>2. NewId(k).key = k /\ NewId(k).oid = NULL /\ NewId(k).freed = FALSE
  BY DEF NewId
<1> QED
  BY <1>1, <1>2, NullAssumption DEF Selects

\* bonddb_id_get, of the row the object is on.
LEMMA IdHere ==
  ASSUME NEW o, Sound(o), NEW K \in Keys, Rows(o, K), Modes(o), Unkeyed(o),
         Fetched(o, K), At(o)
  PROVE  /\ o.noprimarykey => IdGet(o) = NULL /\ AfterIdGet(o) = o
         /\ ~o.noprimarykey /\ Usable(o) =>
              /\ IdGet(o) = NewId(K[o.currentrow])
              /\ AfterIdGet(o) = [o EXCEPT !.record[o.currentrow].cache[KeyField]
                                             = K[o.currentrow]]
         /\ ~o.noprimarykey /\ ~Usable(o) =>
              /\ IdGet(o) = NULL
              /\ AfterIdGet(o) = [o EXCEPT !.noprimarykey = TRUE]
<1>1. /\ K[o.currentrow] \in Key
      /\ ~o.noprimarykey /\ Usable(o) => CurrentKey(o) = K[o.currentrow]
      /\ ~Usable(o) => CurrentKey(o) = NULL
  BY KeyHere
<1>2. K[o.currentrow] # NULL
  BY <1>1, KeyType
<1> QED
  BY <1>1, <1>2 DEF IdGet, AfterIdGet

\* The record a row is fetched into.
Blank == BlankRecord("READ")

\* A blank record says nothing of its row.
LEMMA BlankFits ==
  ASSUME NEW k
  PROVE  /\ Blank \in Record /\ Blank # NULL /\ RecordFits(Blank, k)
         /\ Blank.mode = "READ" /\ Blank.id = NULL
         /\ \A c \in Col : Blank.cache[c] = NULL
<1>1. Blank \in Record /\ Blank # NULL
  BY BlankType DEF Blank, Mode
<1> QED
  BY <1>1 DEF Blank, BlankRecord, RecordFits, Col

\* bonddb_moveto, to a row not fetched before.
LEMMA FetchGives ==
  ASSUME NEW o, Sound(o), NEW K \in Keys, Rows(o, K), Modes(o), Unkeyed(o),
         Fetched(o, K), NEW row \in Live(o), o.record[row] = NULL,
         o.state = "READ_RAW"
  PROVE  LET p == Fetch(o, row) IN
         /\ OnRow(p) /\ p.currentrow = row
         /\ Rows(p, K) /\ Modes(p) /\ Unkeyed(p) /\ Fetched(p, K)
         /\ p.numrecord = o.numrecord /\ p.state = o.state /\ p.res = o.res
         /\ \A j \in Row \ {row} : p.record[j] = o.record[j]
         /\ p.record[row].mode = "READ"
<1> DEFINE start == [o EXCEPT !.currentrow = row, !.mode = "READ",
                              !.currentrecord = row, !.currentid = NULL]
           fresh == Populate(start, row)
           p == Fetch(o, row)
<1>1. row \in Row /\ row < o.numrecord /\ o.numrecord > 0 /\ K[row] \in Key
  BY LiveType DEF Rows
<1>2. /\ start \in Object /\ start.record = o.record
      /\ start.numrecord = o.numrecord /\ start.state = o.state
      /\ start.res = o.res /\ start.noprimarykey = o.noprimarykey
      /\ start.currentrow = row /\ start.currentrecord = row
      /\ start.mode = "READ" /\ start.currentid = NULL
  BY <1>1 DEF Sound, Object, Mode
<1>12. Fetch(o, row) =
         IF FirstTable
         THEN [AfterIdGet(fresh) EXCEPT !.record[row].id = IdGet(fresh),
                                        !.currentid = IdGet(fresh)]
         ELSE fresh
  BY DEF Fetch
<1> HIDE DEF start
<1>13. fresh = [start EXCEPT !.record[row] = Blank]
  BY <1>1, <1>2 DEF Populate, Blank
<1>3. /\ fresh.record = [o.record EXCEPT ![row] = Blank]
      /\ fresh.numrecord = o.numrecord /\ fresh.state = o.state
      /\ fresh.res = o.res /\ fresh.noprimarykey = o.noprimarykey
      /\ fresh.currentrow = row /\ fresh.currentrecord = row
      /\ fresh.mode = "READ" /\ fresh.currentid = NULL
  BY <1>2, <1>13 DEF Object
<1>4. Sound(fresh)
  <2>1. Blank \in Record
    BY BlankFits
  <2>2. fresh \in Object
    BY <1>1, <1>2, <1>13, <2>1, PlaceRecord
  <2>3. fresh.record[row] # NULL
    BY <1>1, <1>3, LiveType, BlankFits
  <2> QED
    BY <1>3, <2>2, <2>3 DEF Sound
<1> HIDE DEF fresh
<1>14. /\ Blank \in Record /\ RecordFits(Blank, K[row])
       /\ Blank.mode \notin Inserting /\ ~IsNew(o, row)
  BY BlankFits DEF Inserting, IsNew
<1>5. /\ Rows(fresh, K) /\ Modes(fresh) /\ Fetched(fresh, K)
      /\ \A j \in Row : IsNew(fresh, j) <=> IsNew(o, j)
      /\ \A j \in Row \ {row} : fresh.record[j] = o.record[j]
      /\ fresh.record[row] = Blank
  <2>1. Changes(fresh, o, row, Blank, K[row])
    BY <1>3, <1>14 DEF Changes
  <2> QED
    <3>1. Rows(fresh, K) /\ Modes(fresh) /\ Fetched(fresh, K)
      BY <2>1, RecordChange
    <3> QED
      BY <2>1, <3>1, ChangesOne
<1>6. Unkeyed(fresh)
  BY <1>3, <1>5, LiveType, RecordRekeyed DEF Stuck, IsNew
<1>7. CASE ~FirstTable
  <2>1. p = fresh
    BY <1>7, <1>12
  <2>2. OnRow(fresh)
    BY <1>1, <1>3, <1>5, BlankFits DEF OnRow
  <2> QED
    BY <1>3, <1>5, <1>6, <2>1, <2>2, BlankFits
<1>8. CASE FirstTable
  <2> DEFINE q == AfterIdGet(fresh)
             id == IdGet(fresh)
  <2>1. p = [q EXCEPT !.record[row].id = id, !.currentid = id]
    BY <1>8, <1>12
  <2>2. /\ fresh.noprimarykey => id = NULL /\ q = fresh
        /\ ~fresh.noprimarykey /\ Usable(fresh) =>
             /\ id = NewId(K[row])
             /\ q = [fresh EXCEPT !.record[row].cache[KeyField] = K[row]]
        /\ ~fresh.noprimarykey /\ ~Usable(fresh) =>
             id = NULL /\ q = [fresh EXCEPT !.noprimarykey = TRUE]
    <3>1. At(fresh)
      BY <1>1, <1>3, <1>5, BlankFits DEF At
    <3>2. /\ fresh.noprimarykey => id = NULL /\ q = fresh
          /\ ~fresh.noprimarykey /\ Usable(fresh) =>
               /\ id = NewId(K[fresh.currentrow])
               /\ q = [fresh EXCEPT !.record[fresh.currentrow].cache[KeyField]
                                      = K[fresh.currentrow]]
          /\ ~fresh.noprimarykey /\ ~Usable(fresh) =>
               id = NULL /\ q = [fresh EXCEPT !.noprimarykey = TRUE]
      BY <1>4, <1>5, <1>6, <3>1, IdHere
    <3> HIDE DEF q, id
    <3> QED
      BY <1>3, <3>2
  <2>3. Usable(fresh) <=> fresh.res # NULL
    <3>1. At(fresh)
      BY <1>1, <1>3, <1>5, BlankFits DEF At
    <3> QED
      BY <1>3, <1>4, <1>5, <1>6, <3>1, KeyHere DEF Inserting
  <2> HIDE DEF q, id
  <2>4. CASE ~fresh.noprimarykey /\ Usable(fresh)
    <3> DEFINE r == [Blank EXCEPT !.cache[KeyField] = K[row], !.id = id]
    <3>1. p.record = [o.record EXCEPT ![row] = r]
      <4>1. q.record = [fresh.record EXCEPT
                          ![row] = [Blank EXCEPT !.cache[KeyField] = K[row]]]
        BY <1>1, <1>4, <1>5, <2>2, <2>4 DEF Sound, Object
      <4>2. p.record = [q.record EXCEPT ![row] = [@ EXCEPT !.id = id]]
        BY <1>4, <2>1, <2>2, <2>4 DEF Sound, Object
      <4>3. q.record[row] = [Blank EXCEPT !.cache[KeyField] = K[row]]
        BY <1>1, <1>3, <4>1, LiveType
      <4>4. r = [[Blank EXCEPT !.cache[KeyField] = K[row]] EXCEPT !.id = id]
        OBVIOUS
      <4> HIDE DEF r
      <4> QED
        BY <1>1, <1>3, <4>1, <4>2, <4>3, <4>4, LiveType
    <3>2. /\ p.numrecord = o.numrecord /\ p.state = o.state
          /\ p.res = o.res /\ p.noprimarykey = o.noprimarykey
          /\ p.currentrow = row /\ p.currentrecord = row
          /\ p.mode = "READ" /\ p.currentid = id
      BY <1>3, <1>4, <2>1, <2>2, <2>4 DEF Sound, Object
    <3>3. r \in Record /\ RecordFits(r, K[row]) /\ r.mode = "READ" /\ r.id = id
      <4>1. [Blank.cache EXCEPT ![KeyField] = K[row]] \in Cache
        BY <1>1, BlankFits, CacheWrite DEF Col, Datum, Record
      <4> QED
        BY <1>1, <2>2, <2>4, <4>1, BlankFits, NewIdType, KeyType
        DEF RecordFits, Record, Cache, Col
    <3> HIDE DEF r, p
    <3>4. /\ Rows(p, K) /\ Modes(p) /\ Fetched(p, K)
          /\ \A j \in Row : IsNew(p, j) <=> IsNew(o, j)
          /\ \A j \in Row \ {row} : p.record[j] = o.record[j]
          /\ p.record[row] = r /\ r # NULL
      <4>1. r.mode \notin Inserting
        BY <3>3 DEF Inserting
      <4>2. Changes(p, o, row, r, K[row])
        BY <1>14, <3>1, <3>2, <3>3, <4>1 DEF Changes
      <4> QED
        <5>1. Rows(p, K) /\ Modes(p) /\ Fetched(p, K)
          BY <4>2, RecordChange
        <5> QED
          BY <4>2, <5>1, ChangesOne
    <3>5. Unkeyed(p)
      BY <3>2, <3>3, <3>4, LiveType, RecordRekeyed DEF Stuck, IsNew
    <3>6. OnRow(p)
      BY <1>1, <3>2, <3>3, <3>4 DEF OnRow
    <3> QED
      BY <3>2, <3>3, <3>4, <3>5, <3>6 DEF p
  <2>5. CASE fresh.noprimarykey \/ ~Usable(fresh)
    <3>1. id = NULL
      BY <2>2, <2>5
    <3>2. p.record = [o.record EXCEPT ![row] = Blank]
      <4>1. q.record = fresh.record
        BY <1>4, <2>2, <2>5 DEF Sound, Object
      <4>2. [Blank EXCEPT !.id = NULL] = Blank
        BY DEF Blank, BlankRecord
      <4>3. p.record = [fresh.record EXCEPT ![row] = [Blank EXCEPT !.id = NULL]]
        BY <1>1, <1>3, <1>4, <1>5, <2>1, <2>2, <2>5, <3>1, <4>1 DEF Sound, Object
      <4> QED
        BY <1>1, <1>3, <4>2, <4>3, LiveType
    <3>3. /\ p.numrecord = o.numrecord /\ p.state = o.state
          /\ p.res = o.res /\ p.noprimarykey = TRUE
          /\ p.currentrow = row /\ p.currentrecord = row
          /\ p.mode = "READ" /\ p.currentid = NULL
      BY <1>3, <1>4, <2>1, <2>2, <2>5, <3>1 DEF Sound, Object
    <3> HIDE DEF p
    <3>4. /\ Rows(p, K) /\ Modes(p) /\ Fetched(p, K)
          /\ \A j \in Row \ {row} : p.record[j] = o.record[j]
          /\ p.record[row] = Blank
      <4>1. Changes(p, o, row, Blank, K[row])
        BY <1>14, <3>2, <3>3 DEF Changes
      <4> QED
        <5>1. Rows(p, K) /\ Modes(p) /\ Fetched(p, K)
          BY <4>1, RecordChange
        <5> QED
          BY <4>1, <5>1, ChangesOne
    <3>5. o.res = NULL
      BY <1>3, <2>3, <2>5 DEF Unkeyed
    <3>6. Unkeyed(p)
      BY <3>3, <3>4, <3>5, BlankFits DEF Unkeyed, Stuck, Live
    <3>7. OnRow(p)
      BY <1>1, <3>3, <3>4, BlankFits DEF OnRow
    <3> QED
      BY <3>3, <3>4, <3>6, <3>7, BlankFits DEF p
  <2> QED
    BY <2>4, <2>5
<1> QED
  BY <1>7, <1>8

\* p has the records of o and may have fetched or cached more.
Grown(p, o) ==
  /\ p.numrecord = o.numrecord /\ p.state = o.state /\ p.res = o.res
  /\ \A j \in Row : o.record[j] # NULL =>
       LET r == o.record[j]
           x == p.record[j]
       IN  /\ x # NULL /\ x.mode = r.mode /\ x.id = r.id
           /\ \A c \in Col : r.cache[c] # NULL => x.cache[c] = r.cache[c]
  /\ \A j \in Row : o.record[j] = NULL /\ p.record[j] # NULL =>
       p.record[j].mode = "READ"

\* A row fetched into a blank record is not a new one.
LEMMA GrownRows ==
  ASSUME NEW o, Sound(o), NEW p, Grown(p, o), NEW j \in Live(o)
  PROVE  /\ Live(p) = Live(o)
         /\ IsInsert(p, j) <=> IsInsert(o, j)
         /\ IsNew(p, j) <=> IsNew(o, j)
BY LiveType DEF Grown, IsInsert, IsNew, Live, Inserting

\* bonddb_moveto.
LEMMA LandGives ==
  ASSUME NEW o, Sound(o), NEW K \in Keys, Rows(o, K), Modes(o), Unkeyed(o),
         Fetched(o, K), NEW row \in Live(o)
  PROVE  LET p == Land(o, row) IN
         /\ OnRow(p) /\ p.currentrow = row
         /\ Rows(p, K) /\ Modes(p) /\ Unkeyed(p) /\ Fetched(p, K)
         /\ Grown(p, o)
<1> DEFINE r == o.record[row]
           p == Land(o, row)
<1>1. /\ row \in Row /\ row < o.numrecord /\ ~(row >= o.numrecord)
      /\ o.record \in [Row -> Record \cup {NULL}]
  BY LiveType
<1>2. CASE r # NULL
  <2>1. p = [o EXCEPT !.currentrow = row, !.currentrecord = row,
                      !.mode = r.mode, !.currentid = r.id]
    BY <1>1, <1>2 DEF Land
  <2>2. /\ p.record = o.record /\ p.numrecord = o.numrecord
        /\ p.state = o.state /\ p.res = o.res
        /\ p.noprimarykey = o.noprimarykey
        /\ p.currentrow = row /\ p.currentrecord = row
        /\ p.mode = r.mode /\ p.currentid = r.id
    BY <2>1 DEF Sound, Object
  <2> HIDE DEF p
  <2>3. Live(p) = Live(o) /\ \A j : IsNew(p, j) <=> IsNew(o, j)
    BY <2>2 DEF Live, IsNew
  <2>4. Rows(p, K)
    BY <2>2, <2>3 DEF Rows
  <2>5. Modes(p) /\ Fetched(p, K)
    BY <2>2, <2>3 DEF Modes, Fetched
  <2>6. Unkeyed(p)
    BY <2>2, <2>3 DEF Unkeyed, Stuck
  <2>7. OnRow(p)
    BY <1>1, <1>2, <2>2 DEF OnRow
  <2>8. Grown(p, o)
    BY <2>2 DEF Grown
  <2> QED
    BY <2>2, <2>4, <2>5, <2>6, <2>7, <2>8 DEF p
<1>3. CASE r = NULL
  <2>1. o.state = "READ_RAW"
    BY <1>3 DEF Modes, IsNew
  <2>2. p = Fetch(o, row)
    BY <1>1, <1>3, <2>1 DEF Land
  <2>3. /\ OnRow(p) /\ p.currentrow = row
        /\ Rows(p, K) /\ Modes(p) /\ Unkeyed(p) /\ Fetched(p, K)
        /\ p.numrecord = o.numrecord /\ p.state = o.state /\ p.res = o.res
        /\ \A j \in Row \ {row} : p.record[j] = o.record[j]
        /\ p.record[row].mode = "READ"
    BY <1>3, <2>1, <2>2, FetchGives
  <2> HIDE DEF p
  <2>4. Grown(p, o)
    BY <1>3, <2>3 DEF Grown
  <2> QED
    BY <2>3, <2>4 DEF p
<1> QED
  BY <1>2, <1>3

-----------------------------------------------------------------------------
(* The calls.                                                              *)

\* The rules a careful application keeps.
LEMMA Rules ==
  ASSUME CarefulUse
  PROVE  /\ Careful("deleteAtOnce") /\ Careful("markedRows")
         /\ Careful("cleanReload") /\ Careful("cleanUndo")
         /\ Careful("cleanAbort") /\ KeyDefault
         /\ ~Careful("newRowAlone") => MayFail = {}
BY DEF CarefulUse, Careful, Rule

\* A call leaves the invariant when it leaves its parts.
LEMMA CallKeeps ==
  ASSUME NEW K \in Keys, CarefulInvOf(K), pc = "idle", UNCHANGED saving,
         UNCHANGED fault, NEW L \in Keys, Rows(obj', L), Modes(obj'),
         Unkeyed(obj'), Cursor(obj'), Table(obj, L)', Fetched(obj', L),
         Waiting(L)'
  PROVE  CarefulInvOf(L)'
BY DEF CarefulInvOf, saving, Calmness, Settled

\* The table is as it was, and so are the rows still to be inserted.
LEMMA TableSame ==
  ASSUME Sound(obj), NEW K, Table(obj, K), UNCHANGED <<db, nextkey>>,
         Grown(obj', obj)
  PROVE  Table(obj, K)'
<1>1. Live(obj') = Live(obj) /\ obj'.state = obj.state
  BY DEF Live, Grown
<1>2. \A j \in Live(obj) : IsInsert(obj', j) <=> IsInsert(obj, j)
  BY GrownRows
<1> QED
  BY <1>1, <1>2 DEF Table

\* Pending writes stay what they are when more is fetched.
LEMMA WaitingSame ==
  ASSUME Sound(obj), QueueOK, NEW K \in Keys, Waiting(K), ~Deleting,
         UNCHANGED <<writequeue, wrote>>, Grown(obj', obj),
         writequeue # {} => obj'.currentrecord # NULL
  PROVE  Waiting(K)'
<1>1. \A e \in writequeue : e.row \in Row /\ e.type # "DELETE"
  BY DEF QueueOK, Write, Deleting
<1>2. ASSUME NEW e \in writequeue PROVE EntryFits(e, K)'
  <2>1. EntryFits(e, K) /\ e.row \in Row /\ e.type # "DELETE"
    BY <1>1 DEF Waiting
  <2>2. obj.record[e.row] # NULL
    BY <2>1 DEF EntryFits
  <2>3. /\ obj'.record[e.row] # NULL /\ obj'.numrecord = obj.numrecord
        /\ obj'.record[e.row].mode = obj.record[e.row].mode
        /\ obj'.record[e.row].id = obj.record[e.row].id
        /\ \A c \in Col : obj.record[e.row].cache[c] # NULL =>
             obj'.record[e.row].cache[c] = obj.record[e.row].cache[c]
    BY <2>1, <2>2 DEF Grown
  <2> QED
    BY <2>1, <2>3 DEF EntryFits, Col
<1>3. Live(obj') = Live(obj)
  BY DEF Live, Grown
<1>4. \A i \in Live(obj) : IsInsert(obj', i) <=> IsInsert(obj, i)
  BY GrownRows
<1>5. \A i \in Live(obj') : IsInsert(obj', i) => KeyWritten(i)'
  BY <1>3, <1>4 DEF Waiting, KeyWritten
<1>6. \A e \in writequeue' : EntryFits(e, K)'
  BY <1>2
<1>7. \A e \in writequeue' : e.type = "DELETE" => LastDeletes(e)'
  BY <1>1
<1> QED
  BY <1>5, <1>6, <1>7 DEF Waiting

\* Where a call finds the invariant.
LEMMA IdleState ==
  ASSUME IInv, NEW K, CarefulInvOf(K), Idle
  PROVE  /\ Sound(obj) /\ QueueOK /\ pc = "idle" /\ Settled /\ fault = "none"
         /\ Rows(obj, K) /\ Modes(obj) /\ Unkeyed(obj) /\ Cursor(obj)
         /\ Table(obj, K) /\ Fetched(obj, K) /\ Waiting(K)
         /\ wrote = {} /\ walk = 0 /\ ~corrupt
BY DEF IInv, CarefulInvOf, Idle, Calmness, Settled

\* Where a call finds the invariant.
LEMMA CalmState ==
  ASSUME CarefulUse, IInv, NEW K, CarefulInvOf(K), Calm
  PROVE  /\ Sound(obj) /\ QueueOK /\ pc = "idle" /\ Settled /\ fault = "none"
         /\ Rows(obj, K) /\ Modes(obj) /\ Unkeyed(obj) /\ Cursor(obj)
         /\ Table(obj, K) /\ Fetched(obj, K) /\ Waiting(K)
         /\ ~Deleting /\ wrote = {}
BY IdleState, Rules DEF Calm

\* A move to another row.
LEMMA MovetoCareful ==
  ASSUME CarefulUse, IInv, NEW K \in Keys, CarefulInvOf(K),
         NEW row \in Row, Moveto(row)
  PROVE  CarefulInvOf(K)'
<1>1. Calm /\ row < obj.numrecord /\ obj' = Land(obj, row)
      /\ UNCHANGED <<backend, queue, saving, fault>>
  BY DEF Moveto
<1>2. /\ Sound(obj) /\ QueueOK /\ pc = "idle" /\ Rows(obj, K) /\ Modes(obj)
      /\ Unkeyed(obj) /\ Table(obj, K) /\ Fetched(obj, K) /\ Waiting(K)
      /\ ~Deleting
  BY <1>1, CalmState
<1>3. row \in Live(obj)
  BY <1>1, <1>2, LiveType
<1>4. /\ OnRow(obj') /\ Rows(obj', K) /\ Modes(obj') /\ Unkeyed(obj')
      /\ Fetched(obj', K) /\ Grown(obj', obj)
  BY <1>1, <1>2, <1>3, LandGives
<1>5. Table(obj, K)'
  BY <1>1, <1>2, <1>4, TableSame DEF backend
<1>6. obj'.currentrecord # NULL
  BY <1>3, <1>4, ConstantAssumption, LandType, <1>1, <1>2, LiveType
  DEF OnRow, Sound, Object
<1>7. Waiting(K)'
  BY <1>1, <1>2, <1>4, <1>6, WaitingSame DEF queue, saving
<1> QED
  BY <1>1, <1>2, <1>4, <1>5, <1>7, CallKeeps DEF Cursor

\* The rows of a result.
LEMMA ResultRowType ==
  ASSUME NEW o, Sound(o), o.res # NULL, NEW i \in DOMAIN o.res
  PROVE  o.res[i].key \in Key /\ \A f \in Field : o.res[i].val[f] \in Datum \cup {NULL}
<1>1. o.res \in ResultSet
  BY DEF Sound, Object
<1>2. PICK n \in 0..MaxKey : o.res \in [0..(n - 1) -> ResultRow]
  BY <1>1 DEF ResultSet
<1> QED
  BY <1>2 DEF ResultRow, TableRow

\* A value of the result is what the object shows from now on.
LEMMA GetValueCareful ==
  ASSUME CarefulUse, IInv, NEW K \in Keys, CarefulInvOf(K),
         NEW c \in Col, GetValue(c)
  PROVE  CarefulInvOf(K)'
<1> DEFINE row == obj.currentrow
           v == IF c = KeyField THEN obj.res[row].key ELSE obj.res[row].val[c]
           r0 == obj.record[row]
           r == [r0 EXCEPT !.cache[c] = v]
<1>1. /\ Calm /\ Usable(obj) /\ obj.mode \notin Inserting
      /\ r0 # NULL /\ r0.cache[c] = NULL
      /\ obj' = [obj EXCEPT !.record[row].cache[c] = v]
      /\ UNCHANGED <<backend, queue, saving, fault>>
  BY DEF GetValue
<1>2. /\ Sound(obj) /\ QueueOK /\ pc = "idle" /\ Rows(obj, K) /\ Modes(obj)
      /\ Unkeyed(obj) /\ Table(obj, K) /\ Fetched(obj, K) /\ Waiting(K)
      /\ ~Deleting /\ Cursor(obj)
  BY <1>1, CalmState
<1>3. OnRow(obj)
  BY <1>1, <1>2 DEF Usable, Cursor, OnNone
<1>4. row \in Row /\ row \in Live(obj) /\ r0 \in Record /\ K[row] \in Key
  BY <1>1, <1>2, <1>3, LiveType DEF OnRow, Rows
<1>5. r0.mode \notin Inserting /\ obj.res # NULL /\ ~IsNew(obj, row)
  BY <1>1, <1>3 DEF OnRow, Usable, IsNew
<1>6. c = KeyField => v = K[row]
  BY <1>2, <1>4, <1>5 DEF Fetched
<1>7. /\ obj'.record = [obj.record EXCEPT ![row] = r]
      /\ obj'.numrecord = obj.numrecord /\ obj'.state = obj.state
      /\ obj'.res = obj.res /\ obj'.noprimarykey = obj.noprimarykey
      /\ obj'.currentrow = row /\ obj'.currentrecord = obj.currentrecord
      /\ obj'.mode = obj.mode /\ obj'.currentid = obj.currentid
  BY <1>1, <1>2, <1>4 DEF Sound, Object
<1>8. /\ r.mode = r0.mode /\ r.id = r0.id
      /\ r.cache = [r0.cache EXCEPT ![c] = v]
  BY <1>4 DEF Record
<1>9. v \in Datum \cup {NULL} /\ (c = KeyField => v \in Key \cup {NULL})
  <2>1. row \in DOMAIN obj.res
    BY DEF GetValue
  <2>2. /\ obj.res[row].key \in Key
        /\ \A f \in Field : obj.res[row].val[f] \in Datum \cup {NULL}
    BY <1>2, <1>5, <2>1, ResultRowType
  <2> QED
    BY <2>2 DEF Datum, Col
<1>10. r.cache \in Cache /\ r0.cache \in Cache
  BY <1>4, <1>8, <1>9, CacheWrite DEF Record
<1>11. r \in Record
  BY <1>4, <1>10 DEF Record
<1>12. /\ r.cache[c] = v
       /\ \A f \in Col \ {c} : r.cache[f] = r0.cache[f]
  BY <1>8, <1>10 DEF Cache
<1> HIDE DEF r, v
<1>13. RecordFits(r0, K[row])
  BY <1>2, <1>4, <1>1 DEF Rows
<1>14. RecordFits(r, K[row])
  <2>1. c # KeyField => r.cache[KeyField] = r0.cache[KeyField]
    BY <1>12 DEF Col
  <2> QED
    BY <1>1, <1>4, <1>6, <1>8, <1>12, <1>13, <2>1, KeyType DEF RecordFits
<1>15. Changes(obj', obj, row, r, K[row])
  BY <1>5, <1>7, <1>8, <1>11, <1>14 DEF Changes
<1>16. Rows(obj', K) /\ Modes(obj') /\ Fetched(obj', K)
  BY <1>2, <1>4, <1>15, RecordChange
<1>17. /\ obj'.record[row] = r /\ r # NULL
       /\ \A j \in Row \ {row} : obj'.record[j] = obj.record[j]
       /\ \A j \in Row : IsNew(obj', j) <=> IsNew(obj, j)
  BY <1>2, <1>4, <1>15, ChangesOne
<1>18. Unkeyed(obj')
  <2>1. Stuck(obj', row) <=> Stuck(obj, row)
    BY <1>1, <1>8, <1>17 DEF Stuck
  <2>2. Live(obj) \subseteq Row
    BY <1>2, LiveType
  <2>3. ~IsNew(obj', row)
    BY <1>4, <1>5, <1>17
  <2> QED
    BY <1>2, <1>4, <1>7, <1>17, <2>1, <2>2, <2>3, RecordRekeyed
<1>19. OnRow(obj')
  BY <1>3, <1>7, <1>8, <1>17 DEF OnRow
<1>20. Grown(obj', obj)
  <2>1. ASSUME NEW j \in Row, obj.record[j] # NULL
        PROVE  /\ obj'.record[j] # NULL /\ obj'.record[j].mode = obj.record[j].mode
               /\ obj'.record[j].id = obj.record[j].id
               /\ \A f \in Col : obj.record[j].cache[f] # NULL =>
                                obj'.record[j].cache[f] = obj.record[j].cache[f]
    <3>1. CASE j = row
      BY <1>1, <1>8, <1>12, <1>17, <3>1
    <3>2. CASE j # row
      BY <1>17, <2>1, <3>2
    <3> QED
      BY <3>1, <3>2
  <2>2. ASSUME NEW j \in Row, obj.record[j] = NULL PROVE obj'.record[j] = NULL
    BY <1>1, <1>17, <2>2
  <2> QED
    BY <1>7, <2>1, <2>2 DEF Grown
<1>21. Table(obj, K)' /\ Waiting(K)'
  <2>1. obj'.currentrecord # NULL
    BY <1>3, <1>4, <1>7, ConstantAssumption DEF OnRow
  <2>2. Table(obj, K)'
    BY <1>1, <1>2, <1>20, TableSame DEF backend
  <2> QED
    BY <1>1, <1>2, <1>20, <2>1, <2>2, WaitingSame DEF queue, saving
<1> QED
  BY <1>1, <1>2, <1>16, <1>18, <1>19, <1>21, CallKeeps DEF Cursor

\* A record of the array is given its key and an id.
Files(b, a, i, k, id) ==
  b = [[a EXCEPT ![i].cache[KeyField] = k] EXCEPT ![i].id = id]

\* A record that was given its key and an id.
LEMMA Filed ==
  ASSUME NEW a \in [Row -> Record \cup {NULL}], NEW i \in Row, a[i] \in Record,
         NEW k \in Key, NEW id \in Id \cup {NULL}, NEW b, Files(b, a, i, k, id)
  PROVE  /\ b = [a EXCEPT ![i] = b[i]] /\ b[i] \in Record
         /\ b[i].mode = a[i].mode /\ b[i].id = id
         /\ b[i].cache = [a[i].cache EXCEPT ![KeyField] = k]
<1> DEFINE r == a[i]
           c == [a EXCEPT ![i].cache[KeyField] = k]
           y == [r EXCEPT !.cache[KeyField] = k]
           z == [y EXCEPT !.id = id]
<1>1. [r.cache EXCEPT ![KeyField] = k] \in Cache
  BY CacheWrite DEF Record, Col, Datum
<1>2. y \in Record /\ y.mode = r.mode
      /\ y.cache = [r.cache EXCEPT ![KeyField] = k]
  BY <1>1 DEF Record
<1>3. c = [a EXCEPT ![i] = y]
  OBVIOUS
<1> HIDE DEF y
<1>4. z \in Record /\ z.mode = y.mode /\ z.cache = y.cache /\ z.id = id
  BY <1>2 DEF Record
<1>5. c \in [Row -> Record \cup {NULL}] /\ c[i] = y
  BY <1>2, <1>3
<1> HIDE DEF c
<1>6. b = [c EXCEPT ![i] = z]
  BY <1>5 DEF c, Files
<1> HIDE DEF z
<1>7. b = [a EXCEPT ![i] = z]
  BY <1>3, <1>6
<1>8. b[i] = z
  BY <1>7
<1> QED
  BY <1>2, <1>4, <1>7, <1>8

\* Where bonddb_setvalue and bonddb_add write: a row with its value cached.
Writable(o) ==
  /\ At(o) /\ Usable(o) /\ o.mode = o.record[o.currentrow].mode
  /\ o.res = NULL /\ o.mode # "INSERT" =>
       o.currentid = o.record[o.currentrow].id

\* The record r became the record s when a value was written.
Touches(s, r, o) ==
  /\ s.mode = IF r.mode = "READ" THEN "UPDATE" ELSE r.mode
  /\ r.id # NULL => s.id = r.id
  /\ s.id = NULL => r.mode = "INSERT" \/ o.noprimarykey
  /\ o.noprimarykey => s.id = r.id
  /\ \A f \in Col : f # KeyField \/ r.cache[f] # NULL => s.cache[f] = r.cache[f]

\* The record becomes one to update, and has an id if it can.
LEMMA TouchGives ==
  ASSUME NEW o, Sound(o), NEW K \in Keys, Rows(o, K), Modes(o), Unkeyed(o),
         Fetched(o, K), Writable(o)
  PROVE  LET p == Identified(Touched(o))
             row == o.currentrow
             s == p.record[row]
         IN  /\ Changes(p, o, row, s, K[row]) /\ Touches(s, o.record[row], o)
             /\ p.currentrow = row /\ p.currentrecord = row /\ p.mode = s.mode
             /\ p.noprimarykey = o.noprimarykey /\ p.currentid = o.currentid
             /\ NeedsId(p) <=> s.id = NULL /\ o.state = "READ_RAW"
                                           /\ s.mode # "INSERT"
<1> DEFINE row == o.currentrow
           k == K[row]
           r == o.record[row]
           m == IF o.mode = "READ" THEN "UPDATE" ELSE o.mode
           t == Touched(o)
           p == Identified(t)
<1>1. /\ row \in Live(o) /\ k \in Key
      /\ ~o.noprimarykey /\ Usable(o) => CurrentKey(o) = k
      /\ Usable(o) <=> o.mode \in Inserting \/ o.res # NULL
  BY KeyHere DEF Writable
<1>2. /\ row \in Row /\ r \in Record /\ r # NULL /\ o.mode = r.mode
      /\ o.currentrecord = row /\ row < o.numrecord /\ Usable(o)
      /\ RecordFits(r, k)
  BY <1>1, LiveType DEF Writable, At, Rows
<1>3. m \in Mode /\ (m \in Inserting <=> o.mode \in Inserting)
  BY <1>2 DEF Mode, Inserting, Record
<1>4. t = [o EXCEPT !.mode = m, !.record[row].mode = m]
  BY <1>2 DEF Touched
<1>5. /\ t.record = [o.record EXCEPT ![row] = [r EXCEPT !.mode = m]]
      /\ t.numrecord = o.numrecord /\ t.state = o.state /\ t.res = o.res
      /\ t.noprimarykey = o.noprimarykey /\ t.currentrow = row
      /\ t.currentrecord = row /\ t.mode = m /\ t.currentid = o.currentid
  BY <1>2, <1>4 DEF Sound, Object
<1>6. /\ t.record[row] = [r EXCEPT !.mode = m] /\ t.record[row] # NULL
      /\ t.record[row].id = r.id /\ t.record[row].cache = r.cache
      /\ t.record[row].mode = m /\ t.record[row] \in Record
  <2>1. t.record[row] = [r EXCEPT !.mode = m]
    BY <1>2, <1>5, LiveType
  <2>2. [r EXCEPT !.mode = m] \in Record
    BY <1>2, <1>3 DEF Record
  <2> QED
    BY <1>2, <2>1, <2>2, NullAssumption DEF Record
<1> HIDE DEF t, m
<1>7. Usable(t) /\ CurrentKey(t) = CurrentKey(o)
  <2>1. Usable(t)
    BY <1>2, <1>3, <1>5 DEF Usable
  <2>2. o.mode \notin Inserting => t.mode \notin Inserting
    BY <1>3, <1>5
  <2> QED
    BY <1>2, <1>3, <1>5, <1>6, <2>1 DEF CurrentKey
<1>8. /\ o.noprimarykey => IdGet(t) = NULL /\ AfterIdGet(t) = t
      /\ ~o.noprimarykey =>
           /\ IdGet(t) = NewId(k)
           /\ AfterIdGet(t) = [t EXCEPT !.record[row].cache[KeyField] = k]
  <2>1. k # NULL
    BY <1>1, KeyType
  <2>2. ~o.noprimarykey => CurrentKey(t) = k
    BY <1>1, <1>2, <1>7
  <2> HIDE DEF k
  <2> QED
    BY <1>5, <2>1, <2>2 DEF IdGet, AfterIdGet
<1>9. NeedsId(t) <=> r.id = NULL /\ o.state = "READ_RAW" /\ m # "INSERT"
  BY <1>5, <1>6 DEF NeedsId
<1>10. o.state = "NEW" \/ o.state = "READ_RAW"
  BY DEF Modes
<1>11. o.noprimarykey => o.mode \in Inserting
  BY <1>1, <1>2 DEF Unkeyed
<1> DEFINE s == p.record[row]
<1>12. CASE NeedsId(t) /\ ~o.noprimarykey
  <2> DEFINE u == [t EXCEPT !.record[row].cache[KeyField] = k]
  <2>1. p = [u EXCEPT !.record[row].id = NewId(k)]
    BY <1>5, <1>8, <1>12 DEF Identified
  <2>2. /\ u.record = [t.record EXCEPT ![row].cache[KeyField] = k]
        /\ u.numrecord = o.numrecord /\ u.state = o.state /\ u.res = o.res
        /\ u.noprimarykey = o.noprimarykey /\ u.currentrow = row
        /\ u.currentrecord = row /\ u.mode = m /\ u.currentid = o.currentid
        /\ DOMAIN u = DOMAIN o
    BY <1>4, <1>5 DEF Sound, Object, t
  <2> HIDE DEF u
  <2>3. /\ p.record = [u.record EXCEPT ![row].id = NewId(k)]
        /\ p.numrecord = o.numrecord /\ p.state = o.state /\ p.res = o.res
        /\ p.noprimarykey = o.noprimarykey /\ p.currentrow = row
        /\ p.currentrecord = row /\ p.mode = m /\ p.currentid = o.currentid
    BY <2>1, <2>2 DEF Sound, Object
  <2>4. t.record \in [Row -> Record \cup {NULL}]
    BY <1>2, <1>3, <1>5, <1>6, LiveType
  <2>5. NewId(k) \in Id \cup {NULL}
    BY <1>1, NewIdType
  <2>6. /\ p.record = [t.record EXCEPT ![row] = s] /\ s \in Record
        /\ s.mode = m /\ s.id = NewId(k)
        /\ s.cache = [r.cache EXCEPT ![KeyField] = k]
    <3>1. Files(p.record, t.record, row, k, NewId(k))
      BY <2>2, <2>3 DEF Files
    <3>2. k \in Key /\ row \in Row
      BY <1>1, <1>2
    <3> DEFINE a == t.record
               b == p.record
    <3>3. a \in [Row -> Record \cup {NULL}] /\ a[row] \in Record
      BY <1>6, <2>4
    <3>4. Files(b, a, row, k, NewId(k))
      BY <3>1
    <3> HIDE DEF p, k, row, r, a, b
    <3>5. /\ b = [a EXCEPT ![row] = b[row]] /\ b[row] \in Record
          /\ b[row].mode = a[row].mode /\ b[row].id = NewId(k)
          /\ b[row].cache = [a[row].cache EXCEPT ![KeyField] = k]
      BY <2>5, <3>2, <3>3, <3>4, Filed
    <3> QED
      BY <1>6, <3>5 DEF a, b
  <2>7. p.record = [o.record EXCEPT ![row] = s]
    BY <1>2, <1>5, <2>6, LiveType
  <2> HIDE DEF p
  <2>8. s.cache[KeyField] = k /\ \A f \in Col \ {KeyField} : s.cache[f] = r.cache[f]
    BY <1>2, <2>6 DEF Record, Cache, Col
  <2>9. RecordFits(s, k)
    BY <1>1, <1>2, <2>6, <2>8, NewIdType, KeyType, <1>9, <1>12 DEF RecordFits
  <2>10. Changes(p, o, row, s, k)
    BY <1>2, <1>3, <2>3, <2>6, <2>7, <2>9 DEF Changes, IsNew
  <2>11. Touches(s, r, o)
    BY <1>1, <1>2, <1>9, <1>12, <2>6, <2>8, NewIdType DEF Touches, m, RecordFits
  <2>12. NeedsId(p) <=> s.id = NULL /\ o.state = "READ_RAW" /\ s.mode # "INSERT"
    BY <2>3, <2>6 DEF NeedsId
  <2> QED
    BY <2>3, <2>6, <2>10, <2>11, <2>12 DEF p, t
<1>13. CASE ~(NeedsId(t) /\ ~o.noprimarykey)
  <2>1. \/ p = t
        \/ p = [t EXCEPT !.record[row].id = NULL] /\ r.id = NULL
    BY <1>5, <1>8, <1>9, <1>13 DEF Identified
  <2>2. /\ p.numrecord = o.numrecord /\ p.state = o.state /\ p.res = o.res
        /\ p.noprimarykey = o.noprimarykey /\ p.currentrow = row
        /\ p.currentrecord = row /\ p.mode = m /\ p.currentid = o.currentid
        /\ \/ p.record = t.record
           \/ p.record = [t.record EXCEPT ![row].id = NULL] /\ r.id = NULL
    <3>1. DOMAIN t = DOMAIN o
      BY <1>4 DEF Sound, Object, t
    <3>2. CASE p = t
      BY <1>5, <3>2
    <3>3. CASE p = [t EXCEPT !.record[row].id = NULL] /\ r.id = NULL
      BY <1>5, <3>1, <3>3 DEF Sound, Object
    <3> QED
      BY <2>1, <3>2, <3>3
  <2> HIDE DEF p
  <2>3. p.record = [o.record EXCEPT ![row] = s] /\ s = t.record[row]
    <3> DEFINE x == t.record[row]
    <3>1. [x EXCEPT !.id = r.id] = x
      BY <1>6 DEF Record
    <3>2. t.record = [o.record EXCEPT ![row] = x] /\ x = t.record[row]
      BY <1>5, <1>6
    <3>3. p.record = t.record \/ p.record = [t.record EXCEPT ![row] = x]
      BY <2>2, <3>1
    <3> HIDE DEF x
    <3> QED
      BY <1>2, <3>2, <3>3, LiveType
  <2>4. s \in Record /\ s.mode = m /\ s.id = r.id /\ s.cache = r.cache
    BY <1>6, <2>3
  <2>5. m = "UPDATE" => r.id # NULL
    BY <1>1, <1>2, <1>9, <1>10, <1>11, <1>13 DEF m, RecordFits, Modes, Inserting
  <2>6. RecordFits(s, k)
    BY <1>2, <2>4, <2>5 DEF RecordFits, m
  <2>7. Changes(p, o, row, s, k)
    BY <1>2, <1>3, <2>2, <2>3, <2>4, <2>6 DEF Changes, IsNew
  <2>8. Touches(s, r, o)
    <3>1. r.id = NULL => r.mode = "INSERT" \/ o.noprimarykey
      <4>1. CASE o.state = "NEW"
        BY <1>1, <1>2, <4>1 DEF Modes, Unkeyed, Stuck
      <4>2. CASE o.state = "READ_RAW"
        BY <1>2, <1>9, <1>13, <4>2 DEF m
      <4> QED
        BY <1>10, <4>1, <4>2
    <3> QED
      BY <1>2, <2>4, <3>1 DEF Touches, m
  <2>12. NeedsId(p) <=> s.id = NULL /\ o.state = "READ_RAW" /\ s.mode # "INSERT"
    BY <2>2, <2>4 DEF NeedsId
  <2> QED
    BY <2>2, <2>4, <2>7, <2>8, <2>12 DEF p, t
<1> QED
  BY <1>12, <1>13

\* The key that a record holds already is put in its cache.
LEMMA KeyKept ==
  ASSUME NEW o, Sound(o), NEW i \in Row, o.record[i] \in Record,
         NEW k, o.record[i].cache[KeyField] = k
  PROVE  [o EXCEPT !.record[i].cache[KeyField] = k] = o
<1> DEFINE r == o.record[i]
           y == [r EXCEPT !.cache[KeyField] = k]
<1>1. r.cache \in Cache /\ [r.cache EXCEPT ![KeyField] = k] = r.cache
  BY DEF Record, Cache
<1>2. y = [r EXCEPT !.cache = r.cache]
  BY <1>1
<1>3. y = r
  BY <1>2 DEF Record
<1>4. o.record \in [Row -> Record \cup {NULL}]
  BY LiveType
<1>5. [o.record EXCEPT ![i].cache[KeyField] = k] = [o.record EXCEPT ![i] = y]
  OBVIOUS
<1> HIDE DEF y
<1>6. [o.record EXCEPT ![i] = y] = o.record
  BY <1>3, <1>4
<1>7. [o EXCEPT !.record[i].cache[KeyField] = k] = [o EXCEPT !.record = o.record]
  BY <1>5, <1>6
<1> QED
  BY <1>7 DEF Sound, Object

\* What a write does to the object and what it queues.
Queues(c, v, mark, row, s, k) ==
  \E e \in Write :
    /\ Enqueue(e) /\ e.pos = tail /\ e.row = row /\ e.field = c /\ e.value = v
    /\ e.type = IF s.mode = "INSERT" THEN "INSERT" ELSE "UPDATE"
    /\ e.mark = mark /\ e.id \in {NULL, NewId(k)}
    /\ e.type = "UPDATE" => s.id # NULL
Queued(c, v, mark, row, s, k) ==
  \/ UNCHANGED queue /\ s.id = NULL /\ s.mode # "INSERT"
  \/ Queues(c, v, mark, row, s, k)

\* bonddb_setvalue, once the row has an id if it can be given one.
LEMMA WriteGives ==
  ASSUME NEW o, Sound(o), NEW K \in Keys, Rows(o, K), Modes(o), Unkeyed(o),
         Fetched(o, K), Writable(o), tail \in Nat, NEW c \in Col,
         NEW v \in Datum \cup {NULL}, NEW mark \in BOOLEAN,
         Write1(Identified(Touched(o)), c, v, mark)
  PROVE  LET row == o.currentrow
             s == obj'.record[row]
         IN  /\ Changes(obj', o, row, s, K[row]) /\ Unkeyed(obj')
             /\ Touches(s, o.record[row], o) /\ OnRow(obj')
             /\ obj'.currentrow = row /\ obj'.noprimarykey = o.noprimarykey
             /\ Queued(c, v, mark, row, s, K[row])
<1> DEFINE row == o.currentrow
           k == K[row]
           r == o.record[row]
           p == Identified(Touched(o))
           s == p.record[row]
           q == [p EXCEPT !.currentid = s.id]
<1>1. /\ Changes(p, o, row, s, k) /\ Touches(s, r, o)
      /\ p.currentrow = row /\ p.currentrecord = row /\ p.mode = s.mode
      /\ p.noprimarykey = o.noprimarykey /\ p.currentid = o.currentid
      /\ NeedsId(p) <=> s.id = NULL /\ o.state = "READ_RAW"
                                    /\ s.mode # "INSERT"
  BY TouchGives
<1>2. /\ row \in Live(o) /\ k \in Key /\ row \in Row /\ r \in Record
      /\ o.currentrecord = row /\ r # NULL /\ r.mode = o.mode
      /\ row < o.numrecord
  BY KeyHere, LiveType DEF Writable, At
<1>3. Sound(p)
  <2>1. Sound(Touched(o)) /\ Touched(o).currentrecord \in Row
    BY <1>2, TouchedType DEF Alike
  <2> QED
    BY <2>1, IdentifiedType
<1> HIDE DEF p
<1>13. Write1(p, c, v, mark)
  BY DEF p
<1>4. /\ NeedsId(p) => obj' = p /\ UNCHANGED queue
      /\ ~NeedsId(p) =>
           /\ obj' = IF q.currentid = NULL THEN q ELSE AfterIdGet(q)
           /\ WriteAdd(q, c, v, mark)
  <2> DEFINE x == [p EXCEPT !.currentid = p.record[p.currentrecord].id]
  <2>1. x = q
    BY <1>1
  <2>2. /\ NeedsId(p) => obj' = p /\ UNCHANGED queue
        /\ ~NeedsId(p) =>
             /\ obj' = IF x.currentid = NULL THEN x ELSE AfterIdGet(x)
             /\ WriteAdd(x, c, v, mark)
    BY <1>13 DEF Write1
  <2> HIDE DEF x, q
  <2> QED
    BY <2>1, <2>2
<1>5. /\ q.record = p.record /\ q.numrecord = p.numrecord
      /\ q.state = p.state /\ q.res = p.res
      /\ q.noprimarykey = p.noprimarykey /\ q.currentrow = row
      /\ q.currentrecord = row /\ q.mode = s.mode /\ q.currentid = s.id
  BY <1>1, <1>3 DEF Sound, Object
<1>6. Rows(p, K) /\ Modes(p) /\ Fetched(p, K)
  BY <1>1, <1>2, RecordChange
<1>7. /\ s # NULL /\ s \in Record /\ RecordFits(s, k)
      /\ \A j \in Row \ {row} : p.record[j] = o.record[j]
      /\ \A j \in Row : IsNew(p, j) <=> IsNew(o, j)
  <2>1. s \in Record /\ RecordFits(s, k)
    BY <1>1 DEF Changes
  <2> QED
    BY <1>1, <1>2, <2>1, ChangesOne
<1>11. Unkeyed(p)
  <2>1. /\ p.numrecord = o.numrecord /\ p.res = o.res
        /\ p.noprimarykey = o.noprimarykey
    BY <1>1 DEF Changes
  <2>2. Live(o) \subseteq Row
    BY LiveType
  <2>3. o.noprimarykey /\ Stuck(o, row) => Stuck(p, row)
    BY <1>1, <1>2, <1>7 DEF Stuck, Touches
  <2>4. ~o.noprimarykey /\ IsNew(p, row) => ~Stuck(p, row)
    <3>1. IsNew(p, row) => IsNew(o, row)
      BY <1>2, <1>7
    <3> QED
      BY <1>1, <1>2, <1>7, <3>1 DEF Stuck, Touches, Unkeyed
  <2> QED
    BY <1>2, <1>7, <2>1, <2>2, <2>3, <2>4, RecordRekeyed
<1>8. CASE NeedsId(p)
  <2>1. o.noprimarykey /\ o.res = NULL /\ r.id = NULL /\ s.id = NULL
    BY <1>1, <1>2, <1>8 DEF Touches, Unkeyed
  <2>2. o.currentid = NULL
    BY <1>1, <1>2, <1>8, <2>1 DEF Writable, Touches
  <2>3. OnRow(p)
    BY <1>1, <1>2, <1>7, <2>1, <2>2 DEF OnRow, Changes
  <2> QED
    BY <1>1, <1>4, <1>8, <1>11, <2>1, <2>3 DEF Queued
<1>9. CASE ~NeedsId(p)
  <2>1. Sound(q) /\ Rows(q, K) /\ Modes(q) /\ Unkeyed(q) /\ Fetched(q, K)
    <3>1. Sound(q)
      BY <1>3, <1>7, PutCurrentId DEF Record
    <3>2. Live(q) = Live(p) /\ \A j : IsNew(q, j) <=> IsNew(p, j)
      BY <1>5 DEF Live, IsNew
    <3> HIDE DEF q
    <3>3. Rows(q, K)
      BY <1>5, <1>6, <3>2 DEF Rows
    <3>4. Modes(q) /\ Fetched(q, K)
      BY <1>5, <1>6, <3>2 DEF Modes, Fetched
    <3>5. Unkeyed(q)
      BY <1>5, <1>11, <3>2 DEF Unkeyed, Stuck
    <3> QED
      BY <3>1, <3>3, <3>4, <3>5
  <2>2. At(q)
    BY <1>2, <1>5, <1>7, <1>1 DEF At, Changes
  <2>3. Usable(q)
    <3>1. Usable(q) <=> q.mode \in Inserting \/ q.res # NULL
      BY <2>1, <2>2, KeyHere
    <3>2. Usable(o) <=> o.mode \in Inserting \/ o.res # NULL
      BY KeyHere DEF Writable
    <3>3. s.mode \in Inserting <=> o.mode \in Inserting
      BY <1>1, <1>2 DEF Changes, IsNew
    <3> QED
      BY <1>1, <1>5, <3>1, <3>2, <3>3 DEF Writable, Changes
  <2> HIDE DEF q
  <2>4. /\ s.id # NULL => AfterIdGet(q) = q
        /\ IdGet(q) \in {NULL, NewId(k)}
    <3>1. /\ q.noprimarykey => IdGet(q) = NULL /\ AfterIdGet(q) = q
          /\ ~q.noprimarykey =>
              /\ IdGet(q) = NewId(k)
              /\ AfterIdGet(q) = [q EXCEPT !.record[row].cache[KeyField] = k]
      <4>1. /\ q.noprimarykey => IdGet(q) = NULL /\ AfterIdGet(q) = q
            /\ ~q.noprimarykey /\ Usable(q) =>
              /\ IdGet(q) = NewId(K[q.currentrow])
              /\ AfterIdGet(q) = [q EXCEPT !.record[q.currentrow].cache[KeyField]
                                           = K[q.currentrow]]
        BY <2>1, <2>2, IdHere
      <4> QED
        BY <1>5, <2>3, <4>1
    <3>2. s.id # NULL => s.cache[KeyField] = k
      BY <1>7 DEF RecordFits
    <3>3. q.record[row] = s
      BY <1>5
    <3>4. s.id # NULL => [q EXCEPT !.record[row].cache[KeyField] = k] = q
      BY <1>2, <1>7, <2>1, <3>2, <3>3, KeyKept
    <3> QED
      BY <3>1, <3>4
  <2>5. obj' = q
    BY <1>4, <1>5, <1>9, <2>4
  <2>6. OnRow(q)
    BY <1>1, <1>2, <1>5, <1>7 DEF OnRow, Changes
  <2>7. Changes(q, o, row, s, k)
    BY <1>1, <1>5 DEF Changes
  <2>8. Queues(c, v, mark, row, s, k)
    <3> DEFINE e == [pos |-> tail, row |-> q.currentrow, field |-> c,
                     value |-> v,
                     type |-> IF q.mode = "INSERT" THEN "INSERT" ELSE "UPDATE",
                     mark |-> mark,
                     id |-> IF q.currentid = NULL THEN NULL ELSE IdGet(q)]
    <3>1. Enqueue(e)
      BY <1>4, <1>9 DEF WriteAdd
    <3>2. /\ e.pos = tail /\ e.row = row /\ e.field = c /\ e.value = v
          /\ e.type = IF s.mode = "INSERT" THEN "INSERT" ELSE "UPDATE"
          /\ e.mark = mark /\ e.id \in {NULL, NewId(k)}
      BY <1>5, <2>4
    <3>3. e \in Write
      BY <1>1, <1>2, <1>5, <2>4, NewIdType DEF Write
    <3>4. e.type = "UPDATE" => s.id # NULL
      BY <1>1, <1>9, <3>2 DEF Modes, Touches
    <3> HIDE DEF e
    <3> QED
      BY <3>1, <3>2, <3>3, <3>4 DEF Queues
  <2> QED
    BY <1>1, <1>5, <2>1, <2>5, <2>6, <2>7, <2>8 DEF Queued
<1> QED
  BY <1>8, <1>9

\* The queue with a write to column c of a row in place of the older one.
Supersedes(e) ==
  /\ \A x \in writequeue' :
       \/ x \in writequeue /\ (x.row # e.row \/ x.field # e.field)
       \/ /\ x.row = e.row /\ x.type = e.type /\ x.field = e.field
          /\ x.value = e.value /\ x.id = e.id /\ x.pos = e.pos
  /\ \A x \in writequeue :
       x.row # e.row \/ x.field # e.field => x \in writequeue'
  /\ \E x \in writequeue' : x.row = e.row /\ x.type = e.type
                            /\ x.field = e.field

\* bonddb_write_add.
LEMMA EnqueueGives ==
  ASSUME QueueOK, ~Deleting, NEW e \in Write, e.type # "DELETE", Enqueue(e)
  PROVE  Supersedes(e)
<1> DEFINE old == {x \in writequeue :
                     /\ HashKey(e) \in DOMAIN writequeuehash
                     /\ x.pos = writequeuehash[HashKey(e)]}
           new == [e EXCEPT !.mark = @ \/ \E x \in old : x.mark]
<1>1. writequeue' = (writequeue \ old) \cup {new}
  BY DEF Enqueue
<1>2. /\ new.row = e.row /\ new.type = e.type /\ new.field = e.field
      /\ new.value = e.value /\ new.id = e.id /\ new.pos = e.pos
  BY DEF Write
<1>3. \A x \in writequeue : x \in Fields(writequeue)
  BY DEF Fields, Deleting
<1>4. ASSUME NEW x \in writequeue
      PROVE  x \in old <=> x.row = e.row /\ x.field = e.field
  <2>1. HashKey(x) = HashKey(e) <=> x.row = e.row /\ x.field = e.field
    BY DEF HashKey
  <2>2. /\ HashKey(x) \in DOMAIN writequeuehash
        /\ writequeuehash[HashKey(x)] = x.pos
    BY <1>3 DEF QueueOK, HashAgrees
  <2>3. x \in old => HashKey(x) = HashKey(e)
    <3> SUFFICES ASSUME x \in old PROVE HashKey(x) = HashKey(e)
      OBVIOUS
    <3>1. PICK y \in Fields(writequeue) : HashKey(e) = HashKey(y)
      BY DEF QueueOK, HashAgrees
    <3>2. writequeuehash[HashKey(y)] = y.pos /\ y \in writequeue
      BY DEF QueueOK, HashAgrees, Fields
    <3>3. x.pos = y.pos
      BY <3>1, <3>2
    <3> QED
      BY <3>1, <3>2, <3>3 DEF QueueOK, HashAgrees
  <2> QED
    BY <2>1, <2>2, <2>3
<1> HIDE DEF old, new
<1> QED
  BY <1>1, <1>2, <1>4 DEF Supersedes

\* A row is changed in the object, and is the same row of the table.
LEMMA ChangedTable ==
  ASSUME Sound(obj), NEW K \in Keys, Table(obj, K), NEW i \in Live(obj), NEW s,
         Changes(obj', obj, i, s, K[i]), UNCHANGED <<db, nextkey>>,
         s.mode = "INSERT" <=> IsInsert(obj, i)
  PROVE  /\ Table(obj, K)' /\ Live(obj') = Live(obj)
         /\ \A j \in Live(obj) : IsInsert(obj', j) <=> IsInsert(obj, j)
<1>1. /\ obj'.record[i] = s /\ s # NULL /\ i \in Row
      /\ \A j \in Row \ {i} : obj'.record[j] = obj.record[j]
  BY ChangesOne, LiveType
<1>2. \A j \in Live(obj) : IsInsert(obj', j) <=> IsInsert(obj, j)
  BY <1>1, LiveType DEF IsInsert
<1>3. Live(obj') = Live(obj) /\ obj'.state = obj.state
  BY DEF Live, Changes
<1> QED
  BY <1>2, <1>3 DEF Table

\* A write to a data column of the row the object is on.
Overwrites(s, r, c, v) ==
  /\ r # NULL /\ (r.id # NULL => s.id = r.id)
  /\ s.mode = IF r.mode = "READ" THEN "UPDATE" ELSE r.mode
  /\ v # NULL => s.cache[c] = v
  /\ \A f \in Col \ {c} : r.cache[f] # NULL => s.cache[f] = r.cache[f]

\* The queue after a write to a data column.
LEMMA SetValueWaits ==
  ASSUME Sound(obj), QueueOK, NEW K \in Keys, Rows(obj, K), Waiting(K),
         ~Deleting, UNCHANGED wrote, wrote = {}, NEW i \in Live(obj), NEW s,
         Changes(obj', obj, i, s, K[i]), NEW c \in Field,
         NEW v, NEW mark \in BOOLEAN,
         Overwrites(s, obj.record[i], c, v), Queued(c, v, mark, i, s, K[i]),
         Careful("newRowAlone") =>
           \A e \in writequeue \ Pending(i) :
             e.type # "INSERT" /\ obj.record[i].mode # "INSERT",
         obj'.currentrecord # NULL
  PROVE  Waiting(K)'
<1>1. /\ obj'.record[i] = s /\ s # NULL /\ i \in Row
      /\ \A j \in Row \ {i} : obj'.record[j] = obj.record[j]
      /\ K[i] \in Key
  BY ChangesOne, LiveType DEF Rows
<1>2. obj'.numrecord = obj.numrecord /\ Live(obj') = Live(obj)
  BY DEF Changes, Live
<1>7. /\ obj.record[i] # NULL /\ (obj.record[i].id # NULL => s.id # NULL)
      /\ s.mode = "INSERT" <=> obj.record[i].mode = "INSERT"
      /\ v # NULL => s.cache[c] = v
      /\ \A f \in Col \ {c} : obj.record[i].cache[f] # NULL =>
           s.cache[f] = obj.record[i].cache[f]
  BY DEF Overwrites
<1>3. ASSUME NEW e \in writequeue, e.row # i \/ e.field # c
      PROVE  EntryFits(e, K)'
  <2>1. EntryFits(e, K) /\ e.row \in Row /\ e.type # "DELETE" /\ e \in Write
    BY DEF Waiting, QueueOK, Write, Deleting
  <2>2. CASE e.row # i
    BY <1>1, <1>2, <2>1, <2>2 DEF EntryFits
  <2>3. CASE e.row = i
    <3>1. e.field # c
      BY <1>3, <2>3
    <3>2. e.field \in Field => e.field \in Col \ {c}
      BY <3>1 DEF Col
    <3> QED
      BY <1>1, <1>2, <1>7, <2>1, <2>3, <3>2 DEF EntryFits
  <2> QED
    BY <2>2, <2>3
<1>6. \A j \in Live(obj) : IsInsert(obj', j) <=> IsInsert(obj, j)
  BY <1>1, <1>7, LiveType DEF IsInsert
<1>4. CASE UNCHANGED queue /\ s.id = NULL /\ s.mode # "INSERT"
  <2>1. \A e \in writequeue : e.row # i
    BY <1>1, <1>4, <1>7 DEF Waiting, EntryFits, QueueOK, Write, Deleting
  <2>2. \A e \in writequeue' : EntryFits(e, K)'
    BY <1>3, <1>4, <2>1 DEF queue
  <2>3. \A e \in writequeue' : e.type # "DELETE"
    BY <1>4 DEF Deleting, queue
  <2> QED
    BY <1>2, <1>4, <1>6, <2>2, <2>3 DEF Waiting, KeyWritten, queue
<1>5. CASE Queues(c, v, mark, i, s, K[i])
  <2>1. PICK e \in Write :
          /\ Enqueue(e) /\ e.pos = tail /\ e.row = i /\ e.field = c
          /\ e.value = v /\ e.id \in {NULL, NewId(K[i])}
          /\ e.type = IF s.mode = "INSERT" THEN "INSERT" ELSE "UPDATE"
          /\ e.type = "UPDATE" => s.id # NULL
    BY <1>5 DEF Queues
  <2>2. Supersedes(e)
    BY <2>1, EnqueueGives
  <2>3. ASSUME NEW x, x.row = e.row, x.type = e.type, x.field = e.field,
               x.value = e.value, x.id = e.id, x.pos = e.pos
        PROVE  EntryFits(x, K)'
    <3>1. x.id # NULL => Selects(x.id) = K[i] /\ ~x.id.freed
      BY <1>1, <2>1, <2>3, NewIdType
    <3>2. i < obj'.numrecord
      BY <1>2, LiveType
    <3>4. x.pos # 0
      BY <2>1, <2>3 DEF QueueOK
    <3>3. /\ x.field \in Field /\ x.field # KeyField /\ x.field # NULL
          /\ x.value \in {NULL, s.cache[c]}
      BY <1>7, <2>1, <2>3, ConstantAssumption DEF Col
    <3> QED
      BY <1>1, <2>1, <2>3, <3>1, <3>2, <3>3, <3>4 DEF EntryFits
  <2>4. \A x \in writequeue' : EntryFits(x, K)' /\ x.type # "DELETE"
    <3> TAKE x \in writequeue'
    <3>1. CASE x \in writequeue /\ (x.row # e.row \/ x.field # e.field)
      BY <1>3, <2>1, <3>1 DEF Deleting
    <3>2. CASE /\ x.row = e.row /\ x.type = e.type /\ x.field = e.field
               /\ x.value = e.value /\ x.id = e.id /\ x.pos = e.pos
      BY <2>1, <2>3, <3>2
    <3> QED
      BY <2>2, <3>1, <3>2 DEF Supersedes
  <2>5. \A j \in Live(obj) : IsInsert(obj', j) => KeyWritten(j)'
    <3> SUFFICES ASSUME NEW j \in Live(obj), IsInsert(obj', j)
                 PROVE  KeyWritten(j)'
      OBVIOUS
    <3>1. PICK x \in writequeue :
            x.row = j /\ x.type = "INSERT" /\ x.field = KeyField
      BY <1>6 DEF Waiting, KeyWritten
    <3>2. x \in writequeue'
      BY <2>1, <2>2, <3>1, ConstantAssumption DEF Supersedes
    <3> QED
      BY <3>1, <3>2 DEF KeyWritten
  <2>6. Careful("newRowAlone") =>
          \A x, y \in writequeue' : x.type = "INSERT" => y.row = x.row
    <3> SUFFICES ASSUME Careful("newRowAlone"), NEW x \in writequeue',
                        NEW y \in writequeue', x.type = "INSERT"
                 PROVE  y.row = i /\ x.row = i
      OBVIOUS
    <3>1. x.row = i
      BY <2>1, <2>2 DEF Supersedes, Pending
    <3>2. \A z \in writequeue : z.row # i => obj.record[i].mode # "INSERT"
      BY DEF Pending
    <3>3. CASE x \in writequeue
      BY <2>1, <2>2, <3>1, <3>3 DEF Supersedes, Waiting
    <3>4. CASE x \notin writequeue
      <4>1. s.mode = "INSERT"
        BY <2>1, <2>2, <3>4 DEF Supersedes
      <4> QED
        BY <1>7, <2>1, <2>2, <3>1, <3>2, <4>1 DEF Supersedes
    <3> QED
      BY <3>1, <3>3, <3>4
  <2> QED
    BY <1>2, <2>4, <2>5, <2>6 DEF Waiting
<1> QED
  BY <1>4, <1>5 DEF Queued

\* A value is put in the cache of the record the object is on.
LEMMA CachedGives ==
  ASSUME NEW o, Sound(o), NEW K \in Keys, Rows(o, K), Modes(o), Unkeyed(o),
         Fetched(o, K), OnRow(o), Usable(o), NEW c \in Field,
         NEW v \in Value \cup {NULL}
  PROVE  LET q == Cached(o, c, v)
             row == o.currentrow
             r == o.record[row]
             s == q.record[row]
         IN  /\ Rows(q, K) /\ Modes(q) /\ Unkeyed(q) /\ Fetched(q, K)
             /\ Sound(q) /\ Writable(q) /\ Changes(q, o, row, s, K[row])
             /\ q.currentrow = row /\ q.noprimarykey = o.noprimarykey
             /\ s.mode = r.mode /\ s.id = r.id /\ (v # NULL => s.cache[c] = v)
             /\ \A f \in Col \ {c} : s.cache[f] = r.cache[f]
<1> DEFINE q == Cached(o, c, v)
           row == o.currentrow
           r == o.record[row]
           s == q.record[row]
<1>1. /\ row \in Live(o) /\ row \in Row /\ r \in Record /\ r # NULL
      /\ row < o.numrecord /\ o.currentrecord = row /\ r.mode = o.mode
  BY LiveType DEF OnRow
<1>2. RecordFits(r, K[row]) /\ r.cache \in Cache
  BY <1>1 DEF Rows, Record
<1>3. c \in Col /\ c # KeyField /\ v \in Datum \cup {NULL}
  BY ConstantAssumption DEF Col, Datum
<1>4. /\ q.record = [o.record EXCEPT ![row] = s] /\ s \in Record
      /\ q.numrecord = o.numrecord /\ q.state = o.state /\ q.res = o.res
      /\ q.noprimarykey = o.noprimarykey /\ q.currentrow = row
      /\ q.currentrecord = row /\ q.mode = o.mode /\ q.currentid = o.currentid
      /\ s.mode = r.mode /\ s.id = r.id /\ (v # NULL => s.cache[c] = v)
      /\ \A f \in Col \ {c} : s.cache[f] = r.cache[f]
  <2>1. CASE v = NULL
    <3>1. q = o
      BY <2>1 DEF Cached
    <3> QED
      BY <1>1, <2>1, <3>1, LiveType
  <2>2. CASE v # NULL
    <3> DEFINE z == [r EXCEPT !.cache[c] = v]
    <3>1. q = [o EXCEPT !.record[row].cache[c] = v]
      BY <2>2 DEF Cached
    <3>2. /\ q.record = [o.record EXCEPT ![row] = z]
          /\ q.numrecord = o.numrecord /\ q.state = o.state /\ q.res = o.res
          /\ q.noprimarykey = o.noprimarykey /\ q.currentrow = row
          /\ q.currentrecord = row /\ q.mode = o.mode /\ q.currentid = o.currentid
      BY <1>1, <3>1 DEF Sound, Object
    <3>3. /\ z \in Record /\ z.mode = r.mode /\ z.id = r.id
          /\ z.cache = [r.cache EXCEPT ![c] = v]
      <4>1. [r.cache EXCEPT ![c] = v] \in Cache
        BY <1>2, <1>3, CacheWrite
      <4> QED
        BY <1>1, <4>1 DEF Record
    <3>4. z.cache[c] = v /\ \A f \in Col \ {c} : z.cache[f] = r.cache[f]
      BY <1>2, <1>3, <3>3 DEF Cache
    <3> HIDE DEF z, q
    <3>5. s = z
      BY <1>1, <3>2, LiveType
    <3> QED
      BY <3>2, <3>3, <3>4, <3>5
  <2> QED
    BY <2>1, <2>2
<1>5. Sound(q)
  BY <1>1, <1>3, CachedType
<1> HIDE DEF q
<1>6. RecordFits(s, K[row])
  <2>1. s.cache[KeyField] = r.cache[KeyField]
    BY <1>3, <1>4 DEF Col
  <2> QED
    BY <1>2, <1>4, <2>1 DEF RecordFits
<1>7. Changes(q, o, row, s, K[row])
  BY <1>1, <1>4, <1>6 DEF Changes, IsNew
<1>8. Rows(q, K) /\ Modes(q) /\ Fetched(q, K)
  BY <1>1, <1>7, RecordChange
<1>9. /\ s # NULL /\ \A j \in Row \ {row} : q.record[j] = o.record[j]
      /\ \A j \in Row : IsNew(q, j) <=> IsNew(o, j)
  BY <1>1, <1>7, ChangesOne
<1>10. Unkeyed(q)
  <2>1. Stuck(q, row) <=> Stuck(o, row)
    BY <1>1, <1>4, <1>9 DEF Stuck
  <2>2. Live(o) \subseteq Row
    BY LiveType
  <2>3. IsNew(q, row) /\ ~o.noprimarykey => ~Stuck(q, row)
    BY <1>1, <1>9, <2>1 DEF Unkeyed
  <2> QED
    BY <1>1, <1>4, <1>9, <2>1, <2>2, <2>3, RecordRekeyed
<1>11. Writable(q)
  <2>1. At(q)
    BY <1>1, <1>4, <1>9 DEF At
  <2>2. Usable(q)
    BY <1>1, <1>4, ConstantAssumption DEF Usable
  <2>3. o.res = NULL => o.currentid = r.id
    BY DEF OnRow
  <2> QED
    BY <1>1, <1>4, <2>1, <2>2, <2>3 DEF Writable
<1> QED
  BY <1>4, <1>5, <1>7, <1>8, <1>10, <1>11 DEF q

\* bonddb_setvalue.
LEMMA SetValueCareful ==
  ASSUME CarefulUse, IInv, NEW K \in Keys, CarefulInvOf(K), NEW c \in Col,
         NEW v \in Datum \cup {NULL}, NEW mark \in BOOLEAN, SetValue(c, v, mark)
  PROVE  CarefulInvOf(K)'
<1> DEFINE row == obj.currentrow
           q == Cached(obj, c, v)
           r == obj.record[row]
           z == q.record[row]
           s == obj'.record[row]
<1>1. /\ Calm /\ Usable(obj) /\ Settable(c, v, mark)
      /\ Careful("newRowAlone") =>
           \A e \in writequeue \ Pending(obj.currentrow) :
             e.type # "INSERT" /\ obj.mode # "INSERT"
      /\ UNCHANGED <<db, fails, others, saving>>
      /\ nextkey' = IF c = KeyField THEN nextkey + 1 ELSE nextkey
  BY DEF SetValue
<1>2. /\ Sound(obj) /\ QueueOK /\ pc = "idle" /\ Rows(obj, K) /\ Modes(obj)
      /\ Unkeyed(obj) /\ Table(obj, K) /\ Fetched(obj, K) /\ Waiting(K)
      /\ ~Deleting /\ Cursor(obj) /\ wrote = {}
  BY <1>1, CalmState
<1>3. OnRow(obj)
  BY <1>1, <1>2 DEF Usable, Cursor, OnNone
<1>4. /\ row \in Row /\ row \in Live(obj) /\ r \in Record /\ r # NULL
      /\ r.mode = obj.mode /\ obj.currentrecord # Freed
  BY <1>2, <1>3, LiveType, ConstantAssumption DEF OnRow
<1>5. c \in Field /\ c # KeyField /\ v \in Value \cup {NULL}
  BY <1>1, Rules, ConstantAssumption DEF Settable, Col
<1>6. Write1(Identified(Touched(q)), c, v, mark) /\ UNCHANGED fault
  BY <1>4 DEF SetValue
<1>7. /\ Rows(q, K) /\ Modes(q) /\ Unkeyed(q) /\ Fetched(q, K)
      /\ Sound(q) /\ Writable(q) /\ Changes(q, obj, row, z, K[row])
      /\ q.currentrow = row /\ q.noprimarykey = obj.noprimarykey
      /\ z.mode = r.mode /\ z.id = r.id /\ (v # NULL => z.cache[c] = v)
      /\ \A f \in Col \ {c} : z.cache[f] = r.cache[f]
  BY <1>2, <1>1, <1>3, <1>5, CachedGives
<1> HIDE DEF q
<1>8. /\ Changes(obj', q, row, s, K[row]) /\ Unkeyed(obj')
      /\ Touches(s, z, q) /\ OnRow(obj')
      /\ obj'.currentrow = row /\ obj'.noprimarykey = q.noprimarykey
      /\ Queued(c, v, mark, row, s, K[row])
  <2>1. tail \in Nat
    BY <1>2 DEF QueueOK
  <2> QED
    BY <1>6, <1>7, <2>1, WriteGives
<1>9. Changes(obj', obj, row, s, K[row])
  <2>1. [[obj.record EXCEPT ![row] = z] EXCEPT ![row] = s]
           = [obj.record EXCEPT ![row] = s]
    BY <1>2, <1>4, LiveType
  <2>2. s.mode \in Inserting <=> IsNew(obj, row)
    BY <1>4, <1>7, <1>8 DEF IsNew, Touches, Inserting
  <2> QED
    BY <1>7, <1>8, <2>1, <2>2 DEF Changes
<1>10. Rows(obj', K) /\ Modes(obj') /\ Fetched(obj', K)
  BY <1>2, <1>4, <1>9, RecordChange
<1>11. s.mode = IF r.mode = "READ" THEN "UPDATE" ELSE r.mode
  BY <1>7, <1>8 DEF Touches
<1>12. Table(obj, K)'
  <2>1. s.mode = "INSERT" <=> IsInsert(obj, row)
    BY <1>4, <1>11 DEF IsInsert
  <2>2. UNCHANGED <<db, nextkey>>
    BY <1>1, <1>5
  <2> QED
    BY <1>2, <1>4, <1>9, <2>1, <2>2, ChangedTable
<1>13. Waiting(K)'
  <2>1. obj'.currentrecord # NULL
    BY <1>4, <1>8, ConstantAssumption DEF OnRow
  <2>2. Overwrites(s, r, c, v)
    <3>1. /\ r.id # NULL => s.id = r.id
          /\ v # NULL => s.cache[c] = v
          /\ \A f \in Col \ {c} : r.cache[f] # NULL => s.cache[f] = r.cache[f]
      BY <1>5, <1>7, <1>8 DEF Touches, Col
    <3> QED
      BY <1>4, <1>11, <3>1 DEF Overwrites
  <2>3. UNCHANGED wrote
    BY <1>1 DEF saving
  <2>4. Careful("newRowAlone") =>
           \A e \in writequeue \ Pending(row) :
             e.type # "INSERT" /\ r.mode # "INSERT"
    BY <1>1, <1>4
  <2> HIDE DEF s, r, row
  <2> QED
    BY <1>2, <1>4, <1>5, <1>8, <1>9, <1>11, <2>1, <2>2, <2>3, <2>4, SetValueWaits
    DEF s, r
<1> QED
  BY <1>1, <1>2, <1>6, <1>8, <1>10, <1>12, <1>13, CallKeeps DEF Cursor

\* A new row at the end of the array, with its key in the cache.
New(q) ==
  LET n == obj.numrecord IN
  /\ q.record = [obj.record EXCEPT ![n] = q.record[n]]
  /\ q.numrecord = n + 1 /\ q.state = obj.state /\ q.res = obj.res
  /\ q.noprimarykey = obj.noprimarykey /\ q.currentrow = n
  /\ q.currentrecord = n /\ q.mode = "INSERT"
  /\ q.record[n] \in Record /\ q.record[n].mode = "INSERT"
  /\ q.record[n].id = NULL /\ q.record[n].cache[KeyField] = nextkey

\* bonddb_add, up to the write of the key.
LEMMA AddPrepares ==
  ASSUME CarefulUse, IInv, NEW K \in Keys, CarefulInvOf(K), Add
  PROVE  \E q : /\ Sound(q) /\ New(q) /\ obj.numrecord \in Row
                /\ nextkey \in Key /\ nextkey' = nextkey + 1
                /\ Write1(Identified(Touched(q)), KeyField, nextkey, FALSE)
<1> DEFINE n == obj.numrecord
           o == [obj EXCEPT !.mode = "INSERT", !.currentrow = n,
                            !.numrecord = n + 1]
           new == [Populate(o, n) EXCEPT !.currentrecord = n]
           q == Cached(new, KeyField, nextkey)
           b == BlankRecord("INSERT")
<1>1. /\ nextkey \in Key /\ nextkey' = nextkey + 1 /\ Calm /\ n < MaxRow
      /\ Write1(Identified(Touched(q)), KeyField, nextkey, FALSE)
  BY Rules DEF Add
<1>2. Sound(obj) /\ Rows(obj, K)
  BY <1>1, CalmState
<1>3. n \in Nat /\ n \in Row
  BY <1>1, <1>2, LiveType, ConstantAssumption DEF Row
<1>13. n + 1 \in 0..MaxRow
  BY <1>1, <1>3, ConstantAssumption
<1>4. /\ o \in Object /\ o.record = obj.record /\ o.numrecord = n + 1
      /\ o.state = obj.state /\ o.res = obj.res /\ o.currentrow = n
      /\ o.noprimarykey = obj.noprimarykey /\ o.mode = "INSERT"
  BY <1>2, <1>3, <1>13 DEF Sound, Object, Mode
<1>5. o.record[n] = NULL
  BY <1>2, <1>3, <1>4 DEF Rows
<1>6. b \in Record /\ b.mode = "INSERT" /\ b.id = NULL
  BY BlankType DEF Mode, BlankRecord
<1> HIDE DEF o
<1>7. new = [[o EXCEPT !.record[n] = b] EXCEPT !.currentrecord = n]
  <2>1. o.numrecord > 0
    BY <1>3, <1>4
  <2>2. Populate(o, n) = [o EXCEPT !.record[n] = b]
    BY <1>4, <1>5, <2>1 DEF Populate
  <2> HIDE DEF b
  <2> QED
    BY <2>2
<1> HIDE DEF b
<1>8. /\ new.record = [obj.record EXCEPT ![n] = b] /\ new.numrecord = n + 1
      /\ new.state = obj.state /\ new.res = obj.res /\ new.currentrow = n
      /\ new.currentrecord = n /\ new.noprimarykey = obj.noprimarykey
      /\ new.mode = "INSERT" /\ new \in Object
  <2> DEFINE m == [o EXCEPT !.record[n] = b]
  <2>1. m \in Object
    BY <1>3, <1>4, <1>6, PlaceRecord
  <2>2. /\ m.record = [obj.record EXCEPT ![n] = b] /\ m.numrecord = n + 1
        /\ m.state = obj.state /\ m.res = obj.res /\ m.currentrow = n
        /\ m.noprimarykey = obj.noprimarykey /\ m.mode = "INSERT"
    BY <1>4 DEF Object
  <2>3. new = [m EXCEPT !.currentrecord = n]
    BY <1>7
  <2> HIDE DEF m
  <2> QED
    BY <1>3, <2>1, <2>2, <2>3 DEF Object
<1> HIDE DEF new
<1>9. Sound(new) /\ new.record[n] = b
  BY <1>2, <1>3, <1>6, <1>8, LiveType, NullAssumption DEF Sound
<1>10. nextkey # NULL /\ nextkey \in Datum \cup {NULL} /\ KeyField \in Col
  BY <1>1, KeyType DEF Datum, Col
<1>11. Sound(q)
  BY <1>1, <1>6, <1>8, <1>9, <1>10, CachedType
<1>12. New(q)
  <2> DEFINE z == [b EXCEPT !.cache[KeyField] = nextkey]
  <2>1. q = [new EXCEPT !.record[n].cache[KeyField] = nextkey]
    BY <1>8, <1>10 DEF Cached
  <2>2. /\ q.record = [new.record EXCEPT ![n].cache[KeyField] = nextkey]
        /\ q.numrecord = n + 1 /\ q.state = obj.state /\ q.res = obj.res
        /\ q.noprimarykey = obj.noprimarykey /\ q.currentrow = n
        /\ q.currentrecord = n /\ q.mode = "INSERT"
    BY <1>8, <2>1 DEF Object
  <2>3. /\ z \in Record /\ z.mode = "INSERT" /\ z.id = NULL
        /\ z.cache[KeyField] = nextkey
    <3>1. /\ [b.cache EXCEPT ![KeyField] = nextkey] \in Cache
          /\ b.cache \in Cache
      BY <1>1, <1>6, <1>10, CacheWrite DEF Record
    <3> QED
      BY <1>6, <1>10, <3>1 DEF Record, Cache
  <2>4. q.record = [new.record EXCEPT ![n] = z]
    BY <1>9, <2>2
  <2> HIDE DEF z, q
  <2>5. q.record = [obj.record EXCEPT ![n] = z] /\ q.record[n] = z
    BY <1>2, <1>3, <1>8, <2>4, LiveType
  <2> QED
    BY <2>2, <2>3, <2>5 DEF New
<1> HIDE DEF q
<1> QED
  BY <1>1, <1>3, <1>11, <1>12

\* The row of the next key comes after the others.
LEMMA NewGives ==
  ASSUME Sound(obj), NEW K \in Keys, Rows(obj, K), Modes(obj), Unkeyed(obj),
         Fetched(obj, K), Table(obj, K), obj.numrecord \in Row,
         nextkey \in Key, NEW q, Sound(q), New(q)
  PROVE  LET L == [K EXCEPT ![obj.numrecord] = nextkey] IN
         /\ L \in Keys /\ L[obj.numrecord] = nextkey
         /\ \A i \in Live(obj) : L[i] = K[i]
         /\ Rows(q, L) /\ Modes(q) /\ Unkeyed(q) /\ Fetched(q, L)
         /\ Writable(q)
<1> DEFINE n == obj.numrecord
           L == [K EXCEPT ![n] = nextkey]
           z == q.record[n]
<1>1. /\ n \in Nat /\ \A i : i \in Live(obj) <=> i \in Row /\ i < n
      /\ Row \subseteq Nat /\ n < MaxRow
      /\ \A i \in Live(obj) : i \in Nat /\ i < n /\ ~(n < i)
  <2>1. /\ n \in Nat /\ Row \subseteq Nat /\ n < MaxRow
        /\ \A i : i \in Live(obj) <=> i \in Row /\ i < n
    BY LiveType, ConstantAssumption DEF Row
  <2>2. ASSUME NEW i \in Live(obj) PROVE i \in Nat /\ i < n /\ ~(n < i)
    <3>1. i \in Nat /\ i < n
      BY <2>1
    <3> QED
      BY <2>1, <3>1
  <2> QED
    BY <2>1, <2>2
<1>2. L \in Keys /\ L[n] = nextkey /\ \A i \in Live(obj) : L[i] = K[i]
  BY <1>1, ConstantAssumption DEF Keys, Key
<1>3. \A i : i \in Live(q) <=> i \in Live(obj) \/ i = n
  <2>1. \A i : i \in Live(q) <=> i \in Row /\ i < n + 1
    BY LiveType DEF New
  <2>2. \A i \in Row : i < n + 1 <=> i < n \/ i = n
    BY <1>1
  <2> QED
    BY <1>1, <2>1, <2>2
<1>4. /\ q.record[n] = z /\ z # NULL /\ z \in Record /\ z.mode = "INSERT"
      /\ z.id = NULL /\ z.cache[KeyField] = nextkey
      /\ \A j \in Row \ {n} : q.record[j] = obj.record[j]
  BY LiveType, NullAssumption DEF New
<1>5. /\ IsNew(q, n) /\ ~Stuck(q, n)
      /\ \A j \in Live(obj) : /\ q.record[j] = obj.record[j]
                              /\ IsNew(q, j) <=> IsNew(obj, j)
                              /\ Stuck(q, j) <=> Stuck(obj, j)
  <2>1. \A j \in Live(obj) : q.record[j] = obj.record[j]
    BY <1>1, <1>4
  <2> QED
    BY <1>4, <2>1 DEF IsNew, Stuck, Inserting
<1> HIDE DEF L, z
<1>6. Rows(q, L)
  <2>1. \A i \in Row : i >= q.numrecord => q.record[i] = NULL
    BY <1>1, <1>4 DEF Rows, New
  <2>2. \A i \in Live(q) : L[i] \in Key
    BY <1>2, <1>3 DEF Rows
  <2>3. \A i \in Live(q) : q.record[i] # NULL => RecordFits(q.record[i], L[i])
    <3>1. RecordFits(z, nextkey)
      BY <1>4, KeyType DEF RecordFits
    <3> QED
      BY <1>2, <1>3, <1>4, <1>5, <3>1 DEF Rows
  <2>4. \A i, j \in Live(q) : i < j => L[i] < L[j]
    <3>1. \A i \in Live(obj) : ~(n < i) /\ K[i] < nextkey
      <4>1. \A i \in Live(obj) : K[i] < nextkey
        BY DEF Table
      <4> QED
        BY <1>1, <4>1
    <3>2. \A i, j \in Live(obj) : i < j => K[i] < K[j]
      BY DEF Rows
    <3>3. ~(n < n)
      BY <1>1
    <3> QED
      BY <1>2, <1>3, <3>1, <3>2, <3>3
  <2>5. \A i, j \in Live(q) : i < j /\ IsNew(q, i) => IsNew(q, j)
    <3>1. \A i \in Live(obj) : ~(n < i)
      BY <1>1
    <3>2. \A i, j \in Live(obj) : i < j /\ IsNew(obj, i) => IsNew(obj, j)
      BY DEF Rows
    <3> QED
      BY <1>3, <1>5, <3>1, <3>2
  <2> QED
    BY <2>1, <2>2, <2>3, <2>4, <2>5 DEF Rows
<1>7. Modes(q)
  BY <1>3, <1>5 DEF Modes, New
<1>8. Unkeyed(q)
  BY <1>3, <1>5 DEF Unkeyed, New
<1>9. Fetched(q, L)
  BY <1>2, <1>3, <1>5 DEF Fetched, New
<1>10. Writable(q)
  <2>1. At(q)
    BY <1>1, <1>4 DEF At, New
  <2>2. Usable(q)
    BY <1>1, <1>7, ConstantAssumption DEF Usable, New, Modes, Inserting
  <2> QED
    BY <1>4, <2>1, <2>2 DEF Writable, New
<1> QED
  BY <1>2, <1>6, <1>7, <1>8, <1>9, <1>10 DEF L

\* bonddb_add.
LEMMA AddCareful ==
  ASSUME CarefulUse, IInv, NEW K \in Keys, CarefulInvOf(K), Add
  PROVE  CarefulInv'
<1> DEFINE n == obj.numrecord
           s == obj'.record[n]
<1>1. /\ Calm /\ (Careful("newRowAlone") => writequeue = {})
      /\ UNCHANGED <<db, saving, fault>>
  BY DEF Add
<1>2. /\ Sound(obj) /\ QueueOK /\ pc = "idle" /\ Rows(obj, K) /\ Modes(obj)
      /\ Unkeyed(obj) /\ Table(obj, K) /\ Fetched(obj, K) /\ Waiting(K)
      /\ ~Deleting /\ wrote = {}
  BY <1>1, CalmState
<1>3. PICK q : /\ Sound(q) /\ New(q) /\ n \in Row /\ nextkey \in Key
               /\ nextkey' = nextkey + 1
               /\ Write1(Identified(Touched(q)), KeyField, nextkey, FALSE)
  BY AddPrepares
<1>4. PICK L \in Keys :
        /\ L[n] = nextkey /\ \A i \in Live(obj) : L[i] = K[i]
        /\ Rows(q, L) /\ Modes(q) /\ Unkeyed(q) /\ Fetched(q, L) /\ Writable(q)
  BY <1>2, <1>3, NewGives
<1>5. /\ q.currentrow = n /\ q.record[n].mode = "INSERT"
      /\ q.record[n].cache[KeyField] = nextkey
      /\ q.numrecord = n + 1 /\ q.state = obj.state
      /\ q.record = [obj.record EXCEPT ![n] = q.record[n]]
  BY <1>3 DEF New
<1>6. /\ tail \in Nat /\ KeyField \in Col /\ nextkey \in Datum \cup {NULL}
      /\ nextkey # NULL /\ nextkey \in Nat
  BY <1>2, <1>3, KeyType DEF QueueOK, Col, Datum
<1>7. /\ Changes(obj', q, n, s, L[n]) /\ Unkeyed(obj')
      /\ Touches(s, q.record[n], q) /\ OnRow(obj') /\ obj'.currentrow = n
      /\ Queued(KeyField, nextkey, FALSE, n, s, L[n])
  BY <1>3, <1>4, <1>5, <1>6, WriteGives
<1>8. /\ \A i : i \in Live(q) <=> i \in Live(obj) \/ i = n
      /\ n \notin Live(obj) /\ \A i \in Live(obj) : i \in Row /\ i # n
  <2>1. /\ \A i : i \in Live(q) <=> i \in Row /\ i < n + 1
        /\ \A i : i \in Live(obj) <=> i \in Row /\ i < n
        /\ Row \subseteq Nat /\ n \in Nat
    BY <1>2, <1>3, <1>5, LiveType
  <2>2. \A i \in Row : /\ i < n + 1 <=> i < n \/ i = n
                       /\ ~(n < n)
    BY <2>1
  <2> QED
    BY <1>3, <2>1, <2>2
<1>9. Rows(obj', L) /\ Modes(obj') /\ Fetched(obj', L)
  BY <1>3, <1>4, <1>7, <1>8, RecordChange
<1>10. /\ obj'.record[n] = s /\ s # NULL
       /\ \A j \in Row \ {n} : obj'.record[j] = q.record[j]
  BY <1>3, <1>7, <1>8, ChangesOne
<1>11. /\ s.mode = "INSERT" /\ s.cache[KeyField] = nextkey
       /\ obj'.numrecord = n + 1 /\ obj'.state = obj.state
  BY <1>5, <1>6, <1>7 DEF Touches, Changes
<1>12. \A i \in Live(obj) : /\ obj'.record[i] = obj.record[i]
                            /\ IsInsert(obj', i) <=> IsInsert(obj, i)
  <2>1. \A i \in Live(obj) : obj'.record[i] = obj.record[i]
    BY <1>2, <1>5, <1>8, <1>10, LiveType
  <2> QED
    BY <2>1 DEF IsInsert
<1>13. IsInsert(obj', n) /\ \A i : i \in Live(obj') <=> i \in Live(obj) \/ i = n
  <2>1. Live(obj') = Live(q)
    BY <1>5, <1>11 DEF Live
  <2> QED
    BY <1>8, <1>10, <1>11, <2>1 DEF IsInsert
<1>14. Table(obj, L)'
  <2>1. db[nextkey] = NULL
    BY <1>2, <1>3, <1>6 DEF Table
  <2>2. \A k \in Key : db'[k] # NULL => k < nextkey'
    BY <1>1, <1>2, <1>3, <1>6, KeyType DEF Table
  <2>3. \A i \in Live(obj') : L[i] < nextkey'
    BY <1>2, <1>3, <1>4, <1>6, <1>8, <1>13, KeyType DEF Table
  <2>4. \A i \in Live(obj') : db'[L[i]] = NULL <=> IsInsert(obj', i)
    BY <1>1, <1>2, <1>4, <1>12, <1>13, <2>1 DEF Table
  <2>5. obj'.state = "READ_RAW" =>
          \A k \in Key : db'[k] # NULL => \E i \in Live(obj') : L[i] = k
    BY <1>1, <1>2, <1>4, <1>11, <1>13 DEF Table
  <2> QED
    BY <2>2, <2>3, <2>4, <2>5 DEF Table
<1>15. Waiting(L)'
  <2>1. PICK e \in Write :
          /\ Enqueue(e) /\ e.pos = tail /\ e.row = n /\ e.field = KeyField
          /\ e.value = nextkey /\ e.id \in {NULL, NewId(L[n])}
          /\ e.type = "INSERT"
    BY <1>7, <1>11 DEF Queued, Queues
  <2>2. Supersedes(e)
    BY <1>2, <2>1, EnqueueGives
  <2>3. ASSUME NEW x \in writequeue PROVE EntryFits(x, L)' /\ x.type # "DELETE"
    <3>1. EntryFits(x, K) /\ x.row \in Row /\ x.type # "DELETE"
      BY <1>2 DEF Waiting, QueueOK, Write, Deleting
    <3>2. x.row < n /\ x.row \in Live(obj)
      BY <1>2, <3>1, LiveType DEF EntryFits
    <3>3. obj'.record[x.row] = obj.record[x.row] /\ L[x.row] = K[x.row]
      BY <1>4, <1>12, <3>2
    <3>4. x.row < obj'.numrecord
      BY <1>2, <1>11, <3>1, <3>2, LiveType
    <3> QED
      BY <1>1, <3>1, <3>3, <3>4 DEF EntryFits, saving
  <2>4. ASSUME NEW x, x.row = e.row, x.type = e.type, x.field = e.field,
               x.value = e.value, x.id = e.id, x.pos = e.pos
        PROVE  EntryFits(x, L)' /\ x.type # "DELETE"
    <3>1. x.id # NULL => Selects(x.id) = L[n] /\ ~x.id.freed
      BY <1>3, <1>4, <2>1, <2>4, NewIdType
    <3>2. /\ n < obj'.numrecord /\ x.pos # 0
          /\ KeyField \notin Field /\ KeyField # NULL
      BY <1>2, <1>6, <1>11, <2>1, <2>4, LiveType, ConstantAssumption
      DEF QueueOK
    <3> QED
      BY <1>4, <1>10, <1>11, <2>1, <2>4, <3>1, <3>2 DEF EntryFits
  <2>5. \A x \in writequeue' : EntryFits(x, L)' /\ x.type # "DELETE"
    BY <2>2, <2>3, <2>4 DEF Supersedes
  <2>6. \A j \in Live(obj') : IsInsert(obj', j) => KeyWritten(j)'
    <3>1. ASSUME NEW j, j = n PROVE KeyWritten(j)'
      BY <2>1, <2>2, <3>1 DEF Supersedes, KeyWritten
    <3>2. ASSUME NEW j \in Live(obj), IsInsert(obj', j) PROVE KeyWritten(j)'
      <4>1. PICK x \in writequeue :
              x.row = j /\ x.type = "INSERT" /\ x.field = KeyField
        BY <1>2, <1>12, <3>2 DEF Waiting, KeyWritten
      <4>2. x \in writequeue'
        BY <1>8, <2>1, <2>2, <4>1 DEF Supersedes
      <4> QED
        BY <4>1, <4>2 DEF KeyWritten
    <3> QED
      BY <1>13, <3>1, <3>2
  <2>7. Careful("newRowAlone") =>
          \A x, y \in writequeue' : x.type = "INSERT" => y.row = x.row
    BY <1>1, <2>2 DEF Supersedes
  <2>8. obj'.currentrecord # NULL
    BY <1>3, <1>7, ConstantAssumption DEF OnRow
  <2> QED
    BY <2>5, <2>6, <2>7, <2>8 DEF Waiting
<1>16. CarefulInvOf(L)'
  BY <1>1, <1>2, <1>4, <1>7, <1>9, <1>14, <1>15, CallKeeps DEF Cursor
<1> QED
  BY <1>4, <1>16 DEF CarefulInv

\* bonddb_forcemark.
LEMMA ForceMarkCareful ==
  ASSUME CarefulUse, IInv, NEW K \in Keys, CarefulInvOf(K), ForceMark
  PROVE  CarefulInvOf(K)'
<1>1. /\ Calm /\ writequeue' = {[e EXCEPT !.mark = TRUE] : e \in writequeue}
      /\ UNCHANGED <<backend, obj, saving, fault>>
  BY DEF ForceMark
<1>2. /\ Sound(obj) /\ QueueOK /\ pc = "idle" /\ Rows(obj, K) /\ Modes(obj)
      /\ Unkeyed(obj) /\ Table(obj, K) /\ Fetched(obj, K) /\ Waiting(K)
      /\ ~Deleting /\ Cursor(obj)
  BY <1>1, CalmState
<1>3. ASSUME NEW e \in writequeue
      PROVE  LET x == [e EXCEPT !.mark = TRUE] IN
             /\ x.row = e.row /\ x.type = e.type /\ x.field = e.field
             /\ x.value = e.value /\ x.id = e.id /\ x.pos = e.pos
  BY <1>2 DEF QueueOK, Write
<1>4. /\ \A x \in writequeue' : \E e \in writequeue :
           /\ x.row = e.row /\ x.type = e.type /\ x.field = e.field
           /\ x.value = e.value /\ x.id = e.id /\ x.pos = e.pos
      /\ \A e \in writequeue : \E x \in writequeue' :
           /\ x.row = e.row /\ x.type = e.type /\ x.field = e.field
  BY <1>1, <1>3
<1>5. Waiting(K)'
  <2>1. ASSUME NEW x \in writequeue'
        PROVE  EntryFits(x, K)' /\ x.type # "DELETE" /\ obj'.currentrecord # NULL
    <3>1. PICK e \in writequeue :
            /\ x.row = e.row /\ x.type = e.type /\ x.field = e.field
            /\ x.value = e.value /\ x.id = e.id /\ x.pos = e.pos
      BY <1>4
    <3>2. EntryFits(e, K) /\ e.type # "DELETE" /\ obj.currentrecord # NULL
      BY <1>2 DEF Waiting, Deleting
    <3> QED
      BY <1>1, <3>1, <3>2 DEF EntryFits, saving
  <2>2. ASSUME NEW i \in Live(obj'), IsInsert(obj', i) PROVE KeyWritten(i)'
    <3>1. PICK e \in writequeue :
            e.row = i /\ e.type = "INSERT" /\ e.field = KeyField
      BY <1>1, <1>2, <2>2 DEF Waiting, KeyWritten
    <3> QED
      BY <1>4, <3>1 DEF KeyWritten
  <2>3. Careful("newRowAlone") =>
          \A x, y \in writequeue' : x.type = "INSERT" => y.row = x.row
    BY <1>2, <1>4 DEF Waiting
  <2> QED
    BY <2>1, <2>2, <2>3 DEF Waiting
<1>6. Table(obj, K)'
  BY <1>1, <1>2 DEF Table, backend
<1> QED
  BY <1>1, <1>2, <1>5, <1>6, CallKeeps

\* bonddb_abortsave.
LEMMA AbortSaveCareful ==
  ASSUME CarefulUse, IInv, NEW K \in Keys, CarefulInvOf(K), AbortSave
  PROVE  CarefulInvOf(K)'
<1>1. /\ Idle /\ writequeue' = {} /\ UNCHANGED <<backend, obj, saving, fault>>
      /\ \A e \in writequeue : e.type # "INSERT"
  BY Rules DEF AbortSave, Leave
<1>2. /\ pc = "idle" /\ Rows(obj, K) /\ Modes(obj) /\ Cursor(obj)
      /\ Unkeyed(obj) /\ Table(obj, K) /\ Fetched(obj, K) /\ Waiting(K)
  BY <1>1, IdleState
<1>3. Waiting(K)'
  <2>1. \A i \in Live(obj) : ~IsInsert(obj, i)
    BY <1>1, <1>2 DEF Waiting, KeyWritten
  <2> QED
    BY <1>1, <2>1 DEF Waiting
<1>4. Table(obj, K)'
  BY <1>1, <1>2 DEF Table, backend
<1> QED
  BY <1>1, <1>2, <1>3, <1>4, CallKeeps

\* bonddb_save: no entry has been visited yet.
LEMMA SaveCareful ==
  ASSUME CarefulUse, IInv, NEW K \in Keys, CarefulInvOf(K), Save
  PROVE  CarefulInvOf(K)'
<1>1. /\ Idle /\ pc' = "saving" /\ \A e \in Fields(writequeue) : Marked(Group(e)) # {}
      /\ UNCHANGED <<backend, obj, queue, walk, wrote, corrupt, fault>>
  BY Rules DEF Save
<1>2. /\ pc = "idle" /\ Rows(obj, K) /\ Modes(obj) /\ Cursor(obj) /\ fault = "none"
      /\ Unkeyed(obj) /\ Table(obj, K) /\ Fetched(obj, K) /\ Waiting(K)
      /\ wrote = {} /\ walk = 0 /\ ~corrupt /\ QueueOK
  BY <1>1, IdleState
<1>3. Under(K)'
  <2>1. \A e \in Fields(writequeue) : ~(e.pos <= 0)
    BY <1>2 DEF Waiting, EntryFits, QueueOK, Write, Fields
  <2> QED
    BY <1>1, <1>2, <2>1 DEF Under, Group, Marked, Fields, queue
<1>4. Table(obj, K)' /\ Waiting(K)'
  BY <1>1, <1>2 DEF Table, backend, queue, Waiting, EntryFits, LastDeletes, KeyWritten
<1> QED
  BY <1>1, <1>2, <1>3, <1>4 DEF CarefulInvOf, Calmness, Settled

\* No id but that of the row with key k is freed when k is.
LEMMA StaleOther ==
  ASSUME NEW id \in Id \cup {NULL}, NEW k,
         k # NULL => (id # NULL => Selects(id) # k)
  PROVE  Stale(id, k, NULL) = id
<1>1. CASE id = NULL
  BY <1>1 DEF Stale
<1>2. CASE id # NULL
  <2>1. id \in Id /\ id.key \in Key /\ id.freed \in BOOLEAN
    BY <1>2 DEF Id
  <2>2. id.oid = NULL => id.key # k
    BY <1>2, <2>1, ConstantAssumption DEF Selects, Datum
  <2>3. Stale(id, k, NULL) = [id EXCEPT !.freed = @ \/ FALSE]
    BY <1>2, <2>2 DEF Stale
  <2>4. (id.freed \/ FALSE) = id.freed
    BY <2>1
  <2>5. [id EXCEPT !.freed = id.freed] = id
    BY <2>1 DEF Id
  <2> QED
    BY <2>3, <2>4, <2>5
<1> QED
  BY <1>1, <1>2

\* bonddb_undo: the row shows what the backend holds again.
LEMMA UndoCareful ==
  ASSUME CarefulUse, IInv, NEW K \in Keys, CarefulInvOf(K), Undo
  PROVE  CarefulInvOf(K)'
<1> DEFINE row == obj.currentrow
           r == obj.record[row]
           k == r.cache[KeyField]
           Emptied(x, i) ==
             IF x = NULL THEN NULL
             ELSE [x EXCEPT !.id = Stale(@, k, NULL),
                            !.cache = IF i = row THEN BlankRecord("READ").cache
                                      ELSE @]
           s == [r EXCEPT !.cache = BlankRecord("READ").cache]
<1>1. /\ Calm /\ row < obj.numrecord /\ r # NULL
      /\ r.id = NULL /\ Pending(row) = {}
      /\ obj' = [obj EXCEPT
                   !.record = [i \in Row |-> Emptied(obj.record[i], i)],
                   !.currentid = Stale(@, k, NULL)]
      /\ writequeue' = StaleQueue(writequeue, k, NULL)
      /\ UNCHANGED <<backend, writequeuehash, tail, saving, fault>>
  BY Rules DEF Undo
<1>2. /\ Sound(obj) /\ QueueOK /\ pc = "idle" /\ Rows(obj, K) /\ Modes(obj)
      /\ Unkeyed(obj) /\ Table(obj, K) /\ Fetched(obj, K) /\ Waiting(K)
      /\ ~Deleting /\ Cursor(obj)
  BY <1>1, CalmState
<1>3. /\ row \in Live(obj) /\ row \in Row /\ r \in Record /\ K[row] \in Key
      /\ RecordFits(r, K[row]) /\ obj.record \in [Row -> Record \cup {NULL}]
  BY <1>1, <1>2, LiveType DEF Rows
<1>4. k # NULL => k = K[row]
  BY <1>3 DEF RecordFits
<1>5. \A j \in Live(obj) : j # row => K[j] # K[row]
  BY <1>2, <1>3, LiveType, KeyType DEF Rows
<1>6. ASSUME NEW j \in Row, j # row
      PROVE  Emptied(obj.record[j], j) = obj.record[j]
  <2> DEFINE x == obj.record[j]
  <2>1. CASE x = NULL
    BY <2>1
  <2>2. CASE x # NULL
    <3>1. x \in Record /\ j \in Live(obj)
      BY <1>2, <1>3, <2>2, LiveType DEF Rows
    <3>2. RecordFits(x, K[j]) /\ K[j] # K[row]
      BY <1>2, <1>5, <1>6, <2>2, <3>1 DEF Rows
    <3>3. x.id \in Id \cup {NULL}
      BY <3>1 DEF Record
    <3>4. k # NULL => (x.id # NULL => Selects(x.id) # k)
      BY <1>4, <3>2 DEF RecordFits
    <3> HIDE DEF k
    <3>5. Stale(x.id, k, NULL) = x.id
      BY <3>3, <3>4, StaleOther
    <3> HIDE DEF x
    <3>6. Emptied(x, j) = [x EXCEPT !.id = x.id, !.cache = x.cache]
      BY <1>6, <2>2, <3>5
    <3>7. [x EXCEPT !.id = x.id, !.cache = x.cache] = x
      BY <3>1 DEF Record
    <3> QED
      BY <3>6, <3>7 DEF x
  <2> QED
    BY <2>1, <2>2
<1>7. Emptied(r, row) = s
  <2>1. Stale(r.id, k, NULL) = r.id
    BY <1>1 DEF Stale
  <2>2. [r EXCEPT !.id = r.id, !.cache = BlankRecord("READ").cache] = s
    BY <1>3 DEF Record
  <2> HIDE DEF k, s
  <2> QED
    BY <1>1, <2>1, <2>2
<1>8. StaleQueue(writequeue, k, NULL) = writequeue
  <2>1. ASSUME NEW e \in writequeue PROVE [e EXCEPT !.id = Stale(@, k, NULL)] = e
    <3>1. e \in Write /\ e.row # row /\ EntryFits(e, K) /\ e.row \in Row
      BY <1>1, <1>2 DEF QueueOK, Pending, Waiting, Write
    <3>2. e.row \in Live(obj)
      BY <1>2, <3>1, LiveType DEF EntryFits
    <3>3. e.id # NULL => Selects(e.id) = K[e.row]
      BY <3>1 DEF EntryFits
    <3>4. k # NULL => (e.id # NULL => Selects(e.id) # k)
      BY <1>4, <1>5, <3>1, <3>2, <3>3
    <3>5. e.id \in Id \cup {NULL}
      BY <3>1 DEF Write
    <3> HIDE DEF k
    <3>6. Stale(e.id, k, NULL) = e.id
      BY <3>4, <3>5, StaleOther
    <3>7. [e EXCEPT !.id = e.id] = e
      BY <3>1 DEF Write
    <3> QED
      BY <3>6, <3>7
  <2> HIDE DEF k
  <2> QED
    BY <2>1 DEF StaleQueue
<1>9. Stale(obj.currentid, k, NULL) = obj.currentid
  <2>1. obj.currentid \in Id \cup {NULL}
    BY <1>2 DEF Sound, Object
  <2>2. obj.currentid # NULL => obj.currentid.freed = TRUE
    <3>1. obj.numrecord # 0
      BY <1>1, <1>2, <1>3, LiveType
    <3>2. CASE OnRow(obj)
      BY <1>1, <2>1, <3>2 DEF OnRow, Id
    <3>3. CASE OnNone(obj)
      BY <3>1, <3>3 DEF OnNone
    <3> QED
      BY <1>2, <3>2, <3>3 DEF Cursor
  <2>3. ASSUME NEW id \in Id, id.freed = TRUE, NEW b
        PROVE  [id EXCEPT !.freed = @ \/ b] = id
    <3>1. (id.freed \/ b) = id.freed
      BY <2>3
    <3>2. [id EXCEPT !.freed = id.freed] = id
      BY DEF Id
    <3> QED
      BY <3>1, <3>2
  <2> QED
    BY <2>1, <2>2, <2>3 DEF Stale
<1> HIDE DEF Emptied, k
<1>10. /\ obj'.record = [i \in Row |-> Emptied(obj.record[i], i)]
       /\ obj'.numrecord = obj.numrecord /\ obj'.state = obj.state
       /\ obj'.res = obj.res /\ obj'.noprimarykey = obj.noprimarykey
       /\ obj'.currentrow = row /\ obj'.currentrecord = obj.currentrecord
       /\ obj'.mode = obj.mode /\ obj'.currentid = obj.currentid
  BY <1>1, <1>2, <1>9 DEF Sound, Object
<1> HIDE DEF s
<1>11. obj'.record = [obj.record EXCEPT ![row] = s]
  BY <1>3, <1>6, <1>7, <1>10
<1>12. /\ s.mode = r.mode /\ s.id = NULL /\ s \in Record
       /\ s.cache[KeyField] = NULL
  <2>1. Blank.cache \in Cache /\ Blank.cache[KeyField] = NULL
    BY BlankFits DEF Record, Col
  <2> QED
    BY <1>1, <1>3, <2>1 DEF s, Record, Blank
<1>13. r.mode # "INSERT" /\ r.mode # "UPDATE"
  <2>1. ~KeyWritten(row)
    BY <1>1 DEF KeyWritten, Pending
  <2> QED
    BY <1>1, <1>2, <1>3, <2>1 DEF Waiting, IsInsert, RecordFits
<1>14. Changes(obj', obj, row, s, K[row])
  <2>1. RecordFits(s, K[row])
    BY <1>12, <1>13 DEF RecordFits
  <2> QED
    BY <1>1, <1>10, <1>11, <1>12, <2>1 DEF Changes, IsNew
<1>15. Rows(obj', K) /\ Modes(obj') /\ Fetched(obj', K)
  BY <1>2, <1>3, <1>14, RecordChange
<1>16. /\ obj'.record[row] = s /\ s # NULL
       /\ \A j \in Row \ {row} : obj'.record[j] = obj.record[j]
       /\ \A j \in Row : IsNew(obj', j) <=> IsNew(obj, j)
  BY <1>2, <1>3, <1>14, ChangesOne
<1>17. Unkeyed(obj')
  <2>1. Stuck(obj', row) <=> Stuck(obj, row)
    BY <1>1, <1>12, <1>16 DEF Stuck
  <2>2. Live(obj) \subseteq Row
    BY <1>2, LiveType
  <2>3. IsNew(obj', row) /\ ~obj.noprimarykey => ~Stuck(obj', row)
    BY <1>2, <1>3, <1>16, <2>1 DEF Unkeyed
  <2> QED
    BY <1>2, <1>3, <1>10, <1>16, <2>1, <2>2, <2>3, RecordRekeyed
<1>18. Cursor(obj')
  <2>1. CASE OnRow(obj)
    <3>1. /\ obj.currentrecord = row /\ r.mode = obj.mode
          /\ \/ obj.currentid = NULL
             \/ /\ obj.currentid # NULL /\ obj.currentid.freed
                /\ r.mode = "READ" /\ obj.res # NULL
      BY <1>1, <2>1 DEF OnRow
    <3>2. obj'.record[obj'.currentrow] = s
      BY <1>10, <1>16
    <3> HIDE DEF row, r
    <3> QED
      BY <1>1, <1>10, <1>12, <1>16, <3>1, <3>2 DEF Cursor, OnRow
  <2>2. CASE OnNone(obj)
    BY <1>10, <2>2 DEF Cursor, OnNone
  <2> QED
    BY <1>2, <2>1, <2>2 DEF Cursor
<1>19. Table(obj, K)'
  <2>1. s.mode = "INSERT" <=> IsInsert(obj, row)
    BY <1>1, <1>12 DEF IsInsert
  <2>2. UNCHANGED <<db, nextkey>>
    BY <1>1 DEF backend
  <2> QED
    BY <1>2, <1>3, <1>14, <2>1, <2>2, ChangedTable
<1>20. Waiting(K)'
  <2>1. writequeue' = writequeue /\ wrote' = wrote
    BY <1>1, <1>8 DEF saving
  <2>2. ASSUME NEW e \in writequeue
        PROVE  EntryFits(e, K)' /\ e.type # "DELETE" /\ obj'.currentrecord # NULL
    <3>1. /\ EntryFits(e, K) /\ e.row # row /\ e.row \in Row
          /\ e.type # "DELETE" /\ obj.currentrecord # NULL
      BY <1>1, <1>2 DEF Waiting, QueueOK, Write, Pending, Deleting
    <3> QED
      BY <1>10, <1>16, <2>1, <3>1 DEF EntryFits
  <2>3. \A i \in Live(obj') : IsInsert(obj', i) => KeyWritten(i)'
    <3>1. /\ Live(obj') = Live(obj) /\ Live(obj) \subseteq Row
          /\ ~IsInsert(obj', row)
      BY <1>2, <1>10, <1>12, <1>13, <1>16, LiveType DEF Live, IsInsert
    <3>2. \A i \in Live(obj) : IsInsert(obj', i) => IsInsert(obj, i)
      BY <1>16, <3>1 DEF IsInsert
    <3> QED
      BY <1>2, <2>1, <3>1, <3>2 DEF Waiting, KeyWritten
  <2> QED
    BY <1>2, <2>1, <2>2, <2>3 DEF Waiting
<1> QED
  BY <1>1, <1>2, <1>15, <1>17, <1>18, <1>19, <1>20, CallKeeps

\* The object after a load of n rows.
LEMMA LoadedGives ==
  ASSUME Sound(obj), NEW K \in Keys, Rows(obj, K), Cursor(obj),
         obj.res = NULL => obj.numrecord = 0,
         NEW rs \in ResultSet, NEW n \in 0..MaxRow
  PROVE  LET p == Loaded(rs, n) IN
         /\ p.numrecord = n /\ p.state = "READ_RAW" /\ p.res = rs
         /\ p.noprimarykey = obj.noprimarykey /\ p.currentrow = 0
         /\ p.mode = "READ" /\ p.currentrecord = IF n = 0 THEN NULL ELSE 0
         /\ p.currentid # NULL => p.currentid.freed
         /\ \A i \in Row : p.record[i] = IF i = 0 /\ n > 0 THEN Blank ELSE NULL
<1> DEFINE u == Unloaded
           t == [u EXCEPT !.res = rs, !.state = "READ_RAW", !.numrecord = n,
                          !.mode = "READ", !.currentrow = 0]
           o == Populate(t, 0)
           p == Loaded(rs, n)
<1>1. /\ Sound(u) /\ u.noprimarykey = obj.noprimarykey
      /\ u.currentid # NULL => u.currentid.freed
      /\ \A i \in Row : u.record[i] = NULL
  <2>1. CASE obj.res = NULL
    <3>1. u = obj /\ obj.numrecord = 0
      BY <2>1 DEF Unloaded
    <3>2. \A i \in Row : i >= 0
      BY LiveType
    <3>3. obj.currentid = NULL
      BY <2>1, <3>1, LiveType DEF Cursor, OnRow, OnNone
    <3> QED
      BY <3>1, <3>2, <3>3 DEF Rows
  <2>2. CASE obj.res # NULL
    <3>1. u = [obj EXCEPT !.record = [i \in Row |-> NULL],
                 !.currentrecord = NULL, !.currentid = Released(@),
                 !.numrecord = 0, !.res = NULL]
      BY <2>2 DEF Unloaded
    <3>2. /\ u.record = [i \in Row |-> NULL]
          /\ u.noprimarykey = obj.noprimarykey
          /\ u.currentid = Released(obj.currentid)
      BY <3>1 DEF Sound, Object
    <3>3. obj.currentid \in Id \cup {NULL}
      BY DEF Sound, Object
    <3>4. obj.currentid # NULL => Released(obj.currentid).freed
      BY <3>3 DEF Released, Id
    <3>5. obj.currentid = NULL => Released(obj.currentid) = NULL
      BY DEF Released
    <3> QED
      BY <3>2, <3>4, <3>5, UnloadedType
  <2> QED
    BY <2>1, <2>2
<1> HIDE DEF u
<1>2. 0 \in Row /\ n \in Nat
  BY ConstantAssumption DEF Row
<1>3. /\ t.res = rs /\ t.state = "READ_RAW" /\ t.numrecord = n
      /\ t.mode = "READ" /\ t.currentrow = 0 /\ t.record = u.record
      /\ t.noprimarykey = u.noprimarykey /\ t.currentid = u.currentid
      /\ t \in Object
  BY <1>1, <1>2 DEF Sound, Object, Mode
<1>4. p = [o EXCEPT !.currentrecord = IF n = 0 THEN NULL ELSE 0]
  BY DEF Loaded, u
<1> HIDE DEF t
<1>5. t.record \in [Row -> Record \cup {NULL}] /\ t.record[0] = NULL
  BY <1>1, <1>2, <1>3 DEF Object
<1>6. CASE n = 0
  <2>1. o = t
    BY <1>3, <1>6 DEF Populate
  <2>2. p = [t EXCEPT !.currentrecord = NULL]
    BY <1>4, <1>6, <2>1
  <2> HIDE DEF p, o
  <2> QED
    BY <1>1, <1>3, <1>6, <2>2 DEF Object, p
<1>7. CASE n # 0
  <2>1. o = [t EXCEPT !.record[0] = Blank]
    BY <1>2, <1>3, <1>5, <1>7 DEF Populate, Blank
  <2>2. p = [[t EXCEPT !.record[0] = Blank] EXCEPT !.currentrecord = 0]
    BY <1>4, <1>7, <2>1
  <2> HIDE DEF p, o
  <2>3. /\ p.res = rs /\ p.state = "READ_RAW" /\ p.numrecord = n
        /\ p.mode = "READ" /\ p.currentrow = 0 /\ p.currentrecord = 0
        /\ p.noprimarykey = u.noprimarykey /\ p.currentid = u.currentid
        /\ p.record = [t.record EXCEPT ![0] = Blank]
    BY <1>3, <2>2 DEF Object
  <2>4. \A i \in Row : p.record[i] = IF i = 0 /\ n > 0 THEN Blank ELSE NULL
    BY <1>1, <1>2, <1>3, <1>5, <1>7, <2>3
  <2> QED
    BY <1>1, <1>2, <1>7, <2>3, <2>4 DEF p
<1> QED
  BY <1>6, <1>7

\* bonddb_loadall.
LEMMA LoadAllCareful ==
  ASSUME CarefulUse, IInv, NEW K \in Keys, CarefulInvOf(K), LoadAll
  PROVE  CarefulInv'
<1>1. /\ Calm /\ writequeue = {} /\ (obj.res = NULL => obj.numrecord = 0)
      /\ writequeue' = {} /\ UNCHANGED <<db, nextkey, saving, fault>>
  BY Rules DEF LoadAll, ReleasedQueue
<1>2. /\ Sound(obj) /\ pc = "idle" /\ Rows(obj, K) /\ Unkeyed(obj)
      /\ Cursor(obj) /\ Table(obj, K) /\ IInv'
  BY <1>1, CalmState, LoadAllKeeps
<1>19. PICK n \in 0..MaxKey : \E r \in [0..(n - 1) -> Key] :
         n <= MaxRow /\ IsAnswer(n, r) /\ obj' = Loaded(Answer(n, r), n)
  BY DEF LoadAll, CarefulUse, Rejects
<1>3. PICK r \in [0..(n - 1) -> Key] :
        n <= MaxRow /\ IsAnswer(n, r) /\ obj' = Loaded(Answer(n, r), n)
  BY <1>19
<1>4. /\ n \in 0..MaxRow /\ n \in Nat /\ Answer(n, r) \in ResultSet
      /\ Answer(n, r) # NULL
  BY <1>3, ConstantAssumption, NullAssumption, AnswerType DEF IInv
<1>5. /\ obj'.numrecord = n /\ obj'.state = "READ_RAW"
      /\ obj'.res = Answer(n, r)
      /\ obj'.noprimarykey = obj.noprimarykey /\ obj'.currentrow = 0
      /\ obj'.mode = "READ"
      /\ obj'.currentrecord = IF n = 0 THEN NULL ELSE 0
      /\ obj'.currentid # NULL => obj'.currentid.freed
      /\ \A i \in Row :
           obj'.record[i] = IF i = 0 /\ n > 0 THEN Blank ELSE NULL
  BY <1>1, <1>2, <1>3, <1>4, LoadedGives
<1>6. PICK L \in Keys : \A i \in 0..(n - 1) : L[i] = r[i]
  <2> DEFINE L == [i \in Row |-> IF i < n THEN r[i] ELSE 0]
  <2>1. \A i \in Row : i < n => i \in 0..(n - 1)
    BY <1>4, ConstantAssumption DEF Row
  <2>2. Key \subseteq 0..MaxKey /\ 0 \in 0..MaxKey
    BY ConstantAssumption DEF Key
  <2>3. L \in Keys
    BY <2>1, <2>2 DEF Keys
  <2>4. \A i \in 0..(n - 1) : i \in Row /\ i < n
    BY <1>4, <1>3, ConstantAssumption DEF Row
  <2> QED
    BY <2>3, <2>4
<1>7. Live(obj') = 0..(n - 1) /\ \A i \in 0..(n - 1) : i \in Row
  BY <1>3, <1>4, <1>5, ConstantAssumption DEF Live, Row
<1>8. /\ Blank.mode = "READ" /\ Blank.id = NULL /\ Blank # NULL
      /\ \A k : RecordFits(Blank, k)
  BY BlankFits
<1>9. \A i \in Row : ~IsNew(obj', i) /\ ~IsInsert(obj', i)
  BY <1>5, <1>8 DEF IsNew, IsInsert, Inserting
<1>10. /\ \A i, j \in 0..(n - 1) : i < j => r[i] < r[j]
       /\ \A i \in 0..(n - 1) : r[i] \in Key /\ db[r[i]] # NULL
       /\ \A k \in Key : db[k] # NULL => \E i \in 0..(n - 1) : r[i] = k
  BY <1>3 DEF IsAnswer, Present
<1>11. Rows(obj', L)
  <2>1. \A i \in Row : i >= obj'.numrecord => obj'.record[i] = NULL
    BY <1>4, <1>5, LiveType
  <2>2. \A i, j \in Live(obj') : i < j => L[i] < L[j]
    BY <1>6, <1>7, <1>10
  <2>3. \A i \in Live(obj') : L[i] \in Key
    BY <1>6, <1>7, <1>10
  <2>4. \A i \in Live(obj') :
          obj'.record[i] # NULL => RecordFits(obj'.record[i], L[i])
    BY <1>5, <1>7, <1>8
  <2> QED
    BY <1>7, <1>9, <2>1, <2>2, <2>3, <2>4 DEF Rows
<1>12. Modes(obj')
  BY <1>5 DEF Modes
<1>13. Unkeyed(obj')
  <2>1. ~obj.noprimarykey
    BY <1>1, <1>2, LiveType DEF Unkeyed
  <2> QED
    BY <1>5, <1>7, <1>9, <2>1 DEF Unkeyed
<1>14. Cursor(obj')
  <2>1. CASE n = 0
    BY <1>4, <1>5, <2>1 DEF Cursor, OnNone
  <2>2. CASE n # 0
    <3>1. obj'.record[0] = Blank /\ 0 < n
      BY <1>4, <1>5, <2>2, ConstantAssumption DEF Row
    <3> QED
      BY <1>4, <1>5, <1>8, <2>2, <3>1 DEF Cursor, OnRow
  <2> QED
    BY <2>1, <2>2
<1>15. Fetched(obj', L)
  BY <1>5, <1>6, <1>7 DEF Fetched, Answer
<1>16. Table(obj, L)'
  <2>1. \A i \in Live(obj') : L[i] < nextkey' /\ db'[L[i]] # NULL
    BY <1>1, <1>2, <1>6, <1>7, <1>10 DEF Table
  <2>2. \A k \in Key : db'[k] # NULL => \E i \in Live(obj') : L[i] = k
    BY <1>1, <1>6, <1>7, <1>10
  <2> QED
    BY <1>1, <1>2, <1>7, <1>9, <2>1, <2>2 DEF Table
<1>17. Waiting(L)'
  BY <1>1, <1>7, <1>9 DEF Waiting
<1>18. CarefulInvOf(L)'
  BY <1>1, <1>2, <1>11, <1>12, <1>13, <1>14, <1>15, <1>16, <1>17, CallKeeps
<1> QED
  BY <1>18 DEF CarefulInv

-----------------------------------------------------------------------------
(* Deletions.                                                              *)

\* The keys of the rows when the one at place row is gone.
Shift(K, row, n) == [i \in Row |-> IF i \in row..(n - 2) THEN K[i + 1] ELSE K[i]]

\* p is o without its place row; L are the keys it is left with.
Closes(p, o, row, K, L) ==
  /\ p.numrecord = o.numrecord - 1 /\ p.state = o.state /\ p.res = o.res
  /\ p.noprimarykey = o.noprimarykey
  /\ \A i \in Row : i >= p.numrecord => p.record[i] = NULL
  /\ \A i \in Live(p) : i < row =>
       i \in Live(o) /\ p.record[i] = o.record[i] /\ L[i] = K[i]
  /\ \A i \in Live(p) : ~(i < row) =>
       /\ i + 1 \in Live(o) /\ row < i + 1
       /\ p.record[i] = o.record[i + 1] /\ L[i] = K[i + 1]
  /\ \A j \in Live(o) \ {row} : \E i \in Live(p) :
       p.record[i] = o.record[j] /\ L[i] = K[j]

\* bonddb_record_delete of the row the object is on.
LEMMA DeleteGives ==
  ASSUME NEW o, Sound(o), NEW K \in Keys, NEW row,
         \A i \in Row : i >= o.numrecord => o.record[i] = NULL,
         row = o.currentrow, row \in Live(o)
  PROVE  LET p == RecordDelete(o, row) IN
         \E L \in Keys :
           /\ Closes(p, o, row, K, L)
           /\ p.currentrecord = NULL /\ p.currentid = NULL
           /\ p.currentrow \in Row
           /\ p.currentrow \in Live(p) \/ p.numrecord = 0
<1> DEFINE n == o.numrecord
           p == RecordDelete(o, row)
           L == Shift(K, row, n)
<1>1. /\ n \in Nat /\ n <= MaxRow /\ row \in Nat /\ row < n /\ row \in Row
      /\ n - 1 \in Nat /\ MaxRow \in Nat
      /\ \A i : i \in Row <=> i \in Nat /\ i < MaxRow
      /\ \A i : i \in Live(o) <=> i \in Nat /\ i < n
      /\ o.record \in [Row -> Record \cup {NULL}]
  <2>1. /\ n \in Nat /\ n <= MaxRow /\ row \in Nat /\ row < n /\ row \in Row
        /\ \A i : i \in Live(o) <=> i \in Row /\ i < n
        /\ o.record \in [Row -> Record \cup {NULL}]
    BY LiveType
  <2>2. MaxRow \in Nat /\ \A i : i \in Row <=> i \in Nat /\ i < MaxRow
    BY ConstantAssumption DEF Row
  <2> QED
    BY <2>1, <2>2
<1>2. /\ p.record = [i \in Row |-> IF i \in row..(n - 2) THEN o.record[i + 1]
                                   ELSE IF i = n - 1 THEN NULL ELSE o.record[i]]
      /\ p.numrecord = n - 1 /\ p.state = o.state /\ p.res = o.res
      /\ p.noprimarykey = o.noprimarykey
      /\ p.currentrecord = NULL /\ p.currentid = NULL
      /\ p.currentrow = IF row < n - 1 THEN row ELSE IF row = 0 THEN 0
                        ELSE row - 1
  BY <1>1 DEF RecordDelete, Sound, Object
<1> HIDE DEF p
<1>3. \A i : i \in Live(p) <=> i \in Nat /\ i < n - 1
  BY <1>1, <1>2 DEF Live
<1>4. L \in Keys
  <2>1. \A i \in Row : i \in row..(n - 2) => i + 1 \in Row
    BY <1>1
  <2> QED
    BY <2>1 DEF Keys, Shift
<1>5. \A i \in Row : i >= p.numrecord => p.record[i] = NULL
  <2>1. ASSUME NEW i \in Row, i >= n - 1 PROVE p.record[i] = NULL
    <3>1. i \in Nat /\ i \notin row..(n - 2) /\ (i # n - 1 => i >= n)
      BY <1>1, <2>1
    <3> QED
      BY <1>2, <3>1
  <2> QED
    BY <1>2, <2>1
<1>6. ASSUME NEW i \in Live(p)
      PROVE  /\ i < row =>
                  i \in Live(o) /\ p.record[i] = o.record[i] /\ L[i] = K[i]
             /\ ~(i < row) =>
                  /\ i + 1 \in Live(o) /\ row < i + 1
                  /\ p.record[i] = o.record[i + 1] /\ L[i] = K[i + 1]
  <2>1. /\ i \in Nat /\ i < n - 1 /\ i \in Row /\ i # n - 1
        /\ i < row => i \notin row..(n - 2) /\ i \in Live(o)
        /\ ~(i < row) => i \in row..(n - 2) /\ i + 1 \in Live(o) /\ row < i + 1
    BY <1>1, <1>3
  <2> QED
    BY <1>2, <2>1 DEF Shift
<1>7. ASSUME NEW j \in Live(o) \ {row}
      PROVE  \E i \in Live(p) : p.record[i] = o.record[j] /\ L[i] = K[j]
  <2>1. j \in Nat /\ j < n /\ j # row
    BY <1>1
  <2>2. CASE j < row
    <3>1. j \in Live(p)
      BY <1>1, <1>3, <2>1, <2>2
    <3> QED
      BY <1>6, <2>2, <3>1
  <2>3. CASE ~(j < row)
    <3>1. j - 1 \in Live(p) /\ ~(j - 1 < row) /\ (j - 1) + 1 = j
      BY <1>1, <1>3, <2>1, <2>3
    <3>2. p.record[j - 1] = o.record[j] /\ L[j - 1] = K[j]
      BY <1>6, <3>1
    <3> QED
      BY <3>1, <3>2
  <2> QED
    BY <2>2, <2>3
<1>8. /\ p.currentrow \in Row
      /\ p.currentrow \in Live(p) \/ p.numrecord = 0
  BY <1>1, <1>2, <1>3
<1> HIDE DEF L
<1>9. Closes(p, o, row, K, L)
  BY <1>2, <1>5, <1>6, <1>7 DEF Closes
<1> QED
  BY <1>2, <1>4, <1>8, <1>9 DEF p

\* Every place left is a place there was.
LEMMA ClosesFrom ==
  ASSUME NEW o, NEW p, NEW row, NEW K, NEW L, Closes(p, o, row, K, L),
         row \in Nat, NEW i \in Live(p)
  PROVE  \E j \in Live(o) \ {row} : p.record[i] = o.record[j] /\ L[i] = K[j]
<1>1. CASE i < row
  BY <1>1 DEF Closes, Live
<1>2. CASE ~(i < row)
  <2>1. /\ i + 1 \in Live(o) /\ row < i + 1
        /\ p.record[i] = o.record[i + 1] /\ L[i] = K[i + 1]
    BY <1>2 DEF Closes
  <2>2. i + 1 # row
    BY <2>1 DEF Live
  <2> QED
    BY <2>1, <2>2
<1> QED
  BY <1>1, <1>2

\* The rows that are left keep their order and their records.
LEMMA ClosedRows ==
  ASSUME NEW o, Sound(o), NEW K \in Keys, Rows(o, K), Modes(o),
         NEW row \in Live(o), NEW p, NEW L \in Keys, Closes(p, o, row, K, L)
  PROVE  Rows(p, L) /\ Modes(p)
<1>1. /\ row \in Nat /\ \A i \in Live(o) : i \in Nat
      /\ \A i \in Live(p) : i \in Nat
  BY LiveType DEF Live, Closes
<1>2. \A i \in Live(p) : \E j \in Live(o) \ {row} :
        p.record[i] = o.record[j] /\ L[i] = K[j]
  BY <1>1, ClosesFrom
<1>3. \A i \in Live(p) : /\ L[i] \in Key
                         /\ p.record[i] # NULL => RecordFits(p.record[i], L[i])
  BY <1>2 DEF Rows
<1>4. ASSUME NEW i \in Live(p), NEW j \in Live(p), i < j
      PROVE  L[i] < L[j] /\ (IsNew(p, i) => IsNew(p, j))
  <2>1. /\ \A a, b \in Live(o) : a < b => K[a] < K[b]
        /\ \A a, b \in Live(o) : a < b /\ IsNew(o, a) => IsNew(o, b)
    BY DEF Rows
  <2>2. CASE j < row
    <3>1. i < row
      BY <1>1, <1>4, <2>2
    <3>2. /\ i \in Live(o) /\ p.record[i] = o.record[i] /\ L[i] = K[i]
          /\ j \in Live(o) /\ p.record[j] = o.record[j] /\ L[j] = K[j]
      BY <2>2, <3>1 DEF Closes
    <3> QED
      BY <1>4, <2>1, <3>2 DEF IsNew
  <2>3. CASE ~(j < row) /\ i < row
    <3>1. /\ i \in Live(o) /\ p.record[i] = o.record[i] /\ L[i] = K[i]
          /\ j + 1 \in Live(o) /\ p.record[j] = o.record[j + 1]
          /\ L[j] = K[j + 1] /\ row < j + 1
      BY <2>3 DEF Closes
    <3>2. i < j + 1
      BY <1>1, <1>4
    <3> QED
      BY <2>1, <3>1, <3>2 DEF IsNew
  <2>4. CASE ~(i < row)
    <3>1. ~(j < row)
      BY <1>1, <1>4, <2>4
    <3>2. /\ i + 1 \in Live(o) /\ p.record[i] = o.record[i + 1]
          /\ L[i] = K[i + 1]
          /\ j + 1 \in Live(o) /\ p.record[j] = o.record[j + 1]
          /\ L[j] = K[j + 1]
      BY <2>4, <3>1 DEF Closes
    <3>3. i + 1 < j + 1
      BY <1>1, <1>4
    <3> QED
      BY <2>1, <3>2, <3>3 DEF IsNew
  <2> QED
    BY <2>2, <2>3, <2>4
<1>5. \A i \in Row : i >= p.numrecord => p.record[i] = NULL
  BY DEF Closes
<1>6. Rows(p, L)
  BY <1>3, <1>4, <1>5 DEF Rows
<1>7. Modes(p)
  <2>1. o.state = "NEW" => \A i \in Live(p) : IsNew(p, i)
    BY <1>2 DEF Modes, IsNew
  <2> QED
    BY <2>1 DEF Modes, Closes
<1> QED
  BY <1>6, <1>7

\* No row is stuck that was not; one that was remains when it is not the one
\* deleted.
LEMMA ClosedKeyed ==
  ASSUME NEW o, NEW K, Unkeyed(o), NEW row \in Nat, NEW p, NEW L,
         Closes(p, o, row, K, L), o.noprimarykey => ~Stuck(o, row)
  PROVE  Unkeyed(p)
<1>1. \A i \in Live(p) : \E j \in Live(o) \ {row} : p.record[i] = o.record[j]
  BY ClosesFrom
<1>2. \A j \in Live(o) \ {row} : \E i \in Live(p) : p.record[i] = o.record[j]
  BY DEF Closes
<1>3. p.noprimarykey = o.noprimarykey /\ p.res = o.res
  BY DEF Closes
<1>4. ASSUME o.noprimarykey PROVE \E i \in Live(p) : Stuck(p, i)
  <2>1. PICK j \in Live(o) \ {row} : Stuck(o, j)
    BY <1>4 DEF Unkeyed
  <2> QED
    BY <1>2, <2>1 DEF Stuck
<1>5. ASSUME ~o.noprimarykey, NEW i \in Live(p), IsNew(p, i)
      PROVE  ~Stuck(p, i)
  BY <1>1, <1>5 DEF Unkeyed, IsNew, Stuck
<1> QED
  BY <1>3, <1>4, <1>5 DEF Unkeyed

\* A new row that was never saved is dropped with its writes, which were all
\* there were.
LEMMA DeleteUnsavedCareful ==
  ASSUME CarefulUse, IInv, NEW K \in Keys, CarefulInvOf(K), WriteDelete,
         DeleteUnsaved(obj.currentrow,
                       {e \in Pending(obj.currentrow) : e.type = "INSERT"})
  PROVE  CarefulInv'
<1> DEFINE row == obj.currentrow
           r == obj.record[row]
           gone == RecordDelete(obj, row)
           inserts == {e \in Pending(row) : e.type = "INSERT"}
<1>1. /\ Calm /\ writequeue = Pending(row) /\ obj.currentrecord # NULL
      /\ UNCHANGED <<backend, saving>>
  BY Rules DEF WriteDelete
<1>2. /\ Sound(obj) /\ QueueOK /\ pc = "idle" /\ Rows(obj, K) /\ Modes(obj)
      /\ Unkeyed(obj) /\ Table(obj, K) /\ Fetched(obj, K) /\ Waiting(K)
      /\ ~Deleting /\ wrote = {} /\ Cursor(obj)
  BY <1>1, CalmState
<1>3. PICK x \in inserts : TRUE
  BY DEF DeleteUnsaved
<1>4. EntryFits(x, K) /\ x.row = row /\ x.type = "INSERT"
  BY <1>2, <1>3 DEF Pending, Waiting
<1>5. /\ row \in Live(obj) /\ row \in Row /\ row \in Nat /\ row < obj.numrecord
      /\ r \in Record /\ r # NULL /\ r.mode = "INSERT" /\ r.id = NULL
      /\ K[row] \in Key
  <2>1. row \in Row /\ row < obj.numrecord /\ r # NULL /\ r.mode = "INSERT"
    BY <1>2, <1>4, LiveType DEF EntryFits
  <2>2. row \in Live(obj) /\ row \in Nat /\ r \in Record
    BY <1>2, <2>1, LiveType
  <2> QED
    BY <1>2, <2>1, <2>2 DEF Rows, RecordFits
<1>6. writequeue \ inserts = {}
  <2>1. ASSUME NEW e \in writequeue, e \notin inserts PROVE FALSE
    <3>1. e \in Write /\ e.row = row /\ e.type # "DELETE" /\ EntryFits(e, K)
      BY <1>1, <1>2, <2>1 DEF QueueOK, Pending, Deleting, Waiting
    <3>2. e.type = "UPDATE"
      BY <1>1, <2>1, <3>1 DEF Write
    <3> QED
      BY <1>5, <3>1, <3>2 DEF EntryFits
  <2> QED
    BY <2>1
<1>7. obj' = Land(gone, gone.currentrow) /\ writequeue' = {} /\ UNCHANGED fault
  <2>1. \A k, o : StaleQueue({}, k, o) = {}
    BY DEF StaleQueue
  <2> QED
    BY <1>5, <1>6, <2>1 DEF DeleteUnsaved, Leave
<1>8. PICK L \in Keys :
        /\ Closes(gone, obj, row, K, L)
        /\ gone.currentrecord = NULL /\ gone.currentid = NULL
        /\ gone.currentrow \in Row
        /\ gone.currentrow \in Live(gone) \/ gone.numrecord = 0
  BY <1>2, <1>5, DeleteGives DEF Rows
<1>9. Sound(gone)
  BY <1>2, <1>5, RecordDeleteType
<1> HIDE DEF gone
<1>10. /\ Rows(gone, L) /\ Modes(gone)
       /\ \A i \in Live(gone) : \E j \in Live(obj) \ {row} :
            gone.record[i] = obj.record[j] /\ L[i] = K[j]
  BY <1>2, <1>5, <1>8, ClosedRows, ClosesFrom
<1>11. Unkeyed(gone)
  <2>1. ~Stuck(obj, row)
    BY <1>5 DEF Stuck
  <2> QED
    BY <1>2, <1>5, <1>8, <2>1, ClosedKeyed
<1>12. Fetched(gone, L)
  <2>1. ASSUME NEW i \in Live(gone), ~IsNew(gone, i)
        PROVE  i \in Live(obj) /\ ~IsNew(obj, i) /\ L[i] = K[i]
    <3>1. CASE i < row
      BY <1>8, <2>1, <3>1 DEF Closes, IsNew
    <3>2. CASE ~(i < row)
      <4>1. /\ i + 1 \in Live(obj) /\ row < i + 1
            /\ gone.record[i] = obj.record[i + 1]
        BY <1>8, <3>2 DEF Closes
      <4>2. IsNew(obj, row)
        BY <1>5 DEF IsNew, Inserting
      <4>3. IsNew(obj, i + 1)
        BY <1>2, <1>5, <4>1, <4>2 DEF Rows
      <4> QED
        BY <2>1, <4>1, <4>3 DEF IsNew
    <3> QED
      BY <3>1, <3>2
  <2>2. gone.res = obj.res
    BY <1>8 DEF Closes
  <2> QED
    BY <1>2, <2>1, <2>2 DEF Fetched
<1>13. \A i \in Live(gone) : ~IsInsert(gone, i)
  <2>1. \A j \in Live(obj) \ {row} : ~IsInsert(obj, j)
    BY <1>1, <1>2 DEF Waiting, KeyWritten, Pending
  <2> QED
    BY <1>10, <2>1 DEF IsInsert
<1>14. Table(gone, L)
  <2>1. /\ \A j \in Live(obj) : K[j] < nextkey
        /\ \A j \in Live(obj) : db[K[j]] = NULL <=> IsInsert(obj, j)
        /\ \A k \in Key : db[k] # NULL => k < nextkey
    BY <1>2 DEF Table
  <2>2. \A i \in Live(gone) :
          /\ L[i] < nextkey
          /\ db[L[i]] = NULL <=> IsInsert(gone, i)
    BY <1>10, <2>1 DEF IsInsert
  <2>3. ASSUME gone.state = "READ_RAW", NEW k \in Key, db[k] # NULL
        PROVE  \E i \in Live(gone) : L[i] = k
    <3>1. obj.state = "READ_RAW"
      BY <1>8, <2>3 DEF Closes
    <3>2. PICK j \in Live(obj) : K[j] = k
      BY <1>2, <2>3, <3>1 DEF Table
    <3>3. j # row
      BY <1>5, <2>1, <2>3, <3>2 DEF IsInsert
    <3> QED
      BY <1>8, <3>2, <3>3 DEF Closes
  <2> QED
    BY <2>1, <2>2, <2>3 DEF Table
<1>15. CASE gone.numrecord = 0
  <2>1. obj' = gone
    <3>1. gone.currentrow >= gone.numrecord
      BY <1>8, <1>15, ConstantAssumption DEF Row
    <3> QED
      BY <1>7, <3>1 DEF Land
  <2>2. Cursor(gone)
    BY <1>8 DEF Cursor, OnNone
  <2>3. Table(obj, L)'
    BY <1>1, <1>14, <2>1 DEF Table, backend, Live, IsInsert
  <2>4. Waiting(L)'
    BY <1>7, <1>13, <2>1 DEF Waiting, Live, IsInsert
  <2>5. CarefulInvOf(L)'
    BY <1>1, <1>2, <1>7, <1>10, <1>11, <1>12, <2>1, <2>2, <2>3, <2>4, CallKeeps
  <2> QED
    BY <2>5 DEF CarefulInv
<1>16. CASE gone.currentrow \in Live(gone)
  <2>1. /\ OnRow(obj') /\ Rows(obj', L) /\ Modes(obj') /\ Unkeyed(obj')
        /\ Fetched(obj', L) /\ Grown(obj', gone)
    BY <1>7, <1>9, <1>10, <1>11, <1>12, <1>16, LandGives
  <2>2. /\ Live(obj') = Live(gone) /\ obj'.state = gone.state
        /\ \A i \in Live(gone) : IsInsert(obj', i) <=> IsInsert(gone, i)
    <3>1. Live(obj') = Live(gone) /\ obj'.state = gone.state
      BY <2>1 DEF Grown, Live
    <3> QED
      BY <1>9, <2>1, <3>1, GrownRows
  <2>3. Table(obj, L)'
    BY <1>1, <1>14, <2>2 DEF Table, backend
  <2>4. Waiting(L)'
    BY <1>7, <1>13, <2>2 DEF Waiting
  <2>5. CarefulInvOf(L)'
    BY <1>1, <1>2, <1>7, <2>1, <2>3, <2>4, CallKeeps DEF Cursor
  <2> QED
    BY <2>5 DEF CarefulInv
<1> QED
  BY <1>8, <1>15, <1>16

\* A row of the table is queued to be deleted.
LEMMA DeleteSavedCareful ==
  ASSUME CarefulUse, IInv, NEW K \in Keys, CarefulInvOf(K), WriteDelete,
         DeleteSaved(obj.currentrow,
                     {e \in Pending(obj.currentrow) : e.type = "INSERT"})
  PROVE  CarefulInvOf(K)'
<1> DEFINE row == obj.currentrow
           r == obj.record[row]
           inserts == {e \in Pending(row) : e.type = "INSERT"}
<1>1. /\ Calm /\ writequeue = Pending(row) /\ obj.currentrecord # NULL
      /\ obj.mode # "INSERT" /\ inserts = {}
      /\ obj.currentid # NULL => ~obj.currentid.freed
      /\ UNCHANGED <<backend, saving, obj, fault>>
  BY Rules DEF WriteDelete, DeleteSaved
<1>2. /\ Sound(obj) /\ QueueOK /\ pc = "idle" /\ Rows(obj, K) /\ Modes(obj)
      /\ Unkeyed(obj) /\ Table(obj, K) /\ Fetched(obj, K) /\ Waiting(K)
      /\ ~Deleting /\ wrote = {} /\ Cursor(obj)
  BY <1>1, CalmState
<1>3. OnRow(obj)
  BY <1>1, <1>2 DEF Cursor, OnNone
<1>4. /\ row < obj.numrecord /\ r # NULL /\ r.mode = obj.mode
      /\ obj.currentid = r.id /\ row \in Live(obj) /\ row \in Row
  BY <1>1, <1>2, <1>3, LiveType DEF OnRow
<1>5. r.id # NULL => Selects(r.id) = K[row] /\ ~r.id.freed
  BY <1>2, <1>4 DEF Rows, RecordFits
<1>6. PICK d : /\ writequeue' = writequeue \cup {d}
               /\ d.pos = tail /\ d.row = row /\ d.type = "DELETE"
               /\ d.id = obj.currentid
  <2> DEFINE x == [pos |-> tail, row |-> row, type |-> "DELETE",
                   field |-> NULL, value |-> NULL, mark |-> FALSE,
                   id |-> obj.currentid]
  <2>1. /\ x.pos = tail /\ x.row = row /\ x.type = "DELETE"
        /\ x.id = obj.currentid
    OBVIOUS
  <2>2. writequeue' = writequeue \cup {x}
    BY DEF DeleteSaved
  <2> HIDE DEF x
  <2> QED
    BY <2>1, <2>2
<1>7. tail # 0 /\ tail \in Nat /\ \A e \in writequeue : e.pos <= tail
  BY <1>2 DEF QueueOK, HashAgrees, Write
<1>8. EntryFits(d, K)'
  BY <1>1, <1>4, <1>5, <1>6, <1>7 DEF EntryFits
<1>9. \A e \in writequeue : EntryFits(e, K)'
  BY <1>1, <1>2 DEF Waiting, EntryFits, saving
<1>10. LastDeletes(d)'
  <2>1. \A x \in writequeue : x.row = row /\ x.type # "INSERT" /\ x.pos <= tail
    BY <1>1, <1>7 DEF Pending
  <2>2. \A x \in writequeue' : x.row = row /\ x.type # "INSERT" /\ x.pos <= tail
    BY <1>1, <1>6, <1>7, <2>1
  <2> QED
    BY <1>1, <1>4, <1>6, <2>2 DEF LastDeletes
<1>11. \A i \in Live(obj') : IsInsert(obj', i) => KeyWritten(i)'
  BY <1>1, <1>2 DEF Waiting, KeyWritten
<1>12. Waiting(K)'
  <2>1. \A e \in writequeue : e.type # "DELETE" /\ e.type # "INSERT"
    BY <1>1, <1>2 DEF Deleting, Pending
  <2> QED
    BY <1>1, <1>6, <1>8, <1>9, <1>10, <1>11, <2>1 DEF Waiting
<1>13. Table(obj, K)'
  BY <1>1, <1>2 DEF Table, backend
<1> QED
  BY <1>1, <1>2, <1>12, <1>13, CallKeeps

-----------------------------------------------------------------------------
(* A save.                                                                 *)

\* No two places of the array stand for one row.
LEMMA KeysApart ==
  ASSUME NEW K \in Keys, Sound(obj), Rows(obj, K), NEW i \in Live(obj),
         NEW j \in Live(obj), i # j
  PROVE  K[i] # K[j]
<1>1. i \in Row /\ j \in Row /\ i \in Nat /\ j \in Nat
  BY LiveType
<1>2. K[i] \in Nat /\ K[j] \in Nat
  BY <1>1, KeyType
<1>3. i < j \/ j < i
  BY <1>1
<1>4. K[i] < K[j] \/ K[j] < K[i]
  BY <1>3 DEF Rows
<1> QED
  BY <1>2, <1>4

\* What a statement leaves in a row of the table is a row.
LEMMA WrittenRow ==
  ASSUME QueueOK, NEW w, NEW g, \A f \in Field : g[f] \in Datum \cup {NULL}
  PROVE  LET r == [f \in Field |-> Wrote(Group(w), f, g[f])] IN
         r \in TableRow /\ r # NULL
<1>1. Group(w) \subseteq Write
  BY DEF Group, Fields, QueueOK
<1>2. \A f \in Field : Wrote(Group(w), f, g[f]) \in Datum \cup {NULL}
  BY <1>1, WroteType
<1> QED
  BY <1>2, NullAssumption DEF TableRow

\* Where a visit finds the invariant.
LEMMA VisitState ==
  ASSUME IInv, NEW K \in Keys, CarefulInvOf(K), pc = "saving", NEW w, Visits(w)
  PROVE  /\ Sound(obj) /\ QueueOK /\ fault = "none" /\ ~corrupt /\ Settled
         /\ Rows(obj, K) /\ Modes(obj) /\ Unkeyed(obj) /\ OnRow(obj)
         /\ Table(obj, K) /\ Fetched(obj, K) /\ Waiting(K) /\ Under(K)
         /\ w \in writequeue /\ w \in Write /\ EntryFits(w, K)
         /\ w.row \in Live(obj) /\ w.row \in Row
         /\ obj.record[w.row] \in Record /\ obj.record[w.row] # NULL
         /\ RecordFits(obj.record[w.row], K[w.row]) /\ K[w.row] \in Key
<1>1. /\ Sound(obj) /\ QueueOK /\ fault = "none"
      /\ Rows(obj, K) /\ Modes(obj) /\ Unkeyed(obj) /\ Cursor(obj)
      /\ Table(obj, K) /\ w \in writequeue /\ w.pos > walk /\ walk \in Nat
  BY DEF IInv, Plain, CarefulInvOf, Calmness, Visits
<1>2. w \in Write /\ w.pos \in Nat
  BY <1>1 DEF QueueOK, Write
<1>3. ~corrupt
  <2>1. corrupt => w.pos <= walk
    BY <1>1 DEF CarefulInvOf, Settled, Gap
  <2> QED
    BY <1>1, <1>2, <2>1
<1>4. Settled /\ Fetched(obj, K) /\ Waiting(K) /\ Under(K)
  BY <1>3 DEF CarefulInvOf, Settled
<1>5. EntryFits(w, K) /\ OnRow(obj)
  BY <1>1, <1>4 DEF Waiting, Cursor, OnNone
<1>6. /\ w.row \in Live(obj) /\ w.row \in Row
      /\ obj.record[w.row] \in Record /\ obj.record[w.row] # NULL
  BY <1>1, <1>2, <1>5, LiveType DEF EntryFits, Write
<1> QED
  BY <1>1, <1>2, <1>3, <1>4, <1>5, <1>6 DEF Rows

\* A visit leaves the invariant when it leaves its parts.
LEMMA VisitKeeps ==
  ASSUME NEW K \in Keys, pc = "saving", ~corrupt, fault = "none",
         UNCHANGED <<pc, corrupt, fault>>, Rows(obj', K), Modes(obj'),
         Unkeyed(obj'), Cursor(obj'), Table(obj, K)', Fetched(obj', K),
         Waiting(K)', Under(K)'
  PROVE  CarefulInvOf(K)'
BY DEF CarefulInvOf, Calmness, Settled

\* What has been visited has been dealt with.
LEMMA VisitedRows ==
  ASSUME QueueOK, NEW K, Under(K), walk \in Nat, NEW w, Visits(w),
         wrote \subseteq wrote', w.type # "DELETE" => w.row \in wrote'
  PROVE  \A e \in Fields(writequeue) : e.pos <= w.pos => e.row \in wrote'
<1> SUFFICES ASSUME NEW e \in Fields(writequeue), e.pos <= w.pos
             PROVE  e.row \in wrote'
  OBVIOUS
<1>1. /\ e \in writequeue /\ w \in writequeue /\ e.pos \in Nat /\ w.pos \in Nat
      /\ e.type # "DELETE"
  BY DEF Fields, Visits, QueueOK, Write
<1>2. CASE e.pos <= walk
  BY <1>2 DEF Under
<1>3. CASE e.pos > walk
  <2>1. e.pos = w.pos
    BY <1>1, <1>3 DEF Visits
  <2>2. e = w
    BY <1>1, <2>1 DEF QueueOK, HashAgrees
  <2> QED
    BY <1>1, <2>2
<1> QED
  BY <1>1, <1>2, <1>3

\* The entries of a statement, and what it writes to a column.
LEMMA WroteGives ==
  ASSUME QueueOK, NEW w, NEW f, NEW v
  PROVE  /\ \A e \in Group(w) : e.field = f => Wrote(Group(w), f, v) = e.value
         /\ (\A e \in Group(w) : e.field # f) => Wrote(Group(w), f, v) = v
<1>1. ASSUME NEW e \in Group(w), NEW x \in Group(w), e.field = x.field
      PROVE  e = x
  <2>1. HashKey(e) = HashKey(x) /\ e \in Fields(writequeue)
        /\ x \in Fields(writequeue)
    BY <1>1 DEF Group, HashKey
  <2>2. e.pos = x.pos
    BY <2>1 DEF QueueOK, HashAgrees
  <2> QED
    BY <2>1, <2>2 DEF QueueOK, HashAgrees, Fields
<1>2. ASSUME NEW e \in Group(w), e.field = f
      PROVE  Wrote(Group(w), f, v) = e.value
  <2>1. (CHOOSE x \in Group(w) : x.field = f) \in Group(w)
        /\ (CHOOSE x \in Group(w) : x.field = f).field = f
    BY <1>2
  <2>2. (CHOOSE x \in Group(w) : x.field = f) = e
    BY <1>1, <1>2, <2>1
  <2> QED
    BY <1>2, <2>2 DEF Wrote
<1> QED
  BY <1>2 DEF Wrote

\* A statement is made of inserts of a row that was never saved, or of updates
\* of one with an id.
LEMMA GroupGives ==
  ASSUME QueueOK, NEW K \in Keys, Rows(obj, K), Waiting(K), Under(K),
         NEW w \in writequeue, w.row \in Live(obj), NewGroup(w)
  PROVE  /\ Marked(Group(w)) # {}
         /\ LastMarked(Group(w)) \in Group(w)
         /\ w \in Group(w) /\ ~Malformed(Group(w))
         /\ \A e \in Group(w) :
              /\ e \in writequeue /\ e \in Write /\ e.row = w.row
              /\ e.type # "DELETE" /\ EntryFits(e, K)
              /\ e.type = "INSERT" <=> IsInsert(obj, w.row)
<1>1. w \in Group(w) /\ w \in Fields(writequeue)
  BY DEF Group, Fields, NewGroup
<1>2. Marked(Group(w)) # {}
  BY <1>1 DEF Under
<1>3. LastMarked(Group(w)) \in Group(w)
  BY <1>2, LastMarkedType
<1>4. ASSUME NEW e \in Group(w)
      PROVE  /\ e \in writequeue /\ e \in Write /\ e.row = w.row
             /\ e.type # "DELETE" /\ EntryFits(e, K)
             /\ e.type = "INSERT" <=> IsInsert(obj, w.row)
  <2>1. /\ e \in writequeue /\ e \in Write /\ e.row = w.row
        /\ e.type # "DELETE" /\ EntryFits(e, K)
    BY DEF Group, Fields, QueueOK, Waiting
  <2>2. obj.record[w.row] # NULL /\ RecordFits(obj.record[w.row], K[w.row])
    BY <2>1 DEF EntryFits, Rows
  <2>3. e.type = "INSERT" \/ e.type = "UPDATE"
    BY <2>1 DEF Write
  <2>4. e.type = "INSERT" => IsInsert(obj, w.row)
    BY <2>1, <2>2 DEF EntryFits, IsInsert, NewGroup
  <2>5. e.type = "UPDATE" => ~IsInsert(obj, w.row)
    BY <2>1, <2>2 DEF EntryFits, IsInsert, RecordFits
  <2> QED
    BY <2>1, <2>3, <2>4, <2>5
<1>5. ~Malformed(Group(w))
  <2>1. \A e \in Group(w) : e.type = "INSERT" \/ e.type = "UPDATE"
    BY <1>4 DEF Write
  <2> QED
    BY <1>4, <2>1 DEF Malformed
<1> QED
  BY <1>1, <1>2, <1>3, <1>4, <1>5

\* An entry was passed over, or is the one whose row is dealt with now.
LEMMA SaveSkipCareful ==
  ASSUME CarefulUse, IInv, NEW K \in Keys, CarefulInvOf(K),
         NEW w \in writequeue, SaveSkip(w)
  PROVE  CarefulInvOf(K)'
<1>1. /\ pc = "saving" /\ Visits(w) /\ walk' = w.pos /\ w.row \in wrote
      /\ UNCHANGED <<pc, others, backend, obj, queue, wrote, corrupt, fault>>
      /\ walk \in Nat
  BY DEF SaveSkip, Visited, IInv, Plain
<1>2. /\ QueueOK /\ fault = "none" /\ ~corrupt /\ OnRow(obj)
      /\ Rows(obj, K) /\ Modes(obj) /\ Unkeyed(obj) /\ Table(obj, K)
      /\ Fetched(obj, K) /\ Waiting(K) /\ Under(K)
  BY <1>1, VisitState
<1>3. \A e \in Fields(writequeue) : e.pos <= w.pos => e.row \in wrote'
  BY <1>1, <1>2, VisitedRows
<1>4. Under(K)'
  BY <1>1, <1>2, <1>3 DEF Under, Done, Group, Marked, Fields, queue, backend
<1>5. Table(obj, K)' /\ Waiting(K)'
  BY <1>1, <1>2
  DEF Table, backend, queue, Waiting, EntryFits, LastDeletes, KeyWritten
<1> QED
  BY <1>1, <1>2, <1>4, <1>5, VisitKeeps DEF Cursor

\* Every written row has a marked write, so none is passed over.
LEMMA SaveUnmarkedCareful ==
  ASSUME CarefulUse, IInv, NEW K \in Keys, CarefulInvOf(K),
         NEW w \in writequeue, SaveUnmarked(w)
  PROVE  FALSE
<1>1. pc = "saving" /\ Visits(w) /\ NewGroup(w) /\ Marked(Group(w)) = {}
  BY DEF SaveUnmarked, Visited
<1>2. Under(K) /\ QueueOK /\ Rows(obj, K) /\ Waiting(K) /\ w.row \in Live(obj)
  BY <1>1, VisitState
<1> QED
  BY <1>1, <1>2, GroupGives

\* A pending write and what a save makes of it, which is to give it an id.
Variant(e, x) ==
  /\ Same(e, x) /\ e.value = x.value /\ e.mark = x.mark
  /\ e.type = "DELETE" => e.id = x.id

\* A record and what a save makes of it.
Advances(s, r, i) ==
  /\ s # NULL /\ (r.id # NULL => s.id # NULL)
  /\ r.mode = "INSERT" => s.mode = "INSERT" \/ i \in wrote'
  /\ s.mode = "INSERT" => r.mode = "INSERT"
  /\ \A f \in Col : r.cache[f] # NULL => s.cache[f] = r.cache[f]

\* Writes go on waiting when rows have been dealt with.
LEMMA StepWaits ==
  ASSUME Sound(obj), QueueOK, NEW K \in Keys, Waiting(K),
         wrote \subseteq wrote',
         \A e \in writequeue' : \E x \in writequeue : Variant(e, x),
         \A x \in writequeue : \E e \in writequeue' : Variant(e, x),
         \A e \in writequeue' :
           e.id # NULL => Selects(e.id) = K[e.row] /\ ~e.id.freed,
         obj'.numrecord = obj.numrecord,
         obj'.currentrecord = obj.currentrecord,
         \A i \in Row : obj.record[i] # NULL =>
           Advances(obj'.record[i], obj.record[i], i),
         \A i \in Row : obj.record[i] = NULL => obj'.record[i] = NULL,
         Deleting => UNCHANGED obj
  PROVE  Waiting(K)'
<1>1. \A e \in writequeue : e.row \in Row
  BY DEF QueueOK, Write
<1>2. ASSUME NEW e \in writequeue' PROVE EntryFits(e, K)'
  <2>1. PICK x \in writequeue : Variant(e, x)
    OBVIOUS
  <2>2. /\ e.row = x.row /\ e.type = x.type /\ e.field = x.field
        /\ e.value = x.value /\ e.pos = x.pos /\ x.row \in Row
    BY <1>1, <2>1 DEF Variant, Same
  <2>3. EntryFits(x, K) /\ obj.record[x.row] # NULL
    BY <2>1 DEF Waiting, EntryFits
  <2>4. Advances(obj'.record[x.row], obj.record[x.row], x.row)
    BY <2>2, <2>3
  <2>5. e.field \in Field => e.field \in Col
    BY DEF Col
  <2> QED
    BY <2>2, <2>3, <2>4, <2>5 DEF EntryFits, Advances
<1>3. ASSUME NEW e \in writequeue', e.type = "DELETE" PROVE LastDeletes(e)'
  <2>1. PICK x \in writequeue : Variant(e, x)
    OBVIOUS
  <2>2. /\ e.row = x.row /\ x.type = "DELETE" /\ e.pos = x.pos /\ e.id = x.id
    BY <1>3, <2>1 DEF Variant, Same
  <2>3. LastDeletes(x) /\ UNCHANGED obj
    BY <2>1, <2>2 DEF Waiting, Deleting
  <2>4. ASSUME NEW y \in writequeue'
        PROVE  y.row = e.row /\ y.type # "INSERT" /\ y.pos <= e.pos
    <3>1. PICK z \in writequeue : Variant(y, z)
      OBVIOUS
    <3> QED
      BY <2>2, <2>3, <3>1 DEF LastDeletes, Variant, Same
  <2> QED
    BY <2>2, <2>3, <2>4 DEF LastDeletes
<1>4. /\ \A i : i \in Live(obj') <=> i \in Live(obj)
      /\ \A i \in Live(obj) : i \in Row
  BY LiveType DEF Live
<1>5. ASSUME NEW i \in Live(obj'), IsInsert(obj', i) PROVE KeyWritten(i)'
  <2>1. i \in Live(obj) /\ IsInsert(obj, i)
    BY <1>4, <1>5 DEF IsInsert, Advances
  <2>2. PICK x \in writequeue :
          x.row = i /\ x.type = "INSERT" /\ x.field = KeyField
    BY <2>1 DEF Waiting, KeyWritten
  <2>3. PICK e \in writequeue' : Variant(e, x)
    BY <2>2
  <2> QED
    BY <2>2, <2>3 DEF KeyWritten, Variant, Same
<1>6. Careful("newRowAlone") =>
        \A e, x \in writequeue' : e.type = "INSERT" => x.row = e.row
  <2>1. ASSUME Careful("newRowAlone"), NEW e \in writequeue',
               NEW x \in writequeue', e.type = "INSERT"
        PROVE  x.row = e.row
    <3>1. PICK a \in writequeue : Variant(e, a)
      OBVIOUS
    <3>2. PICK b \in writequeue : Variant(x, b)
      OBVIOUS
    <3> QED
      BY <2>1, <3>1, <3>2 DEF Variant, Same, Waiting
  <2> QED
    BY <2>1
<1>7. writequeue' # {} => obj'.currentrecord # NULL
  <2>1. writequeue' # {} => writequeue # {}
    OBVIOUS
  <2> QED
    BY <2>1 DEF Waiting
<1>8. \A e \in writequeue' : EntryFits(e, K)'
  BY <1>2
<1>9. \A e \in writequeue' : e.type = "DELETE" => LastDeletes(e)'
  BY <1>3
<1> QED
  BY <1>5, <1>6, <1>7, <1>8, <1>9 DEF Waiting

\* The marks of the rows stay, and a row that is dealt with is written.
LEMMA StepUnder ==
  ASSUME QueueOK, NEW K \in Keys, Under(K), walk \in Nat, NEW w, Visits(w),
         walk' = w.pos, wrote' = wrote \cup {w.row},
         \A e \in writequeue' : \E x \in writequeue : Variant(e, x),
         \A x \in writequeue : \E e \in writequeue' : Variant(e, x),
         \A e \in Fields(writequeue) : e.row \in wrote' => Done(e, K)'
  PROVE  Under(K)'
<1>1. \A e \in Fields(writequeue') : \E x \in Fields(writequeue) : Variant(e, x)
  BY DEF Fields, Variant, Same
<1>2. \A x \in Fields(writequeue) : \E e \in Fields(writequeue') : Variant(e, x)
  BY DEF Fields, Variant, Same
<1>3. \A e \in Fields(writequeue) : e.pos <= w.pos => e.row \in wrote'
  BY VisitedRows
<1>4. ASSUME NEW e \in Fields(writequeue') PROVE (Marked(Group(e)) # {})'
  <2>1. PICK x \in Fields(writequeue) : Variant(e, x)
    BY <1>1
  <2>2. PICK m \in Marked(Group(x)) : TRUE
    BY <2>1 DEF Under
  <2>3. m \in Fields(writequeue) /\ m.row = x.row /\ m.mark
    BY <2>2 DEF Marked, Group
  <2>4. PICK y \in Fields(writequeue') : Variant(y, m)
    BY <1>2, <2>3
  <2>5. y.row = e.row /\ y.mark
    BY <2>1, <2>3, <2>4 DEF Variant, Same
  <2>6. (\E z \in Fields(writequeue) : z.row = e.row /\ z.mark)'
    BY <2>4, <2>5
  <2> QED
    BY <2>6 DEF Marked, Group
<1>5. ASSUME NEW e \in Fields(writequeue'), e.pos <= walk'
      PROVE  e.row \in wrote'
  <2>1. PICK x \in Fields(writequeue) : Variant(e, x)
    BY <1>1
  <2> QED
    BY <1>3, <1>5, <2>1 DEF Variant, Same
<1>6. ASSUME NEW e \in Fields(writequeue'), e.row \in wrote'
      PROVE  Done(e, K)'
  <2>1. PICK x \in Fields(writequeue) : Variant(e, x)
    BY <1>1
  <2>2. Done(x, K)' /\ x.row = e.row /\ x.field = e.field /\ x.value = e.value
    BY <1>6, <2>1 DEF Variant, Same
  <2> QED
    BY <2>2 DEF Done
<1> QED
  BY <1>4, <1>5, <1>6 DEF Under, Fields

\* The id a statement of a row of the table uses selects that row.
LEMMA WhereGives ==
  ASSUME Sound(obj), NEW K \in Keys, Rows(obj, K), Modes(obj), Unkeyed(obj),
         Fetched(obj, K), OnRow(obj), Waiting(K), NEW e \in writequeue,
         e.row \in Live(obj), e.type = "UPDATE" \/ e.type = "DELETE"
  PROVE  /\ WhereId(e) # NULL =>
              Selects(WhereId(e)) = K[e.row] /\ ~WhereId(e).freed
         /\ WhereFault(e) = "none"
         /\ e.type = "UPDATE" => WhereId(e) # NULL /\ AfterWhere(e) = obj
<1> DEFINE r == obj.record[e.row]
<1>1. /\ EntryFits(e, K) /\ r # NULL /\ RecordFits(r, K[e.row])
      /\ K[e.row] \in Key
  BY DEF Waiting, EntryFits, Rows
<1>2. CASE e.type = "UPDATE"
  <2>1. r.id # NULL
    BY <1>1, <1>2 DEF EntryFits
  <2> QED
    BY <1>1, <1>2, <2>1
    DEF WhereId, WhereFault, AfterWhere, Guesses, EntryFits, RecordFits
<1>3. CASE e.type = "DELETE"
  <2>1. e.row = obj.currentrow /\ e.id = r.id /\ obj.currentid = r.id
    BY <1>3 DEF Waiting, LastDeletes
  <2>2. CASE r.id # NULL
    BY <1>1, <1>3, <2>1, <2>2 DEF WhereId, WhereFault, RecordFits
  <2>3. CASE r.id = NULL
    <3>1. At(obj)
      BY DEF At, OnRow
    <3>2. IdGet(obj) \in {NULL, NewId(K[e.row])}
      BY <2>1, <3>1, IdHere
    <3>3. WhereId(e) \in {NULL, NewId(K[e.row])}
      BY <2>1, <2>3, <3>2 DEF WhereId
    <3> QED
      BY <1>1, <1>3, <3>3, NewIdType DEF WhereFault
  <2> QED
    BY <2>2, <2>3
<1> QED
  BY <1>2, <1>3

\* The statements of a row of the table have an id.
LEMMA UpdateGives ==
  ASSUME IInv, NEW K \in Keys, CarefulInvOf(K), pc = "saving",
         NEW w \in writequeue, Visits(w), GroupOf(w, "UPDATE")
  PROVE  LET l == LastMarked(Group(w)) IN
         /\ l \in writequeue /\ l \in Write /\ l.row = w.row
         /\ l.type = "UPDATE" /\ ~IsInsert(obj, w.row)
         /\ WhereId(l) # NULL /\ WhereFault(l) = "none" /\ AfterWhere(l) = obj
         /\ Selects(WhereId(l)) = K[w.row] /\ ~WhereId(l).freed
         /\ K[w.row] # NULL /\ obj.record[w.row].cache[KeyField] = K[w.row]
<1> DEFINE l == LastMarked(Group(w))
<1>1. /\ Sound(obj) /\ QueueOK /\ Rows(obj, K) /\ Modes(obj) /\ Unkeyed(obj)
      /\ OnRow(obj) /\ Fetched(obj, K) /\ Waiting(K) /\ Under(K)
      /\ w.row \in Live(obj) /\ NewGroup(w) /\ l.type = "UPDATE"
  BY VisitState DEF GroupOf
<1>2. /\ l \in writequeue /\ l \in Write /\ l.row = w.row
      /\ l.type = "INSERT" <=> IsInsert(obj, w.row)
  BY <1>1, GroupGives
<1>3. ~IsInsert(obj, w.row)
  BY <1>1, <1>2
<1>5. K[w.row] # NULL /\ obj.record[w.row].cache[KeyField] = K[w.row]
  <2>1. obj.record[w.row] # NULL /\ obj.record[w.row].id # NULL
    BY <1>1, <1>2 DEF Waiting, EntryFits
  <2> QED
    BY <1>1, <2>1, KeyType DEF Rows, RecordFits
<1> HIDE DEF l
<1>4. /\ WhereId(l) # NULL => Selects(WhereId(l)) = K[l.row] /\ ~WhereId(l).freed
      /\ WhereFault(l) = "none"
      /\ WhereId(l) # NULL /\ AfterWhere(l) = obj
  BY <1>1, <1>2, WhereGives
<1> QED
  BY <1>1, <1>2, <1>3, <1>4, <1>5 DEF l

\* The entry that is given the id is still the same write.
LEMMA WithWhereVariants ==
  ASSUME QueueOK, Sound(obj), NEW K, Waiting(K), NEW l \in writequeue,
         WhereFault(l) = "none", l.type = "UPDATE",
         Selects(WhereId(l)) = K[l.row], ~WhereId(l).freed
  PROVE  /\ \A e \in WithWhere(l) : \E x \in writequeue : Variant(e, x)
         /\ \A x \in writequeue : \E e \in WithWhere(l) : Variant(e, x)
         /\ \A e \in WithWhere(l) :
              e.id # NULL => Selects(e.id) = K[e.row] /\ ~e.id.freed
<1> DEFINE v == [l EXCEPT !.id = WhereId(l)]
<1>1. l \in Write
  BY DEF QueueOK
<1>2. /\ Variant(v, l) /\ v.id = WhereId(l) /\ v.row = l.row
  BY <1>1 DEF Variant, Same, Write
<1>3. WithWhere(l) = (writequeue \ {l}) \cup {v}
  BY DEF WithWhere
<1> HIDE DEF v
<1>4. \A x \in writequeue : Variant(x, x)
  BY DEF Variant, Same
<1>5. \A e \in writequeue : e.id # NULL => Selects(e.id) = K[e.row] /\ ~e.id.freed
  BY DEF Waiting, EntryFits
<1> QED
  BY <1>2, <1>3, <1>4, <1>5

\* What an update leaves in the table.
LEMMA UpdateStores ==
  ASSUME CarefulUse, IInv, NEW K \in Keys, CarefulInvOf(K),
         NEW w \in writequeue, SaveUpdate(w)
  PROVE  LET k == K[w.row] IN
         /\ obj' = obj /\ writequeue' = WithWhere(LastMarked(Group(w)))
         /\ db[k] # NULL /\ db \in [Key -> TableRow \cup {NULL}]
         /\ \A j \in Key : j # k => db'[j] = db[j]
         /\ \A f \in Field : db'[k][f] = Wrote(Group(w), f, db[k][f])
         /\ db'[k] # NULL
<1> DEFINE G == Group(w)
           l == LastMarked(G)
           k == K[w.row]
           r == [f \in Field |-> Wrote(G, f, db[k][f])]
<1>1. pc = "saving" /\ Visits(w) /\ GroupOf(w, "UPDATE")
  BY DEF SaveUpdate, Visited
<1>2. /\ ~IsInsert(obj, w.row) /\ AfterWhere(l) = obj
      /\ Selects(WhereId(l)) = k
  BY <1>1, UpdateGives
<1>3. QueueOK /\ Table(obj, K) /\ w.row \in Live(obj) /\ k \in Key
  BY <1>1, VisitState
<1>4. db[k] # NULL /\ db \in [Key -> TableRow \cup {NULL}]
  BY <1>2, <1>3 DEF Table, IInv, Plain
<1>5. /\ obj' = obj /\ writequeue' = WithWhere(l)
      /\ db' = [db EXCEPT ![k] = r]
  <2> HIDE DEF l, k, G
  <2> QED
    BY <1>2, <1>4 DEF SaveUpdate, l, G
<1>6. r # NULL /\ \A f \in Field : r[f] = Wrote(G, f, db[k][f])
  <2> DEFINE n == db[k]
             h == [f \in Field |-> Wrote(Group(w), f, n[f])]
  <2>1. r = h /\ \A f \in Field : n[f] \in Datum \cup {NULL}
    BY <1>3, <1>4 DEF TableRow
  <2>2. QueueOK /\ \A f \in Field : n[f] \in Datum \cup {NULL}
    BY <1>3, <2>1
  <2> HIDE DEF n
  <2>3. h # NULL
    BY ONLY <2>2, WrittenRow
  <2> QED
    BY <2>1, <2>3
<1> HIDE DEF r
<1> QED
  BY <1>3, <1>4, <1>5, <1>6

\* An update of a row of the table.
LEMMA SaveUpdateCareful ==
  ASSUME CarefulUse, IInv, NEW K \in Keys, CarefulInvOf(K),
         NEW w \in writequeue, SaveUpdate(w)
  PROVE  CarefulInvOf(K)'
<1> DEFINE G == Group(w)
           l == LastMarked(G)
           k == K[w.row]
<1>1. /\ pc = "saving" /\ Visits(w) /\ GroupOf(w, "UPDATE") /\ NewGroup(w)
      /\ walk' = w.pos /\ wrote' = wrote \cup {w.row} /\ walk \in Nat
      /\ UNCHANGED <<pc, corrupt, fault, nextkey>>
  BY DEF SaveUpdate, Visited, DealtWith, GroupOf, IInv, Plain
<1>2. /\ l \in writequeue /\ l.row = w.row /\ l.type = "UPDATE"
      /\ ~IsInsert(obj, w.row) /\ WhereFault(l) = "none"
      /\ AfterWhere(l) = obj
      /\ Selects(WhereId(l)) = k /\ ~WhereId(l).freed
      /\ obj.record[w.row].cache[KeyField] # NULL
  BY <1>1, UpdateGives
<1>3. /\ Sound(obj) /\ QueueOK /\ fault = "none" /\ ~corrupt
      /\ Rows(obj, K) /\ Modes(obj) /\ Unkeyed(obj) /\ OnRow(obj)
      /\ Table(obj, K) /\ Fetched(obj, K) /\ Waiting(K) /\ Under(K)
      /\ w.row \in Live(obj) /\ w.row \in Row /\ k \in Key
      /\ obj.record[w.row] # NULL
  BY <1>1, VisitState
<1>4. /\ obj' = obj /\ writequeue' = WithWhere(l)
      /\ db[k] # NULL /\ db \in [Key -> TableRow \cup {NULL}]
      /\ \A j \in Key : j # k => db'[j] = db[j]
      /\ \A f \in Field : db'[k][f] = Wrote(G, f, db[k][f])
      /\ db'[k] # NULL
  BY UpdateStores
<1>5. /\ obj' = obj /\ writequeue' = WithWhere(l)
  BY <1>4
<1>8. /\ \A j \in Key : j # k => db'[j] = db[j]
      /\ \A f \in Field : db'[k][f] = Wrote(G, f, db[k][f])
      /\ db'[k] # NULL
  BY <1>4
<1> HIDE DEF l
<1>6. /\ \A e \in writequeue' : \E x \in writequeue : Variant(e, x)
      /\ \A x \in writequeue : \E e \in writequeue' : Variant(e, x)
      /\ \A e \in writequeue' :
           e.id # NULL => Selects(e.id) = K[e.row] /\ ~e.id.freed
  BY <1>2, <1>3, <1>5, WithWhereVariants
<1>7. Waiting(K)'
  <2>1. \A i \in Row : obj.record[i] # NULL =>
          Advances(obj'.record[i], obj.record[i], i)
    BY <1>5 DEF Advances
  <2> QED
    BY <1>1, <1>3, <1>5, <1>6, <2>1, StepWaits
<1>9. Table(obj, K)'
  <2>1. \A j \in Key : db'[j] = NULL <=> db[j] = NULL
    BY <1>4, <1>8
  <2> QED
    BY <1>1, <1>3, <1>5, <2>1 DEF Table, Rows
<1>10. Under(K)'
  <2>1. ASSUME NEW e \in Fields(writequeue), e.row \in wrote' PROVE Done(e, K)'
    <3>1. e \in writequeue /\ e.row \in Row /\ e.type # "DELETE"
      BY <1>3 DEF Fields, QueueOK, Write
    <3>2. CASE e.row = w.row
      <4>1. e \in G
        BY <2>1, <3>2 DEF Group
      <4>2. e.field \in Field => db'[k][e.field] = e.value
        BY <1>3, <1>8, <4>1, WroteGives
      <4> QED
        BY <1>2, <1>3, <1>5, <3>2, <4>2 DEF Done, IsInsert
    <3>3. CASE e.row # w.row
      <4>1. Done(e, K)
        BY <1>1, <1>3, <2>1, <3>3 DEF Under
      <4>2. e.row \in Live(obj)
        BY <1>3, <3>1, LiveType DEF Waiting, EntryFits
      <4>3. K[e.row] # k /\ K[e.row] \in Key
        BY <1>3, <3>3, <4>2, KeysApart DEF Rows
      <4> QED
        BY <1>5, <1>8, <4>1, <4>3 DEF Done
    <3> QED
      BY <3>2, <3>3
  <2> QED
    BY <1>1, <1>3, <1>6, <2>1, StepUnder
<1> QED
  BY <1>1, <1>3, <1>5, <1>7, <1>9, <1>10, VisitKeeps DEF Cursor

\* A row of the table has an id to update it by.
LEMMA SaveNoWhereCareful ==
  ASSUME CarefulUse, IInv, NEW K \in Keys, CarefulInvOf(K),
         NEW w \in writequeue, SaveNoWhere(w)
  PROVE  FALSE
BY UpdateGives DEF SaveNoWhere, Visited

\* No statement runs into what is not there.
LEMMA SaveCrashCareful ==
  ASSUME CarefulUse, IInv, NEW K \in Keys, CarefulInvOf(K),
         NEW w \in writequeue, SaveCrash(w)
  PROVE  FALSE
<1>1. /\ pc = "saving" /\ Visits(w) /\ Crash(w) # "none"
      /\ w.type = "DELETE" \/ GroupOf(w, "UPDATE")
  BY DEF SaveCrash
<1>2. CASE w.type = "DELETE"
  <2>1. /\ Sound(obj) /\ Rows(obj, K) /\ Modes(obj) /\ Unkeyed(obj)
        /\ Fetched(obj, K) /\ OnRow(obj) /\ Waiting(K)
        /\ w.row \in Live(obj) /\ obj.record[w.row] # NULL
    BY <1>1, VisitState
  <2>2. WhereFault(w) = "none"
    BY <1>2, <2>1, WhereGives
  <2> QED
    BY <1>1, <1>2, <2>1, <2>2 DEF Crash
<1>3. CASE w.type # "DELETE" /\ GroupOf(w, "UPDATE")
  BY <1>1, <1>3, UpdateGives DEF Crash
<1> QED
  BY <1>1, <1>2, <1>3

\* The key a new row is inserted with is the one it shows.
LEMMA InsertGives ==
  ASSUME IInv, NEW K \in Keys, CarefulInvOf(K), pc = "saving",
         NEW w \in writequeue, Visits(w), GroupOf(w, "INSERT")
  PROVE  /\ IsInsert(obj, w.row) /\ InsertKey(Group(w)) = K[w.row]
         /\ K[w.row] # NULL /\ db[K[w.row]] = NULL /\ K[w.row] < nextkey
<1> DEFINE G == Group(w)
           l == LastMarked(G)
<1>1. /\ Sound(obj) /\ QueueOK /\ Rows(obj, K) /\ Table(obj, K) /\ Waiting(K)
      /\ Under(K) /\ w.row \in Live(obj) /\ NewGroup(w) /\ l.type = "INSERT"
      /\ K[w.row] \in Key
  BY VisitState DEF GroupOf
<1>2. l \in G /\ (l.type = "INSERT" <=> IsInsert(obj, w.row))
  BY <1>1, GroupGives
<1>3. PICK e \in writequeue :
        e.row = w.row /\ e.type = "INSERT" /\ e.field = KeyField
  BY <1>1, <1>2 DEF Waiting, KeyWritten
<1>4. e \in G /\ e.value = K[w.row]
  BY <1>1, <1>3 DEF Group, Fields, Waiting, EntryFits
<1>5. \A v : Wrote(G, KeyField, v) = K[w.row]
  BY <1>1, <1>3, <1>4, WroteGives
<1>6. db[K[w.row]] = NULL /\ K[w.row] < nextkey /\ K[w.row] # NULL
  BY <1>1, <1>2, KeyType DEF Table
<1> QED
  BY <1>1, <1>2, <1>5, <1>6 DEF InsertKey

\* A new row becomes one of the table, with an id if the object can still make
\* them; the key of the row the object is on may be looked up on the way.
Inserted(p, o, row, K, id) ==
  /\ p.numrecord = o.numrecord /\ p.state = o.state /\ p.res = o.res
  /\ p.currentrow = o.currentrow /\ p.currentrecord = o.currentrecord
  /\ p.mode = (IF o.currentrow = row THEN "INSERT_SAVED" ELSE o.mode)
  /\ p.currentid = (IF o.currentrow = row THEN id ELSE o.currentid)
  /\ id # NULL => id.oid = K[row] /\ ~id.freed
  /\ id # NULL => ~p.noprimarykey /\ ~o.noprimarykey
  /\ id = NULL => p.noprimarykey /\ o.res = NULL /\ o.state # "NEW"
  /\ LET s == p.record[row]
         r == o.record[row]
     IN  /\ s \in Record /\ s.mode = "INSERT_SAVED" /\ s.id = id
         /\ s.cache = r.cache
  /\ \A i \in Row \ {row} : o.record[i] = NULL => p.record[i] = NULL
  /\ \A i \in Row \ {row} : o.record[i] # NULL =>
       LET s == p.record[i]
           r == o.record[i]
       IN  /\ s \in Record /\ s.mode = r.mode /\ s.id = r.id
           /\ \A f \in Col \ {KeyField} : s.cache[f] = r.cache[f]
           /\ r.cache[KeyField] # NULL => s.cache[KeyField] = r.cache[KeyField]
           /\ s.cache[KeyField] \in {NULL, K[i]}

\* The array after an insert.
LEMMA InsertedKeeps ==
  ASSUME NEW o, Sound(o), NEW K \in Keys, Rows(o, K), Modes(o), Unkeyed(o),
         Fetched(o, K), OnRow(o), NEW row \in Live(o), IsInsert(o, row),
         NEW p, NEW id, Inserted(p, o, row, K, id)
  PROVE  Rows(p, K) /\ Modes(p) /\ Unkeyed(p) /\ Fetched(p, K) /\ OnRow(p)
<1>1. /\ row \in Row /\ \A i \in Live(o) : i \in Row /\ i < o.numrecord
      /\ Live(p) = Live(o) /\ K[row] \in Key /\ o.record[row] # NULL
      /\ ~(row >= o.numrecord) /\ o.record[row].mode = "INSERT"
      /\ o.record[row].cache[KeyField] = K[row]
      /\ o.currentrow \in Row
  <2>1. /\ row \in Row /\ \A i \in Live(o) : i \in Row /\ i < o.numrecord
        /\ o.numrecord \in Nat /\ Row \subseteq Nat /\ o.currentrow \in Row
    BY LiveType
  <2>2. ~(row >= o.numrecord)
    BY <2>1
  <2>3. Live(p) = Live(o)
    BY DEF Live, Inserted
  <2>4. /\ K[row] \in Key /\ o.record[row] # NULL
        /\ o.record[row].mode = "INSERT"
        /\ o.record[row].cache[KeyField] = K[row]
    BY DEF Rows, IsInsert, RecordFits
  <2> QED
    BY <2>1, <2>2, <2>3, <2>4
<1>2. /\ p.record[row] # NULL /\ p.record[row].mode = "INSERT_SAVED"
      /\ p.record[row].id = id /\ p.record[row].cache = o.record[row].cache
  BY NullAssumption DEF Inserted
<1>3. \A i \in Row \ {row} :
        /\ o.record[i] = NULL => p.record[i] = NULL
        /\ o.record[i] # NULL =>
             /\ p.record[i] # NULL
             /\ p.record[i].mode = o.record[i].mode
             /\ p.record[i].id = o.record[i].id
  BY NullAssumption DEF Inserted
<1>4. \A i \in Row : IsNew(p, i) <=> IsNew(o, i)
  BY <1>1, <1>2, <1>3 DEF IsNew, Inserting
<1>5. \A i \in Row \ {row} : Stuck(p, i) <=> Stuck(o, i)
  BY <1>3 DEF Stuck
<1>6. Stuck(p, row) <=> id = NULL
  BY <1>2 DEF Stuck
<1>7. RecordFits(p.record[row], K[row])
  BY <1>1, <1>2, KeyType DEF RecordFits, Inserted, Selects
<1>8. ASSUME NEW i \in Live(o), i # row, p.record[i] # NULL
      PROVE  RecordFits(p.record[i], K[i])
  <2>1. i \in Row \ {row} /\ o.record[i] # NULL /\ RecordFits(o.record[i], K[i])
    BY <1>1, <1>3, <1>8 DEF Rows
  <2> QED
    BY <2>1 DEF RecordFits, Inserted
<1>9. Rows(p, K)
  <2>1. \A i \in Row : i >= p.numrecord => p.record[i] = NULL
    BY <1>1, <1>3 DEF Rows, Inserted
  <2> QED
    BY <1>1, <1>4, <1>7, <1>8, <2>1 DEF Rows
<1>10. Modes(p)
  BY <1>1, <1>4 DEF Modes, Inserted, Unkeyed
<1>11. Unkeyed(p)
  <2>1. CASE id = NULL
    BY <1>1, <1>6, <2>1 DEF Unkeyed, Inserted
  <2>2. CASE id # NULL
    BY <1>1, <1>4, <1>5, <1>6, <2>2 DEF Unkeyed, Inserted
  <2> QED
    BY <2>1, <2>2
<1>12. Fetched(p, K)
  BY <1>1, <1>4 DEF Fetched, Inserted
<1>13. OnRow(p)
  <2>1. CASE o.currentrow = row
    BY <1>2, <2>1 DEF OnRow, Inserted
  <2>2. CASE o.currentrow # row
    BY <1>1, <1>3, <2>2 DEF OnRow, Inserted
  <2> QED
    BY <2>1, <2>2
<1> QED
  BY <1>9, <1>10, <1>11, <1>12, <1>13

\* bonddb_write_handleinsert.
LEMMA HandleInsertGives ==
  ASSUME NEW o, Sound(o), NEW K \in Keys, Rows(o, K), Modes(o), Unkeyed(o),
         Fetched(o, K), OnRow(o), NEW row \in Live(o), IsInsert(o, row)
  PROVE  \E id : Inserted(HandleInsert(o, row, K[row]), o, row, K, id)
<1> DEFINE r == o.record[row]
           sr == [r EXCEPT !.mode = "INSERT_SAVED"]
           s == [o EXCEPT !.record[row].mode = "INSERT_SAVED"]
           c == o.currentrow
           y == AfterIdGet(s)
           id == IF IdGet(s) = NULL THEN NULL
                 ELSE [IdGet(s) EXCEPT !.oid = K[row]]
           t == [y EXCEPT !.record[row].id = id]
           p == HandleInsert(o, row, K[row])
<1>1. /\ row \in Row /\ c \in Row /\ c < o.numrecord /\ c \in Live(o)
      /\ o.record \in [Row -> Record \cup {NULL}]
      /\ r # NULL /\ r \in Record /\ o.record[c] # NULL /\ o.record[c] \in Record
      /\ K[row] \in Key /\ K[c] \in Key /\ K[row] # NULL /\ K[c] # NULL
      /\ o.currentrecord = c /\ o.record[c].mode = o.mode
  <2>1. /\ row \in Row /\ c \in Row /\ c < o.numrecord /\ c \in Live(o)
        /\ o.record \in [Row -> Record \cup {NULL}]
        /\ r # NULL /\ o.record[c] # NULL
        /\ o.currentrecord = c /\ o.record[c].mode = o.mode
    BY LiveType DEF OnRow, IsInsert
  <2> QED
    BY <2>1, KeyType DEF Rows
<1>2. /\ RecordFits(r, K[row]) /\ RecordFits(o.record[c], K[c])
      /\ r.mode = "INSERT" /\ r.id = NULL /\ r.cache[KeyField] = K[row]
      /\ r.cache[KeyField] # NULL
  BY <1>1 DEF Rows, IsInsert, RecordFits
<1>3. sr \in Record /\ sr.mode = "INSERT_SAVED" /\ sr.id = NULL
      /\ sr.cache = r.cache /\ sr # NULL
  <2>1. sr \in Record /\ sr.mode = "INSERT_SAVED" /\ sr.id = NULL
        /\ sr.cache = r.cache
    BY <1>1, <1>2 DEF Record, Mode
  <2> QED
    BY <2>1, NullAssumption
<1>4. /\ s.record = [o.record EXCEPT ![row] = sr]
      /\ s.numrecord = o.numrecord /\ s.state = o.state /\ s.res = o.res
      /\ s.noprimarykey = o.noprimarykey /\ s.currentrow = c
      /\ s.currentrecord = c /\ s.mode = o.mode /\ s.currentid = o.currentid
      /\ s \in Object
  <2>1. s = [o EXCEPT !.record[row] = sr]
    OBVIOUS
  <2>2. s \in Object
    BY <1>1, <1>3, <2>1, PlaceRecord DEF Sound
  <2> HIDE DEF sr
  <2> QED
    BY <1>1, <2>1, <2>2 DEF Sound, Object
<1>5. /\ s.record \in [Row -> Record \cup {NULL}] /\ s.record[row] = sr
      /\ \A i \in Row \ {row} : s.record[i] = o.record[i]
      /\ s.record[c] # NULL /\ s.record[c] \in Record
      /\ s.record[c].cache = o.record[c].cache
  <2>1. /\ s.record \in [Row -> Record \cup {NULL}] /\ s.record[row] = sr
        /\ \A i \in Row \ {row} : s.record[i] = o.record[i]
    BY <1>1, <1>4 DEF Object
  <2>2. CASE c = row
    BY <1>3, <2>1, <2>2
  <2>3. CASE c # row
    BY <1>1, <2>1, <2>3
  <2> QED
    BY <2>1, <2>2, <2>3
<1>6. p = IF c = row THEN [t EXCEPT !.mode = "INSERT_SAVED", !.currentid = id]
          ELSE t
  BY DEF HandleInsert
<1> HIDE DEF s, sr
<1>7. /\ Usable(s) <=> Usable(o)
      /\ CurrentKey(s) = CurrentKey(o)
  <2>1. Usable(s) <=> Usable(o)
    BY <1>1, <1>4 DEF Usable
  <2> QED
    BY <1>1, <1>4, <1>5, <2>1 DEF CurrentKey
<1>8. /\ Usable(o) <=> o.mode \in Inserting \/ o.res # NULL
      /\ ~o.noprimarykey /\ Usable(o) => CurrentKey(s) = K[c]
      /\ ~Usable(o) => CurrentKey(s) = NULL
  <2>1. At(o)
    BY DEF At, OnRow
  <2> QED
    BY <1>7, <2>1, KeyHere
<1>9. o.state = "NEW" => Usable(o) /\ ~o.noprimarykey
  BY <1>1, <1>8 DEF Modes, IsNew
<1> DEFINE b == [s.record EXCEPT ![c].cache[KeyField] = K[c]]
<1>10. CASE o.noprimarykey \/ ~Usable(o)
  <2>1. /\ id = NULL
        /\ y = IF o.noprimarykey THEN s ELSE [s EXCEPT !.noprimarykey = TRUE]
    BY <1>4, <1>8, <1>10 DEF IdGet, AfterIdGet
  <2>2. o.res = NULL /\ o.state # "NEW"
    BY <1>8, <1>9, <1>10 DEF Unkeyed
  <2> HIDE DEF id
  <2>3. /\ y.record = s.record /\ y.numrecord = o.numrecord
        /\ y.state = o.state /\ y.res = o.res /\ y.noprimarykey = TRUE
        /\ y.currentrow = c /\ y.currentrecord = c /\ y.mode = o.mode
        /\ y.currentid = o.currentid /\ y \in Object
    <3>1. CASE o.noprimarykey
      BY <1>4, <2>1, <3>1 DEF Object
    <3>2. CASE ~o.noprimarykey
      BY <1>4, <2>1, <3>2 DEF Object
    <3> QED
      BY <3>1, <3>2
  <2> HIDE DEF y
  <2>4. [s.record EXCEPT ![row].id = NULL] = s.record
    <3>1. [s.record[row] EXCEPT !.id = NULL] = s.record[row]
      BY <1>3, <1>5 DEF Record
    <3> QED
      BY <1>1, <1>5, <3>1
  <2>5. /\ t.record = s.record /\ t.numrecord = o.numrecord
        /\ t.state = o.state /\ t.res = o.res /\ t.noprimarykey
        /\ t.currentrow = c /\ t.currentrecord = c /\ t.mode = o.mode
        /\ t.currentid = o.currentid /\ DOMAIN t = DOMAIN o
    BY <2>1, <2>3, <2>4 DEF Object, Sound
  <2> HIDE DEF t
  <2>6. /\ p.record = s.record /\ p.numrecord = o.numrecord
        /\ p.state = o.state /\ p.res = o.res /\ p.noprimarykey
        /\ p.currentrow = c /\ p.currentrecord = c
        /\ p.mode = (IF c = row THEN "INSERT_SAVED" ELSE o.mode)
        /\ p.currentid = (IF c = row THEN id ELSE o.currentid)
    <3>1. CASE c = row
      <4>1. p = [t EXCEPT !.mode = "INSERT_SAVED", !.currentid = id]
        BY <1>6, <3>1
      <4> HIDE DEF p
      <4> QED
        BY <2>5, <3>1, <4>1 DEF Sound, Object
    <3>2. CASE c # row
      BY <1>6, <2>5, <3>2
    <3> QED
      BY <3>1, <3>2
  <2> HIDE DEF p
  <2>7. Inserted(p, o, row, K, id)
    <3>1. \A i \in Row \ {row} : o.record[i] # NULL =>
            o.record[i] \in Record /\ o.record[i].cache[KeyField] \in {NULL, K[i]}
      BY <1>1, LiveType DEF Rows, RecordFits
    <3> HIDE DEF r
    <3> QED
      BY <1>1, <1>3, <1>5, <2>1, <2>2, <2>6, <3>1 DEF Inserted, r
  <2> QED
    BY <2>7 DEF p
<1>11. CASE ~o.noprimarykey /\ Usable(o)
  <2>1. /\ IdGet(s) = NewId(K[c])
        /\ y = [s EXCEPT !.record[c].cache[KeyField] = K[c]]
    BY <1>1, <1>4, <1>8, <1>11 DEF IdGet, AfterIdGet
  <2>2. id # NULL /\ id.oid = K[row] /\ ~id.freed /\ id \in Id
    <3>1. /\ NewId(K[c]) \in Id /\ NewId(K[c]) # NULL /\ ~NewId(K[c]).freed
      BY <1>1, NewIdType
    <3>2. id = [NewId(K[c]) EXCEPT !.oid = K[row]]
      BY <2>1, <3>1
    <3>3. id \in Id /\ id.oid = K[row] /\ ~id.freed
      BY <1>1, <3>1, <3>2 DEF Id
    <3> QED
      BY <3>3, NullAssumption
  <2> HIDE DEF id
  <2>3. /\ y.record = b /\ y.numrecord = o.numrecord
        /\ y.state = o.state /\ y.res = o.res /\ y.noprimarykey = FALSE
        /\ y.currentrow = c /\ y.currentrecord = c /\ y.mode = o.mode
        /\ y.currentid = o.currentid /\ DOMAIN y = DOMAIN o
    BY <1>4, <1>11, <2>1 DEF Object, Sound
  <2> HIDE DEF y, b
  <2>5. /\ t.record = [b EXCEPT ![row].id = id] /\ t.numrecord = o.numrecord
        /\ t.state = o.state /\ t.res = o.res /\ t.noprimarykey = FALSE
        /\ t.currentrow = c /\ t.currentrecord = c /\ t.mode = o.mode
        /\ t.currentid = o.currentid /\ DOMAIN t = DOMAIN o
    BY <2>3 DEF Object, Sound
  <2> HIDE DEF t
  <2>6. /\ p.record = [b EXCEPT ![row].id = id] /\ p.numrecord = o.numrecord
        /\ p.state = o.state /\ p.res = o.res /\ p.noprimarykey = FALSE
        /\ p.currentrow = c /\ p.currentrecord = c
        /\ p.mode = (IF c = row THEN "INSERT_SAVED" ELSE o.mode)
        /\ p.currentid = (IF c = row THEN id ELSE o.currentid)
    <3>1. CASE c = row
      <4>1. p = [t EXCEPT !.mode = "INSERT_SAVED", !.currentid = id]
        BY <1>6, <3>1
      <4> HIDE DEF p
      <4> QED
        BY <2>5, <3>1, <4>1 DEF Sound, Object
    <3>2. CASE c # row
      BY <1>6, <2>5, <3>2
    <3> QED
      BY <3>1, <3>2
  <2> HIDE DEF p
  <2> DEFINE z == s.record[c]
             zk == [z EXCEPT !.cache[KeyField] = K[c]]
  <2>7. /\ zk \in Record /\ zk.mode = z.mode /\ zk.id = z.id
        /\ zk.cache = [z.cache EXCEPT ![KeyField] = K[c]]
        /\ \A f \in Col \ {KeyField} : zk.cache[f] = z.cache[f]
        /\ zk.cache[KeyField] = K[c]
    <3>1. [z.cache EXCEPT ![KeyField] = K[c]] \in Cache /\ z.cache \in Cache
      BY <1>1, <1>5, CacheWrite DEF Record, Col, Datum
    <3> QED
      BY <1>5, <3>1 DEF Record, Cache, Col
  <2>8. b = [s.record EXCEPT ![c] = zk]
    BY DEF b
  <2> HIDE DEF zk
  <2>9. /\ b \in [Row -> Record \cup {NULL}] /\ b[c] = zk
        /\ \A i \in Row \ {c} : b[i] = s.record[i]
    BY <1>1, <1>5, <2>7, <2>8
  <2>10. /\ b[row] \in Record /\ b[row].mode = "INSERT_SAVED"
         /\ b[row].cache = r.cache
    <3>1. CASE c = row
      <4>1. z.cache = r.cache /\ z.mode = "INSERT_SAVED"
        BY <1>3, <1>5, <3>1
      <4>2. [r.cache EXCEPT ![KeyField] = K[c]] = r.cache
        BY <1>1, <1>2, <3>1 DEF Record, Cache
      <4> QED
        BY <2>7, <2>9, <3>1, <4>1, <4>2
    <3>2. CASE c # row
      BY <1>1, <1>3, <1>5, <2>9, <3>2
    <3> QED
      BY <3>1, <3>2
  <2>11. /\ p.record[row] \in Record /\ p.record[row].mode = "INSERT_SAVED"
         /\ p.record[row].cache = r.cache /\ p.record[row].id = id
         /\ \A i \in Row \ {row} : p.record[i] = b[i]
    <3> DEFINE x == [b[row] EXCEPT !.id = id]
    <3>1. p.record = [b EXCEPT ![row] = x]
      BY <2>6
    <3>2. x \in Record /\ x.mode = b[row].mode /\ x.cache = b[row].cache
          /\ x.id = id
      BY <2>2, <2>10 DEF Record
    <3> HIDE DEF x
    <3> QED
      BY <1>1, <2>9, <2>10, <3>1, <3>2
  <2>12. ASSUME NEW i \in Row \ {row}, o.record[i] # NULL
         PROVE  /\ p.record[i] \in Record /\ p.record[i].mode = o.record[i].mode
                /\ p.record[i].id = o.record[i].id
                /\ \A f \in Col \ {KeyField} :
                     p.record[i].cache[f] = o.record[i].cache[f]
                /\ o.record[i].cache[KeyField] # NULL =>
                     p.record[i].cache[KeyField] = o.record[i].cache[KeyField]
                /\ p.record[i].cache[KeyField] \in {NULL, K[i]}
    <3>1. /\ o.record[i] \in Record
          /\ o.record[i].cache[KeyField] \in {NULL, K[i]}
      BY <1>1, <2>12, LiveType DEF Rows, RecordFits
    <3>2. CASE i = c
      <4>1. p.record[i] = zk /\ z = o.record[i]
        BY <1>5, <2>9, <2>11, <2>12, <3>2
      <4> QED
        BY <2>7, <3>1, <3>2, <4>1
    <3>3. CASE i # c
      BY <1>5, <2>9, <2>11, <3>1, <3>3
    <3> QED
      BY <3>2, <3>3
  <2>13. \A i \in Row \ {row} : o.record[i] = NULL => p.record[i] = NULL
    BY <1>1, <1>5, <2>9, <2>11
  <2>14. Inserted(p, o, row, K, id)
    <3> HIDE DEF r, z
    <3> QED
      BY <1>1, <1>11, <2>2, <2>6, <2>11, <2>12, <2>13 DEF Inserted, r
  <2> QED
    BY <2>14 DEF p
<1> QED
  BY <1>10, <1>11

\* What an insert leaves in the table.
LEMMA InsertStores ==
  ASSUME CarefulUse, IInv, NEW K \in Keys, CarefulInvOf(K),
         NEW w \in writequeue, SaveInsert(w)
  PROVE  LET k == K[w.row] IN
         /\ obj' = HandleInsert(obj, w.row, k) /\ fault' = fault
         /\ nextkey' = nextkey
         /\ \A j \in Key : j # k => db'[j] = db[j]
         /\ \A f \in Field : db'[k][f] = Wrote(Group(w), f, NULL)
         /\ db'[k] # NULL
<1> DEFINE G == Group(w)
           row == w.row
           k == K[w.row]
           r == obj.record[w.row]
           g == [f \in Field |-> Wrote(G, f, NULL)]
<1>1. pc = "saving" /\ Visits(w) /\ GroupOf(w, "INSERT")
  BY DEF SaveInsert, Visited
<1>2. IsInsert(obj, row) /\ InsertKey(G) = k /\ k < nextkey
  BY <1>1, InsertGives
<1>3. QueueOK /\ k \in Key /\ r # NULL /\ RecordFits(r, k)
  BY <1>1, VisitState
<1>4. /\ obj' = HandleInsert(obj, row, k) /\ fault' = fault
      /\ db' = [db EXCEPT ![k] = g]
      /\ nextkey' = IF k = nextkey THEN k + 1 ELSE nextkey
  <2>1. r.id = NULL
    BY <1>2, <1>3 DEF IsInsert, RecordFits
  <2> HIDE DEF k, r
  <2> QED
    BY <1>2, <1>3, <2>1 DEF SaveInsert, r
<1>5. nextkey' = nextkey /\ db \in [Key -> TableRow \cup {NULL}]
  <2>1. nextkey \in Nat /\ k \in Nat
    BY <1>3, KeyType DEF IInv, Plain
  <2> QED
    BY <1>2, <1>4, <2>1 DEF IInv, Plain
<1>6. g # NULL /\ \A f \in Field : g[f] = Wrote(G, f, NULL)
  <2> DEFINE n == [f \in Field |-> NULL]
             h == [f \in Field |-> Wrote(Group(w), f, n[f])]
  <2>1. g = h /\ \A f \in Field : n[f] \in Datum \cup {NULL}
    OBVIOUS
  <2>2. QueueOK /\ \A f \in Field : n[f] \in Datum \cup {NULL}
    BY <1>3, <2>1
  <2> HIDE DEF n
  <2>3. h # NULL
    BY ONLY <2>2, WrittenRow
  <2> QED
    BY <2>1, <2>3
<1> HIDE DEF g
<1> QED
  BY <1>3, <1>4, <1>5, <1>6

\* A new row is inserted into the table.
LEMMA SaveInsertCareful ==
  ASSUME CarefulUse, IInv, NEW K \in Keys, CarefulInvOf(K),
         NEW w \in writequeue, SaveInsert(w)
  PROVE  CarefulInvOf(K)'
<1> DEFINE G == Group(w)
           row == w.row
           k == K[w.row]
           r == obj.record[w.row]
<1>1. /\ pc = "saving" /\ Visits(w) /\ GroupOf(w, "INSERT") /\ NewGroup(w)
      /\ walk' = w.pos /\ wrote' = wrote \cup {w.row} /\ walk \in Nat
      /\ UNCHANGED <<pc, corrupt, queue>>
  BY DEF SaveInsert, Visited, DealtWith, GroupOf, IInv, Plain
<1>2. IsInsert(obj, row) /\ InsertKey(G) = k /\ db[k] = NULL /\ k < nextkey
  BY <1>1, InsertGives
<1>3. /\ Sound(obj) /\ QueueOK /\ fault = "none" /\ ~corrupt
      /\ Rows(obj, K) /\ Modes(obj) /\ Unkeyed(obj) /\ OnRow(obj)
      /\ Table(obj, K) /\ Fetched(obj, K) /\ Waiting(K) /\ Under(K)
      /\ row \in Live(obj) /\ row \in Row /\ k \in Key
      /\ r # NULL /\ RecordFits(r, k)
  BY <1>1, VisitState
<1>4. \A e \in G : e.type = "INSERT"
  BY <1>1, <1>2, <1>3, GroupGives
<1>5. /\ obj' = HandleInsert(obj, row, k) /\ UNCHANGED fault
      /\ nextkey' = nextkey
  BY InsertStores
<1>6. /\ \A j \in Key : j # k => db'[j] = db[j]
      /\ \A f \in Field : db'[k][f] = Wrote(G, f, NULL)
      /\ db'[k] # NULL
  BY InsertStores
<1>7. PICK id : Inserted(obj', obj, row, K, id)
  BY <1>2, <1>3, <1>5, HandleInsertGives
<1>8. Rows(obj', K) /\ Modes(obj') /\ Unkeyed(obj') /\ Fetched(obj', K)
      /\ OnRow(obj')
  BY <1>2, <1>3, <1>7, InsertedKeeps
<1>9. /\ obj'.record[row] # NULL /\ obj'.record[row].mode = "INSERT_SAVED"
      /\ obj'.record[row].cache = r.cache
      /\ \A i \in Row \ {row} :
           /\ obj.record[i] = NULL => obj'.record[i] = NULL
           /\ obj.record[i] # NULL =>
                /\ obj'.record[i] # NULL
                /\ obj'.record[i].mode = obj.record[i].mode
                /\ obj'.record[i].id = obj.record[i].id
                /\ \A f \in Col : obj.record[i].cache[f] # NULL =>
                     obj'.record[i].cache[f] = obj.record[i].cache[f]
  BY <1>7, NullAssumption DEF Inserted, Col
<1>10. /\ obj'.numrecord = obj.numrecord /\ obj'.state = obj.state
       /\ obj'.currentrecord = obj.currentrecord
       /\ Live(obj') = Live(obj) /\ \A i \in Live(obj) : i \in Row
  BY <1>3, <1>7, LiveType DEF Inserted, Live
<1>11. ~Deleting
  <2>1. w.type = "INSERT"
    BY <1>1, <1>3, <1>4, GroupGives
  <2> QED
    BY <1>3, <2>1 DEF Deleting, Waiting, LastDeletes
<1> HIDE DEF r
<1>12. Waiting(K)'
  <2>1. \A i \in Row : obj.record[i] # NULL =>
          Advances(obj'.record[i], obj.record[i], i)
    <3>1. ASSUME NEW i \in Row, i = row
          PROVE  Advances(obj'.record[i], obj.record[i], i)
      <4>1. r.mode = "INSERT" /\ r.id = NULL
        BY <1>2, <1>3 DEF IsInsert, r, RecordFits
      <4> QED
        BY <1>1, <1>9, <3>1, <4>1 DEF Advances, r
    <3>2. ASSUME NEW i \in Row, i # row, obj.record[i] # NULL
          PROVE  Advances(obj'.record[i], obj.record[i], i)
      BY <1>9, <3>2 DEF Advances
    <3> QED
      BY <3>1, <3>2
  <2>2. \A i \in Row : obj.record[i] = NULL => obj'.record[i] = NULL
    BY <1>3, <1>9 DEF r
  <2>3. \A e \in writequeue : Variant(e, e)
    BY DEF Variant, Same
  <2>4. \A e \in writequeue : e.id # NULL => Selects(e.id) = K[e.row] /\ ~e.id.freed
    BY <1>3 DEF Waiting, EntryFits
  <2>5. writequeue' = writequeue
    BY <1>1 DEF queue
  <2>6. wrote \subseteq wrote'
    BY <1>1
  <2> QED
    BY <1>3, <1>10, <1>11, <2>1, <2>2, <2>3, <2>4, <2>5, <2>6, StepWaits
<1>14. \A i \in Live(obj) : i # row => K[i] # k /\ K[i] \in Key
  BY <1>3, KeysApart DEF Rows
<1>15. Table(obj, K)'
  <2>1. /\ \A j \in Key : db'[j] # NULL => j < nextkey'
        /\ \A i \in Live(obj') : K[i] < nextkey'
    BY <1>2, <1>3, <1>5, <1>6, <1>10 DEF Table
  <2>2. \A i \in Live(obj') : db'[K[i]] = NULL <=> IsInsert(obj', i)
    <3>1. ASSUME NEW i \in Live(obj), i # row
          PROVE  db'[K[i]] = NULL <=> IsInsert(obj', i)
      <4>1. db'[K[i]] = db[K[i]] /\ i \in Row
        BY <1>10, <1>6, <1>14, <3>1
      <4>2. IsInsert(obj', i) <=> IsInsert(obj, i)
        BY <1>9, <3>1, <4>1 DEF IsInsert
      <4> QED
        BY <1>3, <4>1, <4>2 DEF Table
    <3>2. db'[K[row]] # NULL /\ ~IsInsert(obj', row)
      BY <1>9, <1>6 DEF IsInsert
    <3> QED
      BY <1>10, <3>1, <3>2
  <2>3. obj'.state = "READ_RAW" =>
          \A j \in Key : db'[j] # NULL => \E i \in Live(obj') : K[i] = j
    BY <1>3, <1>10, <1>6 DEF Table
  <2> QED
    BY <2>1, <2>2, <2>3 DEF Table
<1>16. Under(K)'
  <2>1. ASSUME NEW e \in Fields(writequeue), e.row \in wrote' PROVE Done(e, K)'
    <3>1. e \in writequeue /\ e.row \in Row /\ e.type # "DELETE"
      BY <1>3 DEF Fields, QueueOK, Write
    <3>2. CASE e.row = row
      <4>1. e \in G
        BY <2>1, <3>2 DEF Group
      <4>2. e.field \in Field => db'[k][e.field] = e.value
        BY <1>3, <1>6, <4>1, WroteGives
      <4>3. r.cache[KeyField] # NULL
        BY <1>2, <1>3 DEF IsInsert, r, RecordFits
      <4> QED
        BY <1>9, <3>2, <4>2, <4>3 DEF Done
    <3>3. CASE e.row # row
      <4>1. Done(e, K)
        BY <1>1, <1>3, <2>1, <3>3 DEF Under
      <4>2. e.row \in Live(obj) /\ obj.record[e.row] # NULL
        BY <1>3, <3>1, LiveType DEF Waiting, EntryFits
      <4>3. K[e.row] # k /\ K[e.row] \in Key
        BY <1>14, <3>3, <4>2
      <4> QED
        BY <1>9, <1>6, <3>1, <3>3, <4>1, <4>2, <4>3 DEF Done, Col
    <3> QED
      BY <3>2, <3>3
  <2>2. \A e \in writequeue : Variant(e, e)
    BY DEF Variant, Same
  <2>3. writequeue' = writequeue
    BY <1>1 DEF queue
  <2> QED
    BY <1>1, <1>3, <2>1, <2>2, <2>3, StepUnder
<1> QED
  BY <1>1, <1>3, <1>5, <1>8, <1>12, <1>15, <1>16, VisitKeeps DEF Cursor

\* Where the invariant stands when bonddb_write_all is done, nothing deleted.
LEMMA ReturnKeeps ==
  ASSUME NEW K \in Keys, CarefulInvOf(K), pc = "saving", ~corrupt,
         NEW Q, Finish(Q), UNCHANGED <<db, nextkey, obj, fault>>, Waiting(K)'
  PROVE  CarefulInvOf(K)'
<1>1. pc' = "idle" /\ walk' = 0 /\ wrote' = {} /\ ~corrupt'
  BY DEF Finish
<1>2. /\ fault = "none" /\ Rows(obj, K) /\ Modes(obj) /\ Unkeyed(obj)
      /\ Cursor(obj) /\ Table(obj, K) /\ Fetched(obj, K)
  BY DEF CarefulInvOf, Calmness, Settled
<1>3. Table(obj, K)'
  BY <1>2 DEF Table
<1> QED
  BY <1>1, <1>2, <1>3 DEF CarefulInvOf, Calmness, Settled

\* A statement is rejected: the new row, if there is one, is all that waits.
LEMMA SaveFailRowCareful ==
  ASSUME CarefulUse, IInv, NEW K \in Keys, CarefulInvOf(K),
         NEW w \in writequeue, SaveFailRow(w)
  PROVE  CarefulInvOf(K)'
<1> DEFINE G == Group(w)
           l == LastMarked(G)
           inserts == GroupOf(w, "INSERT")
           Q == IF inserts THEN writequeue ELSE WithWhere(l)
<1>1. /\ pc = "saving" /\ Visits(w) /\ NewGroup(w)
      /\ inserts \/ GroupOf(w, "UPDATE")
      /\ Finish(Kept(w, Q)) /\ UNCHANGED <<db, nextkey, others, fault>>
  BY DEF SaveFailRow, GroupOf
<1>2. /\ Sound(obj) /\ QueueOK /\ fault = "none" /\ ~corrupt
      /\ Rows(obj, K) /\ Waiting(K) /\ Under(K) /\ w.row \in Live(obj)
      /\ w \in writequeue
  BY <1>1, VisitState
<1>3. ~Malformed(G) /\ (inserts => InsertKey(G) # NULL)
  BY <1>1, <1>2, GroupGives, InsertGives
<1>4. MayFail # {} /\ Careful("newRowAlone")
  <2>1. MayFail # {}
    BY <1>3 DEF SaveFailRow, Rejects
  <2> QED
    BY <2>1, Rules
<1>5. obj' = obj
  <2>1. ~inserts => AfterWhere(l) = obj
    BY <1>1, UpdateGives
  <2> HIDE DEF inserts, l
  <2> QED
    BY <2>1 DEF SaveFailRow, inserts, l
<1>6. /\ \A e \in Q : \E x \in writequeue : Variant(e, x)
      /\ \A x \in writequeue : \E e \in Q : Variant(e, x)
      /\ \A e \in Q : e.id # NULL => Selects(e.id) = K[e.row] /\ ~e.id.freed
  <2>1. CASE inserts
    <3>1. Q = writequeue
      BY <2>1
    <3>2. \A e \in writequeue : Variant(e, e)
      BY DEF Variant, Same
    <3>3. \A e \in writequeue :
            e.id # NULL => Selects(e.id) = K[e.row] /\ ~e.id.freed
      BY <1>2 DEF Waiting, EntryFits
    <3> QED
      BY <3>1, <3>2, <3>3
  <2>2. CASE ~inserts
    <3>1. /\ l \in writequeue /\ WhereFault(l) = "none" /\ l.type = "UPDATE"
          /\ Selects(WhereId(l)) = K[l.row] /\ ~WhereId(l).freed
      BY <1>1, <2>2, UpdateGives
    <3>2. Q = WithWhere(l)
      BY <2>2
    <3> HIDE DEF Q, l
    <3> QED
      BY <1>2, <3>1, <3>2, WithWhereVariants
  <2> QED
    BY <2>1, <2>2
<1> HIDE DEF Q
<1>7. writequeue' = Kept(w, Q) /\ wrote' = {}
  BY <1>1 DEF Finish, Leave
<1>8. \A x \in writequeue : x.type = "INSERT" => w.row = x.row
  BY <1>2, <1>4 DEF Waiting
<1>9. ASSUME NEW e \in writequeue' PROVE EntryFits(e, K)'
  <2>1. e \in Q
    BY <1>7 DEF Kept
  <2>2. PICK x \in writequeue : Variant(e, x)
    BY <1>6, <2>1
  <2>3. EntryFits(x, K)
    BY <1>2 DEF Waiting
  <2>4. e.type = "INSERT" => obj.record[e.row].mode = "INSERT"
    <3>1. e.type = "INSERT" => x.type = "INSERT" /\ w.row = x.row /\ e.row = x.row
      BY <1>8, <2>2 DEF Variant, Same
    <3> QED
      BY <1>1, <2>3, <3>1 DEF EntryFits, NewGroup
  <2>5. e.id # NULL => Selects(e.id) = K[e.row] /\ ~e.id.freed
    BY <1>6, <2>1
  <2> QED
    BY <1>5, <2>2, <2>3, <2>4, <2>5 DEF EntryFits, Variant, Same
<1>10. ASSUME NEW e \in writequeue', e.type = "DELETE" PROVE LastDeletes(e)'
  <2>1. \A y \in writequeue' : \E x \in writequeue : Variant(y, x)
    BY <1>6, <1>7 DEF Kept
  <2>2. PICK x \in writequeue : Variant(e, x)
    BY <2>1
  <2>3. /\ LastDeletes(x) /\ e.row = x.row /\ e.pos = x.pos /\ e.id = x.id
    BY <1>2, <1>10, <2>2 DEF Waiting, Variant, Same
  <2>4. ASSUME NEW y \in writequeue'
        PROVE  y.row = e.row /\ y.type # "INSERT" /\ y.pos <= e.pos
    <3>1. PICK z \in writequeue : Variant(y, z)
      BY <2>1
    <3> QED
      BY <2>3, <3>1 DEF LastDeletes, Variant, Same
  <2> QED
    BY <1>5, <2>3, <2>4 DEF LastDeletes
<1>11. ASSUME NEW i \in Live(obj'), IsInsert(obj', i) PROVE KeyWritten(i)'
  <2>1. i \in Live(obj) /\ IsInsert(obj, i)
    BY <1>5, <1>11
  <2>2. PICK x \in writequeue :
          x.row = i /\ x.type = "INSERT" /\ x.field = KeyField
    BY <1>2, <2>1 DEF Waiting, KeyWritten
  <2>3. PICK e \in Q : Variant(e, x)
    BY <1>6, <2>2
  <2>4. x \in Pending(w.row) /\ e.pos = x.pos /\ x.pos \in Nat
    BY <1>2, <1>8, <2>2, <2>3 DEF Pending, Variant, Same, QueueOK, Write
  <2>5. e \in writequeue'
    <3>1. e.pos >= x.pos
      BY <2>4
    <3> QED
      BY <1>7, <2>4, <3>1 DEF Kept
  <2> QED
    BY <2>2, <2>3, <2>5 DEF KeyWritten, Variant, Same
<1>12. \A e, x \in writequeue' : e.type = "INSERT" => x.row = e.row
  <2>1. ASSUME NEW e \in writequeue', NEW x \in writequeue', e.type = "INSERT"
        PROVE  x.row = e.row
    <3>1. PICK a \in writequeue : Variant(e, a)
      BY <1>6, <1>7 DEF Kept
    <3>2. PICK b \in writequeue : Variant(x, b)
      BY <1>6, <1>7 DEF Kept
    <3> QED
      BY <1>2, <1>4, <2>1, <3>1, <3>2 DEF Variant, Same, Waiting
  <2> QED
    BY <2>1
<1>13. Waiting(K)'
  <2>1. obj'.currentrecord # NULL
    BY <1>2, <1>5 DEF Waiting
  <2>2. \A e \in writequeue' : EntryFits(e, K)'
    BY <1>9
  <2>3. \A e \in writequeue' : e.type = "DELETE" => LastDeletes(e)'
    BY <1>10
  <2> QED
    BY <1>11, <1>12, <2>1, <2>2, <2>3 DEF Waiting
<1> QED
  BY <1>1, <1>2, <1>5, <1>13, ReturnKeeps

\* Every entry was visited.
LEMMA SaveEndCareful ==
  ASSUME CarefulUse, IInv, NEW K \in Keys, CarefulInvOf(K), SaveEnd
  PROVE  CarefulInvOf(K)'
<1>1. /\ pc = "saving" /\ Unvisited = {} /\ Finish({})
      /\ UNCHANGED <<backend, obj, fault>>
      /\ writequeue' = {} /\ walk' = 0 /\ wrote' = {} /\ ~corrupt'
      /\ pc' = IF corrupt /\ obj.res # NULL THEN "refresh" ELSE "idle"
  BY DEF SaveEnd, Finish, Leave
<1>2. /\ Sound(obj) /\ QueueOK /\ walk \in Nat /\ fault = "none"
      /\ Rows(obj, K) /\ Modes(obj) /\ Unkeyed(obj) /\ Cursor(obj)
      /\ Table(obj, K)
  BY DEF IInv, Plain, CarefulInvOf, Calmness
<1>3. \A i \in Live(obj) : ~IsInsert(obj, i)
  <2>1. CASE corrupt
    BY <2>1 DEF CarefulInvOf, Settled, Gap
  <2>2. CASE ~corrupt
    <3>1. Waiting(K) /\ Under(K)
      BY <1>1, <2>2 DEF CarefulInvOf, Settled
    <3>2. ASSUME NEW i \in Live(obj), IsInsert(obj, i) PROVE FALSE
      <4>1. PICK e \in writequeue : e.row = i /\ e.type = "INSERT"
        BY <3>1, <3>2 DEF Waiting, KeyWritten
      <4>2. e \in Fields(writequeue) /\ e.pos \in Nat
        BY <1>2, <4>1 DEF Fields, QueueOK, Write
      <4>3. e.pos <= walk
        BY <1>1, <1>2, <4>1, <4>2 DEF Unvisited
      <4>4. Done(e, K)
        BY <3>1, <4>2, <4>3 DEF Under
      <4> QED
        BY <3>2, <4>1, <4>4 DEF Done, IsInsert
    <3> QED
      BY <3>2
  <2> QED
    BY <2>1, <2>2
<1>4. Waiting(K)' /\ Table(obj, K)'
  BY <1>1, <1>2, <1>3 DEF Waiting, Table, backend
<1>5. CASE ~corrupt
  BY <1>1, <1>4, <1>5, ReturnKeeps DEF backend
<1>6. CASE corrupt
  <2>1. obj.currentrecord = NULL /\ obj.currentid = NULL
    BY <1>6 DEF CarefulInvOf, Settled, Gap
  <2>2. CASE obj.res # NULL
    <3>1. Gap'
      BY <1>1, <1>3, <1>6, <2>1, <2>2 DEF Gap
    <3> QED
      BY <1>1, <1>2, <1>4, <1>6, <2>2, <3>1 DEF CarefulInvOf, Calmness, Settled
  <2>3. CASE obj.res = NULL
    <3>1. Fetched(obj', K)
      BY <1>1, <2>3 DEF Fetched
    <3> QED
      BY <1>1, <1>2, <1>4, <1>6, <2>3, <3>1 DEF CarefulInvOf, Calmness, Settled
  <2> QED
    BY <2>2, <2>3
<1> QED
  BY <1>5, <1>6

\* Where a deletion finds the object: it is on the row that goes, which has an
\* id or can be given one, and nothing else is pending.
LEMMA DeletionState ==
  ASSUME IInv, NEW K \in Keys, CarefulInvOf(K), pc = "saving",
         NEW w \in writequeue, Visits(w), w.type = "DELETE"
  PROVE  /\ w.row = obj.currentrow /\ At(obj)
         /\ ~IsInsert(obj, w.row) /\ \A i \in Live(obj) : ~IsInsert(obj, i)
         /\ w.id = obj.record[w.row].id /\ obj.currentid = w.id
         /\ \A x \in writequeue : x.row = w.row /\ x.pos <= w.pos
<1>1. Waiting(K) /\ OnRow(obj) /\ obj.record[w.row] # NULL
  BY VisitState
<1>2. /\ w.row = obj.currentrow /\ obj.record[w.row].mode # "INSERT"
      /\ w.id = obj.record[w.row].id /\ obj.currentid = obj.record[w.row].id
      /\ \A x \in writequeue :
           x.row = w.row /\ x.type # "INSERT" /\ x.pos <= w.pos
  BY <1>1 DEF Waiting, LastDeletes
<1>3. \A i \in Live(obj) : ~IsInsert(obj, i)
  BY <1>1, <1>2 DEF Waiting, KeyWritten
<1> QED
  BY <1>1, <1>2, <1>3 DEF At, OnRow, IsInsert

\* q is the object with its row as bonddb_write_sql_where leaves it.
Aims(q, row) ==
  /\ q.numrecord = obj.numrecord /\ q.state = obj.state /\ q.res = obj.res
  /\ q.noprimarykey = obj.noprimarykey /\ q.currentrow = obj.currentrow
  /\ \A j \in Row \ {row} : q.record[j] = obj.record[j]

\* A deletion is aimed at the row of its place.
LEMMA AimGives ==
  ASSUME IInv, NEW K \in Keys, CarefulInvOf(K), pc = "saving",
         NEW w \in writequeue, Visits(w), w.type = "DELETE", WhereId(w) # NULL
  PROVE  /\ Aims(AfterWhere(w), w.row) /\ Selects(WhereId(w)) = K[w.row]
         /\ obj.noprimarykey => ~Stuck(obj, w.row)
<1> DEFINE row == w.row
           id == IdGet(obj)
           q == AfterWhere(w)
<1>1. /\ Sound(obj) /\ Rows(obj, K) /\ Modes(obj) /\ Unkeyed(obj)
      /\ OnRow(obj) /\ Fetched(obj, K) /\ Waiting(K) /\ row \in Live(obj)
      /\ row \in Row /\ obj.record[row] # NULL
      /\ obj.record \in [Row -> Record \cup {NULL}]
  BY VisitState, LiveType
<1>2. /\ row = obj.currentrow /\ w.id = obj.record[row].id
      /\ obj.currentid = w.id /\ At(obj)
  BY DeletionState
<1>3. Selects(WhereId(w)) = K[row]
  BY <1>1, WhereGives
<1>4. CASE w.id # NULL
  <2>1. q = obj
    BY <1>4 DEF AfterWhere, Guesses
  <2> HIDE DEF q
  <2>2. Aims(q, row)
    BY <2>1 DEF Aims
  <2>3. ~Stuck(obj, row)
    BY <1>2, <1>4 DEF Stuck
  <2> QED
    BY <1>3, <2>2, <2>3 DEF q
<1>5. CASE w.id = NULL
  <2>1. Guessable /\ id # NULL
    BY <1>2, <1>5 DEF WhereId
  <2>2. q = [AfterIdGet(obj) EXCEPT !.record[row].id = id, !.currentid = id]
    BY <1>2, <1>5, <2>1 DEF AfterWhere, Guesses
  <2>3. /\ ~obj.noprimarykey
        /\ AfterIdGet(obj) = [obj EXCEPT !.record[row].cache[KeyField] = K[row]]
    <3>1. /\ obj.noprimarykey => id = NULL
          /\ ~obj.noprimarykey /\ Usable(obj) =>
              AfterIdGet(obj) = [obj EXCEPT !.record[row].cache[KeyField] = K[row]]
          /\ ~obj.noprimarykey /\ ~Usable(obj) => id = NULL
      BY <1>1, <1>2, IdHere
    <3> QED
      BY <2>1, <3>1
  <2> DEFINE y == [obj EXCEPT !.record[row].cache[KeyField] = K[row]]
  <2>4. /\ y.record = [obj.record EXCEPT ![row].cache[KeyField] = K[row]]
        /\ y.numrecord = obj.numrecord /\ y.state = obj.state
        /\ y.res = obj.res /\ y.noprimarykey = obj.noprimarykey
        /\ y.currentrow = obj.currentrow /\ DOMAIN y = DOMAIN obj
    BY <1>1 DEF Sound, Object
  <2> HIDE DEF id
  <2>5. q = [y EXCEPT !.record[row].id = id, !.currentid = id]
    BY <2>2, <2>3
  <2> HIDE DEF y, q
  <2>6. /\ q.record = [y.record EXCEPT ![row].id = id]
        /\ q.numrecord = obj.numrecord /\ q.state = obj.state
        /\ q.res = obj.res /\ q.noprimarykey = obj.noprimarykey
        /\ q.currentrow = obj.currentrow
    BY <1>1, <2>4, <2>5 DEF Sound, Object
  <2>7. \A j \in Row \ {row} : q.record[j] = obj.record[j]
    BY <1>1, <2>4, <2>6
  <2>8. Aims(q, row)
    BY <2>6, <2>7 DEF Aims
  <2> QED
    BY <1>3, <2>3, <2>8 DEF q
<1> QED
  BY <1>4, <1>5

\* A row of the table is deleted.
LEMMA SaveDeleteCareful ==
  ASSUME CarefulUse, IInv, NEW K \in Keys, CarefulInvOf(K),
         NEW w \in writequeue, SaveDelete(w)
  PROVE  CarefulInv'
<1> DEFINE row == w.row
           q == AfterWhere(w)
           k == K[w.row]
<1>1. /\ pc = "saving" /\ Visits(w) /\ w.type = "DELETE" /\ WhereId(w) # NULL
      /\ WhereFault(w) = "none"
      /\ obj' = RecordDelete(q, row) /\ writequeue' = Orphaned(w)
      /\ db' = [db EXCEPT ![Selects(WhereId(w))] = NULL]
      /\ walk' = w.pos /\ corrupt' = TRUE
      /\ UNCHANGED <<nextkey, pc, wrote, fault>>
  BY DEF SaveDelete, Deletes, Deletable
<1>2. /\ Sound(obj) /\ QueueOK /\ fault = "none" /\ Rows(obj, K) /\ Modes(obj)
      /\ Unkeyed(obj) /\ Table(obj, K) /\ row \in Live(obj) /\ row \in Row
      /\ row \in Nat /\ k \in Key /\ w \in Write
      /\ db \in [Key -> TableRow \cup {NULL}]
  BY <1>1, VisitState, LiveType DEF IInv, Plain
<1>3. /\ row = obj.currentrow /\ \A i \in Live(obj) : ~IsInsert(obj, i)
      /\ \A x \in writequeue : x.row = row /\ x.pos <= w.pos
  BY <1>1, DeletionState
<1>4. /\ Aims(q, row) /\ Selects(WhereId(w)) = k
      /\ obj.noprimarykey => ~Stuck(obj, row)
  BY <1>1, AimGives
<1>5. Sound(q)
  BY <1>1, <1>2, WhereType
<1> HIDE DEF q
<1>6. /\ row = q.currentrow /\ row \in Live(q) /\ Live(q) = Live(obj)
      /\ \A i \in Row : i >= q.numrecord => q.record[i] = NULL
  <2>1. row = q.currentrow /\ Live(q) = Live(obj)
    BY <1>3, <1>4 DEF Aims, Live
  <2>2. \A i \in Row : i >= q.numrecord => i # row
    BY <1>2, <1>4, LiveType DEF Aims
  <2> QED
    BY <1>2, <1>4, <2>1, <2>2 DEF Aims, Rows
<1>7. PICK L \in Keys :
        /\ Closes(obj', q, row, K, L)
        /\ obj'.currentrecord = NULL /\ obj'.currentid = NULL
  BY <1>1, <1>5, <1>6, DeleteGives
<1>8. Closes(obj', obj, row, K, L)
  <2>1. \A i : i \in Live(obj) => i \in Row /\ i \in Nat
    BY <1>2, LiveType
  <2>2. \A i \in Live(obj') : i < row => i # row
    BY <1>2 DEF Live
  <2>3. \A i \in Live(obj') : row < i + 1 => i + 1 # row
    BY <1>2 DEF Live
  <2>4. /\ obj'.numrecord = obj.numrecord - 1 /\ obj'.state = obj.state
        /\ obj'.res = obj.res /\ obj'.noprimarykey = obj.noprimarykey
        /\ \A i \in Row : i >= obj'.numrecord => obj'.record[i] = NULL
    BY <1>4, <1>7 DEF Closes, Aims
  <2>5. \A i \in Live(obj') : i < row =>
          i \in Live(obj) /\ obj'.record[i] = obj.record[i] /\ L[i] = K[i]
    BY <1>4, <1>6, <1>7, <2>1, <2>2 DEF Closes, Aims
  <2>6. \A i \in Live(obj') : ~(i < row) =>
          /\ i + 1 \in Live(obj) /\ row < i + 1
          /\ obj'.record[i] = obj.record[i + 1] /\ L[i] = K[i + 1]
    BY <1>4, <1>6, <1>7, <2>1, <2>3 DEF Closes, Aims
  <2>7. \A j \in Live(obj) \ {row} : \E i \in Live(obj') :
          obj'.record[i] = obj.record[j] /\ L[i] = K[j]
    BY <1>4, <1>6, <1>7, <2>1 DEF Closes, Aims
  <2> QED
    BY <2>4, <2>5, <2>6, <2>7 DEF Closes
<1>9. /\ Rows(obj', L) /\ Modes(obj')
      /\ \A i \in Live(obj') : \E j \in Live(obj) \ {row} :
           obj'.record[i] = obj.record[j] /\ L[i] = K[j]
  BY <1>2, <1>8, ClosedRows, ClosesFrom
<1>10. Unkeyed(obj')
  BY <1>2, <1>4, <1>8, ClosedKeyed
<1>11. Cursor(obj')
  BY <1>7 DEF Cursor, OnNone
<1>12. \A i \in Live(obj') : ~IsInsert(obj', i)
  BY <1>3, <1>9 DEF IsInsert
<1>13. Table(obj, L)'
  <2>1. /\ db'[k] = NULL /\ \A j \in Key : j # k => db'[j] = db[j]
    BY <1>1, <1>2, <1>4
  <2>2. \A j \in Live(obj) \ {row} : K[j] # k /\ K[j] \in Key
    BY <1>2, KeysApart DEF Rows
  <2>3. \A i \in Live(obj') : L[i] < nextkey /\ db'[L[i]] # NULL
    BY <1>2, <1>3, <1>9, <2>1, <2>2 DEF Table
  <2>4. \A j \in Key : db'[j] # NULL => j < nextkey
    BY <1>2, <2>1 DEF Table
  <2>5. ASSUME obj'.state = "READ_RAW", NEW j \in Key, db'[j] # NULL
        PROVE  \E i \in Live(obj') : L[i] = j
    <3>1. obj.state = "READ_RAW" /\ db[j] # NULL /\ j # k
      BY <1>8, <2>1, <2>5 DEF Closes
    <3>2. PICK i \in Live(obj) : K[i] = j
      BY <1>2, <3>1 DEF Table
    <3> QED
      BY <1>8, <3>1, <3>2 DEF Closes
  <2> QED
    BY <1>1, <1>12, <2>3, <2>4, <2>5 DEF Table
<1>14. Gap'
  <2>1. \A e \in writequeue' : \E x \in writequeue : Same(e, x)
    <3>1. \A x \in writequeue : x \in Write
      BY <1>2 DEF QueueOK
    <3>2. \A x \in writequeue : Same(x, x)
      BY DEF Same
    <3>3. \A x \in writequeue : \A j : Same([x EXCEPT !.id = j], x)
      BY <3>1 DEF Same, Write
    <3> QED
      BY <1>1, <3>2, <3>3 DEF Orphaned, StaleQueue
  <2>2. \E d \in writequeue' : Same(d, w)
    <3>1. \A j : Same([w EXCEPT !.id = j], w)
      BY <1>2 DEF Same, Write
    <3>2. Same(w, w)
      BY DEF Same
    <3> QED
      BY <1>1, <3>1, <3>2 DEF Orphaned, StaleQueue, Visits
  <2>3. \E d \in writequeue' :
          d.type = "DELETE" /\ \A x \in writequeue' : x.row = d.row /\ x.pos <= w.pos
    BY <1>1, <1>3, <2>1, <2>2 DEF Same
  <2> QED
    BY <1>1, <1>7, <1>12, <2>3 DEF Gap
<1>15. CarefulInvOf(L)'
  BY <1>1, <1>2, <1>9, <1>10, <1>11, <1>13, <1>14
  DEF CarefulInvOf, Calmness, Settled
<1> QED
  BY <1>15 DEF CarefulInv

\* No DELETE is rejected.
LEMMA SaveDeleteFailCareful ==
  ASSUME CarefulUse, NEW w \in writequeue, SaveDeleteFail(w)
  PROVE  FALSE
BY DEF SaveDeleteFail, Rejects, CarefulUse

\* A row no id can be made for is passed over; from then on the object makes
\* no ids at all.
LEMMA SaveDeleteNoWhereCareful ==
  ASSUME CarefulUse, IInv, NEW K \in Keys, CarefulInvOf(K),
         NEW w \in writequeue, SaveDeleteNoWhere(w)
  PROVE  CarefulInvOf(K)'
<1> DEFINE row == w.row
           r == obj.record[row]
<1>1. /\ pc = "saving" /\ Visits(w) /\ w.type = "DELETE" /\ WhereId(w) = NULL
      /\ obj' = AfterWhere(w) /\ walk' = w.pos /\ walk \in Nat
      /\ UNCHANGED <<backend, queue, pc, wrote, corrupt, fault>>
  BY DEF SaveDeleteNoWhere, Deletes, IInv, Plain
<1>2. /\ Sound(obj) /\ QueueOK /\ fault = "none" /\ ~corrupt
      /\ Rows(obj, K) /\ Modes(obj) /\ Unkeyed(obj) /\ OnRow(obj)
      /\ Table(obj, K) /\ Fetched(obj, K) /\ Waiting(K) /\ Under(K)
      /\ row \in Live(obj) /\ r # NULL
  BY <1>1, VisitState
<1>3. /\ row = obj.currentrow /\ At(obj) /\ ~IsInsert(obj, row)
      /\ w.id = r.id /\ obj.currentid = w.id
  BY <1>1, DeletionState
<1>4. w.id = NULL /\ (Guessable => IdGet(obj) = NULL)
  BY <1>1, <1>3 DEF WhereId
<1>5. /\ obj' = obj
      \/ /\ obj' = [obj EXCEPT !.noprimarykey = TRUE]
         /\ obj.res = NULL /\ obj.state # "NEW"
  <2>1. CASE ~Guessable
    BY <1>1, <2>1 DEF AfterWhere
  <2>2. CASE Guessable
    <3>1. obj' = AfterIdGet(obj)
      BY <1>1, <1>3, <1>4, <2>2 DEF AfterWhere, Guesses
    <3>2. /\ obj.noprimarykey => AfterIdGet(obj) = obj
          /\ ~obj.noprimarykey /\ Usable(obj) =>
               IdGet(obj) = NewId(K[row])
          /\ ~obj.noprimarykey /\ ~Usable(obj) =>
               AfterIdGet(obj) = [obj EXCEPT !.noprimarykey = TRUE]
      <4>1. /\ obj.noprimarykey => AfterIdGet(obj) = obj
            /\ ~obj.noprimarykey /\ Usable(obj) =>
                 IdGet(obj) = NewId(K[obj.currentrow])
            /\ ~obj.noprimarykey /\ ~Usable(obj) =>
                 AfterIdGet(obj) = [obj EXCEPT !.noprimarykey = TRUE]
        BY <1>2, <1>3, IdHere
      <4> QED
        BY <1>3, <4>1
    <3>3. NewId(K[row]) # NULL
      BY <1>2, NewIdType DEF Rows
    <3>4. CASE obj.noprimarykey
      BY <3>1, <3>2, <3>4
    <3>5. CASE ~obj.noprimarykey
      <4>1. ~Usable(obj)
        BY <1>4, <2>2, <3>2, <3>3, <3>5
      <4>2. obj.res = NULL /\ obj.mode \notin Inserting
        BY <1>2, <1>3, <4>1, KeyHere
      <4>3. obj.state # "NEW"
        BY <1>2, <1>3, <4>2 DEF Modes, IsNew, OnRow
      <4> QED
        BY <3>1, <3>2, <3>5, <4>1, <4>2, <4>3
    <3> QED
      BY <3>4, <3>5
  <2> QED
    BY <2>1, <2>2
<1>6. /\ obj'.record = obj.record /\ obj'.numrecord = obj.numrecord
      /\ obj'.state = obj.state /\ obj'.res = obj.res /\ obj'.mode = obj.mode
      /\ obj'.currentrow = obj.currentrow
      /\ obj'.currentrecord = obj.currentrecord
      /\ obj'.currentid = obj.currentid
      /\ obj'.noprimarykey =>
           obj.noprimarykey \/ (obj.res = NULL /\ obj.state # "NEW")
      /\ obj.noprimarykey => obj'.noprimarykey
  BY <1>2, <1>5 DEF Sound, Object
<1>7. /\ Live(obj') = Live(obj) /\ \A i : IsNew(obj', i) <=> IsNew(obj, i)
      /\ \A i : IsInsert(obj', i) <=> IsInsert(obj, i)
      /\ \A i : Stuck(obj', i) <=> Stuck(obj, i)
  BY <1>6 DEF Live, IsNew, IsInsert, Stuck
<1>8. Rows(obj', K)
  BY <1>2, <1>6, <1>7 DEF Rows
<1>9. Modes(obj') /\ Fetched(obj', K)
  BY <1>2, <1>6, <1>7 DEF Modes, Fetched
<1>10. Unkeyed(obj')
  <2>1. Stuck(obj, row)
    BY <1>2, <1>3, <1>4 DEF Stuck, IsInsert
  <2> QED
    BY <1>2, <1>6, <1>7, <2>1 DEF Unkeyed
<1>11. Cursor(obj')
  BY <1>2, <1>6 DEF Cursor, OnRow
<1>12. Table(obj, K)'
  BY <1>1, <1>2, <1>6, <1>7 DEF Table, backend
<1>13. Waiting(K)'
  <2>1. \A e \in writequeue : EntryFits(e, K)'
    BY <1>1, <1>2, <1>6 DEF Waiting, EntryFits
  <2>2. \A e \in writequeue : e.type = "DELETE" => LastDeletes(e)'
    BY <1>1, <1>2, <1>6 DEF Waiting, LastDeletes, queue
  <2> QED
    BY <1>1, <1>2, <1>6, <1>7, <2>1, <2>2 DEF Waiting, KeyWritten, queue
<1>14. Under(K)'
  <2>1. \A e \in Fields(writequeue) : e.pos <= w.pos => e.row \in wrote'
    BY <1>1, <1>2, VisitedRows
  <2> QED
    BY <1>1, <1>2, <1>6, <2>1
    DEF Under, Done, Group, Marked, Fields, queue, backend
<1> QED
  BY <1>1, <1>2, <1>8, <1>9, <1>10, <1>11, <1>12, <1>13, <1>14, VisitKeeps

\* Increasing enumerations, and one that lists no more than another.
Increases(a, n) ==
  /\ \A i \in 0..(n - 1) : a[i] \in Nat
  /\ \A i, j \in 0..(n - 1) : i < j => a[i] < a[j]
Lists(a, n, b, m) == \A i \in 0..(n - 1) : \E j \in 0..(m - 1) : b[j] = a[i]

\* Two increasing enumerations of one set agree.
LEMMA SameOrder ==
  ASSUME NEW n \in Nat, NEW m \in Nat, NEW a, NEW b,
         Increases(a, n), Increases(b, m), Lists(a, n, b, m), Lists(b, m, a, n)
  PROVE  \A i \in 0..(n - 1) : i \in 0..(m - 1) /\ a[i] = b[i]
<1> USE DEF Increases, Lists
<1> DEFINE T == {i \in 0..(n - 1) : ~(i \in 0..(m - 1) /\ a[i] = b[i])}
           R == OpToRel(<, Nat)
<1> SUFFICES ASSUME T # {} PROVE FALSE
  OBVIOUS
<1>1. T \subseteq Nat
  OBVIOUS
<1>2. PICK i \in T : \A y \in T : ~(<<y, i>> \in R)
  BY <1>1, NatLessThanWellFounded, WFMin
<1>3. \A y, z \in Nat : y < z => <<y, z>> \in R
  BY DEF OpToRel
<1>4. /\ i \in 0..(n - 1) /\ i \in Nat /\ ~(i \in 0..(m - 1) /\ a[i] = b[i])
      /\ \A j \in 0..(n - 1) : j < i => j \in 0..(m - 1) /\ a[j] = b[j]
  BY <1>1, <1>2, <1>3
<1> HIDE DEF T, R
<1>5. PICK l \in 0..(m - 1) : b[l] = a[i]
  BY <1>4
<1>6. ~(l < i)
  <2>1. ASSUME l < i PROVE FALSE
    <3>1. l \in 0..(n - 1) /\ a[l] = b[l] /\ a[l] < a[i]
      BY <1>4, <1>5, <2>1
    <3> QED
      BY <1>4, <1>5, <3>1
  <2> QED
    BY <2>1
<1>7. i \in 0..(m - 1) /\ (l = i \/ b[i] < b[l])
  BY <1>4, <1>5, <1>6
<1>8. PICK q \in 0..(n - 1) : a[q] = b[i]
  BY <1>7
<1>9. ~(q < i)
  <2>1. ASSUME q < i PROVE FALSE
    <3>1. q \in 0..(m - 1) /\ a[q] = b[q] /\ b[q] < b[i]
      BY <1>4, <1>7, <1>8, <2>1
    <3>2. b[i] \in Nat
      BY <1>7
    <3> QED
      BY <1>8, <3>1, <3>2
  <2> QED
    BY <2>1
<1>10. q = i \/ a[i] < a[q]
  BY <1>4, <1>8, <1>9
<1>11. a[i] \in Nat /\ b[i] \in Nat
  BY <1>4, <1>7
<1> QED
  BY <1>4, <1>5, <1>7, <1>8, <1>10, <1>11

\* The result is fetched again: it lists the rows of the array.
LEMMA RefreshCareful ==
  ASSUME CarefulUse, IInv, NEW K \in Keys, CarefulInvOf(K), Refresh
  PROVE  CarefulInvOf(K)'
<1>1. /\ pc = "refresh" /\ pc' = "idle" /\ wrote = {} /\ walk = 0 /\ ~corrupt
      /\ UNCHANGED <<db, nextkey, others, queue, walk, wrote, corrupt, fault>>
  BY DEF Refresh, CarefulInvOf, Calmness
<1>2. /\ Sound(obj) /\ fault = "none" /\ Rows(obj, K) /\ Modes(obj)
      /\ Unkeyed(obj) /\ Table(obj, K) /\ MaxKey \in Nat
  BY ConstantAssumption DEF IInv, CarefulInvOf, Calmness
<1>3. /\ \A i \in Live(obj) : ~IsInsert(obj, i)
      /\ obj.currentrecord = NULL /\ obj.currentid = NULL
      /\ writequeue = {} /\ obj.res # NULL
  BY <1>1 DEF CarefulInvOf, Settled, Gap
<1>4. obj.state = "READ_RAW" /\ ~obj.noprimarykey
  BY <1>2, <1>3 DEF Modes, Unkeyed
<1>5. PICK rs \in ResultSet \cup {NULL} :
        /\ Refreshed(rs)
        /\ rs # NULL => \A i \in Live(obj) : /\ i \in DOMAIN rs
                                             /\ rs[i].key = K[i]
  <2>1. ASSUME NEW n \in 0..MaxKey, NEW r \in [0..(n - 1) -> Key],
               IsAnswer(n, r), Refreshed(Answer(n, r))
        PROVE  /\ Answer(n, r) \in ResultSet
               /\ \A i \in Live(obj) : /\ i \in DOMAIN Answer(n, r)
                                       /\ Answer(n, r)[i].key = K[i]
    <3>1. Answer(n, r) \in ResultSet
      BY <2>1, AnswerType DEF IInv
    <3>2. PICK m \in Nat : m = obj.numrecord
      BY <1>2, LiveType
    <3>3. /\ n \in Nat /\ Live(obj) = 0..(m - 1)
          /\ \A i \in 0..(m - 1) : K[i] \in Key /\ K[i] \in Nat
          /\ \A i \in 0..(n - 1) : r[i] \in Key /\ r[i] \in Nat
      BY <1>2, <2>1, <3>2, LiveType, KeyType DEF Live, Rows
    <3>4. \A i, j \in 0..(m - 1) : i < j => K[i] < K[j]
      BY <1>2, <3>3 DEF Rows
    <3>5. \A i, j \in 0..(n - 1) : i < j => r[i] < r[j]
      BY <2>1 DEF IsAnswer
    <3>6. \A i \in 0..(m - 1) : \E j \in 0..(n - 1) : r[j] = K[i]
      <4>1. \A i \in Live(obj) : K[i] \in Present
        BY <1>2, <1>3, <3>3 DEF Table, Present
      <4> QED
        BY <2>1, <3>3, <4>1 DEF IsAnswer
    <3>7. \A j \in 0..(n - 1) : \E i \in 0..(m - 1) : K[i] = r[j]
      <4>1. \A j \in 0..(n - 1) : r[j] \in Present
        BY <2>1 DEF IsAnswer
      <4> QED
        BY <1>2, <1>4, <3>3, <4>1 DEF Table, Present
    <3>9. \A i \in 0..(m - 1) : i \in 0..(n - 1) /\ K[i] = r[i]
      <4>1. /\ Increases(K, m) /\ Increases(r, n)
            /\ Lists(K, m, r, n) /\ Lists(r, n, K, m)
        BY <3>3, <3>4, <3>5, <3>6, <3>7 DEF Increases, Lists
      <4> QED
        BY <3>2, <3>3, <4>1, SameOrder
    <3>8. \A i \in 0..(n - 1) : /\ i \in DOMAIN Answer(n, r)
                                /\ Answer(n, r)[i].key = r[i]
      BY DEF Answer
    <3> QED
      BY <3>1, <3>3, <3>9, <3>8
  <2>2. Refreshed(NULL) \/ \E n \in 0..MaxKey : \E r \in [0..(n - 1) -> Key] :
          IsAnswer(n, r) /\ Refreshed(Answer(n, r))
    BY DEF Refresh, Rejects, CarefulUse
  <2> QED
    BY <2>1, <2>2
<1> DEFINE o == [obj EXCEPT !.res = rs]
<1>6. /\ Sound(o) /\ o.record = obj.record /\ o.numrecord = obj.numrecord
      /\ o.state = obj.state /\ o.res = rs /\ o.noprimarykey = FALSE
      /\ o.currentrow = obj.currentrow /\ o.currentrecord = NULL
      /\ o.currentid = NULL
  BY <1>2, <1>3, <1>4 DEF Sound, Object
<1>7. obj' = Land(o, o.currentrow)
  BY <1>5, <1>6 DEF Refreshed
<1> HIDE DEF o
<1>8. /\ Live(o) = Live(obj) /\ \A i : IsNew(o, i) <=> IsNew(obj, i)
      /\ \A i : IsInsert(o, i) <=> IsInsert(obj, i)
      /\ \A i : Stuck(o, i) <=> Stuck(obj, i)
  BY <1>6 DEF Live, IsNew, IsInsert, Stuck
<1>9. Rows(o, K)
  BY <1>2, <1>6, <1>8 DEF Rows
<1>10. Modes(o) /\ Fetched(o, K)
  BY <1>4, <1>5, <1>6, <1>8 DEF Modes, Fetched
<1>11. Unkeyed(o)
  BY <1>2, <1>4, <1>6, <1>8 DEF Unkeyed
<1>12. /\ Rows(obj', K) /\ Modes(obj') /\ Unkeyed(obj') /\ Fetched(obj', K)
       /\ Cursor(obj') /\ Live(obj') = Live(obj) /\ obj'.state = obj.state
       /\ \A i \in Live(obj) : ~IsInsert(obj', i)
  <2>1. CASE o.currentrow \in Live(o)
    <3>1. /\ OnRow(obj') /\ Rows(obj', K) /\ Modes(obj') /\ Unkeyed(obj')
          /\ Fetched(obj', K) /\ Grown(obj', o)
      BY <1>6, <1>7, <1>9, <1>10, <1>11, <2>1, LandGives
    <3>2. /\ Live(obj') = Live(o) /\ obj'.state = o.state
          /\ \A i \in Live(o) : IsInsert(obj', i) <=> IsInsert(o, i)
      <4>1. Live(obj') = Live(o) /\ obj'.state = o.state
        BY <3>1 DEF Grown, Live
      <4> QED
        BY <1>6, <3>1, <4>1, GrownRows
    <3> QED
      BY <1>3, <1>6, <1>8, <3>1, <3>2 DEF Cursor
  <2>2. CASE o.currentrow \notin Live(o)
    <3>1. o.currentrow >= o.numrecord
      BY <1>6, <2>2, LiveType
    <3>2. obj' = o
      BY <1>7, <3>1 DEF Land
    <3>3. Cursor(o)
      BY <1>6 DEF Cursor, OnNone
    <3> QED
      BY <1>3, <1>6, <1>8, <1>9, <1>10, <1>11, <3>2, <3>3
  <2> QED
    BY <2>1, <2>2
<1>13. Table(obj, K)'
  BY <1>1, <1>2, <1>3, <1>12 DEF Table
<1>14. Waiting(K)'
  BY <1>1, <1>3, <1>12 DEF Waiting, queue
<1> QED
  BY <1>1, <1>2, <1>12, <1>13, <1>14 DEF CarefulInvOf, Calmness, Settled

-----------------------------------------------------------------------------
(* The invariant holds.                                                    *)

\* An object begins without a row.
LEMMA CarefulInit == Init => CarefulInv
<1> SUFFICES ASSUME Init PROVE CarefulInv
  OBVIOUS
<1>1. /\ obj.state = "NEW" /\ obj.res = NULL /\ obj.numrecord = 0
      /\ obj.record = [i \in Row |-> NULL] /\ obj.currentrecord = NULL
      /\ obj.currentid = NULL /\ obj.noprimarykey = FALSE
      /\ nextkey = InitRows + 1 /\ writequeue = {}
      /\ pc = "idle" /\ walk = 0 /\ wrote = {} /\ corrupt = FALSE
      /\ fault = "none"
  BY DEF Init
<1>2. PICK K \in Keys : K = [i \in Row |-> 0]
  <2>1. [i \in Row |-> 0] \in Keys
    BY ConstantAssumption DEF Keys
  <2> QED
    BY <2>1
<1>3. Live(obj) = {}
  BY <1>1 DEF Live
<1>4. Rows(obj, K) /\ Modes(obj) /\ Unkeyed(obj) /\ Cursor(obj)
  BY <1>1, <1>3 DEF Rows, Modes, Unkeyed, Cursor, OnNone
<1>5. Table(obj, K)
  <2>1. \A k \in Key : db[k] # NULL => k <= InitRows
    BY DEF Init
  <2>2. \A k \in Key : db[k] # NULL => k < nextkey
    BY <1>1, <2>1, ConstantAssumption DEF Key
  <2> QED
    BY <1>1, <1>3, <2>2 DEF Table
<1>6. Fetched(obj, K) /\ Waiting(K)
  BY <1>1, <1>3 DEF Fetched, Waiting
<1> QED
  BY <1>1, <1>4, <1>5, <1>6 DEF CarefulInv, CarefulInvOf, Calmness, Settled

\* Nothing happens.
LEMMA StutterCareful ==
  ASSUME NEW K \in Keys, CarefulInvOf(K), UNCHANGED vars
  PROVE  CarefulInvOf(K)'
<1>1. /\ db' = db /\ nextkey' = nextkey /\ obj' = obj
      /\ writequeue' = writequeue /\ pc' = pc /\ walk' = walk
      /\ wrote' = wrote /\ corrupt' = corrupt /\ fault' = fault
  BY DEF vars, backend, queue, saving
<1>2. Table(obj, K)' <=> Table(obj, K)
  BY <1>1 DEF Table
<1>3. Waiting(K)' <=> Waiting(K)
  BY <1>1 DEF Waiting, EntryFits, LastDeletes, KeyWritten
<1>4. Under(K)' <=> Under(K)
  BY <1>1 DEF Under, Done, Fields, Group, Marked
<1>5. Gap' <=> Gap
  BY <1>1 DEF Gap
<1>6. /\ Rows(obj', K) <=> Rows(obj, K)
      /\ Modes(obj') <=> Modes(obj)
      /\ Unkeyed(obj') <=> Unkeyed(obj)
      /\ Cursor(obj') <=> Cursor(obj)
      /\ Fetched(obj', K) <=> Fetched(obj, K)
  BY <1>1
<1> QED
  BY <1>1, <1>2, <1>3, <1>4, <1>5, <1>6
  DEF CarefulInvOf, Calmness, Settled

\* A visit of an entry, and the end of a save.
LEMMA StepCareful ==
  ASSUME CarefulUse, IInv, NEW K \in Keys, CarefulInvOf(K), SaveStep
  PROVE  CarefulInv'
<1>1. ASSUME NEW w \in writequeue, SaveDelete(w) PROVE CarefulInv'
  BY <1>1, SaveDeleteCareful
<1>2. ASSUME NEW w \in writequeue,
             SaveUnmarked(w) \/ SaveNoWhere(w) \/ SaveDeleteFail(w)
               \/ SaveCrash(w)
      PROVE  FALSE
  BY <1>2, SaveUnmarkedCareful, SaveNoWhereCareful, SaveDeleteFailCareful,
     SaveCrashCareful
<1>3. ASSUME NEW w \in writequeue,
             SaveSkip(w) \/ SaveInsert(w) \/ SaveUpdate(w) \/ SaveFailRow(w)
               \/ SaveDeleteNoWhere(w)
      PROVE  CarefulInvOf(K)'
  BY <1>3, SaveSkipCareful, SaveInsertCareful, SaveUpdateCareful,
     SaveFailRowCareful, SaveDeleteNoWhereCareful
<1>4. ASSUME SaveEnd \/ Refresh PROVE CarefulInvOf(K)'
  BY <1>4, SaveEndCareful, RefreshCareful
<1>5. CarefulInvOf(K)' => CarefulInv'
  BY DEF CarefulInv
<1> QED
  BY <1>1, <1>2, <1>3, <1>4, <1>5 DEF SaveStep

\* A call.
LEMMA CallCareful ==
  ASSUME CarefulUse, IInv, NEW K \in Keys, CarefulInvOf(K), Calls
  PROVE  CarefulInv'
<1>1. ASSUME NEW row \in Row, Moveto(row) PROVE CarefulInvOf(K)'
  BY <1>1, MovetoCareful
<1>2. ASSUME NEW c \in Col, GetValue(c) PROVE CarefulInvOf(K)'
  BY <1>2, GetValueCareful
<1>3. ASSUME NEW c \in Col, NEW v \in Datum \cup {NULL}, NEW m \in BOOLEAN,
             SetValue(c, v, m)
      PROVE  CarefulInvOf(K)'
  BY <1>3, SetValueCareful
<1>4. ASSUME Add \/ LoadAll PROVE CarefulInv'
  BY <1>4, AddCareful, LoadAllCareful
<1>5. ASSUME ForceMark \/ AbortSave \/ Undo \/ Save PROVE CarefulInvOf(K)'
  BY <1>5, ForceMarkCareful, AbortSaveCareful, UndoCareful, SaveCareful
<1>6. CarefulInvOf(K)' => CarefulInv'
  BY DEF CarefulInv
<1>7. ASSUME WriteDelete PROVE CarefulInv'
  <2>1. \/ DeleteUnsaved(obj.currentrow,
                         {e \in Pending(obj.currentrow) : e.type = "INSERT"})
        \/ DeleteSaved(obj.currentrow,
                       {e \in Pending(obj.currentrow) : e.type = "INSERT"})
    BY <1>7 DEF WriteDelete
  <2> QED
    BY <1>6, <1>7, <2>1, DeleteUnsavedCareful, DeleteSavedCareful
<1> QED
  BY <1>1, <1>2, <1>3, <1>4, <1>5, <1>6, <1>7 DEF Calls

\* Every step of a careful application keeps the invariant.
LEMMA CarefulNext ==
  ASSUME CarefulUse
  PROVE  IInv /\ CarefulInv /\ [Next]_vars => CarefulInv'
<1> SUFFICES ASSUME IInv, CarefulInv, [Next]_vars PROVE CarefulInv'
  OBVIOUS
<1>1. PICK K \in Keys : CarefulInvOf(K)
  BY DEF CarefulInv
<1>2. CASE Calls
  BY <1>1, <1>2, CallCareful
<1>3. CASE SaveStep
  BY <1>1, <1>3, StepCareful
<1>4. CASE \E k \in Key, v \in TableRow \cup {NULL} : OtherClient(k, v)
  BY <1>4 DEF OtherClient, CarefulUse, IInv, Plain
<1>5. CASE Aborted \/ UNCHANGED vars
  BY <1>1, <1>5, StutterCareful DEF Aborted, CarefulInv
<1> QED
  BY <1>2, <1>3, <1>4, <1>5 DEF Next

\* The invariant holds in every state of a careful application.
LEMMA CarefulHolds ==
  ASSUME CarefulUse
  PROVE  Spec => [](IInv /\ CarefulInv)
BY CarefulInit, CarefulNext, Inductive, PTL DEF Spec

-----------------------------------------------------------------------------
(* What the rows, the queue and the table say of each other.               *)

\* The key shown for a row is its key.
LEMMA ShownGives ==
  ASSUME NEW K \in Keys, Rows(obj, K), NEW i \in Live(obj),
         \/ obj.record[i] # NULL /\ obj.record[i].cache[KeyField] # NULL
         \/ obj.res # NULL /\ ~IsNew(obj, i) /\ Fetched(obj, K)
  PROVE  Shown(i) = K[i]
<1>1. obj.record[i] # NULL /\ obj.record[i].cache[KeyField] # NULL =>
        obj.record[i].cache[KeyField] = K[i]
  BY DEF Rows, RecordFits
<1> QED
  BY <1>1 DEF Shown, Fetched

\* What a statement writes to a column is what its row shows there, NULL, or
\* what was there before.
LEMMA ColumnShown ==
  ASSUME QueueOK, NEW K, Waiting(K), NEW w, NEW f \in Field, NEW v
  PROVE  Wrote(Group(w), f, v) \in {NULL, obj.record[w.row].cache[f], v}
<1>1. CASE \E e \in Group(w) : e.field = f
  <2>1. PICK e \in Group(w) : e.field = f
    BY <1>1
  <2>2. e \in writequeue /\ e.row = w.row /\ e.type # "DELETE"
    BY DEF Group, Fields
  <2>3. e.value \in {NULL, obj.record[w.row].cache[f]}
    BY <2>1, <2>2 DEF Waiting, EntryFits
  <2> QED
    BY <2>1, <2>3, WroteGives
<1>2. CASE \A e \in Group(w) : e.field # f
  BY <1>2, WroteGives
<1> QED
  BY <1>1, <1>2

\* A step of a save touches the row shown where w was made, and leaves there
\* what is shown.
AsShown(w) ==
  /\ Visits(w)
  /\ \A k \in Key : db'[k] # db[k] =>
       /\ Shown(w.row) = k
       /\ db'[k] # NULL => \A f \in Field :
            db'[k][f] \in {NULL, obj.record[w.row].cache[f]}
              \cup IF db[k] = NULL THEN {} ELSE {db[k][f]}

\* An insert stores what its row shows.
LEMMA InsertAsShown ==
  ASSUME CarefulUse, IInv, NEW K \in Keys, CarefulInvOf(K),
         NEW w \in writequeue, SaveInsert(w)
  PROVE  AsShown(w)
<1>1. pc = "saving" /\ Visits(w) /\ GroupOf(w, "INSERT")
  BY DEF SaveInsert, Visited
<1>2. /\ QueueOK /\ Waiting(K) /\ Rows(obj, K) /\ w.row \in Live(obj)
      /\ obj.record[w.row] # NULL /\ RecordFits(obj.record[w.row], K[w.row])
  BY <1>1, VisitState
<1>3. IsInsert(obj, w.row)
  BY <1>1, InsertGives
<1>4. Shown(w.row) = K[w.row]
  <2>1. obj.record[w.row].cache[KeyField] # NULL
    BY <1>2, <1>3 DEF IsInsert, RecordFits
  <2> QED
    BY <1>2, <2>1, ShownGives
<1>5. /\ \A j \in Key : j # K[w.row] => db'[j] = db[j]
      /\ \A f \in Field : db'[K[w.row]][f] = Wrote(Group(w), f, NULL)
  BY InsertStores
<1>6. \A f \in Field :
        Wrote(Group(w), f, NULL) \in {NULL, obj.record[w.row].cache[f]}
  BY <1>2, ColumnShown
<1> QED
  BY <1>1, <1>4, <1>5, <1>6 DEF AsShown

\* An update stores what its row shows.
LEMMA UpdateAsShown ==
  ASSUME CarefulUse, IInv, NEW K \in Keys, CarefulInvOf(K),
         NEW w \in writequeue, SaveUpdate(w)
  PROVE  AsShown(w)
<1>1. pc = "saving" /\ Visits(w) /\ GroupOf(w, "UPDATE")
  BY DEF SaveUpdate, Visited
<1>2. /\ QueueOK /\ Waiting(K) /\ Rows(obj, K) /\ w.row \in Live(obj)
      /\ obj.record[w.row] # NULL
  BY <1>1, VisitState
<1>3. K[w.row] # NULL /\ obj.record[w.row].cache[KeyField] = K[w.row]
  BY <1>1, UpdateGives
<1>4. Shown(w.row) = K[w.row]
  BY <1>2, <1>3, ShownGives
<1>5. /\ \A j \in Key : j # K[w.row] => db'[j] = db[j]
      /\ db[K[w.row]] # NULL
      /\ \A f \in Field :
           db'[K[w.row]][f] = Wrote(Group(w), f, db[K[w.row]][f])
  BY UpdateStores
<1>6. \A f \in Field : Wrote(Group(w), f, db[K[w.row]][f])
                         \in {NULL, obj.record[w.row].cache[f], db[K[w.row]][f]}
  BY <1>2, ColumnShown
<1> QED
  BY <1>1, <1>4, <1>5, <1>6 DEF AsShown

\* A deletion drops the row shown.
LEMMA DeleteAsShown ==
  ASSUME CarefulUse, IInv, NEW K \in Keys, CarefulInvOf(K),
         NEW w \in writequeue, SaveDelete(w)
  PROVE  AsShown(w)
<1>1. /\ pc = "saving" /\ Visits(w) /\ w.type = "DELETE" /\ WhereId(w) # NULL
      /\ db' = [db EXCEPT ![Selects(WhereId(w))] = NULL]
  BY DEF SaveDelete, Deletes, Deletable
<1>2. /\ Sound(obj) /\ Rows(obj, K) /\ Modes(obj) /\ Unkeyed(obj)
      /\ Fetched(obj, K) /\ w.row \in Live(obj) /\ K[w.row] \in Key
      /\ obj.record[w.row] # NULL /\ RecordFits(obj.record[w.row], K[w.row])
      /\ db \in [Key -> TableRow \cup {NULL}]
  BY <1>1, VisitState DEF IInv, Plain
<1>3. /\ w.row = obj.currentrow /\ At(obj) /\ w.id = obj.record[w.row].id
      /\ obj.currentid = w.id
  BY <1>1, DeletionState
<1>4. Selects(WhereId(w)) = K[w.row]
  BY <1>1, AimGives
<1>5. \A j \in Key : j # K[w.row] => db'[j] = db[j]
  BY <1>1, <1>2, <1>4
<1>6. db'[K[w.row]] = NULL
  BY <1>1, <1>2, <1>4
<1>7. Shown(w.row) = K[w.row]
  <2>1. CASE obj.record[w.row].cache[KeyField] # NULL
    BY <1>2, <2>1, ShownGives
  <2>2. CASE obj.record[w.row].cache[KeyField] = NULL
    <3>1. w.id = NULL
      BY <1>2, <1>3, <2>2 DEF RecordFits
    <3>2. IdGet(obj) # NULL
      BY <1>1, <1>3, <3>1 DEF WhereId
    <3>3. ~obj.noprimarykey /\ Usable(obj)
      BY <1>2, <1>3, <3>2, IdHere
    <3>4. ~IsNew(obj, w.row)
      BY <1>2, <1>3, <2>2, <3>3 DEF Unkeyed, Stuck, IsNew, RecordFits
    <3>5. obj.res # NULL
      <4>1. obj.mode \in Inserting \/ obj.res # NULL
        BY <1>2, <1>3, <3>3, KeyHere
      <4> QED
        BY <1>2, <1>3, <3>4, <4>1 DEF At, IsNew, Inserting
    <3> QED
      BY <1>2, <3>4, <3>5, ShownGives
  <2> QED
    BY <2>1, <2>2
<1> QED
  BY <1>1, <1>5, <1>6, <1>7 DEF AsShown

\* Nothing but a statement of a save touches the table.
LEMMA OnlyStatements ==
  ASSUME CarefulUse, IInv, NEW K \in Keys, CarefulInvOf(K), [Next]_vars,
         pc = "saving", db' # db
  PROVE  \E w \in writequeue : AsShown(w)
<1>1. ~Calls
  BY DEF Calls, Moveto, GetValue, SetValue, Add, WriteDelete, ForceMark,
         AbortSave, Undo, LoadAll, Save, Calm, Idle
<1>2. ~(Aborted \/ UNCHANGED vars)
  BY DEF Aborted, vars, backend
<1>3. ~\E k \in Key, v \in TableRow \cup {NULL} : OtherClient(k, v)
  BY DEF OtherClient, CarefulUse, IInv, Plain
<1>4. SaveStep
  BY <1>1, <1>2, <1>3 DEF Next
<1>5. ~(SaveEnd \/ Refresh)
  BY DEF SaveEnd, Refresh, backend
<1>6. PICK w \in writequeue :
        \/ SaveSkip(w) \/ SaveUnmarked(w) \/ SaveInsert(w) \/ SaveUpdate(w)
        \/ SaveNoWhere(w) \/ SaveFailRow(w) \/ SaveDelete(w)
        \/ SaveDeleteFail(w) \/ SaveDeleteNoWhere(w) \/ SaveCrash(w)
  BY <1>4, <1>5 DEF SaveStep
<1>7. ~(SaveSkip(w) \/ SaveUnmarked(w) \/ SaveNoWhere(w) \/ SaveFailRow(w)
          \/ SaveDeleteFail(w) \/ SaveDeleteNoWhere(w) \/ SaveCrash(w))
  BY DEF SaveSkip, SaveUnmarked, SaveNoWhere, SaveFailRow, SaveDeleteFail,
         SaveDeleteNoWhere, SaveCrash, backend
<1> QED
  BY <1>6, <1>7, InsertAsShown, UpdateAsShown, DeleteAsShown

\* What a returning save has dealt with is stored.
LEMMA DoneStored ==
  ASSUME NEW K \in Keys, Sound(obj), Rows(obj, K), Table(obj, K), Waiting(K),
         NEW e \in writequeue, e.row \in Row, e.type # "DELETE",
         e.field \in Col \cup {NULL}, Done(e, K)
  PROVE  Stored(e)
<1>1. e.row \in Live(obj) /\ obj.record[e.row] # NULL
  BY LiveType DEF Waiting, EntryFits
<1>2. Shown(e.row) = K[e.row]
  BY <1>1, ShownGives DEF Done
<1>3. K[e.row] \in Key /\ db[K[e.row]] # NULL
  BY <1>1 DEF Rows, Table, IsInsert, Done
<1>4. e.field = KeyField \/ e.field \in Field
  BY DEF Waiting, EntryFits, Col
<1> QED
  BY <1>2, <1>3, <1>4 DEF Stored, Present, Done

\* A write a returning save has not dealt with is kept, or its row is gone.
Survives(e) ==
  Stored(e) \/ Doomed(e) \/ \E x \in writequeue' : x.pos = e.pos

\* When every entry has been visited.
LEMMA EndSurvives ==
  ASSUME IInv, NEW K \in Keys, CarefulInvOf(K), SaveEnd,
         NEW e \in Fields(writequeue)
  PROVE  Survives(e)
<1>1. /\ pc = "saving" /\ Unvisited = {} /\ e \in writequeue
      /\ e.type # "DELETE" /\ Sound(obj) /\ QueueOK /\ walk \in Nat
  BY DEF SaveEnd, Fields, IInv, Plain
<1>2. /\ e \in Write /\ e.pos \in Nat /\ e.row \in Row
      /\ e.field \in Col \cup {NULL}
  BY <1>1 DEF QueueOK, Write
<1>3. CASE corrupt
  <2>1. PICK d \in writequeue : d.type = "DELETE" /\ e.row = d.row
    BY <1>1, <1>3 DEF CarefulInvOf, Settled, Gap
  <2> QED
    BY <2>1 DEF Survives, Doomed
<1>4. CASE ~corrupt
  <2>1. Rows(obj, K) /\ Table(obj, K) /\ Waiting(K) /\ Under(K)
    BY <1>1, <1>4 DEF CarefulInvOf, Settled
  <2>2. e.pos <= walk
    BY <1>1, <1>2 DEF Unvisited
  <2>3. Done(e, K)
    BY <2>1, <2>2 DEF Under
  <2> QED
    BY <1>1, <1>2, <2>1, <2>3, DoneStored DEF Survives
<1> QED
  BY <1>3, <1>4

\* When a statement was rejected.
LEMMA FailSurvives ==
  ASSUME CarefulUse, IInv, NEW K \in Keys, CarefulInvOf(K),
         NEW w \in writequeue, SaveFailRow(w), NEW e \in Fields(writequeue)
  PROVE  Survives(e)
<1> DEFINE G == Group(w)
           l == LastMarked(G)
           inserts == GroupOf(w, "INSERT")
           Q == IF inserts THEN writequeue ELSE WithWhere(l)
<1>1. /\ pc = "saving" /\ Visits(w) /\ writequeue' = Kept(w, Q)
      /\ inserts \/ GroupOf(w, "UPDATE")
  BY DEF SaveFailRow, Finish, Leave
<1>2. /\ Sound(obj) /\ QueueOK /\ Rows(obj, K) /\ Table(obj, K)
      /\ Waiting(K) /\ Under(K) /\ walk \in Nat
      /\ w \in Write /\ w.pos \in Nat
  BY <1>1, VisitState DEF IInv, Plain, Write
<1>3. /\ e \in writequeue /\ e.type # "DELETE" /\ e \in Write
      /\ e.pos \in Nat /\ e.row \in Row /\ e.field \in Col \cup {NULL}
  BY <1>2 DEF Fields, QueueOK, Write
<1>4. PICK x \in Q : x.pos = e.pos
  <2>1. CASE inserts
    BY <1>3, <2>1
  <2>2. CASE ~inserts
    <3>1. [l EXCEPT !.id = WhereId(l)].pos = l.pos
      <4>1. l \in Write
        BY <1>1, <2>2, UpdateGives
      <4> QED
        BY <4>1 DEF Write
    <3> HIDE DEF l
    <3> QED
      BY <1>3, <2>2, <3>1 DEF WithWhere
  <2> QED
    BY <2>1, <2>2
<1>5. CASE \E p \in Pending(w.row) : e.pos >= p.pos
  <2>1. x \in writequeue'
    BY <1>1, <1>4, <1>5 DEF Kept
  <2> QED
    BY <1>4, <2>1 DEF Survives
<1>6. CASE ~\E p \in Pending(w.row) : e.pos >= p.pos
  <2>1. ~(e.pos >= w.pos)
    BY <1>6 DEF Pending
  <2>2. e.pos <= walk
    BY <1>1, <1>2, <1>3, <2>1 DEF Visits
  <2>3. Done(e, K)
    BY <1>2, <2>2 DEF Under
  <2> QED
    BY <1>2, <1>3, <2>3, DoneStored DEF Survives
<1> QED
  BY <1>5, <1>6

\* A save returns at its end or when a statement is rejected.
LEMMA OnlyReturns ==
  ASSUME CarefulUse, IInv, NEW K \in Keys, CarefulInvOf(K), [Next]_vars,
         pc = "saving", pc' # "saving", NEW e \in Fields(writequeue)
  PROVE  Survives(e)
<1>1. ~Calls
  BY DEF Calls, Moveto, GetValue, SetValue, Add, WriteDelete, ForceMark,
         AbortSave, Undo, LoadAll, Save, Calm, Idle
<1>2. ~(Aborted \/ UNCHANGED vars)
  BY DEF Aborted, vars, saving
<1>3. ~\E k \in Key, v \in TableRow \cup {NULL} : OtherClient(k, v)
  BY DEF OtherClient, CarefulUse, IInv, Plain
<1>4. SaveStep
  BY <1>1, <1>2, <1>3 DEF Next
<1>5. ~Refresh
  BY DEF Refresh
<1>6. ASSUME NEW w \in writequeue,
             \/ SaveSkip(w) \/ SaveUnmarked(w) \/ SaveInsert(w)
             \/ SaveUpdate(w) \/ SaveNoWhere(w) \/ SaveDelete(w)
             \/ SaveDeleteNoWhere(w) \/ SaveCrash(w)
      PROVE  FALSE
  BY <1>6 DEF SaveSkip, SaveUnmarked, SaveInsert, SaveUpdate, SaveNoWhere,
              SaveDelete, SaveDeleteNoWhere, SaveCrash, Visited, saving
<1>7. ASSUME NEW w \in writequeue, SaveDeleteFail(w) PROVE FALSE
  BY <1>7, SaveDeleteFailCareful
<1>8. SaveEnd \/ \E w \in writequeue : SaveFailRow(w)
  BY <1>4, <1>5, <1>6, <1>7 DEF SaveStep
<1> QED
  BY <1>8, EndSurvives, FailSurvives

-----------------------------------------------------------------------------
(* The theorems.                                                           *)

\* Between calls the object is on one row: what a getvalue returns, a
\* setvalue changes and a deletion drops is the row of the cursor
\* (bonddb_moveto, bonddb_add, bonddb_record_delete, bonddb_write_all).
THEOREM CursorKept ==
  ASSUME CarefulUse
  PROVE  Spec => []CursorCoherent
<1>1. CarefulInv => CursorCoherent
  <2> SUFFICES ASSUME NEW K \in Keys, CarefulInvOf(K), Idle, Usable(obj)
               PROVE  LET r == obj.record[obj.currentrow] IN
                      /\ obj.currentrecord = obj.currentrow
                      /\ r # NULL /\ r.mode = obj.mode
                      /\ obj.mode \in {"UPDATE", "INSERT_SAVED"} =>
                           obj.currentid = r.id
    BY DEF CarefulInv, CursorCoherent
  <2>1. OnRow(obj)
    BY DEF Usable, CarefulInvOf, Cursor, OnNone
  <2> QED
    BY <2>1 DEF OnRow
<1> QED
  BY <1>1, CarefulHolds, PTL

\* No call of a careful application fails an assertion of
\* bonddb_write_handleinsert or follows a pointer to a freed id or record,
\* whatever it does in between and whichever of its inserts and updates the
\* backend rejects.
THEOREM NeverAborts ==
  ASSUME CarefulUse
  PROVE  Spec => []NoAbort
<1>1. CarefulInv => NoAbort
  BY DEF CarefulInv, CarefulInvOf, Calmness, NoAbort
<1> QED
  BY <1>1, CarefulHolds, PTL

\* Between calls the record array and the result agree on which row is which:
\* deletions, which close the gap in the array, refresh the result before it
\* is read again (the end of bonddb_write_all).
THEOREM ResultKept ==
  ASSUME CarefulUse
  PROVE  Spec => []ResultAligned
<1>1. CarefulInv => ResultAligned
  <2> SUFFICES ASSUME NEW K \in Keys, CarefulInvOf(K), Idle, obj.res # NULL,
                      NEW row \in Live(obj),
                      LET r == obj.record[row] IN
                      r = NULL \/ r.mode \notin Inserting
               PROVE  row \in DOMAIN obj.res /\ obj.res[row].key = Shown(row)
    BY DEF CarefulInv, ResultAligned, Live
  <2>1. Fetched(obj, K) /\ Rows(obj, K)
    BY DEF Idle, CarefulInvOf, Calmness, Settled
  <2>2. ~IsNew(obj, row)
    BY DEF IsNew
  <2>3. Shown(row) = K[row]
    BY <2>1, <2>2, ShownGives
  <2> QED
    BY <2>1, <2>2, <2>3 DEF Fetched
<1> QED
  BY <1>1, CarefulHolds, PTL

\* A save touches one row of the table at a time, the one the object shows
\* where the write was made, and leaves there what the object shows there
\* (bonddb_write_sql_insert, bonddb_write_sql_update, bonddb_write_sql_delete).
THEOREM SavesAsShown ==
  ASSUME CarefulUse
  PROVE  Spec => SavedAsShown
<1>1. IInv /\ CarefulInv /\ [Next]_vars =>
        [pc = "saving" /\ db' # db => \E w \in writequeue : AsShown(w)]_vars
  BY OnlyStatements DEF CarefulInv
<1>2. (\E w \in writequeue : AsShown(w)) <=>
        \E w \in writequeue :
          /\ Visits(w)
          /\ \A k \in Key : db'[k] # db[k] =>
               /\ Shown(w.row) = k
               /\ db'[k] # NULL => \A f \in Field :
                    db'[k][f] \in {NULL, obj.record[w.row].cache[f]}
                      \cup IF db[k] = NULL THEN {} ELSE {db[k][f]}
  BY DEF AsShown
<1> QED
  BY <1>1, <1>2, CarefulHolds, PTL DEF Spec, SavedAsShown

\* When a save returns, every write marked to be saved is stored in the row
\* shown at its place or waits for the next save, unless its row was deleted:
\* neither the order of the queue, nor the rows already dealt with, nor a
\* rejected statement loses one (bonddb_write_all,
\* bonddb_write_freelist_special).
THEOREM LosesNothing ==
  ASSUME CarefulUse
  PROVE  Spec => NothingLost
<1>1. IInv /\ CarefulInv /\ [Next]_vars =>
        [pc = "saving" /\ pc' # "saving" =>
           \A e \in Fields(writequeue) :
             e.mark => \/ Stored(e) \/ Doomed(e)
                       \/ \E x \in writequeue' : x.pos = e.pos]_vars
  BY OnlyReturns DEF CarefulInv, Survives
<1> QED
  BY <1>1, CarefulHolds, PTL DEF Spec, NothingLost
=============================================================================

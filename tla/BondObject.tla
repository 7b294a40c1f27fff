----------------------------- MODULE BondObject -----------------------------
(***************************************************************************)
(* One BonddbClass database object over one table (bonddb/bonddbobj.c),    *)
(* with its record cache (bonddbrecord.c), its ids (bonddbid.c) and its    *)
(* write queue (bonddbwrite.c).  The application calls the object one      *)
(* function at a time; a save runs one SQL statement per step, so that the *)
(* backend may reject any of them and other clients may write in between.  *)
(*                                                                         *)
(* Abstractions.  The table has a key column KeyField and data columns     *)
(* Field, and the query returns its rows in key order.  A C pointer that   *)
(* may be NULL is a value that may be NULL.  A record is identified by its *)
(* place in the array obj->record; an id by the row it selects, with a     *)
(* flag telling whether the memory it points to has been freed.  The list  *)
(* obj->writequeue is a set of entries numbered by pos, in the order in    *)
(* which bonddb_write_all visits them.                                     *)
(***************************************************************************)
EXTENDS Naturals

CONSTANTS
  Field,       \* the data columns of the table
  KeyField,    \* its primary key column
  Value,       \* what a data column may hold
  NULL,        \* the NULL pointer, and the SQL NULL
  Freed,       \* a pointer to freed memory
  InitRows,    \* how many rows the table holds at first
  KeyDefault,  \* the key column has a nextval default
  FirstTable,  \* obj->firsttable is known (bonddb_new_basetable)
  MayFail,     \* the statements the backend may reject
  Discipline,  \* what the application is careful about, see Rule
  MaxKey,      \* bound: keys the sequence may issue
  MaxRow,      \* bound: rows of the record array
  MaxPos,      \* bound: writes queued between two emptyings of the queue
  MaxFail,     \* bound: statements the backend rejects of its own accord
  MaxOther     \* bound: writes of other clients

Key == 1..MaxKey
Row == 0..(MaxRow - 1)
Col == Field \cup {KeyField}
Datum == Value \cup Key

Statement == {"SELECT", "INSERT", "UPDATE", "DELETE"}

(* What a careful application may be assumed to do; the guards that speak  *)
(* of Discipline say it in full.                                           *)
(*   deleteAtOnce  delete a row the object is on, with no write of another *)
(*                 row pending, and save before anything else is done      *)
(*   newRowAlone   write and save a new row with no other row pending      *)
(*   markedRows    save only when every written row has a marked write     *)
(*   cleanReload   load before rows are added, with nothing pending        *)
(*   cleanUndo     undo only a row that has no id and no pending write     *)
(*   cleanAbort    abort a save only when no new row is pending            *)
Rule == {"deleteAtOnce", "newRowAlone", "markedRows", "cleanReload",
         "cleanUndo", "cleanAbort"}

ASSUME ConstantAssumption ==
  /\ MaxKey \in Nat /\ MaxRow \in Nat \ {0}
  /\ MaxPos \in Nat /\ MaxFail \in Nat /\ MaxOther \in Nat
  /\ InitRows \in 0..MaxKey
  /\ Value # {} /\ KeyField \notin Field
  /\ NULL \notin Row /\ NULL \notin Col /\ NULL \notin Datum
  /\ Freed \notin Row /\ Freed # NULL
  /\ KeyDefault \in BOOLEAN /\ FirstTable \in BOOLEAN
  /\ MayFail \subseteq Statement /\ Discipline \subseteq Rule

VARIABLES
  db,             \* db[k]: the row of key k in the backend, or NULL
  nextkey,        \* what nextval returns
  fails,          \* rejections so far
  others,         \* writes of other clients so far
  obj,            \* the BonddbClass struct, but for its write queue
  writequeue,     \* obj->writequeue
  writequeuehash, \* obj->writequeuehash: (row, field) to the entry's pos
  tail,           \* the pos of the next entry
  pc,             \* where bonddb_write_all is
  walk,           \* pos of the last entry it visited
  wrote,          \* wrotehash: the rows it has dealt with
  corrupt,        \* psqlres_corrupt
  fault           \* the failed assertion or bad dereference that ended it all

backend == <<db, nextkey, fails, others>>
queue   == <<writequeue, writequeuehash, tail>>
saving  == <<pc, walk, wrote, corrupt>>
vars    == <<backend, obj, queue, saving, fault>>

-----------------------------------------------------------------------------
(* The data structures.                                                    *)

Mode == {"READ", "UPDATE", "INSERT", "INSERT_SAVED"}
Inserting == {"INSERT", "INSERT_SAVED"}          \* mode >= BONDDB_INSERT

\* BonddbId: pg_oid (of the row with that key) when the row was inserted
\* here, and the key string read from the record's cache.
Id == [oid : Key \cup {NULL}, key : Key, freed : BOOLEAN]

\* BonddbRecord.
Cache == {c \in [Col -> Datum \cup {NULL}] : c[KeyField] \in Key \cup {NULL}}
Record == [mode : Mode, id : Id \cup {NULL}, cache : Cache]

\* A result set: a snapshot of the table's rows, numbered from 0.
TableRow == [Field -> Datum \cup {NULL}]
ResultRow == [key : Key, val : TableRow]
ResultSet == UNION {[0..(n - 1) -> ResultRow] : n \in 0..MaxKey}

\* NULL is none of them.
ASSUME NullAssumption ==
  /\ NULL \notin Record /\ NULL \notin Id
  /\ NULL \notin ResultSet /\ NULL \notin TableRow

\* BonddbClass.  record is the array itself: its places from numrecord on
\* are memory the object owns but does not count.
Object == [state : {"INVALID", "NEW", "READ_RAW"},
           res : ResultSet \cup {NULL},
           record : [Row -> Record \cup {NULL}],
           numrecord : 0..MaxRow,
           currentrow : Row,
           currentrecord : Row \cup {NULL, Freed},
           currentid : Id \cup {NULL},
           mode : Mode,
           noprimarykey : BOOLEAN]

\* BonddbWrite.  Only a DELETE has no field.
Write == [pos : Nat, row : Row, type : {"UPDATE", "INSERT", "DELETE"},
          field : Col \cup {NULL}, value : Datum \cup {NULL},
          mark : BOOLEAN, id : Id \cup {NULL}]

HashKey(e) == <<e.row, e.field>>                 \* "%d-%s.%s"
Fields(Q) == {e \in Q : e.type # "DELETE"}
NoHash == [k \in {} |-> 0]
BlankRecord(m) == [mode |-> m, id |-> NULL, cache |-> [c \in Col |-> NULL]]
NewId(k) == [oid |-> NULL, key |-> k, freed |-> FALSE]

\* The row of the table an id selects (bonddb_id_get_str).
Selects(id) == IF id.oid # NULL THEN id.oid ELSE id.key

\* id when a record's key string k and id struct of oid o are freed: an id
\* without an oid needs the string, one with an oid is that struct.
Stale(id, k, o) ==
  IF id = NULL THEN NULL
  ELSE [id EXCEPT !.freed = @ \/ IF id.oid = NULL THEN id.key = k
                                                  ELSE id.oid = o]
StaleQueue(Q, k, o) == {[e EXCEPT !.id = Stale(@, k, o)] : e \in Q}

OidOf(r) == IF r.id = NULL THEN NULL ELSE r.id.oid

Released(id) == IF id = NULL THEN NULL ELSE [id EXCEPT !.freed = TRUE]
ReleasedQueue(Q) == {[e EXCEPT !.id = Released(@)] : e \in Q}

-----------------------------------------------------------------------------
(* The backend.                                                            *)

Present == {k \in Key : db[k] # NULL}

\* The n rows that the object's SELECT returns; r is their keys.
IsAnswer(n, r) ==
  /\ \A i, j \in 0..(n - 1) : i < j => r[i] < r[j]
  /\ Present = {r[i] : i \in 0..(n - 1)}
Answer(n, r) == [i \in 0..(n - 1) |-> [key |-> r[i], val |-> db[r[i]]]]

\* The backend rejects a statement of its own accord.
Rejects(stmt) ==
  /\ stmt \in MayFail /\ fails < MaxFail
  /\ fails' = fails + 1

\* Another client changes or deletes a row.
OtherClient(k, v) ==
  /\ fault = "none" /\ others < MaxOther
  /\ db[k] # NULL /\ db[k] # v
  /\ db' = [db EXCEPT ![k] = v]
  /\ others' = others + 1
  /\ UNCHANGED <<nextkey, fails, obj, queue, saving, fault>>

-----------------------------------------------------------------------------
(* What the functions of the object do to the struct o.                    *)

\* bonddb_getvalue_assert lets the call through.
Usable(o) ==
  /\ o.state # "INVALID" /\ o.currentrow < o.numrecord
  /\ o.mode \in Inserting \/ (o.state = "READ_RAW" /\ o.res # NULL)
  /\ o.currentrecord # NULL

\* bonddb_getvalue of the key of the current row, NULL when it fails.
CurrentKey(o) ==
  LET r == o.record[o.currentrow] IN
  IF ~Usable(o) \/ r = NULL THEN NULL
  ELSE IF r.cache[KeyField] # NULL THEN r.cache[KeyField]
  ELSE IF o.mode \in Inserting \/ o.currentrow \notin DOMAIN o.res THEN NULL
  ELSE o.res[o.currentrow].key

\* Mutant of IdGet: an id is made although the row shows no key.
IdGetBlank(o) == IF o.noprimarykey THEN NULL ELSE NewId(CurrentKey(o))

\* bonddb_id_get: the id of the current row, and the object after the call.
IdGet(o) ==
  LET k == CurrentKey(o) IN
  IF o.noprimarykey \/ k = NULL THEN NULL ELSE NewId(k)
AfterIdGet(o) ==
  LET k == CurrentKey(o) IN
  IF o.noprimarykey THEN o
  ELSE IF k = NULL THEN [o EXCEPT !.noprimarykey = TRUE]
  ELSE [o EXCEPT !.record[o.currentrow].cache[KeyField] = k]

\* bonddb_record_populate.
Populate(o, row) ==
  IF o.numrecord > 0 /\ o.record[row] = NULL
  THEN [o EXCEPT !.record[row] = BlankRecord(o.mode)] ELSE o

\* bonddb_moveto.
Fetch(o, row) ==
  LET fresh == Populate([o EXCEPT !.currentrow = row, !.mode = "READ",
                                  !.currentrecord = row, !.currentid = NULL],
                        row)
      id == IdGet(fresh)
  IN  IF FirstTable
      THEN [AfterIdGet(fresh) EXCEPT !.record[row].id = id, !.currentid = id]
      ELSE fresh
Land(o, row) ==
  LET r == o.record[row] IN
  IF row >= o.numrecord THEN o
  ELSE IF r # NULL
  THEN [o EXCEPT !.currentrow = row, !.currentrecord = row,
                 !.mode = r.mode, !.currentid = r.id]
  ELSE IF o.state = "READ_RAW" THEN Fetch(o, row)
  ELSE [o EXCEPT !.currentrow = row]

\* bonddb_record_delete of a row whose place in the array is not NULL.
RecordDelete(o, row) ==
  LET n == o.numrecord
      Moved(i) == IF i \in row..(n - 2) THEN o.record[i + 1]
                  ELSE IF i = n - 1 THEN NULL ELSE o.record[i]
      landing == IF row < n - 1 THEN row ELSE IF row = 0 THEN 0 ELSE row - 1
      here == o.currentrow = row
      rec == o.currentrecord
  IN  IF row >= n THEN o
      ELSE [o EXCEPT
             !.record = [i \in Row |-> Moved(i)],
             !.numrecord = n - 1,
             !.currentrow = IF here THEN landing ELSE @,
             !.currentid = IF here THEN NULL
                           ELSE Stale(@, o.record[row].cache[KeyField],
                                      OidOf(o.record[row])),
             !.currentrecord = IF here THEN NULL
                               ELSE IF rec = row THEN Freed
                               ELSE IF rec \in (row + 1)..(n - 1) THEN rec - 1
                               ELSE rec]

-----------------------------------------------------------------------------
(* The write queue.                                                        *)

\* Mutant of Enqueue: the write that is superseded stays in the list.
EnqueueTwice(e) ==
  /\ tail <= MaxPos
  /\ writequeue' = writequeue \cup {e}
  /\ writequeuehash' =
       [k \in DOMAIN writequeuehash \cup {HashKey(e)} |->
          IF k = HashKey(e) THEN e.pos ELSE writequeuehash[k]]
  /\ tail' = tail + 1

\* Put e at the head of the list, in place of a write to the same column.
Enqueue(e) ==
  LET old == {x \in writequeue : /\ HashKey(e) \in DOMAIN writequeuehash
                                 /\ x.pos = writequeuehash[HashKey(e)]}
      new == [e EXCEPT !.mark = @ \/ \E x \in old : x.mark]
  IN  /\ tail <= MaxPos
      /\ writequeue' = (writequeue \ old) \cup {new}
      /\ writequeuehash' =
           [k \in DOMAIN writequeuehash \cup {HashKey(e)} |->
              IF k = HashKey(e) THEN e.pos ELSE writequeuehash[k]]
      /\ tail' = tail + 1

\* bonddb_write_add, by object o, which is on the row that is written.
WriteAdd(o, f, v, mark) ==
  Enqueue([pos |-> tail, row |-> o.currentrow, field |-> f, value |-> v,
           type |-> IF o.mode = "INSERT" THEN "INSERT" ELSE "UPDATE",
           mark |-> mark,
           id |-> IF o.currentid = NULL THEN NULL ELSE IdGet(o)])

\* Leave Q of the queue; the hash is made anew or loses what Q does not keep.
Leave(Q) ==
  /\ writequeue' = Q
  /\ writequeuehash' =
       [k \in {HashKey(e) : e \in Fields(Q)} |-> writequeuehash[k]]
  /\ tail' = IF Q = {} THEN 1 ELSE tail

Pending(row) == {e \in writequeue : e.row = row}
Deleting == \E e \in writequeue : e.type = "DELETE"

-----------------------------------------------------------------------------
(* The application's calls, made when no save is under way.                *)

Careful(rule) == rule \in Discipline
Idle == pc = "idle" /\ fault = "none"
Calm == Idle /\ (Careful("deleteAtOnce") => ~Deleting)

\* bonddb_moveto, bonddb_jumpto when they succeed.
Moveto(row) ==
  /\ Calm /\ row < obj.numrecord
  /\ obj' = Land(obj, row)
  /\ UNCHANGED <<backend, queue, saving, fault>>

\* bonddb_getvalue of a value that is not cached: it is cached now.
GetValue(c) ==
  LET row == obj.currentrow
      v == IF c = KeyField THEN obj.res[row].key ELSE obj.res[row].val[c]
  IN  /\ Calm /\ Usable(obj) /\ obj.mode \notin Inserting
      /\ obj.record[row] # NULL /\ obj.record[row].cache[c] = NULL
      /\ row \in DOMAIN obj.res
      /\ obj' = [obj EXCEPT !.record[row].cache[c] = v]
      /\ UNCHANGED <<backend, queue, saving, fault>>

\* bonddb_setvalue up to the id of the record: the value is cached (a NULL
\* is not), the record becomes one to update, and has an id if it can.
Cached(o, c, v) ==
  IF v = NULL THEN o ELSE [o EXCEPT !.record[o.currentrow].cache[c] = v]
Touched(o) ==
  LET m == IF o.mode = "READ" THEN "UPDATE" ELSE o.mode
  IN  [o EXCEPT !.mode = m, !.record[o.currentrecord].mode = m]
NeedsId(o) ==
  /\ o.record[o.currentrecord].id = NULL
  /\ o.state = "READ_RAW" /\ o.mode # "INSERT"
Identified(o) ==
  IF NeedsId(o)
  THEN [AfterIdGet(o) EXCEPT !.record[o.currentrecord].id = IdGet(o)]
  ELSE o

\* The rest of it: the write is queued, unless the record lacks an id it
\* needs; then the call returns -5 with the value in the cache.
Write1(o, c, v, mark) ==
  LET s == [o EXCEPT !.currentid = o.record[o.currentrecord].id] IN
  IF NeedsId(o)
  THEN obj' = o /\ UNCHANGED queue
  ELSE /\ obj' = IF s.currentid = NULL THEN s ELSE AfterIdGet(s)
       /\ WriteAdd(s, c, v, mark)

\* The application gives a key only to a new row, the last one, that has
\* none, and takes it from the sequence.
Settable(c, v, mark) ==
  IF c = KeyField
  THEN /\ ~KeyDefault /\ mark /\ v = nextkey /\ nextkey \in Key
       /\ obj.mode = "INSERT" /\ obj.currentrow = obj.numrecord - 1
       /\ obj.record[obj.currentrow] # NULL
       /\ obj.record[obj.currentrow].cache[KeyField] = NULL
  ELSE v \in Value \cup {NULL}

SetValue(c, v, mark) ==
  /\ Calm /\ Usable(obj) /\ Settable(c, v, mark)
  /\ v = NULL \/ obj.record[obj.currentrow] # NULL
  /\ Careful("newRowAlone") =>
       \A e \in writequeue \ Pending(obj.currentrow) :
         e.type # "INSERT" /\ obj.mode # "INSERT"
  /\ IF obj.currentrecord = Freed
     THEN fault' = "freed_record" /\ UNCHANGED <<obj, queue>>
     ELSE /\ Write1(Identified(Touched(Cached(obj, c, v))), c, v, mark)
          /\ UNCHANGED fault
  /\ nextkey' = IF c = KeyField THEN nextkey + 1 ELSE nextkey
  /\ UNCHANGED <<db, fails, others, saving>>

\* bonddb_add; the default of the key, an unmarked write, is the only one.
Add ==
  LET row == obj.numrecord
      new == [Populate([obj EXCEPT !.mode = "INSERT", !.currentrow = row,
                                   !.numrecord = row + 1], row)
              EXCEPT !.currentrecord = row]
  IN  /\ Calm /\ row < MaxRow
      /\ obj.state = "READ_RAW" \/ (FirstTable /\ obj.state = "NEW")
      /\ Careful("newRowAlone") => writequeue = {}
      /\ IF KeyDefault
         THEN /\ nextkey \in Key /\ nextkey' = nextkey + 1
              /\ Write1(Identified(Touched(Cached(new, KeyField, nextkey))),
                        KeyField, nextkey, FALSE)
         ELSE obj' = new /\ UNCHANGED <<nextkey, queue>>
      /\ UNCHANGED <<db, fails, others, saving, fault>>

\* Mutant of DeleteUnsaved: the record goes, its writes stay in the queue.
DeleteUnsavedStays(row, inserts) ==
  LET gone == RecordDelete(obj, row) IN
  /\ inserts # {} /\ obj' = Land(gone, gone.currentrow)
  /\ UNCHANGED <<queue, fault>>

\* bonddb_write_delete, the first half of bonddb_delete.  A row with pending
\* inserts is dropped with them; any other is queued to be deleted.
DeleteUnsaved(row, inserts) ==
  /\ inserts # {}
  /\ IF row < obj.numrecord /\ obj.record[row] = NULL
     THEN fault' = "null_record" /\ UNCHANGED <<obj, queue>>
     ELSE LET gone == RecordDelete(obj, row)
              kept == writequeue \ inserts
          IN  /\ obj' = Land(gone, gone.currentrow)
              /\ Leave(IF row < obj.numrecord
                       THEN StaleQueue(kept,
                                       obj.record[row].cache[KeyField],
                                       OidOf(obj.record[row]))
                       ELSE kept)
              /\ UNCHANGED fault
DeleteSaved(row, inserts) ==
  /\ inserts = {} /\ tail <= MaxPos
  /\ writequeue' = writequeue \cup
       {[pos |-> tail, row |-> row, type |-> "DELETE", field |-> NULL,
         value |-> NULL, mark |-> FALSE, id |-> obj.currentid]}
  /\ tail' = tail + 1
  /\ UNCHANGED <<obj, writequeuehash, fault>>
WriteDelete ==
  LET row == obj.currentrow
      inserts == {e \in Pending(row) : e.type = "INSERT"}
  IN  /\ Calm /\ obj.numrecord > 0
      /\ Careful("deleteAtOnce") =>
           /\ writequeue = Pending(row) /\ obj.currentrecord # NULL
           /\ obj.mode = "INSERT" => inserts # {}
           /\ obj.currentid # NULL => ~obj.currentid.freed
      /\ DeleteUnsaved(row, inserts) \/ DeleteSaved(row, inserts)
      /\ UNCHANGED <<backend, saving>>

\* bonddb_forcemark.
ForceMark ==
  /\ Calm /\ writequeue # {}
  /\ writequeue' = {[e EXCEPT !.mark = TRUE] : e \in writequeue}
  /\ UNCHANGED <<backend, obj, writequeuehash, tail, saving, fault>>

\* bonddb_abortsave.
AbortSave ==
  /\ Idle /\ writequeue # {}
  /\ Careful("cleanAbort") => \A e \in writequeue : e.type # "INSERT"
  /\ Leave({})
  /\ UNCHANGED <<backend, obj, saving, fault>>

\* bonddb_undo: the cache of the row is emptied, its mode and writes stay.
Undo ==
  LET row == obj.currentrow
      r == obj.record[row]
      k == r.cache[KeyField]
      Emptied(x, i) ==
        IF x = NULL THEN NULL
        ELSE [x EXCEPT !.id = Stale(@, k, NULL),
                       !.cache = IF i = row THEN BlankRecord("READ").cache
                                 ELSE @]
  IN  /\ Calm /\ row < obj.numrecord /\ r # NULL
      /\ Careful("cleanUndo") => r.id = NULL /\ Pending(row) = {}
      /\ obj' = [obj EXCEPT
                   !.record = [i \in Row |-> Emptied(obj.record[i], i)],
                   !.currentid = Stale(@, k, NULL)]
      /\ writequeue' = StaleQueue(writequeue, k, NULL)
      /\ UNCHANGED <<backend, writequeuehash, tail, saving, fault>>

\* bonddb_loadall.  Records are freed only when there was a result; the
\* current id and the write queue are left as they are.
Unloaded ==
  IF obj.res = NULL THEN obj
  ELSE [obj EXCEPT !.record = [i \in Row |-> NULL], !.currentrecord = NULL,
                   !.currentid = Released(@), !.numrecord = 0, !.res = NULL]
Loaded(rs, n) ==
  LET o == Populate([Unloaded EXCEPT !.res = rs, !.state = "READ_RAW",
                                     !.numrecord = n, !.mode = "READ",
                                     !.currentrow = 0], 0)
  IN  [o EXCEPT !.currentrecord = IF n = 0 THEN NULL ELSE 0]
LoadAll ==
  /\ Calm
  /\ Careful("cleanReload") =>
       writequeue = {} /\ (obj.res = NULL => obj.numrecord = 0)
  /\ \/ /\ \E n \in 0..MaxKey : \E r \in [0..(n - 1) -> Key] :
             /\ n <= MaxRow /\ IsAnswer(n, r)
             /\ obj' = Loaded(Answer(n, r), n)
        /\ UNCHANGED fails
     \/ Rejects("SELECT") /\ obj' = [Unloaded EXCEPT !.state = "INVALID"]
  /\ writequeue' = IF obj.res = NULL THEN writequeue
                   ELSE ReleasedQueue(writequeue)
  /\ UNCHANGED <<db, nextkey, others, writequeuehash, tail, saving, fault>>

-----------------------------------------------------------------------------
(* bonddb_save and bonddb_write_all.                                       *)

\* The entry visited next, and what is left when there is none.
Visits(w) ==
  /\ w \in writequeue /\ w.pos > walk
  /\ \A e \in writequeue : e.pos > walk => e.pos >= w.pos
Unvisited == {e \in writequeue : e.pos > walk}

\* Mutant of Group: the statement is made of the row's first entry alone.
GroupFirst(w) == {w}

\* The entries one statement is made of, and the last marked one, whose type
\* and id are the statement's.
Group(w) == {e \in Fields(writequeue) : e.row = w.row}
Marked(G) == {e \in G : e.mark}
LastMarked(G) ==
  CHOOSE e \in Marked(G) : \A x \in Marked(G) : x.pos <= e.pos
Malformed(G) == \E e, x \in G : e.type # x.type

\* What the statement leaves in a column: the value written, else v.
Wrote(G, f, v) ==
  IF \E e \in G : e.field = f THEN (CHOOSE e \in G : e.field = f).value ELSE v

\* The key an INSERT gets, NULL when the backend has to refuse it.
InsertKey(G) ==
  LET k == Wrote(G, KeyField, IF KeyDefault THEN nextkey ELSE NULL)
  IN  IF k \in Key /\ db[k] = NULL THEN k ELSE NULL

\* Mutant of WhereId: the row the object is on is taken for the entry's.
WhereIdCurrent(w) ==
  IF obj.currentid # NULL THEN obj.currentid ELSE w.id

\* bonddb_write_sql_where: the id of the statement.  An entry without one
\* takes its record's, else the id of the row the object is on now.
Guesses(w) == w.id = NULL /\ obj.record[w.row].id = NULL
Guessable ==
  obj.currentrow < obj.numrecord /\ obj.mode \notin Inserting
WhereId(w) ==
  IF w.id # NULL THEN w.id
  ELSE IF obj.record[w.row].id # NULL THEN obj.record[w.row].id
  ELSE IF obj.currentid # NULL THEN obj.currentid
  ELSE IF Guessable THEN IdGet(obj) ELSE NULL
AfterWhere(w) ==
  IF Guesses(w) /\ obj.currentid = NULL /\ Guessable
  THEN IF IdGet(obj) = NULL THEN AfterIdGet(obj)
       ELSE [AfterIdGet(obj) EXCEPT !.record[obj.currentrow].id = IdGet(obj),
                                    !.currentid = IdGet(obj)]
  ELSE obj

WithWhere(w) == (writequeue \ {w}) \cup {[w EXCEPT !.id = WhereId(w)]}

\* What making the clause runs into, if anything.
WhereFault(w) ==
  IF w.id = NULL /\ obj.record[w.row] = NULL THEN "null_record"
  ELSE IF WhereId(w) # NULL /\ WhereId(w).freed THEN "freed_id" ELSE "none"

\* The visit of w is over, the row is dealt with.
Visited(w) ==
  /\ pc = "saving" /\ fault = "none" /\ Visits(w)
  /\ walk' = w.pos
  /\ UNCHANGED <<pc, others>>
DealtWith(w) == wrote' = wrote \cup {w.row} /\ UNCHANGED corrupt

\* A group that is looked at for the first time.
NewGroup(w) == w.type # "DELETE" /\ w.row \notin wrote
GroupOf(w, type) ==
  /\ NewGroup(w) /\ Marked(Group(w)) # {}
  /\ LastMarked(Group(w)).type = type

\* Mutant of Finish: the result is not fetched again after a deletion.
FinishStale(Q) ==
  /\ Leave(Q)
  /\ pc' = "idle" /\ walk' = 0 /\ wrote' = {} /\ corrupt' = FALSE

\* The queue is left with Q, and bonddb_write_all goes on to its last part.
Finish(Q) ==
  /\ Leave(Q)
  /\ pc' = IF corrupt /\ obj.res # NULL THEN "refresh" ELSE "idle"
  /\ walk' = 0 /\ wrote' = {} /\ corrupt' = FALSE

\* Without a record the call returns -1, which bonddb_save hides.
Save ==
  /\ Idle /\ writequeue # {} /\ obj.numrecord > 0
  /\ Careful("markedRows") =>
       \A e \in Fields(writequeue) : Marked(Group(e)) # {}
  /\ pc' = "saving"
  /\ UNCHANGED <<backend, obj, queue, walk, wrote, corrupt, fault>>

\* Mutant of SaveSkip: the walk does not go on to the next entry.
SaveSkipStays(w) ==
  /\ pc = "saving" /\ fault = "none" /\ Visits(w)
  /\ w.type # "DELETE" /\ w.row \in wrote
  /\ UNCHANGED vars

\* An entry of a row already dealt with.
SaveSkip(w) ==
  /\ Visited(w) /\ w.type # "DELETE" /\ w.row \in wrote
  /\ UNCHANGED <<backend, obj, queue, wrote, corrupt, fault>>

\* Nothing to save just yet.
SaveUnmarked(w) ==
  /\ Visited(w) /\ NewGroup(w) /\ Marked(Group(w)) = {}
  /\ DealtWith(w)
  /\ UNCHANGED <<backend, obj, queue, fault>>

\* Mutant of HandleInsert: the object itself is not told of the insert.
HandleInsertRecord(o, row, oid) ==
  LET s == [o EXCEPT !.record[row].mode = "INSERT_SAVED"]
      id == IF IdGet(s) = NULL THEN NULL ELSE [IdGet(s) EXCEPT !.oid = oid]
  IN  [AfterIdGet(s) EXCEPT !.record[row].id = id]

\* bonddb_write_handleinsert.
HandleInsert(o, row, oid) ==
  LET s == [o EXCEPT !.record[row].mode = "INSERT_SAVED"]
      id == IF IdGet(s) = NULL THEN NULL ELSE [IdGet(s) EXCEPT !.oid = oid]
      t == [AfterIdGet(s) EXCEPT !.record[row].id = id]
  IN  IF o.currentrow = row
      THEN [t EXCEPT !.mode = "INSERT_SAVED", !.currentid = id] ELSE t

SaveInsert(w) ==
  LET G == Group(w)
      k == InsertKey(G)
      r == obj.record[w.row]
  IN  /\ Visited(w) /\ GroupOf(w, "INSERT") /\ ~Malformed(G) /\ k # NULL
      /\ db' = [db EXCEPT ![k] = [f \in Field |-> Wrote(G, f, NULL)]]
      /\ nextkey' = IF k = nextkey THEN k + 1 ELSE nextkey
      /\ DealtWith(w)
      /\ IF r = NULL
         THEN fault' = "insert_without_record" /\ UNCHANGED obj
         ELSE IF r.id # NULL
         THEN fault' = "insert_twice" /\ UNCHANGED obj
         ELSE obj' = HandleInsert(obj, w.row, k) /\ UNCHANGED fault
      /\ UNCHANGED <<fails, queue>>

\* An UPDATE of a row that is not there changes nothing and is no error.
SaveUpdate(w) ==
  LET G == Group(w)
      l == LastMarked(G)
      k == Selects(WhereId(l))
  IN  /\ Visited(w) /\ GroupOf(w, "UPDATE") /\ ~Malformed(G)
      /\ WhereFault(l) = "none" /\ WhereId(l) # NULL
      /\ db' = IF db[k] = NULL THEN db
               ELSE [db EXCEPT ![k] = [f \in Field |-> Wrote(G, f, db[k][f])]]
      /\ obj' = AfterWhere(l) /\ writequeue' = WithWhere(l)
      /\ DealtWith(w)
      /\ UNCHANGED <<nextkey, fails, writequeuehash, tail, fault>>

\* No id can be found: the statement is left out.
SaveNoWhere(w) ==
  LET l == LastMarked(Group(w)) IN
  /\ Visited(w) /\ GroupOf(w, "UPDATE")
  /\ WhereFault(l) = "none" /\ WhereId(l) = NULL
  /\ obj' = AfterWhere(l)
  /\ DealtWith(w)
  /\ UNCHANGED <<backend, queue, fault>>

\* Mutant of Kept: the entry the failed statement was made for is not kept.
KeptAfter(w, Q) == {x \in Q : \E e \in Pending(w.row) : x.pos > e.pos}

\* bonddb_write_freelist_special: when the statement fails, everything from
\* the row's first entry on is kept.
Kept(w, Q) == {x \in Q : \E e \in Pending(w.row) : x.pos >= e.pos}

SaveFailRow(w) ==
  LET G == Group(w)
      l == LastMarked(G)
      inserts == GroupOf(w, "INSERT")
      refused == Malformed(G) \/ (inserts /\ InsertKey(G) = NULL)
  IN  /\ pc = "saving" /\ fault = "none" /\ Visits(w)
      /\ inserts \/ (/\ GroupOf(w, "UPDATE")
                     /\ WhereFault(l) = "none" /\ WhereId(l) # NULL)
      /\ IF refused THEN UNCHANGED fails ELSE Rejects(l.type)
      /\ obj' = IF inserts THEN obj ELSE AfterWhere(l)
      /\ Finish(Kept(w, IF inserts THEN writequeue ELSE WithWhere(l)))
      /\ UNCHANGED <<db, nextkey, others, fault>>

\* bonddb_write_sql_delete: the record goes first, then the row.
Deletes(w) ==
  /\ pc = "saving" /\ fault = "none" /\ Visits(w) /\ w.type = "DELETE"
  /\ WhereFault(w) = "none"
Deletable(w) ==
  /\ WhereId(w) # NULL
  /\ w.row < obj.numrecord => obj.record[w.row] # NULL
  /\ obj' = RecordDelete(AfterWhere(w), w.row)
Orphaned(w) ==
  LET r == AfterWhere(w).record[w.row] IN
  IF w.row < obj.numrecord
  THEN StaleQueue(writequeue, r.cache[KeyField], OidOf(r)) ELSE writequeue

SaveDelete(w) ==
  /\ Deletes(w) /\ Deletable(w)
  /\ db' = [db EXCEPT ![Selects(WhereId(w))] = NULL]
  /\ writequeue' = Orphaned(w)
  /\ walk' = w.pos /\ corrupt' = TRUE
  /\ UNCHANGED <<nextkey, fails, others, writequeuehash, tail, pc, wrote,
                 fault>>

\* The statement fails: the rest of the queue is freed with it.
SaveDeleteFail(w) ==
  /\ Deletes(w) /\ Deletable(w) /\ Rejects("DELETE")
  /\ Finish({})
  /\ UNCHANGED <<db, nextkey, others, fault>>

\* No id can be found: the entry is passed over.
SaveDeleteNoWhere(w) ==
  /\ Deletes(w) /\ WhereId(w) = NULL
  /\ obj' = AfterWhere(w) /\ walk' = w.pos
  /\ UNCHANGED <<backend, queue, pc, wrote, corrupt, fault>>

\* A statement that cannot be made without touching what is not there, or a
\* deletion of a row whose record is not there.
Crash(w) ==
  LET entry == IF w.type = "DELETE" THEN w ELSE LastMarked(Group(w)) IN
  IF WhereFault(entry) # "none" THEN WhereFault(entry)
  ELSE IF /\ w.type = "DELETE" /\ WhereId(w) # NULL
          /\ w.row < obj.numrecord /\ obj.record[w.row] = NULL
  THEN "null_record" ELSE "none"
SaveCrash(w) ==
  /\ pc = "saving" /\ fault = "none" /\ Visits(w)
  /\ w.type = "DELETE" \/ GroupOf(w, "UPDATE")
  /\ Crash(w) # "none" /\ fault' = Crash(w)
  /\ UNCHANGED <<backend, obj, queue, saving>>

SaveEnd ==
  /\ pc = "saving" /\ fault = "none" /\ Unvisited = {}
  /\ Finish({})
  /\ UNCHANGED <<backend, obj, fault>>

\* The result is fetched again after a deletion.  The check for errors is
\* given obj->query in place of the result: whatever the backend answered, it
\* may see an error, and it may take an error for an empty result.
Refreshed(rs) ==
  obj' = Land([obj EXCEPT !.res = rs], obj.currentrow)
Refresh ==
  /\ pc = "refresh" /\ pc' = "idle"
  /\ \/ /\ \E n \in 0..MaxKey : \E r \in [0..(n - 1) -> Key] :
             IsAnswer(n, r) /\ Refreshed(Answer(n, r))
        /\ UNCHANGED fails
     \/ Refreshed(NULL) /\ UNCHANGED fails
     \/ Rejects("SELECT") /\ Refreshed(Answer(0, NoHash))
  /\ UNCHANGED <<db, nextkey, others, queue, walk, wrote, corrupt, fault>>

\* A failed assertion or a crash ends the program.
Aborted == fault # "none" /\ UNCHANGED vars

-----------------------------------------------------------------------------
Init ==
  /\ db = [k \in Key |-> IF k <= InitRows
                         THEN [f \in Field |-> CHOOSE v \in Value : TRUE]
                         ELSE NULL]
  /\ nextkey = InitRows + 1 /\ fails = 0 /\ others = 0
  /\ obj = [state |-> "NEW", res |-> NULL, record |-> [i \in Row |-> NULL],
            numrecord |-> 0, currentrow |-> 0, currentrecord |-> NULL,
            currentid |-> NULL, mode |-> "READ", noprimarykey |-> FALSE]
  /\ writequeue = {} /\ writequeuehash = NoHash /\ tail = 1
  /\ pc = "idle" /\ walk = 0 /\ wrote = {} /\ corrupt = FALSE
  /\ fault = "none"

Calls ==
  \/ \E row \in Row : Moveto(row)
  \/ \E c \in Col : GetValue(c)
  \/ \E c \in Col, v \in Datum \cup {NULL}, m \in BOOLEAN : SetValue(c, v, m)
  \/ Add \/ WriteDelete \/ ForceMark \/ AbortSave \/ Undo \/ LoadAll \/ Save

SaveStep ==
  \/ \E w \in writequeue :
       \/ SaveSkip(w) \/ SaveUnmarked(w) \/ SaveInsert(w) \/ SaveUpdate(w)
       \/ SaveNoWhere(w) \/ SaveFailRow(w) \/ SaveDelete(w)
       \/ SaveDeleteFail(w) \/ SaveDeleteNoWhere(w) \/ SaveCrash(w)
  \/ SaveEnd \/ Refresh

Next ==
  \/ Calls \/ SaveStep
  \/ \E k \in Key, v \in TableRow \cup {NULL} : OtherClient(k, v)
  \/ Aborted

\* The thread that called bonddb_save goes on with it.
Spec == Init /\ [][Next]_vars /\ WF_vars(SaveStep)

-----------------------------------------------------------------------------
(* Properties.                                                             *)

Fault == {"none", "insert_without_record", "insert_twice", "freed_id",
          "freed_record", "null_record"}

\* Every variable has its type.
TypeOK ==
  /\ db \in [Key -> TableRow \cup {NULL}]
  /\ nextkey \in Nat \ {0} /\ fails \in 0..MaxFail /\ others \in 0..MaxOther
  /\ obj \in Object
  /\ writequeue \subseteq Write /\ tail \in Nat \ {0}
  /\ pc \in {"idle", "saving", "refresh"} /\ walk \in Nat
  /\ wrote \subseteq Row /\ corrupt \in BOOLEAN /\ fault \in Fault

\* The queue and its hash agree (bonddb_write_add, which looks a write up in
\* the hash to supersede it): at most one write is pending to a column of a
\* row, the hash finds it, and finds nothing else.
HashAgrees ==
  /\ \A e \in writequeue : e.pos < tail
  /\ \A e, x \in writequeue : e.pos = x.pos => e = x
  /\ DOMAIN writequeuehash = {HashKey(e) : e \in Fields(writequeue)}
  /\ \A e \in Fields(writequeue) : writequeuehash[HashKey(e)] = e.pos

\* Between calls, an object whose values can be read and written is on one
\* row: the record, mode and id it works with are those of its current row
\* (bonddb_moveto, bonddb_add, bonddb_record_delete, the end of a save).
CursorCoherent ==
  LET r == obj.record[obj.currentrow] IN
  Idle /\ Usable(obj) =>
    /\ obj.currentrecord = obj.currentrow
    /\ r # NULL /\ r.mode = obj.mode
    /\ obj.mode \in {"UPDATE", "INSERT_SAVED"} => obj.currentid = r.id

\* No call aborts the program or follows a pointer to freed memory
\* (the assertions of bonddb_write_handleinsert, mem_verify of the id in
\* bonddb_write_sql_where).
NoAbort == fault = "none"

\* An INSERT is made for a row that has a record
\* (g_assert(obj->record[w->row]) in bonddb_write_handleinsert).
InsertHasRecord == fault # "insert_without_record"

\* A row is inserted once: an INSERT is made for a record without an id
\* (g_assert(obj->record[w->row]->id == NULL), ibid.).
InsertedOnce == fault # "insert_twice"

\* The key the object shows for a row, NULL when it shows none.
Shown(row) ==
  LET r == obj.record[row] IN
  IF r # NULL /\ r.cache[KeyField] # NULL THEN r.cache[KeyField]
  ELSE IF obj.res = NULL \/ row \notin DOMAIN obj.res THEN NULL
  ELSE obj.res[row].key

\* A record fetched from the backend stands at the place of its row in the
\* result, and a row without a record is in the result: deletions, which
\* close the gap in the array, refresh the result before it is read again
\* (the end of bonddb_write_all).
ResultAligned ==
  Idle /\ obj.res # NULL =>
    \A row \in 0..(obj.numrecord - 1) :
      LET r == obj.record[row] IN
      r = NULL \/ r.mode \notin Inserting =>
        /\ row \in DOMAIN obj.res
        /\ obj.res[row].key = Shown(row)

\* A save touches one row of the table at a time, the one the object shows
\* at the place the write was made for, and leaves there what the object
\* shows there or a NULL that was written.
SavedAsShown ==
  [][pc = "saving" /\ db' # db =>
       \E w \in writequeue :
         /\ Visits(w)
         /\ \A k \in Key : db'[k] # db[k] =>
              /\ Shown(w.row) = k
              /\ db'[k] # NULL => \A f \in Field :
                   db'[k][f] \in {NULL, obj.record[w.row].cache[f]}
                     \cup IF db[k] = NULL THEN {} ELSE {db[k][f]}]_vars

\* A write is stored: the row shown at its place holds the value.
Stored(e) ==
  \E k \in Present :
    k = Shown(e.row) /\ (e.field = KeyField \/ db[k][e.field] = e.value)
Doomed(e) == \E d \in writequeue : d.type = "DELETE" /\ d.row = e.row

\* When a save returns, a write that was marked to be saved has been stored
\* or is still in the queue, unless its row was deleted: none is lost.
NothingLost ==
  [][pc = "saving" /\ pc' # "saving" =>
       \A e \in Fields(writequeue) :
         e.mark => \/ Stored(e) \/ Doomed(e)
                   \/ \E x \in writequeue' : x.pos = e.pos]_vars

\* bonddb_save returns (SaveStep is the loop of bonddb_write_all).
SaveReturns == pc = "saving" ~> Idle \/ fault # "none"
=============================================================================

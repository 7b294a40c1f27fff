----------------------------- MODULE BondFilter -----------------------------
(***************************************************************************)
(* The rows of one database object: the array of records and its growth    *)
(* (bonddb/bonddbrecord.c), the cursor and the calls that move it          *)
(* (bonddbobj.c, bonddbid.c, bonddbarray.c), and the filters that renumber *)
(* the rows (bonddbfilter.c).                                              *)
(*                                                                         *)
(* Abstractions.  Values are numbers, and LIKE is the relation Within.     *)
(* A record has the values of its row from when it is made; the queue of   *)
(* writes and the ids themselves are in BondObject, here a record is new   *)
(* until it is saved and has an id or not.  A pointer to a record is the   *)
(* record's place in the array now, or Freed.  The query returns rows in   *)
(* key order; the key has a default; no statement is rejected.             *)
(***************************************************************************)
EXTENDS Integers, FiniteSets, SequencesExt

CONSTANTS
  Field,       \* the columns
  KeyField,    \* the primary key among them
  NULL,        \* the NULL pointer, and the SQL NULL
  Freed,       \* a pointer to freed memory
  Junk,        \* memory nobody has written
  Condition,   \* the filters the application may ask for
  Within,      \* <<v, w>>: the text of v contains that of w
  ResultSets,  \* what the query may return
  Chunk,       \* the record array grows by this (100 in the code)
  Slack,       \* and has this to spare (2 in the code)
  Discipline,  \* what the application is careful about, see Rule
  MaxRow,      \* bound: rows of an object
  MaxRequest   \* bound: filters in force together

(* What the application observes, by the calls each rule guards.           *)
(*   lastRow      delete only the last row of the array                    *)
(*   clearFirst   load only when no filter has been asked for              *)
(*   loadFirst    load an object for the first time, or after a blank, only *)
(*                while it has had no rows                                 *)
(*   filterRows   filter only while there are rows to see, and take one of *)
(*                several filters away only while the object has rows      *)
(*   knownKey     move to an id only when a row has it, and neither that   *)
(*                row nor one before it is new                             *)
(*   ownId        jump to an id only from a row that has one, and that was *)
(*                moved to since rows were loaded again                    *)
(*   saveFirst    delete from filtered rows only when no other row is new  *)
(*   unfiltered   jump, and extract arrays, only without a filter          *)
Rule == {"lastRow", "clearFirst", "loadFirst", "filterRows", "knownKey",
         "ownId", "saveFirst", "unfiltered"}

Value == Int \cup {NULL}
RowValues == {v \in [Field -> Value] : v[KeyField] \in Int}
Records == [row : Nat, val : RowValues, new : BOOLEAN, id : BOOLEAN]

ASSUME FilterAssumption ==
  /\ KeyField \in Field
  /\ Condition \subseteq [field : Field, opr : STRING, value : Value]
  /\ \A table \in ResultSets :
       \E n \in 0..MaxRow : table \in [0..(n - 1) -> RowValues]
  /\ Chunk \in Nat \ {0} /\ Slack \in Nat
  /\ MaxRow \in Nat /\ MaxRequest \in Nat
  /\ Discipline \subseteq Rule

\* Pointers that are NULL, freed or never written point to nothing.
ASSUME PointerAssumption ==
  /\ NULL # Junk
  /\ {NULL, Freed} \cap (0..MaxRow) = {} /\ NULL \notin Int
  /\ \A pointer \in {NULL, Junk} : pointer \notin Records
  /\ \A n \in 0..MaxRow :
       NULL \notin [0..(n - 1) -> RowValues] \cup [0..(n - 1) -> Nat]

VARIABLES
  obj,    \* the BonddbClass struct
  late,   \* rows added or changed since all rows were last filtered
  fault   \* the bad dereference or failed assertion that ended it all

objVars == <<obj, late, fault>>

-----------------------------------------------------------------------------
(* The struct.  record is a function on the places of the array, with an   *)
(* empty domain when the pointer is NULL; filterhash maps the numbers of   *)
(* the rows that are shown to records, or is NULL.                         *)

NewObject ==
  [res |-> NULL, record |-> <<>>, numrecord |-> 0, currentrow |-> 0,
   currentrecord |-> NULL, currentid |-> NULL, noprimarykey |-> FALSE,
   filterhash |-> NULL, filterrequest |-> <<>>, ignoreassert |-> FALSE]

\* A record; row is never changed, id tells whether the pointer is set.
Record(row, val, new, id) ==
  [row |-> row, val |-> val, new |-> new, id |-> id]
IdOf(r) == IF r.id THEN "own" ELSE NULL
NoValues == [f \in Field |-> NULL]

Filtered(o) == o.filterhash # NULL
IsRecord(o, p) == p \in DOMAIN o.record /\ o.record[p] \notin {NULL, Junk}

\* bonddb_numrecord.
NumRecord(o) ==
  IF Filtered(o) THEN Cardinality(DOMAIN o.filterhash) ELSE o.numrecord

\* What the result says of a row, and what the object shows.
InResult(o, row) ==
  IF o.res # NULL /\ row \in DOMAIN o.res THEN o.res[row] ELSE NoValues
Values(o, row) ==
  IF IsRecord(o, row) THEN o.record[row].val ELSE InResult(o, row)

\* Mutant of Grown: what is new of the array is not cleared.
GrownDirty(o, inserting) ==
  LET size == o.numrecord + Chunk + Slack
      old == o.record
  IN  IF old = <<>> THEN [p \in 0..(size - 1) |-> NULL]
      ELSE IF inserting /\ o.numrecord % Chunk = 0 /\ o.numrecord > 0
      THEN [p \in 0..(size - 1) |-> IF p \in DOMAIN old THEN old[p] ELSE Junk]
      ELSE old

\* bonddb_record_populate's array: made when there is none, and made larger
\* by an insert that makes the number of rows a multiple of Chunk.
Grown(o, inserting) ==
  LET size == o.numrecord + Chunk + Slack
      old == o.record
      blank == o.numrecord..(o.numrecord + Chunk - 1)
  IN  IF old = <<>> THEN [p \in 0..(size - 1) |-> NULL]
      ELSE IF inserting /\ o.numrecord % Chunk = 0 /\ o.numrecord > 0
      THEN [p \in 0..(size - 1) |-> IF p \in blank THEN NULL
                                    ELSE IF p \in DOMAIN old THEN old[p]
                                    ELSE Junk]
      ELSE old

\* The object after the rows in rows are visited, the row in the end last.
Visit(o, rows, row) ==
  LET array == Grown(o, FALSE)
      id == ~o.noprimarykey
      seen == [p \in DOMAIN array |->
                 IF p \in rows /\ array[p] = NULL
                 THEN Record(p, InResult(o, p), FALSE, id) ELSE array[p]]
  IN  [o EXCEPT !.record = seen, !.currentrow = row, !.currentrecord = row,
                !.currentid = IdOf(seen[row])]

\* The row that the number n stands for (bonddb_filter_moveto), if any.
HasRow(o, n) == Filtered(o) => n \in DOMAIN o.filterhash
RealRow(o, n) ==
  IF ~Filtered(o) THEN n
  ELSE IF ~IsRecord(o, o.filterhash[n]) THEN Freed
  ELSE o.record[o.filterhash[n]].row

\* bonddb_moveto lets the call through; it reads outside of the array or
\* through a pointer to freed memory; or the cursor moves.
Moves(o, n) == (o.ignoreassert \/ n \in 0..(o.numrecord - 1)) /\ HasRow(o, n)
Strays(o, n) ==
  /\ Moves(o, n)
  /\ \/ RealRow(o, n) = Freed
     \/ RealRow(o, n) \notin DOMAIN Grown(o, FALSE)
     \/ Grown(o, FALSE)[RealRow(o, n)] = Junk
MovetoRow(o, n) ==
  IF ~Moves(o, n) \/ Strays(o, n) THEN o
  ELSE Visit(o, {RealRow(o, n)}, RealRow(o, n))

-----------------------------------------------------------------------------
(* Filters (bonddbfilter.c).                                               *)

\* bonddb_filter_compare of a value v with the condition q.
Compare(q, v) ==
  IF v = NULL \/ q.value = NULL
  THEN \/ q.opr = "eq" /\ q.value = v
       \/ q.opr = "not" /\ q.value # v
  ELSE \/ q.opr = "eq" /\ v = q.value
       \/ q.opr = "not" /\ v # q.value
       \/ q.opr = "like" /\ <<v, q.value>> \in Within
       \/ q.opr = "gt" /\ v > q.value
       \/ q.opr = "lt" /\ v < q.value
       \/ q.opr = "geq" /\ v >= q.value
       \/ q.opr = "leq" /\ v <= q.value

\* The numbers of the rows shown that the loop of
\* bonddb_filter_byvalue_internal gets past, and those it keeps.
Passed(o) ==
  {n \in 0..(NumRecord(o) - 1) : Moves(o, 0) /\ \A m \in 0..n : HasRow(o, m)}
Matches(o, q) ==
  {n \in Passed(o) : Compare(q, Values(o, RealRow(o, n))[q.field])}

\* The n-th of a set of numbers, from 0.
Nth(S, n) == CHOOSE m \in S : Cardinality({l \in S : l < m}) = n

\* Mutant of FilterHash: the number of a row shown is taken for its row.
FilterHashNumbers(o, q) ==
  [n \in 0..(Cardinality(Matches(o, q)) - 1) |-> Nth(Matches(o, q), n)]

\* The new hash, and the number of the row to be on when it is done.
FilterHash(o, q) ==
  [n \in 0..(Cardinality(Matches(o, q)) - 1) |->
     RealRow(o, Nth(Matches(o, q), n))]
LandOn(hash, oldrow) ==
  LET on == {n \in DOMAIN hash : hash[n] >= oldrow}
  IN  IF on = {} THEN 0 ELSE Nth(on, 0)

\* bonddb_filter_byvalue_internal: no rows, a row it cannot move to (the
\* flag ignoreassert is left set), or the new hash in place of the old.
FilterStuck(o) == Passed(o) # 0..(NumRecord(o) - 1)
Looped(o) ==
  Visit(o, {RealRow(o, n) : n \in Passed(o)},
        RealRow(o, Cardinality(Passed(o)) - 1))
StuckOn(o) ==
  IF Passed(o) = {} THEN o ELSE [Looped(o) EXCEPT !.ignoreassert = TRUE]
Refiltered(o, q) ==
  LET hash == FilterHash(o, q)
      bare == [Looped(o) EXCEPT !.filterhash = NULL, !.ignoreassert = FALSE]
  IN  IF hash = <<>>
      THEN [MovetoRow(bare, o.currentrow) EXCEPT !.filterhash = hash]
      ELSE MovetoRow([bare EXCEPT !.filterhash = hash],
                     LandOn(hash, o.currentrow))
FilterBy(o, q) ==
  IF NumRecord(o) = 0 THEN o
  ELSE IF FilterStuck(o) THEN StuckOn(o)
  ELSE Refiltered(o, q)

\* One filter after the other.
FilterByAll(o, requests) ==
  LET filtered[i \in 0..Len(requests)] ==
        IF i = 0 THEN o ELSE FilterBy(filtered[i - 1], requests[i])
  IN  filtered[Len(requests)]

\* A row of the old numbering is a record that was freed.
FilterStrays(o) ==
  \E n \in 0..(NumRecord(o) - 1) : HasRow(o, n) /\ RealRow(o, n) = Freed

\* bonddb_filter_clear.
FilterCleared(o) == [o EXCEPT !.filterrequest = <<>>, !.filterhash = NULL]

\* bonddb_filter_delete: a number whose record says it is this row goes, the
\* one that is found last if more do; the others keep theirs.
FilterDelete(o, row) ==
  LET found == {n \in DOMAIN o.filterhash : RealRow(o, n) = row} IN
  IF ~Filtered(o) THEN NULL
  ELSE IF found = {} THEN o.filterhash
  ELSE [n \in DOMAIN o.filterhash \ {CHOOSE n \in found : TRUE} |->
          o.filterhash[n]]

-----------------------------------------------------------------------------
(* Records.                                                                *)

\* Mutant of RecordDelete: the cursor stays where the record was.
RecordDeleteStay(o, row) ==
  LET n == o.numrecord
      Up(p) == IF p \notin Nat THEN p
               ELSE IF p = row THEN Freed ELSE IF p > row THEN p - 1 ELSE p
      hash == FilterDelete(o, row)
  IN  [o EXCEPT
         !.filterhash = IF hash = NULL THEN NULL
                        ELSE [m \in DOMAIN hash |-> Up(hash[m])],
         !.record = [p \in DOMAIN o.record |->
                       IF p \in row..(n - 2) THEN o.record[p + 1]
                       ELSE IF p = n - 1 THEN NULL ELSE o.record[p]],
         !.numrecord = n - 1]

\* bonddb_record_delete: later records move up, and keep their row.
RecordDelete(o, row) ==
  LET n == o.numrecord
      Up(p) == IF p \notin Nat THEN p
               ELSE IF p = row THEN Freed ELSE IF p > row THEN p - 1 ELSE p
      hash == FilterDelete(o, row)
      landing == IF row < n - 1 THEN row ELSE IF row = 0 THEN 0 ELSE row - 1
  IN  [o EXCEPT
         !.filterhash = IF hash = NULL THEN NULL
                        ELSE [m \in DOMAIN hash |-> Up(hash[m])],
         !.record = [p \in DOMAIN o.record |->
                       IF p \in row..(n - 2) THEN o.record[p + 1]
                       ELSE IF p = n - 1 THEN NULL ELSE o.record[p]],
         !.numrecord = n - 1,
         !.currentrecord = IF o.currentrow = row THEN NULL ELSE Up(@),
         !.currentid = IF o.currentrow = row THEN NULL ELSE @,
         !.currentrow = IF o.currentrow = row THEN landing ELSE @]

\* bonddb_record_freeall: the hash and the current id keep pointing to what
\* was freed.
FreeAll(o) ==
  [o EXCEPT !.record = <<>>, !.numrecord = 0, !.currentrecord = NULL,
            !.currentid = IF @ = NULL THEN NULL ELSE Freed,
            !.filterhash = IF ~Filtered(o) THEN NULL
                           ELSE [n \in DOMAIN @ |-> Freed]]

\* The new rows of an object, and those of them that break an assertion of
\* bonddb_write_handleinsert when they are saved.
New(o) == {p \in 0..(o.numrecord - 1) : IsRecord(o, p) /\ o.record[p].new}
Identified(o) == {p \in New(o) : o.record[p].id}

\* Mutant of Saved: a row that was just saved has no id yet.
SavedOnly(o) ==
  [o EXCEPT !.record = [p \in DOMAIN o.record |->
                          IF p \in New(o) THEN [o.record[p] EXCEPT !.new = FALSE]
                          ELSE o.record[p]]]

\* The new rows are inserted and given ids (bonddb_write_handleinsert); the
\* keys are read from the current record, and without one the object counts
\* as having no primary key.
Saved(o) ==
  LET id == ~o.noprimarykey /\ o.currentrecord # NULL IN
  [o EXCEPT !.record = [p \in DOMAIN o.record |->
                          IF p \in New(o)
                          THEN [o.record[p] EXCEPT !.new = FALSE, !.id = id]
                          ELSE o.record[p]],
            !.noprimarykey = @ \/ (New(o) # {} /\ ~id),
            !.currentid = IF o.currentrow \notin New(o) THEN @
                          ELSE IF id THEN "own" ELSE NULL]

\* Mutant of RowFromId: the rows the result does not have are left out.
RowFromIdResult(o, k) ==
  LET has == {n \in 0..(NumRecord(o) - 1) : InResult(o, n)[KeyField] = k}
  IN  IF has = {} THEN -1 ELSE Nth(has, 0)

\* bonddb_id_get_row_from_id: the first row with the key k.  It reads the
\* array by the numbers that are shown.
RowFromId(o, k) ==
  LET has == {n \in 0..(NumRecord(o) - 1) : Values(o, n)[KeyField] = k}
  IN  IF has = {} THEN -1 ELSE Nth(has, 0)

-----------------------------------------------------------------------------
(* The application's calls.                                                *)

Careful(rule) == rule \in Discipline
Alive == fault = "none"
Loaded == obj.res # NULL
Unfiltered == Careful("unfiltered") => ~Filtered(obj)

\* The call goes through and leaves o, or dereferences what it may not or
\* fails an assertion.
Becomes(o, crash) ==
  /\ obj' = IF crash THEN obj ELSE o
  /\ fault' = IF crash THEN "crash" ELSE fault

\* bonddb_loadall, bonddb_sql_runnow: what the query returns now.
Load(table) ==
  LET bare == IF Loaded THEN FreeAll(obj) ELSE obj
      o == [bare EXCEPT !.res = table, !.currentrow = 0,
                        !.numrecord = Cardinality(DOMAIN table)]
      array == Grown(o, FALSE)
  IN  /\ Alive
      /\ Careful("clearFirst") => obj.filterrequest = <<>>
      /\ Careful("loadFirst") => Loaded \/ obj.record = <<>>
      /\ Becomes(IF o.numrecord = 0
                 THEN [o EXCEPT !.record = array, !.currentrecord = NULL]
                 ELSE [o EXCEPT !.currentrecord = 0,
                         !.record = IF array[0] # NULL THEN array ELSE
                           [array EXCEPT ![0] =
                              Record(0, table[0], FALSE, FALSE)]], FALSE)
      /\ late' = {}

\* bonddb_blank.
Blank ==
  /\ Alive
  /\ Becomes([FilterCleared(FreeAll(obj)) EXCEPT !.res = NULL,
                !.currentrow = 0, !.ignoreassert = FALSE,
                !.currentid = NULL, !.noprimarykey = FALSE], FALSE)
  /\ late' = {}

\* bonddb_moveto.
Moveto(n) ==
  /\ Alive /\ (Loaded \/ obj.numrecord > 0)
  /\ Becomes(MovetoRow(obj, n), Strays(obj, n))
  /\ UNCHANGED late

\* bonddb_filter_byvalue.
FilterByValue(q) ==
  /\ Alive /\ Loaded /\ Len(obj.filterrequest) < MaxRequest
  /\ Careful("filterRows") => NumRecord(obj) > 0
  /\ Becomes(FilterBy([obj EXCEPT !.filterrequest = Append(@, q)], q),
             FilterStrays(obj))
  /\ late' = IF Filtered(obj) THEN late ELSE {}

\* bonddb_filter_remove: a lone filter is cleared whatever was asked, and
\* one of several is left out as the others are applied again.
FilterRemove(f) ==
  LET asked == {i \in DOMAIN obj.filterrequest :
                  obj.filterrequest[i].field = f}
      rest == RemoveAt(obj.filterrequest, CHOOSE i \in asked :
                                            \A j \in asked : i <= j)
  IN  /\ Alive
      /\ IF Len(obj.filterrequest) = 1
         THEN Becomes(FilterCleared(obj), FALSE) /\ late' = {}
         ELSE /\ asked # {}
              /\ Careful("filterRows") => obj.numrecord > 0
              /\ Becomes(FilterByAll([obj EXCEPT !.filterrequest = rest,
                                                 !.filterhash = NULL], rest),
                         FALSE)
              /\ late' = {}

\* bonddb_filter_clear.
FilterClear ==
  /\ Alive /\ (Filtered(obj) \/ obj.filterrequest # <<>>)
  /\ Becomes(FilterCleared(obj), FALSE)
  /\ late' = {}

\* A key the sequence has not issued yet.
NewKey ==
  1 + Max({0} \cup {Values(obj, p)[KeyField] : p \in 0..(obj.numrecord - 1)})

\* bonddb_add, with the default of the key.
Add ==
  LET row == obj.numrecord
      o == [obj EXCEPT !.numrecord = row + 1]
      array == Grown(o, TRUE)
      new == [NoValues EXCEPT ![KeyField] = NewKey]
      stray == row \notin DOMAIN array \/ array[row] = Junk
  IN  /\ Alive /\ row < MaxRow
      /\ Becomes([o EXCEPT !.currentrow = row, !.currentrecord = row,
                           !.currentid = NULL,
                           !.record = [p \in DOMAIN array |->
                                         IF p # row THEN array[p]
                                         ELSE Record(row, new, TRUE, FALSE)]],
                 stray)
      /\ late' = late \cup {row}

\* bonddb_setvalue of a data column of the row the object is on.  A row that
\* was loaded has an id from then on.
SetValue(f, v) ==
  LET row == obj.currentrow
      r == obj.record[row]
      id == r.id \/ (Loaded /\ ~r.new /\ ~obj.noprimarykey)
  IN  /\ Alive /\ f # KeyField /\ v # NULL
      /\ row < obj.numrecord /\ obj.currentrecord # NULL
      /\ Becomes([obj EXCEPT !.record[row] = [r EXCEPT !.val[f] = v,
                                                       !.id = id],
                             !.currentid = IF id THEN "own" ELSE NULL],
                 ~IsRecord(obj, row))
      /\ late' = late \cup {row}

\* bonddb_save.
Save ==
  /\ Alive /\ New(obj) # {}
  /\ Becomes(Saved(obj), Identified(obj) # {})
  /\ UNCHANGED late

\* bonddb_delete of the row the object is on.  A new row goes, the object
\* moves and the rest is saved; for a stored row the rest is saved, the row
\* goes, and when there is a result the query runs again and the object
\* moves, to the number that the row has come to have.
Delete ==
  LET row == obj.currentrow
      new == obj.record[row].new
      others == IF new THEN obj ELSE Saved(obj)
      gone == RecordDelete(others, row)
      rows == [p \in 0..(gone.numrecord - 1) |->
                 Values(obj, IF p < row THEN p ELSE p + 1)]
      o == IF new \/ ~Loaded THEN gone ELSE [gone EXCEPT !.res = rows]
      moves == new \/ Loaded
      moved == IF moves THEN MovetoRow(o, o.currentrow) ELSE o
  IN  /\ Alive /\ row < obj.numrecord /\ obj.currentrecord = row
      /\ IsRecord(obj, row)
      /\ Careful("lastRow") => row = obj.numrecord - 1
      /\ Careful("saveFirst") => ~Filtered(obj) \/ New(obj) \subseteq {row}
      /\ Becomes(IF new THEN Saved(moved) ELSE moved,
                 \/ ~(Identified(obj) \subseteq {row})
                 \/ moves /\ Strays(o, o.currentrow))
      /\ late' = {p \in 0..(gone.numrecord - 1) :
                   (IF p < row THEN p ELSE p + 1) \in late}

\* bonddb_jumpto: move to the row that has the id of another object's row.
Jumpto(k) ==
  LET n == RowFromId(obj, k) IN
  /\ Alive /\ Loaded /\ Unfiltered /\ n # -1
  /\ Becomes(MovetoRow(obj, n), Strays(obj, n))
  /\ UNCHANGED late

\* bonddb_jumpto_id: asks for the id of the row it is on, for the columns of
\* the key, visits each row on the way, and goes back when no row has the
\* key: to the number of its old row.
JumptoId(k) ==
  LET row == obj.currentrow
      owns == \/ obj.currentid # NULL
              \/ /\ row < obj.numrecord /\ IsRecord(obj, row)
                 /\ ~obj.record[row].new /\ ~obj.noprimarykey
      has == IF obj.currentid = NULL
             THEN [obj EXCEPT !.record[row].id = TRUE] ELSE obj
      n == RowFromId(obj, k)
      last == IF n = -1 THEN NumRecord(obj) - 1 ELSE n
      on == {m \in 0..last : HasRow(obj, m)}
      seen == Visit(has, {RealRow(obj, m) : m \in on},
                    RealRow(obj, Nth(on, Cardinality(on) - 1)))
  IN  /\ Alive /\ Loaded /\ Unfiltered /\ on # {}
      /\ Careful("ownId") => owns /\ obj.currentid # Freed
      /\ \A m \in on : ~Strays(obj, m)
      /\ IF ~owns THEN Becomes(obj, FALSE)
         ELSE Becomes(IF n = -1 THEN MovetoRow(seen, row) ELSE seen,
                      \/ obj.currentid = Freed
                      \/ n = -1 /\ Strays(seen, row))
      /\ UNCHANGED late

\* bonddb_moveto_id: looks at the rows of the array, giving ids to those that
\* have none, and leaves the cursor on the last of them when none is the one.
MovetoId(k) ==
  LET has == {p \in 0..(obj.numrecord - 1) : Values(obj, p)[KeyField] = k}
      row == IF has = {} THEN obj.numrecord - 1 ELSE Nth(has, 0)
      o == Visit(obj, 0..row, row)
      given == [o EXCEPT !.record =
                  [p \in DOMAIN o.record |->
                     IF p \in 0..row
                     THEN [o.record[p] EXCEPT !.id = @ \/ ~obj.noprimarykey]
                     ELSE o.record[p]]]
      found == has # {} /\ ~obj.noprimarykey
  IN  /\ Alive /\ Loaded /\ obj.record # <<>> /\ obj.numrecord > 0
      /\ Careful("knownKey") => has # {} /\ New(obj) \cap 0..row = {}
      /\ Becomes([given EXCEPT
                    !.currentrecord = IF found THEN row ELSE obj.currentrecord,
                    !.currentid = IF found THEN "own" ELSE obj.currentid],
                 ~(0..row \subseteq DOMAIN obj.record))
      /\ UNCHANGED late

\* bonddb_array_extract: reads every row shown, and goes back to the number
\* of its old row.
ArrayExtract ==
  LET on == {m \in 0..(NumRecord(obj) - 1) : HasRow(obj, m)}
      seen == [Visit(obj, {RealRow(obj, m) : m \in on},
                     RealRow(obj, Nth(on, Cardinality(on) - 1)))
                 EXCEPT !.ignoreassert = FALSE]
  IN  /\ Alive /\ Loaded /\ Unfiltered /\ on # {}
      /\ \A m \in on : ~Strays(obj, m)
      /\ Becomes(MovetoRow(seen, obj.currentrow),
                 Strays(seen, obj.currentrow))
      /\ UNCHANGED late

FilterInit == obj = NewObject /\ late = {} /\ fault = "none"

FilterNext ==
  \/ \E table \in ResultSets : Load(table)
  \/ Blank
  \/ \E n \in 0..(MaxRow - 1) : Moveto(n)
  \/ \E q \in Condition : FilterByValue(q)
  \/ \E f \in Field : FilterRemove(f)
  \/ FilterClear
  \/ Add
  \/ \E q \in Condition : SetValue(q.field, q.value)
  \/ Save
  \/ Delete
  \/ \E k \in 1..MaxRow : Jumpto(k) \/ JumptoId(k) \/ MovetoId(k)
  \/ ArrayExtract

FilterSpec == FilterInit /\ [][FilterNext]_objVars

-----------------------------------------------------------------------------
(* Properties.                                                             *)

\* The rows that a filtered object shows, by their numbers.
Shown == {RealRow(obj, n) : n \in DOMAIN obj.filterhash}
Passes(row) ==
  \A i \in DOMAIN obj.filterrequest :
    Compare(obj.filterrequest[i], Values(obj, row)[obj.filterrequest[i].field])

\* A filtered object numbers, without a gap and in the order of the rows,
\* exactly the rows that pass every filter asked for, whatever filters were
\* removed and rows deleted since; rows added or changed since are apart
\* ("this function will look up the correct corresponding row",
\* bonddbobj.c:852).
FilterExact ==
  Filtered(obj) =>
    /\ DOMAIN obj.filterhash = 0..(NumRecord(obj) - 1)
    /\ Shown \subseteq 0..(obj.numrecord - 1)
    /\ \A n, m \in DOMAIN obj.filterhash :
         n < m => RealRow(obj, n) < RealRow(obj, m)
    /\ \A row \in 0..(obj.numrecord - 1) \ late : row \in Shown <=> Passes(row)

\* No call reads outside of the record array, memory of it that was never
\* written, or a record that was freed: there is a clean place for every
\* row, however rows come and go (bonddb_record_populate).
Addressable ==
  /\ Alive
  /\ \A p \in 0..(obj.numrecord - 1) :
       p \in DOMAIN obj.record /\ obj.record[p] # Junk

\* A row that was saved, or that the object has moved to, has its id, and a
\* new one has none: else its next save changes nothing, or fails an
\* assertion (bonddbwrite.c:304).  The first row may not have been asked.
IdsInOrder ==
  /\ ~obj.noprimarykey /\ Identified(obj) = {}
  /\ \A p \in 1..(obj.numrecord - 1) :
       IsRecord(obj, p) => obj.record[p].id \/ obj.record[p].new

\* While there are rows the cursor is on one of them, and the current record
\* is the record of that row or unset.
CursorOnRecord ==
  /\ obj.numrecord > 0 => obj.currentrow < obj.numrecord
  /\ obj.currentrecord # NULL =>
       obj.currentrecord = obj.currentrow /\ IsRecord(obj, obj.currentrow)

\* The three ways of finding a row by its key land on that row whenever the
\* object has it, and reading an array of values comes back to the row it
\* left (bonddb_jumpto, bonddb_jumpto_id, bonddb_moveto_id).
JumpLands ==
  /\ \A k \in 1..MaxRow :
       /\ \E p \in 0..(obj.numrecord - 1) : Values(obj, p)[KeyField] = k
       /\ Jumpto(k) \/ JumptoId(k) \/ MovetoId(k)
       => Values(obj', obj'.currentrow)[KeyField] = k
  /\ ArrayExtract => obj'.currentrow = obj.currentrow

\* Every jump of the object is such a one.
JumpFinds == [][JumpLands]_objVars
=============================================================================

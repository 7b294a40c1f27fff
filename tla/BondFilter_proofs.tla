--------------------------- MODULE BondFilter_proofs --------------------------
(***************************************************************************)
(* Rows, cursor and filters, for any columns, filters, query results and   *)
(* number of rows, when the application observes every rule.               *)
(*                                                                         *)
(* Every row has a clean place in the array, and is a record or in the     *)
(* result; the array has room up to a multiple of Chunk above the rows,    *)
(* which is where bonddb_record_populate makes it larger.  While rows are  *)
(* filtered the hash lists records in the order of the array.  An object   *)
(* with a new row has a current record, so that a save finds its keys.     *)
(***************************************************************************)
EXTENDS BondFilter, FiniteSetTheorems, SetInduction

Fields == {"res", "record", "numrecord", "currentrow", "currentrecord",
           "currentid", "noprimarykey", "filterhash", "filterrequest",
           "ignoreassert"}

\* The numbers of the rows.
Places(o) == 0..(o.numrecord - 1)

\* There is no array and there are no rows, or the array is clean up to a
\* multiple of Chunk, with room for a row more.
Room(o) ==
  \/ o.record = <<>> /\ o.numrecord = 0
  \/ \E size \in Nat :
       /\ o.numrecord < size /\ size % Chunk = 0
       /\ \A p \in 0..(size - 1) : p \in DOMAIN o.record /\ o.record[p] # Junk

\* Each row is a record of its own or a row of the result.
RowsIn(o) ==
  \A p \in Places(o) :
    \/ o.record[p] \in Records /\ o.record[p].row = p
    \/ o.record[p] = NULL /\ o.res # NULL /\ p \in DOMAIN o.res

RowsInv(o) ==
  /\ DOMAIN o = Fields
  /\ o.numrecord \in 0..MaxRow
  /\ o.res # NULL => \E n \in 0..MaxRow : o.res \in [0..(n - 1) -> RowValues]
  /\ Room(o) /\ RowsIn(o)

\* New rows have no ids, and visited ones have.
IdsInv(o) ==
  /\ ~o.noprimarykey /\ ~o.ignoreassert
  /\ \A p \in Places(o) :
       IsRecord(o, p) => /\ o.record[p].new => ~o.record[p].id
                         /\ p # 0 => o.record[p].id \/ o.record[p].new

\* The hash numbers records, in the order of the array.
HashOf(o, m) ==
  /\ o.filterhash \in [0..(m - 1) -> Places(o)]
  /\ \A n \in 0..(m - 1) : IsRecord(o, o.filterhash[n])
  /\ \A n, l \in 0..(m - 1) : n < l => o.filterhash[n] < o.filterhash[l]

HashInv(o) == Filtered(o) => \E m \in 0..MaxRow : HashOf(o, m)

\* The cursor, and what it says of the current record.
CursorInv(o) ==
  /\ o.currentrow \in Nat
  /\ o.numrecord > 0 => o.currentrow < o.numrecord
  /\ o.currentrecord # NULL =>
       o.currentrecord = o.currentrow /\ IsRecord(o, o.currentrow)
       /\ o.numrecord > 0
  /\ New(o) # {} => o.currentrecord # NULL

\* The rows that are shown, and those that pass the filters asked for.
Visible(o, p) == Filtered(o) => \E n \in DOMAIN o.filterhash : o.filterhash[n] = p
PassesAll(o, p) ==
  \A i \in DOMAIN o.filterrequest :
    Compare(o.filterrequest[i], Values(o, p)[o.filterrequest[i].field])

ShownInv(o, apart) ==
  /\ o.filterrequest \in Seq(Condition)
  /\ o.filterrequest = <<>> <=> ~Filtered(o)
  /\ \A p \in Places(o) \ apart : Visible(o, p) <=> PassesAll(o, p)

ObjectInv(o) == RowsInv(o) /\ IdsInv(o) /\ HashInv(o) /\ CursorInv(o)
FilterInv == fault = "none" /\ ObjectInv(obj) /\ ShownInv(obj, late)

-----------------------------------------------------------------------------
(* Numbers and sets of them.                                               *)

\* The next multiple of Chunk.
LEMMA NextMultiple ==
  ASSUME NEW n \in Nat, n % Chunk = 0
  PROVE  (n + Chunk) % Chunk = 0
<1>0. Chunk \in Nat /\ Chunk > 0
  BY FilterAssumption
<1>1. PICK q \in Int : n = Chunk * q
  BY <1>0
<1>2. n + Chunk = Chunk * (q + 1)
  BY <1>0, <1>1
<1>3. (Chunk * (q + 1)) % Chunk = 0
  BY <1>0
<1> QED BY <1>2, <1>3

\* A multiple of Chunk lies above n, no more than Chunk above.
LEMMA MultipleAbove ==
  ASSUME NEW n \in Nat
  PROVE  \E size \in Nat : n < size /\ size <= n + Chunk /\ size % Chunk = 0
<1> DEFINE S == {m \in Nat : \E size \in Nat :
                   m < size /\ size <= m + Chunk /\ size % Chunk = 0}
<1>0. Chunk \in Nat /\ Chunk > 0
  BY FilterAssumption
<1>1. 0 \in S
  <2>1. Chunk % Chunk = 0
    BY <1>0
  <2> QED BY <1>0, <2>1
<1>2. ASSUME NEW m \in Nat, m \in S PROVE m + 1 \in S
  <2>1. PICK size \in Nat : m < size /\ size <= m + Chunk /\ size % Chunk = 0
    BY <1>2
  <2>2. (size + Chunk) % Chunk = 0
    BY <2>1, NextMultiple
  <2>3. CASE size > m + 1
    BY <1>0, <2>1, <2>3
  <2>4. CASE size = m + 1
    <3>1. size + Chunk \in Nat /\ m + 1 < size + Chunk
          /\ size + Chunk <= m + 1 + Chunk
      BY <1>0, <2>4
    <3> QED BY <2>2, <3>1
  <2> QED BY <2>1, <2>3, <2>4
<1> HIDE DEF S
<1>3. Nat \subseteq S
  BY <1>1, <1>2, NatSetInduction
<1> QED BY <1>3 DEF S

\* The members of S below m.
Below(S, m) == {l \in S : l < m}

LEMMA BelowFinite ==
  ASSUME NEW N \in Nat, NEW S \in SUBSET (0..N), NEW m
  PROVE  /\ IsFiniteSet(S) /\ IsFiniteSet(Below(S, m))
         /\ Cardinality(S) \in Nat /\ Cardinality(Below(S, m)) \in Nat
<1>1. IsFiniteSet(0..N)
  <2>1. 0 \in Int /\ N \in Int
    OBVIOUS
  <2> QED BY <2>1, FS_Interval
<1>2. Below(S, m) \in SUBSET S
  BY DEF Below
<1>3. IsFiniteSet(S)
  BY <1>1, FS_Subset
<1>4. IsFiniteSet(Below(S, m))
  BY <1>2, <1>3, FS_Subset
<1> QED BY <1>3, <1>4, FS_CardinalityType

\* A set of numbers has a member that n others are below.
LEMMA NthExists ==
  ASSUME NEW N \in Nat, NEW S \in SUBSET (0..N),
         NEW n \in 0..(Cardinality(S) - 1)
  PROVE  \E m \in S : Cardinality(Below(S, m)) = n
<1> DEFINE Numbered(T) ==
             \A i \in 0..(Cardinality(T) - 1) :
               \E m \in T : Cardinality(Below(T, m)) = i
           H == {k \in Nat : \A T \in SUBSET (0..(k - 1)) : Numbered(T)}
<1>1. 0 \in H
  <2> SUFFICES ASSUME NEW T \in SUBSET (0..(0 - 1)) PROVE Numbered(T)
    OBVIOUS
  <2>1. T = {}
    OBVIOUS
  <2>2. Cardinality(T) = 0
    BY <2>1, FS_EmptySet
  <2> QED BY <2>2
<1>2. ASSUME NEW k \in Nat, k \in H PROVE k + 1 \in H
  <2> SUFFICES ASSUME NEW T \in SUBSET (0..((k + 1) - 1)),
                      NEW i \in 0..(Cardinality(T) - 1)
               PROVE  \E m \in T : Cardinality(Below(T, m)) = i
    OBVIOUS
  <2> DEFINE U == T \ {k}
  <2>1. U \in SUBSET (0..(k - 1)) /\ U \in SUBSET (0..k) /\ T \in SUBSET (0..k)
    OBVIOUS
  <2>2. IsFiniteSet(T)
    BY <2>1, BelowFinite
  <2>3. Numbered(U)
    BY <1>2, <2>1
  <2>4. Cardinality(U) = IF k \in T THEN Cardinality(T) - 1 ELSE Cardinality(T)
    BY <2>2, FS_RemoveElement
  <2>5. Cardinality(T) \in Nat
    BY <2>1, BelowFinite
  <2>6. CASE i \in 0..(Cardinality(U) - 1)
    <3>1. PICK m \in U : Cardinality(Below(U, m)) = i
      BY <2>3, <2>6
    <3>2. Below(T, m) = Below(U, m)
      BY <2>1 DEF Below
    <3> QED BY <3>1, <3>2
  <2>7. CASE k \in T /\ i = Cardinality(U)
    <3>1. \A l \in T : l < k <=> l # k
      BY <2>1
    <3>2. Below(T, k) = U
      BY <3>1 DEF Below
    <3> QED BY <2>7, <3>2
  <2> QED BY <2>4, <2>5, <2>6, <2>7
<1> HIDE DEF H
<1>3. Nat \subseteq H
  BY <1>1, <1>2, NatSetInduction
<1>4. N + 1 \in H /\ S \in SUBSET (0..((N + 1) - 1))
  BY <1>3
<1>5. Numbered(S)
  BY <1>4 DEF H
<1> QED BY <1>5

\* More members are below a larger one.
LEMMA BelowGrows ==
  ASSUME NEW N \in Nat, NEW S \in SUBSET (0..N),
         NEW l \in S, NEW m \in S, l < m
  PROVE  Cardinality(Below(S, l)) < Cardinality(Below(S, m))
<1> DEFINE L == Below(S, l)
<1>0. ~(l < l) /\ \A k \in S : k < l => k < m
  OBVIOUS
<1>1. L \cup {l} \in SUBSET Below(S, m) /\ l \notin L
  BY <1>0 DEF Below
<1>2. IsFiniteSet(L) /\ IsFiniteSet(Below(S, m))
      /\ Cardinality(L) \in Nat /\ Cardinality(Below(S, m)) \in Nat
  BY BelowFinite
<1> HIDE DEF L
<1>3. Cardinality(L \cup {l}) = Cardinality(L) + 1
  BY <1>1, <1>2, FS_AddElement
<1>4. Cardinality(L \cup {l}) <= Cardinality(Below(S, m))
  BY <1>1, <1>2, FS_Subset
<1> QED BY <1>2, <1>3, <1>4 DEF L

\* Nth numbers the members of a set in their order, and all of them.
Numbers(S) ==
  /\ \A n \in 0..(Cardinality(S) - 1) : Nth(S, n) \in S
  /\ \A n, l \in 0..(Cardinality(S) - 1) : n < l => Nth(S, n) < Nth(S, l)
  /\ \A m \in S : \E n \in 0..(Cardinality(S) - 1) : Nth(S, n) = m

LEMMA NthNumbers ==
  ASSUME NEW N \in Nat, NEW S \in SUBSET (0..N)
  PROVE  Numbers(S) /\ Cardinality(S) \in 0..(N + 1)
<1>0. IsFiniteSet(S) /\ Cardinality(S) \in Nat
  BY BelowFinite
<1>1. ASSUME NEW n \in 0..(Cardinality(S) - 1)
      PROVE  Nth(S, n) \in S /\ Cardinality(Below(S, Nth(S, n))) = n
  <2>1. \E m \in S : Cardinality(Below(S, m)) = n
    BY NthExists
  <2>2. Nth(S, n) = CHOOSE m \in S : Cardinality(Below(S, m)) = n
    BY DEF Nth, Below
  <2> QED BY <2>1, <2>2
<1>2. ASSUME NEW n \in 0..(Cardinality(S) - 1),
             NEW l \in 0..(Cardinality(S) - 1), n < l
      PROVE  Nth(S, n) < Nth(S, l)
  <2> DEFINE a == Nth(S, n)
             b == Nth(S, l)
  <2>1. a \in S /\ Cardinality(Below(S, a)) = n
    BY <1>1
  <2>2. b \in S /\ Cardinality(Below(S, b)) = l
    BY <1>1
  <2> HIDE DEF a, b
  <2>0. n \in Nat /\ l \in Nat /\ a \in Nat /\ b \in Nat
    BY <1>0, <2>1, <2>2
  <2>3. ~(b < a)
    <3> SUFFICES ASSUME b < a PROVE FALSE
      OBVIOUS
    <3>1. Cardinality(Below(S, b)) < Cardinality(Below(S, a))
      BY <2>1, <2>2, BelowGrows
    <3> QED BY <1>2, <2>0, <2>1, <2>2, <3>1
  <2>4. a # b
    BY <1>2, <2>0, <2>1, <2>2
  <2> QED BY <2>0, <2>1, <2>2, <2>3, <2>4 DEF a, b
<1>3. ASSUME NEW m \in S
      PROVE  \E n \in 0..(Cardinality(S) - 1) : Nth(S, n) = m
  <2> DEFINE n == Cardinality(Below(S, m))
  <2>1. n \in Nat /\ IsFiniteSet(Below(S, m))
    BY BelowFinite
  <2>2. n < Cardinality(S)
    <3>1. Below(S, m) \in SUBSET S /\ Below(S, m) # S
      BY DEF Below
    <3> QED BY <1>0, <2>1, <3>1, FS_Subset
  <2>3. n \in 0..(Cardinality(S) - 1)
    BY <1>0, <2>1, <2>2
  <2> DEFINE a == Nth(S, n)
  <2>4. a \in S /\ Cardinality(Below(S, a)) = n
    BY <1>1, <2>3
  <2> HIDE DEF a
  <2>5. ~(a < m)
    <3> SUFFICES ASSUME a < m PROVE FALSE
      OBVIOUS
    <3>1. Cardinality(Below(S, a)) < Cardinality(Below(S, m))
      BY <2>4, BelowGrows
    <3> QED BY <2>1, <2>4, <3>1
  <2>6. ~(m < a)
    <3> SUFFICES ASSUME m < a PROVE FALSE
      OBVIOUS
    <3>1. Cardinality(Below(S, m)) < Cardinality(Below(S, a))
      BY <2>4, BelowGrows
    <3> QED BY <2>1, <2>4, <3>1
  <2>7. a \in Nat /\ m \in Nat
    BY <2>4
  <2>8. a = m
    BY <2>5, <2>6, <2>7
  <2> QED BY <2>3, <2>8 DEF a
<1>4. Cardinality(S) <= N + 1
  <2>1. S \in SUBSET Nat /\ \A s \in S : s <= N
    OBVIOUS
  <2> QED BY <2>1, FS_BoundedSetOfNaturals
<1> QED BY <1>0, <1>1, <1>2, <1>3, <1>4 DEF Numbers

\* The largest of a set of numbers listed by places is a number.
LEMMA LargestExists ==
  ASSUME NEW N \in Nat, NEW g, \A p \in 0..(N - 1) : g[p] \in Int
  PROVE  Max({0} \cup {g[p] : p \in 0..(N - 1)}) \in Int
<1> DEFINE Values0(n) == {0} \cup {g[p] : p \in 0..(n - 1)}
           H == {n \in Nat : n <= N =>
                   \E x \in Values0(n) : \A y \in Values0(n) : x >= y}
<1>0. ASSUME NEW n \in Nat, n <= N PROVE Values0(n) \subseteq Int
  BY <1>0
<1>1. 0 \in H
  <2>1. Values0(0) = {0}
    OBVIOUS
  <2> QED BY <2>1
<1>2. ASSUME NEW n \in Nat, n \in H PROVE n + 1 \in H
  <2> SUFFICES ASSUME n + 1 <= N
               PROVE  \E x \in Values0(n + 1) : \A y \in Values0(n + 1) : x >= y
    OBVIOUS
  <2>1. PICK x \in Values0(n) : \A y \in Values0(n) : x >= y
    BY <1>2
  <2>2. Values0(n + 1) = Values0(n) \cup {g[n]}
    OBVIOUS
  <2>3. g[n] \in Int /\ x \in Int /\ Values0(n) \subseteq Int
    BY <1>0, <2>1
  <2> HIDE DEF Values0
  <2>4. CASE x >= g[n]
    BY <2>1, <2>2, <2>4
  <2>5. CASE g[n] >= x
    <3>1. \A y \in Values0(n) : g[n] >= y
      BY <2>1, <2>3, <2>5
    <3>2. g[n] >= g[n]
      BY <2>3
    <3> QED BY <2>2, <3>1, <3>2
  <2> QED BY <2>3, <2>4, <2>5
<1> HIDE DEF H
<1>3. Nat \subseteq H
  BY <1>1, <1>2, NatSetInduction
<1>4. N \in H
  BY <1>3
<1>5. \E x \in Values0(N) : \A y \in Values0(N) : x >= y
  BY <1>4 DEF H
<1>6. Max(Values0(N)) \in Values0(N)
  BY <1>5 DEF Max
<1> QED BY <1>0, <1>6

-----------------------------------------------------------------------------
(* The array and the cursor.                                               *)

LEMMA Pointers ==
  /\ NULL # Junk /\ NULL \notin Records /\ Junk \notin Records
  /\ \A n \in 0..MaxRow : n # NULL /\ n # Freed
  /\ MaxRow \in Nat /\ Chunk \in Nat /\ Chunk > 0 /\ Slack \in Nat
BY FilterAssumption, PointerAssumption

\* What is at the place of a row.
Cell(o, p) ==
  /\ p \in DOMAIN o.record /\ o.record[p] # Junk
  /\ IsRecord(o, p) => o.record[p] \in Records /\ o.record[p].row = p
  /\ ~IsRecord(o, p) => /\ o.record[p] = NULL /\ o.res # NULL
                        /\ p \in DOMAIN o.res /\ o.res[p] \in RowValues
  /\ Values(o, p) \in RowValues
  /\ p \in 0..MaxRow /\ p # NULL /\ p # Freed

LEMMA Cells ==
  ASSUME NEW o, RowsInv(o), NEW p \in Places(o)
  PROVE  Cell(o, p) /\ o.record # <<>>
<1>1. p \in Nat /\ o.numrecord \in Nat /\ p < o.numrecord /\ p \in 0..MaxRow
  BY Pointers DEF Places, RowsInv
<1>2. PICK size \in Nat :
        /\ o.numrecord < size
        /\ \A q \in 0..(size - 1) : q \in DOMAIN o.record /\ o.record[q] # Junk
  BY <1>1 DEF RowsInv, Room
<1>3. p \in DOMAIN o.record /\ o.record[p] # Junk
  BY <1>1, <1>2
<1>4. o.record # <<>>
  BY <1>3
<1>5. CASE o.record[p] \in Records /\ o.record[p].row = p
  <2>1. IsRecord(o, p)
    BY <1>3, <1>5, Pointers DEF IsRecord
  <2>2. Values(o, p) \in RowValues
    BY <1>5, <2>1 DEF Values, Records
  <2> QED BY <1>1, <1>3, <1>4, <1>5, <2>1, <2>2, Pointers DEF Cell
<1>6. CASE o.record[p] = NULL /\ o.res # NULL /\ p \in DOMAIN o.res
  <2>1. ~IsRecord(o, p)
    BY <1>6 DEF IsRecord
  <2>2. o.res[p] \in RowValues
    BY <1>6 DEF RowsInv
  <2>3. Values(o, p) \in RowValues
    BY <1>6, <2>1, <2>2 DEF Values, InResult
  <2> QED BY <1>1, <1>3, <1>4, <1>6, <2>1, <2>2, <2>3, Pointers DEF Cell
<1> QED BY <1>5, <1>6 DEF RowsInv, RowsIn

\* v has the rows of o, with their values; no record of a row is lost and no
\* row becomes new.
Keeps(o, v) ==
  /\ RowsInv(v) /\ IdsInv(v)
  /\ v.res = o.res /\ v.numrecord = o.numrecord
  /\ v.filterrequest = o.filterrequest
  /\ New(v) \subseteq New(o)
  /\ \A p \in Places(o) : /\ Values(v, p) = Values(o, p)
                          /\ IsRecord(o, p) => IsRecord(v, p)

LEMMA KeepsOn ==
  ASSUME NEW o, NEW u, NEW v, Keeps(o, u), Keeps(u, v)
  PROVE  Keeps(o, v)
BY DEF Keeps, Places

LEMMA KeepsItself ==
  ASSUME NEW o, RowsInv(o), IdsInv(o)
  PROVE  Keeps(o, o)
BY DEF Keeps

\* v shows of the rows it still has those that o shows.
ShowsAlike(o, v) ==
  /\ Places(v) \subseteq Places(o) /\ v.filterrequest = o.filterrequest
  /\ Filtered(v) <=> Filtered(o)
  /\ \A p \in Places(v) : /\ Values(v, p) = Values(o, p)
                          /\ Visible(v, p) <=> Visible(o, p)

LEMMA ShowsAlikeOn ==
  ASSUME NEW o, NEW u, NEW v, ShowsAlike(o, u), ShowsAlike(u, v)
  PROVE  ShowsAlike(o, v)
BY DEF ShowsAlike

LEMMA ShownAlike ==
  ASSUME NEW o, NEW v, ShowsAlike(o, v), NEW apart, NEW left,
         Places(v) \cap apart \subseteq left, ShownInv(o, apart)
  PROVE  ShownInv(v, left)
<1>1. \A p \in Places(v) : PassesAll(v, p) <=> PassesAll(o, p)
  BY DEF ShowsAlike, PassesAll
<1> QED BY <1>1 DEF ShownInv, ShowsAlike

LEMMA KeepsShown ==
  ASSUME NEW o, NEW v, Keeps(o, v), v.filterhash = o.filterhash
  PROVE  /\ HashInv(o) => HashInv(v)
         /\ ShowsAlike(o, v)
         /\ \A apart : ShownInv(o, apart) => ShownInv(v, apart)
<1>1. Places(v) = Places(o) /\ (Filtered(v) <=> Filtered(o))
  BY DEF Keeps, Places, Filtered
<1>2. ASSUME HashInv(o) PROVE HashInv(v)
  <2> SUFFICES ASSUME Filtered(v) PROVE \E m \in 0..MaxRow : HashOf(v, m)
    BY DEF HashInv
  <2>1. PICK m \in 0..MaxRow : HashOf(o, m)
    BY <1>1, <1>2 DEF HashInv
  <2>2. \A n \in 0..(m - 1) : IsRecord(v, v.filterhash[n])
    BY <2>1 DEF Keeps, HashOf
  <2> QED BY <1>1, <2>1, <2>2 DEF HashOf
<1>3. ShowsAlike(o, v)
  BY <1>1 DEF Keeps, Visible, ShowsAlike
<1> QED BY <1>2, <1>3, ShownAlike

\* The object is on a record of its own.
OnRecord(v) ==
  /\ v.currentrow \in Places(v)
  /\ v.currentrecord = v.currentrow /\ IsRecord(v, v.currentrow)

LEMMA OnRecordCursor ==
  ASSUME NEW v, v.numrecord \in 0..MaxRow, OnRecord(v)
  PROVE  CursorInv(v)
<1>1. v.currentrow \in Nat /\ v.currentrow < v.numrecord /\ v.numrecord > 0
      /\ v.currentrow \in 0..MaxRow
  BY Pointers DEF OnRecord, Places
<1> QED BY <1>1, Pointers DEF CursorInv, OnRecord

\* Places that are visited become records, and nothing else changes.
Visited(o, v, S, r) ==
  /\ Keeps(o, v) /\ v.filterhash = o.filterhash
  /\ v.currentrow = r /\ v.currentrecord = r /\ New(v) = New(o)
  /\ \A p \in S : IsRecord(v, p)
  /\ \A p \in Places(o) : IsRecord(o, p) => v.record[p] = o.record[p]
  /\ \A p \in Places(o) : IsRecord(v, p) /\ ~IsRecord(o, p) =>
                             v.record[p].id /\ ~v.record[p].new
  /\ OnRecord(v)

LEMMA VisitVisits ==
  ASSUME NEW o, RowsInv(o), IdsInv(o),
         NEW S \in SUBSET Places(o), NEW r \in S
  PROVE  Visited(o, Visit(o, S, r), S, r)
<1> DEFINE v == Visit(o, S, r)
           made(p) == Record(p, InResult(o, p), FALSE, TRUE)
           seen == [p \in DOMAIN o.record |->
                      IF p \in S /\ o.record[p] = NULL
                      THEN made(p) ELSE o.record[p]]
<1>1. r \in Places(o) /\ o.record # <<>> /\ DOMAIN o = Fields
      /\ ~o.noprimarykey /\ ~o.ignoreassert
  BY Cells DEF RowsInv, IdsInv
<1>2. Grown(o, FALSE) = o.record
  BY <1>1 DEF Grown
<1>3. v = [o EXCEPT !.record = seen, !.currentrow = r, !.currentrecord = r,
                    !.currentid = IdOf(seen[r])]
  BY <1>1, <1>2 DEF Visit
<1>4. /\ DOMAIN v = Fields
      /\ v.record = seen /\ v.currentrow = r /\ v.currentrecord = r
      /\ v.res = o.res /\ v.numrecord = o.numrecord
      /\ v.noprimarykey = o.noprimarykey /\ v.ignoreassert = o.ignoreassert
      /\ v.filterhash = o.filterhash /\ v.filterrequest = o.filterrequest
  <2> HIDE DEF seen
  <2> QED BY <1>1, <1>3 DEF Fields
<1>5. Places(v) = Places(o)
  BY <1>4 DEF Places
<1> HIDE DEF v
<1>6. ASSUME NEW p \in Places(o)
      PROVE  /\ p \in DOMAIN v.record /\ v.record[p] # Junk
             /\ IsRecord(o, p) => IsRecord(v, p) /\ v.record[p] = o.record[p]
             /\ ~IsRecord(o, p) /\ p \in S =>
                   IsRecord(v, p) /\ v.record[p] = made(p)
             /\ ~IsRecord(o, p) /\ p \notin S =>
                   ~IsRecord(v, p) /\ v.record[p] = NULL
             /\ made(p).new = FALSE /\ made(p).id = TRUE /\ made(p).row = p
             /\ made(p).val = InResult(o, p)
             /\ ~IsRecord(o, p) => made(p) \in Records
  <2>1. Cell(o, p)
    BY Cells
  <2>2. /\ made(p).new = FALSE /\ made(p).id = TRUE /\ made(p).row = p
        /\ made(p).val = InResult(o, p)
    BY DEF Record
  <2>3. ~IsRecord(o, p) => made(p) \in Records
    BY <2>1 DEF Cell, Record, Records, InResult
  <2>4. p \in DOMAIN v.record
    BY <1>4, <2>1 DEF Cell
  <2>5. CASE IsRecord(o, p)
    <3>1. v.record[p] = o.record[p]
      BY <1>4, <2>1, <2>5 DEF Cell, IsRecord
    <3> QED BY <2>1, <2>2, <2>4, <2>5, <3>1 DEF Cell, IsRecord
  <2>6. CASE ~IsRecord(o, p) /\ p \in S
    <3>1. v.record[p] = made(p)
      BY <1>4, <2>1, <2>6 DEF Cell
    <3> HIDE DEF made
    <3> QED BY <2>2, <2>3, <2>4, <2>6, <3>1, Pointers DEF IsRecord
  <2>7. CASE ~IsRecord(o, p) /\ p \notin S
    <3>1. v.record[p] = NULL
      BY <1>4, <2>1, <2>7 DEF Cell
    <3> QED BY <2>2, <2>3, <2>4, <2>7, <3>1, Pointers DEF IsRecord
  <2> QED BY <2>5, <2>6, <2>7
<1>7. Room(v)
  <2>1. PICK size \in Nat :
          /\ o.numrecord < size /\ size % Chunk = 0
          /\ \A p \in 0..(size - 1) :
               p \in DOMAIN o.record /\ o.record[p] # Junk
    BY <1>1 DEF RowsInv, Room
  <2>2. ASSUME NEW p \in 0..(size - 1)
        PROVE  p \in DOMAIN v.record /\ v.record[p] # Junk
    <3>1. CASE p \in S /\ o.record[p] = NULL
      BY <1>6, <3>1
    <3>2. CASE ~(p \in S /\ o.record[p] = NULL)
      BY <1>4, <2>1, <3>2
    <3> QED BY <3>1, <3>2
  <2> QED BY <1>4, <2>1, <2>2 DEF Room
<1> HIDE DEF made
<1>8. RowsIn(v)
  <2> SUFFICES ASSUME NEW p \in Places(o)
               PROVE  \/ v.record[p] \in Records /\ v.record[p].row = p
                      \/ v.record[p] = NULL /\ v.res # NULL /\ p \in DOMAIN v.res
    BY <1>5 DEF RowsIn
  <2>1. Cell(o, p)
    BY Cells
  <2> QED BY <1>4, <1>6, <2>1 DEF Cell
<1>9. RowsInv(v)
  BY <1>4, <1>7, <1>8 DEF RowsInv
<1>10. IdsInv(v)
  <2> SUFFICES ASSUME NEW p \in Places(o), IsRecord(v, p)
               PROVE  /\ v.record[p].new => ~v.record[p].id
                      /\ p # 0 => v.record[p].id \/ v.record[p].new
    BY <1>1, <1>4, <1>5 DEF IdsInv
  <2>1. CASE IsRecord(o, p)
    BY <1>6, <2>1 DEF IdsInv
  <2>2. CASE ~IsRecord(o, p)
    BY <1>6, <2>2
  <2> QED BY <2>1, <2>2
<1>11. ASSUME NEW p \in Places(o)
       PROVE  /\ Values(v, p) = Values(o, p)
              /\ IsRecord(v, p) /\ v.record[p].new
                   <=> IsRecord(o, p) /\ o.record[p].new
  <2>1. InResult(v, p) = InResult(o, p)
    BY <1>4 DEF InResult
  <2>2. CASE IsRecord(o, p)
    BY <1>6, <2>2 DEF Values
  <2>3. CASE ~IsRecord(o, p) /\ p \in S
    BY <1>6, <2>3 DEF Values
  <2>4. CASE ~IsRecord(o, p) /\ p \notin S
    BY <1>6, <2>1, <2>4 DEF Values
  <2> QED BY <2>2, <2>3, <2>4
<1>12. New(v) = New(o)
  BY <1>4, <1>11 DEF New, Places
<1>13. Keeps(o, v)
  BY <1>4, <1>6, <1>9, <1>10, <1>11, <1>12 DEF Keeps
<1>14. \A p \in S : IsRecord(v, p)
  BY <1>6
<1>15. OnRecord(v)
  BY <1>1, <1>4, <1>5, <1>14 DEF OnRecord
<1>16. \A p \in Places(o) :
         /\ IsRecord(o, p) => v.record[p] = o.record[p]
         /\ IsRecord(v, p) /\ ~IsRecord(o, p) =>
              v.record[p].id /\ ~v.record[p].new
  BY <1>6
<1>17. Visited(o, v, S, r)
  BY <1>4, <1>12, <1>13, <1>14, <1>15, <1>16 DEF Visited
<1> QED BY <1>17 DEF v

\* The number of a row shown stands for that row.
LEMMA RealRows ==
  ASSUME NEW o, RowsInv(o), HashInv(o), NEW n, HasRow(o, n),
         ~Filtered(o) => n \in Places(o)
  PROVE  /\ RealRow(o, n) \in Places(o) /\ RealRow(o, n) # Freed
         /\ Filtered(o) => RealRow(o, n) = o.filterhash[n]
                           /\ IsRecord(o, o.filterhash[n])
<1>1. CASE ~Filtered(o)
  BY <1>1, Cells DEF RealRow, Cell
<1>2. CASE Filtered(o)
  <2>1. PICK m \in 0..MaxRow : HashOf(o, m)
    BY <1>2 DEF HashInv
  <2>2. n \in 0..(m - 1)
    BY <1>2, <2>1 DEF HasRow, HashOf
  <2>3. o.filterhash[n] \in Places(o) /\ IsRecord(o, o.filterhash[n])
    BY <2>1, <2>2 DEF HashOf
  <2>4. Cell(o, o.filterhash[n])
    BY <2>3, Cells
  <2> QED BY <1>2, <2>3, <2>4 DEF RealRow, Cell
<1> QED BY <1>1, <1>2

\* bonddb_moveto reads no bad memory, and the object stays or is on the row.
LEMMA MovetoRowMoves ==
  ASSUME NEW o, RowsInv(o), IdsInv(o), HashInv(o), NEW n
  PROVE  /\ ~Strays(o, n)
         /\ Keeps(o, MovetoRow(o, n))
         /\ MovetoRow(o, n).filterhash = o.filterhash
         /\ IF Moves(o, n)
            THEN RealRow(o, n) \in Places(o) /\
                 Visited(o, MovetoRow(o, n), {RealRow(o, n)}, RealRow(o, n))
            ELSE MovetoRow(o, n) = o
<1>1. CASE ~Moves(o, n)
  BY <1>1, KeepsItself DEF Strays, MovetoRow
<1>2. CASE Moves(o, n)
  <2>1. n \in Places(o) /\ HasRow(o, n)
    BY <1>2 DEF Moves, IdsInv, Places
  <2> DEFINE r == RealRow(o, n)
  <2>2. r \in Places(o) /\ r # Freed
    BY <2>1, RealRows
  <2> HIDE DEF r
  <2>3. Cell(o, r) /\ o.record # <<>>
    BY <2>2, Cells
  <2>4. ~Strays(o, n)
    BY <2>2, <2>3 DEF Strays, Grown, Cell, r
  <2>5. MovetoRow(o, n) = Visit(o, {r}, r)
    BY <1>2, <2>4 DEF MovetoRow, r
  <2>6. Visited(o, Visit(o, {r}, r), {r}, r)
    BY <2>2, VisitVisits
  <2> QED BY <1>2, <2>2, <2>4, <2>5, <2>6 DEF r, Visited
<1> QED BY <1>1, <1>2

-----------------------------------------------------------------------------
(* Filters.                                                                *)

\* v has the array of u, and so has its rows.
LEMMA SameArray ==
  ASSUME NEW u, RowsInv(u), IdsInv(u), NEW v, DOMAIN v = Fields,
         v.res = u.res, v.record = u.record, v.numrecord = u.numrecord,
         ~v.noprimarykey, ~v.ignoreassert
  PROVE  /\ RowsInv(v) /\ IdsInv(v) /\ New(v) = New(u) /\ Places(v) = Places(u)
         /\ \A p : IsRecord(v, p) <=> IsRecord(u, p)
         /\ \A p : Values(v, p) = Values(u, p)
         /\ v.filterrequest = u.filterrequest => Keeps(u, v)
<1>1. \A p : IsRecord(v, p) <=> IsRecord(u, p)
  BY DEF IsRecord
<1>2. \A p : Values(v, p) = Values(u, p)
  BY DEF Values, IsRecord, InResult
<1>3. New(v) = New(u)
  BY DEF New, IsRecord
<1>4. RowsInv(v)
  BY DEF RowsInv, RowsIn, Room, Places
<1>5. IdsInv(v)
  BY DEF IdsInv, Places, IsRecord
<1> QED BY <1>1, <1>2, <1>3, <1>4, <1>5 DEF Keeps, Places

\* The numbers of the rows that are shown stand for rows, in their order.
Shows(o) ==
  LET N == NumRecord(o) IN
  /\ N \in 0..MaxRow
  /\ \A n \in 0..(N - 1) : /\ HasRow(o, n) /\ RealRow(o, n) \in Places(o)
                           /\ RealRow(o, n) # Freed
  /\ \A n, l \in 0..(N - 1) : n < l => RealRow(o, n) < RealRow(o, l)
  /\ \A p \in Places(o) :
       Visible(o, p) <=> \E n \in 0..(N - 1) : RealRow(o, n) = p

LEMMA HashSize ==
  ASSUME NEW o, NEW m \in 0..MaxRow, HashOf(o, m), Filtered(o)
  PROVE  NumRecord(o) = m /\ DOMAIN o.filterhash = 0..(m - 1)
<1>1. DOMAIN o.filterhash = 0..(m - 1)
  BY DEF HashOf
<1>2. 0 \in Int /\ m - 1 \in Int
  BY Pointers
<1>3. Cardinality(0..(m - 1)) = m
  BY <1>2, FS_Interval
<1> QED BY <1>1, <1>3 DEF NumRecord

LEMMA ShowsRows ==
  ASSUME NEW o, RowsInv(o), HashInv(o)
  PROVE  Shows(o)
<1>1. CASE ~Filtered(o)
  <2>1. NumRecord(o) = o.numrecord /\ o.numrecord \in 0..MaxRow
    BY <1>1 DEF NumRecord, RowsInv
  <2>2. ASSUME NEW n \in 0..(o.numrecord - 1)
        PROVE  HasRow(o, n) /\ RealRow(o, n) = n
               /\ n \in Places(o) /\ RealRow(o, n) # Freed
    <3>1. n \in Places(o)
      BY DEF Places
    <3> QED BY <1>1, <3>1, Cells DEF HasRow, RealRow, Cell
  <2>3. \A p \in Places(o) : Visible(o, p)
    BY <1>1 DEF Visible
  <2> QED BY <2>1, <2>2, <2>3 DEF Shows, Places
<1>2. CASE Filtered(o)
  <2>1. PICK m \in 0..MaxRow : HashOf(o, m)
    BY <1>2 DEF HashInv
  <2>2. NumRecord(o) = m /\ DOMAIN o.filterhash = 0..(m - 1)
    BY <1>2, <2>1, HashSize
  <2>3. ASSUME NEW n \in 0..(m - 1)
        PROVE  /\ HasRow(o, n) /\ RealRow(o, n) = o.filterhash[n]
               /\ RealRow(o, n) \in Places(o) /\ RealRow(o, n) # Freed
    <3>1. HasRow(o, n)
      BY <2>2 DEF HasRow
    <3> QED BY <1>2, <3>1, RealRows
  <2>4. \A n, l \in 0..(m - 1) : n < l => RealRow(o, n) < RealRow(o, l)
    BY <2>1, <2>3 DEF HashOf
  <2>5. ASSUME NEW p \in Places(o)
        PROVE  Visible(o, p) <=> \E n \in 0..(m - 1) : RealRow(o, n) = p
    BY <1>2, <2>2, <2>3 DEF Visible
  <2> QED BY <2>2, <2>3, <2>4, <2>5 DEF Shows
<1> QED BY <1>1, <1>2

\* The loop over the rows shown gets to the end of them.
LEMMA LoopPasses ==
  ASSUME NEW o, RowsInv(o), IdsInv(o), HashInv(o), NumRecord(o) # 0
  PROVE  /\ Passed(o) = 0..(NumRecord(o) - 1) /\ ~FilterStuck(o)
         /\ Cardinality(Passed(o)) = NumRecord(o)
<1> DEFINE N == NumRecord(o)
<1>1. Shows(o)
  BY ShowsRows
<1>2. N \in Nat /\ N > 0 /\ \A n \in 0..(N - 1) : HasRow(o, n)
  BY <1>1, Pointers DEF Shows
<1>3. o.numrecord > 0
  <2>1. RealRow(o, 0) \in Places(o)
    BY <1>1, <1>2 DEF Shows
  <2> QED BY <2>1 DEF Places, RowsInv
<1>4. Moves(o, 0)
  BY <1>2, <1>3 DEF Moves, RowsInv
<1> HIDE DEF N
<1>5. Passed(o) = 0..(N - 1)
  BY <1>2, <1>4 DEF Passed, N
<1>6. Cardinality(0..(N - 1)) = N
  <2>1. 0 \in Int /\ N - 1 \in Int
    BY <1>2
  <2> QED BY <1>2, <2>1, FS_Interval
<1> QED BY <1>5, <1>6 DEF FilterStuck, N

\* The rows of the new hash, in their order.
LEMMA HashMatches ==
  ASSUME NEW o, RowsInv(o), IdsInv(o), HashInv(o), NumRecord(o) # 0, NEW q
  PROVE  LET hash == FilterHash(o, q)
             m == Cardinality(Matches(o, q))
         IN  /\ m \in 0..MaxRow
             /\ hash \in [0..(m - 1) -> Places(o)]
             /\ \A n, l \in 0..(m - 1) : n < l => hash[n] < hash[l]
             /\ \A n \in 0..(m - 1) :
                  \E l \in Passed(o) : hash[n] = RealRow(o, l)
             /\ \A p \in Places(o) :
                  (\E n \in 0..(m - 1) : hash[n] = p) <=>
                     Visible(o, p) /\ Compare(q, Values(o, p)[q.field])
<1> DEFINE N == NumRecord(o)
           S == Matches(o, q)
           m == Cardinality(S)
           hash == FilterHash(o, q)
           real == [n \in 0..(N - 1) |-> RealRow(o, n)]
<1>1. Shows(o) /\ Passed(o) = 0..(N - 1) /\ N \in 1..MaxRow
  BY ShowsRows, LoopPasses, Pointers DEF Shows
<1>2. S \in SUBSET (0..(N - 1))
  BY <1>1 DEF Matches
<1>3. N - 1 \in Nat /\ (N - 1) + 1 = N
  BY <1>1
<1> HIDE DEF S, N
<1>4. Numbers(S) /\ m \in 0..((N - 1) + 1)
  BY <1>2, <1>3, NthNumbers
<1>5. m \in 0..MaxRow
  BY <1>1, <1>3, <1>4, Pointers
<1>6. ASSUME NEW n \in 0..(m - 1)
      PROVE  /\ Nth(S, n) \in S /\ Nth(S, n) \in 0..(N - 1)
             /\ hash[n] = RealRow(o, Nth(S, n))
             /\ hash[n] \in Places(o)
  <2>1. Nth(S, n) \in S /\ Nth(S, n) \in 0..(N - 1)
    BY <1>2, <1>4 DEF Numbers
  <2>2. hash[n] = RealRow(o, Nth(S, n))
    BY DEF FilterHash, S
  <2> QED BY <1>1, <2>1, <2>2 DEF Shows, N
<1>7. hash = [n \in 0..(m - 1) |-> hash[n]] /\ DOMAIN hash = 0..(m - 1)
  BY DEF FilterHash, S
<1> HIDE DEF m, hash
<1>8. hash \in [0..(m - 1) -> Places(o)]
  BY <1>6, <1>7
<1>9. ASSUME NEW n \in 0..(m - 1), NEW l \in 0..(m - 1), n < l
      PROVE  hash[n] < hash[l]
  <2>1. Nth(S, n) < Nth(S, l)
    BY <1>4, <1>9 DEF Numbers, m
  <2> QED BY <1>1, <1>6, <2>1 DEF Shows, N
<1>10. ASSUME NEW p \in Places(o)
       PROVE  (\E n \in 0..(m - 1) : hash[n] = p) <=>
                 Visible(o, p) /\ Compare(q, Values(o, p)[q.field])
  <2>1. ASSUME NEW n \in 0..(m - 1), hash[n] = p
        PROVE  Visible(o, p) /\ Compare(q, Values(o, p)[q.field])
    <3> DEFINE l == Nth(S, n)
    <3>1. l \in S /\ l \in 0..(N - 1) /\ RealRow(o, l) = p
      BY <1>6, <2>1
    <3> HIDE DEF l
    <3>2. Visible(o, p)
      BY <1>1, <3>1 DEF Shows, N
    <3>3. Compare(q, Values(o, p)[q.field])
      BY <3>1 DEF S, Matches
    <3> QED BY <3>2, <3>3
  <2>2. ASSUME Visible(o, p), Compare(q, Values(o, p)[q.field])
        PROVE  \E n \in 0..(m - 1) : hash[n] = p
    <3>1. PICK l \in 0..(N - 1) : RealRow(o, l) = p
      BY <1>1, <2>2 DEF Shows, N
    <3>2. l \in S
      BY <1>1, <2>2, <3>1 DEF S, Matches, N
    <3>3. PICK n \in 0..(m - 1) : Nth(S, n) = l
      BY <1>4, <3>2 DEF Numbers, m
    <3> QED BY <1>6, <3>1, <3>3
  <2> QED BY <2>1, <2>2
<1>11. \A n \in 0..(m - 1) : \E l \in Passed(o) : hash[n] = RealRow(o, l)
  BY <1>1, <1>6
<1> QED BY <1>5, <1>8, <1>9, <1>10, <1>11 DEF m, hash, S

\* One more filter shows, of the rows shown, those that it lets pass.
LEMMA FilterByFilters ==
  ASSUME NEW o, RowsInv(o), IdsInv(o), HashInv(o), NEW q,
         Filtered(o) \/ o.numrecord > 0
  PROVE  LET v == FilterBy(o, q) IN
         /\ Keeps(o, v) /\ HashInv(v) /\ Filtered(v)
         /\ v = o \/ OnRecord(v)
         /\ \A p \in Places(o) :
              Visible(v, p) <=>
                Visible(o, p) /\ Compare(q, Values(o, p)[q.field])
<1>1. CASE NumRecord(o) = 0
  <2>1. FilterBy(o, q) = o
    BY <1>1 DEF FilterBy
  <2>2. Filtered(o)
    BY <1>1 DEF NumRecord, RowsInv
  <2>3. \A p \in Places(o) : ~Visible(o, p)
    BY <1>1, ShowsRows DEF Shows
  <2> QED BY <2>1, <2>2, <2>3, KeepsItself
<1>2. CASE NumRecord(o) # 0
  <2> DEFINE hash == FilterHash(o, q)
             m == Cardinality(Matches(o, q))
             S == {RealRow(o, n) : n \in Passed(o)}
             last == RealRow(o, Cardinality(Passed(o)) - 1)
             looped == Looped(o)
             bare == [looped EXCEPT !.filterhash = NULL, !.ignoreassert = FALSE]
             rehashed == [bare EXCEPT !.filterhash = hash]
             v == FilterBy(o, q)
  <2>1. /\ m \in 0..MaxRow
        /\ hash \in [0..(m - 1) -> Places(o)]
        /\ \A n, l \in 0..(m - 1) : n < l => hash[n] < hash[l]
        /\ \A n \in 0..(m - 1) : \E l \in Passed(o) : hash[n] = RealRow(o, l)
        /\ \A p \in Places(o) :
             (\E n \in 0..(m - 1) : hash[n] = p) <=>
                Visible(o, p) /\ Compare(q, Values(o, p)[q.field])
    BY <1>2, HashMatches
  <2>2. /\ S \in SUBSET Places(o) /\ last \in S
        /\ \A n \in 0..(m - 1) : hash[n] \in S
    <3>1. /\ Shows(o) /\ Passed(o) = 0..(NumRecord(o) - 1)
          /\ Cardinality(Passed(o)) = NumRecord(o) /\ NumRecord(o) \in 1..MaxRow
      BY <1>2, ShowsRows, LoopPasses, Pointers DEF Shows
    <3>2. \A n \in Passed(o) : RealRow(o, n) \in Places(o)
      BY <3>1 DEF Shows
    <3>3. Cardinality(Passed(o)) - 1 \in Passed(o)
      BY <3>1
    <3> QED BY <2>1, <3>2, <3>3
  <2>3. v = IF hash = <<>>
            THEN [MovetoRow(bare, o.currentrow) EXCEPT !.filterhash = hash]
            ELSE MovetoRow(rehashed, LandOn(hash, o.currentrow))
    BY <1>2, LoopPasses DEF FilterBy, Refiltered
  <2>4. looped = Visit(o, S, last)
    BY DEF Looped
  <2>5. hash # NULL
    <3>1. hash \in [0..(m - 1) -> Nat]
      BY <2>1 DEF Places
    <3> HIDE DEF hash, m
    <3> QED BY <2>1, <3>1, PointerAssumption
  <2> HIDE DEF hash, m, S, last, v, looped
  <2>6. Visited(o, looped, S, last)
    BY <2>2, <2>4, VisitVisits
  <2>7. Keeps(o, looped) /\ RowsInv(looped) /\ IdsInv(looped)
        /\ OnRecord(looped) /\ \A p \in S : IsRecord(looped, p)
    BY <2>6 DEF Visited, Keeps
  <2>8. /\ Keeps(looped, bare) /\ RowsInv(bare) /\ IdsInv(bare)
        /\ OnRecord(bare) /\ bare.filterhash = NULL /\ HashInv(bare)
        /\ DOMAIN bare = Fields
        /\ \A p \in S : IsRecord(bare, p)
    <3>1. /\ DOMAIN bare = Fields /\ bare.res = looped.res
          /\ bare.record = looped.record /\ bare.numrecord = looped.numrecord
          /\ bare.filterrequest = looped.filterrequest
          /\ bare.noprimarykey = looped.noprimarykey
          /\ bare.ignoreassert = FALSE /\ bare.filterhash = NULL
          /\ bare.currentrow = looped.currentrow
          /\ bare.currentrecord = looped.currentrecord
      BY <2>7 DEF RowsInv, Fields
    <3> HIDE DEF bare
    <3>2. /\ Keeps(looped, bare)
          /\ \A p : IsRecord(bare, p) <=> IsRecord(looped, p)
      BY <2>7, <3>1, SameArray DEF IdsInv
    <3>3. OnRecord(bare)
      BY <2>7, <3>1, <3>2 DEF OnRecord, Places
    <3> QED BY <2>7, <3>1, <3>2, <3>3 DEF Keeps, HashInv, Filtered
  <2>9. /\ Keeps(bare, rehashed) /\ RowsInv(rehashed) /\ IdsInv(rehashed)
        /\ OnRecord(rehashed) /\ rehashed.filterhash = hash
        /\ \A p \in S : IsRecord(rehashed, p)
    <3>1. /\ DOMAIN rehashed = Fields /\ rehashed.res = bare.res
          /\ rehashed.record = bare.record
          /\ rehashed.numrecord = bare.numrecord
          /\ rehashed.filterrequest = bare.filterrequest
          /\ rehashed.noprimarykey = bare.noprimarykey
          /\ rehashed.ignoreassert = bare.ignoreassert
          /\ rehashed.filterhash = hash
          /\ rehashed.currentrow = bare.currentrow
          /\ rehashed.currentrecord = bare.currentrecord
      <4> HIDE DEF bare
      <4> QED BY <2>8 DEF Fields
    <3> HIDE DEF bare, rehashed
    <3>2. /\ Keeps(bare, rehashed)
          /\ \A p : IsRecord(rehashed, p) <=> IsRecord(bare, p)
      BY <2>8, <3>1, SameArray DEF IdsInv
    <3>3. OnRecord(rehashed)
      BY <2>8, <3>1, <3>2 DEF OnRecord, Places
    <3> QED BY <2>8, <3>1, <3>2, <3>3 DEF Keeps
  <2> HIDE DEF bare, rehashed
  <2>10. HashInv(rehashed)
    <3>1. Places(rehashed) = Places(o)
      BY <2>7, <2>8, <2>9 DEF Keeps, Places
    <3>2. HashOf(rehashed, m)
      BY <2>1, <2>2, <2>9, <3>1 DEF HashOf
    <3> QED BY <2>1, <3>2 DEF HashInv
  <2>11. Keeps(o, rehashed) /\ Keeps(o, bare)
    BY <2>7, <2>8, <2>9, KeepsOn
  <2>12. Keeps(o, v) /\ HashInv(v) /\ v.filterhash = hash /\ OnRecord(v)
    <3>1. CASE hash # <<>>
      <4> DEFINE n == LandOn(hash, o.currentrow)
      <4> HIDE DEF n
      <4>1. v = MovetoRow(rehashed, n)
        BY <2>3, <3>1 DEF n
      <4>2. /\ Keeps(rehashed, v) /\ v.filterhash = hash
            /\ v = rehashed \/ OnRecord(v)
        BY <2>9, <2>10, <4>1, MovetoRowMoves DEF Visited
      <4> QED BY <2>9, <2>10, <2>11, <4>2, KeepsOn, KeepsShown
    <3>2. CASE hash = <<>>
      <4> DEFINE u == MovetoRow(bare, o.currentrow)
      <4>1. /\ Keeps(bare, u) /\ u.filterhash = NULL
            /\ u = bare \/ OnRecord(u)
        BY <2>8, MovetoRowMoves DEF Visited
      <4>2. v = [u EXCEPT !.filterhash = hash]
        BY <2>3, <3>2
      <4> HIDE DEF u
      <4>3. RowsInv(u) /\ IdsInv(u) /\ DOMAIN u = Fields /\ OnRecord(u)
        BY <2>8, <4>1 DEF Keeps, RowsInv
      <4>4. /\ DOMAIN v = Fields /\ v.res = u.res
            /\ v.record = u.record /\ v.numrecord = u.numrecord
            /\ v.filterrequest = u.filterrequest
            /\ v.noprimarykey = u.noprimarykey
            /\ v.ignoreassert = u.ignoreassert /\ v.filterhash = hash
            /\ v.currentrow = u.currentrow
            /\ v.currentrecord = u.currentrecord
        BY <4>2, <4>3 DEF Fields
      <4>5. /\ Keeps(u, v)
            /\ \A p : IsRecord(v, p) <=> IsRecord(u, p)
        BY <4>3, <4>4, SameArray DEF IdsInv
      <4>6. OnRecord(v)
        BY <4>3, <4>4, <4>5 DEF OnRecord, Places
      <4>7. Keeps(o, v)
        BY <2>11, <4>1, <4>5, KeepsOn
      <4>8. HashInv(v)
        <5>1. m = 0 /\ Places(v) = Places(o)
          <6>1. DOMAIN hash = {} /\ DOMAIN hash = 0..(m - 1)
            BY <2>1, <3>2
          <6>2. ~(0 \in 0..(m - 1))
            BY <6>1
          <6> QED BY <2>1, <4>7, <6>2, Pointers DEF Keeps, Places
        <5>2. HashOf(v, m)
          BY <2>1, <4>4, <5>1 DEF HashOf
        <5> QED BY <2>1, <5>2 DEF HashInv
      <4> QED BY <4>4, <4>6, <4>7, <4>8
    <3> QED BY <3>1, <3>2
  <2>13. Filtered(v)
    BY <2>5, <2>12 DEF Filtered
  <2>14. ASSUME NEW p \in Places(o)
         PROVE  Visible(v, p) <=>
                  Visible(o, p) /\ Compare(q, Values(o, p)[q.field])
    <3>1. Visible(v, p) <=> \E n \in 0..(m - 1) : hash[n] = p
      BY <2>1, <2>12, <2>13 DEF Visible
    <3> QED BY <2>1, <3>1
  <2> QED BY <2>12, <2>13, <2>14 DEF v
<1> QED BY <1>1, <1>2

\* The objects that the first m filters lead to from o.
Filters(g, o, requests, m) ==
  g[0] = o /\ \A i \in 1..m : g[i] = FilterBy(g[i - 1], requests[i])

LEMMA FiltersExist ==
  ASSUME NEW o, NEW requests, NEW N \in Nat
  PROVE  \E g : g = [i \in 0..N |-> g[i]] /\ Filters(g, o, requests, N)
<1> DEFINE T == {m \in Nat : \E g : /\ g = [i \in 0..m |-> g[i]]
                                   /\ Filters(g, o, requests, m)}
<1>1. 0 \in T
  <2> DEFINE g == [i \in 0..0 |-> o]
  <2>1. g = [i \in 0..0 |-> g[i]] /\ Filters(g, o, requests, 0)
    BY DEF Filters
  <2> HIDE DEF g
  <2> QED BY <2>1
<1>2. ASSUME NEW m \in Nat, m \in T PROVE m + 1 \in T
  <2>1. PICK g : g = [i \in 0..m |-> g[i]] /\ Filters(g, o, requests, m)
    BY <1>2
  <2> DEFINE h == [i \in 0..(m + 1) |->
                     IF i = m + 1 THEN FilterBy(g[m], requests[m + 1]) ELSE g[i]]
  <2>2. h = [i \in 0..(m + 1) |-> h[i]] /\ h[0] = o
    BY <2>1 DEF Filters
  <2>3. ASSUME NEW i \in 1..(m + 1)
        PROVE  h[i] = FilterBy(h[i - 1], requests[i])
    <3>1. i - 1 \in 0..m /\ h[i - 1] = g[i - 1]
      OBVIOUS
    <3>2. CASE i = m + 1
      BY <3>1, <3>2
    <3>3. CASE i \in 1..m
      <4>1. h[i] = g[i]
        BY <3>3
      <4> QED BY <2>1, <3>1, <3>3, <4>1 DEF Filters
    <3> QED BY <3>2, <3>3
  <2> HIDE DEF h
  <2>4. Filters(h, o, requests, m + 1)
    BY <2>2, <2>3 DEF Filters
  <2> QED BY <2>2, <2>4
<1> HIDE DEF T
<1>3. N \in T
  BY <1>1, <1>2, NatSetInduction
<1> QED BY <1>3 DEF T

LEMMA FilterByAllGives ==
  ASSUME NEW o, NEW requests, Len(requests) \in Nat
  PROVE  \E g : /\ Filters(g, o, requests, Len(requests))
                /\ FilterByAll(o, requests) = g[Len(requests)]
<1> DEFINE N == Len(requests)
           filtered[i \in 0..N] ==
             IF i = 0 THEN o ELSE FilterBy(filtered[i - 1], requests[i])
<1>1. PICK g : g = [i \in 0..N |-> g[i]] /\ Filters(g, o, requests, N)
  BY FiltersExist
<1>2. g = [i \in 0..N |-> IF i = 0 THEN o ELSE FilterBy(g[i - 1], requests[i])]
  BY <1>1 DEF Filters
<1>3. filtered = [i \in 0..N |->
                    IF i = 0 THEN o ELSE FilterBy(filtered[i - 1], requests[i])]
  BY <1>2 DEF filtered
<1>4. FilterByAll(o, requests) = filtered[N]
  BY DEF FilterByAll
<1> HIDE DEF filtered
<1>5. Filters(filtered, o, requests, N)
  BY <1>3 DEF Filters
<1> QED BY <1>4, <1>5

\* Rows that the first m filters let pass.
PassesFirst(o, requests, m, p) ==
  \A i \in 1..m : Compare(requests[i], Values(o, p)[requests[i].field])

\* What one filter after the other leads to, m of them.
FilteredBy(o, v, requests, m) ==
  /\ Keeps(o, v) /\ HashInv(v)
  /\ v = o \/ OnRecord(v)
  /\ m > 0 => Filtered(v)
  /\ \A p \in Places(o) : Visible(v, p) <=> PassesFirst(o, requests, m, p)

LEMMA FilterByAllFilters ==
  ASSUME NEW o, RowsInv(o), IdsInv(o), ~Filtered(o), o.numrecord > 0,
         NEW requests \in Seq(Condition)
  PROVE  FilteredBy(o, FilterByAll(o, requests), requests, Len(requests))
<1> DEFINE N == Len(requests)
<1>0. N \in Nat
  OBVIOUS
<1>1. PICK g : /\ Filters(g, o, requests, N)
               /\ FilterByAll(o, requests) = g[N]
  BY <1>0, FilterByAllGives
<1> DEFINE T == {m \in Nat : m <= N => FilteredBy(o, g[m], requests, m)}
<1>2. 0 \in T
  <2>1. g[0] = o /\ Keeps(o, o) /\ HashInv(o)
    BY <1>1, KeepsItself DEF Filters, HashInv
  <2> QED BY <2>1 DEF FilteredBy, Visible, PassesFirst
<1>3. ASSUME NEW m \in Nat, m \in T PROVE m + 1 \in T
  <2> SUFFICES ASSUME m + 1 <= N
               PROVE  FilteredBy(o, g[m + 1], requests, m + 1)
    OBVIOUS
  <2> DEFINE u == g[m]
             v == g[m + 1]
             q == requests[m + 1]
  <2>1. FilteredBy(o, u, requests, m)
    BY <1>0, <1>3
  <2>2. v = FilterBy(u, q)
    <3>1. m + 1 \in 1..N /\ (m + 1) - 1 = m
      BY <1>0
    <3> QED BY <1>1, <3>1 DEF Filters
  <2>3. u.numrecord > 0 /\ RowsInv(u) /\ IdsInv(u) /\ Places(u) = Places(o)
    BY <2>1 DEF FilteredBy, Keeps, Places
  <2> HIDE DEF u, v, q
  <2>4. /\ Keeps(u, v) /\ HashInv(v) /\ Filtered(v)
        /\ v = u \/ OnRecord(v)
        /\ \A p \in Places(u) :
             Visible(v, p) <=> Visible(u, p) /\ Compare(q, Values(u, p)[q.field])
    BY <2>1, <2>2, <2>3, FilterByFilters DEF FilteredBy
  <2>5. Keeps(o, v)
    BY <2>1, <2>4, KeepsOn DEF FilteredBy
  <2>6. ASSUME NEW p \in Places(o)
        PROVE  Visible(v, p) <=> PassesFirst(o, requests, m + 1, p)
    <3>1. Values(u, p) = Values(o, p)
      BY <2>1 DEF FilteredBy, Keeps
    <3>2. Visible(u, p) <=> PassesFirst(o, requests, m, p)
      BY <2>1 DEF FilteredBy
    <3>3. PassesFirst(o, requests, m + 1, p)
            <=> PassesFirst(o, requests, m, p)
                /\ Compare(q, Values(o, p)[q.field])
      <4>1. 1..(m + 1) = (1..m) \cup {m + 1}
        OBVIOUS
      <4> QED BY <4>1 DEF PassesFirst, q
    <3> QED BY <2>3, <2>4, <3>1, <3>2, <3>3
  <2>7. FilteredBy(o, v, requests, m + 1)
    BY <2>1, <2>4, <2>5, <2>6 DEF FilteredBy
  <2> QED BY <2>7 DEF v
<1> HIDE DEF T
<1>4. N \in T
  BY <1>0, <1>2, <1>3, NatSetInduction
<1> QED BY <1>0, <1>1, <1>4 DEF T

-----------------------------------------------------------------------------
(* Saving and deleting.                                                    *)

\* A save gives every new row its id.
LEMMA SavedKeeps ==
  ASSUME NEW o, RowsInv(o), IdsInv(o), CursorInv(o)
  PROVE  LET v == Saved(o) IN
         /\ Keeps(o, v) /\ v.filterhash = o.filterhash /\ New(v) = {}
         /\ v.currentrow = o.currentrow /\ v.currentrecord = o.currentrecord
         /\ \A p : IsRecord(v, p) <=> IsRecord(o, p)
<1> DEFINE v == Saved(o)
           id == ~o.noprimarykey /\ o.currentrecord # NULL
           saved(p) == [o.record[p] EXCEPT !.new = FALSE, !.id = id]
           record == [p \in DOMAIN o.record |->
                        IF p \in New(o) THEN saved(p) ELSE o.record[p]]
<1>1. /\ DOMAIN v = Fields /\ v.record = record
      /\ v.noprimarykey = (o.noprimarykey \/ (New(o) # {} /\ ~id))
      /\ v.res = o.res /\ v.numrecord = o.numrecord
      /\ v.ignoreassert = o.ignoreassert
      /\ v.filterhash = o.filterhash /\ v.filterrequest = o.filterrequest
      /\ v.currentrow = o.currentrow /\ v.currentrecord = o.currentrecord
  <2> HIDE DEF saved
  <2> QED BY DEF Saved, RowsInv, Fields, saved
<1>2. ~v.noprimarykey /\ ~v.ignoreassert /\ (New(o) # {} => id)
  BY <1>1 DEF IdsInv, CursorInv
<1> HIDE DEF v
<1>3. ASSUME NEW p \in New(o)
      PROVE  /\ p \in Places(o) /\ IsRecord(o, p)
             /\ v.record[p] \in Records /\ v.record[p].row = p
             /\ v.record[p].val = o.record[p].val
             /\ v.record[p].new = FALSE /\ v.record[p].id = TRUE
  <2>1. p \in Places(o) /\ IsRecord(o, p) /\ id
    BY <1>2 DEF New, Places
  <2>2. Cell(o, p)
    BY <2>1, Cells
  <2>3. v.record[p] = [o.record[p] EXCEPT !.new = FALSE, !.id = TRUE]
    BY <1>1, <2>1, <2>2 DEF Cell
  <2> HIDE DEF id, record
  <2> QED BY <2>1, <2>2, <2>3 DEF Cell, Records
<1>4. ASSUME NEW p, p \notin New(o), p \in DOMAIN o.record
      PROVE  v.record[p] = o.record[p]
  BY <1>1, <1>4
<1>5. DOMAIN v.record = DOMAIN o.record
  BY <1>1
<1> HIDE DEF id, record
<1>6. ASSUME NEW p PROVE IsRecord(v, p) <=> IsRecord(o, p)
  <2>1. CASE p \in New(o)
    BY <1>3, <1>5, <2>1, Pointers DEF IsRecord
  <2>2. CASE p \notin New(o)
    BY <1>4, <1>5, <2>2 DEF IsRecord
  <2> QED BY <2>1, <2>2
<1>7. Places(v) = Places(o)
  BY <1>1 DEF Places
<1>8. ASSUME NEW p PROVE Values(v, p) = Values(o, p)
  <2>1. CASE p \in New(o)
    BY <1>3, <1>6, <2>1 DEF Values
  <2>2. CASE p \notin New(o)
    BY <1>1, <1>4, <1>6, <2>2 DEF Values, InResult, IsRecord
  <2> QED BY <2>1, <2>2
<1>9. RowsIn(v)
  <2> SUFFICES ASSUME NEW p \in Places(o)
               PROVE  \/ v.record[p] \in Records /\ v.record[p].row = p
                      \/ v.record[p] = NULL /\ v.res # NULL /\ p \in DOMAIN v.res
    BY <1>7 DEF RowsIn
  <2>1. Cell(o, p)
    BY Cells
  <2> QED BY <1>1, <1>3, <1>4, <2>1 DEF Cell
<1>10. Room(v)
  <2>1. \A p \in DOMAIN o.record : o.record[p] # Junk => v.record[p] # Junk
    BY <1>3, <1>4, Pointers
  <2>2. o.record = <<>> => v.record = <<>>
    BY <1>1 DEF record
  <2> QED BY <1>1, <1>5, <2>1, <2>2 DEF Room, RowsInv
<1>11. RowsInv(v)
  BY <1>1, <1>9, <1>10 DEF RowsInv
<1>12. IdsInv(v)
  <2> SUFFICES ASSUME NEW p \in Places(o), IsRecord(o, p)
               PROVE  /\ v.record[p].new => ~v.record[p].id
                      /\ p # 0 => v.record[p].id \/ v.record[p].new
    BY <1>2, <1>6, <1>7 DEF IdsInv
  <2>1. CASE p \in New(o)
    BY <1>3, <2>1
  <2>2. CASE p \notin New(o)
    BY <1>4, <2>2 DEF IdsInv, IsRecord
  <2> QED BY <2>1, <2>2
<1>13. New(v) = {}
  <2> SUFFICES ASSUME NEW p \in Places(o), IsRecord(o, p), v.record[p].new
               PROVE  FALSE
    BY <1>6, <1>7 DEF New, Places
  <2>1. p \in New(o)
    BY <1>4 DEF New, Places, IsRecord
  <2> QED BY <1>3, <2>1
<1>14. Keeps(o, v)
  BY <1>1, <1>6, <1>8, <1>11, <1>12, <1>13 DEF Keeps
<1>15. /\ Keeps(o, v) /\ v.filterhash = o.filterhash /\ New(v) = {}
       /\ v.currentrow = o.currentrow /\ v.currentrecord = o.currentrecord
       /\ \A p : IsRecord(v, p) <=> IsRecord(o, p)
  BY <1>1, <1>6, <1>13, <1>14
<1> QED BY <1>15 DEF v

\* v is o without the last row, which it was on.
Trimmed(o, v) ==
  /\ RowsInv(v) /\ IdsInv(v) /\ HashInv(v)
  /\ v.numrecord = o.numrecord - 1 /\ v.res = o.res
  /\ v.currentrecord = NULL /\ v.currentrow \in Nat
  /\ v.numrecord > 0 => v.currentrow < v.numrecord
  /\ ShowsAlike(o, v)
  /\ New(v) = New(o) \ {o.numrecord - 1}

LEMMA LastRowGoes ==
  ASSUME NEW o, RowsInv(o), IdsInv(o), HashInv(o), NEW row \in Places(o),
         row = o.numrecord - 1, o.currentrow = row
  PROVE  Trimmed(o, RecordDelete(o, row))
<1> DEFINE v == RecordDelete(o, row)
           Up(p) == IF p \notin Nat THEN p
                    ELSE IF p = row THEN Freed ELSE IF p > row THEN p - 1 ELSE p
           hash == FilterDelete(o, row)
           up == IF hash = NULL THEN NULL
                 ELSE [m \in DOMAIN hash |-> Up(hash[m])]
           record == [p \in DOMAIN o.record |->
                       IF p \in row..(o.numrecord - 2) THEN o.record[p + 1]
                       ELSE IF p = o.numrecord - 1 THEN NULL ELSE o.record[p]]
           landing == IF row < o.numrecord - 1 THEN row
                      ELSE IF row = 0 THEN 0 ELSE row - 1
<1>0. o.numrecord \in Nat /\ row \in Nat /\ row + 1 = o.numrecord
      /\ row \in 0..MaxRow
  BY Pointers DEF RowsInv, Places
<1>1. /\ DOMAIN v = Fields /\ v.res = o.res /\ v.numrecord = o.numrecord - 1
      /\ v.record = record /\ v.filterhash = up
      /\ v.noprimarykey = o.noprimarykey /\ v.ignoreassert = o.ignoreassert
      /\ v.filterrequest = o.filterrequest
      /\ v.currentrecord = NULL /\ v.currentrow = landing
  <2> HIDE DEF hash, Up, record, landing, up
  <2> QED BY DEF RecordDelete, RowsInv, Fields, hash, Up, record, landing, up
<1>2. v.currentrow \in Nat /\ (v.numrecord > 0 => v.currentrow < v.numrecord)
  <2>1. landing = IF row = 0 THEN 0 ELSE row - 1
    BY <1>0
  <2> HIDE DEF v, landing
  <2>2. v.currentrow = IF row = 0 THEN 0 ELSE row - 1
    BY <1>1, <2>1
  <2>3. v.numrecord = row
    BY <1>0, <1>1
  <2> QED BY <1>0, <2>2, <2>3
<1>3. Places(v) = 0..(row - 1) /\ Places(o) = Places(v) \cup {row}
      /\ row \notin Places(v)
  BY <1>0, <1>1 DEF Places
<1>4. /\ DOMAIN v.record = DOMAIN o.record
      /\ v.record[row] = NULL
      /\ \A p \in DOMAIN o.record : p # row => v.record[p] = o.record[p]
  <2>1. row \in DOMAIN o.record
    BY Cells DEF Cell
  <2>2. \A p : ~(p \in row..(o.numrecord - 2))
    BY <1>0
  <2>3. record = [p \in DOMAIN o.record |->
                    IF p = row THEN NULL ELSE o.record[p]]
    BY <1>0, <2>2
  <2> HIDE DEF record
  <2> QED BY <1>1, <2>1, <2>3
<1> HIDE DEF v, record
<1>5. ASSUME NEW p, p # row PROVE IsRecord(v, p) <=> IsRecord(o, p)
  BY <1>4, <1>5 DEF IsRecord
<1>6. ASSUME NEW p, p # row PROVE Values(v, p) = Values(o, p)
  <2>1. IsRecord(o, p) => v.record[p] = o.record[p]
    BY <1>4, <1>6 DEF IsRecord
  <2> QED BY <1>1, <1>5, <1>6, <2>1 DEF Values, InResult
<1>7. Room(v)
  <2>1. PICK size \in Nat :
          /\ o.numrecord < size /\ size % Chunk = 0
          /\ \A p \in 0..(size - 1) :
               p \in DOMAIN o.record /\ o.record[p] # Junk
    BY <1>0 DEF RowsInv, Room
  <2>2. \A p \in 0..(size - 1) : p \in DOMAIN v.record /\ v.record[p] # Junk
    BY <1>4, <2>1, Pointers
  <2> QED BY <1>0, <1>1, <2>1, <2>2 DEF Room
<1>8. RowsIn(v)
  <2> SUFFICES ASSUME NEW p \in Places(v)
               PROVE  \/ v.record[p] \in Records /\ v.record[p].row = p
                      \/ v.record[p] = NULL /\ v.res # NULL /\ p \in DOMAIN v.res
    BY DEF RowsIn
  <2>1. p # row /\ p \in Places(o)
    BY <1>3
  <2>2. Cell(o, p)
    BY <2>1, Cells
  <2>3. v.record[p] = o.record[p]
    BY <1>4, <2>1, <2>2 DEF Cell
  <2> QED BY <1>1, <2>2, <2>3 DEF Cell
<1>9. RowsInv(v)
  <2>1. v.numrecord \in 0..MaxRow
    BY <1>0, <1>1, Pointers DEF RowsInv
  <2> QED BY <1>1, <1>7, <1>8, <2>1 DEF RowsInv
<1>10. IdsInv(v)
  <2> SUFFICES ASSUME NEW p \in Places(v), IsRecord(v, p)
               PROVE  /\ v.record[p].new => ~v.record[p].id
                      /\ p # 0 => v.record[p].id \/ v.record[p].new
    BY <1>1 DEF IdsInv
  <2>1. p # row /\ p \in Places(o) /\ IsRecord(o, p)
    BY <1>3, <1>5
  <2>2. v.record[p] = o.record[p]
    BY <1>4, <2>1 DEF IsRecord
  <2> QED BY <2>1, <2>2 DEF IdsInv
<1>11. New(v) = New(o) \ {row}
  <2>1. \A p \in Places(v) : IsRecord(o, p) => v.record[p] = o.record[p]
    BY <1>3, <1>4 DEF IsRecord
  <2> QED BY <1>3, <1>5, <2>1 DEF New, Places
<1>12. HashInv(v) /\ (Filtered(v) <=> Filtered(o))
       /\ \A p \in Places(v) : Visible(v, p) <=> Visible(o, p)
  <2>1. CASE ~Filtered(o)
    <3>1. hash = NULL
      BY <2>1 DEF FilterDelete
    <3>2. v.filterhash = NULL
      BY <1>1, <3>1
    <3> QED BY <2>1, <3>2 DEF HashInv, Filtered, Visible
  <2>2. CASE Filtered(o)
    <3> DEFINE old == o.filterhash
    <3>1. PICK m \in 0..MaxRow : HashOf(o, m)
      BY <2>2 DEF HashInv
    <3>2. DOMAIN old = 0..(m - 1) /\ m \in Nat
          /\ \A n \in 0..(m - 1) : old[n] \in Places(o) /\ old[n] \in Nat
                                   /\ RealRow(o, n) = old[n]
      <4>1. DOMAIN old = 0..(m - 1)
        BY <3>1 DEF HashOf
      <4>2. \A n \in 0..(m - 1) : old[n] \in Places(o) /\ HasRow(o, n)
        BY <3>1, <4>1 DEF HashOf, HasRow
      <4>3. \A n \in 0..(m - 1) : RealRow(o, n) = old[n]
        BY <2>2, <4>2, RealRows
      <4> QED BY <4>1, <4>2, <4>3, Pointers DEF Places
    <3>3. PICK k \in 0..MaxRow :
            /\ k <= m /\ m <= k + 1
            /\ \A n \in 0..(m - 1) : n < k <=> old[n] # row
      <4>1. CASE \E n \in 0..(m - 1) : old[n] = row
        <5>1. PICK last \in 0..(m - 1) : old[last] = row
          BY <4>1
        <5>2. ~(last < m - 1)
          <6> SUFFICES ASSUME last < m - 1 PROVE FALSE
            OBVIOUS
          <6>1. m - 1 \in 0..(m - 1)
            BY <3>2
          <6>2. old[last] < old[m - 1]
            BY <3>1, <6>1 DEF HashOf
          <6>3. old[m - 1] \in Nat /\ old[m - 1] <= row
            BY <1>0, <3>2, <6>1 DEF Places
          <6> QED BY <1>0, <5>1, <6>2, <6>3
        <5>3. last = m - 1
          BY <3>2, <5>2
        <5>4. \A n \in 0..(m - 1) : n < m - 1 => old[n] < row
          BY <3>1, <5>1, <5>3 DEF HashOf
        <5>5. \A n \in 0..(m - 1) : n < m - 1 <=> old[n] # row
          BY <1>0, <3>2, <5>1, <5>3, <5>4
        <5>6. m - 1 \in 0..MaxRow /\ m - 1 <= m /\ m <= (m - 1) + 1
          BY <3>2, <5>3, Pointers
        <5> QED BY <5>5, <5>6
      <4>2. CASE ~\E n \in 0..(m - 1) : old[n] = row
        BY <3>2, <4>2
      <4> QED BY <4>1, <4>2
    <3> DEFINE found == {n \in DOMAIN old : RealRow(o, n) = row}
               kept == [n \in 0..(k - 1) |-> old[n]]
    <3>4. found = k..(m - 1)
      BY <3>2, <3>3
    <3>5. hash = kept
      <4>1. CASE k = m
        <5>1. found = {}
          BY <3>2, <3>4, <4>1
        <5>2. old = [n \in 0..(m - 1) |-> old[n]]
          BY <3>1 DEF HashOf
        <5> QED BY <2>2, <4>1, <5>1, <5>2 DEF FilterDelete
      <4>2. CASE k = m - 1
        <5>1. found = {k}
          BY <3>2, <3>4, <4>2
        <5>2. DOMAIN old \ {k} = 0..(k - 1)
          BY <3>2, <4>2
        <5>3. (CHOOSE n \in found : TRUE) = k /\ found # {}
          BY <5>1
        <5> HIDE DEF found
        <5>4. hash = [n \in DOMAIN old \ {k} |-> old[n]]
          BY <2>2, <5>3 DEF FilterDelete, found
        <5> QED BY <5>2, <5>4
      <4> QED BY <3>2, <3>3, <4>1, <4>2
    <3>6. \A n \in 0..(k - 1) : /\ n \in 0..(m - 1) /\ old[n] \in Places(v)
                               /\ Up(old[n]) = old[n]
      <4> SUFFICES ASSUME NEW n \in 0..(k - 1)
                   PROVE  /\ n \in 0..(m - 1) /\ old[n] \in Places(v)
                          /\ Up(old[n]) = old[n]
        OBVIOUS
      <4>1. n \in 0..(m - 1) /\ n < k
        BY <3>2, <3>3
      <4>2. old[n] # row /\ old[n] \in Nat /\ old[n] \in Places(v)
        BY <1>3, <3>2, <3>3, <4>1
      <4>3. old[n] < row
        BY <1>0, <1>3, <4>2
      <4> QED BY <1>0, <4>1, <4>2, <4>3
    <3>7. kept # NULL
      <4>1. kept \in [0..(k - 1) -> Nat]
        BY <3>2, <3>6
      <4> HIDE DEF kept
      <4> QED BY <4>1, PointerAssumption
    <3>8. v.filterhash = kept
      <4> HIDE DEF Up
      <4>1. up = [n \in DOMAIN kept |-> Up(kept[n])]
        BY <3>5, <3>7
      <4>2. DOMAIN kept = 0..(k - 1) /\ \A n \in 0..(k - 1) : Up(kept[n]) = kept[n]
        BY <3>6
      <4>3. up = kept
        BY <4>1, <4>2, <3>6
      <4> QED BY <1>1, <4>3
    <3>9. HashOf(v, k)
      <4>1. v.filterhash \in [0..(k - 1) -> Places(v)]
        BY <3>6, <3>8
      <4>2. \A n \in 0..(k - 1) : v.filterhash[n] = old[n] /\ n \in 0..(m - 1)
        BY <3>6, <3>8
      <4>3. \A n \in 0..(k - 1) : IsRecord(v, v.filterhash[n])
        BY <1>3, <1>5, <3>1, <3>6, <4>2 DEF HashOf
      <4>4. \A n, l \in 0..(k - 1) :
              n < l => v.filterhash[n] < v.filterhash[l]
        BY <3>1, <4>2 DEF HashOf
      <4> QED BY <4>1, <4>3, <4>4 DEF HashOf
    <3>10. Filtered(v)
      BY <3>7, <3>8 DEF Filtered
    <3>11. ASSUME NEW p \in Places(v)
           PROVE  Visible(v, p) <=> Visible(o, p)
      <4>1. p # row
        BY <1>3
      <4>2. \A n \in 0..(m - 1) : old[n] = p => n \in 0..(k - 1)
        BY <3>2, <3>3, <4>1
      <4>3. DOMAIN v.filterhash = 0..(k - 1)
            /\ \A n \in 0..(k - 1) : v.filterhash[n] = old[n]
        BY <3>8
      <4> QED BY <2>2, <3>2, <3>6, <3>10, <4>2, <4>3 DEF Visible
    <3> QED BY <2>2, <3>9, <3>10, <3>11 DEF HashInv
  <2> QED BY <2>1, <2>2
<1>13. ShowsAlike(o, v)
  BY <1>1, <1>3, <1>6, <1>12 DEF ShowsAlike
<1>14. Trimmed(o, v)
  BY <1>0, <1>1, <1>2, <1>9, <1>10, <1>11, <1>12, <1>13 DEF Trimmed
<1> QED BY <1>14 DEF v

\* The query has run again, and returned the rows the object has.
LEMMA RefreshKeeps ==
  ASSUME NEW o, RowsInv(o), IdsInv(o), NEW rows,
         rows = [p \in Places(o) |-> Values(o, p)]
  PROVE  LET v == [o EXCEPT !.res = rows] IN
         /\ RowsInv(v) /\ IdsInv(v) /\ New(v) = New(o)
         /\ Places(v) = Places(o) /\ v.filterrequest = o.filterrequest
         /\ v.filterhash = o.filterhash /\ v.currentrow = o.currentrow
         /\ v.currentrecord = o.currentrecord
         /\ HashInv(o) => HashInv(v)
         /\ ShowsAlike(o, v)
<1> DEFINE v == [o EXCEPT !.res = rows]
<1>1. /\ DOMAIN v = Fields /\ v.res = rows /\ v.record = o.record
      /\ v.numrecord = o.numrecord /\ v.noprimarykey = o.noprimarykey
      /\ v.ignoreassert = o.ignoreassert /\ v.filterhash = o.filterhash
      /\ v.filterrequest = o.filterrequest /\ v.currentrow = o.currentrow
      /\ v.currentrecord = o.currentrecord
  BY DEF RowsInv, Fields
<1> HIDE DEF v
<1>2. Places(v) = Places(o) /\ \A p : IsRecord(v, p) <=> IsRecord(o, p)
  BY <1>1 DEF Places, IsRecord
<1>3. /\ o.numrecord \in 0..MaxRow /\ rows \in [0..(o.numrecord - 1) -> RowValues]
      /\ rows # NULL
  <2>1. o.numrecord \in 0..MaxRow
    BY DEF RowsInv
  <2>2. rows \in [0..(o.numrecord - 1) -> RowValues]
    BY Cells DEF Places, Cell
  <2> QED BY <2>1, <2>2, PointerAssumption
<1>4. RowsIn(v)
  <2> SUFFICES ASSUME NEW p \in Places(o)
               PROVE  \/ v.record[p] \in Records /\ v.record[p].row = p
                      \/ v.record[p] = NULL /\ v.res # NULL /\ p \in DOMAIN v.res
    BY <1>2 DEF RowsIn
  <2>1. Cell(o, p)
    BY Cells
  <2> QED BY <1>1, <1>3, <2>1 DEF Cell
<1>5. RowsInv(v)
  BY <1>1, <1>3, <1>4 DEF RowsInv, Room
<1>6. IdsInv(v)
  BY <1>1, <1>2 DEF IdsInv
<1>7. New(v) = New(o)
  BY <1>1, <1>2 DEF New
<1>8. \A p \in Places(o) : Values(v, p) = Values(o, p)
  BY <1>1, <1>2, <1>3 DEF Values, InResult
<1>9. (Filtered(v) <=> Filtered(o)) /\ \A p : Visible(v, p) <=> Visible(o, p)
  BY <1>1 DEF Filtered, Visible
<1>10. ShowsAlike(o, v)
  BY <1>1, <1>2, <1>8, <1>9 DEF ShowsAlike
<1>11. HashInv(o) => HashInv(v)
  BY <1>1, <1>2 DEF HashInv, HashOf, Filtered
<1>12. /\ RowsInv(v) /\ IdsInv(v) /\ New(v) = New(o)
       /\ Places(v) = Places(o) /\ v.filterrequest = o.filterrequest
       /\ v.filterhash = o.filterhash /\ v.currentrow = o.currentrow
       /\ v.currentrecord = o.currentrecord
       /\ HashInv(o) => HashInv(v)
       /\ ShowsAlike(o, v)
  BY <1>1, <1>2, <1>5, <1>6, <1>7, <1>10, <1>11
<1> QED BY <1>12 DEF v

-----------------------------------------------------------------------------
(* The calls.                                                              *)

Rules == Rule \subseteq Discipline

LEMMA RulesObserved ==
  ASSUME Rules
  PROVE  /\ Careful("lastRow") /\ Careful("clearFirst") /\ Careful("loadFirst")
         /\ Careful("filterRows") /\ Careful("knownKey") /\ Careful("ownId")
         /\ Careful("saveFirst") /\ Careful("unfiltered")
BY DEF Rules, Rule, Careful

LEMMA Reached ==
  ASSUME FilterInv, NEW o, NEW crash, Becomes(o, crash), ~crash,
         ObjectInv(o), NEW left, ShownInv(o, left), late' = left
  PROVE  FilterInv'
<1>1. obj' = o /\ fault' = "none"
  BY DEF Becomes, FilterInv
<1> QED BY <1>1 DEF FilterInv

\* The parts of the invariant.
LEMMA Parts ==
  ASSUME FilterInv
  PROVE  /\ RowsInv(obj) /\ IdsInv(obj) /\ HashInv(obj) /\ CursorInv(obj)
         /\ ShownInv(obj, late) /\ DOMAIN obj = Fields
         /\ obj.numrecord \in 0..MaxRow /\ obj.numrecord \in Nat
         /\ Identified(obj) = {}
<1>1. RowsInv(obj) /\ IdsInv(obj) /\ HashInv(obj) /\ CursorInv(obj)
      /\ ShownInv(obj, late)
  BY DEF FilterInv, ObjectInv
<1>2. Identified(obj) = {}
  BY <1>1 DEF Identified, New, IdsInv, Places
<1> QED BY <1>1, <1>2, Pointers DEF RowsInv

LEMMA InitInv == FilterInit => FilterInv
<1> SUFFICES ASSUME FilterInit PROVE FilterInv
  OBVIOUS
<1>1. /\ DOMAIN obj = Fields /\ obj.res = NULL /\ obj.record = <<>>
      /\ obj.numrecord = 0 /\ obj.currentrow = 0 /\ obj.currentrecord = NULL
      /\ ~obj.noprimarykey /\ obj.filterhash = NULL
      /\ obj.filterrequest = <<>> /\ ~obj.ignoreassert
      /\ late = {} /\ fault = "none"
  BY DEF FilterInit, NewObject, Fields
<1>2. Places(obj) = {} /\ New(obj) = {} /\ ~Filtered(obj)
  BY <1>1 DEF Places, New, Filtered
<1>3. RowsInv(obj) /\ IdsInv(obj) /\ HashInv(obj) /\ CursorInv(obj)
  BY <1>1, <1>2, Pointers
     DEF RowsInv, Room, RowsIn, IdsInv, HashInv, CursorInv
<1>4. ShownInv(obj, late)
  BY <1>1, <1>2 DEF ShownInv
<1> QED BY <1>1, <1>3, <1>4 DEF FilterInv, ObjectInv

\* A result of a query: rows from 0, fewer than MaxRow.
LEMMA ResultRows ==
  ASSUME NEW table \in ResultSets
  PROVE  \E n \in 0..MaxRow :
           /\ table \in [0..(n - 1) -> RowValues] /\ table # NULL
           /\ DOMAIN table = 0..(n - 1) /\ Cardinality(DOMAIN table) = n
<1>1. PICK n \in 0..MaxRow : table \in [0..(n - 1) -> RowValues]
  BY FilterAssumption
<1>2. table # NULL
  BY <1>1, PointerAssumption
<1>3. 0 \in Int /\ n - 1 \in Int /\ n \in Nat
  BY Pointers
<1>4. Cardinality(0..(n - 1)) = n
  BY <1>3, FS_Interval
<1> QED BY <1>1, <1>2, <1>4

\* The rows of the result have places in the array that is made for them.
LEMMA LoadKeeps ==
  ASSUME FilterInv, Rules, NEW table \in ResultSets, Load(table)
  PROVE  FilterInv'
<1> DEFINE bare == IF Loaded THEN FreeAll(obj) ELSE obj
           o == [bare EXCEPT !.res = table, !.currentrow = 0,
                             !.numrecord = Cardinality(DOMAIN table)]
           array == Grown(o, FALSE)
           first == Record(0, table[0], FALSE, FALSE)
           v == IF o.numrecord = 0
                THEN [o EXCEPT !.record = array, !.currentrecord = NULL]
                ELSE [o EXCEPT !.currentrecord = 0,
                        !.record = IF array[0] # NULL THEN array ELSE
                          [array EXCEPT ![0] = first]]
<1>1. PICK n \in 0..MaxRow :
        /\ table \in [0..(n - 1) -> RowValues] /\ table # NULL
        /\ DOMAIN table = 0..(n - 1) /\ Cardinality(DOMAIN table) = n
  BY ResultRows
<1>2. n \in Nat
  BY Pointers
<1>3. /\ Becomes(v, FALSE) /\ late' = {} /\ obj.filterrequest = <<>>
      /\ Loaded \/ obj.record = <<>>
  BY RulesObserved DEF Load
<1>4. /\ DOMAIN bare = Fields /\ bare.record = <<>> /\ bare.filterhash = NULL
      /\ bare.noprimarykey = obj.noprimarykey
      /\ bare.ignoreassert = obj.ignoreassert /\ bare.filterrequest = <<>>
  <2>1. DOMAIN obj = Fields /\ obj.filterhash = NULL
    BY <1>3, Parts DEF ShownInv, Filtered
  <2> QED BY <1>3, <2>1 DEF FreeAll, Fields, Filtered
<1> HIDE DEF bare
<1>5. /\ DOMAIN o = Fields /\ o.record = <<>> /\ o.filterhash = NULL
      /\ o.noprimarykey = obj.noprimarykey
      /\ o.ignoreassert = obj.ignoreassert /\ o.filterrequest = <<>>
      /\ o.numrecord = n /\ o.res = table /\ o.currentrow = 0
  BY <1>1, <1>4 DEF Fields
<1>6. array = [p \in 0..((n + Chunk + Slack) - 1) |-> NULL]
  <2> HIDE DEF o
  <2> QED BY <1>5 DEF Grown
<1>7. 0 \in 0..((n + Chunk + Slack) - 1)
  BY <1>2, Pointers
<1> DEFINE record == IF n = 0 THEN array ELSE [array EXCEPT ![0] = first]
<1>8. /\ DOMAIN v = Fields /\ v.record = record /\ v.filterhash = NULL
      /\ v.noprimarykey = obj.noprimarykey
      /\ v.ignoreassert = obj.ignoreassert /\ v.filterrequest = <<>>
      /\ v.numrecord = n /\ v.res = table /\ v.currentrow = 0
      /\ v.currentrecord = IF n = 0 THEN NULL ELSE 0
  <2>1. ~(array[0] # NULL)
    BY <1>6, <1>7
  <2> HIDE DEF array, o, first
  <2> QED BY <1>5, <2>1 DEF Fields
<1> HIDE DEF v, o, array
<1>9. /\ DOMAIN record = 0..((n + Chunk + Slack) - 1)
      /\ n > 0 => record[0] = first
      /\ \A p \in DOMAIN record : n = 0 \/ p # 0 => record[p] = NULL
  <2> HIDE DEF first
  <2> QED BY <1>6, <1>7
<1> HIDE DEF record
<1>10. n > 0 => /\ first \in Records /\ first.row = 0 /\ first.new = FALSE
                /\ first.val = table[0]
  <2> SUFFICES ASSUME n > 0
               PROVE  /\ first \in Records /\ first.row = 0 /\ first.new = FALSE
                      /\ first.val = table[0]
    OBVIOUS
  <2>1. table[0] \in RowValues
    BY <1>1, <1>2
  <2> QED BY <2>1 DEF Record, Records
<1> HIDE DEF first
<1>11. Room(v)
  <2>1. PICK size \in Nat : n < size /\ size <= n + Chunk /\ size % Chunk = 0
    BY <1>2, MultipleAbove
  <2>2. ASSUME NEW p \in 0..(size - 1)
        PROVE  p \in DOMAIN v.record /\ v.record[p] # Junk
    <3>1. p \in DOMAIN record
      BY <1>2, <1>9, <2>1, Pointers
    <3> QED BY <1>2, <1>8, <1>9, <1>10, <3>1, Pointers
  <2> QED BY <1>8, <2>1, <2>2 DEF Room
<1>12. RowsIn(v)
  <2> SUFFICES ASSUME NEW p \in 0..(n - 1)
               PROVE  \/ v.record[p] \in Records /\ v.record[p].row = p
                      \/ v.record[p] = NULL /\ v.res # NULL /\ p \in DOMAIN v.res
    BY <1>8 DEF RowsIn, Places
  <2>1. p \in DOMAIN record /\ n > 0
    BY <1>2, <1>9, Pointers
  <2> QED BY <1>1, <1>8, <1>9, <1>10, <2>1
<1>13. RowsInv(v)
  BY <1>1, <1>8, <1>11, <1>12 DEF RowsInv
<1>14. ASSUME NEW p \in Places(v), IsRecord(v, p)
       PROVE  p = 0 /\ v.record[p].new = FALSE
  <2>1. n > 0
    BY <1>2, <1>8 DEF Places
  <2> QED BY <1>8, <1>9, <1>10, <1>14, <2>1 DEF IsRecord
<1>15. IdsInv(v)
  BY <1>8, <1>14, Parts DEF IdsInv
<1>16. New(v) = {}
  BY <1>14 DEF New, Places
<1>17. CursorInv(v)
  <2>1. CASE n = 0
    BY <1>8, <1>16, <2>1 DEF CursorInv
  <2>2. CASE n # 0
    <3>1. IsRecord(v, 0)
      BY <1>2, <1>7, <1>8, <1>9, <1>10, <2>2, Pointers DEF IsRecord
    <3> QED BY <1>2, <1>8, <1>16, <2>2, <3>1 DEF CursorInv
  <2> QED BY <2>1, <2>2
<1>18. HashInv(v) /\ ShownInv(v, {})
  BY <1>8 DEF HashInv, ShownInv, Filtered, Visible, PassesAll
<1> QED BY <1>3, <1>13, <1>15, <1>17, <1>18, Reached DEF ObjectInv

LEMMA BlankKeeps ==
  ASSUME FilterInv, Blank
  PROVE  FilterInv'
<1> DEFINE v == [FilterCleared(FreeAll(obj)) EXCEPT
                   !.res = NULL, !.currentrow = 0, !.ignoreassert = FALSE,
                   !.currentid = NULL, !.noprimarykey = FALSE]
<1>1. Becomes(v, FALSE) /\ late' = {}
  BY DEF Blank
<1>2. /\ DOMAIN v = Fields /\ v.res = NULL /\ v.record = <<>>
      /\ v.numrecord = 0 /\ v.currentrow = 0 /\ v.currentrecord = NULL
      /\ v.noprimarykey = FALSE /\ v.filterhash = NULL
      /\ v.filterrequest = <<>> /\ v.ignoreassert = FALSE
  <2> DEFINE u == FreeAll(obj)
  <2>1. /\ DOMAIN u = Fields /\ u.record = <<>> /\ u.numrecord = 0
        /\ u.currentrecord = NULL
    BY Parts DEF FreeAll, Fields
  <2> HIDE DEF u
  <2> DEFINE w == FilterCleared(u)
  <2>2. /\ DOMAIN w = Fields /\ w.record = <<>> /\ w.numrecord = 0
        /\ w.currentrecord = NULL /\ w.filterhash = NULL
        /\ w.filterrequest = <<>>
    BY <2>1 DEF FilterCleared, Fields
  <2> HIDE DEF w
  <2>3. v = [w EXCEPT
               !.res = NULL, !.currentrow = 0, !.ignoreassert = FALSE,
               !.currentid = NULL, !.noprimarykey = FALSE]
    BY DEF u, w
  <2> HIDE DEF v
  <2> QED BY <2>2, <2>3 DEF Fields
<1> HIDE DEF v
<1>3. Places(v) = {} /\ New(v) = {} /\ ~Filtered(v)
  BY <1>2 DEF Places, New, Filtered
<1>4. RowsInv(v) /\ IdsInv(v) /\ HashInv(v) /\ CursorInv(v)
  BY <1>2, <1>3, Pointers
     DEF RowsInv, Room, RowsIn, IdsInv, HashInv, CursorInv
<1>5. ShownInv(v, {})
  BY <1>2, <1>3 DEF ShownInv
<1> QED BY <1>1, <1>4, <1>5, Reached DEF ObjectInv

\* A move keeps every part of the invariant but the cursor's, and that too
\* when the object was on a record or has no new rows.
LEMMA MovetoRowKeeps ==
  ASSUME NEW o, RowsInv(o), IdsInv(o), HashInv(o), CursorInv(o), NEW n
  PROVE  LET v == MovetoRow(o, n) IN
         /\ ~Strays(o, n) /\ ObjectInv(v)
         /\ \A apart : ShownInv(o, apart) => ShownInv(v, apart)
<1> DEFINE v == MovetoRow(o, n)
<1>1. /\ ~Strays(o, n) /\ Keeps(o, v) /\ v.filterhash = o.filterhash
      /\ v = o \/ OnRecord(v)
  BY MovetoRowMoves DEF Visited
<1> HIDE DEF v
<1>2. RowsInv(v) /\ IdsInv(v) /\ HashInv(v)
      /\ \A apart : ShownInv(o, apart) => ShownInv(v, apart)
  BY <1>1, KeepsShown DEF Keeps
<1>3. CursorInv(v)
  BY <1>1, <1>2, OnRecordCursor DEF RowsInv
<1>4. /\ ~Strays(o, n) /\ ObjectInv(v)
      /\ \A apart : ShownInv(o, apart) => ShownInv(v, apart)
  BY <1>1, <1>2, <1>3 DEF ObjectInv
<1> QED BY <1>4 DEF v

LEMMA MovetoKeeps ==
  ASSUME FilterInv, NEW n, Becomes(MovetoRow(obj, n), Strays(obj, n)),
         UNCHANGED late
  PROVE  FilterInv'
<1>1. /\ ~Strays(obj, n) /\ ObjectInv(MovetoRow(obj, n))
      /\ ShownInv(MovetoRow(obj, n), late)
  BY Parts, MovetoRowKeeps
<1> QED BY <1>1, Reached

\* Changing what is asked for leaves the array and the cursor as they are.
LEMMA AskedKeeps ==
  ASSUME NEW o, RowsInv(o), IdsInv(o), CursorInv(o), NEW v, DOMAIN v = Fields,
         v.res = o.res, v.record = o.record, v.numrecord = o.numrecord,
         v.noprimarykey = o.noprimarykey, v.ignoreassert = o.ignoreassert,
         v.currentrow = o.currentrow, v.currentrecord = o.currentrecord
  PROVE  /\ RowsInv(v) /\ IdsInv(v) /\ CursorInv(v) /\ Places(v) = Places(o)
         /\ \A p : Values(v, p) = Values(o, p)
         /\ v.filterhash = o.filterhash /\ HashInv(o) => HashInv(v)
<1>1. /\ RowsInv(v) /\ IdsInv(v) /\ New(v) = New(o) /\ Places(v) = Places(o)
      /\ \A p : IsRecord(v, p) <=> IsRecord(o, p)
      /\ \A p : Values(v, p) = Values(o, p)
  BY SameArray DEF IdsInv
<1>2. CursorInv(v)
  BY <1>1 DEF CursorInv
<1>3. v.filterhash = o.filterhash /\ HashInv(o) => HashInv(v)
  BY <1>1 DEF HashInv, HashOf, Filtered
<1> QED BY <1>1, <1>2, <1>3

LEMMA FilterByValueKeeps ==
  ASSUME FilterInv, Rules, NEW q \in Condition, FilterByValue(q)
  PROVE  FilterInv'
<1> DEFINE requests == Append(obj.filterrequest, q)
           o == [obj EXCEPT !.filterrequest = requests]
           v == FilterBy(o, q)
           left == IF Filtered(obj) THEN late ELSE {}
<1>1. /\ Becomes(v, FilterStrays(obj)) /\ late' = left
      /\ NumRecord(obj) > 0
  BY RulesObserved DEF FilterByValue
<1>2. /\ requests \in Seq(Condition) /\ requests # <<>>
      /\ DOMAIN requests = DOMAIN obj.filterrequest \cup {Len(requests)}
      /\ requests[Len(requests)] = q
      /\ Len(requests) \notin DOMAIN obj.filterrequest
      /\ \A i \in DOMAIN obj.filterrequest : requests[i] = obj.filterrequest[i]
  <2>1. obj.filterrequest \in Seq(Condition)
    BY Parts DEF ShownInv
  <2> QED BY <2>1
<1> HIDE DEF requests
<1>3. /\ DOMAIN o = Fields /\ o.res = obj.res /\ o.record = obj.record
      /\ o.numrecord = obj.numrecord /\ o.noprimarykey = obj.noprimarykey
      /\ o.ignoreassert = obj.ignoreassert /\ o.currentrow = obj.currentrow
      /\ o.currentrecord = obj.currentrecord /\ o.filterhash = obj.filterhash
      /\ o.filterrequest = requests
  BY Parts DEF Fields
<1> HIDE DEF o
<1>4. /\ RowsInv(o) /\ IdsInv(o) /\ CursorInv(o) /\ Places(o) = Places(obj)
      /\ \A p : Values(o, p) = Values(obj, p)
      /\ HashInv(o)
  BY <1>3, Parts, AskedKeeps
<1>5. ~FilterStrays(obj)
  BY Parts, ShowsRows DEF Shows, FilterStrays
<1>6. Filtered(o) \/ o.numrecord > 0
  BY <1>1, <1>3 DEF NumRecord, Filtered
<1>7. /\ Keeps(o, v) /\ HashInv(v) /\ Filtered(v)
      /\ v = o \/ OnRecord(v)
      /\ \A p \in Places(o) :
           Visible(v, p) <=> Visible(o, p) /\ Compare(q, Values(o, p)[q.field])
  BY <1>4, <1>6, FilterByFilters
<1> HIDE DEF v
<1>8. RowsInv(v) /\ IdsInv(v) /\ CursorInv(v) /\ Places(v) = Places(o)
      /\ v.filterrequest = requests
  BY <1>3, <1>4, <1>7, OnRecordCursor DEF Keeps, RowsInv, Places
<1>9. ASSUME NEW p \in Places(v) \ left
      PROVE  Visible(v, p) <=> PassesAll(v, p)
  <2>1. Visible(o, p) <=> PassesAll(obj, p)
    <3>1. CASE Filtered(obj)
      <4>1. Visible(obj, p) <=> PassesAll(obj, p)
        BY <1>4, <1>8, <3>1, Parts DEF ShownInv
      <4> QED BY <1>3, <4>1 DEF Visible, Filtered
    <3>2. CASE ~Filtered(obj)
      <4>1. obj.filterrequest = <<>>
        BY <3>2, Parts DEF ShownInv
      <4> QED BY <1>3, <3>2, <4>1 DEF Visible, Filtered, PassesAll
    <3> QED BY <3>1, <3>2
  <2>2. Values(v, p) = Values(obj, p) /\ Values(o, p) = Values(obj, p)
    BY <1>4, <1>7, <1>8 DEF Keeps
  <2>3. PassesAll(v, p) <=> PassesAll(obj, p)
                            /\ Compare(q, Values(obj, p)[q.field])
    BY <1>2, <1>8, <2>2 DEF PassesAll
  <2> QED BY <1>7, <1>8, <2>1, <2>2, <2>3
<1>10. ShownInv(v, left)
  BY <1>2, <1>7, <1>8, <1>9 DEF ShownInv
<1> QED BY <1>1, <1>5, <1>7, <1>8, <1>10, Reached DEF ObjectInv

LEMMA ClearedKeeps ==
  ASSUME FilterInv, Becomes(FilterCleared(obj), FALSE), late' = {}
  PROVE  FilterInv'
<1> DEFINE v == FilterCleared(obj)
<1>1. /\ DOMAIN v = Fields /\ v.res = obj.res /\ v.record = obj.record
      /\ v.numrecord = obj.numrecord /\ v.noprimarykey = obj.noprimarykey
      /\ v.ignoreassert = obj.ignoreassert /\ v.currentrow = obj.currentrow
      /\ v.currentrecord = obj.currentrecord /\ v.filterhash = NULL
      /\ v.filterrequest = <<>>
  BY Parts DEF FilterCleared, Fields
<1> HIDE DEF v
<1>2. RowsInv(v) /\ IdsInv(v) /\ CursorInv(v)
  BY <1>1, Parts, AskedKeeps
<1>3. HashInv(v) /\ ShownInv(v, {})
  BY <1>1 DEF HashInv, ShownInv, Filtered, Visible, PassesAll
<1>4. Becomes(v, FALSE)
  BY DEF v
<1> QED BY <1>2, <1>3, <1>4, Reached DEF ObjectInv

LEMMA RemovedIs ==
  ASSUME NEW s \in Seq(Condition), NEW i \in DOMAIN s, Len(s) # 1
  PROVE  RemoveAt(s, i) \in Seq(Condition) /\ RemoveAt(s, i) # <<>>
<1>1. i \in 1..Len(s) /\ Len(s) \in Nat
  OBVIOUS
<1> DEFINE a == SubSeq(s, 1, i - 1)
           b == SubSeq(s, i + 1, Len(s))
<1>2. a \in Seq(Condition) /\ Len(a) = i - 1
  BY <1>1
<1>3. b \in Seq(Condition) /\ Len(b) = Len(s) - i
  <2>1. CASE i = Len(s)
    BY <1>1, <2>1
  <2>2. CASE i < Len(s)
    BY <1>1, <2>2
  <2> QED BY <1>1, <2>1, <2>2
<1>4. RemoveAt(s, i) = a \o b
  BY DEF RemoveAt
<1> HIDE DEF a, b
<1>5. a \o b \in Seq(Condition) /\ Len(a \o b) = Len(s) - 1
  BY <1>1, <1>2, <1>3
<1>6. Len(a \o b) # 0
  BY <1>1, <1>5
<1>7. a \o b # <<>>
  BY <1>6
<1> QED BY <1>4, <1>5, <1>7

LEMMA FirstExists ==
  ASSUME NEW S, S # {}, S \subseteq Nat
  PROVE  (CHOOSE i \in S : \A j \in S : i <= j) \in S
<1> DEFINE T == {m \in Nat : \A i \in S : i <= m =>
                               \E k \in S : \A j \in S : k <= j}
<1>1. 0 \in T
  <2> SUFFICES ASSUME NEW i \in S, i <= 0
               PROVE  \E k \in S : \A j \in S : k <= j
    OBVIOUS
  <2>1. i = 0 /\ \A j \in S : i <= j
    OBVIOUS
  <2> QED BY <2>1
<1>2. ASSUME NEW m \in Nat, m \in T PROVE m + 1 \in T
  <2> SUFFICES ASSUME NEW i \in S, i <= m + 1
               PROVE  \E k \in S : \A j \in S : k <= j
    OBVIOUS
  <2>1. CASE \E l \in S : l <= m
    BY <1>2, <2>1
  <2>2. CASE \A l \in S : ~(l <= m)
    <3>1. \A l \in S : i <= l
      BY <2>2
    <3> QED BY <3>1
  <2> QED BY <2>1, <2>2
<1> HIDE DEF T
<1>3. Nat \subseteq T
  BY <1>1, <1>2, NatSetInduction
<1>4. PICK i \in S : TRUE
  OBVIOUS
<1>5. i \in T /\ i <= i
  BY <1>3
<1>6. \E k \in S : \A j \in S : k <= j
  BY <1>5 DEF T
<1> QED BY <1>6

LEMMA FilterRemoveKeeps ==
  ASSUME FilterInv, Rules, NEW f, FilterRemove(f)
  PROVE  FilterInv'
<1> DEFINE asked == {i \in DOMAIN obj.filterrequest :
                       obj.filterrequest[i].field = f}
           chosen == CHOOSE i \in asked : \A j \in asked : i <= j
           rest == RemoveAt(obj.filterrequest, chosen)
           o == [obj EXCEPT !.filterrequest = rest, !.filterhash = NULL]
           v == FilterByAll(o, rest)
<1>1. CASE Len(obj.filterrequest) = 1
  <2>1. Becomes(FilterCleared(obj), FALSE) /\ late' = {}
    BY <1>1 DEF FilterRemove
  <2> QED BY <2>1, ClearedKeeps
<1>2. CASE Len(obj.filterrequest) # 1
  <2>1. /\ asked # {} /\ obj.numrecord > 0
        /\ Becomes(v, FALSE) /\ late' = {}
    BY <1>2, RulesObserved DEF FilterRemove
  <2>2. obj.filterrequest \in Seq(Condition)
    BY Parts DEF ShownInv
  <2>3. asked \subseteq Nat
    BY <2>2
  <2>4. chosen \in DOMAIN obj.filterrequest
    <3>1. asked \subseteq DOMAIN obj.filterrequest
      OBVIOUS
    <3> HIDE DEF asked
    <3>2. chosen \in asked
      BY <2>1, <2>3, FirstExists
    <3> QED BY <3>1, <3>2
  <2> HIDE DEF chosen, asked
  <2>5. rest \in Seq(Condition) /\ rest # <<>>
    BY <1>2, <2>2, <2>4, RemovedIs
  <2> HIDE DEF rest
  <2>6. /\ DOMAIN o = Fields /\ o.res = obj.res /\ o.record = obj.record
        /\ o.numrecord = obj.numrecord /\ o.noprimarykey = obj.noprimarykey
        /\ o.ignoreassert = obj.ignoreassert /\ o.currentrow = obj.currentrow
        /\ o.currentrecord = obj.currentrecord /\ o.filterhash = NULL
        /\ o.filterrequest = rest
    BY Parts DEF Fields
  <2> HIDE DEF o
  <2>7. RowsInv(o) /\ IdsInv(o) /\ CursorInv(o) /\ ~Filtered(o)
        /\ o.numrecord > 0
    BY <2>1, <2>6, Parts, AskedKeeps DEF Filtered
  <2>8. FilteredBy(o, v, rest, Len(rest))
    BY <2>5, <2>7, FilterByAllFilters
  <2> HIDE DEF v
  <2>9. Len(rest) > 0 /\ DOMAIN rest = 1..Len(rest)
    BY <2>5
  <2>10. /\ RowsInv(v) /\ IdsInv(v) /\ HashInv(v) /\ CursorInv(v)
         /\ Filtered(v) /\ v.filterrequest = rest /\ Places(v) = Places(o)
    BY <2>6, <2>7, <2>8, <2>9, OnRecordCursor
       DEF FilteredBy, Keeps, RowsInv, Places
  <2>11. ASSUME NEW p \in Places(v) PROVE Visible(v, p) <=> PassesAll(v, p)
    <3>1. Values(v, p) = Values(o, p)
          /\ (Visible(v, p) <=> PassesFirst(o, rest, Len(rest), p))
      BY <2>8, <2>10 DEF FilteredBy, Keeps
    <3> QED BY <2>9, <2>10, <3>1 DEF PassesAll, PassesFirst
  <2>12. ShownInv(v, {})
    BY <2>5, <2>10, <2>11 DEF ShownInv
  <2> QED BY <2>1, <2>10, <2>12, Reached DEF ObjectInv
<1> QED BY <1>1, <1>2

\* A key that is in no row.
LEMMA NewKeyIsNumber ==
  ASSUME RowsInv(obj)
  PROVE  NewKey \in Int
<1> DEFINE N == obj.numrecord
           g == [p \in 0..(N - 1) |-> Values(obj, p)[KeyField]]
<1>1. N \in Nat
  BY Pointers DEF RowsInv
<1>2. ASSUME NEW p \in 0..(N - 1) PROVE g[p] \in Int
  <2>1. Values(obj, p) \in RowValues
    BY Cells DEF Cell, Places
  <2> QED BY <2>1 DEF RowValues
<1>3. {g[p] : p \in 0..(N - 1)} =
        {Values(obj, p)[KeyField] : p \in 0..(N - 1)}
  OBVIOUS
<1>4. NewKey = 1 + Max({0} \cup {g[p] : p \in 0..(N - 1)})
  BY <1>3 DEF NewKey
<1> HIDE DEF g, N
<1>5. Max({0} \cup {g[p] : p \in 0..(N - 1)}) \in Int
  BY <1>1, <1>2, LargestExists
<1> QED BY <1>4, <1>5

\* There is a clean place for one row more, and what was there stays.
LEMMA GrownHasRoom ==
  ASSUME NEW o, RowsInv(o), NEW u, u.record = o.record,
         u.numrecord = o.numrecord + 1
  PROVE  LET array == Grown(u, TRUE) IN
         /\ \E size \in Nat :
              /\ o.numrecord + 1 < size /\ size % Chunk = 0
              /\ \A p \in 0..(size - 1) : p \in DOMAIN array /\ array[p] # Junk
         /\ \A p \in Places(o) : array[p] = o.record[p]
<1> DEFINE array == Grown(u, TRUE)
           n == o.numrecord + 1
           total == n + Chunk + Slack
           blank == n..(n + Chunk - 1)
           grown == [p \in 0..(total - 1) |-> IF p \in blank THEN NULL
                                              ELSE IF p \in DOMAIN o.record
                                              THEN o.record[p] ELSE Junk]
<1>1. o.numrecord \in Nat /\ n \in Nat /\ n > 0 /\ total \in Nat
  BY Pointers DEF RowsInv
<1>2. array = IF o.record = <<>> THEN [p \in 0..(total - 1) |-> NULL]
              ELSE IF n % Chunk = 0 THEN grown ELSE o.record
  BY <1>1 DEF Grown
<1> HIDE DEF array
<1>3. CASE o.record = <<>>
  <2>1. Places(o) = {}
    BY <1>3, Cells
  <2>2. PICK size \in Nat : n < size /\ size <= n + Chunk /\ size % Chunk = 0
    BY <1>1, MultipleAbove
  <2>3. array = [p \in 0..(total - 1) |-> NULL]
    BY <1>2, <1>3
  <2>4. \A p \in 0..(size - 1) : p \in 0..(total - 1)
    BY <1>1, <2>2, Pointers
  <2>5. \A p \in 0..(size - 1) : p \in DOMAIN array /\ array[p] # Junk
    BY <2>3, <2>4, Pointers
  <2> QED BY <2>1, <2>2, <2>5 DEF array
<1>4. CASE o.record # <<>>
  <2>1. PICK size \in Nat :
          /\ o.numrecord < size /\ size % Chunk = 0
          /\ \A p \in 0..(size - 1) :
               p \in DOMAIN o.record /\ o.record[p] # Junk
    BY <1>4 DEF RowsInv, Room
  <2>2. CASE n % Chunk = 0
    <3>1. array = grown
      BY <1>2, <1>4, <2>2
    <3>2. (n + Chunk) % Chunk = 0 /\ n + Chunk \in Nat /\ n < n + Chunk
      <4> HIDE DEF n
      <4>1. (n + Chunk) % Chunk = 0
        BY <1>1, <2>2, NextMultiple
      <4> QED BY <1>1, <4>1, Pointers
    <3>3. ASSUME NEW p \in 0..((n + Chunk) - 1)
          PROVE  /\ p \in DOMAIN array /\ array[p] # Junk
                 /\ p \notin blank => array[p] = o.record[p]
      <4>1. p \in 0..(total - 1)
        BY <1>1, Pointers
      <4>2. CASE p \in blank
        BY <3>1, <4>1, <4>2, Pointers
      <4>3. CASE p \notin blank
        <5>1. p \in 0..(size - 1)
          BY <1>1, <2>1, <4>3, Pointers
        <5>2. p \in DOMAIN o.record /\ o.record[p] # Junk
          BY <2>1, <5>1
        <5>3. array[p] = o.record[p]
          BY <3>1, <4>1, <4>3, <5>2
        <5> QED BY <3>1, <4>1, <5>2, <5>3
      <4> QED BY <4>2, <4>3
    <3>4. \A p \in Places(o) : p \in 0..((n + Chunk) - 1) /\ p \notin blank
      BY <1>1, Pointers DEF Places
    <3> QED BY <3>2, <3>3, <3>4 DEF array
  <2>3. CASE n % Chunk # 0
    <3>1. array = o.record
      BY <1>2, <1>4, <2>3
    <3>2. n < size
      BY <1>1, <2>1, <2>3
    <3> QED BY <2>1, <3>1, <3>2 DEF array
  <2> QED BY <2>2, <2>3
<1> QED BY <1>3, <1>4

LEMMA AddKeeps ==
  ASSUME FilterInv, Add
  PROVE  FilterInv'
<1> DEFINE row == obj.numrecord
           o == [obj EXCEPT !.numrecord = row + 1]
           array == Grown(o, TRUE)
           new == [NoValues EXCEPT ![KeyField] = NewKey]
           r == Record(row, new, TRUE, FALSE)
           record == [p \in DOMAIN array |-> IF p # row THEN array[p] ELSE r]
           v == [o EXCEPT !.currentrow = row, !.currentrecord = row,
                          !.currentid = NULL, !.record = record]
           stray == row \notin DOMAIN array \/ array[row] = Junk
<1>1. row < MaxRow /\ Becomes(v, stray) /\ late' = late \cup {row}
  BY DEF Add
<1>2. /\ DOMAIN o = Fields /\ o.res = obj.res /\ o.record = obj.record
      /\ o.numrecord = row + 1 /\ o.noprimarykey = obj.noprimarykey
      /\ o.ignoreassert = obj.ignoreassert /\ o.filterhash = obj.filterhash
      /\ o.filterrequest = obj.filterrequest
  BY Parts DEF Fields
<1> HIDE DEF o
<1>3. /\ \E size \in Nat :
           /\ row + 1 < size /\ size % Chunk = 0
           /\ \A p \in 0..(size - 1) : p \in DOMAIN array /\ array[p] # Junk
      /\ \A p \in Places(obj) : array[p] = obj.record[p]
  BY <1>2, Parts, GrownHasRoom
<1>4. PICK size \in Nat :
        /\ row + 1 < size /\ size % Chunk = 0
        /\ \A p \in 0..(size - 1) : p \in DOMAIN array /\ array[p] # Junk
  BY <1>3
<1>5. row \in Nat /\ row \in 0..(size - 1) /\ row \in 0..MaxRow
      /\ row + 1 \in 0..MaxRow
  BY <1>1, <1>4, Parts, Pointers
<1>6. r \in Records /\ r.row = row /\ r.new = TRUE /\ r.id = FALSE
  <2>1. NewKey \in Int
    BY Parts, NewKeyIsNumber
  <2>2. new \in RowValues
    BY <2>1, FilterAssumption DEF NoValues, RowValues, Value
  <2> HIDE DEF new
  <2> QED BY <1>5, <2>2 DEF Record, Records
<1> HIDE DEF r, array
<1>7. /\ DOMAIN v = Fields /\ v.res = obj.res /\ v.record = record
      /\ v.numrecord = row + 1 /\ v.noprimarykey = obj.noprimarykey
      /\ v.ignoreassert = obj.ignoreassert /\ v.filterhash = obj.filterhash
      /\ v.filterrequest = obj.filterrequest /\ v.currentrow = row
      /\ v.currentrecord = row
  <2> HIDE DEF record
  <2> QED BY <1>2 DEF Fields
<1> HIDE DEF v
<1>8. Places(v) = Places(obj) \cup {row} /\ row \notin Places(obj)
  BY <1>5, <1>7 DEF Places
<1>9. v.record[row] = r /\ IsRecord(v, row)
  BY <1>4, <1>5, <1>6, <1>7, Pointers DEF IsRecord
<1>10. ASSUME NEW p \in Places(obj)
       PROVE  /\ v.record[p] = obj.record[p] /\ p # row
              /\ IsRecord(v, p) <=> IsRecord(obj, p)
              /\ Values(v, p) = Values(obj, p)
  <2>1. Cell(obj, p) /\ p # row
    BY <1>8, Parts, Cells
  <2>2. p \in DOMAIN array /\ array[p] = obj.record[p]
    <3>1. p \in 0..(size - 1)
      BY <1>4, <1>5 DEF Places
    <3> QED BY <1>3, <1>4, <3>1
  <2>3. p \in DOMAIN v.record /\ v.record[p] = obj.record[p]
    BY <1>7, <2>1, <2>2
  <2>4. IsRecord(v, p) <=> IsRecord(obj, p)
    BY <2>1, <2>3 DEF IsRecord, Cell
  <2>5. Values(v, p) = Values(obj, p)
    BY <1>7, <2>3, <2>4 DEF Values, InResult
  <2> QED BY <2>1, <2>3, <2>4, <2>5
<1>11. Room(v)
  <2>1. \A p \in 0..(size - 1) : p \in DOMAIN v.record /\ v.record[p] # Junk
    BY <1>4, <1>6, <1>7, Pointers
  <2> QED BY <1>4, <1>7, <2>1 DEF Room
<1>12. RowsIn(v)
  <2> SUFFICES ASSUME NEW p \in Places(v)
               PROVE  \/ v.record[p] \in Records /\ v.record[p].row = p
                      \/ v.record[p] = NULL /\ v.res # NULL /\ p \in DOMAIN v.res
    BY DEF RowsIn
  <2>1. CASE p = row
    BY <1>6, <1>9, <2>1
  <2>2. CASE p \in Places(obj)
    <3>1. Cell(obj, p)
      BY <2>2, Parts, Cells
    <3> QED BY <1>7, <1>10, <2>2, <3>1 DEF Cell
  <2> QED BY <1>8, <2>1, <2>2
<1>13. RowsInv(v)
  BY <1>5, <1>7, <1>11, <1>12, Parts DEF RowsInv
<1>14. IdsInv(v)
  <2>1. ~v.noprimarykey /\ ~v.ignoreassert
    BY <1>7, Parts DEF IdsInv
  <2>2. ASSUME NEW p \in Places(v), IsRecord(v, p)
        PROVE  /\ v.record[p].new => ~v.record[p].id
               /\ p # 0 => v.record[p].id \/ v.record[p].new
    <3>1. CASE p = row
      BY <1>6, <1>9, <3>1
    <3>2. CASE p \in Places(obj)
      BY <1>10, <2>2, <3>2, Parts DEF IdsInv
    <3> QED BY <1>8, <3>1, <3>2
  <2> QED BY <2>1, <2>2 DEF IdsInv
<1>15. CursorInv(v)
  BY <1>7, <1>8, <1>9, <1>13, OnRecordCursor DEF OnRecord, RowsInv
<1>16. HashInv(v)
  <2> SUFFICES ASSUME Filtered(v) PROVE \E m \in 0..MaxRow : HashOf(v, m)
    BY DEF HashInv
  <2>1. PICK m \in 0..MaxRow : HashOf(obj, m)
    BY <1>7, Parts DEF HashInv, Filtered
  <2>2. \A n \in 0..(m - 1) :
          obj.filterhash[n] \in Places(obj) /\ IsRecord(v, obj.filterhash[n])
    BY <1>10, <2>1 DEF HashOf
  <2> QED BY <1>7, <1>8, <2>1, <2>2 DEF HashOf
<1>17. ShownInv(v, late \cup {row})
  <2>1. \A p \in Places(v) \ (late \cup {row}) : p \in Places(obj) \ late
    BY <1>8
  <2>2. \A p \in Places(obj) : /\ Visible(v, p) <=> Visible(obj, p)
                               /\ PassesAll(v, p) <=> PassesAll(obj, p)
    BY <1>7, <1>10 DEF Visible, Filtered, PassesAll
  <2>3. Filtered(v) <=> Filtered(obj)
    BY <1>7 DEF Filtered
  <2> QED BY <1>7, <2>1, <2>2, <2>3, Parts DEF ShownInv
<1>18. ~stray
  BY <1>4, <1>5
<1> QED BY <1>1, <1>13, <1>14, <1>15, <1>16, <1>17, <1>18, Reached DEF ObjectInv

LEMMA SetValueKeeps ==
  ASSUME FilterInv, NEW q \in Condition, SetValue(q.field, q.value)
  PROVE  FilterInv'
<1> DEFINE row == obj.currentrow
           old == obj.record[row]
           id == old.id \/ (Loaded /\ ~old.new /\ ~obj.noprimarykey)
           r == [old EXCEPT !.val[q.field] = q.value, !.id = id]
           v == [obj EXCEPT !.record[row] = r,
                            !.currentid = IF id THEN "own" ELSE NULL]
<1>1. /\ q.field # KeyField /\ q.field \in Field
      /\ q.value # NULL /\ q.value \in Value
      /\ row < obj.numrecord /\ obj.currentrecord # NULL
      /\ Becomes(v, ~IsRecord(obj, row)) /\ late' = late \cup {row}
  BY FilterAssumption DEF SetValue
<1>2. IsRecord(obj, row) /\ row \in Places(obj) /\ obj.currentrecord = row
  BY <1>1, Parts DEF CursorInv, Places
<1>3. Cell(obj, row)
  BY <1>2, Parts, Cells
<1>4. old \in Records /\ old.row = row
  BY <1>2, <1>3 DEF Cell
<1>5. old.id \in BOOLEAN /\ old.new \in BOOLEAN /\ old.val \in RowValues
  BY <1>4 DEF Records
<1>6. id \in BOOLEAN /\ (old.id => id) /\ (id => old.id \/ ~old.new)
  <2> HIDE DEF old
  <2> QED BY <1>5
<1> HIDE DEF id
<1>7. [old.val EXCEPT ![q.field] = q.value] \in RowValues
  BY <1>1, <1>5, FilterAssumption DEF RowValues
<1>8. r \in Records /\ r.row = row /\ r.new = old.new /\ r.id = id
  <2>1. r = [old EXCEPT !.val = [old.val EXCEPT ![q.field] = q.value], !.id = id]
    BY <1>4 DEF Records
  <2> HIDE DEF old, r
  <2> QED BY <1>4, <1>6, <1>7, <2>1 DEF Records
<1> HIDE DEF r, old
<1>9. /\ DOMAIN v = Fields /\ v.res = obj.res
      /\ v.record = [obj.record EXCEPT ![row] = r]
      /\ v.numrecord = obj.numrecord /\ v.noprimarykey = obj.noprimarykey
      /\ v.ignoreassert = obj.ignoreassert /\ v.filterhash = obj.filterhash
      /\ v.filterrequest = obj.filterrequest /\ v.currentrow = row
      /\ v.currentrecord = row
  BY <1>2, Parts DEF Fields
<1> HIDE DEF v
<1>10. /\ DOMAIN v.record = DOMAIN obj.record /\ v.record[row] = r
       /\ IsRecord(v, row)
       /\ \A p \in DOMAIN obj.record : p # row => v.record[p] = obj.record[p]
  <2>1. row \in DOMAIN obj.record
    BY <1>3 DEF Cell
  <2> QED BY <1>8, <1>9, <2>1, Pointers DEF IsRecord
<1>11. Places(v) = Places(obj)
  BY <1>9 DEF Places
<1>12. ASSUME NEW p, p # row
       PROVE  /\ IsRecord(v, p) <=> IsRecord(obj, p)
              /\ IsRecord(obj, p) => v.record[p] = obj.record[p]
              /\ Values(v, p) = Values(obj, p)
  <2>1. /\ IsRecord(v, p) <=> IsRecord(obj, p)
        /\ IsRecord(obj, p) => v.record[p] = obj.record[p]
    BY <1>10, <1>12 DEF IsRecord
  <2> QED BY <1>9, <2>1 DEF Values, InResult
<1>13. Room(v)
  <2>1. obj.numrecord > 0
    BY <1>2, Parts DEF Places
  <2>2. PICK size \in Nat :
          /\ obj.numrecord < size /\ size % Chunk = 0
          /\ \A p \in 0..(size - 1) :
               p \in DOMAIN obj.record /\ obj.record[p] # Junk
    BY <2>1, Parts DEF RowsInv, Room
  <2>3. \A p \in 0..(size - 1) : p \in DOMAIN v.record /\ v.record[p] # Junk
    BY <1>8, <1>10, <2>2, Pointers
  <2> QED BY <1>9, <2>2, <2>3 DEF Room
<1>14. RowsIn(v)
  <2> SUFFICES ASSUME NEW p \in Places(obj)
               PROVE  \/ v.record[p] \in Records /\ v.record[p].row = p
                      \/ v.record[p] = NULL /\ v.res # NULL /\ p \in DOMAIN v.res
    BY <1>11 DEF RowsIn
  <2>1. Cell(obj, p)
    BY Parts, Cells
  <2> QED BY <1>8, <1>9, <1>10, <2>1 DEF Cell
<1>15. RowsInv(v)
  BY <1>9, <1>13, <1>14, Parts DEF RowsInv
<1>16. IdsInv(v)
  <2>1. ~v.noprimarykey /\ ~v.ignoreassert
    BY <1>9, Parts DEF IdsInv
  <2>2. ASSUME NEW p \in Places(v), IsRecord(v, p)
        PROVE  /\ v.record[p].new => ~v.record[p].id
               /\ p # 0 => v.record[p].id \/ v.record[p].new
    <3>1. CASE p = row
      <4>1. /\ old.new => ~old.id
            /\ row # 0 => old.id \/ old.new
        BY <1>2, Parts DEF IdsInv, old
      <4> QED BY <1>6, <1>8, <1>10, <3>1, <4>1
    <3>2. CASE p # row
      BY <1>11, <1>12, <2>2, <3>2, Parts DEF IdsInv
    <3> QED BY <3>1, <3>2
  <2> QED BY <2>1, <2>2 DEF IdsInv
<1>17. CursorInv(v)
  BY <1>2, <1>9, <1>10, <1>11, <1>15, OnRecordCursor DEF OnRecord, RowsInv
<1>18. HashInv(v)
  <2> SUFFICES ASSUME Filtered(v) PROVE \E m \in 0..MaxRow : HashOf(v, m)
    BY DEF HashInv
  <2>1. PICK m \in 0..MaxRow : HashOf(obj, m)
    BY <1>9, Parts DEF HashInv, Filtered
  <2>2. \A n \in 0..(m - 1) : IsRecord(v, obj.filterhash[n])
    BY <1>10, <1>12, <2>1 DEF HashOf
  <2> QED BY <1>9, <1>11, <2>1, <2>2 DEF HashOf
<1>19. ShownInv(v, late \cup {row})
  <2>1. \A p : p # row => /\ Visible(v, p) <=> Visible(obj, p)
                          /\ PassesAll(v, p) <=> PassesAll(obj, p)
    BY <1>9, <1>12 DEF Visible, Filtered, PassesAll
  <2>2. Filtered(v) <=> Filtered(obj)
    BY <1>9 DEF Filtered
  <2> QED BY <1>9, <1>11, <2>1, <2>2, Parts DEF ShownInv
<1> QED BY <1>1, <1>2, <1>15, <1>16, <1>17, <1>18, <1>19, Reached DEF ObjectInv

LEMMA SaveKeeps ==
  ASSUME FilterInv, Save
  PROVE  FilterInv'
<1> DEFINE v == Saved(obj)
<1>1. Becomes(v, Identified(obj) # {}) /\ late' = late
  BY DEF Save
<1>2. /\ Keeps(obj, v) /\ v.filterhash = obj.filterhash /\ New(v) = {}
      /\ v.currentrow = obj.currentrow
      /\ v.currentrecord = obj.currentrecord
      /\ \A p : IsRecord(v, p) <=> IsRecord(obj, p)
  BY Parts, SavedKeeps
<1> HIDE DEF v
<1>3. RowsInv(v) /\ IdsInv(v) /\ HashInv(v) /\ ShownInv(v, late)
  BY <1>2, Parts, KeepsShown DEF Keeps
<1>4. CursorInv(v)
  BY <1>2, Parts DEF CursorInv, Keeps
<1> QED BY <1>1, <1>3, <1>4, Parts, Reached DEF ObjectInv

\* The last row goes, and the others keep their numbers.
LEMMA DeleteKeeps ==
  ASSUME FilterInv, Rules, Delete
  PROVE  FilterInv'
<1> DEFINE row == obj.currentrow
           new == obj.record[row].new
           others == IF new THEN obj ELSE Saved(obj)
           gone == RecordDelete(others, row)
           rows == [p \in 0..(gone.numrecord - 1) |->
                      Values(obj, IF p < row THEN p ELSE p + 1)]
           o == IF new \/ ~Loaded THEN gone ELSE [gone EXCEPT !.res = rows]
           moves == new \/ Loaded
           moved == IF moves THEN MovetoRow(o, o.currentrow) ELSE o
           v == IF new THEN Saved(moved) ELSE moved
           left == {p \in 0..(gone.numrecord - 1) :
                      (IF p < row THEN p ELSE p + 1) \in late}
           crash == \/ ~(Identified(obj) \subseteq {row})
                    \/ moves /\ Strays(o, o.currentrow)
<1>1. /\ row < obj.numrecord /\ row = obj.numrecord - 1 /\ IsRecord(obj, row)
      /\ ~Filtered(obj) \/ New(obj) \subseteq {row}
      /\ Becomes(v, crash) /\ late' = left
  BY RulesObserved DEF Delete
<1>2. row \in Places(obj) /\ row \in Nat
  <2>1. obj.currentrow \in Nat
    BY Parts DEF CursorInv
  <2>2. obj.currentrow < obj.numrecord /\ obj.numrecord \in Nat
    BY <1>1, Parts
  <2> QED BY <2>1, <2>2 DEF Places
<1>3. new \in BOOLEAN
  BY <1>1, <1>2, Parts, Cells DEF Cell, Records
<1> HIDE DEF new
<1>4. /\ RowsInv(others) /\ IdsInv(others) /\ HashInv(others)
      /\ others.currentrow = row /\ others.numrecord = obj.numrecord
      /\ ShowsAlike(obj, others)
      /\ New(others) = IF new THEN New(obj) ELSE {}
  <2>1. CASE new
    <3>1. ShowsAlike(obj, obj)
      BY DEF ShowsAlike
    <3> QED BY <2>1, <3>1, Parts
  <2>2. CASE ~new
    <3>1. /\ Keeps(obj, others) /\ others.filterhash = obj.filterhash
          /\ New(others) = {} /\ others.currentrow = row
      BY <2>2, Parts, SavedKeeps
    <3> HIDE DEF others
    <3> QED BY <2>2, <3>1, Parts, KeepsShown DEF Keeps
  <2> QED BY <2>1, <2>2
<1> HIDE DEF others
<1>5. row \in Places(others) /\ row = others.numrecord - 1
  BY <1>1, <1>2, <1>4 DEF Places
<1>6. Trimmed(others, gone)
  BY <1>4, <1>5, LastRowGoes
<1> HIDE DEF gone
<1>7. /\ RowsInv(gone) /\ IdsInv(gone) /\ HashInv(gone)
      /\ gone.numrecord = row /\ Places(gone) = 0..(row - 1)
      /\ gone.currentrecord = NULL /\ gone.currentrow \in Nat
      /\ gone.numrecord > 0 => gone.currentrow < gone.numrecord
      /\ New(gone) = New(others) \ {row}
      /\ ShowsAlike(obj, gone)
  BY <1>1, <1>4, <1>6, ShowsAlikeOn DEF Trimmed, Places
<1>8. /\ RowsInv(o) /\ IdsInv(o) /\ HashInv(o)
      /\ o.numrecord = row /\ Places(o) = 0..(row - 1)
      /\ o.currentrecord = NULL /\ o.currentrow \in Nat
      /\ o.numrecord > 0 => o.currentrow < o.numrecord
      /\ New(o) = New(others) \ {row}
      /\ ShowsAlike(obj, o)
  <2>1. CASE new \/ ~Loaded
    BY <1>7, <2>1
  <2>2. CASE ~(new \/ ~Loaded)
    <3>1. o = [gone EXCEPT !.res = rows]
      BY <2>2
    <3>2. rows = [p \in Places(gone) |-> Values(gone, p)]
      <4>1. \A p \in Places(gone) : p < row /\ Values(gone, p) = Values(obj, p)
        BY <1>2, <1>7 DEF ShowsAlike
      <4> QED BY <1>7, <4>1
    <3> HIDE DEF o, rows
    <3>3. /\ RowsInv(o) /\ IdsInv(o) /\ New(o) = New(gone)
          /\ Places(o) = Places(gone)
          /\ o.currentrow = gone.currentrow
          /\ o.currentrecord = gone.currentrecord
          /\ HashInv(gone) => HashInv(o)
          /\ ShowsAlike(gone, o)
      BY <1>7, <3>1, <3>2, RefreshKeeps
    <3>4. o.numrecord = gone.numrecord
      BY <1>7, <3>1 DEF RowsInv, Fields
    <3> QED BY <1>7, <3>3, <3>4, ShowsAlikeOn
  <2> QED BY <2>1, <2>2
<1> HIDE DEF o, rows
\* A new row that is left goes with a cursor on a record: the object moves.
<1>9. New(o) # {} => moves /\ Moves(o, o.currentrow)
  <2> SUFFICES ASSUME New(o) # {} PROVE moves /\ Moves(o, o.currentrow)
    OBVIOUS
  <2>1. new /\ ~(New(obj) \subseteq {row})
    BY <1>4, <1>8
  <2>2. ~Filtered(o)
    BY <1>1, <1>8, <2>1 DEF ShowsAlike
  <2>3. o.numrecord > 0
    BY <1>2, <1>8 DEF New
  <2>4. o.currentrow \in 0..(o.numrecord - 1)
    BY <1>2, <1>8, <2>3
  <2> QED BY <2>1, <2>2, <2>4 DEF Moves, HasRow
<1>10. CursorInv(o) \/ (moves /\ Moves(o, o.currentrow))
  BY <1>8, <1>9 DEF CursorInv
<1>11. /\ ~Strays(o, o.currentrow) /\ Keeps(o, MovetoRow(o, o.currentrow))
       /\ MovetoRow(o, o.currentrow).filterhash = o.filterhash
       /\ IF Moves(o, o.currentrow)
          THEN OnRecord(MovetoRow(o, o.currentrow))
          ELSE MovetoRow(o, o.currentrow) = o
  BY <1>8, MovetoRowMoves DEF Visited
<1>12. /\ Keeps(o, moved) /\ moved.filterhash = o.filterhash
       /\ CursorInv(moved)
  <2>1. Keeps(o, moved) /\ moved.filterhash = o.filterhash
    BY <1>8, <1>11, KeepsItself
  <2>2. moved.numrecord \in 0..MaxRow
    BY <2>1 DEF Keeps, RowsInv
  <2>3. CursorInv(moved)
    <3>1. CASE moves /\ Moves(o, o.currentrow)
      <4>1. OnRecord(moved)
        BY <1>11, <3>1
      <4> QED BY <2>2, <4>1, OnRecordCursor
    <3>2. CASE ~(moves /\ Moves(o, o.currentrow))
      <4>1. moved = o
        BY <1>11, <3>2
      <4> QED BY <1>10, <3>2, <4>1
    <3> QED BY <3>1, <3>2
  <2> QED BY <2>1, <2>3
<1> HIDE DEF moved, moves
<1>13. RowsInv(moved) /\ IdsInv(moved) /\ HashInv(moved)
       /\ ShowsAlike(o, moved)
  BY <1>8, <1>12, KeepsShown DEF Keeps
<1>14. /\ RowsInv(v) /\ IdsInv(v) /\ HashInv(v) /\ CursorInv(v)
       /\ ShowsAlike(moved, v)
  <2>1. CASE ~new
    <3>1. ShowsAlike(moved, moved)
      BY DEF ShowsAlike
    <3> QED BY <1>12, <1>13, <2>1, <3>1
  <2>2. CASE new
    <3>1. /\ Keeps(moved, v) /\ v.filterhash = moved.filterhash
          /\ New(v) = {}
          /\ v.currentrow = moved.currentrow
          /\ v.currentrecord = moved.currentrecord
          /\ \A p : IsRecord(v, p) <=> IsRecord(moved, p)
      BY <1>12, <1>13, <2>2, SavedKeeps
    <3> HIDE DEF v
    <3>2. RowsInv(v) /\ IdsInv(v) /\ HashInv(v) /\ ShowsAlike(moved, v)
      BY <1>13, <3>1, KeepsShown DEF Keeps
    <3>3. CursorInv(v)
      BY <1>12, <3>1 DEF CursorInv, Keeps
    <3> QED BY <3>2, <3>3
  <2> QED BY <1>3, <2>1, <2>2
<1> HIDE DEF v
<1>15. ShowsAlike(obj, v)
  BY <1>8, <1>13, <1>14, ShowsAlikeOn
<1>16. ShownInv(v, left)
  <2>1. Places(v) \cap late \subseteq left
    <3>1. Places(v) \subseteq Places(o)
      BY <1>13, <1>14 DEF ShowsAlike
    <3>2. \A p \in Places(o) : p < row /\ p \in 0..(gone.numrecord - 1)
      BY <1>2, <1>7, <1>8
    <3> QED BY <3>1, <3>2
  <2> HIDE DEF left
  <2> QED BY <1>15, <2>1, Parts, ShownAlike
<1>17. ~crash
  BY <1>11, Parts
<1> QED BY <1>1, <1>14, <1>16, <1>17, Reached DEF ObjectInv

-----------------------------------------------------------------------------
(* Jumps.                                                                  *)

\* The first row that has a property is one of those that have it.
LEMMA FirstOf ==
  ASSUME NEW N \in Nat, NEW S \in SUBSET (0..(N - 1)), S # {}
  PROVE  Nth(S, 0) \in S
<1>1. N - 1 \in Nat
  <2>1. PICK n \in S : n \in 0..(N - 1)
    OBVIOUS
  <2> QED BY <2>1
<1>2. Numbers(S) /\ Cardinality(S) \in Nat
  BY <1>1, NthNumbers
<1>3. IsFiniteSet(S)
  BY <1>1, BelowFinite
<1>4. Cardinality(S) # 0
  BY <1>3, FS_EmptySet
<1>5. 0 \in 0..(Cardinality(S) - 1)
  BY <1>2, <1>4
<1> QED BY <1>2, <1>5 DEF Numbers

\* The last number of a set 0..last.
LEMMA LastOf ==
  ASSUME NEW last \in Nat
  PROVE  Nth(0..last, Cardinality(0..last) - 1) = last
<1> DEFINE S == 0..last
           N == Cardinality(S)
<1>1. N = last + 1
  <2>1. 0 \in Int /\ last \in Int
    OBVIOUS
  <2> QED BY <2>1, FS_Interval
<1>2. Numbers(S)
  BY NthNumbers
<1>3. N - 1 \in 0..(N - 1)
  BY <1>1
<1> DEFINE a == Nth(S, N - 1)
<1>4. a \in S
  BY <1>2, <1>3 DEF Numbers
<1>5. PICK n \in 0..(N - 1) : Nth(S, n) = last
  BY <1>2 DEF Numbers
<1>6. CASE n = N - 1
  BY <1>5, <1>6
<1>7. CASE n < N - 1
  <2>1. Nth(S, n) < Nth(S, N - 1)
    BY <1>2, <1>3, <1>7 DEF Numbers
  <2> HIDE DEF N
  <2> QED BY <1>4, <1>5, <2>1
<1> QED
  <2> HIDE DEF N, a
  <2>1. n = N - 1 \/ n < N - 1
    BY <1>1
  <2> QED BY <1>6, <1>7, <2>1

\* Without a filter the numbers of the rows are the rows.
LEMMA UnfilteredRows ==
  ASSUME FilterInv, ~Filtered(obj)
  PROVE  /\ NumRecord(obj) = obj.numrecord
         /\ \A n : HasRow(obj, n) /\ RealRow(obj, n) = n
BY DEF NumRecord, HasRow, RealRow

\* bonddb_id_get_row_from_id finds a row that has the key, if there is one.
LEMMA RowFromIdFinds ==
  ASSUME FilterInv, ~Filtered(obj), NEW k
  PROVE  LET n == RowFromId(obj, k) IN
         \/ n \in Places(obj) /\ Values(obj, n)[KeyField] = k
         \/ n = -1 /\ ~\E p \in Places(obj) : Values(obj, p)[KeyField] = k
<1> DEFINE has == {n \in 0..(obj.numrecord - 1) : Values(obj, n)[KeyField] = k}
<1>1. RowFromId(obj, k) = IF has = {} THEN -1 ELSE Nth(has, 0)
  BY UnfilteredRows DEF RowFromId
<1>2. CASE has = {}
  BY <1>1, <1>2 DEF Places
<1>3. CASE has # {}
  <2>1. Nth(has, 0) \in has
    <3>1. has \in SUBSET (0..(obj.numrecord - 1)) /\ obj.numrecord \in Nat
      BY Parts
    <3> HIDE DEF has
    <3> QED BY <1>3, <3>1, FirstOf
  <2> QED BY <1>1, <1>3, <2>1 DEF Places
<1> QED BY <1>2, <1>3

\* Visits in the array keep the invariant.
LEMMA VisitKeeps ==
  ASSUME NEW o, RowsInv(o), IdsInv(o), HashInv(o),
         NEW S \in SUBSET Places(o), NEW r \in S
  PROVE  LET v == Visit(o, S, r) IN
         /\ ObjectInv(v) /\ Visited(o, v, S, r)
         /\ \A apart : ShownInv(o, apart) => ShownInv(v, apart)
<1> DEFINE v == Visit(o, S, r)
<1>1. Visited(o, v, S, r)
  BY VisitVisits
<1> HIDE DEF v
<1>2. RowsInv(v) /\ IdsInv(v) /\ HashInv(v)
      /\ \A apart : ShownInv(o, apart) => ShownInv(v, apart)
  BY <1>1, KeepsShown DEF Keeps, Visited
<1>3. CursorInv(v)
  BY <1>1, <1>2, OnRecordCursor DEF Visited, RowsInv
<1>4. /\ ObjectInv(v) /\ Visited(o, v, S, r)
      /\ \A apart : ShownInv(o, apart) => ShownInv(v, apart)
  BY <1>1, <1>2, <1>3 DEF ObjectInv
<1> QED BY <1>4 DEF v

\* Ids are given to records that are not new.
LEMMA IdsGivenKeeps ==
  ASSUME NEW o, RowsInv(o), IdsInv(o), o.numrecord > 0,
         NEW S \in SUBSET Places(o),
         \A p \in S : IsRecord(o, p) /\ ~o.record[p].new,
         NEW v, DOMAIN v = Fields, v.res = o.res,
         v.numrecord = o.numrecord, v.filterrequest = o.filterrequest,
         v.noprimarykey = o.noprimarykey, v.ignoreassert = o.ignoreassert,
         DOMAIN v.record = DOMAIN o.record,
         \A p \in DOMAIN o.record :
           v.record[p] = IF p \in S THEN [o.record[p] EXCEPT !.id = TRUE]
                         ELSE o.record[p]
  PROVE  /\ Keeps(o, v)
         /\ \A p : IsRecord(v, p) <=> IsRecord(o, p)
<1>1. Places(v) = Places(o)
  BY DEF Places
<1>2. ASSUME NEW p \in S
      PROVE  /\ p \in Places(o) /\ IsRecord(o, p) /\ p \in DOMAIN o.record
             /\ v.record[p] \in Records /\ v.record[p].row = p
             /\ v.record[p].val = o.record[p].val
             /\ v.record[p].new = FALSE /\ v.record[p].id = TRUE
  <2>1. p \in Places(o) /\ IsRecord(o, p) /\ Cell(o, p)
    BY Cells
  <2>2. v.record[p] = [o.record[p] EXCEPT !.id = TRUE]
    BY <2>1 DEF Cell
  <2> QED BY <2>1, <2>2 DEF Cell, Records
<1>3. ASSUME NEW p, p \notin S, p \in DOMAIN o.record
      PROVE  v.record[p] = o.record[p]
  BY <1>3
<1>4. ASSUME NEW p PROVE IsRecord(v, p) <=> IsRecord(o, p)
  <2>1. CASE p \in S
    BY <1>2, <2>1, Pointers DEF IsRecord
  <2>2. CASE p \notin S
    BY <1>3, <2>2 DEF IsRecord
  <2> QED BY <2>1, <2>2
<1>5. ASSUME NEW p PROVE Values(v, p) = Values(o, p)
  <2>1. CASE p \in S
    BY <1>2, <1>4, <2>1 DEF Values
  <2>2. CASE p \notin S
    BY <1>3, <1>4, <2>2 DEF Values, InResult, IsRecord
  <2> QED BY <2>1, <2>2
<1>6. Room(v)
  <2>1. PICK size \in Nat :
          /\ o.numrecord < size /\ size % Chunk = 0
          /\ \A p \in 0..(size - 1) :
               p \in DOMAIN o.record /\ o.record[p] # Junk
    BY DEF RowsInv, Room
  <2>2. ASSUME NEW p \in 0..(size - 1)
        PROVE  p \in DOMAIN v.record /\ v.record[p] # Junk
    <3>1. p \in DOMAIN o.record /\ o.record[p] # Junk
      BY <2>1
    <3>2. CASE p \in S
      BY <1>2, <3>1, <3>2, Pointers
    <3>3. CASE p \notin S
      BY <1>3, <3>1, <3>3
    <3> QED BY <3>1, <3>2, <3>3
  <2> QED BY <2>1, <2>2 DEF Room
<1>7. RowsIn(v)
  <2> SUFFICES ASSUME NEW p \in Places(o)
               PROVE  \/ v.record[p] \in Records /\ v.record[p].row = p
                      \/ v.record[p] = NULL /\ v.res # NULL /\ p \in DOMAIN v.res
    BY <1>1 DEF RowsIn
  <2>1. Cell(o, p)
    BY Cells
  <2> QED BY <1>2, <1>3, <2>1 DEF Cell
<1>8. RowsInv(v)
  BY <1>6, <1>7 DEF RowsInv
<1>9. IdsInv(v)
  <2> SUFFICES ASSUME NEW p \in Places(o), IsRecord(o, p)
               PROVE  /\ v.record[p].new => ~v.record[p].id
                      /\ p # 0 => v.record[p].id \/ v.record[p].new
    BY <1>1, <1>4 DEF IdsInv
  <2>1. CASE p \in S
    BY <1>2, <2>1
  <2>2. CASE p \notin S
    BY <1>3, <2>2 DEF IdsInv, IsRecord
  <2> QED BY <2>1, <2>2
<1>10. New(v) \subseteq New(o)
  <2> SUFFICES ASSUME NEW p \in Places(o), IsRecord(o, p), v.record[p].new
               PROVE  o.record[p].new
    BY <1>1, <1>4 DEF New, Places
  <2> QED BY <1>2, <1>3 DEF IsRecord
<1> QED BY <1>4, <1>5, <1>8, <1>9, <1>10 DEF Keeps

\* The array of values is read, and the object is back on its row.
LEMMA ArrayExtractKeeps ==
  ASSUME FilterInv, Rules, ArrayExtract
  PROVE  FilterInv' /\ obj'.currentrow = obj.currentrow
<1> DEFINE on == {m \in 0..(NumRecord(obj) - 1) : HasRow(obj, m)}
           last == RealRow(obj, Nth(on, Cardinality(on) - 1))
           S == {RealRow(obj, m) : m \in on}
           u == Visit(obj, S, last)
           seen == [u EXCEPT !.ignoreassert = FALSE]
           v == MovetoRow(seen, obj.currentrow)
<1>1. /\ ~Filtered(obj) /\ on # {} /\ late' = late
      /\ Becomes(v, Strays(seen, obj.currentrow))
  BY RulesObserved DEF ArrayExtract, Unfiltered
<1>2. on = Places(obj) /\ S = on
  BY <1>1, UnfilteredRows DEF Places
<1>3. obj.numrecord > 0 /\ obj.numrecord \in Nat
  BY <1>1, <1>2, Parts DEF Places
<1>4. last = obj.numrecord - 1
  <2>1. obj.numrecord - 1 \in Nat
    BY <1>3
  <2> DEFINE top == obj.numrecord - 1
  <2>2. on = 0..top
    BY <1>2 DEF Places
  <2> HIDE DEF on, top
  <2>3. Nth(0..top, Cardinality(0..top) - 1) = top
    BY <2>1, LastOf DEF top
  <2> QED BY <1>1, <2>2, <2>3, UnfilteredRows DEF top
<1>5. S \in SUBSET Places(obj) /\ last \in S
  <2>1. obj.numrecord - 1 \in Places(obj)
    BY <1>3 DEF Places
  <2> HIDE DEF S, last
  <2> QED BY <1>2, <1>4, <2>1
<1> HIDE DEF S, last
<1>6. ObjectInv(u) /\ Visited(obj, u, S, last) /\ ShownInv(u, late)
  BY <1>5, Parts, VisitKeeps
<1> HIDE DEF u
<1>7. /\ DOMAIN seen = Fields /\ seen.res = u.res /\ seen.record = u.record
      /\ seen.numrecord = u.numrecord /\ seen.noprimarykey = u.noprimarykey
      /\ ~seen.ignoreassert /\ seen.currentrow = u.currentrow
      /\ seen.currentrecord = u.currentrecord
      /\ seen.filterhash = u.filterhash /\ seen.filterrequest = u.filterrequest
  BY <1>6 DEF ObjectInv, RowsInv, Fields
<1> HIDE DEF seen
<1>8. /\ RowsInv(seen) /\ IdsInv(seen) /\ CursorInv(seen)
      /\ Keeps(u, seen) /\ HashInv(seen) /\ ShownInv(seen, late)
  <2>1. /\ RowsInv(seen) /\ IdsInv(seen) /\ Keeps(u, seen)
        /\ New(seen) = New(u)
        /\ \A p : IsRecord(seen, p) <=> IsRecord(u, p)
    BY <1>6, <1>7, SameArray DEF ObjectInv, IdsInv
  <2>2. CursorInv(seen)
    BY <1>6, <1>7, <2>1 DEF ObjectInv, CursorInv
  <2> QED BY <1>6, <1>7, <2>1, <2>2, KeepsShown DEF ObjectInv
<1>9. /\ ~Strays(seen, obj.currentrow) /\ ObjectInv(v) /\ ShownInv(v, late)
  BY <1>8, MovetoRowKeeps
<1>10. FilterInv'
  BY <1>1, <1>9, Reached
<1>11. v.currentrow = obj.currentrow
  <2>1. obj.currentrow \in Places(obj)
    BY <1>3, Parts DEF CursorInv, Places
  <2>2. seen.numrecord = obj.numrecord /\ ~Filtered(seen)
    BY <1>1, <1>6, <1>7 DEF Visited, Keeps, Filtered
  <2>3. Moves(seen, obj.currentrow) /\ RealRow(seen, obj.currentrow) = obj.currentrow
    BY <2>1, <2>2 DEF Moves, HasRow, RealRow, Places
  <2> QED BY <1>8, <2>3, MovetoRowMoves DEF Visited
<1>12. obj' = v
  BY <1>1, <1>9 DEF Becomes
<1> QED BY <1>10, <1>11, <1>12

LEMMA JumptoKeeps ==
  ASSUME FilterInv, Rules, NEW k, Jumpto(k)
  PROVE  /\ FilterInv'
         /\ (\E p \in Places(obj) : Values(obj, p)[KeyField] = k) =>
              Values(obj', obj'.currentrow)[KeyField] = k
<1> DEFINE n == RowFromId(obj, k)
           v == MovetoRow(obj, n)
<1>1. /\ ~Filtered(obj) /\ n # -1 /\ late' = late
      /\ Becomes(v, Strays(obj, n))
  BY RulesObserved DEF Jumpto, Unfiltered
<1>2. FilterInv'
  BY <1>1, MovetoKeeps
<1>3. n \in Places(obj) /\ Values(obj, n)[KeyField] = k
  BY <1>1, RowFromIdFinds
<1> HIDE DEF n
<1>4. Moves(obj, n) /\ RealRow(obj, n) = n
  BY <1>1, <1>3 DEF Moves, HasRow, RealRow, Places
<1>5. ~Strays(obj, n) /\ Visited(obj, v, {n}, n)
  BY <1>4, Parts, MovetoRowMoves
<1>6. obj' = v
  BY <1>1, <1>5 DEF Becomes
<1>7. Values(v, n) = Values(obj, n) /\ v.currentrow = n
  BY <1>3, <1>5 DEF Visited, Keeps
<1> QED BY <1>2, <1>3, <1>6, <1>7

LEMMA JumptoIdKeeps ==
  ASSUME FilterInv, Rules, NEW k, JumptoId(k)
  PROVE  /\ FilterInv'
         /\ (\E p \in Places(obj) : Values(obj, p)[KeyField] = k) =>
              Values(obj', obj'.currentrow)[KeyField] = k
<1> DEFINE row == obj.currentrow
           owns == \/ obj.currentid # NULL
                   \/ /\ row < obj.numrecord /\ IsRecord(obj, row)
                      /\ ~obj.record[row].new /\ ~obj.noprimarykey
           has == IF obj.currentid = NULL
                  THEN [obj EXCEPT !.record[row].id = TRUE] ELSE obj
           n == RowFromId(obj, k)
           last == IF n = -1 THEN NumRecord(obj) - 1 ELSE n
           on == {m \in 0..last : HasRow(obj, m)}
           S == {RealRow(obj, m) : m \in on}
           end == RealRow(obj, Nth(on, Cardinality(on) - 1))
           seen == Visit(has, S, end)
           v == IF n = -1 THEN MovetoRow(seen, row) ELSE seen
           crash == \/ obj.currentid = Freed
                    \/ n = -1 /\ Strays(seen, row)
<1>1. /\ ~Filtered(obj) /\ on # {} /\ late' = late
      /\ owns /\ obj.currentid # Freed /\ Becomes(v, crash)
  BY RulesObserved DEF JumptoId, Unfiltered
<1>2. \/ n \in Places(obj) /\ Values(obj, n)[KeyField] = k
      \/ n = -1 /\ ~\E p \in Places(obj) : Values(obj, p)[KeyField] = k
  BY <1>1, RowFromIdFinds
<1>3. /\ NumRecord(obj) = obj.numrecord
      /\ \A m : HasRow(obj, m) /\ RealRow(obj, m) = m
  BY <1>1, UnfilteredRows
<1> HIDE DEF n
<1>4. last \in Places(obj) /\ last \in Nat
  <2>1. PICK m \in 0..last : TRUE
    BY <1>1
  <2> QED BY <1>2, <1>3, <2>1, Parts DEF Places
<1> HIDE DEF last
<1>5. on = 0..last /\ S = 0..last
  BY <1>3
<1>6. end = last
  <2> HIDE DEF on
  <2>1. Nth(0..last, Cardinality(0..last) - 1) = last
    BY <1>4, LastOf
  <2> QED BY <1>3, <1>5, <2>1
<1>7. S \in SUBSET Places(obj) /\ end \in S
  <2>1. 0..last \in SUBSET Places(obj) /\ last \in 0..last
    BY <1>4, Parts DEF Places
  <2> HIDE DEF S, end
  <2> QED BY <1>5, <1>6, <2>1
<1> HIDE DEF on, S, end
<1>8. /\ Keeps(obj, has) /\ has.filterhash = obj.filterhash
      /\ Places(has) = Places(obj)
  <2>1. CASE obj.currentid # NULL
    BY <2>1, Parts, KeepsItself
  <2>2. CASE obj.currentid = NULL
    <3>1. /\ row \in Places(obj) /\ IsRecord(obj, row)
          /\ ~obj.record[row].new
      BY <1>1, <2>2, Parts DEF CursorInv, Places
    <3>2. /\ DOMAIN has = Fields /\ has.res = obj.res
          /\ has.numrecord = obj.numrecord
          /\ has.filterrequest = obj.filterrequest
          /\ has.noprimarykey = obj.noprimarykey
          /\ has.ignoreassert = obj.ignoreassert
          /\ has.filterhash = obj.filterhash
      BY <2>2, Parts DEF Fields
    <3>0. has.record = [obj.record EXCEPT ![row] =
                          [obj.record[row] EXCEPT !.id = TRUE]]
      BY <2>2, Parts DEF Fields
    <3> HIDE DEF has
    <3> DEFINE R == {row}
    <3>3. /\ DOMAIN has.record = DOMAIN obj.record
          /\ \A p \in DOMAIN obj.record :
               has.record[p] = IF p \in R
                               THEN [obj.record[p] EXCEPT !.id = TRUE]
                               ELSE obj.record[p]
      BY <3>0
    <3>4. obj.numrecord > 0 /\ R \in SUBSET Places(obj)
      BY <3>1, Parts DEF Places
    <3>5. \A p \in R : IsRecord(obj, p) /\ ~obj.record[p].new
      BY <3>1
    <3> HIDE DEF R
    <3>6. Keeps(obj, has)
      BY <3>2, <3>3, <3>4, <3>5, Parts, IdsGivenKeeps
    <3> QED BY <3>2, <3>6 DEF Places
  <2> QED BY <2>1, <2>2
<1> HIDE DEF has
<1>9. RowsInv(has) /\ IdsInv(has) /\ HashInv(has) /\ ShownInv(has, late)
  BY <1>8, Parts, KeepsShown DEF Keeps
<1>10. /\ ObjectInv(seen) /\ Visited(has, seen, S, end)
       /\ ShownInv(seen, late)
  BY <1>7, <1>8, <1>9, VisitKeeps
<1> HIDE DEF seen
<1>11. ObjectInv(v) /\ ShownInv(v, late) /\ ~Strays(seen, row)
  BY <1>10, MovetoRowKeeps DEF ObjectInv
<1>12. ~crash
  BY <1>1, <1>11
<1>13. FilterInv' /\ obj' = v
  BY <1>1, <1>11, <1>12, Reached DEF Becomes
<1>14. ASSUME \E p \in Places(obj) : Values(obj, p)[KeyField] = k
       PROVE  Values(obj', obj'.currentrow)[KeyField] = k
  <2>1. n \in Places(obj) /\ Values(obj, n)[KeyField] = k
    BY <1>2, <1>14
  <2>2. n # -1 /\ last = n
    BY <2>1 DEF Places, last
  <2>3. v = seen /\ seen.currentrow = n
    BY <1>6, <1>10, <2>2 DEF Visited
  <2>4. Values(seen, n) = Values(obj, n)
    BY <1>8, <1>10, <2>1 DEF Visited, Keeps
  <2> QED BY <1>13, <2>1, <2>3, <2>4
<1> QED BY <1>13, <1>14

LEMMA MovetoIdKeeps ==
  ASSUME FilterInv, Rules, NEW k, MovetoId(k)
  PROVE  /\ FilterInv'
         /\ Values(obj', obj'.currentrow)[KeyField] = k
<1> DEFINE has == {p \in 0..(obj.numrecord - 1) : Values(obj, p)[KeyField] = k}
           row == IF has = {} THEN obj.numrecord - 1 ELSE Nth(has, 0)
           S == 0..row
           o == Visit(obj, S, row)
           record == [p \in DOMAIN o.record |->
                        IF p \in S
                        THEN [o.record[p] EXCEPT !.id = @ \/ ~obj.noprimarykey]
                        ELSE o.record[p]]
           given == [o EXCEPT !.record = record]
           found == has # {} /\ ~obj.noprimarykey
           v == [given EXCEPT
                   !.currentrecord = IF found THEN row ELSE obj.currentrecord,
                   !.currentid = IF found THEN "own" ELSE obj.currentid]
           crash == ~(S \subseteq DOMAIN obj.record)
<1>1. /\ has # {} /\ New(obj) \cap S = {} /\ late' = late
      /\ Becomes(v, crash) /\ obj.numrecord > 0
  BY RulesObserved DEF MovetoId
<1>2. row \in Places(obj) /\ Values(obj, row)[KeyField] = k
  <2>1. has \in SUBSET (0..(obj.numrecord - 1)) /\ obj.numrecord \in Nat
    BY Parts
  <2>2. row \in has
    <3>1. row = Nth(has, 0)
      BY <1>1
    <3> HIDE DEF has, row
    <3> QED BY <1>1, <2>1, <3>1, FirstOf
  <2> HIDE DEF row
  <2> QED BY <2>2 DEF Places
<1>3. found
  BY <1>1, Parts DEF IdsInv
<1> HIDE DEF row, has, found
<1>4. S \in SUBSET Places(obj) /\ row \in S
  BY <1>2, Parts DEF Places
<1> HIDE DEF S
<1>5. ObjectInv(o) /\ Visited(obj, o, S, row) /\ ShownInv(o, late)
  BY <1>4, Parts, VisitKeeps
<1> HIDE DEF o
<1>6. /\ RowsInv(o) /\ IdsInv(o) /\ HashInv(o) /\ o.numrecord = obj.numrecord
      /\ Places(o) = Places(obj) /\ New(o) = New(obj)
      /\ DOMAIN o = Fields /\ o.currentrow = row
      /\ Values(o, row) = Values(obj, row)
  BY <1>2, <1>5 DEF ObjectInv, Visited, Keeps, Places, RowsInv
<1>7. \A p \in S : IsRecord(o, p) /\ ~o.record[p].new /\ p \in Places(o)
  BY <1>1, <1>4, <1>5, <1>6 DEF Visited, New, Places
<1>8. /\ DOMAIN record = DOMAIN o.record
      /\ \A p \in DOMAIN o.record :
           record[p] = IF p \in S THEN [o.record[p] EXCEPT !.id = TRUE]
                       ELSE o.record[p]
  <2>1. ASSUME NEW p \in S, p \in DOMAIN o.record
        PROVE  [o.record[p] EXCEPT !.id = @ \/ ~obj.noprimarykey]
                 = [o.record[p] EXCEPT !.id = TRUE]
    <3>1. (o.record[p].id \/ ~obj.noprimarykey) = TRUE
      BY Parts DEF IdsInv
    <3> QED BY <3>1
  <2> QED BY <2>1
<1> HIDE DEF record
<1>9. /\ DOMAIN v = Fields /\ v.res = o.res /\ v.record = record
      /\ v.numrecord = o.numrecord /\ v.noprimarykey = o.noprimarykey
      /\ v.ignoreassert = o.ignoreassert /\ v.filterhash = o.filterhash
      /\ v.filterrequest = o.filterrequest /\ v.currentrow = row
      /\ v.currentrecord = row
  BY <1>3, <1>6 DEF Fields
<1> HIDE DEF v
<1>10. /\ Keeps(o, v)
       /\ \A p : IsRecord(v, p) <=> IsRecord(o, p)
  <2>1. o.numrecord > 0 /\ S \in SUBSET Places(o)
    BY <1>1, <1>6, <1>7
  <2> QED BY <1>6, <1>7, <1>8, <1>9, <2>1, IdsGivenKeeps
<1>11. RowsInv(v) /\ IdsInv(v) /\ HashInv(v) /\ ShownInv(v, late)
  BY <1>5, <1>6, <1>9, <1>10, KeepsShown DEF Keeps
<1>12. CursorInv(v)
  <2>1. OnRecord(v)
    BY <1>2, <1>4, <1>6, <1>7, <1>9, <1>10 DEF OnRecord, Places
  <2> QED BY <1>11, <2>1, OnRecordCursor DEF RowsInv
<1>13. ~crash
  <2>1. \A p \in Places(obj) : p \in DOMAIN obj.record
    BY Parts, Cells DEF Cell
  <2> QED BY <1>4, <2>1
<1>14. FilterInv' /\ obj' = v
  BY <1>1, <1>11, <1>12, <1>13, Reached DEF Becomes, ObjectInv
<1>15. Values(v, row) = Values(obj, row)
  BY <1>2, <1>6, <1>10 DEF Keeps
<1> QED BY <1>2, <1>9, <1>14, <1>15

-----------------------------------------------------------------------------
(* The theorems.                                                           *)

LEMMA FilterInvNext ==
  ASSUME FilterInv, Rules, [FilterNext]_objVars
  PROVE  FilterInv'
<1>1. ASSUME NEW table \in ResultSets, Load(table) PROVE FilterInv'
  BY <1>1, LoadKeeps
<1>2. CASE Blank
  BY <1>2, BlankKeeps
<1>3. ASSUME NEW n \in 0..(MaxRow - 1), Moveto(n) PROVE FilterInv'
  BY <1>3, MovetoKeeps DEF Moveto
<1>4. ASSUME NEW q \in Condition, FilterByValue(q) PROVE FilterInv'
  BY <1>4, FilterByValueKeeps
<1>5. ASSUME NEW f \in Field, FilterRemove(f) PROVE FilterInv'
  BY <1>5, FilterRemoveKeeps
<1>6. CASE FilterClear
  BY <1>6, ClearedKeeps DEF FilterClear
<1>7. CASE Add
  BY <1>7, AddKeeps
<1>8. ASSUME NEW q \in Condition, SetValue(q.field, q.value) PROVE FilterInv'
  BY <1>8, SetValueKeeps
<1>9. CASE Save
  BY <1>9, SaveKeeps
<1>10. CASE Delete
  BY <1>10, DeleteKeeps
<1>11. ASSUME NEW k \in 1..MaxRow, Jumpto(k) \/ JumptoId(k) \/ MovetoId(k)
       PROVE  FilterInv'
  <2>1. CASE Jumpto(k)
    BY <2>1, JumptoKeeps
  <2>2. CASE JumptoId(k)
    BY <2>2, JumptoIdKeeps
  <2>3. CASE MovetoId(k)
    BY <2>3, MovetoIdKeeps
  <2> QED BY <1>11, <2>1, <2>2, <2>3
<1>12. CASE ArrayExtract
  BY <1>12, ArrayExtractKeeps
<1>13. CASE UNCHANGED objVars
  BY <1>13 DEF objVars, FilterInv
<1> QED BY <1>1, <1>2, <1>3, <1>4, <1>5, <1>6, <1>7, <1>8, <1>9, <1>10,
           <1>11, <1>12, <1>13 DEF FilterNext

\* The invariant has the properties of the states.
LEMMA FilterInvExact ==
  ASSUME FilterInv
  PROVE  FilterExact
<1> SUFFICES ASSUME Filtered(obj) PROVE FilterExact
  BY DEF FilterExact
<1>1. Shows(obj)
  BY Parts, ShowsRows
<1>2. PICK m \in 0..MaxRow : HashOf(obj, m)
  BY Parts DEF HashInv
<1>3. NumRecord(obj) = m /\ DOMAIN obj.filterhash = 0..(m - 1)
  BY <1>2, HashSize
<1>4. \A n \in 0..(m - 1) : RealRow(obj, n) \in 0..(obj.numrecord - 1)
  BY <1>1, <1>3 DEF Shows, Places
<1>5. \A n, l \in 0..(m - 1) : n < l => RealRow(obj, n) < RealRow(obj, l)
  BY <1>1, <1>3 DEF Shows
<1>6. ASSUME NEW row \in 0..(obj.numrecord - 1) \ late
      PROVE  row \in Shown <=> Passes(row)
  <2>1. Visible(obj, row) <=> \E n \in 0..(m - 1) : RealRow(obj, n) = row
    BY <1>1, <1>3 DEF Shows, Places
  <2>2. Visible(obj, row) <=> PassesAll(obj, row)
    BY Parts DEF ShownInv, Places
  <2>3. PassesAll(obj, row) <=> Passes(row)
    BY DEF PassesAll, Passes
  <2> QED BY <1>3, <2>1, <2>2, <2>3 DEF Shown
<1>7. Shown \subseteq 0..(obj.numrecord - 1)
  BY <1>3, <1>4 DEF Shown
<1> QED BY <1>3, <1>5, <1>6, <1>7 DEF FilterExact

LEMMA FilterInvCells ==
  ASSUME FilterInv
  PROVE  Addressable /\ IdsInOrder /\ CursorOnRecord
<1>1. Addressable
  BY Parts, Cells DEF Addressable, Alive, FilterInv, Places, Cell
<1>2. \A p \in 1..(obj.numrecord - 1) : p \in Places(obj) /\ p # 0
  BY Parts DEF Places
<1>3. IdsInOrder
  BY <1>2, Parts DEF IdsInOrder, IdsInv
<1>4. CursorOnRecord
  BY Parts DEF CursorOnRecord, CursorInv
<1> QED BY <1>1, <1>3, <1>4

LEMMA FilterInvLands ==
  ASSUME FilterInv, Rules
  PROVE  JumpLands
<1>1. ASSUME NEW k \in 1..MaxRow, Jumpto(k) \/ JumptoId(k) \/ MovetoId(k),
             \E p \in 0..(obj.numrecord - 1) : Values(obj, p)[KeyField] = k
      PROVE  Values(obj', obj'.currentrow)[KeyField] = k
  <2>1. \E p \in Places(obj) : Values(obj, p)[KeyField] = k
    BY <1>1 DEF Places
  <2>2. CASE Jumpto(k)
    BY <2>1, <2>2, JumptoKeeps
  <2>3. CASE JumptoId(k)
    BY <2>1, <2>3, JumptoIdKeeps
  <2>4. CASE MovetoId(k)
    BY <2>4, MovetoIdKeeps
  <2> QED BY <1>1, <2>2, <2>3, <2>4
<1>2. ArrayExtract => obj'.currentrow = obj.currentrow
  BY ArrayExtractKeeps
<1> QED BY <1>1, <1>2 DEF JumpLands

\* The invariant holds of every state of an object whose application observes
\* the rules.
LEMMA FilterInvAlways ==
  ASSUME Rules
  PROVE  FilterSpec => []FilterInv
<1>1. FilterInit => FilterInv
  BY InitInv
<1>2. FilterInv /\ [FilterNext]_objVars => FilterInv'
  BY FilterInvNext
<1> QED BY <1>1, <1>2, PTL DEF FilterSpec

\* The numbers of a filtered object stand, in their order, for exactly the
\* rows that pass every filter asked for: for any filters in any order, taken
\* away again one by one (bonddb_filter_byvalue, bonddb_filter_remove).
THEOREM FiltersShowExactly ==
  ASSUME Rules
  PROVE  FilterSpec => []FilterExact
<1>1. FilterInv => FilterExact
  BY FilterInvExact
<1> QED BY <1>1, FilterInvAlways, PTL

\* No call reads outside of the array, memory of it nobody wrote, or a freed
\* record, whatever the array grows by (bonddb_record_populate).
THEOREM RowsAddressable ==
  ASSUME Rules
  PROVE  FilterSpec => []Addressable
<1>1. FilterInv => Addressable
  BY FilterInvCells
<1> QED BY <1>1, FilterInvAlways, PTL

\* A row that was saved or visited has its id, and a new one has none
\* (bonddb_write_handleinsert's assertion holds).
THEOREM IdsStayInOrder ==
  ASSUME Rules
  PROVE  FilterSpec => []IdsInOrder
<1>1. FilterInv => IdsInOrder
  BY FilterInvCells
<1> QED BY <1>1, FilterInvAlways, PTL

\* While there are rows the cursor is on one, and the current record is the
\* record of that row or unset (bonddb_moveto, bonddb_record_delete).
THEOREM CursorStaysOnRecord ==
  ASSUME Rules
  PROVE  FilterSpec => []CursorOnRecord
<1>1. FilterInv => CursorOnRecord
  BY FilterInvCells
<1> QED BY <1>1, FilterInvAlways, PTL

\* Every jump lands on a row that has the key asked for, and reading an array
\* of values comes back to the row it left (bonddb_jumpto, bonddb_jumpto_id,
\* bonddb_moveto_id, bonddb_array_extract).
THEOREM JumpsLand ==
  ASSUME Rules
  PROVE  FilterSpec => JumpFinds
<1>1. FilterInv /\ [FilterNext]_objVars => [JumpLands]_objVars
  BY FilterInvLands
<1> QED BY <1>1, FilterInvAlways, PTL DEF FilterSpec, JumpFinds
=============================================================================

-------------------------- MODULE BondKeys_proofs ---------------------------
(***************************************************************************)
(* Primary keys and ids, for any tables, keys and queries.                 *)
(*                                                                         *)
(* No id points to a freed list of columns, if the application sets a key  *)
(* before ids of its table are made: an object asks the plugin for a key   *)
(* only while it has none, and while it has none there are no ids of that  *)
(* table.  The key an object has is the one declared, if no column before  *)
(* one of a key is dropped; and an id is made of the columns of that key.  *)
(***************************************************************************)
EXTENDS BondKeys, FiniteSetTheorems, SetInduction

\* The shape of what an object knows of keys.
ObjectShape ==
  /\ DOMAIN object = {"primarykey", "noprimarykey", "fields", "ids"}
  /\ DOMAIN object.primarykey = Tables
  /\ object.ids \in [Tables -> {"none", "list"}]

\* There are ids of a table only when the object has a key for it, and they
\* point to that key.
IdsHaveKey ==
  \A t \in Tables : object.ids[t] = "list" => object.primarykey[t] # <<>>

KeysInv == ObjectShape /\ IdsHaveKey

-----------------------------------------------------------------------------
\* A key may be added to a table that has no ids.
LEMMA AddKeepsIds ==
  ASSUME KeysInv, NEW t \in Tables, NEW list, object.ids[t] = "none"
  PROVE  LET o == PrimaryKeyAdd(object, t, list) IN
         /\ DOMAIN o = DOMAIN object
         /\ DOMAIN o.primarykey = Tables
         /\ o.ids = object.ids
         /\ \A u \in Tables :
              object.primarykey[u] # <<>> => o.primarykey[u] # <<>>
<1>1. CASE list = <<>>
  BY <1>1 DEF PrimaryKeyAdd, KeysInv, ObjectShape
<1>2. CASE list # <<>>
  <2>1. PrimaryKeyAdd(object, t, list)
          = [object EXCEPT !.primarykey = [@ EXCEPT ![t] = list],
                           !.ids = [@ EXCEPT ![t] = "none"]]
    BY <1>2 DEF PrimaryKeyAdd
  <2>2. [object.ids EXCEPT ![t] = "none"] = object.ids
    BY DEF KeysInv, ObjectShape
  <2> QED BY <1>2, <2>1, <2>2 DEF KeysInv, ObjectShape
<1> QED BY <1>1, <1>2

\* A key that bonddb_id_get asks for is added while the table has no ids.
LEMMA GuessKeepsIds ==
  ASSUME KeysInv, NEW t \in Tables, NEW broken \in BOOLEAN
  PROVE  LET o == Guessed(t, broken) IN
         /\ DOMAIN o = DOMAIN object
         /\ DOMAIN o.primarykey = Tables
         /\ o.ids = object.ids
         /\ \A u \in Tables :
              object.primarykey[u] # <<>> => o.primarykey[u] # <<>>
<1>1. CASE ~Guesses(t)
  BY <1>1 DEF Guessed, KeysInv, ObjectShape
<1>2. CASE Guesses(t)
  <2>1. object.ids[t] = "none"
    BY <1>2 DEF Guesses, KeysInv, ObjectShape, IdsHaveKey
  <2>2. Guessed(t, broken)
          = PrimaryKeyAdd(object, t, PrimaryKeyList(t, broken))
    BY <1>2 DEF Guessed
  <2> QED BY <2>1, <2>2, AddKeepsIds
<1> QED BY <1>1, <1>2

-----------------------------------------------------------------------------
LEMMA KeysInvInit == KeysInit => KeysInv
BY DEF KeysInit, NewObjectKeys, Unknown, KeysInv, ObjectShape, IdsHaveKey

LEMMA IdGetKeeps ==
  ASSUME KeysInv, NEW t \in Tables, NEW empty \in BOOLEAN,
         NEW broken \in BOOLEAN, IdGet(t, empty, broken)
  PROVE  KeysInv'
<1> DEFINE o == Guessed(t, broken)
<1>1. /\ DOMAIN o = DOMAIN object
      /\ DOMAIN o.primarykey = Tables
      /\ o.ids = object.ids
      /\ \A u \in Tables :
           object.primarykey[u] # <<>> => o.primarykey[u] # <<>>
  BY GuessKeepsIds
<1> HIDE DEF o
<1>2. CASE object' = object
  BY <1>2 DEF KeysInv, ObjectShape, IdsHaveKey
<1>3. CASE object' = [o EXCEPT !.noprimarykey = TRUE]
  BY <1>1, <1>3 DEF KeysInv, ObjectShape, IdsHaveKey
<1>4. CASE /\ o.primarykey[t] # <<>>
           /\ object' = [o EXCEPT !.ids[t] = IF @ = "freed" THEN @
                                             ELSE "list"]
  <2>1. object' = [o EXCEPT !.ids = [@ EXCEPT ![t] = "list"]]
    <3>1. o.ids[t] # "freed"
      BY <1>1 DEF KeysInv, ObjectShape
    <3> QED BY <1>4, <3>1
  <2> QED BY <1>1, <1>4, <2>1 DEF KeysInv, ObjectShape, IdsHaveKey
<1> QED BY <1>2, <1>3, <1>4 DEF IdGet, o

LEMMA SetPrimaryKeyKeeps ==
  ASSUME KeysInv, "setFirst" \in KeyDiscipline, NEW t \in Tables, NEW list,
         SetPrimaryKey(t, list)
  PROVE  KeysInv'
<1>1. object.ids[t] = "none"
  BY DEF SetPrimaryKey, Observes
<1>2. object' = PrimaryKeyAdd(object, t, list)
  BY DEF SetPrimaryKey
<1> QED BY <1>1, <1>2, AddKeepsIds DEF KeysInv, ObjectShape, IdsHaveKey

LEMMA KeysInvNext ==
  ASSUME KeysInv, "setFirst" \in KeyDiscipline, [KeysNext]_keyVars
  PROVE  KeysInv'
<1>1. CASE \E t \in Tables, empty, broken \in BOOLEAN : IdGet(t, empty, broken)
  BY <1>1, IdGetKeeps
<1>2. CASE \E t \in Tables, list \in OwnKeys : SetPrimaryKey(t, list)
  BY <1>2, SetPrimaryKeyKeeps
<1>3. ASSUME NEW fields \in Queries, Requery(fields)
      PROVE  KeysInv'
  <2>1. object' = [object EXCEPT !.fields = fields, !.noprimarykey = FALSE,
                                 !.ids = [t \in Tables |-> "none"]]
    BY <1>3 DEF Requery
  <2> QED BY <2>1 DEF KeysInv, ObjectShape, IdsHaveKey
<1>4. ASSUME NEW t \in Tables, NEW broken \in BOOLEAN, NewBaseTable(t, broken)
      PROVE  KeysInv'
  <2>1. PICK fields : object' = NewObjectKeys(fields)
    BY <1>4 DEF NewBaseTable
  <2> QED
    BY <2>1 DEF NewObjectKeys, Unknown, KeysInv, ObjectShape, IdsHaveKey
<1>5. CASE UNCHANGED object
  BY <1>5 DEF KeysInv, ObjectShape, IdsHaveKey
<1>6. (\E state \in BOOLEAN : SetDictionary(state)) => UNCHANGED object
  BY DEF SetDictionary
<1>7. ASSUME NEW t \in Tables, NEW c, Altered(t, c)
      PROVE  UNCHANGED object
  BY <1>7 DEF Altered
<1> QED
  BY <1>1, <1>2, <1>3, <1>4, <1>5, <1>6, <1>7
     DEF KeysNext, keyVars, DropColumn, AlterKey

-----------------------------------------------------------------------------
\* bonddb_id_extract lets an id share the list of columns of the object's
\* key, and bonddb_primarykey_add frees that list: no id is left with a
\* freed list, whatever is queried, guessed or altered, if a key is set
\* before ids of its table are made.
THEOREM IdsNeverLoseFields ==
  ASSUME "setFirst" \in KeyDiscipline
  PROVE  KeysSpec => []IdsKeepFields
<1>1. KeysInv => IdsKeepFields
  BY DEF KeysInv, ObjectShape, IdsKeepFields
<1> QED BY <1>1, KeysInvInit, KeysInvNext, PTL DEF KeysSpec

-----------------------------------------------------------------------------
(* The columns at the positions of a key are found one after the other, a  *)
(* recursive function of their number.                                     *)

LEMMA PrimaryKeyItemsAre ==
  ASSUME NEW list, NEW key_ \in Seq(Nat), ToSet(key_) \subseteq DOMAIN list
  PROVE  PrimaryKeyItems(list, key_) = [i \in DOMAIN key_ |-> list[key_[i]]]
<1> DEFINE N == Len(key_)
           S == {list[n] : n \in DOMAIN list}
           g == [i \in 0..N |-> [j \in 1..i |-> list[key_[j]]]]
           items[i \in 0..N] ==
             IF i = 0 THEN <<>> ELSE items[i - 1] \o PrimaryKeyItem(list, key_[i])
<1>1. /\ N \in Nat /\ DOMAIN key_ = 1..N
      /\ \A i \in 1..N : key_[i] \in DOMAIN list /\ list[key_[i]] \in S
  BY DEF ToSet
<1>2. /\ \A i \in 0..N : g[i] \in Seq(S) /\ Len(g[i]) = i
      /\ g[0] = <<>>
      /\ g[N] = [i \in DOMAIN key_ |-> list[key_[i]]]
  <2>1. ASSUME NEW i \in 0..N PROVE g[i] \in Seq(S) /\ Len(g[i]) = i
    <3>1. g[i] \in [1..i -> S] /\ i \in Nat
      BY <1>1
    <3> QED
      BY <3>1
  <2>2. g[0] \in Seq(S) /\ Len(g[0]) = 0
    BY <1>1, <2>1
  <2>3. g[N] = [i \in DOMAIN key_ |-> list[key_[i]]]
    BY <1>1
  <2> HIDE DEF g
  <2>4. g[0] = <<>>
    BY <2>2
  <2> QED
    BY <2>1, <2>3, <2>4
<1>3. ASSUME NEW i \in 1..N
      PROVE  g[i] = g[i - 1] \o PrimaryKeyItem(list, key_[i])
  <2>1. /\ i \in Nat /\ i - 1 \in 0..N /\ i \in 0..N
        /\ PrimaryKeyItem(list, key_[i]) = <<list[key_[i]]>>
        /\ list[key_[i]] \in S
    BY <1>1 DEF PrimaryKeyItem
  <2>2. \A j \in 1..i : g[i][j] = list[key_[j]]
    BY <2>1
  <2>3. \A j \in 1..(i - 1) : g[i - 1][j] = list[key_[j]]
    BY <2>1
  <2> HIDE DEF g, S
  <2>4. /\ g[i] \in Seq(S) /\ Len(g[i]) = i
        /\ g[i - 1] \in Seq(S) /\ Len(g[i - 1]) = i - 1
    BY <1>2, <2>1
  <2> DEFINE h == g[i - 1] \o <<list[key_[i]]>>
  <2>5. /\ h \in Seq(S) /\ Len(h) = i /\ h[i] = list[key_[i]]
        /\ \A j \in 1..(i - 1) : h[j] = g[i - 1][j]
    BY <2>1, <2>4
  <2> HIDE DEF h
  <2>6. \A j \in 1..i : h[j] = g[i][j]
    BY <2>1, <2>2, <2>3, <2>5
  <2>7. h = g[i]
    BY <2>4, <2>5, <2>6
  <2> QED
    BY <2>1, <2>7 DEF h
<1>4. items = [i \in 0..N |->
                 IF i = 0 THEN <<>> ELSE items[i - 1] \o PrimaryKeyItem(list, key_[i])]
  <2>1. g = [i \in 0..N |-> g[i]]
    OBVIOUS
  <2> HIDE DEF g
  <2>2. ASSUME NEW i \in 0..N
        PROVE  g[i] = IF i = 0 THEN <<>>
                      ELSE g[i - 1] \o PrimaryKeyItem(list, key_[i])
    <3>1. CASE i = 0
      BY <1>2, <3>1
    <3>2. CASE i # 0
      <4>1. i \in 1..N
        BY <1>1, <3>2
      <4>2. g[i] = g[i - 1] \o PrimaryKeyItem(list, key_[i])
        BY <1>3, <4>1
      <4> QED
        BY <3>2, <4>2
    <3> QED
      BY <3>1, <3>2
  <2>3. g = [i \in 0..N |->
               IF i = 0 THEN <<>> ELSE g[i - 1] \o PrimaryKeyItem(list, key_[i])]
    BY <2>1, <2>2
  <2> QED
    BY <2>3 DEF items
<1> HIDE DEF g, items
<1>5. ASSUME NEW m \in Nat
      PROVE  m <= N => items[m] = g[m]
  <2> DEFINE T == {n \in Nat : n <= N => items[n] = g[n]}
  <2>1. 0 \in T
    BY <1>1, <1>2, <1>4
  <2>2. ASSUME NEW n \in Nat, n \in T PROVE n + 1 \in T
    <3>1. n + 1 <= N => items[n + 1] = items[n] \o PrimaryKeyItem(list, key_[n + 1])
      <4>1. ASSUME n + 1 <= N
            PROVE  items[n + 1] = items[n] \o PrimaryKeyItem(list, key_[n + 1])
        <5>1. n + 1 \in 0..N /\ (n + 1) - 1 = n /\ n + 1 # 0
          BY <1>1, <4>1
        <5>2. items[n + 1] = items[(n + 1) - 1] \o PrimaryKeyItem(list, key_[n + 1])
          BY <1>4, <5>1
        <5> QED
          BY <5>1, <5>2
      <4> QED
        BY <4>1
    <3>2. n + 1 <= N => g[n + 1] = g[n] \o PrimaryKeyItem(list, key_[n + 1])
      <4>1. ASSUME n + 1 <= N
            PROVE  g[n + 1] = g[n] \o PrimaryKeyItem(list, key_[n + 1])
        <5>1. n + 1 \in 1..N /\ (n + 1) - 1 = n
          BY <1>1, <4>1
        <5>2. g[n + 1] = g[(n + 1) - 1] \o PrimaryKeyItem(list, key_[n + 1])
          BY <1>3, <5>1
        <5> QED
          BY <5>1, <5>2
      <4> QED
        BY <4>1
    <3>3. n + 1 <= N => items[n] = g[n]
      BY <1>1, <2>2
    <3>4. n + 1 <= N => items[n + 1] = g[n + 1]
      BY <3>1, <3>2, <3>3
    <3> HIDE DEF N
    <3> QED
      BY <3>4
  <2> HIDE DEF T
  <2>3. m \in T
    BY <2>1, <2>2, NatSetInduction
  <2> QED
    BY <2>3 DEF T
<1>6. PrimaryKeyItems(list, key_) = items[N]
  BY DEF PrimaryKeyItems, items
<1> QED
  BY <1>1, <1>2, <1>5, <1>6

-----------------------------------------------------------------------------
(* Which columns the plugin finds, when the application and the            *)
(* administrator are careful.                                              *)

ColumnsAndKeys == {"columnsKept", "keysKept"} \subseteq KeyDiscipline

\* A column before all that were dropped is in list at its position.
Keeps(list, t) ==
  \A n \in DOMAIN Attributes[t] :
    (\A d \in catalog[t].dropped : n < d) =>
       n \in DOMAIN list /\ list[n] = Attributes[t][n]

InDatabase(t) ==
  [i \in DOMAIN catalog[t].key |-> Attributes[t][catalog[t].key[i]]]

KeyShape ==
  /\ DOMAIN object = {"primarykey", "noprimarykey", "fields", "ids"}
  /\ DOMAIN object.primarykey = Tables
  /\ DOMAIN dictionary = {"cache_dictonary", "fieldlisthash", "primarykeyhash"}
  /\ DOMAIN dictionary.fieldlisthash = Tables
  /\ DOMAIN dictionary.primarykeyhash = Tables
  /\ DOMAIN own = Tables
  /\ catalog \in [Tables -> [key : Keys, dropped : SUBSET Nat]]
  /\ \A t \in Tables : InOrder(catalog[t])

ListsKept ==
  \A t \in Tables :
    dictionary.fieldlisthash[t] # <<>> => Keeps(dictionary.fieldlisthash[t], t)

OwnFirst == \A t \in Tables : object.primarykey[t] = <<>> => own[t] = <<>>

DeclaredInv == KeyShape /\ ListsKept /\ OwnFirst /\ KeyAsDeclared

\* The list of the columns a table has now is such a list: as long as no
\* column before is dropped, a column keeps its position.
LEMMA AttributeKeeps ==
  ASSUME KeyAssumption, KeyShape, NEW t \in Tables
  PROVE  Keeps(Attribute(t), t)
<1> DEFINE a == Attributes[t]
           live == {n \in DOMAIN a : n \notin catalog[t].dropped}
           Below(n) == {m \in live : m < n}
<1>1. DOMAIN a = 1..Len(a) /\ Len(a) \in Nat
  BY DEF KeyAssumption
<1>2. IsFiniteSet(live) /\ live \subseteq 1..Len(a)
  <2>1. live \subseteq 1..Len(a)
    BY <1>1
  <2>2. IsFiniteSet(1..Len(a))
    BY <1>1, FS_Interval
  <2> HIDE DEF live
  <2> QED
    BY <2>1, <2>2, FS_Subset
<1>3. ASSUME NEW n \in 1..Len(a), 1..n \subseteq live
      PROVE  /\ Cardinality(Below(n)) = n - 1
             /\ n <= Cardinality(live)
             /\ \A m \in live : Cardinality(Below(m)) = n - 1 => m = n
  <2>1. \A k \in 1..n : Below(k) = 1..(k - 1) /\ Cardinality(1..(k - 1)) = k - 1
    <3>1. ASSUME NEW k \in 1..n
          PROVE  Below(k) = 1..(k - 1) /\ Cardinality(1..(k - 1)) = k - 1
      <4>1. Below(k) = 1..(k - 1)
        BY <1>2, <1>3
      <4>2. Cardinality(1..(k - 1)) = k - 1
        BY FS_Interval
      <4> QED
        BY <4>1, <4>2
    <3> QED
      BY <3>1
  <2>2. Cardinality(1..n) = n
    BY FS_Interval
  <2>3. n <= Cardinality(live)
    BY <1>2, <1>3, <2>2, FS_Subset
  <2>4. ASSUME NEW m \in live, m > n
        PROVE  Cardinality(Below(m)) >= n
    <3>1. 1..n \subseteq Below(m)
      BY <1>2, <1>3, <2>4
    <3>2. IsFiniteSet(Below(m))
      BY <1>2, FS_Subset
    <3>3. Cardinality(1..n) <= Cardinality(Below(m))
      BY <3>1, <3>2, FS_Subset
    <3> HIDE DEF Below
    <3> QED
      BY <2>2, <3>3
  <2>5. \A m \in live : m \in 1..n \/ m > n
    BY <1>2
  <2> HIDE DEF live, Below
  <2>6. \A m \in live : Cardinality(Below(m)) = n - 1 => m = n
    <3>1. ASSUME NEW m \in live, Cardinality(Below(m)) = n - 1
          PROVE  m = n
      <4>1. CASE m \in 1..n
        BY <2>1, <3>1, <4>1
      <4>2. CASE m > n
        <5>1. Cardinality(Below(m)) >= n
          BY <2>4, <4>2
        <5> QED
          BY <3>1, <5>1
      <4> QED
        BY <2>5, <4>1, <4>2
    <3> QED
      BY <3>1
  <2> QED
    BY <2>1, <2>3, <2>6
<1>4. Attribute(t) = [i \in 1..Cardinality(live) |->
                        a[CHOOSE n \in live : Cardinality(Below(n)) = i - 1]]
  BY DEF Attribute
<1>5. ASSUME NEW n \in DOMAIN a, \A d \in catalog[t].dropped : n < d
      PROVE  n \in DOMAIN Attribute(t) /\ Attribute(t)[n] = a[n]
  <2>1. n \in 1..Len(a) /\ 1..n \subseteq live
    <3>1. catalog[t].dropped \subseteq Nat
      BY DEF KeyShape
    <3> QED
      BY <1>1, <1>5, <3>1
  <2>2. n \in live
    BY <2>1
  <2> HIDE DEF live, Below
  <2>3. (CHOOSE m \in live : Cardinality(Below(m)) = n - 1) = n
    BY <1>3, <2>1, <2>2
  <2>4. Cardinality(live) \in Nat
    BY <1>2, FS_CardinalityType
  <2>5. n \in 1..Cardinality(live)
    BY <1>3, <2>1, <2>4
  <2> QED
    BY <1>4, <2>3, <2>5
<1> QED
  BY <1>5 DEF Keeps

\* A key is made of columns that have kept their position.
LEMMA ItemsDeclared ==
  ASSUME KeyAssumption, KeyShape, NEW t \in Tables, NEW list, Keeps(list, t)
  PROVE  PrimaryKeyItems(list, catalog[t].key) = InDatabase(t)
<1> DEFINE k == catalog[t].key
<1>1. k \in Seq(Nat) /\ ToSet(k) \subseteq DOMAIN Attributes[t] /\ InOrder(catalog[t])
  BY DEF KeyAssumption, KeyShape
<1>2. ASSUME NEW i \in DOMAIN k
      PROVE  k[i] \in DOMAIN list /\ list[k[i]] = Attributes[t][k[i]]
  <2>1. k[i] \in DOMAIN Attributes[t] /\ \A d \in catalog[t].dropped : k[i] < d
    BY <1>1 DEF ToSet, InOrder
  <2> QED
    BY <2>1 DEF Keeps
<1>3. ToSet(k) \subseteq DOMAIN list
  BY <1>2 DEF ToSet
<1>4. PrimaryKeyItems(list, k) = [i \in DOMAIN k |-> list[k[i]]]
  BY <1>1, <1>3, PrimaryKeyItemsAre
<1> QED
  BY <1>2, <1>4 DEF InDatabase

\* What the plugin answers, and what it keeps.
LEMMA FieldListKeeps ==
  ASSUME KeyAssumption, DeclaredInv, NEW t \in Tables, NEW broken \in BOOLEAN,
         ~broken \/ FieldList(t, broken).status = 0
  PROVE  Keeps(FieldList(t, broken).list, t)
<1>1. Keeps(Attribute(t), t)
  BY AttributeKeeps DEF DeclaredInv
<1> QED
  BY <1>1 DEF FieldList, DeclaredInv, ListsKept

LEMMA PrimaryKeyListDeclared ==
  ASSUME KeyAssumption, DeclaredInv, NEW t \in Tables, NEW broken \in BOOLEAN,
         PrimaryKeyList(t, broken) # <<>>
  PROVE  PrimaryKeyList(t, broken) = InDatabase(t)
<1>1. CASE KeptKey(t) # <<>>
  BY <1>1 DEF PrimaryKeyList, KeptKey, DeclaredInv, KeyAsDeclared, InDatabase
<1>2. CASE KeptKey(t) = <<>>
  <2>1. ~broken /\ PrimaryKeyList(t, broken)
                     = PrimaryKeyItems(FieldList(t, broken).list, catalog[t].key)
    BY <1>2 DEF PrimaryKeyList
  <2>2. Keeps(FieldList(t, broken).list, t)
    BY <2>1, FieldListKeeps
  <2> QED
    BY <2>1, <2>2, ItemsDeclared DEF DeclaredInv
<1> QED
  BY <1>1, <1>2

\* What the plugin keeps of the columns of a table.
FieldsKept(d) ==
  /\ DOMAIN d = {"cache_dictonary", "fieldlisthash", "primarykeyhash"}
  /\ d.cache_dictonary = dictionary.cache_dictonary
  /\ DOMAIN d.fieldlisthash = Tables
  /\ DOMAIN d.primarykeyhash = Tables
  /\ \A u \in Tables : d.fieldlisthash[u] # <<>> => Keeps(d.fieldlisthash[u], u)

LEMMA KeepFieldsKept ==
  ASSUME KeyAssumption, DeclaredInv, NEW t \in Tables, NEW broken \in BOOLEAN
  PROVE  LET d == KeepFields(dictionary, t, broken) IN
         FieldsKept(d) /\ d.primarykeyhash = dictionary.primarykeyhash
<1> DEFINE f == FieldList(t, broken)
<1>1. CASE ~dictionary.cache_dictonary
  BY <1>1 DEF KeepFields, FieldsKept, DeclaredInv, KeyShape, ListsKept
<1>2. CASE dictionary.cache_dictonary
  <2>1. KeepFields(dictionary, t, broken)
          = [dictionary EXCEPT !.fieldlisthash = [@ EXCEPT ![t] = f.list]]
    BY <1>2 DEF KeepFields
  <2>2. f.list # <<>> => Keeps(f.list, t)
    <3>1. broken /\ f.status # 0 => f.list = <<>>
      BY <1>2 DEF FieldList
    <3> QED
      BY <3>1, FieldListKeeps
  <2> HIDE DEF f
  <2> QED
    BY <2>1, <2>2 DEF FieldsKept, DeclaredInv, KeyShape, ListsKept
<1> QED
  BY <1>1, <1>2

LEMMA KeepKeyKept ==
  ASSUME KeyAssumption, DeclaredInv, NEW t \in Tables, NEW broken \in BOOLEAN
  PROVE  LET d == KeepKey(t, broken) IN
         /\ FieldsKept(d)
         /\ \A u \in Tables : d.primarykeyhash[u] # <<>> =>
                               d.primarykeyhash[u] = InDatabase(u)
<1> DEFINE g == KeepFields(dictionary, t, broken)
           list == PrimaryKeyList(t, broken)
<1>1. /\ FieldsKept(g) /\ g.primarykeyhash = dictionary.primarykeyhash
      /\ \A u \in Tables : g.primarykeyhash[u] # <<>> =>
                            g.primarykeyhash[u] = InDatabase(u)
  BY KeepFieldsKept DEF DeclaredInv, KeyAsDeclared, InDatabase
<1>2. list # <<>> => list = InDatabase(t)
  BY PrimaryKeyListDeclared
<1>3. CASE KeepKey(t, broken) = dictionary
  BY <1>3 DEF FieldsKept, DeclaredInv, KeyShape, ListsKept, KeyAsDeclared,
              InDatabase
<1>4. CASE KeepKey(t, broken)
             = [g EXCEPT !.primarykeyhash = [@ EXCEPT ![t] = list]]
  <2> HIDE DEF g, list
  <2> QED
    BY <1>1, <1>2, <1>4 DEF FieldsKept
<1>5. \/ KeepKey(t, broken) = dictionary
      \/ KeepKey(t, broken) = [g EXCEPT !.primarykeyhash = [@ EXCEPT ![t] = list]]
  BY DEF KeepKey
<1> QED
  BY <1>3, <1>4, <1>5

\* What the object knows of keys.
ObjectKeeps(o) ==
  /\ DOMAIN o = {"primarykey", "noprimarykey", "fields", "ids"}
  /\ DOMAIN o.primarykey = Tables
  /\ o.noprimarykey = object.noprimarykey /\ o.fields = object.fields
  /\ \A u \in Tables :
       /\ o.primarykey[u] # <<>> => o.primarykey[u] = Declared(u)
       /\ o.primarykey[u] = <<>> => own[u] = <<>>

LEMMA GuessedDeclared ==
  ASSUME KeyAssumption, DeclaredInv, NEW t \in Tables, NEW broken \in BOOLEAN
  PROVE  ObjectKeeps(Guessed(t, broken))
<1> DEFINE list == PrimaryKeyList(t, broken)
<1>1. ObjectKeeps(object)
  BY DEF ObjectKeeps, DeclaredInv, KeyShape, KeyAsDeclared, OwnFirst
<1>2. CASE Guesses(t) /\ list # <<>>
  <2>1. own[t] = <<>> /\ list = InDatabase(t)
    BY <1>2, PrimaryKeyListDeclared DEF Guesses, DeclaredInv, OwnFirst
  <2>2. list = Declared(t)
    BY <2>1 DEF Declared, InDatabase
  <2>3. Guessed(t, broken)
          = [object EXCEPT !.primarykey[t] = list,
                           !.ids[t] = IF @ = "none" THEN @ ELSE "freed"]
    BY <1>2 DEF Guessed, PrimaryKeyAdd
  <2> HIDE DEF list
  <2> QED
    BY <1>1, <1>2, <2>2, <2>3 DEF ObjectKeeps
<1>3. CASE ~(Guesses(t) /\ list # <<>>)
  BY <1>1, <1>3 DEF Guessed, PrimaryKeyAdd
<1> QED
  BY <1>2, <1>3

-----------------------------------------------------------------------------
LEMMA DeclaredInit ==
  ASSUME KeyAssumption, KeysInit
  PROVE  DeclaredInv
<1>1. KeyShape /\ OwnFirst /\ KeyAsDeclared
  BY DEF KeysInit, NewObjectKeys, Unknown, KeyShape, OwnFirst, KeyAsDeclared,
         InOrder
<1>2. ListsKept
  BY DEF KeysInit, Unknown, ListsKept
<1> QED
  BY <1>1, <1>2 DEF DeclaredInv

\* Nothing is declared or dropped: the lists and keys are what they should
\* be if what the plugin and the object have of them is.
LEMMA DeclaredKept ==
  ASSUME DeclaredInv, catalog' = catalog,
         FieldsKept(dictionary'),
         \A t \in Tables : dictionary'.primarykeyhash[t] # <<>> =>
                           dictionary'.primarykeyhash[t] = InDatabase(t),
         DOMAIN object' = {"primarykey", "noprimarykey", "fields", "ids"},
         DOMAIN object'.primarykey = Tables, DOMAIN own' = Tables,
         \A t \in Tables :
           /\ object'.primarykey[t] # <<>> =>
                object'.primarykey[t] = (IF own'[t] # <<>> THEN own'[t]
                                         ELSE InDatabase(t))
           /\ object'.primarykey[t] = <<>> => own'[t] = <<>>
  PROVE  DeclaredInv'
<1>1. KeyShape'
  BY DEF DeclaredInv, KeyShape, InOrder, FieldsKept
<1>3. OwnFirst' /\ KeyAsDeclared'
  <2>1. \A t \in Tables : Declared(t)' = (IF own'[t] # <<>> THEN own'[t]
                                         ELSE InDatabase(t))
    BY DEF Declared, InDatabase
  <2>2. \A t \in Tables : InDatabase(t)' = InDatabase(t)
    BY DEF InDatabase
  <2> QED
    BY <2>1, <2>2 DEF OwnFirst, KeyAsDeclared, InDatabase
<1>2. ListsKept'
  BY DEF FieldsKept, ListsKept, Keeps
<1> QED
  BY <1>1, <1>2, <1>3 DEF DeclaredInv

LEMMA DeclaredDictionary ==
  ASSUME DeclaredInv
  PROVE  /\ FieldsKept(dictionary)
         /\ \A t \in Tables : dictionary.primarykeyhash[t] # <<>> =>
                              dictionary.primarykeyhash[t] = InDatabase(t)
  BY DEF DeclaredInv, KeyShape, ListsKept, KeyAsDeclared, InDatabase, FieldsKept

LEMMA IdGetDeclared ==
  ASSUME KeyAssumption, DeclaredInv, NEW t \in Tables,
         NEW empty \in BOOLEAN, NEW broken \in BOOLEAN,
         IdGet(t, empty, broken)
  PROVE  DeclaredInv'
<1> DEFINE o == Guessed(t, broken)
           d == KeepKey(t, broken)
<1>1. /\ ObjectKeeps(o) /\ ObjectKeeps(object)
      /\ FieldsKept(d) /\ FieldsKept(dictionary)
      /\ \A u \in Tables :
           /\ d.primarykeyhash[u] # <<>> => d.primarykeyhash[u] = InDatabase(u)
           /\ dictionary.primarykeyhash[u] # <<>> =>
                dictionary.primarykeyhash[u] = InDatabase(u)
  <2>1. ObjectKeeps(o)
    BY GuessedDeclared
  <2>2. ObjectKeeps(object)
    BY DEF ObjectKeeps, DeclaredInv, KeyShape, KeyAsDeclared, OwnFirst
  <2>3. /\ FieldsKept(d)
        /\ \A u \in Tables : d.primarykeyhash[u] # <<>> =>
                             d.primarykeyhash[u] = InDatabase(u)
    BY KeepKeyKept
  <2> HIDE DEF o, d
  <2> QED
    BY <2>1, <2>2, <2>3, DeclaredDictionary
<1>2. /\ catalog' = catalog /\ own' = own /\ dictionary' \in {dictionary, d}
      /\ DOMAIN object' = {"primarykey", "noprimarykey", "fields", "ids"}
      /\ object'.primarykey \in {object.primarykey, o.primarykey}
  <2> HIDE DEF o, d
  <2> QED
    BY <1>1 DEF IdGet, o, d, ObjectKeeps
<1>3. DOMAIN own = Tables
  BY DEF DeclaredInv, KeyShape
<1> HIDE DEF o, d
<1> QED
  BY <1>1, <1>2, <1>3, DeclaredKept DEF ObjectKeeps, Declared, InDatabase

LEMMA DeclaredNext ==
  ASSUME KeyAssumption, ColumnsAndKeys, DeclaredInv, [KeysNext]_keyVars
  PROVE  DeclaredInv'
<1>1. CASE \E t \in Tables, empty, broken \in BOOLEAN : IdGet(t, empty, broken)
  BY <1>1, IdGetDeclared
<1>2. ASSUME NEW t \in Tables, NEW list \in OwnKeys, SetPrimaryKey(t, list)
      PROVE  DeclaredInv'
  <2>1. CASE list = <<>>
    BY <1>2, <2>1, DeclaredDictionary, DeclaredKept
       DEF SetPrimaryKey, PrimaryKeyAdd, DeclaredInv, KeyShape, KeyAsDeclared,
           OwnFirst, Declared, InDatabase
  <2>2. CASE list # <<>>
    <3>1. /\ catalog' = catalog /\ dictionary' = dictionary
          /\ own' = [own EXCEPT ![t] = list]
          /\ object' = [object EXCEPT !.primarykey[t] = list,
                             !.ids[t] = IF @ = "none" THEN @ ELSE "freed"]
      BY <1>2, <2>2 DEF SetPrimaryKey, PrimaryKeyAdd
    <3>2. /\ DOMAIN object' = {"primarykey", "noprimarykey", "fields", "ids"}
          /\ object'.primarykey = [object.primarykey EXCEPT ![t] = list]
          /\ DOMAIN object'.primarykey = Tables /\ DOMAIN own' = Tables
      BY <3>1 DEF DeclaredInv, KeyShape
    <3> QED
      BY <2>2, <3>1, <3>2, DeclaredDictionary, DeclaredKept
         DEF DeclaredInv, KeyShape, KeyAsDeclared, OwnFirst, Declared, InDatabase
  <2> QED
    BY <2>1, <2>2
<1>3. ASSUME NEW fields \in Queries, Requery(fields)
      PROVE  DeclaredInv'
  <2>1. /\ catalog' = catalog /\ dictionary' = dictionary /\ own' = own
        /\ DOMAIN object' = {"primarykey", "noprimarykey", "fields", "ids"}
        /\ object'.primarykey = object.primarykey
    BY <1>3 DEF Requery, DeclaredInv, KeyShape
  <2> QED
    BY <2>1, DeclaredDictionary, DeclaredKept
       DEF DeclaredInv, KeyShape, KeyAsDeclared, OwnFirst, Declared, InDatabase
<1>4. ASSUME NEW t \in Tables, NEW broken \in BOOLEAN, NewBaseTable(t, broken)
      PROVE  DeclaredInv'
  <2>1. PICK fields : object' = NewObjectKeys(fields)
    BY <1>4 DEF NewBaseTable
  <2>2. /\ FieldsKept(dictionary')
        /\ dictionary'.primarykeyhash = dictionary.primarykeyhash
    BY <1>4, KeepFieldsKept DEF NewBaseTable
  <2>3. /\ catalog' = catalog /\ DOMAIN own' = Tables
        /\ \A u \in Tables : own'[u] = <<>>
        /\ DOMAIN object' = {"primarykey", "noprimarykey", "fields", "ids"}
        /\ DOMAIN object'.primarykey = Tables
        /\ \A u \in Tables : object'.primarykey[u] = <<>>
    BY <1>4, <2>1 DEF NewBaseTable, NewObjectKeys, Unknown
  <2> QED
    BY <2>2, <2>3, DeclaredDictionary, DeclaredKept
<1>5. ASSUME NEW state \in BOOLEAN, SetDictionary(state)
      PROVE  DeclaredInv'
  <2>1. /\ catalog' = catalog /\ object' = object /\ own' = own
        /\ DOMAIN dictionary' = {"cache_dictonary", "fieldlisthash", "primarykeyhash"}
        /\ dictionary'.fieldlisthash = dictionary.fieldlisthash
        /\ dictionary'.primarykeyhash = dictionary.primarykeyhash
    BY <1>5 DEF SetDictionary, DeclaredInv, KeyShape
  <2> QED
    BY <2>1 DEF DeclaredInv, KeyShape, InOrder, ListsKept, Keeps, OwnFirst,
                KeyAsDeclared, Declared
<1>6. ASSUME NEW t \in Tables, NEW c, Altered(t, c), c.key \in Keys,
             DOMAIN c = {"key", "dropped"}, c.dropped \subseteq Nat,
             c = [key |-> c.key, dropped |-> c.dropped],
             catalog[t].dropped \subseteq c.dropped,
             c.key = catalog[t].key \/ /\ object.primarykey[t] = <<>>
                                       /\ dictionary.primarykeyhash[t] = <<>>
      PROVE  DeclaredInv'
  <2>1. /\ object' = object /\ dictionary' = dictionary /\ own' = own
        /\ catalog' = [catalog EXCEPT ![t] = c] /\ InOrder(c)
    BY <1>6 DEF Altered, Observes, ColumnsAndKeys
  <2>2. /\ catalog' \in [Tables -> [key : Keys, dropped : SUBSET Nat]]
        /\ \A u \in Tables : InOrder(catalog'[u])
        /\ \A u \in Tables : catalog[u].dropped \subseteq catalog'[u].dropped
        /\ \A u \in Tables : \/ catalog'[u].key = catalog[u].key
                              \/ /\ object.primarykey[u] = <<>>
                                 /\ dictionary.primarykeyhash[u] = <<>>
    BY <1>6, <2>1 DEF DeclaredInv, KeyShape
  <2>3. KeyShape' /\ OwnFirst'
    BY <2>1, <2>2 DEF DeclaredInv, KeyShape, OwnFirst, InOrder
  <2>4. ListsKept'
    BY <2>1, <2>2 DEF DeclaredInv, ListsKept, Keeps
  <2>5. KeyAsDeclared'
    BY <2>1, <2>2 DEF DeclaredInv, KeyAsDeclared, Declared
  <2> QED
    BY <2>3, <2>4, <2>5 DEF DeclaredInv
<1>7. ASSUME NEW t \in Tables, NEW n \in Int, DropColumn(t, n)
      PROVE  DeclaredInv'
  <2> DEFINE c == [catalog[t] EXCEPT !.dropped = @ \cup {n}]
  <2>1. catalog[t] \in [key : Keys, dropped : SUBSET Nat] /\ n \in Nat
    BY <1>7 DEF DropColumn, DeclaredInv, KeyShape, KeyAssumption
  <2>2. c = [key |-> catalog[t].key, dropped |-> catalog[t].dropped \cup {n}]
    <3> DEFINE e == catalog[t]
    <3>1. e \in [key : Keys, dropped : SUBSET Nat] /\ c = [e EXCEPT !.dropped = @ \cup {n}]
      BY <2>1
    <3> HIDE DEF e, c
    <3>2. c = [key |-> e.key, dropped |-> e.dropped \cup {n}]
      BY <3>1
    <3> QED
      BY <3>2 DEF e
  <2>3. Altered(t, c)
    BY <1>7 DEF DropColumn
  <2> HIDE DEF c
  <2> QED
    BY <1>6, <2>1, <2>2, <2>3
<1>8. ASSUME NEW t \in Tables, NEW k \in Keys, AlterKey(t, k)
      PROVE  DeclaredInv'
  <2> DEFINE c == [catalog[t] EXCEPT !.key = k]
  <2>1. catalog[t] \in [key : Keys, dropped : SUBSET Nat]
    BY DEF DeclaredInv, KeyShape
  <2>2. c = [key |-> k, dropped |-> catalog[t].dropped]
    BY <2>1
  <2>3. /\ Altered(t, c) /\ dictionary.primarykeyhash[t] = <<>>
        /\ object.primarykey[t] = <<>>
    BY <1>8 DEF AlterKey, Observes, ColumnsAndKeys
  <2> HIDE DEF c
  <2> QED
    BY <1>6, <2>1, <2>2, <2>3
<1>9. CASE UNCHANGED keyVars
  BY <1>9 DEF keyVars, DeclaredInv, KeyShape, InOrder, ListsKept, Keeps,
              OwnFirst, KeyAsDeclared, Declared
<1> DEFINE last == Max({Len(Attributes[u]) : u \in Tables})
<1>10. ASSUME NEW t \in Tables, NEW n \in 1..last, DropColumn(t, n)
       PROVE  DeclaredInv'
  <2> HIDE DEF last
  <2>1. n \in Int
    OBVIOUS
  <2> QED
    BY <1>7, <1>10, <2>1
<1> QED
  BY <1>1, <1>2, <1>3, <1>4, <1>5, <1>8, <1>9, <1>10 DEF KeysNext

\* An object's key for a table, guessed or set, and the plugin's, are those
\* of the database, however often and however late either asked, as long as
\* no column before those of a key is dropped, and no key is changed that
\* was asked for.
THEOREM KeysAsDeclared ==
  ASSUME ColumnsAndKeys
  PROVE  KeysSpec => []KeyAsDeclared
<1>1. KeysInit => DeclaredInv
  BY DeclaredInit, KeyAssumption
<1>2. DeclaredInv /\ [KeysNext]_keyVars => DeclaredInv'
  BY DeclaredNext, KeyAssumption
<1>3. DeclaredInv => KeyAsDeclared
  BY DEF DeclaredInv
<1> QED BY <1>1, <1>2, <1>3, PTL DEF KeysSpec

-----------------------------------------------------------------------------
(* The id of a row, when moreover the plugin keeps its lists, the catalog  *)
(* can be read, and rows are asked for that have a key the query selects.  *)

IdsOfKeys ==
  {"dictionary", "columnsKept", "keysKept", "connected", "keyedRows",
   "keysQueried"} \subseteq KeyDiscipline

FiniteLists ==
  /\ IsFiniteSet(DOMAIN object.fields)
  /\ \A i \in DOMAIN object.fields :
       object.fields[i] = <<object.fields[i][1], object.fields[i][2]>>
  /\ \A t \in Tables : IsFiniteSet(DOMAIN dictionary.fieldlisthash[t])

IdsInv ==
  /\ DeclaredInv /\ FiniteLists
  /\ dictionary.cache_dictonary /\ ~object.noprimarykey

\* bonddb_field_get finds a key column among columns of the same name, if
\* the query selects it.
LEMMA FieldGetOwn ==
  ASSUME NEW fields, IsFiniteSet(DOMAIN fields), NEW t, NEW c,
         <<t, c>> \in ToSet(fields),
         \A i \in DOMAIN fields : fields[i] = <<fields[i][1], fields[i][2]>>
  PROVE  FieldGet(fields, t, c) = {<<t, c>>}
<1> DEFINE named == {i \in DOMAIN fields : fields[i][2] = c}
<1>1. PICK j \in DOMAIN fields : fields[j] = <<t, c>>
  BY DEF ToSet
<1>2. j \in named /\ IsFiniteSet(named)
  BY <1>1, FS_Subset
<1>3. ASSUME NEW i \in named, Cardinality(named) = 1 \/ fields[i][1] = t
      PROVE  fields[i] = <<t, c>>
  <2>1. CASE Cardinality(named) = 1
    <3>1. PICK x : named = {x}
      BY <1>2, <2>1, FS_Singleton
    <3>2. i = j
      BY <1>2, <1>3, <3>1
    <3> QED
      BY <1>1, <3>2
  <2>2. CASE fields[i][1] = t
    BY <1>3, <2>2
  <2> QED
    BY <1>3, <2>1, <2>2
<1>4. FieldGet(fields, t, c)
        = {fields[i] : i \in {k \in named : Cardinality(named) = 1 \/ fields[k][1] = t}}
  BY DEF FieldGet
<1>5. fields[j][1] = t
  BY <1>1
<1> HIDE DEF named
<1> QED
  BY <1>1, <1>2, <1>3, <1>4, <1>5

\* An object that has no key for a table is told the one of the database.
LEMMA GuessedFound ==
  ASSUME KeyAssumption, IdsInv, NEW t \in Tables,
         own[t] # <<>> \/ catalog[t].key # <<>>
  PROVE  Guessed(t, FALSE).primarykey[t] # <<>>
<1> DEFINE list == PrimaryKeyList(t, FALSE)
<1>1. CASE ~Guesses(t)
  BY <1>1 DEF Guesses, Guessed
<1>2. CASE Guesses(t)
  <2>1. catalog[t].key # <<>>
    BY <1>2 DEF Guesses, IdsInv, DeclaredInv, OwnFirst
  <2>2. InDatabase(t) # <<>>
    <3>1. catalog[t].key \in Seq(Nat)
      BY DEF IdsInv, DeclaredInv, KeyShape, KeyAssumption
    <3>2. 1 \in DOMAIN catalog[t].key
      BY <2>1, <3>1
    <3>3. DOMAIN InDatabase(t) # {}
      BY <3>2 DEF InDatabase
    <3> QED
      BY <3>3
  <2>3. list # <<>>
    <3>1. CASE KeptKey(t) # <<>>
      BY <3>1 DEF PrimaryKeyList
    <3>2. CASE KeptKey(t) = <<>>
      <4>1. FieldList(t, FALSE).status = 0
        BY DEF FieldList, IdsInv
      <4>2. Keeps(FieldList(t, FALSE).list, t)
        BY <4>1, FieldListKeeps DEF IdsInv
      <4>3. list = PrimaryKeyItems(FieldList(t, FALSE).list, catalog[t].key)
        BY <3>2, <4>1 DEF PrimaryKeyList
      <4> QED
        BY <2>2, <4>2, <4>3, ItemsDeclared DEF IdsInv, DeclaredInv
    <3> QED
      BY <3>1, <3>2
  <2>4. Guessed(t, FALSE) = [object EXCEPT !.primarykey[t] = list,
                               !.ids[t] = IF @ = "none" THEN @ ELSE "freed"]
    BY <1>2, <2>3 DEF Guessed, PrimaryKeyAdd
  <2> HIDE DEF list
  <2>5. "primarykey" \in DOMAIN object /\ t \in DOMAIN object.primarykey
    BY DEF IdsInv, DeclaredInv, KeyShape
  <2>6. Guessed(t, FALSE).primarykey = [object.primarykey EXCEPT ![t] = list]
    BY <2>4, <2>5
  <2> QED
    BY <2>3, <2>5, <2>6
<1> QED
  BY <1>1, <1>2

LEMMA IdGetMakes ==
  ASSUME KeyAssumption, IdsOfKeys, IdsInv, NEW t \in Tables,
         NEW empty \in BOOLEAN, NEW broken \in BOOLEAN,
         IdGet(t, empty, broken)
  PROVE  /\ id' = [i \in DOMAIN Declared(t) |-> <<t, Declared(t)[i]>>]
         /\ ~object'.noprimarykey /\ object'.fields = object.fields
         /\ dictionary' \in {dictionary, KeepKey(t, broken)}
<1> DEFINE o == Guessed(t, broken)
           list == o.primarykey[t]
<1>1. broken = FALSE /\ empty = FALSE /\ (own[t] # <<>> \/ catalog[t].key # <<>>)
  BY DEF IdGet, Observes, IdsOfKeys
<1>2. list # <<>>
  BY <1>1, GuessedFound
<1>3. ObjectKeeps(o)
  BY GuessedDeclared DEF IdsInv
<1>4. list = Declared(t) /\ o.fields = object.fields /\ ~o.noprimarykey
  BY <1>2, <1>3 DEF ObjectKeeps, IdsInv
<1>5. \A i \in DOMAIN list : ReadFrom(o, t)[i] = {<<t, list[i]>>}
  <2>1. ASSUME NEW i \in DOMAIN list
        PROVE  FieldGet(o.fields, t, list[i]) = {<<t, list[i]>>}
    <3>1. <<t, list[i]>> \in ToSet(o.fields)
      BY DEF IdGet, Observes, IdsOfKeys
    <3>2. /\ IsFiniteSet(DOMAIN o.fields)
          /\ \A j \in DOMAIN o.fields : o.fields[j] = <<o.fields[j][1], o.fields[j][2]>>
      BY <1>4 DEF IdsInv, FiniteLists
    <3> HIDE DEF o, list
    <3> QED
      BY <3>1, <3>2, FieldGetOwn
  <2>2. ReadFrom(o, t) = [i \in DOMAIN list |-> FieldGet(o.fields, t, list[i])]
    BY DEF ReadFrom
  <2> HIDE DEF o, list
  <2> QED
    BY <2>1, <2>2
<1>6. DOMAIN ReadFrom(o, t) = DOMAIN list
  BY DEF ReadFrom
<1>7. Extracts(o, t)
  <2> HIDE DEF o, list
  <2> QED
    BY <1>5, <1>6 DEF Extracts
<1>8. /\ object' = [o EXCEPT !.ids[t] = IF @ = "freed" THEN @ ELSE "list"]
      /\ id' = [i \in DOMAIN list |-> CHOOSE c \in ReadFrom(o, t)[i] : TRUE]
      /\ dictionary' \in {dictionary, KeepKey(t, broken)}
  BY <1>1, <1>2, <1>7 DEF IdGet, IdsInv
<1> HIDE DEF o, list
<1>9. id' = [i \in DOMAIN list |-> <<t, list[i]>>]
  BY <1>5, <1>8
<1> QED
  BY <1>3, <1>4, <1>8, <1>9 DEF ObjectKeeps

LEMMA FiniteFields ==
  ASSUME KeyAssumption, IdsInv, NEW t \in Tables, NEW broken \in BOOLEAN
  PROVE  /\ IsFiniteSet(DOMAIN FieldList(t, broken).list)
         /\ \A u \in Tables :
              IsFiniteSet(DOMAIN KeepFields(dictionary, t, broken).fieldlisthash[u])
<1> DEFINE f == FieldList(t, broken)
<1>1. IsFiniteSet(DOMAIN Attribute(t))
  <2> DEFINE live == {n \in DOMAIN Attributes[t] : n \notin catalog[t].dropped}
  <2>1. DOMAIN Attribute(t) = 1..Cardinality(live)
    BY DEF Attribute
  <2>2. DOMAIN Attributes[t] = 1..Len(Attributes[t]) /\ Len(Attributes[t]) \in Nat
    BY DEF KeyAssumption
  <2>3. IsFiniteSet(DOMAIN Attributes[t])
    BY <2>2, FS_Interval
  <2>4. IsFiniteSet(live)
    BY <2>3, FS_Subset
  <2> HIDE DEF live
  <2>5. Cardinality(live) \in Nat
    BY <2>4, FS_CardinalityType
  <2> QED
    BY <2>1, <2>5, FS_Interval
<1>2. IsFiniteSet(DOMAIN <<>>)
  BY FS_EmptySet
<1>3. IsFiniteSet(DOMAIN f.list)
  <2>1. \/ f.list = Attribute(t) \/ f.list = <<>>
        \/ f.list = dictionary.fieldlisthash[t]
    BY DEF FieldList
  <2> HIDE DEF f
  <2> QED
    BY <1>1, <1>2, <2>1 DEF IdsInv, FiniteLists
<1>4. KeepFields(dictionary, t, broken)
        = [dictionary EXCEPT !.fieldlisthash = [@ EXCEPT ![t] = f.list]]
  BY DEF KeepFields, IdsInv
<1> HIDE DEF f
<1>5. \A u \in Tables :
        IsFiniteSet(DOMAIN KeepFields(dictionary, t, broken).fieldlisthash[u])
  BY <1>3, <1>4 DEF IdsInv, FiniteLists, DeclaredInv, KeyShape
<1> QED
  BY <1>3, <1>5 DEF f

LEMMA IdsNext ==
  ASSUME KeyAssumption, IdsOfKeys, IdsInv, [KeysNext]_keyVars
  PROVE  IdsInv'
<1>1. DeclaredInv'
  BY DeclaredNext DEF IdsInv, IdsOfKeys, ColumnsAndKeys
<1>2. SUFFICES (FiniteLists /\ dictionary.cache_dictonary /\ ~object.noprimarykey)'
  BY <1>1 DEF IdsInv
<1>3. ASSUME NEW t \in Tables, NEW empty \in BOOLEAN, NEW broken \in BOOLEAN,
             IdGet(t, empty, broken)
      PROVE  (FiniteLists /\ dictionary.cache_dictonary /\ ~object.noprimarykey)'
  <2>1. /\ ~object'.noprimarykey /\ object'.fields = object.fields
        /\ dictionary' \in {dictionary, KeepKey(t, broken)}
    BY <1>3, IdGetMakes
  <2> DEFINE g == KeepFields(dictionary, t, broken)
             k == KeepKey(t, broken)
  <2>2. /\ FieldsKept(g)
        /\ \A u \in Tables : IsFiniteSet(DOMAIN g.fieldlisthash[u])
    BY FiniteFields, KeepFieldsKept DEF IdsInv
  <2>3. \/ k = dictionary
        \/ k = [g EXCEPT !.primarykeyhash[t] = PrimaryKeyList(t, broken)]
    BY DEF KeepKey
  <2>4. \/ dictionary' = dictionary
        \/ dictionary'.fieldlisthash = g.fieldlisthash
           /\ dictionary'.cache_dictonary = dictionary.cache_dictonary
    <3> HIDE DEF g
    <3> QED
      BY <2>1, <2>2, <2>3 DEF FieldsKept
  <2> HIDE DEF g, k
  <2> QED
    BY <2>1, <2>2, <2>4 DEF FiniteLists, IdsInv
<1>4. ASSUME NEW t \in Tables, NEW list \in OwnKeys, SetPrimaryKey(t, list)
      PROVE  (FiniteLists /\ dictionary.cache_dictonary /\ ~object.noprimarykey)'
  <2>1. /\ dictionary' = dictionary /\ object'.fields = object.fields
        /\ object'.noprimarykey = object.noprimarykey
    BY <1>4 DEF SetPrimaryKey, PrimaryKeyAdd, IdsInv, DeclaredInv, KeyShape
  <2> QED
    BY <2>1 DEF FiniteLists, IdsInv
<1>5. ASSUME NEW fields \in Queries, Requery(fields)
      PROVE  (FiniteLists /\ dictionary.cache_dictonary /\ ~object.noprimarykey)'
  <2>1. /\ dictionary' = dictionary /\ object'.fields = fields
        /\ object'.noprimarykey = FALSE
    BY <1>5 DEF Requery, IdsInv, DeclaredInv, KeyShape
  <2>2. fields \in Seq(Tables \X STRING)
    BY DEF KeyAssumption
  <2>3. /\ DOMAIN fields = 1..Len(fields) /\ Len(fields) \in Nat
        /\ \A i \in DOMAIN fields : fields[i] = <<fields[i][1], fields[i][2]>>
    BY <2>2
  <2>4. IsFiniteSet(DOMAIN fields)
    <3>1. 1 \in Int /\ Len(fields) \in Int
      BY <2>3
    <3>2. IsFiniteSet(1..Len(fields))
      BY <3>1, FS_Interval
    <3> QED
      BY <2>3, <3>2
  <2> QED
    BY <2>1, <2>3, <2>4 DEF FiniteLists, IdsInv
<1>6. ASSUME NEW t \in Tables, NEW broken \in BOOLEAN, NewBaseTable(t, broken)
      PROVE  (FiniteLists /\ dictionary.cache_dictonary /\ ~object.noprimarykey)'
  <2> DEFINE list == FieldList(t, broken).list
             fields == [i \in DOMAIN list |-> <<t, list[i]>>]
  <2>1. object' = NewObjectKeys(fields)
        /\ dictionary' = KeepFields(dictionary, t, broken)
    BY <1>6 DEF NewBaseTable
  <2>2. IsFiniteSet(DOMAIN fields)
    BY FiniteFields
  <2>3. \A i \in DOMAIN fields : fields[i] = <<fields[i][1], fields[i][2]>>
    OBVIOUS
  <2> HIDE DEF fields, list
  <2>4. object'.fields = fields /\ object'.noprimarykey = FALSE
    BY <2>1 DEF NewObjectKeys
  <2>5. /\ dictionary'.cache_dictonary = dictionary.cache_dictonary
        /\ \A u \in Tables : IsFiniteSet(DOMAIN dictionary'.fieldlisthash[u])
    BY <2>1, KeepFieldsKept, FiniteFields DEF FieldsKept, IdsInv
  <2> QED
    BY <2>2, <2>3, <2>4, <2>5 DEF FiniteLists, IdsInv
<1>7. ASSUME NEW state \in BOOLEAN, SetDictionary(state)
      PROVE  (FiniteLists /\ dictionary.cache_dictonary /\ ~object.noprimarykey)'
  <2>1. /\ object' = object /\ dictionary'.cache_dictonary = TRUE
        /\ dictionary'.fieldlisthash = dictionary.fieldlisthash
    BY <1>7 DEF SetDictionary, Observes, IdsOfKeys, IdsInv, DeclaredInv, KeyShape
  <2> QED
    BY <2>1 DEF FiniteLists, IdsInv
<1>8. ASSUME UNCHANGED <<object, dictionary>>
      PROVE  (FiniteLists /\ dictionary.cache_dictonary /\ ~object.noprimarykey)'
  BY <1>8 DEF FiniteLists, IdsInv
<1>9. ASSUME NEW t \in Tables, NEW c, Altered(t, c)
      PROVE  UNCHANGED <<object, dictionary>>
  BY <1>9 DEF Altered
<1>10. UNCHANGED keyVars => UNCHANGED <<object, dictionary>>
  BY DEF keyVars
<1>11. /\ \A t \in Tables, k \in Keys : AlterKey(t, k) => UNCHANGED <<object, dictionary>>
       /\ \A t \in Tables : \A n : DropColumn(t, n) => UNCHANGED <<object, dictionary>>
  BY <1>9 DEF AlterKey, DropColumn
<1> QED
  BY <1>3, <1>4, <1>5, <1>6, <1>7, <1>8, <1>10, <1>11 DEF KeysNext

LEMMA IdsInit ==
  ASSUME KeyAssumption, KeysInit
  PROVE  IdsInv
<1>1. DeclaredInv
  BY DeclaredInit
<1>2. PICK fields \in Queries : object = NewObjectKeys(fields)
  BY DEF KeysInit
<1>3. fields \in Seq(Tables \X STRING)
  BY DEF KeyAssumption
<1>4. /\ DOMAIN fields = 1..Len(fields) /\ Len(fields) \in Nat
      /\ \A i \in DOMAIN fields : fields[i] = <<fields[i][1], fields[i][2]>>
  BY <1>3
<1>5. IsFiniteSet(DOMAIN fields)
  <2>1. IsFiniteSet(1..Len(fields))
    <3>1. 1 \in Int /\ Len(fields) \in Int
      BY <1>4
    <3> QED
      BY <3>1, FS_Interval
  <2> QED
    BY <1>4, <2>1
<1>6. object.fields = fields /\ ~object.noprimarykey
  BY <1>2 DEF NewObjectKeys
<1>7. /\ dictionary.cache_dictonary
      /\ \A t \in Tables : IsFiniteSet(DOMAIN dictionary.fieldlisthash[t])
  BY FS_EmptySet DEF KeysInit, Unknown
<1> QED
  BY <1>1, <1>4, <1>5, <1>6, <1>7 DEF IdsInv, FiniteLists

\* The id of a row is made of exactly the key columns of its own table,
\* whatever other tables the query joins, for any tables, keys and queries,
\* and the object never gives up on keys.
THEOREM IdsFromOwnKey ==
  ASSUME IdsOfKeys
  PROVE  KeysSpec => IdFromOwnKey
<1>1. KeysInit => IdsInv
  BY IdsInit, KeyAssumption
<1>2. IdsInv /\ [KeysNext]_keyVars => IdsInv'
  BY IdsNext, KeyAssumption
<1>3. IdsInv /\ [KeysNext]_keyVars =>
        [\A t \in Tables, empty, broken \in BOOLEAN :
           IdGet(t, empty, broken) =>
             id' = [i \in DOMAIN Declared(t) |-> <<t, Declared(t)[i]>>]]_keyVars
  BY IdGetMakes, KeyAssumption
<1> QED BY <1>1, <1>2, <1>3, PTL DEF KeysSpec, IdFromOwnKey
=============================================================================

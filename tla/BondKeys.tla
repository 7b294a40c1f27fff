------------------------------ MODULE BondKeys ------------------------------
(***************************************************************************)
(* Which columns identify a row: the plugin's dictionary of columns and    *)
(* primary keys (pgsql/binding_pgsql.c), the keys an object knows          *)
(* (bonddb/bonddbkey.c), and the ids it makes of them (bonddbid.c).        *)
(*                                                                         *)
(* Abstractions.  The empty list is the NULL list, as in GLib.  A table's  *)
(* name is in one schema only; an object is asked for ids while it is on a *)
(* row of its result.  An id is the columns its values were read from.     *)
(***************************************************************************)
EXTENDS Integers, FiniteSets, SequencesExt

CONSTANTS
  Tables,         \* the tables
  Attributes,     \* the columns each was created with, in order
  Keys,           \* what its primary key may be: sequences of positions
  Queries,        \* what a query selects: sequences of <<table, column>>
  OwnKeys,        \* the keys the application sets itself: lists of columns
  KeyDiscipline   \* what the application is careful about, see KeyRule

(* What the application and the administrator observe.                     *)
(*   dictionary   the plugin is left to keep what it finds                 *)
(*   columnsKept  no column before one of a key is dropped                 *)
(*   keysKept     a key is not changed once it was asked for               *)
(*   connected    the catalog can be read when a key is first asked for    *)
(*   keyedRows    ids are asked for rows that have a key, and no NULL in it *)
(*   keysQueried  the query selects the key of each table that is written  *)
(*   setFirst     a key is set before ids of the table are made            *)
KeyRule == {"dictionary", "columnsKept", "keysKept", "connected",
            "keyedRows", "keysQueried", "setFirst"}

ASSUME KeyAssumption ==
  /\ KeyDiscipline \subseteq KeyRule
  /\ Attributes \in [Tables -> Seq(STRING)]
  /\ Queries \subseteq Seq(Tables \X STRING)
  /\ Keys \subseteq Seq(Nat)
  /\ \A key_ \in Keys, t \in Tables : ToSet(key_) \subseteq DOMAIN Attributes[t]

VARIABLES
  catalog,     \* each table in the database: its key, the columns dropped
  dictionary,  \* what the BonddbPlugin struct keeps of them
  object,      \* what the BonddbClass struct knows of keys
  own,         \* the keys the application has set
  id           \* the id just made, <<>> when there is none

keyVars == <<catalog, dictionary, object, own, id>>

Observes(rule) == rule \in KeyDiscipline
Unknown == [t \in Tables |-> <<>>]

\* ids tells of each table what the ids made of it point to: its list of
\* key columns, or what that was before it was freed.
NewObjectKeys(fields) ==
  [primarykey |-> Unknown, noprimarykey |-> FALSE, fields |-> fields,
   ids |-> [t \in Tables |-> "none"]]

-----------------------------------------------------------------------------
(* The plugin.                                                             *)

\* The columns that pg_attribute has for t, joined with their types: a
\* column that was dropped has none.
Attribute(t) ==
  LET live == {n \in DOMAIN Attributes[t] : n \notin catalog[t].dropped} IN
  [i \in 1..Cardinality(live) |->
     Attributes[t][CHOOSE n \in live : Cardinality({m \in live : m < n}) = i - 1]]

\* _db_fieldlist: the list, and whether the caller must free it.
FieldList(t, broken) ==
  LET kept == dictionary.cache_dictonary /\ dictionary.fieldlisthash[t] # <<>>
  IN  IF kept THEN [list |-> dictionary.fieldlisthash[t], status |-> 0]
      ELSE IF broken THEN [list |-> <<>>, status |-> -1]
      ELSE [list |-> Attribute(t),
            status |-> IF dictionary.cache_dictonary THEN 0 ELSE 1]
KeepFields(d, t, broken) ==
  IF ~d.cache_dictonary THEN d
  ELSE [d EXCEPT !.fieldlisthash[t] = FieldList(t, broken).list]

\* Mutant of PrimaryKeyItem: positions are taken to start at 0.
PrimaryKeyItemNext(list, n) ==
  IF n + 1 \in DOMAIN list THEN <<list[n + 1]>> ELSE <<>>

\* _db_primarykeylist_item: the n-th column, if there are as many.
PrimaryKeyItem(list, n) == IF n \in DOMAIN list THEN <<list[n]>> ELSE <<>>

\* Those of one position after the other.
PrimaryKeyItems(list, key_) ==
  LET items[i \in 0..Len(key_)] ==
        IF i = 0 THEN <<>> ELSE items[i - 1] \o PrimaryKeyItem(list, key_[i])
  IN  items[Len(key_)]

\* _db_primarykeylist: the columns of the primary key.  A field list that
\* the plugin does not keep counts as a failure.
KeptKey(t) ==
  IF dictionary.cache_dictonary THEN dictionary.primarykeyhash[t] ELSE <<>>
PrimaryKeyList(t, broken) ==
  LET fields == FieldList(t, broken) IN
  IF KeptKey(t) # <<>> THEN KeptKey(t)
  ELSE IF broken \/ fields.status # 0 THEN <<>>
  ELSE PrimaryKeyItems(fields.list, catalog[t].key)
KeepKey(t, broken) ==
  IF KeptKey(t) # <<>> \/ broken \/ ~dictionary.cache_dictonary
  THEN dictionary
  ELSE [KeepFields(dictionary, t, broken) EXCEPT
          !.primarykeyhash[t] = PrimaryKeyList(t, broken)]

-----------------------------------------------------------------------------
(* The object.                                                             *)

\* bonddb_primarykey_add: an empty list changes nothing; the list there was
\* is freed, and ids keep pointing to it.
PrimaryKeyAdd(o, t, list) ==
  IF list = <<>> THEN o
  ELSE [o EXCEPT !.primarykey[t] = list,
                 !.ids[t] = IF @ = "none" THEN @ ELSE "freed"]

\* Mutant of Guesses: the key is asked for each time.
GuessesAlways(t) == TRUE

\* bonddb_id_get asks the plugin for a key it does not know.
Guesses(t) == object.primarykey[t] = <<>>
Guessed(t, broken) ==
  IF ~Guesses(t) THEN object
  ELSE PrimaryKeyAdd(object, t, PrimaryKeyList(t, broken))

\* Mutant of FieldGet: the table is not looked at.
FieldGetByName(fields, t, c) ==
  LET named == {i \in DOMAIN fields : fields[i][2] = c} IN
  IF named = {} THEN {} ELSE {fields[Max(named)]}

\* bonddb_field_get: the only column of that name, whatever its table, or
\* the one of the table.
FieldGet(fields, t, c) ==
  LET named == {i \in DOMAIN fields : fields[i][2] = c} IN
  {fields[i] : i \in {j \in named : Cardinality(named) = 1 \/ fields[j][1] = t}}

\* The columns that bonddb_id_extract reads, and whether it finds them all.
ReadFrom(o, t) ==
  LET list == o.primarykey[t] IN
  [i \in DOMAIN list |-> FieldGet(o.fields, t, list[i])]
Extracts(o, t) == \A i \in DOMAIN ReadFrom(o, t) : ReadFrom(o, t)[i] # {}

\* bonddb_id_get for a row whose key has a NULL or not.
IdGet(t, empty, broken) ==
  LET o == Guessed(t, broken)
      list == o.primarykey[t]
      made == list # <<>> /\ Extracts(o, t) /\ ~empty
  IN  /\ Observes("connected") => ~broken
      /\ Observes("keyedRows") =>
           ~empty /\ (own[t] # <<>> \/ catalog[t].key # <<>>)
      /\ Observes("keysQueried") =>
           \A i \in DOMAIN list : <<t, list[i]>> \in ToSet(o.fields)
      /\ IF object.noprimarykey
         THEN id' = <<>> /\ UNCHANGED <<dictionary, object>>
         ELSE /\ dictionary' = IF Guesses(t) THEN KeepKey(t, broken)
                               ELSE dictionary
              /\ object' = IF made
                           THEN [o EXCEPT !.ids[t] = IF @ = "freed" THEN @
                                                     ELSE "list"]
                           ELSE [o EXCEPT !.noprimarykey = TRUE]
              /\ id' = IF ~made THEN <<>>
                       ELSE [i \in DOMAIN list |->
                               CHOOSE c \in ReadFrom(o, t)[i] : TRUE]
      /\ UNCHANGED <<catalog, own>>

\* bonddb_setprimarykey; an empty list is refused.
SetPrimaryKey(t, list) ==
  /\ Observes("setFirst") => object.ids[t] = "none"
  /\ object' = PrimaryKeyAdd(object, t, list)
  /\ own' = IF list = <<>> THEN own ELSE [own EXCEPT ![t] = list]
  /\ id' = <<>> /\ UNCHANGED <<catalog, dictionary>>

\* bonddb_clear and another query: the records go with their ids, the keys
\* stay.
Requery(fields) ==
  /\ object' = [object EXCEPT !.fields = fields, !.noprimarykey = FALSE,
                              !.ids = [t \in Tables |-> "none"]]
  /\ id' = <<>> /\ UNCHANGED <<catalog, dictionary, own>>

\* bonddb_new_basetable: another object, with the columns of one table
\* (bonddb_field_populatebytablename).
NewBaseTable(t, broken) ==
  LET list == FieldList(t, broken).list IN
  /\ object' = NewObjectKeys([i \in DOMAIN list |-> <<t, list[i]>>])
  /\ dictionary' = KeepFields(dictionary, t, broken)
  /\ own' = Unknown /\ id' = <<>> /\ UNCHANGED catalog

\* bonddb_plugin_setcache.
SetDictionary(state) ==
  /\ Observes("dictionary") => state
  /\ dictionary' = [dictionary EXCEPT !.cache_dictonary = state]
  /\ id' = <<>> /\ UNCHANGED <<catalog, object, own>>

-----------------------------------------------------------------------------
(* The administrator's statements.                                         *)

InOrder(c) == \A i \in DOMAIN c.key : \A n \in c.dropped : c.key[i] < n
Altered(t, c) ==
  /\ Observes("columnsKept") => InOrder(c)
  /\ catalog' = [catalog EXCEPT ![t] = c]
  /\ id' = <<>> /\ UNCHANGED <<dictionary, object, own>>

\* ALTER TABLE DROP COLUMN, of a column that is not of the key.
DropColumn(t, n) ==
  /\ n \in DOMAIN Attributes[t] \ (catalog[t].dropped \cup ToSet(catalog[t].key))
  /\ Altered(t, [catalog[t] EXCEPT !.dropped = @ \cup {n}])

\* ALTER TABLE, with another primary key or none.
AlterKey(t, key_) ==
  /\ ToSet(key_) \cap catalog[t].dropped = {}
  /\ Observes("keysKept") =>
       dictionary.primarykeyhash[t] = <<>> /\ object.primarykey[t] = <<>>
  /\ Altered(t, [catalog[t] EXCEPT !.key = key_])

KeysInit ==
  /\ catalog \in [Tables -> [key : Keys, dropped : {{}}]]
  /\ dictionary = [cache_dictonary |-> TRUE, fieldlisthash |-> Unknown,
                   primarykeyhash |-> Unknown]
  /\ \E fields \in Queries : object = NewObjectKeys(fields)
  /\ own = Unknown /\ id = <<>>

KeysNext ==
  \/ \E t \in Tables, empty, broken \in BOOLEAN : IdGet(t, empty, broken)
  \/ \E t \in Tables, list \in OwnKeys : SetPrimaryKey(t, list)
  \/ \E fields \in Queries : Requery(fields)
  \/ \E t \in Tables, broken \in BOOLEAN : NewBaseTable(t, broken)
  \/ \E state \in BOOLEAN : SetDictionary(state)
  \/ \E t \in Tables, n \in 1..Max({Len(Attributes[u]) : u \in Tables}) :
       DropColumn(t, n)
  \/ \E t \in Tables, key_ \in Keys : AlterKey(t, key_)

KeysSpec == KeysInit /\ [][KeysNext]_keyVars

-----------------------------------------------------------------------------
(* Properties.                                                             *)

\* The columns that identify a row of t: those the application says, or
\* those of its primary key in the database.
Declared(t) ==
  IF own[t] # <<>> THEN own[t]
  ELSE [i \in DOMAIN catalog[t].key |-> Attributes[t][catalog[t].key[i]]]

\* The key that an object has for a table, and the one the plugin keeps, are
\* those of the database now, although columns are found by their position
\* in a list made at another time; what the application sets comes first.
KeyAsDeclared ==
  \A t \in Tables :
    /\ object.primarykey[t] # <<>> => object.primarykey[t] = Declared(t)
    /\ dictionary.primarykeyhash[t] # <<>> =>
         dictionary.primarykeyhash[t]
           = [i \in DOMAIN catalog[t].key |-> Attributes[t][catalog[t].key[i]]]

\* An object asked for the id of a row makes it of exactly the key columns of
\* that row's table, although other tables of the query have columns of the
\* same names, and does not give up on keys for good (noprimarykey).
IdFromOwnKey ==
  [][\A t \in Tables, empty, broken \in BOOLEAN :
       IdGet(t, empty, broken) =>
         id' = [i \in DOMAIN Declared(t) |-> <<t, Declared(t)[i]>>]]_keyVars

\* No id points to a list of columns that was freed (bonddbid.c:166).
IdsKeepFields == \A t \in Tables : object.ids[t] # "freed"
=============================================================================

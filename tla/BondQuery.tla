------------------------------ MODULE BondQuery ------------------------------
(***************************************************************************)
(* The query of a database object: the text the application gave, the tree *)
(* it is parsed to when it is needed, the conditions that loading an       *)
(* object by others adds to the tree (bonddb/bonddbloadby.c), the text     *)
(* that is generated from the tree when the query is run, and the birth    *)
(* values that rows added later are given (bonddb/bonddbobj.c).            *)
(*                                                                         *)
(* Abstractions.  A source is an object whose result is there: its rows    *)
(* with their ids (a key of one column that is not NULL) and values, the   *)
(* positions of its columns, the references it knows.  No column is in a   *)
(* result twice; one that belongs to no table has NULL for its table.  A   *)
(* column of the object's own result has the position Position gives it.   *)
(***************************************************************************)
EXTENDS BondSqlTree, Integers

CONSTANTS
  Text,        \* a sequence: the queries the application may give an object
               \* at first, and then
  Source,      \* the objects to load by
  SourceList,  \* the lists of them it is loaded by
  SourceOf,    \* each of them: its rows, and what it is at first (see src)
  Detected,    \* table to the references the backend finds, _db_findreference
  Position,    \* column to its position in a result
  Given,       \* references the application may tell the object of
  Conditions,  \* conditions it may append: <<left, right, operator>>
  Joins,       \* joins: <<left table, right table, left field, right field>>
  Discipline,  \* what the application is careful about, see Rule
  MaxCond,     \* bound: conditions appended to a statement
  MaxField     \* bound: a field is added to a statement with fewer fields

(* fresh: an object is loaded by others once after it is given a query, and *)
(* is not parsed again afterwards.                                          *)
(* ownColumns: an object is loaded by sources that have, for each reference *)
(* between a table of theirs and one of the object's, the column it goes by *)
(* or none of that name.                                                    *)
(* ownAlone: an object is loaded by an object of its own table alone, if    *)
(* its query ends with its conditions, which are no OR, and its statement   *)
(* is not extended before or after.                                         *)
Rule == {"fresh", "ownAlone", "ownColumns"}

ASSUME QueryAssumption == Discipline \subseteq Rule /\ {MaxCond, MaxField} \subseteq Nat

\* The references there are, and those an object has been told of: each with
\* the positions of its two columns.
Known == Given \cup UNION {Range(Detected[t]) : t \in DOMAIN Detected}
Bare(r) == [fromtable |-> r.fromtable, fromfield |-> r.fromfield,
            totable   |-> r.totable,   tofield   |-> r.tofield]
Told == {r \in [fromtable : STRING, fromfield : STRING, totable : STRING,
                tofield : STRING, fromcount : Int, tocount : Int] : Bare(r) \in Known}
IsPosition(p) == p \in [DOMAIN p -> Int]

ASSUME ReferenceAssumption ==
  /\ Known \subseteq [fromtable : STRING, fromfield : STRING, totable : STRING,
                     tofield : STRING]
  /\ \A t \in DOMAIN Detected : Detected[t] \in Seq(Known)
  /\ IsPosition(Position)

ASSUME SourceAssumption ==
  /\ SourceList \subseteq Seq(Source)
  /\ \A n \in Source :
       /\ {SourceOf[n].tables, SourceOf[n].tablelist} \subseteq Seq(STRING)
       /\ SourceOf[n].reflist \in Seq(Told) /\ IsPosition(SourceOf[n].position)
       /\ 1 \in DOMAIN SourceOf[n].rows

VARIABLES
  obj,    \* the fields of the object that belong to its query
  base,   \* the conditions of the text that statement was parsed from
  conds,  \* the conditions appended since, in their order
  loaded, \* field to its value: what loading by others has promised, the
          \* row it came from, and how many conditions had been appended
  given,  \* how many queries the object was given
  src,    \* each source: the row it is on, its tables and references
  fault   \* undefined behaviour that was reached

vars == <<obj, base, conds, loaded, given, src, fault>>

Object0 == [query |-> NULL, statement |-> NULL, tablelist |-> <<>>,
            generatequery |-> FALSE, birthhash |-> <<>>, reflist |-> <<>>,
            position |-> <<>>]

Running == fault = NULL

-----------------------------------------------------------------------------
(* What a condition means, for the history and the properties.             *)

Atom(c) ==
  IF c.op = "between"
  THEN <<"between", c.negated, FieldStr(c.field), FieldStr(c.lower), FieldStr(c.upper)>>
  ELSE <<c.op, c.negated, FieldStr(c.left), FieldStr(c.right)>>

Atoms(w) == {Atom(v.single) : v \in {u \in Parts(w) : u.type = "SQL_single"}}
Holds(w, T) ==
  LET holds[v \in Parts(w)] ==
        CASE v.type = "SQL_single"  -> Atom(v.single) \in T
          [] v.type = "SQL_negated" -> ~holds[v.negated]
          [] v.type = "SQL_pair" /\ v.op = "and" -> holds[v.left] /\ holds[v.right]
          [] OTHER -> holds[v.left] \/ holds[v.right]
  IN  holds[w]
AtomsOf(w) == IF w = NULL THEN {} ELSE Atoms(w)
Selects(w, T) == IF w = NULL THEN TRUE ELSE Holds(w, T)

\* Conditions that select the same rows, and w selecting no row that v does not.
SameRows(w, v) ==
  \A T \in SUBSET (AtomsOf(w) \cup AtomsOf(v)) : Selects(w, T) = Selects(v, T)

Equals(left, right) ==
  Atom(Condition(NamedField(<<left>>), NamedField(<<right>>), "="))

-----------------------------------------------------------------------------
(* Parsing and generating.                                                 *)

\* bonddb_parsesql_free and bonddb_parsesql_proper, in a struct.
ParseFree(o) == [o EXCEPT !.statement = NULL, !.tablelist = <<>>]
ParseProper(o, s) ==
  IF s = NULL THEN ParseFree(o)
  ELSE [o EXCEPT !.statement = s,
                 !.tablelist = IF s.type = "SQL_select" THEN GetTables(s) ELSE <<>>]

\* The trees a text may be parsed to.
Trees(s) == IF s = NULL THEN {NULL}
            ELSE IF s.type # "SQL_select" THEN {s}
            ELSE {s, [s EXCEPT !.statement = Zeroed(@)]}
Parsed(text) == Trees(SqlParse(text))

Garbled(s) ==
  s # NULL /\ s.type = "SQL_select" /\ ReadsGarbage[s.statement]
WhereOf(s) == IF s = NULL THEN NULL
              ELSE IF s.type = "SQL_insert" THEN NULL ELSE s.statement.where

\* Mutant of Clear: the query is still to be generated.
ClearKeepsFlag(o) == [ParseFree(o) EXCEPT !.query = NULL]

\* bonddb_clear; the birth values stay.
Clear(o) == [ParseFree(o) EXCEPT !.query = NULL, !.generatequery = FALSE]

\* Mutant of InternalQuery: the text that is there is run.
InternalQueryOld(o) ==
  IF o.generatequery /\ o.query = NULL
  THEN [o EXCEPT !.query = SqlStringify(o.statement)] ELSE o

\* bonddb_sql_internal_query.
InternalQuery(o) ==
  IF o.generatequery THEN [o EXCEPT !.query = SqlStringify(o.statement)] ELSE o

\* bonddb_field_populatebyresult: the columns of the query's tables.
Columns(s) ==
  IF s = NULL THEN <<>>
  ELSE Restrict(Position, {c \in DOMAIN Position : Contains(GetTables(s), c[1])})

Crash(what) ==
  /\ fault' = what
  /\ UNCHANGED <<obj, base, conds, loaded, given, src>>

\* Freeing or printing the tree reads what was never written.
TouchGarbage == Running /\ Garbled(obj.statement) /\ Crash("garbage")

\* bonddb_sql: another query.
Sql(text) ==
  /\ Running /\ ~Garbled(obj.statement)
  /\ obj' = [Clear(obj) EXCEPT !.query = text]
  /\ base' = NULL /\ conds' = <<>> /\ loaded' = <<>>
  /\ given' = given + 1
  /\ UNCHANGED <<src, fault>>

\* bonddb_parsesql_proper, which the application may call too.
Parse ==
  /\ Running /\ obj.query # NULL /\ ~Garbled(obj.statement)
  /\ "fresh" \in Discipline => loaded = <<>>
  /\ \E s \in Parsed(obj.query) :
       /\ obj' = ParseProper(obj, s)
       /\ base' = WhereOf(s) /\ conds' = <<>>
  /\ UNCHANGED <<loaded, given, src, fault>>

\* bonddb_sql_runnow, bonddb_loadall: the query is run.
Run ==
  /\ Running /\ obj.query # NULL
  /\ obj.generatequery => ~Garbled(obj.statement)
  /\ \E o \in {InternalQuery(obj)} :
       obj' = [o EXCEPT !.position = Columns(SqlParse(o.query))]
  /\ UNCHANGED <<base, conds, loaded, given, src, fault>>

-----------------------------------------------------------------------------
(* Extending the statement.                                                *)

\* The application may: an object of its own table has been added as text.
OwnText == \E f \in DOMAIN loaded : loaded[f].own
MayExtend == "ownAlone" \in Discipline => ~OwnText

Extendable == /\ MayExtend /\ Running /\ obj.statement # NULL /\ Len(conds) < MaxCond
              /\ obj.statement.type = "SQL_select"

\* sql_statement_append_where by the application.
AppendCondition(left, right, logicopr, condopr) ==
  /\ Extendable
  /\ IF WhereOf(obj.statement) # NULL /\ ReadsNegation(WhereOf(obj.statement), logicopr)
     THEN Crash("negation")
     ELSE /\ obj' = [obj EXCEPT !.statement =
                       AppendWhere(@, left, right, logicopr, condopr)]
          /\ conds' = Append(conds, [op |-> logicopr,
                       atom |-> Atom(WhereCondition(left, right, condopr))])
          /\ UNCHANGED <<base, loaded, given, src, fault>>

\* sql_statement_append_tablejoin by the application.
AppendJoin(lt, rt, lf, rf) ==
  /\ Extendable
  /\ obj' = [obj EXCEPT !.statement = AppendTableJoin(@, lt, rt, lf, rf)]
  /\ conds' = Append(conds, [op |-> "and",
                atom |-> Equals(<<lt, ".", lf>>, <<rt, ".", rf>>)])
  /\ UNCHANGED <<base, loaded, given, src, fault>>

\* bonddbparse_verifysql_addfieldtable: the text is generated at once; a table
\* that is not in the statement gets its oid too, but is not added to it.
AddFieldTable(fieldname, tablename) ==
  LET s  == obj.statement
      s1 == IF Contains(GetTables(s), tablename) THEN s
            ELSE AppendField(s, <<tablename>>, <<"oid">>, NULL)
  IN  /\ Running /\ MayExtend
      /\ s # NULL /\ s.type = "SQL_select" /\ ~Garbled(s)
      /\ Len(s.statement.fields) < MaxField
      /\ \E s2 \in {AppendField(s1, <<tablename>>, <<fieldname>>, NULL)} :
           obj' = [obj EXCEPT !.statement = s2, !.query = SqlStringify(s2)]
      /\ UNCHANGED <<base, conds, loaded, given, src, fault>>

-----------------------------------------------------------------------------
(* Loading by other objects.                                               *)

\* bonddb_field_get: the only column of that name, whatever its table, or the
\* one of the table.  A column is a sequence of its table and its name.
FieldGet(columns, table, name) ==
  LET named == {c \in columns : Last(c) = name}
  IN  {c \in named : named = {c} \/ Head(c) = table}

\* bonddb_ref_add: a reference with the positions its columns have in the
\* result of the object that is told, -1 if they have none.
At(position, table, name) ==
  LET found == FieldGet(DOMAIN position, table, name)
  IN  IF found = {} THEN -1 ELSE position[CHOOSE c \in found : TRUE]
ReferenceNew(r, position) ==
  [fromtable |-> r.fromtable, fromfield |-> r.fromfield,
   totable   |-> r.totable,   tofield   |-> r.tofield,
   fromcount |-> At(position, r.fromtable, r.fromfield),
   tocount   |-> At(position, r.totable, r.tofield)]

\* bonddb_ref_autoadd: the references of every table, each put in front.
FindReference(table, position) ==
  IF table \in DOMAIN Detected
  THEN Each(LAMBDA r : ReferenceNew(r, position), Detected[table]) ELSE <<>>
AutoAdd(tablelist, position) ==
  LET added[i \in 0..Len(tablelist)] ==
        IF i = 0 THEN <<>>
        ELSE Reverse(FindReference(tablelist[i], position)) \o added[i - 1]
  IN  added[Len(tablelist)]

\* A source that was never parsed is.
AutoAddSource(n, s) ==
  LET tables == IF s.tablelist = <<>> THEN SourceOf[n].tables ELSE s.tablelist
  IN  [s EXCEPT !.tablelist = tables, !.reflist = AutoAdd(tables, SourceOf[n].position),
                !.firsttable = IF s.tablelist = <<>> THEN Head(tables) ELSE @]

\* bonddb_ref_find: the reference between source s and a table of the object,
\* onetomany if it goes from the source.  The lower position in the results
\* wins, the last reference if none has a position.
VerifyTable(s, table) == s.tablelist = <<>> \/ Contains(s.tablelist, table)
Better(found, r, onetomany) ==
  LET This(best) == [best |-> best, ref |-> r, onetomany |-> onetomany]
      Nearer(n, f) == IF n # -1 /\ n < f.best THEN This(n) ELSE f
      nearer == Nearer(r.fromcount, Nearer(r.tocount, found))
  IN  IF nearer.best = 9999 /\ r.fromcount = -1 /\ r.tocount = -1
      THEN This(9999) ELSE nearer
RefFind(reflist, s, table) ==
  LET refs == s.reflist \o reflist
      own(i) == i <= Len(s.reflist)
      fits(i) == IF own(i) THEN refs[i].totable = table /\ VerifyTable(s, refs[i].fromtable)
                 ELSE refs[i].fromtable = table /\ VerifyTable(s, refs[i].totable)
      found[i \in 0..Len(refs)] ==
        IF i = 0 THEN [best |-> 9999, ref |-> NULL, onetomany |-> FALSE]
        ELSE IF fits(i) THEN Better(found[i - 1], refs[i], own(i)) ELSE found[i - 1]
  IN  found[Len(refs)]

Ends(r, onetomany) ==
  LET from == <<r.fromtable, ".", r.fromfield>>
      to   == <<r.totable, ".", r.tofield>>
  IN  IF onetomany THEN [here |-> from, there |-> to]
                   ELSE [here |-> to, there |-> from]

\* bonddb_getvalue: the column that is read for this one, also one that
\* belongs to no table, and its value in a row.
ColumnFor(row, column) ==
  LET found == FieldGet(DOMAIN row, Head(column), Last(column))
  IN  IF found # {} THEN found ELSE FieldGet(DOMAIN row, NULL, Last(column))
GetValue(row, column) ==
  LET read == ColumnFor(row, column)
  IN  IF read = {} THEN NULL ELSE row[CHOOSE c \in read : TRUE]

\* Mutant of RefWhere: the condition is about the source's own column.
RefWhereSwapped(found, row) ==
  LET e == Ends(found.ref, found.onetomany)
  IN  IF GetValue(row, e.here) = NULL THEN NULL ELSE <<e.here, GetValue(row, e.here)>>

\* bonddb_ref_get_where, bonddb_ref_getvalue: the object's column and the value
\* the source's row has for it, if there is one.
RefWhere(found, row) ==
  LET e == Ends(found.ref, found.onetomany)
  IN  IF GetValue(row, e.here) = NULL THEN NULL ELSE <<e.there, GetValue(row, e.here)>>

Put(f, key, value) ==
  [k \in DOMAIN f \cup {key} |-> IF k = key THEN value ELSE f[k]]

\* bonddb_ref_addbirth.
AddBirth(births, left, right) == Put(births, left, right)

\* What a call has done so far: to the object, the sources and the history, how
\* often it succeeded, and whether a negation was read as a pair.
Progress(o) == [o |-> o, src |-> src, conds |-> conds, loaded |-> loaded,
                pass |-> 0, fault |-> NULL]

\* bonddb_ref_add_loadby with source n, for one table of the object.
ByItself(p, row) ==
  [p EXCEPT !.o.query = @ \o (IF WhereOf(p.o.statement) # NULL THEN <<"and">>
                              ELSE <<"where">>) \o row.id \o <<"=">> \o row.values[row.id],
            !.loaded = Put(@, row.id, [value |-> row.values[row.id], own |-> TRUE,
                                       since |-> Len(p.conds)]),
            !.pass = @ + 1]
ByReference(p, left, right, values) ==
  LET where == WhereOf(p.o.statement)
  IN  [p EXCEPT !.o.birthhash = AddBirth(@, left, right),
                !.o.statement = AppendWhere(@, left, right, "and", "="),
                !.o.generatequery = TRUE,
                !.fault = IF where = NULL THEN @
                          ELSE IF ReadsNegation(where, "and") THEN "negation" ELSE @,
                !.conds = Append(@, [op |-> "and", atom |-> Equals(left, right)]),
                !.loaded = Put(@, left, [value |-> right, own |-> FALSE,
                                         since |-> Len(p.conds), row |-> values]),
                !.pass = @ + 1]
\* The references both know now, and the condition one of them gives.
Related(p, n) ==
  IF p.src[n].reflist # <<>> \/ p.o.reflist # <<>> THEN p
  ELSE [p EXCEPT !.src[n] = AutoAddSource(n, @),
                 !.o.reflist = AutoAdd(p.o.tablelist, p.o.position)]
Joining(found, row) == IF found.ref = NULL THEN NULL ELSE RefWhere(found, row)
AddWhere(q, w, row) == IF w = NULL THEN q ELSE ByReference(q, w[1], w[2], row)
AddRelated(q, n, table, row) ==
  AddWhere(q, Joining(RefFind(q.o.reflist, q.src[n], table), row), row)
AddLoadBy(p, n, table) ==
  LET row == SourceOf[n].rows[p.src[n].row]
  IN  IF p.src[n].firsttable = table /\ p.pass = 0 THEN ByItself(p, row)
      ELSE AddRelated(Related(p, n), n, table, row.values)

\* The object's own table is among the sources.
Own(o, srcs) ==
  \E i \in DOMAIN srcs : Contains(o.tablelist, src[srcs[i]].firsttable)
EndsWithConditions(s) ==
  /\ s.statement.order = <<>> /\ s.statement.group = <<>>
  /\ s.statement.where # NULL =>
       ~(s.statement.where.type = "SQL_pair" /\ s.statement.where.op = "or")
\* What may be asked of source n: a reference between a table of the object
\* and one of the source, which is any while it is not parsed.
Asked(o, n) ==
  {e \in {Ends(r, onetomany) : r \in Known, onetomany \in BOOLEAN} :
     Contains(o.tablelist, Head(e.there)) /\ VerifyTable(src[n], Head(e.here))}
OwnColumns(o, srcs) ==
  \A n \in ToSet(srcs) : \A e \in Asked(o, n), row \in Range(SourceOf[n].rows) :
    ColumnFor(row.values, e.here) \subseteq {e.here}
Careful(o, srcs) ==
  /\ "fresh" \in Discipline => loaded = <<>> /\ ~o.generatequery
  /\ "ownColumns" \in Discipline => OwnColumns(o, srcs)
  /\ "ownAlone" \in Discipline /\ Own(o, srcs) =>
       /\ Len(srcs) = 1 /\ Len(o.tablelist) = 1 /\ conds = <<>>
       /\ EndsWithConditions(o.statement)

\* bonddb_loadobjectbyobjects: every table of the object against every source.
\* The birth values of an earlier call are dropped; if no source fits, so is
\* everything but the text (bonddb_blank).
WithTable(p, table, srcs) ==
  LET tried[k \in 0..Len(srcs)] ==
        IF k = 0 THEN p ELSE AddLoadBy(tried[k - 1], srcs[k], table)
  IN  tried[Len(srcs)]
AllSources(o, srcs) ==
  LET tried[k \in 0..Len(o.tablelist)] ==
        IF k = 0 THEN Progress(o) ELSE WithTable(tried[k - 1], o.tablelist[k], srcs)
  IN  tried[Len(o.tablelist)]
LoadWith(p, where) ==
  \/ p.fault # NULL /\ Crash(p.fault)
  \/ /\ p.fault = NULL /\ p.pass > 0
     /\ obj' = p.o /\ conds' = p.conds /\ loaded' = p.loaded
     /\ base' = where /\ src' = p.src /\ UNCHANGED <<given, fault>>
  \/ /\ p.fault = NULL /\ p.pass = 0
     /\ obj' = [Clear(p.o) EXCEPT !.query = p.o.query]
     /\ base' = NULL /\ conds' = <<>>
     /\ src' = p.src /\ UNCHANGED <<loaded, given, fault>>
\* Mutant of NoBirths: they stay.
NoBirthsNever(o) == o

NoBirths(o) == [o EXCEPT !.birthhash = <<>>]
LoadBy(srcs) ==
  /\ Running /\ obj.query # NULL /\ Len(conds) < MaxCond
  /\ ~Garbled(obj.statement)
  /\ \E s \in IF obj.statement = NULL THEN Parsed(obj.query) ELSE {obj.statement} :
       /\ ~Garbled(s)
       /\ \E o \in {NoBirths(IF obj.statement = NULL THEN ParseProper(obj, s)
                             ELSE obj)} :
            /\ s # NULL => Careful(o, srcs)
            /\ \E p \in {AllSources(o, srcs)} :
                 LoadWith(p, IF obj.statement = NULL THEN WhereOf(s) ELSE base)

\* A source is moved to another row; the object is told of a reference.
Moveto(n, row) ==
  /\ Running /\ row \in DOMAIN SourceOf[n].rows /\ row # src[n].row
  /\ src' = [src EXCEPT ![n].row = row]
  /\ UNCHANGED <<obj, base, conds, loaded, given, fault>>
RefAdd(r) ==
  /\ Running
  /\ ~\E i \in DOMAIN obj.reflist : \A f \in DOMAIN r : obj.reflist[i][f] = r[f]
  /\ obj' = [obj EXCEPT !.reflist = <<ReferenceNew(r, obj.position)>> \o @]
  /\ UNCHANGED <<base, conds, loaded, given, src, fault>>

-----------------------------------------------------------------------------
Init ==
  /\ obj = Object0 /\ base = NULL /\ conds = <<>> /\ loaded = <<>>
  /\ given = 0 /\ fault = NULL
  /\ src = [n \in Source |->
              [row |-> 1, firsttable |-> SourceOf[n].firsttable,
               tablelist |-> SourceOf[n].tablelist, reflist |-> SourceOf[n].reflist]]

Next ==
  \/ given < Len(Text) /\ \E text \in Text[given + 1] : Sql(text)
  \/ Parse \/ Run \/ TouchGarbage
  \/ \E c \in Conditions, logicopr \in {"and", "or"} :
       AppendCondition(c[1], c[2], logicopr, c[3])
  \/ \E j \in Joins : AppendJoin(j[1], j[2], j[3], j[4])
  \/ \E j \in Joins : AddFieldTable(j[4], j[2])
  \/ \E srcs \in SourceList : LoadBy(srcs)
  \/ \E n \in Source, row \in 1..2 : Moveto(n, row)
  \/ \E r \in Given : RefAdd(r)
Spec == Init /\ [][Next]_vars

-----------------------------------------------------------------------------
(* Properties.                                                             *)

\* A query that is to be generated has a statement to generate it from:
\* bonddb_sql_internal_query frees the text before it prints the tree.
Generable == obj.generatequery => obj.statement # NULL

\* Appended conditions mean what the calls say, in the order of the calls: an
\* AND begins a clause that the conditions after it extend by OR, and the
\* statement selects what it did before and every clause does
\* (sql_statement_append_where).
Clauses == {i \in DOMAIN conds : i = 1 \/ conds[i].op = "and"}
ClauseHolds(i, T) ==
  \E j \in i..Len(conds) : /\ conds[j].atom \in T
                           /\ \A k \in i+1..j : conds[k].op = "or"
ClauseForm ==
  conds # <<>> /\ obj.statement # NULL /\ (base = NULL \/ conds[1].op = "and") =>
    \A T \in SUBSET (AtomsOf(base) \cup {conds[i].atom : i \in DOMAIN conds}
                     \cup AtomsOf(WhereOf(obj.statement))) :
      Selects(WhereOf(obj.statement), T) =
        (Selects(base, T) /\ \A i \in Clauses : ClauseHolds(i, T))

\* What printing loses: VALUES, a negation, the brackets of a left operand, a
\* quoted alias, the join of a function.
PlainItem(g, i) ==
  CASE i.type = "SQL_name" -> TRUE
    [] i.type = "SQL_equation" -> /\ i.left.type # "SQL_equation"
                                  /\ g["item", i.left] /\ g["item", i.right]
    [] i.type = "SQL_inlineselect" -> g["SQL_select", i.select]
    [] i.type = "SQL_function" ->
         \A k \in DOMAIN i.funcarglist : g["field", i.funcarglist[k]]
PlainCondition(g, c) ==
  IF c.op = "between"
  THEN ~c.negated /\ g["field", c.field] /\ g["field", c.lower] /\ g["field", c.upper]
  ELSE (c.negated => c.op = "is") /\ g["field", c.left] /\ g["field", c.right]
PlainWhere(g, w) ==
  w # NULL =>
    \A v \in Parts(w) : v.type = "SQL_single" => g["condition", v.single]
PlainTable(g, t) ==
  /\ t.type # "SQL_tablefunction" /\ g["where", t.join_cond]
  /\ t.type = "SQL_nestedselect" => g["SQL_select", t.select]
PlainSelect(g, s) ==
  /\ s.from # <<>> /\ g["where", s.where]
  /\ \A i \in DOMAIN s.fields : g["field", s.fields[i]]
  /\ \A i \in DOMAIN s.from : g["table", s.from[i]]
PlainUpdate(g, s) ==
  g["where", s.where] /\ \A i \in DOMAIN s.set : g["condition", s.set[i]]
PlainTree[kind \in STRING, x \in Any] ==
  CASE kind = "item"       -> PlainItem(PlainTree, x)
    [] kind = "field"      -> PlainTree["item", x.item]
                              /\ (x.as # NULL => x.as[1] \in Ident)
    [] kind = "condition"  -> PlainCondition(PlainTree, x)
    [] kind = "where"      -> PlainWhere(PlainTree, x)
    [] kind = "table"      -> PlainTable(PlainTree, x)
    [] kind = "SQL_select" -> PlainSelect(PlainTree, x)
    [] kind = "SQL_insert" -> FALSE
    [] kind = "SQL_update" -> PlainUpdate(PlainTree, x)
    [] kind = "SQL_delete" -> PlainTree["where", x.where]
Plain(s) == PlainTree[s.type, s.statement]

\* The text generated from a statement is the statement again ("you can also
\* modify the returned structure and regenerate the sql query"): it can be
\* parsed, is printed the same, and selects the same rows.
Regenerates(again, s) ==
  /\ again # NULL
  /\ again.type = s.type
  /\ SqlStringify(again) = SqlStringify(s)
  /\ SameRows(WhereOf(again), WhereOf(s))
Regenerated ==
  obj.statement # NULL =>
    /\ obj.query # NULL
    /\ Plain(obj.statement) =>
         Regenerates(SqlParse(SqlStringify(obj.statement)), obj.statement)

\* Loading by objects narrows: whatever the query's conditions were, the query
\* that is run next selects only rows with the value of every source that was
\* accepted ("a where clause will be added for each srcobjs statement"), unless
\* the application appends an OR afterwards.
Promised(T) == \A f \in DOMAIN loaded : Equals(f, loaded[f].value) \in T
ToSend == InternalQuery(obj).query
Widened == \E f \in DOMAIN loaded, i \in DOMAIN conds :
             i > loaded[f].since /\ conds[i].op = "or"
Narrow(s) == /\ s # NULL
             /\ \A T \in SUBSET AtomsOf(WhereOf(s)) : Selects(WhereOf(s), T) => Promised(T)
Narrowed ==
  Running /\ obj.statement # NULL /\ Plain(obj.statement) /\ ~Widened /\ loaded # <<>> =>
    Narrow(SqlParse(ToSend))

\* A row that is added to an object loaded by others, whatever it was loaded by
\* before, is one its query selects, and belongs to the row it was loaded by: its
\* birth values are the values of the conditions and no others, each at one end
\* of a reference whose other end is a column of that row with the same value.
Connects(r, f, v) ==
  \E e \in {Ends(r, onetomany) : onetomany \in BOOLEAN} :
    e.there = f /\ e.here \in DOMAIN v.row /\ v.row[e.here] = v.value
NewRowsBelong ==
  loaded # <<>> =>
    /\ DOMAIN obj.birthhash = {f \in DOMAIN loaded : ~loaded[f].own}
    /\ \A f \in DOMAIN obj.birthhash :
         /\ obj.birthhash[f] = loaded[f].value
         /\ \E r \in Known : Connects(r, f, loaded[f])

\* sql_statement_get_wherejoin lists every condition between two names exactly
\* once, whatever has been appended and wherever it stands, the last first.
Singles(w) ==
  LET singles[v \in Parts(w)] ==
        CASE v.type = "SQL_single"  -> <<v.single>>
          [] v.type = "SQL_negated" -> singles[v.negated]
          [] OTHER -> singles[v.left] \o singles[v.right]
  IN  singles[w]
Named(c) == IF c.op = "between"
            THEN c.field.item.type = "SQL_name" /\ c.upper.item.type = "SQL_name"
            ELSE c.left.item.type = "SQL_name" /\ c.right.item.type = "SQL_name"
JoinsFound ==
  LET s == obj.statement IN
  s # NULL /\ s.type = "SQL_select" /\ ~Garbled(s) /\ GetWhereJoin(s) # Diverges =>
    LET found == GetWhereJoin(s)
        all   == SelectSeq(FlattenSeq(Each(Singles, Wheres(s))), Named)
    IN  Each(LAMBDA j : j.orginalwhere.single, Reverse(found)) = all
=============================================================================

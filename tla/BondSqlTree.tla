----------------------------- MODULE BondSqlTree -----------------------------
(***************************************************************************)
(* What sql_parser.c does with a tree: print it, add fields, tables and    *)
(* conditions to it, list its names and its joins.                         *)
(***************************************************************************)
EXTENDS BondSql

Each(F(_), l) == [i \in DOMAIN l |-> F(l[i])]

\* The texts of l with sep between them.
Separated(l, sep) ==
  IF l = <<>> THEN <<>>
  ELSE FoldLeft(LAMBDA text, part : text \o sep \o part, Head(l), Tail(l))

-----------------------------------------------------------------------------
(* Printing: sql_stringify and the functions it is made of, which call     *)
(* each other: g is the function Stringify below.                              *)

All(g, kind, l) == Each(LAMBDA x : g[kind, x], l)
List(g, kind, l) == Separated(All(g, kind, l), <<",">>)
ListIf(keyword, text) == IF text = <<>> THEN <<>> ELSE keyword \o text

NameStr(n) == Separated(n, <<".">>)

\* " as " and an alias, if there is one.
AsStr(as) == IF as = NULL THEN <<>> ELSE <<"as">> \o as

CallStr(g, f, args) == <<f, "(">> \o List(g, "field", args) \o <<")">>

\* An equation is printed without the brackets it was written with.
ItemStr(g, item) ==
  CASE item.type = "SQL_name" -> NameStr(item.name)
    [] item.type = "SQL_equation" ->
         g["item", item.left] \o <<item.op>> \o g["item", item.right]
    [] item.type = "SQL_inlineselect" ->
         <<"(">> \o g["SQL_select", item.select] \o <<")">>
    [] item.type = "SQL_function" -> CallStr(g, item.funcname, item.funcarglist)

\* The negation follows the operator, and BETWEEN has none.
ConditionStr(g, c) ==
  IF c.op = "between"
  THEN g["field", c.field] \o <<"between">> \o g["field", c.lower] \o <<"and">>
       \o g["field", c.upper]
  ELSE g["field", c.left] \o <<c.op>> \o (IF c.negated THEN <<"not">> ELSE <<>>)
       \o g["field", c.right]

\* Mutant of WhereStr: the conditions of a pair are not bracketed.
WhereStrBare(g, w) ==
  CASE w.type = "SQL_single"  -> g["condition", w.single]
    [] w.type = "SQL_negated" -> <<"not">> \o g["where", w.negated]
    [] w.type = "SQL_pair" -> g["where", w.left] \o <<w.op>> \o g["where", w.right]

WhereStr(g, w) ==
  <<"(">>
  \o (CASE w.type = "SQL_single"  -> g["condition", w.single]
        [] w.type = "SQL_negated" -> <<"not">> \o g["where", w.negated]
        [] w.type = "SQL_pair" -> g["where", w.left] \o <<w.op>> \o g["where", w.right])
  \o <<")">>

OptWhereStr(g, keyword, w) ==
  IF w = NULL THEN <<>> ELSE <<keyword>> \o g["where", w]

\* A table with its join; a function's name replaces the join before it.
TableStr(g, t) ==
  LET join == CASE t.join_type = "inner" -> <<"join">>
                [] t.join_type \in {"left", "right", "full"} ->
                     <<t.join_type, "join">>
                [] OTHER -> <<>>
      table == CASE t.type = "SQL_simple" -> join \o <<t.simple>>
                 [] t.type = "SQL_nestedselect" ->
                      join \o <<"(">> \o g["SQL_select", t.select] \o <<")">>
                 [] t.type = "SQL_tablefunction" ->
                      CallStr(g, t.funcname, t.funcarglist)
  IN  table \o AsStr(t.as) \o OptWhereStr(g, "on", t.join_cond)

\* The commas between tables: none before a join.
TablesStr(g, from) ==
  FoldLeft(LAMBDA text, t :
             text \o (IF text # <<>> /\ t.join_type = "cross" THEN <<",">>
                      ELSE <<>>) \o g["table", t], <<>>, from)

OrderStr(o) ==
  NameStr(o.name) \o (IF o.order_type = "desc" THEN <<"desc">> ELSE <<>>)

SelectStr(g, s) ==
  <<"select">> \o (IF s.distinct THEN <<"distinct">> ELSE <<>>)
  \o List(g, "field", s.fields) \o <<"from">> \o TablesStr(g, s.from)
  \o OptWhereStr(g, "where", s.where)
  \o ListIf(<<"order", "by">>, List(g, "order", s.order))
  \o ListIf(<<"group", "by">>, List(g, "field", s.group))

\* An insert is printed without the word VALUES.
InsertStr(g, s) ==
  <<"insert", "into">> \o g["table", s.table]
  \o (IF s.fields = <<>> THEN <<>>
      ELSE <<"(">> \o List(g, "field", s.fields) \o <<")">>)
  \o <<"(">> \o List(g, "field", s.values) \o <<")">>

UpdateStr(g, s) ==
  <<"update">> \o g["table", s.table] \o <<"set">> \o List(g, "condition", s.set)
  \o OptWhereStr(g, "where", s.where)

DeleteStr(g, s) ==
  <<"delete", "from">> \o g["table", s.table] \o OptWhereStr(g, "where", s.where)

Stringify[kind \in STRING, x \in Any] ==
  CASE kind = "item"       -> ItemStr(Stringify, x)
    [] kind = "field"      -> Stringify["item", x.item] \o AsStr(x.as)
    [] kind = "condition"  -> ConditionStr(Stringify, x)
    [] kind = "where"      -> WhereStr(Stringify, x)
    [] kind = "table"      -> TableStr(Stringify, x)
    [] kind = "order"      -> OrderStr(x)
    [] kind = "SQL_select" -> SelectStr(Stringify, x)
    [] kind = "SQL_insert" -> InsertStr(Stringify, x)
    [] kind = "SQL_update" -> UpdateStr(Stringify, x)
    [] kind = "SQL_delete" -> DeleteStr(Stringify, x)

FieldStr(f) == Stringify["field", f]
SqlStringify(s) == Stringify[s.type, s.statement]

-----------------------------------------------------------------------------
(* Walking a tree of conditions.  Level(w)[n] are those n steps below w;   *)
(* Parts is where a function that walks the tree is defined: w, what it is *)
(* made of, and so on to the leaves.                                       *)

Operands(w) == CASE w.type = "SQL_single"  -> {}
                 [] w.type = "SQL_negated" -> {w.negated}
                 [] OTHER -> {w.left, w.right}
Level(w) ==
  LET level[n \in Nat] ==
        IF n = 0 THEN {w} ELSE UNION {Operands(v) : v \in level[n - 1]}
  IN  level
Parts(w) ==
  LET from[n \in Nat] ==
        IF Level(w)[n] = {} THEN {} ELSE Level(w)[n] \cup from[n + 1]
  IN  from[0]

-----------------------------------------------------------------------------
(* Adding to a SELECT.                                                     *)

\* A field whose name is the strings of names, as calloc and assignments make
\* it: no alias.
NamedField(names) == FieldBuild(ItemName(names))

\* sql_statement_append_field; the alias is set only if it is NULL.
AppendField(s, table, fieldname, as) ==
  LET name == IF table = NULL THEN <<fieldname>> ELSE <<table, fieldname>>
      built == NamedField(name)
      field == IF as = NULL THEN FieldSetAs(built, as) ELSE built
  IN  IF s.type = "SQL_select"
      THEN [s EXCEPT !.statement.fields = Append(@, field)] ELSE s

\* sql_statement_append_tablejoin.  "table.field" is one string.
AppendTableJoin(s, lefttable, righttable, leftfield, rightfield) ==
  LET table == TableBuild(righttable)
      cond  == Condition(NamedField(<<<<lefttable, ".", leftfield>>>>),
                         NamedField(<<<<righttable, ".", rightfield>>>>), "=")
      w     == s.statement.where
  IN  [s EXCEPT
         !.statement.from = Append(@, table),
         !.statement.where = IF w = NULL THEN WhereSingle(cond)
                             ELSE WherePair(w, WhereSingle(cond), "and")]

\* What sql_statement_append_where makes of a comparison with NULL.
NullOp(condopr) == IF condopr \in {"=", "like", "ilike"} THEN "is" ELSE "not"
WhereCondition(leftfield, rightfield, condopr) ==
  Condition(NamedField(<<leftfield>>),
            NamedField(<<IF rightfield = NULL THEN <<"null">> ELSE rightfield>>),
            IF rightfield = NULL THEN NullOp(condopr) ELSE condopr)

\* It walks down the right side of the tree, where a negation has no right
\* side: what is read there is not a tree.
RightSide(w) ==
  LET side[v \in Parts(w)] ==
        IF v.type = "SQL_pair" THEN <<v>> \o side[v.right] ELSE <<v>>
  IN  side[w]

\* Whether that happens: AND stops at the first OR.
ReadsNegation(w, logicopr) ==
  LET side == RightSide(w)
  IN  /\ Last(side).type = "SQL_negated"
      /\ ~ /\ logicopr = "and"
           /\ \E i \in DOMAIN side : side[i].type = "SQL_pair" /\ side[i].op = "or"

\* Mutant of InsertCondition: an AND does not stop at an OR.
InsertAtEnd(w, new, logicopr) ==
  LET insert[v \in Parts(w)] ==
        IF v.type = "SQL_pair" THEN [v EXCEPT !.right = insert[@]]
        ELSE WherePair(v, new, logicopr)
  IN  insert[w]

\* The tree with the new condition: an AND goes above the first OR on the
\* right side, everything else to the condition at its end.
InsertCondition(w, new, logicopr) ==
  LET insert[v \in Parts(w)] ==
        IF v.type = "SQL_pair" /\ ~(logicopr = "and" /\ v.op = "or")
        THEN [v EXCEPT !.right = insert[@]]
        ELSE WherePair(v, new, logicopr)
  IN  insert[w]

\* sql_statement_append_where, unless ReadsNegation.
AppendWhere(s, leftfield, rightfield, logicopr, condopr) ==
  LET new == WhereSingle(WhereCondition(leftfield, rightfield, condopr))
  IN  [s EXCEPT !.statement.where =
         IF @ = NULL THEN new ELSE InsertCondition(@, new, logicopr)]

-----------------------------------------------------------------------------
(* Reading.                                                                *)

\* The name is read from the union whatever the table is: a function's name, or
\* the first bytes of a nested select, which begins with the flag distinct.
TableName(t) == CASE t.type = "SQL_simple" -> t.simple
                  [] t.type = "SQL_tablefunction" -> t.funcname
                  [] t.type = "SQL_nestedselect" ->
                       IF t.select.distinct THEN "\\001" ELSE ""
GetTables(s) ==
  IF s.type = "SQL_select" THEN Each(TableName, s.statement.from) ELSE <<>>

\* sql_statement_get_wherejoin.  Diverges for a negation, which calls itself.
Diverges == NULL
Constant(string) == string # <<>> /\ string[1] \in Literal \cup Numeral
WhereJoin(where, isajoin) ==
  LET c == where.single
      l == (IF c.op = "between" THEN c.field ELSE c.left).item
      r == (IF c.op = "between" THEN c.upper ELSE c.right).item
  IN  IF l.type = "SQL_name" /\ r.type = "SQL_name"
      THEN <<[leftfield |-> l.name, rightfield |-> r.name, condopr |-> c.op,
              orginalwhere |-> where, isajoin |-> isajoin,
              leftconstaint |-> Constant(l.name[1]),
              rightconstaint |-> Constant(r.name[1])]>>
      ELSE <<>>

Negates(w) == \E v \in Parts(w) : v.type = "SQL_negated"

\* Mutant of WhereJoinRec: only the left side of a pair is listed.
WhereJoinLeft(w) ==
  LET joins[v \in Parts(w)] ==
        IF v.type = "SQL_single" THEN WhereJoin(v, FALSE) ELSE joins[v.left]
  IN  joins[w]

\* The list is built backwards.
WhereJoinRec(w) ==
  LET joins[v \in Parts(w)] ==
        IF v.type = "SQL_single" THEN WhereJoin(v, FALSE)
        ELSE joins[v.right] \o joins[v.left]
  IN  joins[w]

Wheres(s) ==
  SelectSeq(<<s.statement.where>> \o Each(LAMBDA t : t.join_cond, s.statement.from),
            LAMBDA w : w # NULL)
GetWhereJoin(s) ==
  IF \E i \in DOMAIN Wheres(s) : Negates(Wheres(s)[i]) THEN Diverges
  ELSE FlattenSeq(Reverse(Each(WhereJoinRec, Wheres(s))))

-----------------------------------------------------------------------------
(* Memory nobody has written: the alias and the join of a table that is a  *)
(* function, which printing and destroying the tree read.                  *)

ReadsGarbage[select \in Any] ==
  \E i \in DOMAIN select.from :
    LET t == select.from[i] IN
    \/ t.as = Garbage \/ t.join_cond = Garbage
    \/ t.type = "SQL_nestedselect" /\ ReadsGarbage[t.select]

\* The other outcome: the memory happens to be zero.
Settled(z, t) ==
  LET Table0 == [t EXCEPT !.as = IF @ = Garbage THEN NULL ELSE @,
                          !.join_type = IF @ = Garbage THEN "cross" ELSE @,
                          !.join_cond = IF @ = Garbage THEN NULL ELSE @]
  IN  IF t.type # "SQL_nestedselect" THEN Table0
      ELSE [Table0 EXCEPT !.select = z[@]]
ZeroedFrom(z, select) == [select EXCEPT !.from = Each(LAMBDA t : Settled(z, t), @)]
ZeroedSelect[select \in Any] == ZeroedFrom(ZeroedSelect, select)
Zeroed(select) == ZeroedFrom(ZeroedSelect, select)
=============================================================================

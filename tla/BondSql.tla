------------------------------- MODULE BondSql -------------------------------
(***************************************************************************)
(* The SQL parser (bondsql): the grammar of parser.y, the tree builders of *)
(* sql_tree.c, and the functions of sql_parser.c that print a tree, extend *)
(* it and read it.  Pure operators: BondQuery is the machine that runs     *)
(* them.                                                                   *)
(*                                                                         *)
(* A text is a sequence of tokens, a token the string the lexer matched.   *)
(* A tree is a record whose fields are those of the C struct; a GList is a *)
(* sequence.  A name is a list of strings, each itself a sequence of       *)
(* tokens, because the code that extends a tree puts "table.field" into    *)
(* one string where the parser makes two.  Parameter specifications are    *)
(* kept as their text.                                                     *)
(***************************************************************************)
EXTENDS Naturals, Sequences, SequencesExt

CONSTANTS
  Ident,       \* the L_IDENT tokens: names and numbers
  Numeral,     \* those that begin with a digit
  Literal,     \* the L_STRING tokens, quotes included
  Textual,     \* the L_TEXTUAL tokens, as functions to the text inside
  MaxDepth,    \* bound: how deep the rules of the grammar nest in a text
  NULL,        \* the NULL pointer
  Garbage      \* memory that mem_alloc returned and nobody has written

ASSUME TokenAssumption ==
  /\ Numeral \subseteq Ident /\ Ident \cap Literal = {}
  /\ "end" \notin Ident \cup Literal
  /\ MaxDepth \in Nat

FieldOp == {"+", "-", "*", "/"}

\* condition_operator, by the text it is printed as ("<>" is SQL_diff too).
ConditionOp == {"=", "is", "in", "like", "ilike", "similar to", ">", "<",
                ">=", "<=", "!=", "~", "~*", "!~", "!~*", "not"}
ConditionOpOf(t) == IF t = "<>" THEN "!=" ELSE t

-----------------------------------------------------------------------------
(* sql_tree.c.                                                             *)

StatementBuild(type, s) == [type |-> type, statement |-> s]
SelectBuild(d, fs, from, w, o, g) ==
  [distinct |-> d, fields |-> fs, from |-> from, where |-> w, order |-> o,
   group |-> g]
InsertBuild(t, fs, vs) == [table |-> t, fields |-> fs, values |-> vs]
UpdateBuild(t, set, w) == [table |-> t, set |-> set, where |-> w]
DeleteBuild(t, w) == [table |-> t, where |-> w]

ItemName(n) == [type |-> "SQL_name", name |-> n]
ItemEquation(l, r, op) ==
  [type |-> "SQL_equation", left |-> l, right |-> r, op |-> op]
ItemSelect(s) == [type |-> "SQL_inlineselect", select |-> s]
ItemFunction(f, args) ==
  [type |-> "SQL_function", funcname |-> f, funcarglist |-> args]

FieldBuild(item) == [item |-> item, as |-> NULL, param_spec |-> <<>>]
FieldSetAs(f, as) == [f EXCEPT !.as = as]
FieldSetParam(f, p) == [f EXCEPT !.param_spec = p]

TableBuild(n) ==
  [type |-> "SQL_simple", simple |-> n, as |-> NULL,
   join_type |-> "cross", join_cond |-> NULL]
TableBuildSelect(s) ==
  [type |-> "SQL_nestedselect", select |-> s, as |-> NULL,
   join_type |-> "cross", join_cond |-> NULL]
TableBuildFunction(f, args) ==
  [type |-> "SQL_tablefunction", funcname |-> f, funcarglist |-> args,
   as |-> Garbage, join_type |-> Garbage, join_cond |-> Garbage]
TableSetJoin(t, j, cond) == [t EXCEPT !.join_type = j, !.join_cond = cond]
TableSetAs(t, as) == [t EXCEPT !.as = as]

WhereSingle(c) == [type |-> "SQL_single", single |-> c]
WhereNegated(w) == [type |-> "SQL_negated", negated |-> w]
WherePair(l, r, op) ==
  [type |-> "SQL_pair", left |-> l, right |-> r, op |-> op]

Condition(l, r, op) ==
  [op |-> op, negated |-> FALSE, left |-> l, right |-> r]
ConditionBetween(f, lo, up) ==
  [op |-> "between", negated |-> FALSE, field |-> f, lower |-> lo,
   upper |-> up]
ConditionNegate(c) == [c EXCEPT !.negated = TRUE]

OrderBuild(n, type) == [name |-> n, order_type |-> type]

-----------------------------------------------------------------------------
(* parser.y.  A rule takes the tokens left and returns what it built (t)   *)
(* and the tokens after it (r), or Fail; Grammar, at the end, is the       *)
(* function from the name of a rule and a text to that, and g stands for   *)
(* it in the rules.  Where the grammar is ambiguous bison shifts, so every *)
(* rule takes as much as it can: in particular a field operator groups to  *)
(* the right, whatever it is.                                              *)

Fail == NULL
Got(t, r) == [t |-> t, r |-> r]
Hd(s) == IF s = <<>> THEN "end" ELSE s[1]
Hd2(s) == IF Len(s) < 2 THEN "end" ELSE s[2]
From(s, n) == SubSeq(s, n, Len(s))
Then(p, token) == p # Fail /\ Hd(p.r) = token

\* What the rule takes, separated by sep; list is the name of this rule.
ListOf(g, rule, list, sep, s) ==
  LET p == g[rule][s]
      q == g[list][Tail(p.r)]
  IN  CASE p = Fail -> Fail
        [] p # Fail /\ Hd(p.r) # sep -> Got(<<p.t>>, p.r)
        [] OTHER -> IF q = Fail THEN Fail ELSE Got(<<p.t>> \o q.t, q.r)

\* The keyword and what the rule takes, or nothing.
Opt(g, keyword, rule, s, none) ==
  IF IsPrefix(keyword, s) THEN g[rule][From(s, Len(keyword) + 1)]
                          ELSE Got(none, s)

Bracketed(g, rule, s) ==
  LET p == g[rule][Tail(s)]
  IN  IF Hd(s) = "(" /\ Then(p, ")") THEN Got(p.t, Tail(p.r)) ELSE Fail

DottedName(g, s) ==
  LET rest == g.dotted_name[From(s, 3)]
  IN  CASE Hd(s) \notin Ident -> Fail
        [] Hd(s) \in Ident /\ Hd2(s) # "." -> Got(<<<<s[1]>>>>, Tail(s))
        [] Hd(s) \in Ident /\ Hd2(s) = "." /\ Hd(From(s, 3)) = "*" ->
             Got(<<<<s[1]>>, <<"*">>>>, From(s, 4))
        [] OTHER -> IF rest = Fail THEN Fail
                    ELSE Got(<<<<s[1]>>>> \o rest.t, rest.r)

FieldName(g, s) ==
  CASE Hd(s) \in {"*", "null"} \cup Literal -> Got(<<<<s[1]>>>>, Tail(s))
    [] Hd(s) = "##" -> Got(<<<<>>>>, Tail(s))
    [] OTHER -> g.dotted_name[s]

OrderField(g, s) ==
  LET n == g.field_name[s]
  IN  CASE n = Fail -> Fail
        [] Then(n, "asc") -> Got(OrderBuild(n.t, "asc"), Tail(n.r))
        [] Then(n, "desc") -> Got(OrderBuild(n.t, "desc"), Tail(n.r))
        [] OTHER -> Got(OrderBuild(n.t, "asc"), n.r)

\* "[" ... "]" up to the closing bracket.
ParamSpec(s) ==
  LET ends == {i \in DOMAIN s : s[i] = "]"}
      e == CHOOSE i \in ends : \A j \in ends : i <= j
  IN  IF Hd(s) = "[" /\ ends # {} /\ e > 2
      THEN Got(SubSeq(s, 2, e - 1), From(s, e + 1)) ELSE Fail

\* The name after AS; a field with a specification takes an identifier only.
Alias(s) ==
  IF Hd(s) \in Ident THEN <<s[1]>>
  ELSE IF Hd(s) \in DOMAIN Textual THEN Textual[s[1]] ELSE NULL

\* name(arguments), which Build makes something of.
Call(g, s, Build(_, _)) ==
  LET args == g.fields[From(s, 3)]
  IN  IF Hd(From(s, 3)) = ")" THEN Got(Build(s[1], <<>>), From(s, 4))
      ELSE IF Then(args, ")") THEN Got(Build(s[1], args.t), Tail(args.r))
      ELSE Fail

Primary(g, s) ==
  LET sel == g.SQL_select[s]
      n   == g.field_name[s]
  IN  CASE Hd(s) = "select" ->
             IF sel = Fail THEN Fail ELSE Got(ItemSelect(sel.t), sel.r)
        [] Hd(s) = "(" -> Bracketed(g, "field_raw", s)
        [] Hd(s) \in Ident /\ Hd2(s) = "(" -> Call(g, s, ItemFunction)
        [] OTHER -> IF n = Fail THEN Fail ELSE Got(ItemName(n.t), n.r)

FieldRaw(g, s) ==
  LET l == g.primary[s]
      r == g.field_raw[Tail(l.r)]
  IN  CASE l = Fail -> Fail
        [] l # Fail /\ Hd(l.r) \notin FieldOp -> l
        [] OTHER -> IF r = Fail THEN Fail
                    ELSE Got(ItemEquation(l.t, r.t, Hd(l.r)), r.r)

Field(g, s) ==
  LET raw == g.field_raw[s]
      par == ParamSpec(raw.r)
      fld == IF Hd(raw.r) = "[" /\ par # Fail
             THEN Got(FieldSetParam(FieldBuild(raw.t), par.t), par.r)
             ELSE Got(FieldBuild(raw.t), raw.r)
      as  == IF fld.t.param_spec # <<>> /\ Hd2(fld.r) \notin Ident THEN NULL
             ELSE Alias(Tail(fld.r))
  IN  CASE raw = Fail -> Fail
        [] raw # Fail /\ ~Then(fld, "as") -> fld
        [] OTHER -> IF as = NULL THEN Fail
                    ELSE Got(FieldSetAs(fld.t, as), From(fld.r, 3))

\* where_item: the operator and its negation, then the field or the range.
WhereItem(g, s) ==
  LET f   == g.field[s]
      op  == Hd(f.r)
      op2 == Hd2(f.r)
      Negate(c, neg) == IF neg THEN ConditionNegate(c) ELSE c
      Pair(o, n, neg) ==
        LET r == g.field[From(f.r, n + 1)]
        IN  IF r = Fail THEN Fail
            ELSE Got(Negate(Condition(f.t, r.t, ConditionOpOf(o)), neg), r.r)
      Between(n, neg) ==
        LET lo == g.field[From(f.r, n + 1)]
            up == g.field[Tail(lo.r)]
        IN  IF ~Then(lo, "and") THEN Fail
            ELSE IF up = Fail THEN Fail
            ELSE Got(Negate(ConditionBetween(f.t, lo.t, up.t), neg), up.r)
      isop(o) == o \in ConditionOp \cup {"<>"}
  IN  CASE f = Fail -> Fail
        [] f # Fail /\ op = "between" -> Between(1, FALSE)
        [] f # Fail /\ op = "not" /\ op2 = "between" -> Between(2, TRUE)
        [] f # Fail /\ op = "not" /\ isop(op2) -> Pair(op2, 2, TRUE)
        [] f # Fail /\ op = "is" /\ op2 = "not" -> Pair("is", 2, TRUE)
        [] f # Fail /\ isop(op) /\ ~(op = "not" /\ isop(op2)) /\ op2 # "between"
           /\ ~(op = "is" /\ op2 = "not") -> Pair(op, 1, FALSE)
        [] OTHER -> Fail

\* where_list: NOT binds tightest, then AND, then OR; both group to the left.
WhereNot(g, s) ==
  LET item == g.where_item[s]
      not  == g.where_not[Tail(s)]
  IN  CASE Hd(s) = "not" -> IF not = Fail THEN Fail
                            ELSE Got(WhereNegated(not.t), not.r)
        [] Hd(s) # "not" /\ item # Fail -> Got(WhereSingle(item.t), item.r)
        [] OTHER -> Bracketed(g, "where", s)
WherePairs(l, op) ==
  LET pairs[i \in 1..Len(l)] ==
        IF i = 1 THEN l[1] ELSE WherePair(pairs[i - 1], l[i], op)
  IN  pairs[Len(l)]
WhereLevel(g, list, op, s) ==
  LET l == g[list][s]
  IN  IF l = Fail THEN Fail ELSE Got(WherePairs(l.t, op), l.r)

\* join_type: the type and how many tokens it takes, 0 when there is none.
JoinType(s) ==
  CASE Hd(s) = "join" -> <<"inner", 1>>
    [] Hd(s) = "inner" /\ Hd2(s) = "join" -> <<"inner", 2>>
    [] Hd(s) \in {"left", "right", "full"} /\ Hd2(s) = "join" -> <<Hd(s), 2>>
    [] Hd(s) \in {"left", "right", "full"} /\ Hd2(s) = "outer"
       /\ Hd(From(s, 3)) = "join" -> <<Hd(s), 3>>
    [] OTHER -> <<"cross", 0>>

Table(g, s) ==
  LET sel == g.SQL_select[s]
  IN  CASE Hd(s) = "(" -> Bracketed(g, "table", s)
        [] Hd(s) = "select" ->
             IF sel = Fail THEN Fail ELSE Got(TableBuildSelect(sel.t), sel.r)
        [] Hd(s) \in Ident /\ Hd2(s) = "(" -> Call(g, s, TableBuildFunction)
        [] Hd(s) \in Ident /\ Hd2(s) # "(" -> Got(TableBuild(s[1]), Tail(s))
        [] OTHER -> Fail

\* target: a table and its alias.
Aliased(t) ==
  LET s == t.r
  IN  CASE t = Fail -> Fail
        [] Then(t, "as") -> IF Hd2(s) \notin Ident THEN Fail
                            ELSE Got(TableSetAs(t.t, <<s[2]>>), From(s, 3))
        [] t # Fail /\ Hd(s) \in Ident ->
             Got(TableSetAs(t.t, <<s[1]>>), Tail(s))
        [] OTHER -> t
SimpleTarget(s) == IF Hd(s) \in Ident
                   THEN Aliased(Got(TableBuild(s[1]), Tail(s))) ELSE Fail

\* targets_list: table t and the tables after it.
Targets(g, t) ==
  LET next == g.joined[t.r]
  IN  IF t = Fail THEN Fail ELSE IF next = Fail THEN Fail
      ELSE Got(<<t.t>> \o next.t, next.r)
Joined(g, s) ==
  LET j == JoinType(s)
      t == Aliased(g.table[From(s, j[2] + 1)])
      on == g.where[Tail(t.r)]
      Join(cond, r) == Targets(g, Got(TableSetJoin(t.t, j[1], cond), r))
  IN  CASE Hd(s) = "," -> Targets(g, Aliased(g.table[Tail(s)]))
        [] Hd(s) # "," /\ j[2] = 0 -> Got(<<>>, s)
        [] OTHER -> IF t = Fail THEN Fail
                    ELSE IF Hd(t.r) # "on" THEN Join(NULL, t.r)
                    ELSE IF on = Fail THEN Fail ELSE Join(on.t, on.r)

OptWhere(g, s) == Opt(g, <<"where">>, "where", s, NULL)

Select(g, s) ==
  LET d == Hd2(s) = "distinct"
      f == g.fields[From(s, IF d THEN 3 ELSE 2)]
      t == Opt(g, <<"from">>, "targets", f.r, <<>>)
      w == OptWhere(g, t.r)
      o == Opt(g, <<"order", "by">>, "orders", w.r, <<>>)
      c == Opt(g, <<"group", "by">>, "fields", o.r, <<>>)
  IN  IF Hd(s) # "select" THEN Fail ELSE IF f = Fail THEN Fail
      ELSE IF t = Fail THEN Fail ELSE IF w = Fail THEN Fail
      ELSE IF o = Fail THEN Fail ELSE IF c = Fail THEN Fail
      ELSE Got(SelectBuild(d, f.t, t.t, w.t, o.t, c.t), c.r)

Insert(g, s) ==
  LET t == SimpleTarget(From(s, 3))
      f == IF Then(t, "(") THEN Bracketed(g, "fields", t.r) ELSE Got(<<>>, t.r)
      v == Bracketed(g, "fields", Tail(f.r))
  IN  IF ~IsPrefix(<<"insert", "into">>, s) \/ t = Fail THEN Fail
      ELSE IF f = Fail THEN Fail ELSE IF ~Then(f, "values") THEN Fail
      ELSE IF v = Fail THEN Fail ELSE Got(InsertBuild(t.t, f.t, v.t), v.r)

SetItem(g, s) ==
  LET l == g.field[s]
      r == g.field[Tail(l.r)]
  IN  IF ~Then(l, "=") THEN Fail ELSE IF r = Fail THEN Fail
      ELSE Got(Condition(l.t, r.t, "="), r.r)

Update(g, s) ==
  LET t == SimpleTarget(Tail(s))
      i == g.set[Tail(t.r)]
      w == OptWhere(g, i.r)
  IN  IF Hd(s) # "update" THEN Fail ELSE IF ~Then(t, "set") THEN Fail
      ELSE IF i = Fail THEN Fail ELSE IF w = Fail THEN Fail
      ELSE Got(UpdateBuild(t.t, i.t, w.t), w.r)

Delete(g, s) ==
  LET t == SimpleTarget(From(s, 3))
      w == OptWhere(g, t.r)
  IN  IF ~IsPrefix(<<"delete", "from">>, s) \/ t = Fail THEN Fail
      ELSE IF w = Fail THEN Fail ELSE Got(DeleteBuild(t.t, w.t), w.r)

\* program: one statement and nothing after it.
Statement(g, s) ==
  LET type == CASE Hd(s) = "select" -> "SQL_select"
                [] Hd(s) = "insert" -> "SQL_insert"
                [] Hd(s) = "update" -> "SQL_update"
                [] OTHER -> "SQL_delete"
      p == g[type][s]
  IN  IF p = Fail THEN NULL ELSE IF p.r # <<>> THEN NULL
      ELSE StatementBuild(type, p.t)

Rules(g) ==
  [dotted_name |-> [s \in Seq(STRING) |-> DottedName(g, s)],
   field_name  |-> [s \in Seq(STRING) |-> FieldName(g, s)],
   primary     |-> [s \in Seq(STRING) |-> Primary(g, s)],
   field_raw   |-> [s \in Seq(STRING) |-> FieldRaw(g, s)],
   field       |-> [s \in Seq(STRING) |-> Field(g, s)],
   fields      |-> [s \in Seq(STRING) |-> ListOf(g, "field", "fields", ",", s)],
   where_item  |-> [s \in Seq(STRING) |-> WhereItem(g, s)],
   where_not   |-> [s \in Seq(STRING) |-> WhereNot(g, s)],
   and_list    |-> [s \in Seq(STRING) |-> ListOf(g, "where_not", "and_list", "and", s)],
   where_and   |-> [s \in Seq(STRING) |-> WhereLevel(g, "and_list", "and", s)],
   or_list     |-> [s \in Seq(STRING) |-> ListOf(g, "where_and", "or_list", "or", s)],
   where       |-> [s \in Seq(STRING) |-> WhereLevel(g, "or_list", "or", s)],
   order       |-> [s \in Seq(STRING) |-> OrderField(g, s)],
   orders      |-> [s \in Seq(STRING) |-> ListOf(g, "order", "orders", ",", s)],
   table       |-> [s \in Seq(STRING) |-> Table(g, s)],
   targets     |-> [s \in Seq(STRING) |-> Targets(g, Aliased(g.table[s]))],
   joined      |-> [s \in Seq(STRING) |-> Joined(g, s)],
   set_item    |-> [s \in Seq(STRING) |-> SetItem(g, s)],
   set         |-> [s \in Seq(STRING) |-> ListOf(g, "set_item", "set", ",", s)],
   SQL_select  |-> [s \in Seq(STRING) |-> Select(g, s)],
   SQL_insert  |-> [s \in Seq(STRING) |-> Insert(g, s)],
   SQL_update  |-> [s \in Seq(STRING) |-> Update(g, s)],
   SQL_delete  |-> [s \in Seq(STRING) |-> Delete(g, s)],
   statement   |-> [s \in Seq(STRING) |-> Statement(g, s)]]

\* The rules that may nest so deep: a deeper text overflows the parser's stack.
Grammar[depth \in 0..MaxDepth] ==
  IF depth = 0 THEN [rule \in DOMAIN Rules(NULL) |-> [s \in Seq(STRING) |-> Fail]]
  ELSE Rules(Grammar[depth - 1])

\* sql_parse: the tree of a text, or NULL.
SqlParse(s) == IF s \in Seq(STRING) THEN Grammar[MaxDepth].statement[s] ELSE NULL
=============================================================================

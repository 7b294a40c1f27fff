-------------------------- MODULE BondQuery_proofs --------------------------
(***************************************************************************)
(* Proofs about BondQuery: an object of which the query is to be generated *)
(* has a statement to generate it from; a new row gets the values that     *)
(* connect it to the rows the object is loaded by; and the conditions that *)
(* are appended to a statement mean what the calls say.                    *)
(*                                                                         *)
(* All three need to know that a statement is a tree the parser or an      *)
(* extension made.  So the rules of the grammar come first: by induction   *)
(* over its levels, every rule fails or leaves tokens, and a select has a  *)
(* list of tables.  Trees of conditions come next: a walk over one ends,   *)
(* what it selects and where a condition is inserted are defined by its    *)
(* operands, and the parser returns nothing else.  Then the references, as *)
(* sequences of what was told, the steps of bonddb_loadobjectbyobjects,    *)
(* each of which keeps IsProgress, and the calls, each of which keeps      *)
(* QueryInv.  Last, the conditions: the right side of a tree down to its   *)
(* first OR are the clauses that are complete, the tree there is the last  *)
(* clause (Means), and appending, joining and loading keep it so           *)
(* (ClauseInv).                                                            *)
(***************************************************************************)
EXTENDS BondQuery, SetInduction

-----------------------------------------------------------------------------
(* What the rules of the grammar leave of a text.                          *)

Tokens == Seq(STRING)

\* A rule fails, or leaves tokens.
Left(p) == p = Fail \/ p.r \in Tokens
RuleName == DOMAIN Rules(NULL) \ {"statement"}
Reading(g) == \A rule \in RuleName : \A s \in Tokens : Left(g[rule][s])

\* What a rule has read so far cannot take it past the end marker.
LEMMA FromTokens ==
  ASSUME NEW s \in Tokens, NEW n \in Nat \ {0}
  PROVE  From(s, n) \in Tokens
BY DEF Tokens, From

\* A token that is not the end marker is one of the text.
LEMMA TailTokens ==
  ASSUME NEW s \in Tokens, Hd(s) # "end"
  PROVE  Tail(s) \in Tokens
BY DEF Tokens, Hd

\* Got leaves the tokens it is told to.
LEMMA GotReads ==
  ASSUME NEW t, NEW r \in Tokens
  PROVE  Left(Got(t, r))
BY DEF Left, Got

\* Reading, rule by rule.
LEMMA ReadsByRule ==
  ASSUME NEW g, Reading(g), NEW s \in Tokens
  PROVE  /\ Left(g.dotted_name[s]) /\ Left(g.field_name[s]) /\ Left(g.primary[s])
         /\ Left(g.field_raw[s]) /\ Left(g.field[s]) /\ Left(g.fields[s])
         /\ Left(g.where_item[s]) /\ Left(g.where_not[s]) /\ Left(g.and_list[s])
         /\ Left(g.where_and[s]) /\ Left(g.or_list[s]) /\ Left(g.where[s])
         /\ Left(g.order[s]) /\ Left(g.orders[s]) /\ Left(g.table[s])
         /\ Left(g.targets[s]) /\ Left(g.joined[s]) /\ Left(g.set_item[s])
         /\ Left(g.set[s]) /\ Left(g.SQL_select[s]) /\ Left(g.SQL_insert[s])
         /\ Left(g.SQL_update[s]) /\ Left(g.SQL_delete[s])
BY DEF Reading, Rules, RuleName

\* dotted_name, a name qualified or not.
LEMMA DottedNameReads ==
  ASSUME NEW g, Reading(g), NEW s \in Tokens
  PROVE  Left(DottedName(g, s))
<1>1. From(s, 3) \in Tokens /\ From(s, 4) \in Tokens
  BY FromTokens
<1>2. Left(g.dotted_name[From(s, 3)])
  BY <1>1, ReadsByRule
<1>3. Hd(s) \in Ident => Tail(s) \in Tokens
  BY TailTokens, TokenAssumption
<1> QED
  BY <1>1, <1>2, <1>3 DEF DottedName, Left, Got

\* field_name, with its rename.
LEMMA FieldNameReads ==
  ASSUME NEW g, Reading(g), NEW s \in Tokens
  PROVE  Left(FieldName(g, s))
<1>1. Left(g.dotted_name[s])
  BY ReadsByRule
<1>2. Hd(s) \in {"*", "null", "##"} \cup Literal => Tail(s) \in Tokens
  BY TailTokens, TokenAssumption
<1> QED
  BY <1>1, <1>2 DEF FieldName, Left, Got

\* The list rules: an element, and the rest of the list after its separator.
LEMMA ListOfReads ==
  ASSUME NEW g, Reading(g), NEW s \in Tokens, NEW rule \in RuleName,
         NEW list \in RuleName, NEW sep, sep # "end"
  PROVE  Left(ListOf(g, rule, list, sep, s))
<1> DEFINE p == g[rule][s]
           q == g[list][Tail(p.r)]
<1>1. Left(p)
  BY DEF Reading
<1>2. p # Fail /\ Hd(p.r) = sep => Left(q)
  BY <1>1, TailTokens DEF Reading, Left
<1> HIDE DEF p, q
<1>3. ListOf(g, rule, list, sep, s) =
        CASE p = Fail -> Fail
          [] p # Fail /\ Hd(p.r) # sep -> Got(<<p.t>>, p.r)
          [] OTHER -> IF q = Fail THEN Fail ELSE Got(<<p.t>> \o q.t, q.r)
  BY DEF ListOf, p, q
<1>4. CASE p = Fail
  BY <1>3, <1>4 DEF Left
<1>5. CASE p # Fail /\ Hd(p.r) # sep
  BY <1>1, <1>3, <1>5 DEF Left, Got
<1>6. CASE p # Fail /\ Hd(p.r) = sep
  BY <1>2, <1>3, <1>6 DEF Left, Got
<1> QED
  BY <1>4, <1>5, <1>6

\* An optional part, after its keyword.
LEMMA OptReads ==
  ASSUME NEW g, Reading(g), NEW s \in Tokens, NEW rule \in RuleName,
         NEW keyword, Len(keyword) \in Nat, NEW none
  PROVE  Left(Opt(g, keyword, rule, s, none))
<1>1. From(s, Len(keyword) + 1) \in Tokens
  BY FromTokens
<1> QED
  BY <1>1 DEF Opt, Left, Got, Reading

\* A rule between parentheses.
LEMMA BracketedReads ==
  ASSUME NEW g, Reading(g), NEW s \in Tokens, NEW rule \in RuleName
  PROVE  Left(Bracketed(g, rule, s))
<1> DEFINE p == g[rule][Tail(s)]
<1>1. ASSUME Hd(s) = "(", Then(p, ")") PROVE Left(Got(p.t, Tail(p.r)))
  <2>1. Left(p)
    BY <1>1, TailTokens DEF Reading
  <2>2. p.r \in Tokens /\ Hd(p.r) = ")"
    BY <1>1, <2>1 DEF Left, Then
  <2>3. Tail(p.r) \in Tokens
    BY <2>2, TailTokens
  <2> QED
    BY <2>3, GotReads
<1> QED
  BY <1>1 DEF Bracketed, Left

\* order, a field and its direction.
LEMMA OrderFieldReads ==
  ASSUME NEW g, Reading(g), NEW s \in Tokens
  PROVE  Left(OrderField(g, s))
<1> DEFINE n == g.field_name[s]
<1>1. Left(n)
  BY ReadsByRule
<1>2. Then(n, "asc") \/ Then(n, "desc") => Tail(n.r) \in Tokens
  BY <1>1, TailTokens DEF Then, Left
<1> HIDE DEF n
<1> QED
  BY <1>1, <1>2 DEF OrderField, Left, Got, n

\* CHOOSE finds the least of a set of numbers.
LEMMA LeastChosen ==
  ASSUME NEW S \in SUBSET Nat, S # {}
  PROVE  (CHOOSE i \in S : \A j \in S : i <= j) \in S
<1>1. PICK m \in S : \A y \in S : ~(<<y, m>> \in OpToRel(<, Nat))
  BY NatLessThanWellFounded, WFMin
<1>2. \A j \in S : ~(j < m)
  BY <1>1 DEF OpToRel
<1>3. \A j \in S : m <= j
  BY <1>2
<1> QED
  BY <1>3

\* The parameter specification, up to its closing bracket.
LEMMA ParamSpecReads ==
  ASSUME NEW s \in Tokens
  PROVE  Left(ParamSpec(s))
<1> DEFINE ends == {i \in DOMAIN s : s[i] = "]"}
           e == CHOOSE i \in ends : \A j \in ends : i <= j
<1>1. ASSUME ends # {} PROVE From(s, e + 1) \in Tokens
  <2>1. ends \in SUBSET Nat
    BY DEF Tokens
  <2>2. e \in Nat
    BY <1>1, <2>1, LeastChosen
  <2> HIDE DEF e
  <2> QED
    BY <2>2, FromTokens
<1> HIDE DEF e, ends
<1> QED
  BY <1>1 DEF ParamSpec, Left, Got, e, ends

\* A function call, of a field or of a table.
LEMMA CallReads ==
  ASSUME NEW g, Reading(g), NEW s \in Tokens
  PROVE  /\ Left(Call(g, s, ItemFunction))
         /\ Left(Call(g, s, TableBuildFunction))
<1> DEFINE args == g.fields[From(s, 3)]
<1>1. From(s, 3) \in Tokens /\ From(s, 4) \in Tokens
  BY FromTokens
<1>2. Left(args)
  BY <1>1, ReadsByRule
<1>3. Then(args, ")") => Tail(args.r) \in Tokens
  BY <1>2, TailTokens DEF Then, Left
<1> HIDE DEF args
<1> QED
  BY <1>1, <1>3 DEF Call, Left, Got, args

\* The operands of an equation.
LEMMA PrimaryReads ==
  ASSUME NEW g, Reading(g), NEW s \in Tokens
  PROVE  Left(Primary(g, s))
<1>1. Left(g.SQL_select[s]) /\ Left(g.field_name[s])
  BY ReadsByRule
<1>2. Left(Bracketed(g, "field_raw", s))
  BY BracketedReads DEF Rules, RuleName
<1>3. Left(Call(g, s, ItemFunction))
  BY CallReads
<1> QED
  BY <1>1, <1>2, <1>3 DEF Primary, Left, Got

\* field_raw, an equation or its operand.
LEMMA FieldRawReads ==
  ASSUME NEW g, Reading(g), NEW s \in Tokens
  PROVE  Left(FieldRaw(g, s))
<1> DEFINE l == g.primary[s]
           r == g.field_raw[Tail(l.r)]
<1>1. Left(l)
  BY ReadsByRule
<1>2. l # Fail /\ Hd(l.r) \in FieldOp => Left(r)
  <2>1. l # Fail /\ Hd(l.r) \in FieldOp => Tail(l.r) \in Tokens
    BY <1>1, TailTokens DEF Left, FieldOp
  <2> QED
    BY <2>1, ReadsByRule
<1> HIDE DEF l, r
<1> QED
  BY <1>1, <1>2 DEF FieldRaw, Left, Got, l, r

\* field, with its parameter specification and its name.
LEMMA FieldReads ==
  ASSUME NEW g, Reading(g), NEW s \in Tokens
  PROVE  Left(Field(g, s))
<1> DEFINE raw == g.field_raw[s]
           par == ParamSpec(raw.r)
           fld == IF Hd(raw.r) = "[" /\ par # Fail
                  THEN Got(FieldSetParam(FieldBuild(raw.t), par.t), par.r)
                  ELSE Got(FieldBuild(raw.t), raw.r)
           as  == IF fld.t.param_spec # <<>> /\ Hd2(fld.r) \notin Ident THEN NULL
                  ELSE Alias(Tail(fld.r))
<1>1. Left(raw)
  BY ReadsByRule
<1>2. ASSUME raw # Fail PROVE fld.r \in Tokens /\ From(fld.r, 3) \in Tokens
  <2>1. raw.r \in Tokens
    BY <1>1, <1>2 DEF Left
  <2>2. Left(par)
    BY <2>1, ParamSpecReads
  <2>3. fld.r \in Tokens
    BY <2>1, <2>2 DEF Left, Got
  <2> QED
    BY <2>3, FromTokens
<1>3. Field(g, s) =
        CASE raw = Fail -> Fail
          [] raw # Fail /\ ~Then(fld, "as") -> fld
          [] OTHER -> IF as = NULL THEN Fail
                      ELSE Got(FieldSetAs(fld.t, as), From(fld.r, 3))
  BY DEF Field
<1> HIDE DEF raw, fld, as
<1>4. CASE raw = Fail
  BY <1>3, <1>4 DEF Left
<1>5. CASE raw # Fail /\ ~Then(fld, "as")
  BY <1>2, <1>3, <1>5 DEF Left
<1>6. CASE raw # Fail /\ Then(fld, "as")
  <2>1. Field(g, s) = IF as = NULL THEN Fail
                      ELSE Got(FieldSetAs(fld.t, as), From(fld.r, 3))
    BY <1>3, <1>6
  <2>2. From(fld.r, 3) \in Tokens
    BY <1>2, <1>6
  <2> QED
    BY <2>1, <2>2, GotReads DEF Left
<1> QED
  BY <1>4, <1>5, <1>6

\* where_item: a comparison, a BETWEEN, or a bracketed clause.
LEMMA WhereItemReads ==
  ASSUME NEW g, Reading(g), NEW s \in Tokens
  PROVE  Left(WhereItem(g, s))
<1> DEFINE f == g.field[s]
           op == Hd(f.r)
           op2 == Hd2(f.r)
           Negate(c, neg) == IF neg THEN ConditionNegate(c) ELSE c
           Pair(o, n, neg) ==
             LET r == g.field[From(f.r, n + 1)]
             IN  IF r = Fail THEN Fail
                 ELSE Got(Negate(Condition(f.t, r.t, ConditionOpOf(o)), neg), r.r)
           Between(n, neg) ==
             LET lo == g.field[From(f.r, n + 1)]
                 up == g.field[Tail(lo.r)]
             IN  IF ~Then(lo, "and") THEN Fail
                 ELSE IF up = Fail THEN Fail
                 ELSE Got(Negate(ConditionBetween(f.t, lo.t, up.t), neg), up.r)
           isop(o) == o \in ConditionOp \cup {"<>"}
<1>1. Left(f)
  BY ReadsByRule
<1>2. ASSUME f # Fail, NEW n \in Nat PROVE Left(g.field[From(f.r, n + 1)])
  <2>1. From(f.r, n + 1) \in Tokens
    BY <1>1, <1>2, FromTokens DEF Left
  <2> QED
    BY <2>1, ReadsByRule
<1>3. ASSUME f # Fail, NEW n \in Nat, NEW o, NEW neg PROVE Left(Pair(o, n, neg))
  <2>1. Left(g.field[From(f.r, n + 1)])
    BY <1>2, <1>3
  <2> QED
    BY <2>1 DEF Left, Got
<1>4. ASSUME f # Fail, NEW n \in Nat, NEW neg PROVE Left(Between(n, neg))
  <2> DEFINE lo == g.field[From(f.r, n + 1)]
             up == g.field[Tail(lo.r)]
  <2>1. Left(lo)
    BY <1>2, <1>4
  <2>2. Then(lo, "and") => Left(up)
    <3>1. Then(lo, "and") => Tail(lo.r) \in Tokens
      BY <2>1, TailTokens DEF Then, Left
    <3> QED
      BY <3>1, ReadsByRule
  <2>3. Between(n, neg) = IF ~Then(lo, "and") THEN Fail
                 ELSE IF up = Fail THEN Fail
                 ELSE Got(Negate(ConditionBetween(f.t, lo.t, up.t), neg), up.r)
    OBVIOUS
  <2> HIDE DEF lo, up, Between, f
  <2> QED
    BY <2>2, <2>3 DEF Left, Got
<1>5. WhereItem(g, s) =
        CASE f = Fail -> Fail
        [] f # Fail /\ op = "between" -> Between(1, FALSE)
        [] f # Fail /\ op = "not" /\ op2 = "between" -> Between(2, TRUE)
        [] f # Fail /\ op = "not" /\ isop(op2) -> Pair(op2, 2, TRUE)
        [] f # Fail /\ op = "is" /\ op2 = "not" -> Pair("is", 2, TRUE)
        [] f # Fail /\ isop(op) /\ ~(op = "not" /\ isop(op2)) /\ op2 # "between"
           /\ ~(op = "is" /\ op2 = "not") -> Pair(op, 1, FALSE)
        [] OTHER -> Fail
  BY DEF WhereItem
<1>6. f # Fail => /\ Left(Between(1, FALSE)) /\ Left(Between(2, TRUE))
                  /\ Left(Pair(op2, 2, TRUE)) /\ Left(Pair("is", 2, TRUE))
                  /\ Left(Pair(op, 1, FALSE))
  BY <1>3, <1>4
<1>7. Left(Fail)
  BY DEF Left
<1> HIDE DEF f, op, op2, Pair, Between, isop
<1> QED
  BY <1>5, <1>6, <1>7

\* where_not, an item that may be negated.
LEMMA WhereNotReads ==
  ASSUME NEW g, Reading(g), NEW s \in Tokens
  PROVE  Left(WhereNot(g, s))
<1> DEFINE item == g.where_item[s]
           not  == g.where_not[Tail(s)]
<1>1. Left(item) /\ Left(Bracketed(g, "where", s))
  BY ReadsByRule, BracketedReads DEF Rules, RuleName
<1>2. Hd(s) = "not" => Left(not)
  BY TailTokens, ReadsByRule
<1> HIDE DEF item, not
<1> QED
  BY <1>1, <1>2 DEF WhereNot, Left, Got, item, not

\* where_and and where: a list of the level below, folded.
LEMMA WhereLevelReads ==
  ASSUME NEW g, Reading(g), NEW s \in Tokens, NEW list \in RuleName, NEW op
  PROVE  Left(WhereLevel(g, list, op, s))
BY DEF WhereLevel, Left, Got, Reading

\* table: a name, a call or a select.
LEMMA TableReads ==
  ASSUME NEW g, Reading(g), NEW s \in Tokens
  PROVE  Left(Table(g, s))
<1>1. Left(g.SQL_select[s]) /\ Left(Call(g, s, TableBuildFunction))
  BY ReadsByRule, CallReads
<1>2. Left(Bracketed(g, "table", s))
  BY BracketedReads DEF Rules, RuleName
<1>3. Hd(s) \in Ident => Tail(s) \in Tokens
  BY TailTokens, TokenAssumption
<1> QED
  BY <1>1, <1>2, <1>3 DEF Table, Left, Got

\* A table with its name.
LEMMA AliasedReads ==
  ASSUME NEW t, Left(t)
  PROVE  Left(Aliased(t))
<1>1. t # Fail => From(t.r, 3) \in Tokens /\ (Hd(t.r) \in Ident => Tail(t.r) \in Tokens)
  BY FromTokens, TailTokens, TokenAssumption DEF Left
<1> QED
  BY <1>1 DEF Aliased, Left, Got, Then

\* The table of an insertion, an update or a deletion.
LEMMA SimpleTargetReads ==
  ASSUME NEW s \in Tokens
  PROVE  Left(SimpleTarget(s))
<1>1. Hd(s) \in Ident => Left(Got(TableBuild(s[1]), Tail(s)))
  BY TailTokens, TokenAssumption, GotReads
<1> QED
  BY <1>1, AliasedReads DEF SimpleTarget, Left

\* The tables of a select.
LEMMA TargetsReads ==
  ASSUME NEW g, Reading(g), NEW t, Left(t)
  PROVE  Left(Targets(g, t))
<1>1. t # Fail => Left(g.joined[t.r])
  BY ReadsByRule DEF Left
<1> QED
  BY <1>1 DEF Targets, Left, Got

\* What a comma or a join adds to the tables.
LEMMA JoinedReads ==
  ASSUME NEW g, Reading(g), NEW s \in Tokens
  PROVE  Left(Joined(g, s))
<1> DEFINE j == JoinType(s)
           t == Aliased(g.table[From(s, j[2] + 1)])
           on == g.where[Tail(t.r)]
           Join(cond, r) == Targets(g, Got(TableSetJoin(t.t, j[1], cond), r))
<1>1. j[2] \in Nat
  BY DEF JoinType
<1>2. Left(t)
  BY <1>1, FromTokens, ReadsByRule, AliasedReads
<1>3. t # Fail /\ Hd(t.r) = "on" => Left(on)
  BY <1>2, TailTokens, ReadsByRule DEF Left
<1>4. ASSUME NEW cond, NEW r \in Tokens PROVE Left(Join(cond, r))
  BY <1>4, GotReads, TargetsReads
<1>5. Hd(s) = "," => Left(Targets(g, Aliased(g.table[Tail(s)])))
  BY TailTokens, ReadsByRule, AliasedReads, TargetsReads
<1>6. Left(Got(<<>>, s)) /\ Left(Fail)
  BY GotReads DEF Left
<1>7. Joined(g, s) =
        CASE Hd(s) = "," -> Targets(g, Aliased(g.table[Tail(s)]))
        [] Hd(s) # "," /\ j[2] = 0 -> Got(<<>>, s)
        [] OTHER -> IF t = Fail THEN Fail
                    ELSE IF Hd(t.r) # "on" THEN Join(NULL, t.r)
                    ELSE IF on = Fail THEN Fail ELSE Join(on.t, on.r)
  BY DEF Joined
<1> HIDE DEF j, t, on, Join
<1>8. CASE Hd(s) = ","
  BY <1>5, <1>7, <1>8
<1>9. CASE Hd(s) # "," /\ j[2] = 0
  BY <1>6, <1>7, <1>9
<1>10. CASE Hd(s) # "," /\ j[2] # 0
  <2>1. Joined(g, s) = IF t = Fail THEN Fail
                    ELSE IF Hd(t.r) # "on" THEN Join(NULL, t.r)
                    ELSE IF on = Fail THEN Fail ELSE Join(on.t, on.r)
    BY <1>7, <1>10
  <2>2. t # Fail => Left(Join(NULL, t.r))
    BY <1>2, <1>4 DEF Left
  <2>3. t # Fail /\ Hd(t.r) = "on" /\ on # Fail => Left(Join(on.t, on.r))
    BY <1>3, <1>4 DEF Left
  <2> QED
    BY <1>6, <2>1, <2>2, <2>3
<1> QED
  BY <1>8, <1>9, <1>10

\* The optional WHERE.
LEMMA OptWhereReads ==
  ASSUME NEW g, Reading(g), NEW s \in Tokens
  PROVE  Left(OptWhere(g, s))
<1>1. "where" \in RuleName
  BY DEF Rules, RuleName
<1> QED
  BY <1>1, OptReads DEF OptWhere

\* select_statement.
LEMMA SelectReads ==
  ASSUME NEW g, Reading(g), NEW s \in Tokens
  PROVE  Left(Select(g, s))
<1> DEFINE d == Hd2(s) = "distinct"
           f == g.fields[From(s, IF d THEN 3 ELSE 2)]
           t == Opt(g, <<"from">>, "targets", f.r, <<>>)
           w == OptWhere(g, t.r)
           o == Opt(g, <<"order", "by">>, "orders", w.r, <<>>)
           c == Opt(g, <<"group", "by">>, "fields", o.r, <<>>)
<1>1. {"targets", "orders", "fields"} \subseteq RuleName
  BY DEF Rules, RuleName
<1>2. Left(f)
  BY FromTokens, ReadsByRule
<1>3. f # Fail => Left(t)
  BY <1>1, <1>2, OptReads DEF Left
<1>4. f # Fail /\ t # Fail => Left(w)
  BY <1>3, OptWhereReads DEF Left
<1>5. f # Fail /\ t # Fail /\ w # Fail => Left(o)
  BY <1>1, <1>4, OptReads DEF Left
<1>6. f # Fail /\ t # Fail /\ w # Fail /\ o # Fail => Left(c)
  BY <1>1, <1>5, OptReads DEF Left
<1>7. Select(g, s) =
        IF Hd(s) # "select" THEN Fail ELSE IF f = Fail THEN Fail
        ELSE IF t = Fail THEN Fail ELSE IF w = Fail THEN Fail
        ELSE IF o = Fail THEN Fail ELSE IF c = Fail THEN Fail
        ELSE Got(SelectBuild(d, f.t, t.t, w.t, o.t, c.t), c.r)
  BY DEF Select
<1> HIDE DEF d, f, t, w, o, c
<1> QED
  BY <1>6, <1>7, GotReads DEF Left

\* insert_statement.
LEMMA InsertReads ==
  ASSUME NEW g, Reading(g), NEW s \in Tokens
  PROVE  Left(Insert(g, s))
<1> DEFINE t == SimpleTarget(From(s, 3))
           f == IF Then(t, "(") THEN Bracketed(g, "fields", t.r) ELSE Got(<<>>, t.r)
           v == Bracketed(g, "fields", Tail(f.r))
<1>1. "fields" \in RuleName
  BY DEF Rules, RuleName
<1>2. Left(t)
  BY FromTokens, SimpleTargetReads
<1>3. t # Fail => Left(f)
  BY <1>1, <1>2, BracketedReads, GotReads DEF Left
<1>4. t # Fail /\ Then(f, "values") => Left(v)
  <2>1. t # Fail /\ Then(f, "values") => Tail(f.r) \in Tokens
    BY <1>3, TailTokens DEF Left, Then
  <2> QED
    BY <1>1, <2>1, BracketedReads
<1>5. Insert(g, s) =
        IF ~IsPrefix(<<"insert", "into">>, s) \/ t = Fail THEN Fail
        ELSE IF f = Fail THEN Fail ELSE IF ~Then(f, "values") THEN Fail
        ELSE IF v = Fail THEN Fail ELSE Got(InsertBuild(t.t, f.t, v.t), v.r)
  BY DEF Insert
<1> HIDE DEF t, f, v
<1> QED
  BY <1>4, <1>5, GotReads DEF Left

\* An assignment of an update.
LEMMA SetItemReads ==
  ASSUME NEW g, Reading(g), NEW s \in Tokens
  PROVE  Left(SetItem(g, s))
<1> DEFINE l == g.field[s]
           r == g.field[Tail(l.r)]
<1>1. Left(l)
  BY ReadsByRule
<1>2. Then(l, "=") => Left(r)
  <2>1. Then(l, "=") => Tail(l.r) \in Tokens
    BY <1>1, TailTokens DEF Left, Then
  <2> QED
    BY <2>1, ReadsByRule
<1> HIDE DEF l, r
<1> QED
  BY <1>2 DEF SetItem, Left, Got, l, r

\* update_statement.
LEMMA UpdateReads ==
  ASSUME NEW g, Reading(g), NEW s \in Tokens
  PROVE  Left(Update(g, s))
<1> DEFINE t == SimpleTarget(Tail(s))
           i == g.set[Tail(t.r)]
           w == OptWhere(g, i.r)
<1>1. Hd(s) = "update" => Left(t)
  BY TailTokens, SimpleTargetReads
<1>2. Hd(s) = "update" /\ Then(t, "set") => Left(i)
  <2>1. Hd(s) = "update" /\ Then(t, "set") => Tail(t.r) \in Tokens
    BY <1>1, TailTokens DEF Left, Then
  <2> QED
    BY <2>1, ReadsByRule
<1>3. Hd(s) = "update" /\ Then(t, "set") /\ i # Fail => Left(w)
  BY <1>2, OptWhereReads DEF Left
<1>4. Update(g, s) =
        IF Hd(s) # "update" THEN Fail ELSE IF ~Then(t, "set") THEN Fail
        ELSE IF i = Fail THEN Fail ELSE IF w = Fail THEN Fail
        ELSE Got(UpdateBuild(t.t, i.t, w.t), w.r)
  BY DEF Update
<1> HIDE DEF t, i, w
<1> QED
  BY <1>3, <1>4, GotReads DEF Left

\* delete_statement.
LEMMA DeleteReads ==
  ASSUME NEW g, Reading(g), NEW s \in Tokens
  PROVE  Left(Delete(g, s))
<1> DEFINE t == SimpleTarget(From(s, 3))
           w == OptWhere(g, t.r)
<1>1. Left(t)
  BY FromTokens, SimpleTargetReads
<1>2. t # Fail => Left(w)
  BY <1>1, OptWhereReads DEF Left
<1>3. Delete(g, s) =
        IF ~IsPrefix(<<"delete", "from">>, s) \/ t = Fail THEN Fail
        ELSE IF w = Fail THEN Fail ELSE Got(DeleteBuild(t.t, w.t), w.r)
  BY DEF Delete
<1> HIDE DEF t, w
<1> QED
  BY <1>2, <1>3, GotReads DEF Left

-----------------------------------------------------------------------------
(* The grammar, level by level.                                            *)

\* The grammar one level deeper is its rules over the levels above: the
\* recursive function exists.
LEMMA GrammarUnfolds ==
  /\ Grammar[0] = [rule \in DOMAIN Rules(NULL) |-> [s \in Seq(STRING) |-> Fail]]
  /\ \A d \in 1..MaxDepth : Grammar[d] = Rules(Grammar[d - 1])
<1> DEFINE zero == [rule \in DOMAIN Rules(NULL) |-> [s \in Seq(STRING) |-> Fail]]
           Builds(h, n) == /\ DOMAIN h = 0..n /\ h[0] = zero
                           /\ \A d \in 1..n : h[d] = Rules(h[d - 1])
           T == {n \in Nat : \E h : Builds(h, n)}
           grammar[depth \in 0..MaxDepth] ==
             IF depth = 0 THEN zero ELSE Rules(grammar[depth - 1])
<1> HIDE DEF zero
<1>1. 0 \in T
  <2> DEFINE h == [d \in 0..0 |-> zero]
  <2>1. Builds(h, 0)
    OBVIOUS
  <2> HIDE DEF h, Builds
  <2> QED
    BY <2>1
<1>2. ASSUME NEW n \in Nat, n \in T PROVE n + 1 \in T
  <2>1. PICK h : Builds(h, n)
    BY <1>2
  <2> DEFINE k == [d \in 0..(n + 1) |-> IF d = n + 1 THEN Rules(h[n]) ELSE h[d]]
  <2>2. DOMAIN k = 0..(n + 1) /\ k[0] = zero
    BY <2>1
  <2>3. ASSUME NEW d \in 1..(n + 1) PROVE k[d] = Rules(k[d - 1])
    <3>1. d - 1 \in 0..n /\ k[d - 1] = h[d - 1]
      OBVIOUS
    <3>2. CASE d = n + 1
      BY <3>1, <3>2
    <3>3. CASE d \in 1..n
      BY <2>1, <3>1, <3>3
    <3> QED
      BY <3>2, <3>3
  <2> HIDE DEF k
  <2>4. Builds(k, n + 1)
    BY <2>2, <2>3
  <2> HIDE DEF Builds
  <2> QED
    BY <2>4
<1> HIDE DEF T
<1>3. MaxDepth \in T
  BY <1>1, <1>2, NatSetInduction, TokenAssumption
<1>4. PICK h : Builds(h, MaxDepth)
  BY <1>3 DEF T
<1> DEFINE h1 == [d \in 0..MaxDepth |-> h[d]]
<1>5. h1 = [depth \in 0..MaxDepth |-> IF depth = 0 THEN zero ELSE Rules(h1[depth - 1])]
  <2>1. \A depth \in 0..MaxDepth : h1[depth] = IF depth = 0 THEN zero ELSE Rules(h1[depth - 1])
    <3> SUFFICES ASSUME NEW depth \in 0..MaxDepth
                 PROVE  h1[depth] = IF depth = 0 THEN zero ELSE Rules(h1[depth - 1])
      OBVIOUS
    <3>1. CASE depth = 0
      BY <1>4, <3>1
    <3>2. CASE depth # 0
      <4>1. depth \in 1..MaxDepth /\ depth - 1 \in 0..MaxDepth
        BY <3>2, TokenAssumption
      <4>2. h1[depth] = h[depth] /\ h1[depth - 1] = h[depth - 1]
        BY <4>1
      <4> HIDE DEF h1
      <4> QED
        BY <1>4, <3>2, <4>1, <4>2
    <3> QED
      BY <3>1, <3>2
  <2> QED
    BY <2>1
<1> HIDE DEF h1, Builds
<1>6. grammar = [depth \in 0..MaxDepth |->
                   IF depth = 0 THEN zero ELSE Rules(grammar[depth - 1])]
  <2>1. \E f : f = [depth \in 0..MaxDepth |->
                   IF depth = 0 THEN zero ELSE Rules(f[depth - 1])]
    BY <1>5
  <2> QED
    BY <2>1 DEF grammar
<1>7. Grammar = grammar
  BY DEF Grammar, grammar, zero
<1> HIDE DEF grammar
<1>8. \A depth \in 0..MaxDepth :
        grammar[depth] = IF depth = 0 THEN zero ELSE Rules(grammar[depth - 1])
  BY <1>6
<1>9. /\ grammar[0] = zero
      /\ \A d \in 1..MaxDepth : grammar[d] = Rules(grammar[d - 1])
  BY <1>8, TokenAssumption
<1> QED
  BY <1>7, <1>9 DEF zero

-----------------------------------------------------------------------------
(* The trees.                                                              *)

\* A statement, as the tree of a text: what an update or a deletion is made of
\* does not matter here, a select has a list of tables.
IsList(l) == l \in Seq(Range(l))
IsSelect(s) ==
  \E d, fs, from, w, o, g :
    s = SelectBuild(d, fs, from, w, o, g) /\ IsList(from)
IsStatement(t) ==
  \E type, s : t = StatementBuild(type, s) /\ (type = "SQL_select" => IsSelect(s))

\* The lists of tables that a rule returns.
ListsTables(g) ==
  \A s \in Tokens : /\ g.targets[s] # Fail => IsList(g.targets[s].t)
                    /\ g.joined[s] # Fail => IsList(g.joined[s].t)
                    /\ g.SQL_select[s] # Fail => IsSelect(g.SQL_select[s].t)

\* Over rules that leave tokens the rules leave tokens.
LEMMA RulesRead ==
  ASSUME NEW g, Reading(g)
  PROVE  Reading(Rules(g))
<1> SUFFICES ASSUME NEW s \in Tokens, NEW rule \in RuleName
             PROVE  Left(Rules(g)[rule][s])
  BY DEF Reading
<1> DEFINE R == Rules(g)
<1>1. {"field", "where_not", "where_and", "order", "set_item", "fields", "and_list",
       "or_list", "orders", "set"} \subseteq RuleName
  BY DEF RuleName, Rules
<1>2. /\ Left(R.dotted_name[s]) /\ Left(R.field_name[s]) /\ Left(R.primary[s])
      /\ Left(R.field_raw[s]) /\ Left(R.field[s])
  BY DottedNameReads, FieldNameReads, PrimaryReads, FieldRawReads, FieldReads
  DEF Rules, Tokens
<1>3. Left(R.fields[s]) /\ Left(R.and_list[s]) /\ Left(R.or_list[s])
      /\ Left(R.orders[s]) /\ Left(R.set[s])
  BY <1>1, ListOfReads DEF Rules, Tokens
<1>4. Left(R.where_item[s]) /\ Left(R.where_not[s]) /\ Left(R.where_and[s])
      /\ Left(R.where[s]) /\ Left(R.order[s])
  BY <1>1, WhereItemReads, WhereNotReads, WhereLevelReads, OrderFieldReads
  DEF Rules, Tokens
<1>5. Left(R.table[s]) /\ Left(R.targets[s]) /\ Left(R.joined[s])
      /\ Left(R.set_item[s])
  BY ReadsByRule, TableReads, AliasedReads, TargetsReads, JoinedReads, SetItemReads
  DEF Rules, Tokens
<1>6. Left(R.SQL_select[s]) /\ Left(R.SQL_insert[s]) /\ Left(R.SQL_update[s])
      /\ Left(R.SQL_delete[s])
  BY SelectReads, InsertReads, UpdateReads, DeleteReads DEF Rules, Tokens
<1>7. RuleName = {"dotted_name", "field_name", "primary", "field_raw", "field",
        "fields", "where_item", "where_not", "and_list", "where_and", "or_list",
        "where", "order", "orders", "table", "targets", "joined", "set_item",
        "set", "SQL_select", "SQL_insert", "SQL_update", "SQL_delete"}
  BY DEF RuleName, Rules
<1> HIDE DEF R
<1>8. Left(R[rule][s])
  BY <1>2, <1>3, <1>4, <1>5, <1>6, <1>7
<1> QED
  BY <1>8 DEF R

\* A sequence of anything is a list.
LEMMA SequenceIsList ==
  ASSUME NEW S, NEW l \in Seq(S)
  PROVE  IsList(l)
BY DEF IsList, Range

\* An empty list is one.
LEMMA EmptyIsList == IsList(<<>>)
<1>1. <<>> \in Seq({})
  OBVIOUS
<1> QED
  BY <1>1, SequenceIsList

\* A list with one more element in front.
LEMMA ListWithHead ==
  ASSUME NEW x, NEW l, IsList(l)
  PROVE  IsList(<<x>> \o l)
<1> DEFINE S == {x} \cup Range(l)
<1>1. l \in Seq(S)
  BY DEF IsList
<1>2. <<x>> \o l \in Seq(S)
  BY <1>1
<1> HIDE DEF S
<1> QED
  BY <1>2, SequenceIsList

\* A list with one more element at its end.
LEMMA ListWithLast ==
  ASSUME NEW x, NEW l, IsList(l)
  PROVE  IsList(Append(l, x))
<1> DEFINE S == {x} \cup Range(l)
<1>1. l \in Seq(S)
  BY DEF IsList
<1>2. Append(l, x) \in Seq(S)
  BY <1>1
<1> HIDE DEF S
<1> QED
  BY <1>2, SequenceIsList

\* The tables of a select are a list.
LEMMA TargetsLists ==
  ASSUME NEW g, ListsTables(g), NEW t, Left(t)
  PROVE  Targets(g, t) # Fail => IsList(Targets(g, t).t)
<1>1. t # Fail /\ g.joined[t.r] # Fail => IsList(g.joined[t.r].t)
  BY DEF ListsTables, Left
<1>2. t # Fail /\ g.joined[t.r] # Fail => IsList(<<t.t>> \o g.joined[t.r].t)
  BY <1>1, ListWithHead
<1> QED
  BY <1>2 DEF Targets, Got

\* The tables joined to others are a list.
LEMMA JoinedLists ==
  ASSUME NEW g, Reading(g), ListsTables(g), NEW s \in Tokens
  PROVE  Joined(g, s) # Fail => IsList(Joined(g, s).t)
<1> DEFINE j == JoinType(s)
           t == Aliased(g.table[From(s, j[2] + 1)])
           on == g.where[Tail(t.r)]
           Join(cond, r) == Targets(g, Got(TableSetJoin(t.t, j[1], cond), r))
           Lists(p) == p # Fail => IsList(p.t)
<1>1. j[2] \in Nat
  BY DEF JoinType
<1>2. Left(t)
  BY <1>1, FromTokens, ReadsByRule, AliasedReads
<1>3. t # Fail /\ Hd(t.r) = "on" => Left(on)
  BY <1>2, TailTokens, ReadsByRule DEF Left
<1>4. ASSUME NEW cond, NEW r \in Tokens PROVE Lists(Join(cond, r))
  BY <1>4, GotReads, TargetsLists
<1>5. Hd(s) = "," => Lists(Targets(g, Aliased(g.table[Tail(s)])))
  <2>1. Hd(s) = "," => Left(Aliased(g.table[Tail(s)]))
    BY TailTokens, ReadsByRule, AliasedReads
  <2> QED
    BY <2>1, TargetsLists
<1>6. Lists(Got(<<>>, s)) /\ Lists(Fail)
  BY EmptyIsList DEF Got
<1>7. Joined(g, s) =
        CASE Hd(s) = "," -> Targets(g, Aliased(g.table[Tail(s)]))
        [] Hd(s) # "," /\ j[2] = 0 -> Got(<<>>, s)
        [] OTHER -> IF t = Fail THEN Fail
                    ELSE IF Hd(t.r) # "on" THEN Join(NULL, t.r)
                    ELSE IF on = Fail THEN Fail ELSE Join(on.t, on.r)
  BY DEF Joined
<1> HIDE DEF j, t, on, Join, Lists
<1>8. CASE Hd(s) = ","
  BY <1>5, <1>7, <1>8 DEF Lists
<1>9. CASE Hd(s) # "," /\ j[2] = 0
  BY <1>6, <1>7, <1>9 DEF Lists
<1>10. CASE Hd(s) # "," /\ j[2] # 0
  <2>1. Joined(g, s) = IF t = Fail THEN Fail
                    ELSE IF Hd(t.r) # "on" THEN Join(NULL, t.r)
                    ELSE IF on = Fail THEN Fail ELSE Join(on.t, on.r)
    BY <1>7, <1>10
  <2>2. t # Fail => Lists(Join(NULL, t.r))
    BY <1>2, <1>4 DEF Left
  <2>3. t # Fail /\ Hd(t.r) = "on" /\ on # Fail => Lists(Join(on.t, on.r))
    BY <1>3, <1>4 DEF Left
  <2>4. Lists(Joined(g, s))
    BY <1>6, <2>1, <2>2, <2>3
  <2> QED
    BY <2>4 DEF Lists
<1> QED
  BY <1>8, <1>9, <1>10

\* A select statement has a list of tables.
LEMMA SelectIsSelect ==
  ASSUME NEW g, Reading(g), ListsTables(g), NEW s \in Tokens
  PROVE  Select(g, s) # Fail => IsSelect(Select(g, s).t)
<1> DEFINE d == Hd2(s) = "distinct"
           f == g.fields[From(s, IF d THEN 3 ELSE 2)]
           t == Opt(g, <<"from">>, "targets", f.r, <<>>)
           w == OptWhere(g, t.r)
           o == Opt(g, <<"order", "by">>, "orders", w.r, <<>>)
           c == Opt(g, <<"group", "by">>, "fields", o.r, <<>>)
<1>1. Left(f)
  BY FromTokens, ReadsByRule
<1>2. ASSUME f # Fail, t # Fail PROVE IsList(t.t)
  <2>1. f.r \in Tokens
    BY <1>1, <1>2 DEF Left
  <2>2. From(f.r, Len(<<"from">>) + 1) \in Tokens
    BY <2>1, FromTokens
  <2>3. g.targets[From(f.r, Len(<<"from">>) + 1)] # Fail
           => IsList(g.targets[From(f.r, Len(<<"from">>) + 1)].t)
    BY <2>2 DEF ListsTables
  <2>4. IsList(<<>>)
    BY EmptyIsList
  <2> HIDE DEF f
  <2> QED
    BY <1>2, <2>3, <2>4 DEF Opt, Got
<1>3. Select(g, s) =
        IF Hd(s) # "select" THEN Fail ELSE IF f = Fail THEN Fail
        ELSE IF t = Fail THEN Fail ELSE IF w = Fail THEN Fail
        ELSE IF o = Fail THEN Fail ELSE IF c = Fail THEN Fail
        ELSE Got(SelectBuild(d, f.t, t.t, w.t, o.t, c.t), c.r)
  BY DEF Select
<1> HIDE DEF d, f, t, w, o, c
<1> SUFFICES ASSUME Select(g, s) # Fail PROVE IsSelect(Select(g, s).t)
  OBVIOUS
<1>4. Select(g, s).t = SelectBuild(d, f.t, t.t, w.t, o.t, c.t)
  BY <1>3 DEF Got
<1>5. IsList(t.t)
  BY <1>2, <1>3
<1> QED
  BY <1>4, <1>5 DEF IsSelect

\* Over rules that return lists of tables the rules return lists of tables.
LEMMA RulesList ==
  ASSUME NEW g, Reading(g), ListsTables(g)
  PROVE  ListsTables(Rules(g))
<1> SUFFICES ASSUME NEW s \in Tokens
             PROVE  /\ Rules(g).targets[s] # Fail => IsList(Rules(g).targets[s].t)
                    /\ Rules(g).joined[s] # Fail => IsList(Rules(g).joined[s].t)
                    /\ Rules(g).SQL_select[s] # Fail => IsSelect(Rules(g).SQL_select[s].t)
  BY DEF ListsTables
<1>1. Left(Aliased(g.table[s]))
  BY ReadsByRule, AliasedReads
<1>2. /\ Rules(g).targets[s] = Targets(g, Aliased(g.table[s]))
      /\ Rules(g).joined[s] = Joined(g, s)
      /\ Rules(g).SQL_select[s] = Select(g, s)
  BY DEF Rules, Tokens
<1> QED
  BY <1>1, <1>2, TargetsLists, JoinedLists, SelectIsSelect

\* What every rule of the grammar does with a text.
LEMMA GrammarReads ==
  \A d \in 0..MaxDepth : Reading(Grammar[d]) /\ ListsTables(Grammar[d])
<1> DEFINE T == {d \in Nat : d \in 0..MaxDepth =>
                               Reading(Grammar[d]) /\ ListsTables(Grammar[d])}
<1>1. 0 \in T
  <2>1. \A rule \in DOMAIN Rules(NULL), s \in Tokens : Grammar[0][rule][s] = Fail
    BY GrammarUnfolds DEF Tokens
  <2>2. Grammar[0].targets = Grammar[0]["targets"] /\ Grammar[0].joined = Grammar[0]["joined"]
    OBVIOUS
  <2>3. {"targets", "joined", "SQL_select"} \subseteq DOMAIN Rules(NULL)
    BY DEF Rules
  <2>4. Reading(Grammar[0])
    BY <2>1 DEF Reading, Left, RuleName
  <2>5. ListsTables(Grammar[0])
    BY <2>1, <2>3 DEF ListsTables
  <2> QED
    BY <2>4, <2>5
<1>2. ASSUME NEW d \in Nat, d \in T PROVE d + 1 \in T
  <2> SUFFICES ASSUME d + 1 \in 0..MaxDepth
               PROVE  Reading(Grammar[d + 1]) /\ ListsTables(Grammar[d + 1])
    OBVIOUS
  <2>1. d \in 0..MaxDepth /\ d + 1 \in 1..MaxDepth /\ (d + 1) - 1 = d
    BY TokenAssumption
  <2>2. Grammar[d + 1] = Rules(Grammar[d])
    BY <2>1, GrammarUnfolds
  <2>3. Reading(Grammar[d]) /\ ListsTables(Grammar[d])
    BY <1>2, <2>1
  <2>4. Reading(Rules(Grammar[d])) /\ ListsTables(Rules(Grammar[d]))
    BY <2>3, RulesRead, RulesList
  <2> QED
    BY <2>2, <2>4
<1> HIDE DEF T
<1>3. Nat \subseteq T
  BY <1>1, <1>2, NatSetInduction
<1> QED
  BY <1>3, TokenAssumption DEF T

\* sql_parse returns a statement, or none.
LEMMA ParseIsStatement ==
  ASSUME NEW text
  PROVE  SqlParse(text) # NULL => IsStatement(SqlParse(text))
<1> SUFFICES ASSUME text \in Seq(STRING), SqlParse(text) # NULL
             PROVE  IsStatement(SqlParse(text))
  BY DEF SqlParse
<1>1. SqlParse(text) = Grammar[MaxDepth].statement[text]
  BY DEF SqlParse
<1>2. CASE MaxDepth = 0
  <2>1. "statement" \in DOMAIN Rules(NULL)
    BY DEF Rules
  <2> QED
    BY <1>1, <1>2, <2>1, GrammarUnfolds DEF Fail
<1>3. CASE MaxDepth # 0
  <2>1. MaxDepth \in 1..MaxDepth /\ MaxDepth - 1 \in 0..MaxDepth
    BY <1>3, TokenAssumption
  <2> DEFINE g == Grammar[MaxDepth - 1]
  <2>2. Reading(g) /\ ListsTables(g)
    BY <2>1, GrammarReads
  <2>3. Grammar[MaxDepth] = Rules(g)
    BY <2>1, GrammarUnfolds
  <2> HIDE DEF g
  <2>4. SqlParse(text) = Statement(g, text)
    <3>1. Rules(g).statement[text] = Statement(g, text)
      BY DEF Rules
    <3> QED
      BY <1>1, <2>3, <3>1
  <2>5. g.SQL_select[text] # Fail => IsSelect(g.SQL_select[text].t)
    BY <2>2 DEF ListsTables, Tokens
  <2> QED
    BY <2>4, <2>5 DEF Statement, IsStatement
<1> QED
  BY <1>2, <1>3

-----------------------------------------------------------------------------
(* The levels of a tree of conditions.                                     *)

\* The first levels below w, as a function.
LevelTo(f, w, n) ==
  f = [m \in 0..n |-> IF m = 0 THEN {w} ELSE UNION {Operands(v) : v \in f[m - 1]}]

\* The levels below a tree exist, as many as one likes,
LEMMA LevelsToExist ==
  ASSUME NEW w
  PROVE  \A n \in Nat : \E f : LevelTo(f, w, n)
<1> DEFINE T == {n \in Nat : \E f : LevelTo(f, w, n)}
<1>1. 0 \in T
  <2> DEFINE f == [m \in 0..0 |-> {w}]
  <2>1. LevelTo(f, w, 0)
    BY DEF LevelTo
  <2> QED
    BY <2>1
<1>2. ASSUME NEW n \in Nat, n \in T PROVE n + 1 \in T
  <2>1. PICK f : LevelTo(f, w, n)
    BY <1>2
  <2> DEFINE g == [m \in 0..n + 1 |-> IF m = 0 THEN {w} ELSE UNION {Operands(v) : v \in f[m - 1]}]
  <2>2. ASSUME NEW m \in 0..n PROVE g[m] = f[m]
    <3>1. m \in 0..n + 1
      OBVIOUS
    <3> QED
      BY <2>1, <3>1 DEF LevelTo
  <2>3. \A m \in 0..n + 1 : m # 0 => m - 1 \in 0..n
    OBVIOUS
  <2>4. LevelTo(g, w, n + 1)
    BY <2>2, <2>3 DEF LevelTo
  <2> HIDE DEF g
  <2> QED
    BY <2>4
<1> HIDE DEF T
<1>3. Nat \subseteq T
  BY <1>1, <1>2, NatSetInduction
<1> QED
  BY <1>3 DEF T

\* and are what they are however many one looks at.
LEMMA LevelsToAgree ==
  ASSUME NEW w, NEW n \in Nat, NEW m \in Nat, NEW f, NEW g,
         LevelTo(f, w, n), LevelTo(g, w, m)
  PROVE  \A k \in Nat : k <= n /\ k <= m => f[k] = g[k]
<1> DEFINE T == {k \in Nat : k <= n /\ k <= m => f[k] = g[k]}
<1>1. 0 \in T
  BY DEF LevelTo
<1>2. ASSUME NEW k \in Nat, k \in T PROVE k + 1 \in T
  <2>1. SUFFICES ASSUME k + 1 <= n, k + 1 <= m PROVE f[k + 1] = g[k + 1]
    OBVIOUS
  <2>2. f[k] = g[k]
    BY <1>2, <2>1
  <2>3. f[k + 1] = UNION {Operands(v) : v \in f[k]}
    <3>1. k + 1 \in 0..n /\ k + 1 # 0 /\ k + 1 - 1 = k
      BY <2>1
    <3> QED
      BY <3>1 DEF LevelTo
  <2>4. g[k + 1] = UNION {Operands(v) : v \in g[k]}
    <3>1. k + 1 \in 0..m /\ k + 1 # 0 /\ k + 1 - 1 = k
      BY <2>1
    <3> QED
      BY <3>1 DEF LevelTo
  <2> QED
    BY <2>2, <2>3, <2>4
<1> HIDE DEF T
<1>3. Nat \subseteq T
  BY <1>1, <1>2, NatSetInduction
<1> QED
  BY <1>3 DEF T

\* Level is what it is defined to be.
LEMMA LevelUnfolds ==
  ASSUME NEW w
  PROVE  /\ Level(w)[0] = {w}
         /\ \A n \in Nat : Level(w)[n + 1] = UNION {Operands(v) : v \in Level(w)[n]}
<1> DEFINE f(n) == CHOOSE f : LevelTo(f, w, n)
           h == [n \in Nat |-> f(n)[n]]
           Eq(l) == l = [n \in Nat |-> IF n = 0 THEN {w}
                                       ELSE UNION {Operands(v) : v \in l[n - 1]}]
<1>1. ASSUME NEW n \in Nat PROVE LevelTo(f(n), w, n)
  BY LevelsToExist
<1> HIDE DEF f
<1>2. ASSUME NEW n \in Nat, NEW k \in Nat, k <= n PROVE f(n)[k] = h[k]
  BY <1>1, <1>2, LevelsToAgree
<1>3. ASSUME NEW n \in Nat
      PROVE  h[n] = IF n = 0 THEN {w} ELSE UNION {Operands(v) : v \in h[n - 1]}
  <2>1. f(n)[n] = IF n = 0 THEN {w} ELSE UNION {Operands(v) : v \in f(n)[n - 1]}
    <3> DEFINE e == f(n)
    <3>1. e = [m \in 0..n |-> IF m = 0 THEN {w} ELSE UNION {Operands(v) : v \in e[m - 1]}]
      BY <1>1 DEF LevelTo
    <3> HIDE DEF e
    <3>2. n \in 0..n
      OBVIOUS
    <3>3. e[n] = IF n = 0 THEN {w} ELSE UNION {Operands(v) : v \in e[n - 1]}
      BY <3>1, <3>2
    <3> QED
      BY <3>3 DEF e
  <2>2. n # 0 => f(n)[n - 1] = h[n - 1]
    BY <1>2
  <2>3. f(n)[n] = h[n]
    BY <1>2
  <2> HIDE DEF h
  <2> QED
    BY <2>1, <2>2, <2>3
<1>4. h = [n \in Nat |-> h[n]]
  OBVIOUS
<1>5. Eq(h)
  <2> HIDE DEF h
  <2> QED
    BY <1>3, <1>4
<1> HIDE DEF h
<1>6. Level(w) = CHOOSE l : Eq(l)
  BY DEF Level
<1>7. Eq(Level(w))
  <2> HIDE DEF Eq
  <2> QED
    BY <1>5, <1>6
<1>8. ASSUME NEW n \in Nat PROVE Level(w)[n + 1] = UNION {Operands(v) : v \in Level(w)[n]}
  <2>1. n + 1 \in Nat /\ n + 1 # 0 /\ n + 1 - 1 = n
    OBVIOUS
  <2> QED
    BY <1>7, <2>1
<1>9. Level(w)[0] = {w}
  BY <1>7
<1> QED
  BY <1>8, <1>9

\* Once there is nothing below, there is nothing further down.
LEMMA LevelsEnd ==
  ASSUME NEW w, NEW n \in Nat, Level(w)[n] = {}
  PROVE  \A m \in Nat : Level(w)[n + m] = {}
<1> DEFINE T == {m \in Nat : Level(w)[n + m] = {}}
<1>1. 0 \in T
  OBVIOUS
<1>2. ASSUME NEW m \in Nat, m \in T PROVE m + 1 \in T
  <2>1. Level(w)[n + m] = {} /\ n + m \in Nat /\ n + (m + 1) = (n + m) + 1
    BY <1>2
  <2>2. Level(w)[(n + m) + 1] = UNION {Operands(v) : v \in Level(w)[n + m]}
    BY <2>1, LevelUnfolds
  <2> QED
    BY <2>1, <2>2
<1> HIDE DEF T
<1>3. Nat \subseteq T
  BY <1>1, <1>2, NatSetInduction
<1> QED
  BY <1>3 DEF T

\* What is below w is what is below its operands, a level higher.
LEMMA LevelOfOperands ==
  ASSUME NEW w
  PROVE  \A n \in Nat : Level(w)[n + 1] = UNION {Level(v)[n] : v \in Operands(w)}
<1> DEFINE T == {n \in Nat : Level(w)[n + 1] = UNION {Level(v)[n] : v \in Operands(w)}}
<1>1. 0 \in T
  <2>1. Level(w)[0] = {w} /\ Level(w)[0 + 1] = UNION {Operands(v) : v \in Level(w)[0]}
    BY LevelUnfolds
  <2>2. Level(w)[0 + 1] = Operands(w)
    BY <2>1
  <2>3. \A v : Level(v)[0] = {v}
    BY LevelUnfolds
  <2>4. UNION {Level(v)[0] : v \in Operands(w)} = Operands(w)
    BY <2>3
  <2> QED
    BY <2>2, <2>4
<1>2. ASSUME NEW n \in Nat, n \in T PROVE n + 1 \in T
  <2>1. Level(w)[(n + 1) + 1] = UNION {Operands(u) : u \in Level(w)[n + 1]}
    BY LevelUnfolds
  <2>2. Level(w)[n + 1] = UNION {Level(v)[n] : v \in Operands(w)}
    BY <1>2
  <2>3. \A v : Level(v)[n + 1] = UNION {Operands(u) : u \in Level(v)[n]}
    BY LevelUnfolds
  <2>4. UNION {Operands(u) : u \in UNION {Level(v)[n] : v \in Operands(w)}}
        = UNION {UNION {Operands(u) : u \in Level(v)[n]} : v \in Operands(w)}
    OBVIOUS
  <2>5. Level(w)[(n + 1) + 1] = UNION {Level(v)[n + 1] : v \in Operands(w)}
    BY <2>1, <2>2, <2>3, <2>4
  <2> QED
    BY <2>5
<1> HIDE DEF T
<1>3. Nat \subseteq T
  BY <1>1, <1>2, NatSetInduction
<1> QED
  BY <1>3 DEF T

\* A walk of w ends.
Ending(w) == \E n \in Nat : Level(w)[n] = {}

\* Then the parts of w are those of every level.
LEMMA PartsAreLevels ==
  ASSUME NEW w, Ending(w)
  PROVE  Parts(w) = UNION {Level(w)[n] : n \in Nat}
<1> DEFINE L == Level(w)
           below == [n \in Nat |-> UNION {L[m] : m \in {k \in Nat : k >= n}}]
           Eq(f) == f = [n \in Nat |-> IF L[n] = {} THEN {} ELSE L[n] \cup f[n + 1]]
           from == CHOOSE f : Eq(f)
<1> HIDE DEF L
<1>1. PICK N \in Nat : L[N] = {}
  BY DEF Ending, L
<1>2. \A n, m \in Nat : L[n] = {} => L[n + m] = {}
  BY LevelsEnd DEF L
<1>3. \A n, m \in Nat : L[n] = {} /\ m >= n => L[m] = {}
  <2> SUFFICES ASSUME NEW n \in Nat, NEW m \in Nat, L[n] = {}, m >= n PROVE L[m] = {}
    OBVIOUS
  <2>1. m - n \in Nat /\ n + (m - n) = m
    OBVIOUS
  <2> QED
    BY <1>2, <2>1
<1>4. \A n \in Nat : L[n] = {} => below[n] = {}
  BY <1>3
<1>5. ASSUME NEW n \in Nat PROVE below[n] = L[n] \cup below[n + 1]
  <2>1. {k \in Nat : k >= n} = {n} \cup {k \in Nat : k >= n + 1}
    OBVIOUS
  <2>2. below[n] = UNION {L[m] : m \in {k \in Nat : k >= n}}
        /\ below[n + 1] = UNION {L[m] : m \in {k \in Nat : k >= n + 1}}
    OBVIOUS
  <2> QED
    BY <2>1, <2>2
<1>6. \A n \in Nat : below[n] = IF L[n] = {} THEN {} ELSE L[n] \cup below[n + 1]
  BY <1>4, <1>5
<1>7. below = [n \in Nat |-> below[n]]
  OBVIOUS
<1>8. below[0] = UNION {L[n] : n \in Nat}
  <2>1. {k \in Nat : k >= 0} = Nat
    OBVIOUS
  <2> QED
    BY <2>1
<1> HIDE DEF below
<1>9. Eq(below)
  BY <1>6, <1>7
<1>10. Eq(from)
  <2> HIDE DEF Eq
  <2> QED
    BY <1>9
<1> HIDE DEF from
<1>11. \A n \in Nat : from[n] = IF L[n] = {} THEN {} ELSE L[n] \cup from[n + 1]
  BY <1>10
<1> DEFINE T == {k \in Nat : k <= N => from[N - k] = below[N - k]}
<1>12. 0 \in T
  <2>1. from[N] = {} /\ below[N] = {}
    BY <1>1, <1>6, <1>11
  <2>2. N - 0 = N
    OBVIOUS
  <2> QED
    BY <2>1, <2>2
<1>13. ASSUME NEW k \in Nat, k \in T PROVE k + 1 \in T
  <2> SUFFICES ASSUME k + 1 <= N PROVE from[N - (k + 1)] = below[N - (k + 1)]
    OBVIOUS
  <2>1. N - (k + 1) \in Nat /\ (N - (k + 1)) + 1 = N - k /\ k <= N
    OBVIOUS
  <2>2. from[N - k] = below[N - k]
    BY <1>13, <2>1
  <2> DEFINE n == N - (k + 1)
  <2>3. from[n] = IF L[n] = {} THEN {} ELSE L[n] \cup from[n + 1]
    BY <1>11, <2>1
  <2>4. below[n] = IF L[n] = {} THEN {} ELSE L[n] \cup below[n + 1]
    BY <1>6, <2>1
  <2>5. n + 1 = N - k
    BY <2>1
  <2> HIDE DEF n
  <2>6. from[n] = below[n]
    BY <2>2, <2>3, <2>4, <2>5
  <2> QED
    BY <2>6 DEF n
<1> HIDE DEF T
<1>14. Nat \subseteq T
  BY <1>12, <1>13, NatSetInduction
<1>15. from[N - N] = below[N - N]
  BY <1>14 DEF T
<1>16. from[0] = below[0]
  BY <1>15
<1>17. Parts(w) = from[0]
  BY DEF Parts, L, from
<1> QED
  BY <1>8, <1>16, <1>17 DEF L

-----------------------------------------------------------------------------
(* Trees of conditions, and their parts.                                   *)

IsSingle(w) == w = WhereSingle(w.single)
IsNegated(w) == w = WhereNegated(w.negated)
IsPair(w) == w = WherePair(w.left, w.right, w.op) /\ w.op \in {"and", "or"}
IsNode(w) == IsSingle(w) \/ IsNegated(w) \/ IsPair(w)

\* A tree of conditions.
IsTree(w) == Ending(w) /\ \A v \in Parts(w) : IsNode(v)

\* What the three kinds of node are made of.
LEMMA OperandsOf ==
  ASSUME NEW w
  PROVE  /\ IsSingle(w) => w.type = "SQL_single" /\ Operands(w) = {}
         /\ IsNegated(w) => w.type = "SQL_negated" /\ Operands(w) = {w.negated}
         /\ IsPair(w) => w.type = "SQL_pair" /\ Operands(w) = {w.left, w.right}
<1>1. IsSingle(w) => w.type = "SQL_single"
  BY DEF IsSingle, WhereSingle
<1>2. IsNegated(w) => w.type = "SQL_negated"
  BY DEF IsNegated, WhereNegated
<1>3. IsPair(w) => w.type = "SQL_pair"
  BY DEF IsPair, WherePair
<1> QED
  BY <1>1, <1>2, <1>3 DEF Operands

\* A part of a walk that ends: its operands' walks end one level sooner.
LEMMA LowerOperands ==
  ASSUME NEW w, NEW n \in Nat, Level(w)[n + 1] = {}, NEW v \in Operands(w)
  PROVE  Level(v)[n] = {}
<1>1. Level(w)[n + 1] = UNION {Level(u)[n] : u \in Operands(w)}
  BY LevelOfOperands
<1> QED
  BY <1>1

\* The walk of an operand ends too.
LEMMA EndingOperands ==
  ASSUME NEW w, Ending(w), NEW v \in Operands(w)
  PROVE  Ending(v)
<1>1. PICK n \in Nat : Level(w)[n] = {}
  BY DEF Ending
<1>2. n # 0
  BY <1>1, LevelUnfolds
<1>3. n - 1 \in Nat /\ (n - 1) + 1 = n
  BY <1>2
<1>4. Level(v)[n - 1] = {}
  BY <1>1, <1>3, LowerOperands
<1> QED
  BY <1>3, <1>4 DEF Ending

\* The parts of w are w and the parts of its operands.
LEMMA PartsUnfold ==
  ASSUME NEW w, Ending(w)
  PROVE  Parts(w) = {w} \cup UNION {Parts(v) : v \in Operands(w)}
<1>1. \A v \in Operands(w) : Parts(v) = UNION {Level(v)[n] : n \in Nat}
  BY EndingOperands, PartsAreLevels
<1>2. \A n \in Nat : Level(w)[n + 1] = UNION {Level(v)[n] : v \in Operands(w)}
  BY LevelOfOperands
<1>3. Level(w)[0] = {w}
  BY LevelUnfolds
<1>4. Parts(w) = UNION {Level(w)[n] : n \in Nat}
  BY PartsAreLevels
<1>5. ASSUME NEW x \in Parts(w)
      PROVE  x \in {w} \cup UNION {Parts(v) : v \in Operands(w)}
  <2>1. PICK n \in Nat : x \in Level(w)[n]
    BY <1>4, <1>5
  <2>2. CASE n = 0
    BY <1>3, <2>1, <2>2
  <2>3. CASE n # 0
    <3>1. n - 1 \in Nat /\ (n - 1) + 1 = n
      BY <2>3
    <3>2. PICK v \in Operands(w) : x \in Level(v)[n - 1]
      BY <1>2, <2>1, <3>1
    <3>3. x \in Parts(v)
      BY <1>1, <3>1, <3>2
    <3> QED
      BY <3>3
  <2> QED
    BY <2>2, <2>3
<1>6. w \in Parts(w)
  BY <1>3, <1>4
<1>7. ASSUME NEW v \in Operands(w), NEW x \in Parts(v) PROVE x \in Parts(w)
  <2>1. PICK n \in Nat : x \in Level(v)[n]
    BY <1>1, <1>7
  <2>2. x \in Level(w)[n + 1] /\ n + 1 \in Nat
    BY <1>2, <2>1
  <2> QED
    BY <1>4, <2>2
<1> QED
  BY <1>5, <1>6, <1>7

\* The walk of a part ends no later than that of the whole.
LEMMA PartsEnd ==
  ASSUME NEW w, NEW N \in Nat, Level(w)[N] = {}, NEW v \in Parts(w)
  PROVE  Level(v)[N] = {}
<1> DEFINE T == {m \in Nat : \A x \in Level(w)[m] : \A n \in Nat :
                               Level(x)[n] \subseteq Level(w)[m + n]}
<1>1. 0 \in T
  BY LevelUnfolds
<1>2. ASSUME NEW m \in Nat, m \in T PROVE m + 1 \in T
  <2> SUFFICES ASSUME NEW x \in Level(w)[m + 1], NEW n \in Nat
               PROVE  Level(x)[n] \subseteq Level(w)[(m + 1) + n]
    OBVIOUS
  <2>1. PICK u \in Level(w)[m] : x \in Operands(u)
    BY LevelUnfolds
  <2>2. Level(u)[n + 1] = UNION {Level(y)[n] : y \in Operands(u)}
    BY LevelOfOperands
  <2>3. Level(u)[n + 1] \subseteq Level(w)[m + (n + 1)]
    BY <1>2, <2>1
  <2>4. m + (n + 1) = (m + 1) + n
    OBVIOUS
  <2> QED
    BY <2>1, <2>2, <2>3, <2>4
<1> HIDE DEF T
<1>3. Nat \subseteq T
  BY <1>1, <1>2, NatSetInduction
<1>4. Parts(w) = UNION {Level(w)[n] : n \in Nat}
  BY PartsAreLevels DEF Ending
<1>5. PICK m \in Nat : v \in Level(w)[m]
  BY <1>4
<1>6. Level(v)[N] \subseteq Level(w)[m + N]
  BY <1>3, <1>5 DEF T
<1>7. Level(w)[N + m] = {} /\ N + m = m + N
  BY LevelsEnd
<1> QED
  BY <1>6, <1>7

\* A part of a tree is a tree, and its parts are parts of the whole.
LEMMA OperandsAreTrees ==
  ASSUME NEW w, IsTree(w), NEW v \in Operands(w)
  PROVE  IsTree(v) /\ Parts(v) \subseteq Parts(w) /\ v \in Parts(w)
<1>1. Ending(v) /\ Parts(w) = {w} \cup UNION {Parts(u) : u \in Operands(w)}
  BY EndingOperands, PartsUnfold DEF IsTree
<1>2. Parts(v) = {v} \cup UNION {Parts(u) : u \in Operands(v)}
  BY <1>1, PartsUnfold
<1> QED
  BY <1>1, <1>2 DEF IsTree

\* A tree is one of its parts.
LEMMA RootIsNode ==
  ASSUME NEW w, IsTree(w)
  PROVE  w \in Parts(w) /\ IsNode(w)
<1>1. Parts(w) = {w} \cup UNION {Parts(u) : u \in Operands(w)}
  BY PartsUnfold DEF IsTree
<1> QED
  BY <1>1 DEF IsTree

\* The parts of a tree are trees.
LEMMA PartsAreTrees ==
  ASSUME NEW w, IsTree(w)
  PROVE  \A v \in Parts(w) : /\ IsTree(v) /\ IsNode(v)
                             /\ Parts(v) \subseteq Parts(w)
                             /\ Operands(v) \subseteq Parts(w)
<1> DEFINE L == Level(w)
           T == {m \in Nat : \A v \in L[m] : IsTree(v) /\ Parts(v) \subseteq Parts(w)}
<1>1. 0 \in T
  BY LevelUnfolds
<1>2. ASSUME NEW m \in Nat, m \in T PROVE m + 1 \in T
  <2> SUFFICES ASSUME NEW v \in L[m + 1] PROVE IsTree(v) /\ Parts(v) \subseteq Parts(w)
    OBVIOUS
  <2>1. PICK u \in L[m] : v \in Operands(u)
    BY LevelUnfolds
  <2>2. IsTree(u) /\ Parts(u) \subseteq Parts(w)
    BY <1>2, <2>1
  <2> QED
    BY <2>1, <2>2, OperandsAreTrees
<1> HIDE DEF T
<1>3. Nat \subseteq T
  BY <1>1, <1>2, NatSetInduction
<1>4. Parts(w) = UNION {L[n] : n \in Nat}
  BY PartsAreLevels DEF IsTree
<1>5. ASSUME NEW v \in Parts(w) PROVE IsTree(v) /\ Parts(v) \subseteq Parts(w)
  <2> HIDE DEF L
  <2>1. PICK m \in Nat : v \in L[m]
    BY <1>4
  <2>2. m \in T
    BY <1>3
  <2> QED
    BY <2>1, <2>2 DEF T
<1>6. ASSUME NEW v \in Parts(w) PROVE IsNode(v) /\ Operands(v) \subseteq Parts(w)
  <2>1. IsTree(v) /\ Parts(v) \subseteq Parts(w)
    BY <1>5
  <2>2. IsNode(v) /\ \A u \in Operands(v) : u \in Parts(v)
    BY <2>1, RootIsNode, OperandsAreTrees
  <2> QED
    BY <2>1, <2>2
<1> QED
  BY <1>5, <1>6

\* What is made of trees is a tree.
LEMMA TreeUp ==
  ASSUME NEW w, IsNode(w), \A v \in Operands(w) : IsTree(v)
  PROVE  IsTree(w)
<1>1. Ending(w)
  <2>1. CASE Operands(w) = {}
    <3>1. Level(w)[0 + 1] = UNION {Level(v)[0] : v \in Operands(w)}
      BY LevelOfOperands
    <3> QED
      BY <2>1, <3>1 DEF Ending
  <2>2. ASSUME NEW l, NEW r, Operands(w) = {l, r} PROVE Ending(w)
    <3>1. IsTree(l) /\ IsTree(r)
      BY <2>2
    <3>2. PICK m \in Nat : Level(l)[m] = {}
      BY <3>1 DEF IsTree, Ending
    <3>3. PICK n \in Nat : Level(r)[n] = {}
      BY <3>1 DEF IsTree, Ending
    <3>4. Level(l)[m + n] = {} /\ Level(r)[n + m] = {} /\ m + n = n + m
      BY <3>2, <3>3, LevelsEnd
    <3>5. Level(w)[(m + n) + 1] = UNION {Level(v)[m + n] : v \in Operands(w)}
      BY LevelOfOperands
    <3>6. Level(w)[(m + n) + 1] = {} /\ (m + n) + 1 \in Nat
      BY <2>2, <3>4, <3>5
    <3> QED
      BY <3>6 DEF Ending
  <2>3. CASE IsSingle(w)
    BY <2>1, <2>3, OperandsOf
  <2>4. CASE IsNegated(w)
    <3>1. Operands(w) = {w.negated, w.negated}
      BY <2>4, OperandsOf
    <3> QED
      BY <2>2, <3>1
  <2>5. CASE IsPair(w)
    <3>1. Operands(w) = {w.left, w.right}
      BY <2>5, OperandsOf
    <3> QED
      BY <2>2, <3>1
  <2> QED
    BY <2>3, <2>4, <2>5 DEF IsNode
<1>2. Parts(w) = {w} \cup UNION {Parts(v) : v \in Operands(w)}
  BY <1>1, PartsUnfold
<1>3. \A v \in Operands(w) : \A u \in Parts(v) : IsNode(u)
  BY DEF IsTree
<1> QED
  BY <1>1, <1>2, <1>3 DEF IsTree

\* sql_where_build_single makes a tree,
LEMMA SingleIsTree ==
  ASSUME NEW c
  PROVE  IsTree(WhereSingle(c)) /\ IsSingle(WhereSingle(c)) /\ WhereSingle(c).single = c
<1> DEFINE w == WhereSingle(c)
<1>1. w.single = c /\ IsSingle(w)
  BY DEF WhereSingle, IsSingle
<1> HIDE DEF w
<1>2. Operands(w) = {} /\ IsNode(w)
  BY <1>1, OperandsOf DEF IsNode
<1>3. IsTree(w)
  BY <1>2, TreeUp
<1> QED
  BY <1>1, <1>3 DEF w

\* so does a negation of one,
LEMMA NegatedIsTree ==
  ASSUME NEW v, IsTree(v)
  PROVE  IsTree(WhereNegated(v))
<1> DEFINE w == WhereNegated(v)
<1>1. w.negated = v /\ IsNegated(w)
  BY DEF WhereNegated, IsNegated
<1> HIDE DEF w
<1>2. Operands(w) = {v} /\ IsNode(w)
  BY <1>1, OperandsOf DEF IsNode
<1>3. IsTree(w)
  BY <1>2, TreeUp
<1> QED
  BY <1>3 DEF w

\* and a pair of two.
LEMMA PairIsTree ==
  ASSUME NEW l, NEW r, IsTree(l), IsTree(r), NEW op \in {"and", "or"}
  PROVE  LET w == WherePair(l, r, op)
         IN  IsTree(w) /\ IsPair(w) /\ w.left = l /\ w.right = r /\ w.op = op
<1> DEFINE w == WherePair(l, r, op)
<1>1. w.left = l /\ w.right = r /\ w.op = op /\ IsPair(w)
  BY DEF WherePair, IsPair
<1> HIDE DEF w
<1>2. Operands(w) = {l, r} /\ IsNode(w)
  BY <1>1, OperandsOf DEF IsNode
<1>3. IsTree(w)
  BY <1>2, TreeUp
<1> QED
  BY <1>1, <1>3 DEF w

\* A tree is one of the three.
LEMMA TreeCases ==
  ASSUME NEW w, IsTree(w)
  PROVE  \/ IsSingle(w)
         \/ IsNegated(w) /\ IsTree(w.negated)
         \/ IsPair(w) /\ IsTree(w.left) /\ IsTree(w.right)
<1>1. IsNode(w)
  BY RootIsNode
<1>2. IsNegated(w) => IsTree(w.negated)
  BY OperandsOf, OperandsAreTrees
<1>3. IsPair(w) => IsTree(w.left) /\ IsTree(w.right)
  BY OperandsOf, OperandsAreTrees
<1> QED
  BY <1>1, <1>2, <1>3 DEF IsNode

-----------------------------------------------------------------------------
(* What walks over them compute.                                           *)

\* A function that walks a tree: what it is of a condition, of a negation and
\* of a pair, from what it is of their operands.
IsWalk(f, V, one, not, two) ==
  f = [v \in V |-> CASE v.type = "SQL_single"  -> one[v]
                     [] v.type = "SQL_negated" -> not[v][f[v.negated]]
                     [] OTHER -> two[v][f[v.left]][f[v.right]]]

\* A part of a tree that has so many levels.
Low(w, n) == {v \in Parts(w) : Level(v)[n] = {}}

\* The parts of a tree, by how many levels they have.
LEMMA LowFacts ==
  ASSUME NEW w, IsTree(w)
  PROVE  /\ Low(w, 0) = {}
         /\ \A n \in Nat : /\ Low(w, n) \subseteq Low(w, n + 1)
                           /\ \A v \in Low(w, n + 1) : Operands(v) \subseteq Low(w, n)
         /\ \E n \in Nat : Low(w, n) = Parts(w)
<1>1. Low(w, 0) = {}
  BY LevelUnfolds DEF Low
<1>2. ASSUME NEW n \in Nat PROVE Low(w, n) \subseteq Low(w, n + 1)
  <2>1. \A v : Level(v)[n] = {} => Level(v)[n + 1] = {}
    BY LevelsEnd
  <2> QED
    BY <2>1 DEF Low
<1>3. ASSUME NEW n \in Nat, NEW v \in Low(w, n + 1) PROVE Operands(v) \subseteq Low(w, n)
  <2>1. Operands(v) \subseteq Parts(w) /\ Level(v)[n + 1] = {}
    BY PartsAreTrees DEF Low
  <2> QED
    BY <2>1, LowerOperands DEF Low
<1>4. PICK N \in Nat : Level(w)[N] = {}
  BY DEF IsTree, Ending
<1>5. Low(w, N) = Parts(w)
  BY <1>4, PartsEnd DEF Low
<1> QED
  BY <1>1, <1>2, <1>3, <1>5

\* A walk over a tree computes something.
LEMMA WalkExists ==
  ASSUME NEW w, IsTree(w), NEW S, NEW one \in [Parts(w) -> S],
         NEW not \in [Parts(w) -> [S -> S]], NEW two \in [Parts(w) -> [S -> [S -> S]]]
  PROVE  \E f \in [Parts(w) -> S] : IsWalk(f, Parts(w), one, not, two)
<1> DEFINE V(n) == Low(w, n)
           T == {n \in Nat : \E f \in [V(n) -> S] : IsWalk(f, V(n), one, not, two)}
<1>1. 0 \in T
  <2> DEFINE f == [v \in {} |-> v]
  <2>1. V(0) = {}
    BY LowFacts
  <2>2. f \in [{} -> S] /\ IsWalk(f, {}, one, not, two)
    BY DEF IsWalk
  <2> HIDE DEF f, V
  <2> QED
    BY <2>1, <2>2
<1>2. ASSUME NEW n \in Nat, n \in T PROVE n + 1 \in T
  <2>1. PICK f \in [V(n) -> S] : IsWalk(f, V(n), one, not, two)
    BY <1>2
  <2> DEFINE Body(h, v) == CASE v.type = "SQL_single"  -> one[v]
                             [] v.type = "SQL_negated" -> not[v][h[v.negated]]
                             [] OTHER -> two[v][h[v.left]][h[v.right]]
             g == [v \in V(n + 1) |-> Body(f, v)]
  <2>2. V(n) \subseteq V(n + 1) /\ V(n + 1) \subseteq Parts(w)
    BY LowFacts DEF Low
  <2>3. ASSUME NEW v \in V(n + 1)
        PROVE  /\ v.type = "SQL_negated" => v.negated \in V(n)
               /\ v.type \notin {"SQL_single", "SQL_negated"} => v.left \in V(n) /\ v.right \in V(n)
    <3>1. IsNode(v) /\ Operands(v) \subseteq V(n)
      BY LowFacts, PartsAreTrees DEF Low
    <3> QED
      BY <3>1, OperandsOf DEF IsNode
  <2> HIDE DEF V
  <2>4. ASSUME NEW v \in V(n + 1) PROVE g[v] \in S
    <3>1. v \in Parts(w)
      BY <2>2
    <3>2. CASE v.type = "SQL_single"
      BY <3>1, <3>2
    <3>3. CASE v.type = "SQL_negated"
      <4>1. f[v.negated] \in S /\ not[v] \in [S -> S]
        BY <2>3, <3>1, <3>3
      <4>2. g[v] = not[v][f[v.negated]]
        BY <3>3
      <4> QED
        BY <4>1, <4>2
    <3>4. CASE v.type \notin {"SQL_single", "SQL_negated"}
      <4>1. f[v.left] \in S /\ f[v.right] \in S /\ two[v] \in [S -> [S -> S]]
        BY <2>3, <3>1, <3>4
      <4>2. g[v] = two[v][f[v.left]][f[v.right]]
        BY <3>4
      <4> QED
        BY <4>1, <4>2
    <3> QED
      BY <3>2, <3>3, <3>4
  <2>5. g \in [V(n + 1) -> S]
    BY <2>4
  <2>6. ASSUME NEW u \in V(n) PROVE g[u] = f[u]
    <3>1. f[u] = Body(f, u)
      BY <2>1 DEF IsWalk
    <3>2. g[u] = Body(f, u)
      BY <2>2
    <3> HIDE DEF Body, g
    <3> QED
      BY <3>1, <3>2
  <2>7. ASSUME NEW v \in V(n + 1) PROVE g[v] = Body(g, v)
    <3>1. g[v] = Body(f, v)
      OBVIOUS
    <3> HIDE DEF g
    <3>2. Body(f, v) = Body(g, v)
      BY <2>3, <2>6
    <3> QED
      BY <3>1, <3>2
  <2>8. g = [v \in V(n + 1) |-> g[v]]
    OBVIOUS
  <2> HIDE DEF g
  <2>9. IsWalk(g, V(n + 1), one, not, two)
    BY <2>7, <2>8 DEF IsWalk
  <2> QED
    BY <2>5, <2>9
<1> HIDE DEF T
<1>3. Nat \subseteq T
  BY <1>1, <1>2, NatSetInduction
<1>4. PICK N \in Nat : V(N) = Parts(w)
  BY LowFacts
<1>5. N \in T
  BY <1>3
<1> HIDE DEF V
<1> QED
  BY <1>4, <1>5 DEF T

\* The function of Holds, and that of InsertCondition.
IsHolds(h, V, T) ==
  h = [v \in V |-> CASE v.type = "SQL_single"  -> Atom(v.single) \in T
                     [] v.type = "SQL_negated" -> ~h[v.negated]
                     [] v.type = "SQL_pair" /\ v.op = "and" -> h[v.left] /\ h[v.right]
                     [] OTHER -> h[v.left] \/ h[v.right]]
IsInsert(h, V, new, op) ==
  h = [v \in V |-> IF v.type = "SQL_pair" /\ ~(op = "and" /\ v.op = "or")
                   THEN [v EXCEPT !.right = h[@]] ELSE WherePair(v, new, op)]

\* What a tree selects is defined,
LEMMA HoldsExists ==
  ASSUME NEW w, IsTree(w), NEW T
  PROVE  \E h : IsHolds(h, Parts(w), T)
<1> DEFINE P == Parts(w)
           S == BOOLEAN
           one == [v \in P |-> Atom(v.single) \in T]
           not == [v \in P |-> [a \in S |-> ~a]]
           two == [v \in P |-> [a \in S |-> [b \in S |-> IF v.op = "and" THEN a /\ b ELSE a \/ b]]]
<1>1. one \in [P -> S] /\ not \in [P -> [S -> S]] /\ two \in [P -> [S -> [S -> S]]]
  OBVIOUS
<1>2. /\ \A v \in P : one[v] = (Atom(v.single) \in T)
      /\ \A v \in P : \A a \in S : not[v][a] = ~a
      /\ \A v \in P : \A a, b \in S :
           two[v][a][b] = IF v.op = "and" THEN a /\ b ELSE a \/ b
  OBVIOUS
<1> HIDE DEF one, not, two, P, S
<1>3. PICK h \in [P -> S] : IsWalk(h, P, one, not, two)
  BY <1>1, WalkExists DEF P
<1> DEFINE Body(v) == CASE v.type = "SQL_single"  -> Atom(v.single) \in T
                        [] v.type = "SQL_negated" -> ~h[v.negated]
                        [] v.type = "SQL_pair" /\ v.op = "and" -> h[v.left] /\ h[v.right]
                        [] OTHER -> h[v.left] \/ h[v.right]
<1>4. ASSUME NEW v \in P PROVE h[v] = Body(v)
  <2>1. h[v] = CASE v.type = "SQL_single"  -> one[v]
                 [] v.type = "SQL_negated" -> not[v][h[v.negated]]
                 [] OTHER -> two[v][h[v.left]][h[v.right]]
    BY <1>3 DEF IsWalk
  <2>2. IsNode(v) /\ Operands(v) \subseteq P
    BY PartsAreTrees DEF P
  <2>3. CASE IsSingle(v)
    BY <1>2, <2>1, <2>3, OperandsOf
  <2>4. CASE IsNegated(v)
    <3>1. v.type = "SQL_negated" /\ v.negated \in P
      BY <2>2, <2>4, OperandsOf
    <3>2. h[v.negated] \in S
      BY <3>1
    <3>3. h[v] = not[v][h[v.negated]]
      BY <2>1, <3>1
    <3>4. not[v][h[v.negated]] = ~h[v.negated]
      BY <1>2, <3>2
    <3>5. Body(v) = ~h[v.negated]
      BY <3>1
    <3> QED
      BY <3>3, <3>4, <3>5
  <2>5. CASE IsPair(v)
    <3>1. v.type = "SQL_pair" /\ v.left \in P /\ v.right \in P
      BY <2>2, <2>5, OperandsOf
    <3>2. h[v.left] \in S /\ h[v.right] \in S
      BY <3>1
    <3>3. h[v] = two[v][h[v.left]][h[v.right]]
      BY <2>1, <3>1
    <3>4. two[v][h[v.left]][h[v.right]]
          = IF v.op = "and" THEN h[v.left] /\ h[v.right] ELSE h[v.left] \/ h[v.right]
      BY <1>2, <3>2
    <3>5. Body(v) = IF v.op = "and" THEN h[v.left] /\ h[v.right] ELSE h[v.left] \/ h[v.right]
      BY <3>1
    <3> QED
      BY <3>3, <3>4, <3>5
  <2> QED
    BY <2>2, <2>3, <2>4, <2>5 DEF IsNode
<1>5. h = [v \in P |-> h[v]]
  BY <1>3
<1>6. h = [v \in P |-> Body(v)]
  <2> HIDE DEF Body
  <2> QED
    BY <1>4, <1>5
<1>7. IsHolds(h, P, T)
  BY <1>6 DEF IsHolds
<1> QED
  BY <1>7 DEF P

\* and is the same for a part, seen from whatever tree it is a part of.
LEMMA HoldsAgree ==
  ASSUME NEW w, IsTree(w), NEW V, Parts(w) \subseteq V, NEW T,
         NEW f, IsHolds(f, V, T), NEW g, IsHolds(g, Parts(w), T)
  PROVE  \A v \in Parts(w) : f[v] = g[v]
<1> DEFINE Q == {n \in Nat : \A v \in Low(w, n) : f[v] = g[v]}
<1>1. 0 \in Q
  BY LowFacts
<1>2. ASSUME NEW n \in Nat, n \in Q PROVE n + 1 \in Q
  <2> SUFFICES ASSUME NEW v \in Low(w, n + 1) PROVE f[v] = g[v]
    OBVIOUS
  <2>1. v \in Parts(w) /\ v \in V
    BY DEF Low
  <2>2. \A u \in Operands(v) : f[u] = g[u]
    BY <1>2, LowFacts
  <2>3. IsNode(v)
    BY <2>1, PartsAreTrees
  <2>4. /\ v.type = "SQL_negated" => f[v.negated] = g[v.negated]
        /\ v.type \notin {"SQL_single", "SQL_negated"} =>
             f[v.left] = g[v.left] /\ f[v.right] = g[v.right]
    BY <2>2, <2>3, OperandsOf DEF IsNode
  <2> DEFINE Body(h) == CASE v.type = "SQL_single"  -> Atom(v.single) \in T
                          [] v.type = "SQL_negated" -> ~h[v.negated]
                          [] v.type = "SQL_pair" /\ v.op = "and" -> h[v.left] /\ h[v.right]
                          [] OTHER -> h[v.left] \/ h[v.right]
  <2>5. f[v] = Body(f)
    BY <2>1, Zenon DEF IsHolds
  <2>6. g[v] = Body(g)
    BY <2>1, Zenon DEF IsHolds
  <2>7. Body(f) = Body(g)
    BY <2>4
  <2> HIDE DEF Body
  <2> QED
    BY <2>5, <2>6, <2>7
<1> HIDE DEF Q
<1>3. Nat \subseteq Q
  BY <1>1, <1>2, NatSetInduction
<1>4. PICK N \in Nat : Low(w, N) = Parts(w)
  BY LowFacts
<1>5. N \in Q
  BY <1>3
<1> QED
  BY <1>4, <1>5 DEF Q

\* What a tree means, from what its operands mean.
LEMMA HoldsUnfolds ==
  ASSUME NEW w, IsTree(w), NEW T
  PROVE  /\ IsSingle(w) => Holds(w, T) = (Atom(w.single) \in T)
         /\ IsNegated(w) => Holds(w, T) = ~Holds(w.negated, T)
         /\ IsPair(w) /\ w.op = "and" => Holds(w, T) = (Holds(w.left, T) /\ Holds(w.right, T))
         /\ IsPair(w) /\ w.op = "or" => Holds(w, T) = (Holds(w.left, T) \/ Holds(w.right, T))
<1> DEFINE h(v) == CHOOSE f : IsHolds(f, Parts(v), T)
<1>1. ASSUME NEW v, IsTree(v) PROVE IsHolds(h(v), Parts(v), T)
  BY <1>1, HoldsExists
<1>2. \A v : Holds(v, T) = h(v)[v]
  BY DEF Holds, IsHolds
<1> HIDE DEF h
<1> DEFINE f == h(w)
<1>3. IsHolds(f, Parts(w), T)
  BY <1>1
<1>4. ASSUME NEW v \in Operands(w) PROVE f[v] = Holds(v, T)
  <2>1. IsTree(v) /\ Parts(v) \subseteq Parts(w) /\ v \in Parts(v)
    BY OperandsAreTrees, RootIsNode
  <2>2. IsHolds(h(v), Parts(v), T)
    BY <1>1, <2>1
  <2>3. \A u \in Parts(v) : f[u] = h(v)[u]
    BY <1>3, <2>1, <2>2, HoldsAgree
  <2> QED
    BY <1>2, <2>1, <2>3
<1>5. Holds(w, T) = f[w] /\ w \in Parts(w)
  BY <1>2, RootIsNode
<1> HIDE DEF f
<1>6. f[w] = CASE w.type = "SQL_single"  -> Atom(w.single) \in T
               [] w.type = "SQL_negated" -> ~f[w.negated]
               [] w.type = "SQL_pair" /\ w.op = "and" -> f[w.left] /\ f[w.right]
               [] OTHER -> f[w.left] \/ f[w.right]
  BY <1>3, <1>5, Zenon DEF IsHolds
<1>7. IsSingle(w) => Holds(w, T) = (Atom(w.single) \in T)
  BY <1>5, <1>6, OperandsOf
<1>8. IsNegated(w) => Holds(w, T) = ~Holds(w.negated, T)
  <2> SUFFICES ASSUME IsNegated(w) PROVE Holds(w, T) = ~Holds(w.negated, T)
    OBVIOUS
  <2>1. w.type = "SQL_negated" /\ f[w.negated] = Holds(w.negated, T)
    BY <1>4, OperandsOf
  <2> QED
    BY <1>5, <1>6, <2>1
<1>9. ASSUME IsPair(w)
      PROVE  /\ w.op = "and" => Holds(w, T) = (Holds(w.left, T) /\ Holds(w.right, T))
             /\ w.op = "or" => Holds(w, T) = (Holds(w.left, T) \/ Holds(w.right, T))
  <2>1. /\ w.type = "SQL_pair" /\ f[w.left] = Holds(w.left, T)
        /\ f[w.right] = Holds(w.right, T)
    BY <1>4, <1>9, OperandsOf
  <2> QED
    BY <1>5, <1>6, <2>1
<1> QED
  BY <1>7, <1>8, <1>9

\* The walk of sql_statement_append_where is defined,
LEMMA InsertExists ==
  ASSUME NEW w, IsTree(w), NEW new, NEW op
  PROVE  \E h : IsInsert(h, Parts(w), new, op)
<1> DEFINE V(n) == Low(w, n)
           Goes(v) == v.type = "SQL_pair" /\ ~(op = "and" /\ v.op = "or")
           T == {n \in Nat : \E h : IsInsert(h, V(n), new, op)}
<1>1. 0 \in T
  <2> DEFINE f == [v \in {} |-> v]
  <2>1. V(0) = {}
    BY LowFacts
  <2>2. IsInsert(f, {}, new, op)
    BY DEF IsInsert
  <2> HIDE DEF f, V
  <2> QED
    BY <2>1, <2>2
<1>2. ASSUME NEW n \in Nat, n \in T PROVE n + 1 \in T
  <2>1. PICK f : IsInsert(f, V(n), new, op)
    BY <1>2
  <2> DEFINE Body(h, v) == IF Goes(v) THEN [v EXCEPT !.right = h[@]] ELSE WherePair(v, new, op)
             g == [v \in V(n + 1) |-> Body(f, v)]
  <2>2. V(n) \subseteq V(n + 1)
    BY LowFacts
  <2>3. ASSUME NEW v \in V(n + 1), Goes(v) PROVE v.right \in V(n)
    <3>1. IsNode(v) /\ Operands(v) \subseteq V(n)
      BY LowFacts, PartsAreTrees DEF Low
    <3> QED
      BY <2>3, <3>1, OperandsOf DEF IsNode
  <2> HIDE DEF V, Goes
  <2>4. \A h, v : Goes(v) => Body(h, v) = [v EXCEPT !.right = h[v.right]]
    OBVIOUS
  <2>5. \A h, v : ~Goes(v) => Body(h, v) = WherePair(v, new, op)
    OBVIOUS
  <2>6. ASSUME NEW u \in V(n) PROVE g[u] = f[u]
    <3>1. f[u] = Body(f, u)
      BY <2>1 DEF IsInsert, Goes
    <3>2. g[u] = Body(f, u)
      BY <2>2
    <3> HIDE DEF Body, g
    <3> QED
      BY <3>1, <3>2
  <2>7. ASSUME NEW v \in V(n + 1) PROVE g[v] = Body(g, v)
    <3>1. g[v] = Body(f, v)
      OBVIOUS
    <3> HIDE DEF g, Body
    <3>2. CASE Goes(v)
      <4>1. g[v.right] = f[v.right]
        BY <2>3, <2>6, <3>2
      <4>2. Body(f, v) = Body(g, v)
        BY <2>4, <3>2, <4>1
      <4> QED
        BY <3>1, <4>2
    <3>3. CASE ~Goes(v)
      BY <2>5, <3>1, <3>3
    <3> QED
      BY <3>2, <3>3
  <2>8. g = [v \in V(n + 1) |-> g[v]]
    OBVIOUS
  <2> HIDE DEF g
  <2>9. g = [v \in V(n + 1) |-> Body(g, v)]
    <3> HIDE DEF Body
    <3> QED
      BY <2>7, <2>8
  <2>10. IsInsert(g, V(n + 1), new, op)
    BY <2>9 DEF IsInsert, Goes
  <2> QED
    BY <2>10
<1> HIDE DEF T
<1>3. Nat \subseteq T
  BY <1>1, <1>2, NatSetInduction
<1>4. PICK N \in Nat : V(N) = Parts(w)
  BY LowFacts
<1>5. N \in T
  BY <1>3
<1> HIDE DEF V
<1> QED
  BY <1>4, <1>5 DEF T

\* and does the same to a part, seen from whatever tree it is a part of.
LEMMA InsertAgree ==
  ASSUME NEW w, IsTree(w), NEW V, Parts(w) \subseteq V, NEW new, NEW op,
         NEW f, IsInsert(f, V, new, op), NEW g, IsInsert(g, Parts(w), new, op)
  PROVE  \A v \in Parts(w) : f[v] = g[v]
<1> DEFINE Goes(v) == v.type = "SQL_pair" /\ ~(op = "and" /\ v.op = "or")
           Body(h, v) == IF Goes(v) THEN [v EXCEPT !.right = h[@]] ELSE WherePair(v, new, op)
           Q == {n \in Nat : \A v \in Low(w, n) : f[v] = g[v]}
<1>1. 0 \in Q
  BY LowFacts
<1>2. ASSUME NEW n \in Nat, n \in Q PROVE n + 1 \in Q
  <2> SUFFICES ASSUME NEW v \in Low(w, n + 1) PROVE f[v] = g[v]
    OBVIOUS
  <2>1. v \in Parts(w) /\ v \in V
    BY DEF Low
  <2>2. \A u \in Operands(v) : f[u] = g[u]
    BY <1>2, LowFacts
  <2>3. IsNode(v)
    BY <2>1, PartsAreTrees
  <2>4. Goes(v) => f[v.right] = g[v.right]
    BY <2>2, <2>3, OperandsOf DEF IsNode
  <2>5. f[v] = Body(f, v)
    BY <2>1 DEF IsInsert
  <2>6. g[v] = Body(g, v)
    BY <2>1 DEF IsInsert
  <2> HIDE DEF Goes
  <2>7. \A h : Goes(v) => Body(h, v) = [v EXCEPT !.right = h[v.right]]
    OBVIOUS
  <2>8. \A h : ~Goes(v) => Body(h, v) = WherePair(v, new, op)
    OBVIOUS
  <2> HIDE DEF Body
  <2>9. Body(f, v) = Body(g, v)
    BY <2>4, <2>7, <2>8
  <2> QED
    BY <2>5, <2>6, <2>9
<1> HIDE DEF Q
<1>3. Nat \subseteq Q
  BY <1>1, <1>2, NatSetInduction
<1>4. PICK N \in Nat : Low(w, N) = Parts(w)
  BY LowFacts
<1>5. N \in Q
  BY <1>3
<1> QED
  BY <1>4, <1>5 DEF Q

\* Where a condition is inserted: an AND above an OR, anything else below a
\* pair goes to its right.
LEMMA InsertUnfolds ==
  ASSUME NEW w, IsTree(w), NEW new, NEW op
  PROVE  /\ IsPair(w) /\ ~(op = "and" /\ w.op = "or") =>
              InsertCondition(w, new, op)
                = WherePair(w.left, InsertCondition(w.right, new, op), w.op)
         /\ ~(IsPair(w) /\ ~(op = "and" /\ w.op = "or")) =>
              InsertCondition(w, new, op) = WherePair(w, new, op)
<1> DEFINE h(v) == CHOOSE f : IsInsert(f, Parts(v), new, op)
           Goes(v) == v.type = "SQL_pair" /\ ~(op = "and" /\ v.op = "or")
           f == h(w)
<1>1. ASSUME NEW v, IsTree(v) PROVE IsInsert(h(v), Parts(v), new, op)
  BY <1>1, InsertExists
<1>2. \A v : InsertCondition(v, new, op) = h(v)[v]
  BY DEF InsertCondition, IsInsert
<1> HIDE DEF h
<1>3. IsInsert(f, Parts(w), new, op)
  BY <1>1
<1>4. ASSUME NEW v \in Operands(w) PROVE f[v] = InsertCondition(v, new, op)
  <2>1. IsTree(v) /\ Parts(v) \subseteq Parts(w) /\ v \in Parts(v)
    BY OperandsAreTrees, RootIsNode
  <2>2. IsInsert(h(v), Parts(v), new, op)
    BY <1>1, <2>1
  <2>3. \A u \in Parts(v) : f[u] = h(v)[u]
    BY <1>3, <2>1, <2>2, InsertAgree
  <2> QED
    BY <1>2, <2>1, <2>3
<1>5. InsertCondition(w, new, op) = f[w] /\ w \in Parts(w) /\ IsNode(w)
  BY <1>2, RootIsNode
<1> HIDE DEF f
<1>6. f[w] = IF Goes(w) THEN [w EXCEPT !.right = f[@]] ELSE WherePair(w, new, op)
  BY <1>3, <1>5 DEF IsInsert
<1>7. Goes(w) <=> IsPair(w) /\ ~(op = "and" /\ w.op = "or")
  BY <1>5, OperandsOf DEF IsNode
<1> HIDE DEF Goes
<1>8. ASSUME Goes(w)
      PROVE  f[w] = WherePair(w.left, InsertCondition(w.right, new, op), w.op)
  <2>1. f[w.right] = InsertCondition(w.right, new, op)
    BY <1>4, <1>7, <1>8, OperandsOf
  <2>2. f[w] = [w EXCEPT !.right = f[w.right]]
    BY <1>6, <1>8
  <2>3. w = [type |-> "SQL_pair", left |-> w.left, right |-> w.right, op |-> w.op]
    BY <1>7, <1>8 DEF IsPair, WherePair
  <2>4. ASSUME NEW x PROVE [w EXCEPT !.right = x] = WherePair(w.left, x, w.op)
    BY <2>3 DEF WherePair
  <2> QED
    BY <2>1, <2>2, <2>4
<1>9. ~Goes(w) => f[w] = WherePair(w, new, op)
  BY <1>6
<1> QED
  BY <1>5, <1>7, <1>8, <1>9

\* Its result is a tree.
LEMMA InsertIsTree ==
  ASSUME NEW new, IsTree(new), NEW op \in {"and", "or"}
  PROVE  \A w : IsTree(w) => IsTree(InsertCondition(w, new, op))
<1> DEFINE T == {n \in Nat : \A w : IsTree(w) /\ Level(w)[n] = {}
                                    => IsTree(InsertCondition(w, new, op))}
<1>1. 0 \in T
  BY LevelUnfolds
<1>2. ASSUME NEW n \in Nat, n \in T PROVE n + 1 \in T
  <2> SUFFICES ASSUME NEW w, IsTree(w), Level(w)[n + 1] = {}
               PROVE  IsTree(InsertCondition(w, new, op))
    OBVIOUS
  <2>1. CASE IsPair(w) /\ ~(op = "and" /\ w.op = "or")
    <3>1. IsTree(w.left) /\ IsTree(w.right) /\ w.op \in {"and", "or"}
      BY <2>1, OperandsOf, OperandsAreTrees DEF IsPair
    <3>2. Level(w.right)[n] = {}
      BY <2>1, OperandsOf, LowerOperands
    <3>3. IsTree(InsertCondition(w.right, new, op))
      BY <1>2, <3>1, <3>2
    <3>4. InsertCondition(w, new, op)
            = WherePair(w.left, InsertCondition(w.right, new, op), w.op)
      BY <2>1, InsertUnfolds
    <3> QED
      BY <3>1, <3>3, <3>4, PairIsTree
  <2>2. CASE ~(IsPair(w) /\ ~(op = "and" /\ w.op = "or"))
    <3>1. InsertCondition(w, new, op) = WherePair(w, new, op)
      BY <2>2, InsertUnfolds
    <3> QED
      BY <3>1, PairIsTree
  <2> QED
    BY <2>1, <2>2
<1> HIDE DEF T
<1>3. Nat \subseteq T
  BY <1>1, <1>2, NatSetInduction
<1>4. ASSUME NEW w, IsTree(w) PROVE IsTree(InsertCondition(w, new, op))
  <2>1. PICK N \in Nat : Level(w)[N] = {}
    BY <1>4 DEF IsTree, Ending
  <2>2. N \in T
    BY <1>3
  <2> QED
    BY <1>4, <2>1, <2>2 DEF T
<1> QED
  BY <1>4

-----------------------------------------------------------------------------
(* The trees of conditions that the parser returns.                        *)

\* A list of trees that is not empty.
IsTrees(l) == IsList(l) /\ Len(l) > 0 /\ \A i \in 1..Len(l) : IsTree(l[i])
HasTree(x) == x.where # NULL => IsTree(x.where)

\* The trees that a rule returns.
GivesTrees(g) ==
  \A s \in Tokens : /\ g.where_not[s] # Fail => IsTree(g.where_not[s].t)
                    /\ g.where_and[s] # Fail => IsTree(g.where_and[s].t)
                    /\ g.where[s] # Fail => IsTree(g.where[s].t)
                    /\ g.and_list[s] # Fail => IsTrees(g.and_list[s].t)
                    /\ g.or_list[s] # Fail => IsTrees(g.or_list[s].t)
                    /\ g.SQL_select[s] # Fail => HasTree(g.SQL_select[s].t)

\* The first pairs of a list.
PairsTo(f, l, op, n) ==
  f = [i \in 1..n |-> IF i = 1 THEN l[1] ELSE WherePair(f[i - 1], l[i], op)]

\* A list of trees can be folded into pairs.
LEMMA PairsToExist ==
  ASSUME NEW l, NEW op
  PROVE  \A n \in Nat : \E f : PairsTo(f, l, op, n)
<1> DEFINE T == {n \in Nat : \E f : PairsTo(f, l, op, n)}
<1>1. 0 \in T
  <2> DEFINE f == [i \in 1..0 |-> l[1]]
  <2>1. PairsTo(f, l, op, 0)
    <3>1. 1..0 = {}
      OBVIOUS
    <3> QED
      BY <3>1 DEF PairsTo
  <2> QED
    BY <2>1
<1>2. ASSUME NEW n \in Nat, n \in T PROVE n + 1 \in T
  <2>1. PICK f : PairsTo(f, l, op, n)
    BY <1>2
  <2> DEFINE g == [i \in 1..n + 1 |-> IF i = 1 THEN l[1] ELSE WherePair(f[i - 1], l[i], op)]
  <2>2. ASSUME NEW i \in 1..n PROVE g[i] = f[i]
    <3>1. i \in 1..n + 1
      OBVIOUS
    <3> QED
      BY <2>1, <3>1 DEF PairsTo
  <2>3. \A i \in 1..n + 1 : i # 1 => i - 1 \in 1..n
    OBVIOUS
  <2>4. PairsTo(g, l, op, n + 1)
    BY <2>2, <2>3 DEF PairsTo
  <2> HIDE DEF g
  <2> QED
    BY <2>4
<1> HIDE DEF T
<1>3. Nat \subseteq T
  BY <1>1, <1>2, NatSetInduction
<1> QED
  BY <1>3 DEF T

\* A list of trees is combined to one.
LEMMA PairsAreTrees ==
  ASSUME NEW l, IsTrees(l), NEW op \in {"and", "or"}
  PROVE  IsTree(WherePairs(l, op))
<1> DEFINE N == Len(l)
           f == CHOOSE f : PairsTo(f, l, op, N)
<1>1. N \in Nat /\ N > 0 /\ \A i \in 1..N : IsTree(l[i])
  BY DEF IsTrees, IsList
<1>2. WherePairs(l, op) = f[N]
  BY DEF WherePairs, PairsTo
<1> HIDE DEF N
<1>3. PairsTo(f, l, op, N)
  BY <1>1, PairsToExist
<1> HIDE DEF f
<1> DEFINE T == {n \in Nat : n \in 1..N => IsTree(f[n])}
<1>4. 0 \in T
  OBVIOUS
<1>5. ASSUME NEW n \in Nat, n \in T PROVE n + 1 \in T
  <2> SUFFICES ASSUME n + 1 \in 1..N PROVE IsTree(f[n + 1])
    OBVIOUS
  <2>1. f[n + 1] = IF n + 1 = 1 THEN l[1] ELSE WherePair(f[(n + 1) - 1], l[n + 1], op)
    BY <1>3 DEF PairsTo
  <2>2. CASE n = 0
    BY <1>1, <2>1, <2>2
  <2>3. CASE n # 0
    <3>1. n \in 1..N /\ (n + 1) - 1 = n
      BY <1>1, <2>3
    <3>2. IsTree(f[n]) /\ IsTree(l[n + 1])
      BY <1>1, <1>5, <3>1
    <3>3. f[n + 1] = WherePair(f[n], l[n + 1], op)
      BY <2>1, <2>3, <3>1
    <3> QED
      BY <3>2, <3>3, PairIsTree
  <2> QED
    BY <2>2, <2>3
<1> HIDE DEF T
<1>6. Nat \subseteq T
  BY <1>4, <1>5, NatSetInduction
<1> QED
  BY <1>1, <1>2, <1>6 DEF T

\* A clause in parentheses,
LEMMA BracketedTree ==
  ASSUME NEW g, GivesTrees(g), NEW s \in Tokens
  PROVE  Bracketed(g, "where", s) # Fail => IsTree(Bracketed(g, "where", s).t)
<1> DEFINE p == g.where[Tail(s)]
<1>1. Hd(s) = "(" => Tail(s) \in Tokens
  BY TailTokens
<1>2. Hd(s) = "(" /\ p # Fail => IsTree(p.t)
  BY <1>1 DEF GivesTrees
<1>3. Bracketed(g, "where", s) = IF Hd(s) = "(" /\ Then(p, ")") THEN Got(p.t, Tail(p.r)) ELSE Fail
  BY DEF Bracketed
<1> HIDE DEF p
<1> QED
  BY <1>2, <1>3 DEF Then, Got

\* a clause that may be negated,
LEMMA WhereNotTree ==
  ASSUME NEW g, GivesTrees(g), NEW s \in Tokens
  PROVE  WhereNot(g, s) # Fail => IsTree(WhereNot(g, s).t)
<1> DEFINE item == g.where_item[s]
           not == g.where_not[Tail(s)]
<1>1. Hd(s) = "not" /\ not # Fail => IsTree(WhereNegated(not.t))
  BY TailTokens, NegatedIsTree DEF GivesTrees
<1>2. IsTree(WhereSingle(item.t))
  BY SingleIsTree
<1>3. Bracketed(g, "where", s) # Fail => IsTree(Bracketed(g, "where", s).t)
  BY BracketedTree
<1>4. WhereNot(g, s) =
        CASE Hd(s) = "not" -> IF not = Fail THEN Fail
                              ELSE Got(WhereNegated(not.t), not.r)
          [] Hd(s) # "not" /\ item # Fail -> Got(WhereSingle(item.t), item.r)
          [] OTHER -> Bracketed(g, "where", s)
  BY DEF WhereNot
<1> HIDE DEF item, not
<1>5. \A t, r : Got(t, r).t = t
  BY DEF Got
<1> QED
  BY <1>1, <1>2, <1>3, <1>4, <1>5

\* a list of clauses: what is read is a tree.
LEMMA WhereLevelTree ==
  ASSUME NEW g, NEW s, NEW list, NEW op \in {"and", "or"},
         g[list][s] # Fail => IsTrees(g[list][s].t)
  PROVE  WhereLevel(g, list, op, s) # Fail => IsTree(WhereLevel(g, list, op, s).t)
<1>1. g[list][s] # Fail => IsTree(WherePairs(g[list][s].t, op))
  BY PairsAreTrees
<1> QED
  BY <1>1 DEF WhereLevel, Got

\* A list of trees with one more in front.
LEMMA TreesWithHead ==
  ASSUME NEW w, IsTree(w), NEW l, IsTrees(l)
  PROVE  IsTrees(<<w>>) /\ IsTrees(<<w>> \o l)
<1>1. IsList(<<w>>)
  <2>1. <<w>> \in Seq({w})
    OBVIOUS
  <2> QED
    BY <2>1, SequenceIsList
<1>2. IsTrees(<<w>>)
  BY <1>1 DEF IsTrees
<1>3. IsList(<<w>> \o l)
  BY ListWithHead DEF IsTrees
<1>4. l \in Seq(Range(l))
  BY DEF IsTrees, IsList
<1>5. Len(<<w>> \o l) = Len(l) + 1 /\ Len(l) \in Nat
  BY <1>4
<1>6. ASSUME NEW i \in 1..Len(<<w>> \o l) PROVE IsTree((<<w>> \o l)[i])
  <2>1. CASE i = 1
    BY <1>4, <2>1
  <2>2. CASE i # 1
    <3>1. i - 1 \in 1..Len(l) /\ (<<w>> \o l)[i] = l[i - 1]
      BY <1>4, <1>5, <2>2
    <3> QED
      BY <3>1 DEF IsTrees
  <2> QED
    BY <2>1, <2>2
<1> QED
  BY <1>2, <1>3, <1>5, <1>6 DEF IsTrees

\* A list rule over a rule that returns trees returns a list of them.
LEMMA ListOfTrees ==
  ASSUME NEW g, Reading(g), NEW s \in Tokens, NEW rule \in RuleName, NEW list, NEW sep, sep # "end",
         \A u \in Tokens : g[rule][u] # Fail => IsTree(g[rule][u].t),
         \A u \in Tokens : g[list][u] # Fail => IsTrees(g[list][u].t)
  PROVE  ListOf(g, rule, list, sep, s) # Fail => IsTrees(ListOf(g, rule, list, sep, s).t)
<1> DEFINE p == g[rule][s]
           q == g[list][Tail(p.r)]
<1>1. p # Fail => IsTree(p.t) /\ p.r \in Tokens
  BY DEF Reading, Left
<1>2. p # Fail => IsTrees(<<p.t>>)
  <2>1. \A w : IsTree(w) => IsTrees(<<w>>)
    <3> SUFFICES ASSUME NEW w, IsTree(w) PROVE IsTrees(<<w>>)
      OBVIOUS
    <3>1. <<w>> \in Seq({w})
      OBVIOUS
    <3>2. IsList(<<w>>)
      BY <3>1, SequenceIsList
    <3> QED
      BY <3>2 DEF IsTrees
  <2> QED
    BY <1>1, <2>1
<1>3. p # Fail /\ Hd(p.r) = sep /\ q # Fail => IsTrees(<<p.t>> \o q.t)
  <2> SUFFICES ASSUME p # Fail, Hd(p.r) = sep, q # Fail PROVE IsTrees(<<p.t>> \o q.t)
    OBVIOUS
  <2>1. Tail(p.r) \in Tokens
    BY <1>1, TailTokens
  <2>2. IsTrees(q.t)
    BY <2>1
  <2> HIDE DEF p, q
  <2> QED
    BY <1>1, <2>2, TreesWithHead
<1>4. ListOf(g, rule, list, sep, s) =
        CASE p = Fail -> Fail
          [] p # Fail /\ Hd(p.r) # sep -> Got(<<p.t>>, p.r)
          [] OTHER -> IF q = Fail THEN Fail ELSE Got(<<p.t>> \o q.t, q.r)
  BY DEF ListOf
<1> HIDE DEF p, q
<1>5. \A t, r : Got(t, r).t = t
  BY DEF Got
<1> QED
  BY <1>2, <1>3, <1>4, <1>5

\* The optional WHERE.
LEMMA OptWhereTree ==
  ASSUME NEW g, GivesTrees(g), NEW s \in Tokens
  PROVE  OptWhere(g, s) # Fail => (OptWhere(g, s).t # NULL => IsTree(OptWhere(g, s).t))
<1> DEFINE n == Len(<<"where">>) + 1
           p == g.where[From(s, n)]
<1>1. From(s, n) \in Tokens
  BY FromTokens
<1>2. p # Fail => IsTree(p.t)
  BY <1>1 DEF GivesTrees
<1>3. OptWhere(g, s) = IF IsPrefix(<<"where">>, s) THEN p ELSE Got(NULL, s)
  BY DEF OptWhere, Opt
<1> HIDE DEF p
<1> QED
  BY <1>2, <1>3 DEF Got

\* The conditions of a select are a tree.
LEMMA SelectTree ==
  ASSUME NEW g, Reading(g), GivesTrees(g), NEW s \in Tokens
  PROVE  Select(g, s) # Fail => HasTree(Select(g, s).t)
<1> DEFINE d == Hd2(s) = "distinct"
           f == g.fields[From(s, IF d THEN 3 ELSE 2)]
           t == Opt(g, <<"from">>, "targets", f.r, <<>>)
           w == OptWhere(g, t.r)
           o == Opt(g, <<"order", "by">>, "orders", w.r, <<>>)
           c == Opt(g, <<"group", "by">>, "fields", o.r, <<>>)
<1>1. f # Fail => f.r \in Tokens
  BY FromTokens, ReadsByRule DEF Left
<1>2. f # Fail /\ t # Fail => t.r \in Tokens
  <2>1. "targets" \in RuleName /\ Len(<<"from">>) \in Nat
    BY DEF RuleName, Rules
  <2> HIDE DEF f
  <2> QED
    BY <1>1, <2>1, OptReads DEF Left
<1>3. f # Fail /\ t # Fail /\ w # Fail => (w.t # NULL => IsTree(w.t))
  <2> HIDE DEF t, f
  <2> QED
    BY <1>2, OptWhereTree
<1>4. Select(g, s) =
        IF Hd(s) # "select" THEN Fail ELSE IF f = Fail THEN Fail
        ELSE IF t = Fail THEN Fail ELSE IF w = Fail THEN Fail
        ELSE IF o = Fail THEN Fail ELSE IF c = Fail THEN Fail
        ELSE Got(SelectBuild(d, f.t, t.t, w.t, o.t, c.t), c.r)
  BY DEF Select
<1> HIDE DEF d, f, t, w, o, c
<1> SUFFICES ASSUME Select(g, s) # Fail PROVE HasTree(Select(g, s).t)
  OBVIOUS
<1>5. Select(g, s).t = SelectBuild(d, f.t, t.t, w.t, o.t, c.t)
  BY <1>4 DEF Got
<1>6. Select(g, s).t.where = w.t
  BY <1>5 DEF SelectBuild
<1> QED
  BY <1>3, <1>4, <1>6 DEF HasTree

\* Over rules that return trees the rules return trees.
LEMMA RulesTrees ==
  ASSUME NEW g, Reading(g), GivesTrees(g)
  PROVE  GivesTrees(Rules(g))
<1> DEFINE R == Rules(g)
<1> SUFFICES ASSUME NEW s \in Tokens
             PROVE  /\ R.where_not[s] # Fail => IsTree(R.where_not[s].t)
                    /\ R.where_and[s] # Fail => IsTree(R.where_and[s].t)
                    /\ R.where[s] # Fail => IsTree(R.where[s].t)
                    /\ R.and_list[s] # Fail => IsTrees(R.and_list[s].t)
                    /\ R.or_list[s] # Fail => IsTrees(R.or_list[s].t)
                    /\ R.SQL_select[s] # Fail => HasTree(R.SQL_select[s].t)
  BY DEF GivesTrees
<1>1. {"where_not", "where_and"} \subseteq RuleName
  BY DEF RuleName, Rules
<1>2. /\ R.where_not[s] = WhereNot(g, s)
      /\ R.where_and[s] = WhereLevel(g, "and_list", "and", s)
      /\ R.where[s] = WhereLevel(g, "or_list", "or", s)
      /\ R.and_list[s] = ListOf(g, "where_not", "and_list", "and", s)
      /\ R.or_list[s] = ListOf(g, "where_and", "or_list", "or", s)
      /\ R.SQL_select[s] = Select(g, s)
  BY DEF Rules, Tokens
<1> HIDE DEF R
<1>3. \A u \in Tokens : /\ g["where_not"][u] # Fail => IsTree(g["where_not"][u].t)
                        /\ g["where_and"][u] # Fail => IsTree(g["where_and"][u].t)
                        /\ g["and_list"][u] # Fail => IsTrees(g["and_list"][u].t)
                        /\ g["or_list"][u] # Fail => IsTrees(g["or_list"][u].t)
  BY DEF GivesTrees
<1>4. R.where_not[s] # Fail => IsTree(R.where_not[s].t)
  BY <1>2, WhereNotTree
<1>5. R.where_and[s] # Fail => IsTree(R.where_and[s].t)
  BY <1>2, <1>3, WhereLevelTree
<1>6. R.where[s] # Fail => IsTree(R.where[s].t)
  BY <1>2, <1>3, WhereLevelTree
<1>7. R.and_list[s] # Fail => IsTrees(R.and_list[s].t)
  BY <1>1, <1>2, <1>3, ListOfTrees
<1>8. R.or_list[s] # Fail => IsTrees(R.or_list[s].t)
  BY <1>1, <1>2, <1>3, ListOfTrees
<1>9. R.SQL_select[s] # Fail => HasTree(R.SQL_select[s].t)
  BY <1>2, SelectTree
<1> QED
  BY <1>4, <1>5, <1>6, <1>7, <1>8, <1>9

\* Every level of the grammar returns trees.
LEMMA GrammarGivesTrees ==
  \A d \in 0..MaxDepth : GivesTrees(Grammar[d])
<1> DEFINE T == {d \in Nat : d \in 0..MaxDepth => GivesTrees(Grammar[d])}
<1>1. 0 \in T
  <2>1. \A rule \in DOMAIN Rules(NULL), s \in Tokens : Grammar[0][rule][s] = Fail
    BY GrammarUnfolds DEF Tokens
  <2>2. {"where_not", "where_and", "where", "and_list", "or_list", "SQL_select"}
           \subseteq DOMAIN Rules(NULL)
    BY DEF Rules
  <2>3. GivesTrees(Grammar[0])
    BY <2>1, <2>2 DEF GivesTrees
  <2> QED
    BY <2>3
<1>2. ASSUME NEW d \in Nat, d \in T PROVE d + 1 \in T
  <2> SUFFICES ASSUME d + 1 \in 0..MaxDepth PROVE GivesTrees(Grammar[d + 1])
    OBVIOUS
  <2>1. d \in 0..MaxDepth /\ d + 1 \in 1..MaxDepth /\ (d + 1) - 1 = d
    BY TokenAssumption
  <2>2. Grammar[d + 1] = Rules(Grammar[d])
    BY <2>1, GrammarUnfolds
  <2>3. Reading(Grammar[d]) /\ GivesTrees(Grammar[d])
    BY <1>2, <2>1, GrammarReads
  <2> QED
    BY <2>2, <2>3, RulesTrees
<1> HIDE DEF T
<1>3. Nat \subseteq T
  BY <1>1, <1>2, NatSetInduction
<1> QED
  BY <1>3, TokenAssumption DEF T

\* The conditions of a select that sql_parse returns are a tree, if it has any.
LEMMA ParseHasTree ==
  ASSUME NEW text, SqlParse(text) # NULL, SqlParse(text).type = "SQL_select"
  PROVE  HasTree(SqlParse(text).statement)
<1>1. text \in Seq(STRING) /\ SqlParse(text) = Grammar[MaxDepth].statement[text]
  BY DEF SqlParse
<1>2. CASE MaxDepth = 0
  <2>1. "statement" \in DOMAIN Rules(NULL)
    BY DEF Rules
  <2> QED
    BY <1>1, <1>2, <2>1, GrammarUnfolds DEF Fail
<1>3. CASE MaxDepth # 0
  <2>1. MaxDepth \in 1..MaxDepth /\ MaxDepth - 1 \in 0..MaxDepth
    BY <1>3, TokenAssumption
  <2> DEFINE g == Grammar[MaxDepth - 1]
  <2>2. GivesTrees(g)
    BY <2>1, GrammarGivesTrees
  <2>3. Grammar[MaxDepth] = Rules(g)
    BY <2>1, GrammarUnfolds
  <2> HIDE DEF g
  <2>4. SqlParse(text) = Statement(g, text)
    <3>1. Rules(g).statement[text] = Statement(g, text)
      BY <1>1 DEF Rules
    <3> QED
      BY <1>1, <2>3, <3>1
  <2>5. g.SQL_select[text] # Fail => HasTree(g.SQL_select[text].t)
    BY <1>1, <2>2 DEF GivesTrees, Tokens
  <2> DEFINE type == CASE Hd(text) = "select" -> "SQL_select"
                       [] Hd(text) = "insert" -> "SQL_insert"
                       [] Hd(text) = "update" -> "SQL_update"
                       [] OTHER -> "SQL_delete"
             p == g[type][text]
  <2>6. SqlParse(text) = IF p = Fail THEN NULL ELSE IF p.r # <<>> THEN NULL
                         ELSE StatementBuild(type, p.t)
    BY <2>4 DEF Statement
  <2> HIDE DEF type
  <2>7. p # Fail /\ SqlParse(text) = StatementBuild(type, p.t)
    BY <2>6
  <2>8. type = "SQL_select" /\ SqlParse(text).statement = p.t
    BY <2>7 DEF StatementBuild
  <2> QED
    BY <2>5, <2>7, <2>8
<1> QED
  BY <1>2, <1>3

-----------------------------------------------------------------------------
(* The references of an object, told and found.                            *)

\* The values of a function that goes through the elements of a list: base,
\* and from each the next.
Steps(g, base0, next, n) ==
  g[0] = base0 /\ \A m \in 1..n : g[m] = next[m][g[m - 1]]

\* A function that goes through a list step by step exists.
LEMMA StepsExist ==
  ASSUME NEW S, NEW base0 \in S, NEW next \in [Nat -> [S -> S]], NEW N \in Nat
  PROVE  \E g \in [0..N -> S] : Steps(g, base0, next, N)
<1> DEFINE T == {n \in Nat : \E g \in [0..n -> S] : Steps(g, base0, next, n)}
<1>1. 0 \in T
  <2> DEFINE g == [n \in 0..0 |-> base0]
  <2>1. g \in [0..0 -> S] /\ Steps(g, base0, next, 0)
    BY DEF Steps
  <2> HIDE DEF g
  <2> QED
    BY <2>1
<1>2. ASSUME NEW n \in Nat, n \in T PROVE n + 1 \in T
  <2>1. PICK g \in [0..n -> S] : Steps(g, base0, next, n)
    BY <1>2
  <2> DEFINE h == [m \in 0..(n + 1) |-> IF m = n + 1 THEN next[m][g[n]] ELSE g[m]]
  <2>2. h \in [0..(n + 1) -> S]
    OBVIOUS
  <2>3. h[0] = base0
    BY <2>1 DEF Steps
  <2>4. ASSUME NEW m \in 1..(n + 1) PROVE h[m] = next[m][h[m - 1]]
    <3>1. m - 1 \in 0..n /\ h[m - 1] = g[m - 1]
      OBVIOUS
    <3>2. CASE m = n + 1
      BY <3>1, <3>2
    <3>3. CASE m \in 1..n
      <4>1. h[m] = g[m]
        BY <3>3
      <4> HIDE DEF h
      <4> QED
        BY <2>1, <3>1, <3>3, <4>1 DEF Steps
    <3> QED
      BY <3>2, <3>3
  <2> HIDE DEF h
  <2>5. Steps(h, base0, next, n + 1)
    BY <2>3, <2>4 DEF Steps
  <2> QED
    BY <2>2, <2>5
<1> HIDE DEF T
<1>3. N \in T
  BY <1>1, <1>2, NatSetInduction
<1> QED
  BY <1>3 DEF T

\* What every step keeps, all of them keep.
LEMMA StepsStay ==
  ASSUME NEW S, NEW N \in Nat, NEW f, f[0] \in S,
         \A m \in 1..N : f[m - 1] \in S => f[m] \in S
  PROVE  \A m \in 0..N : f[m] \in S
<1> DEFINE T == {m \in Nat : m \in 0..N => f[m] \in S}
<1>1. 0 \in T
  OBVIOUS
<1>2. ASSUME NEW m \in Nat, m \in T PROVE m + 1 \in T
  <2>1. m + 1 \in 0..N => m \in 0..N /\ m + 1 \in 1..N /\ (m + 1) - 1 = m
    OBVIOUS
  <2> QED
    BY <1>2, <2>1
<1> HIDE DEF T
<1>3. Nat \subseteq T
  BY <1>1, <1>2, NatSetInduction
<1> QED
  BY <1>3 DEF T

\* bonddb_ref_add makes a reference.
LEMMA ReferenceNewTold ==
  ASSUME NEW r \in Known, NEW position, IsPosition(position)
  PROVE  ReferenceNew(r, position) \in Told
<1>1. ASSUME NEW t, NEW c PROVE At(position, t, c) \in Int
  <2> DEFINE found == FieldGet(DOMAIN position, t, c)
             k == CHOOSE x \in found : TRUE
  <2>1. found \subseteq DOMAIN position
    BY DEF FieldGet
  <2>2. At(position, t, c) = IF found = {} THEN -1 ELSE position[k]
    BY DEF At
  <2>3. found # {} => k \in found
    OBVIOUS
  <2> HIDE DEF found, k
  <2>4. found # {} => position[k] \in Int
    BY <2>1, <2>3 DEF IsPosition
  <2> QED
    BY <2>2, <2>4
<1>2. r \in [fromtable : STRING, fromfield : STRING, totable : STRING,
             tofield : STRING]
  BY ReferenceAssumption
<1>3. Bare(ReferenceNew(r, position)) = r
  BY <1>2 DEF Bare, ReferenceNew
<1>4. ReferenceNew(r, position) \in
        [fromtable : STRING, fromfield : STRING, totable : STRING,
         tofield : STRING, fromcount : Int, tocount : Int]
  BY <1>1, <1>2 DEF ReferenceNew
<1> QED
  BY <1>3, <1>4 DEF Told

\* The references that the database knows of a table.
LEMMA FindReferenceTold ==
  ASSUME NEW table, NEW position, IsPosition(position)
  PROVE  FindReference(table, position) \in Seq(Told)
<1>1. CASE table \in DOMAIN Detected
  <2>1. Detected[table] \in Seq(Known)
    BY <1>1, ReferenceAssumption
  <2>2. FindReference(table, position) =
          [i \in 1..Len(Detected[table]) |-> ReferenceNew(Detected[table][i], position)]
    BY <1>1, <2>1 DEF FindReference, Each
  <2>3. \A i \in 1..Len(Detected[table]) : Detected[table][i] \in Known
    BY <2>1
  <2>4. \A i \in 1..Len(Detected[table]) :
          ReferenceNew(Detected[table][i], position) \in Told
    BY <2>3, ReferenceNewTold
  <2> QED
    BY <2>1, <2>2, <2>4
<1>2. CASE table \notin DOMAIN Detected
  BY <1>2 DEF FindReference
<1> QED
  BY <1>1, <1>2

\* A list is numbered from one.
LEMMA ListLength ==
  ASSUME NEW l, IsList(l)
  PROVE  Len(l) \in Nat /\ DOMAIN l = 1..Len(l)
BY DEF IsList

\* bonddb_ref_autoadd collects references.
LEMMA AutoAddTold ==
  ASSUME NEW tables, IsList(tables), NEW position, IsPosition(position)
  PROVE  AutoAdd(tables, position) \in Seq(Told)
<1> DEFINE S == Seq(Told)
           N == Len(tables)
           next == [i \in Nat |-> [l \in S |->
                      Reverse(FindReference(tables[i], position)) \o l]]
           added[i \in 0..N] ==
             IF i = 0 THEN <<>>
             ELSE Reverse(FindReference(tables[i], position)) \o added[i - 1]
<1>1. N \in Nat
  BY ListLength
<1>2. ASSUME NEW t PROVE Reverse(FindReference(t, position)) \in S
  <2>1. FindReference(t, position) \in Seq(Told)
    BY FindReferenceTold
  <2> QED
    BY <2>1 DEF Reverse
<1>3. next \in [Nat -> [S -> S]]
  <2>1. \A i \in Nat, l \in S :
          Reverse(FindReference(tables[i], position)) \o l \in S
    <3> SUFFICES ASSUME NEW i \in Nat, NEW l \in S
                 PROVE  Reverse(FindReference(tables[i], position)) \o l \in S
      OBVIOUS
    <3>1. Reverse(FindReference(tables[i], position)) \in S
      BY <1>2
    <3> QED
      BY <3>1
  <2> QED
    BY <2>1
<1>4. PICK g \in [0..N -> S] : Steps(g, <<>>, next, N)
  <2>1. <<>> \in S
    OBVIOUS
  <2> HIDE DEF next, N, S
  <2> QED
    BY <1>1, <1>3, <2>1, StepsExist
<1>5. g = [i \in 0..N |->
             IF i = 0 THEN <<>>
             ELSE Reverse(FindReference(tables[i], position)) \o g[i - 1]]
  <2>1. ASSUME NEW i \in 0..N, i # 0
        PROVE  g[i] = Reverse(FindReference(tables[i], position)) \o g[i - 1]
    <3>1. i \in 1..N /\ i \in Nat /\ i - 1 \in 0..N
      BY <1>1, <2>1
    <3>2. g[i - 1] \in S
      BY <1>4, <3>1
    <3>3. g[i] = next[i][g[i - 1]]
      BY <1>4, <3>1 DEF Steps
    <3> QED
      BY <3>1, <3>2, <3>3
  <2>2. \A i \in 0..N : g[i] = IF i = 0 THEN <<>>
             ELSE Reverse(FindReference(tables[i], position)) \o g[i - 1]
    BY <1>4, <2>1 DEF Steps
  <2> HIDE DEF N
  <2> QED
    BY <1>4, <2>2
<1> HIDE DEF next
<1>6. added = [i \in 0..N |->
             IF i = 0 THEN <<>>
             ELSE Reverse(FindReference(tables[i], position)) \o added[i - 1]]
  <2>1. \E h : h = [i \in 0..N |->
             IF i = 0 THEN <<>>
             ELSE Reverse(FindReference(tables[i], position)) \o h[i - 1]]
    BY <1>5
  <2> QED
    BY <2>1 DEF added
<1>7. AutoAdd(tables, position) = added[N]
  BY DEF AutoAdd
<1> HIDE DEF added
<1>8. added[0] \in S
  BY <1>1, <1>6
<1>9. ASSUME NEW m \in 1..N, added[m - 1] \in S PROVE added[m] \in S
  <2>1. m \in 0..N /\ m # 0
    BY <1>1
  <2>2. added[m] = Reverse(FindReference(tables[m], position)) \o added[m - 1]
    BY <1>6, <2>1
  <2>3. Reverse(FindReference(tables[m], position)) \in Seq(Told)
    BY <1>2
  <2> QED
    BY <1>9, <2>2, <2>3
<1> HIDE DEF S, N
<1>10. added[N] \in S
  <2>1. \A m \in 0..N : added[m] \in S
    BY <1>1, <1>8, <1>9, StepsStay
  <2> QED
    BY <1>1, <2>1
<1> QED
  BY <1>7, <1>10 DEF S, N

\* What bonddb_ref_find has so far.
FoundSoFar == [best : Int, ref : Told \cup {NULL}, onetomany : BOOLEAN]

\* A reference that is nearer replaces the one found so far.
LEMMA BetterFound ==
  ASSUME NEW found \in FoundSoFar, NEW r \in Told, NEW onetomany \in BOOLEAN
  PROVE  LET b == Better(found, r, onetomany)
         IN  /\ b \in FoundSoFar
             /\ \/ b.ref = found.ref /\ b.onetomany = found.onetomany
                \/ b.ref = r /\ b.onetomany = onetomany
<1> DEFINE This(best) == [best |-> best, ref |-> r, onetomany |-> onetomany]
           Nearer(n, f) == IF n # -1 /\ n < f.best THEN This(n) ELSE f
           nearer == Nearer(r.fromcount, Nearer(r.tocount, found))
           Either == {f \in FoundSoFar :
                        \/ f.ref = found.ref /\ f.onetomany = found.onetomany
                        \/ f.ref = r /\ f.onetomany = onetomany}
<1>1. r.fromcount \in Int /\ r.tocount \in Int
  BY DEF Told
<1>2. ASSUME NEW n \in Int PROVE This(n) \in Either
  BY <1>2 DEF FoundSoFar
<1>3. ASSUME NEW n \in Int, NEW f \in Either PROVE Nearer(n, f) \in Either
  <2> HIDE DEF Either, This
  <2> QED
    BY <1>2, <1>3
<1>4. found \in Either
  OBVIOUS
<1>5. Nearer(r.tocount, found) \in Either
  <2> HIDE DEF Either, Nearer
  <2> QED
    BY <1>1, <1>3, <1>4
<1>6. nearer \in Either
  <2> HIDE DEF Either, Nearer
  <2> QED
    BY <1>1, <1>3, <1>5
<1>7. This(9999) \in Either
  <2> HIDE DEF Either, This
  <2> QED
    BY <1>2
<1>8. Better(found, r, onetomany) =
        IF nearer.best = 9999 /\ r.fromcount = -1 /\ r.tocount = -1
        THEN This(9999) ELSE nearer
  BY DEF Better
<1> HIDE DEF This, Nearer, nearer, Either
<1>9. Better(found, r, onetomany) \in Either
  BY <1>6, <1>7, <1>8
<1> QED
  BY <1>9 DEF Either

\* The reference that was found is one between the table and one of the source.
Fitting(f, s, table) ==
  f.ref # NULL =>
    LET e == Ends(f.ref, f.onetomany)
    IN  Head(e.there) = table /\ VerifyTable(s, Head(e.here))

\* bonddb_ref_find finds a reference that was told, or none.
LEMMA RefFindFinds ==
  ASSUME NEW reflist \in Seq(Told), NEW s, s.reflist \in Seq(Told), NEW table
  PROVE  /\ RefFind(reflist, s, table) \in FoundSoFar
         /\ Fitting(RefFind(reflist, s, table), s, table)
<1> DEFINE S == {f \in FoundSoFar : Fitting(f, s, table)}
           refs == s.reflist \o reflist
           own(i) == i <= Len(s.reflist)
           fits(i) == IF own(i) THEN refs[i].totable = table /\ VerifyTable(s, refs[i].fromtable)
                      ELSE refs[i].fromtable = table /\ VerifyTable(s, refs[i].totable)
           N == Len(refs)
           none == [best |-> 9999, ref |-> NULL, onetomany |-> FALSE]
           Step(i, f) == IF fits(i) THEN Better(f, refs[i], own(i)) ELSE f
           next == [i \in Nat |-> [f \in S |-> IF i \in 1..N THEN Step(i, f) ELSE f]]
           found[i \in 0..N] ==
             IF i = 0 THEN none
             ELSE IF fits(i) THEN Better(found[i - 1], refs[i], own(i)) ELSE found[i - 1]
<1>1. N \in Nat /\ none \in S /\ refs \in Seq(Told)
  BY DEF FoundSoFar, Fitting
<1>2. ASSUME NEW i \in 1..N, NEW f \in S PROVE Step(i, f) \in S
  <2>1. refs[i] \in Told
    BY <1>1
  <2>2. own(i) \in BOOLEAN
    OBVIOUS
  <2>3. SUFFICES ASSUME fits(i) PROVE Better(f, refs[i], own(i)) \in S
    OBVIOUS
  <2> DEFINE r == refs[i]
             otm == own(i)
             b == Better(f, r, otm)
  <2>4. Head(Ends(r, otm).there) = table /\ VerifyTable(s, Head(Ends(r, otm).here))
    <3> HIDE DEF refs
    <3>1. CASE own(i)
      BY <2>3, <3>1 DEF Ends
    <3>2. CASE ~own(i)
      BY <2>3, <3>2 DEF Ends
    <3> QED
      BY <3>1, <3>2
  <2>5. r \in Told /\ otm \in BOOLEAN /\ f \in FoundSoFar /\ Fitting(f, s, table)
    BY <2>1, <2>2
  <2> HIDE DEF own, refs, fits, r, otm
  <2>6. /\ b \in FoundSoFar
        /\ \/ b.ref = f.ref /\ b.onetomany = f.onetomany
           \/ b.ref = r /\ b.onetomany = otm
    BY <2>5, BetterFound
  <2> HIDE DEF b
  <2>7. Fitting(b, s, table)
    BY <2>4, <2>5, <2>6 DEF Fitting
  <2> QED
    BY <2>6, <2>7 DEF b, r, otm
<1> HIDE DEF S, refs, own, fits, none
<1>3. next \in [Nat -> [S -> S]]
  <2> HIDE DEF Step
  <2> QED
    BY <1>2
<1>4. PICK g \in [0..N -> S] : Steps(g, none, next, N)
  <2> HIDE DEF next, N
  <2> QED
    BY <1>1, <1>3, StepsExist
<1>5. g = [i \in 0..N |->
             IF i = 0 THEN none
             ELSE IF fits(i) THEN Better(g[i - 1], refs[i], own(i)) ELSE g[i - 1]]
  <2>1. ASSUME NEW i \in 0..N, i # 0 PROVE g[i] = Step(i, g[i - 1])
    <3>1. i \in 1..N /\ i \in Nat /\ i - 1 \in 0..N
      BY <1>1, <2>1
    <3>2. g[i - 1] \in S
      BY <1>4, <3>1
    <3>3. g[i] = next[i][g[i - 1]]
      BY <1>4, <3>1 DEF Steps
    <3> HIDE DEF Step
    <3> QED
      BY <3>1, <3>2, <3>3
  <2>2. \A i \in 0..N : g[i] = IF i = 0 THEN none ELSE Step(i, g[i - 1])
    BY <1>4, <2>1 DEF Steps
  <2> HIDE DEF N
  <2> QED
    BY <1>4, <2>2
<1> HIDE DEF next
<1>6. found = [i \in 0..N |->
             IF i = 0 THEN none
             ELSE IF fits(i) THEN Better(found[i - 1], refs[i], own(i)) ELSE found[i - 1]]
  <2>1. \E h : h = [i \in 0..N |->
             IF i = 0 THEN none
             ELSE IF fits(i) THEN Better(h[i - 1], refs[i], own(i)) ELSE h[i - 1]]
    BY <1>5
  <2> QED
    BY <2>1 DEF found
<1>7. RefFind(reflist, s, table) = found[N]
  BY DEF RefFind, refs, own, fits, none
<1> HIDE DEF found
<1>8. found[0] \in S
  BY <1>1, <1>6
<1>9. ASSUME NEW m \in 1..N, found[m - 1] \in S PROVE found[m] \in S
  <2>1. m \in 0..N /\ m # 0
    BY <1>1
  <2>2. found[m] = Step(m, found[m - 1])
    BY <1>6, <2>1
  <2> HIDE DEF Step
  <2> QED
    BY <1>2, <1>9, <2>2
<1> HIDE DEF N
<1>10. found[N] \in S
  <2>1. \A m \in 0..N : found[m] \in S
    BY <1>1, <1>8, <1>9, StepsStay
  <2> QED
    BY <1>1, <2>1
<1> QED
  BY <1>7, <1>10 DEF S

\* A reference gives the value of a column of the row, and never NULL.
LEMMA JoiningReads ==
  ASSUME NEW found, NEW row, Joining(found, row) # NULL
  PROVE  LET e == Ends(found.ref, found.onetomany)
             w == Joining(found, row)
         IN  /\ found.ref # NULL /\ w = <<e.there, GetValue(row, e.here)>>
             /\ w[1] = e.there /\ w[2] = GetValue(row, e.here) /\ w[2] # NULL
<1> DEFINE e == Ends(found.ref, found.onetomany)
           value == GetValue(row, e.here)
<1>1. found.ref # NULL /\ Joining(found, row) = RefWhere(found, row)
  BY DEF Joining
<1>2. RefWhere(found, row) = IF value = NULL THEN NULL ELSE <<e.there, value>>
  BY DEF RefWhere
<1> HIDE DEF e, value
<1>3. value # NULL /\ Joining(found, row) = <<e.there, value>>
  BY <1>1, <1>2
<1> QED
  BY <1>1, <1>3 DEF e, value

\* A column that is read, if it is none but its own, is in the row.
LEMMA ReadsOwn ==
  ASSUME NEW row, NEW c, ColumnFor(row, c) \subseteq {c}, GetValue(row, c) # NULL
  PROVE  c \in DOMAIN row /\ GetValue(row, c) = row[c]
<1> DEFINE read == ColumnFor(row, c)
<1>1. read \subseteq DOMAIN row
  BY DEF ColumnFor, FieldGet
<1>2. GetValue(row, c) = IF read = {} THEN NULL ELSE row[CHOOSE k \in read : TRUE]
  BY DEF GetValue
<1> HIDE DEF read
<1>3. read = {c}
  BY <1>2 DEF read
<1> QED
  BY <1>1, <1>2, <1>3

\* The condition that a reference gives connects the object's column to the row,
\* if the row has the column.
LEMMA JoiningConnects ==
  ASSUME NEW found \in FoundSoFar, NEW row, Joining(found, row) # NULL,
         ColumnFor(row, Ends(found.ref, found.onetomany).here)
           \subseteq {Ends(found.ref, found.onetomany).here},
         NEW f, NEW v, f = Joining(found, row)[1], v.row = row,
         v.value = Joining(found, row)[2]
  PROVE  \E r \in Known : Connects(r, f, v)
<1> DEFINE e == Ends(found.ref, found.onetomany)
           r == Bare(found.ref)
<1>1. /\ found.ref # NULL /\ f = e.there
      /\ v.value = GetValue(row, e.here) /\ v.value # NULL
  BY JoiningReads
<1>2. found.ref \in Told /\ found.onetomany \in BOOLEAN
  BY <1>1 DEF FoundSoFar
<1>3. r \in Known
  BY <1>2 DEF Told
<1>4. e = Ends(r, found.onetomany)
  BY DEF Ends, Bare
<1> HIDE DEF e, r
<1>5. ColumnFor(row, e.here) \subseteq {e.here}
  BY DEF e
<1>6. e.here \in DOMAIN row /\ v.value = row[e.here]
  BY <1>1, <1>5, ReadsOwn
<1>7. e \in {Ends(r, onetomany) : onetomany \in BOOLEAN}
  BY <1>2, <1>4
<1>8. Connects(r, f, v)
  BY <1>1, <1>6, <1>7 DEF Connects
<1> QED
  BY <1>3, <1>8

-----------------------------------------------------------------------------
(* What a call has made of the object so far.                              *)

\* A text is no statement: StatementBuild allocates one.
NullIsNoTree == \A type, s : StatementBuild(type, s) # NULL

IsObject(o) ==
  /\ o = [query |-> o.query, statement |-> o.statement, tablelist |-> o.tablelist,
          generatequery |-> o.generatequery, birthhash |-> o.birthhash,
          reflist |-> o.reflist, position |-> o.position]
  /\ o.statement # NULL => IsStatement(o.statement)
  /\ IsList(o.tablelist) /\ o.reflist \in Seq(Told) /\ IsPosition(o.position)
IsSource(x) ==
  /\ x = [row |-> x.row, firsttable |-> x.firsttable, tablelist |-> x.tablelist,
          reflist |-> x.reflist]
  /\ x.tablelist \in Seq(STRING) /\ x.reflist \in Seq(Told)
IsSources(sources) ==
  sources = [n \in Source |-> sources[n]] /\ \A n \in Source : IsSource(sources[n])

\* The birth values are those of what was promised through a reference, and every
\* such promise is of a column that a reference connects to the row.
RowsBelong(births, promised) ==
  /\ DOMAIN births = {f \in DOMAIN promised : ~promised[f].own}
  /\ \A f \in DOMAIN births : births[f] = promised[f].value
Belong(promised) ==
  \A f \in DOMAIN promised :
    ~promised[f].own => \E r \in Known : Connects(r, f, promised[f])

\* What holds throughout a call.
IsProgress(p) ==
  /\ p = [o |-> p.o, src |-> p.src, conds |-> p.conds, loaded |-> p.loaded,
          pass |-> p.pass, fault |-> p.fault]
  /\ IsObject(p.o) /\ p.o.statement # NULL /\ IsSources(p.src)
  /\ p.o.generatequery => p.loaded # <<>>
  /\ p.pass \in Nat /\ (p.pass = 0 => p.loaded = <<>>)
  /\ RowsBelong(p.o.birthhash, p.loaded)

\* A condition leaves a statement a statement.
LEMMA AppendWhereIsStatement ==
  ASSUME NullIsNoTree, NEW s, IsStatement(s), NEW l, NEW r, NEW op, NEW condop
  PROVE  /\ IsStatement(AppendWhere(s, l, r, op, condop))
         /\ AppendWhere(s, l, r, op, condop) # NULL
<1>1. PICK type, x : s = StatementBuild(type, x) /\ (type = "SQL_select" => IsSelect(x))
  BY DEF IsStatement
<1> DEFINE new == WhereSingle(WhereCondition(l, r, condop))
           where == IF x.where = NULL THEN new ELSE InsertCondition(x.where, new, op)
           y == [x EXCEPT !.where = where]
<1>2. AppendWhere(s, l, r, op, condop) = StatementBuild(type, y)
  <2> HIDE DEF new
  <2> QED
    BY <1>1 DEF AppendWhere, StatementBuild, new
<1>3. type = "SQL_select" => IsSelect(y)
  <2> SUFFICES ASSUME type = "SQL_select" PROVE IsSelect(y)
    OBVIOUS
  <2>1. PICK d, fs, from, w, o, g :
          x = SelectBuild(d, fs, from, w, o, g) /\ IsList(from)
    BY <1>1 DEF IsSelect
  <2> HIDE DEF where
  <2>2. y = SelectBuild(d, fs, from, where, o, g)
    BY <2>1 DEF SelectBuild
  <2> QED
    BY <2>1, <2>2 DEF IsSelect
<1> HIDE DEF y
<1> QED
  BY <1>2, <1>3 DEF IsStatement, NullIsNoTree

\* Loading an object by another one of the same table.
LEMMA ByItselfProgress ==
  ASSUME NEW p, IsProgress(p), p.pass = 0, NEW row
  PROVE  LET q == ByItself(p, row)
         IN  /\ IsProgress(q) /\ q.o.statement = p.o.statement
             /\ q.src = p.src /\ q.conds = p.conds /\ Belong(q.loaded)
<1> DEFINE q == ByItself(p, row)
           text == p.o.query \o (IF WhereOf(p.o.statement) # NULL THEN <<"and">>
                              ELSE <<"where">>) \o row.id \o <<"=">> \o row.values[row.id]
           v == [value |-> row.values[row.id], own |-> TRUE, since |-> Len(p.conds)]
<1>1. /\ q.o = [query |-> text, statement |-> p.o.statement,
                 tablelist |-> p.o.tablelist, generatequery |-> p.o.generatequery,
                 birthhash |-> p.o.birthhash, reflist |-> p.o.reflist,
                 position |-> p.o.position]
      /\ q.src = p.src /\ q.conds = p.conds /\ q.fault = p.fault
      /\ q.loaded = Put(p.loaded, row.id, v) /\ q.pass = p.pass + 1
      /\ q = [o |-> q.o, src |-> q.src, conds |-> q.conds, loaded |-> q.loaded,
              pass |-> q.pass, fault |-> q.fault]
  <2> HIDE DEF text, v
  <2>1. q = [p EXCEPT !.o = [p.o EXCEPT !.query = text],
                      !.loaded = Put(p.loaded, row.id, v), !.pass = p.pass + 1]
    BY DEF ByItself, text, v
  <2> HIDE DEF q
  <2> QED
    BY <2>1 DEF IsProgress, IsObject
<1> HIDE DEF q, text
<1>2. IsObject(q.o) /\ q.o.statement # NULL /\ q.o.birthhash = p.o.birthhash
  <2>1. IsObject(p.o) /\ p.o.statement # NULL
    BY DEF IsProgress
  <2> QED
    BY <1>1, <2>1 DEF IsObject
<1>3. q.loaded # <<>>
  <2> HIDE DEF v
  <2> QED
    BY <1>1 DEF Put
<1>4. DOMAIN q.loaded = {row.id} /\ q.loaded[row.id].own
  <2>1. v.own
    OBVIOUS
  <2>2. DOMAIN p.loaded = {}
    BY DEF IsProgress
  <2> HIDE DEF v
  <2> QED
    BY <1>1, <2>1, <2>2 DEF Put
<1>5. RowsBelong(q.o.birthhash, q.loaded) /\ Belong(q.loaded)
  <2>1. DOMAIN p.o.birthhash = {}
    BY DEF IsProgress, RowsBelong
  <2> QED
    BY <1>2, <1>4, <2>1 DEF RowsBelong, Belong
<1>6. q.pass \in Nat /\ q.pass # 0
  BY <1>1 DEF IsProgress
<1> QED
  BY <1>1, <1>2, <1>3, <1>5, <1>6 DEF IsProgress, q

\* What loading an object through a reference promises of a column.
Promise(p, right, values) ==
  [value |-> right, own |-> FALSE, since |-> Len(p.conds), row |-> values]

\* Loading an object through a reference.
LEMMA ByReferenceProgress ==
  ASSUME NullIsNoTree, NEW p, IsProgress(p), NEW left, NEW right, NEW values
  PROVE  LET q == ByReference(p, left, right, values)
         IN  /\ IsProgress(q) /\ q.src = p.src
             /\ q.o.statement = AppendWhere(p.o.statement, left, right, "and", "=")
             /\ q.conds = Append(p.conds, [op |-> "and", atom |-> Equals(left, right)])
             /\ Belong(p.loaded)
                /\ (\E r \in Known : Connects(r, left, Promise(p, right, values)))
                  => Belong(q.loaded)
<1> DEFINE q == ByReference(p, left, right, values)
           where == WhereOf(p.o.statement)
           v == Promise(p, right, values)
           s == AppendWhere(p.o.statement, left, right, "and", "=")
           births == Put(p.o.birthhash, left, right)
           faults == IF where = NULL THEN p.fault
                     ELSE IF ReadsNegation(where, "and") THEN "negation" ELSE p.fault
           cs == Append(p.conds, [op |-> "and", atom |-> Equals(left, right)])
<1>1. /\ q.o = [query |-> p.o.query, statement |-> s, tablelist |-> p.o.tablelist,
                 generatequery |-> TRUE, birthhash |-> births,
                 reflist |-> p.o.reflist, position |-> p.o.position]
      /\ q.src = p.src /\ q.conds = cs
      /\ q.loaded = Put(p.loaded, left, v) /\ q.pass = p.pass + 1
      /\ q = [o |-> q.o, src |-> q.src, conds |-> q.conds, loaded |-> q.loaded,
              pass |-> q.pass, fault |-> q.fault]
  <2> HIDE DEF v, s, births, faults, cs
  <2>1. q = [p EXCEPT !.o.birthhash = births, !.o.statement = s, !.o.generatequery = TRUE,
                      !.fault = faults, !.conds = cs,
                      !.loaded = Put(p.loaded, left, v), !.pass = p.pass + 1]
    BY DEF ByReference, AddBirth, Promise, v, s, births, faults, cs
  <2> HIDE DEF q
  <2> QED
    BY <2>1 DEF IsProgress, IsObject
<1> HIDE DEF q, s
<1>2. IsObject(q.o) /\ q.o.statement # NULL /\ q.o.birthhash = births
  <2>1. IsObject(p.o) /\ p.o.statement # NULL
    BY DEF IsProgress
  <2>2. IsStatement(s) /\ s # NULL
    BY <2>1, AppendWhereIsStatement DEF IsObject, s
  <2> HIDE DEF births
  <2> QED
    BY <1>1, <2>1, <2>2 DEF IsObject
<1>3. q.loaded # <<>>
  <2> HIDE DEF v
  <2> QED
    BY <1>1 DEF Put
<1>4. RowsBelong(q.o.birthhash, q.loaded)
  <2>1. ~v.own /\ v.value = right
    BY DEF Promise
  <2> HIDE DEF v
  <2>2. RowsBelong(p.o.birthhash, p.loaded)
    BY DEF IsProgress
  <2>3. DOMAIN births = DOMAIN p.o.birthhash \cup {left} /\ births[left] = right
        /\ \A f \in DOMAIN p.o.birthhash : f # left => births[f] = p.o.birthhash[f]
    BY DEF Put
  <2>4. DOMAIN q.loaded = DOMAIN p.loaded \cup {left} /\ q.loaded[left] = v
        /\ \A f \in DOMAIN p.loaded : f # left => q.loaded[f] = p.loaded[f]
    BY <1>1 DEF Put
  <2> HIDE DEF births
  <2> QED
    BY <1>2, <2>1, <2>2, <2>3, <2>4 DEF RowsBelong
<1>5. Belong(p.loaded) /\ (\E r \in Known : Connects(r, left, v)) => Belong(q.loaded)
  <2> HIDE DEF v
  <2>1. DOMAIN q.loaded = DOMAIN p.loaded \cup {left} /\ q.loaded[left] = v
        /\ \A f \in DOMAIN p.loaded : f # left => q.loaded[f] = p.loaded[f]
    BY <1>1 DEF Put
  <2> QED
    BY <2>1 DEF Belong
<1>6. q.pass \in Nat /\ q.pass # 0
  BY <1>1 DEF IsProgress
<1>7. IsProgress(q)
  BY <1>1, <1>2, <1>3, <1>4, <1>6 DEF IsProgress
<1>8. q.src = p.src /\ q.o.statement = s /\ q.conds = cs
  BY <1>1
<1> HIDE DEF cs, v
<1> QED
  BY <1>5, <1>7, <1>8 DEF q, s, cs, v

\* An object that is asked for its references learns them.
LEMMA AutoAddSourceIsSource ==
  ASSUME NEW n \in Source, NEW s, IsSource(s)
  PROVE  /\ IsSource(AutoAddSource(n, s)) /\ AutoAddSource(n, s).row = s.row
         /\ s.tablelist # <<>> => AutoAddSource(n, s).tablelist = s.tablelist
<1> DEFINE tables == IF s.tablelist = <<>> THEN SourceOf[n].tables ELSE s.tablelist
           refs == AutoAdd(tables, SourceOf[n].position)
           first == IF s.tablelist = <<>> THEN Head(tables) ELSE s.firsttable
<1>1. tables \in Seq(STRING)
  BY SourceAssumption DEF IsSource
<1>2. refs \in Seq(Told)
  <2>1. IsList(tables) /\ IsPosition(SourceOf[n].position)
    BY <1>1, SequenceIsList, SourceAssumption
  <2> HIDE DEF tables
  <2> QED
    BY <2>1, AutoAddTold
<1>3. AutoAddSource(n, s) =
        [row |-> s.row, firsttable |-> first, tablelist |-> tables, reflist |-> refs]
  <2>1. AutoAddSource(n, s) = [s EXCEPT !.tablelist = tables, !.reflist = refs,
                                        !.firsttable = first]
    BY DEF AutoAddSource
  <2> HIDE DEF tables, refs, first
  <2> QED
    BY <2>1 DEF IsSource
<1>4. s.tablelist # <<>> => tables = s.tablelist
  OBVIOUS
<1> HIDE DEF tables, refs, first
<1> QED
  BY <1>1, <1>2, <1>3, <1>4 DEF IsSource

\* The sources stay on the rows they were on, and are of no other table.
StaysOn(new, old) ==
  \A n \in Source : /\ new[n].row = old[n].row
                    /\ old[n].tablelist # <<>> => new[n].tablelist = old[n].tablelist

LEMMA StaysOnRow ==
  ASSUME NEW new, NEW old, StaysOn(new, old)
  PROVE  \A n \in Source : new[n].row = old[n].row
BY DEF StaysOn

LEMMA StaysOnTransitive ==
  ASSUME NEW new, NEW old, NEW oldest, StaysOn(new, old), StaysOn(old, oldest)
  PROVE  StaysOn(new, oldest)
BY DEF StaysOn

\* Asking an object for its references changes no promise.
LEMMA RelatedProgress ==
  ASSUME NEW p, IsProgress(p), NEW n \in Source
  PROVE  LET q == Related(p, n)
         IN  /\ IsProgress(q) /\ q.o.statement = p.o.statement /\ q.conds = p.conds
             /\ q.loaded = p.loaded /\ StaysOn(q.src, p.src)
<1> DEFINE x == AutoAddSource(n, p.src[n])
           refs == AutoAdd(p.o.tablelist, p.o.position)
           sources == [p.src EXCEPT ![n] = x]
           q == [p EXCEPT !.src = sources, !.o.reflist = refs]
<1>1. IsObject(p.o) /\ IsSources(p.src)
  BY DEF IsProgress
<1>2. /\ IsSource(x) /\ x.row = p.src[n].row
      /\ p.src[n].tablelist # <<>> => x.tablelist = p.src[n].tablelist
  BY <1>1, AutoAddSourceIsSource DEF IsSources
<1>3. refs \in Seq(Told)
  BY <1>1, AutoAddTold DEF IsObject
<1>4. Related(p, n) = p \/ Related(p, n) = q
  BY DEF Related
<1> HIDE DEF x, refs, sources
<1>5. /\ q.o = [query |-> p.o.query, statement |-> p.o.statement,
                tablelist |-> p.o.tablelist, generatequery |-> p.o.generatequery,
                birthhash |-> p.o.birthhash, reflist |-> refs,
                position |-> p.o.position]
      /\ q.src = [m \in Source |-> IF m = n THEN x ELSE p.src[m]]
      /\ q.loaded = p.loaded /\ q.conds = p.conds /\ q.pass = p.pass
      /\ q = [o |-> q.o, src |-> q.src, conds |-> q.conds, loaded |-> q.loaded,
              pass |-> q.pass, fault |-> q.fault]
  <2>1. p = [o |-> p.o, src |-> p.src, conds |-> p.conds, loaded |-> p.loaded,
             pass |-> p.pass, fault |-> p.fault]
    BY DEF IsProgress
  <2>2. q.o = [query |-> p.o.query, statement |-> p.o.statement,
                tablelist |-> p.o.tablelist, generatequery |-> p.o.generatequery,
                birthhash |-> p.o.birthhash, reflist |-> refs,
                position |-> p.o.position]
    BY <1>1, <2>1 DEF IsObject
  <2>3. /\ q.src = sources
        /\ q.loaded = p.loaded /\ q.conds = p.conds /\ q.pass = p.pass
        /\ q = [o |-> q.o, src |-> q.src, conds |-> q.conds, loaded |-> q.loaded,
                pass |-> q.pass, fault |-> q.fault]
    <3>1. PICK o, s, cs, l, ps, f : p = [o |-> o, src |-> s, conds |-> cs, loaded |-> l,
                                         pass |-> ps, fault |-> f]
      BY <2>1
    <3> DEFINE o1 == [o EXCEPT !.reflist = refs]
    <3>2. q = [[p EXCEPT !.src = sources] EXCEPT !.o = o1]
      BY <3>1
    <3> HIDE DEF q, o1
    <3> QED
      BY <3>1, <3>2
  <2>4. sources = [m \in Source |-> IF m = n THEN x ELSE p.src[m]]
    <3> DEFINE f == p.src
    <3>1. f = [m \in Source |-> f[m]]
      BY <1>1 DEF IsSources
    <3> HIDE DEF f
    <3>2. [f EXCEPT ![n] = x] = [m \in Source |-> IF m = n THEN x ELSE f[m]]
      BY <3>1
    <3> QED
      BY <3>2 DEF f, sources
  <2> HIDE DEF q
  <2> QED
    BY <2>2, <2>3, <2>4
<1> HIDE DEF q
<1>6. IsObject(q.o) /\ q.o.statement # NULL
  BY <1>1, <1>3, <1>5 DEF IsProgress, IsObject
<1>7. IsSources(q.src)
  BY <1>1, <1>2, <1>5 DEF IsSources
<1>8. IsProgress(q)
  BY <1>5, <1>6, <1>7 DEF IsProgress
<1>9. q.o.statement = p.o.statement /\ q.conds = p.conds /\ q.loaded = p.loaded
  BY <1>5
<1>10. StaysOn(q.src, p.src)
  BY <1>2, <1>5 DEF StaysOn
<1>11. StaysOn(p.src, p.src)
  BY DEF StaysOn
<1> QED
  BY <1>1, <1>4, <1>8, <1>9, <1>10, <1>11

\* The row to load by comes from the reference that was found.
LEMMA AddRelatedProgress ==
  ASSUME NullIsNoTree, NEW p, IsProgress(p), NEW n \in Source, NEW table, NEW row
  PROVE  IsProgress(AddRelated(p, n, table, row))
BY ByReferenceProgress DEF AddRelated, AddWhere

\* One source and one table.
LEMMA AddLoadByProgress ==
  ASSUME NullIsNoTree, NEW p, IsProgress(p), NEW n \in Source, NEW table
  PROVE  IsProgress(AddLoadBy(p, n, table))
BY ByItselfProgress, RelatedProgress, AddRelatedProgress DEF AddLoadBy

\* The sources are tried one after the other.
LEMMA WithTableSteps ==
  ASSUME NEW p, NEW table, NEW srcs \in Seq(Source)
  PROVE  \E h : /\ h[0] = p /\ h[Len(srcs)] = WithTable(p, table, srcs)
                /\ \A k \in 1..Len(srcs) : h[k] = AddLoadBy(h[k - 1], srcs[k], table)
<1> DEFINE N == Len(srcs)
           Tries(h, n) == /\ DOMAIN h = 0..n /\ h[0] = p
                          /\ \A k \in 1..n : h[k] = AddLoadBy(h[k - 1], srcs[k], table)
           T == {n \in Nat : \E h : Tries(h, n)}
           tried[k \in 0..N] ==
             IF k = 0 THEN p ELSE AddLoadBy(tried[k - 1], srcs[k], table)
<1>1. 0 \in T
  <2> DEFINE h == [k \in 0..0 |-> p]
  <2>1. Tries(h, 0)
    OBVIOUS
  <2> HIDE DEF h, Tries
  <2> QED
    BY <2>1
<1>2. ASSUME NEW n \in Nat, n \in T PROVE n + 1 \in T
  <2>1. PICK h : Tries(h, n)
    BY <1>2
  <2> DEFINE last == AddLoadBy(h[n], srcs[n + 1], table)
             g == [k \in 0..(n + 1) |-> IF k = n + 1 THEN last ELSE h[k]]
  <2>2. DOMAIN g = 0..(n + 1) /\ g[0] = p
    BY <2>1
  <2>3. ASSUME NEW k \in 1..(n + 1) PROVE g[k] = AddLoadBy(g[k - 1], srcs[k], table)
    <3>1. k - 1 \in 0..n /\ g[k - 1] = h[k - 1]
      OBVIOUS
    <3>2. CASE k = n + 1
      BY <3>1, <3>2
    <3>3. CASE k \in 1..n
      <4>1. g[k] = h[k]
        BY <3>3
      <4> HIDE DEF g
      <4> QED
        BY <2>1, <3>1, <3>3, <4>1
    <3> QED
      BY <3>2, <3>3
  <2> HIDE DEF g
  <2>4. Tries(g, n + 1)
    BY <2>2, <2>3
  <2> HIDE DEF Tries
  <2> QED
    BY <2>4
<1> HIDE DEF T
<1>3. N \in Nat
  OBVIOUS
<1>4. PICK h : Tries(h, N)
  <2>1. N \in T
    BY <1>1, <1>2, <1>3, NatSetInduction
  <2> QED
    BY <2>1 DEF T
<1> DEFINE h1 == [k \in 0..N |-> h[k]]
<1> HIDE DEF N
<1>5. h1 = [k \in 0..N |-> IF k = 0 THEN p ELSE AddLoadBy(h1[k - 1], srcs[k], table)]
  <2>1. ASSUME NEW k \in 0..N, k # 0
        PROVE  h1[k] = AddLoadBy(h1[k - 1], srcs[k], table)
    <3>1. k \in 1..N /\ k - 1 \in 0..N
      BY <1>3, <2>1
    <3>2. h1[k] = h[k] /\ h1[k - 1] = h[k - 1]
      BY <3>1
    <3> HIDE DEF h1
    <3> QED
      BY <1>4, <3>1, <3>2
  <2>2. \A k \in 0..N : h1[k] = IF k = 0 THEN p ELSE AddLoadBy(h1[k - 1], srcs[k], table)
    BY <1>4, <2>1
  <2> QED
    BY <2>2
<1> HIDE DEF h1, Tries
<1>6. tried = [k \in 0..N |-> IF k = 0 THEN p ELSE AddLoadBy(tried[k - 1], srcs[k], table)]
  <2>1. \E f : f = [k \in 0..N |-> IF k = 0 THEN p ELSE AddLoadBy(f[k - 1], srcs[k], table)]
    BY <1>5
  <2> QED
    BY <2>1 DEF tried
<1>7. WithTable(p, table, srcs) = tried[N]
  BY DEF WithTable, N
<1> HIDE DEF tried
<1>8. tried[0] = p /\ \A k \in 1..N : tried[k] = AddLoadBy(tried[k - 1], srcs[k], table)
  BY <1>3, <1>6
<1> QED
  BY <1>7, <1>8 DEF N

\* Every source, for one table.
LEMMA WithTableProgress ==
  ASSUME NullIsNoTree, NEW p, IsProgress(p), NEW table, NEW srcs \in Seq(Source)
  PROVE  IsProgress(WithTable(p, table, srcs))
<1> DEFINE N == Len(srcs)
<1>1. PICK h : /\ h[0] = p /\ h[N] = WithTable(p, table, srcs)
               /\ \A k \in 1..N : h[k] = AddLoadBy(h[k - 1], srcs[k], table)
  BY WithTableSteps
<1>2. N \in Nat
  OBVIOUS
<1>3. ASSUME NEW k \in 1..N, IsProgress(h[k - 1]) PROVE IsProgress(h[k])
  <2>1. srcs[k] \in Source
    OBVIOUS
  <2> QED
    BY <1>1, <1>3, <2>1, AddLoadByProgress
<1> HIDE DEF N
<1> DEFINE U == {m \in Nat : m \in 0..N => IsProgress(h[m])}
<1>4. 0 \in U
  BY <1>1
<1>5. ASSUME NEW m \in Nat, m \in U PROVE m + 1 \in U
  <2>1. m + 1 \in 0..N => m \in 0..N /\ m + 1 \in 1..N /\ (m + 1) - 1 = m
    BY <1>2
  <2> QED
    BY <1>3, <1>5, <2>1
<1> HIDE DEF U
<1>6. N \in U
  BY <1>2, <1>4, <1>5, NatSetInduction
<1> QED
  BY <1>1, <1>2, <1>6 DEF U

\* And so are the tables of the object.
LEMMA AllSourcesSteps ==
  ASSUME NEW o, IsList(o.tablelist), NEW srcs
  PROVE  \E h : /\ h[0] = Progress(o) /\ h[Len(o.tablelist)] = AllSources(o, srcs)
                /\ \A k \in 1..Len(o.tablelist) :
                     h[k] = WithTable(h[k - 1], o.tablelist[k], srcs)
<1> DEFINE N == Len(o.tablelist)
           p == Progress(o)
           Tries(h, n) == /\ DOMAIN h = 0..n /\ h[0] = p
                          /\ \A k \in 1..n : h[k] = WithTable(h[k - 1], o.tablelist[k], srcs)
           T == {n \in Nat : \E h : Tries(h, n)}
           tried[k \in 0..N] ==
             IF k = 0 THEN p ELSE WithTable(tried[k - 1], o.tablelist[k], srcs)
<1> HIDE DEF p
<1>1. 0 \in T
  <2> DEFINE h == [k \in 0..0 |-> p]
  <2>1. Tries(h, 0)
    OBVIOUS
  <2> HIDE DEF h, Tries
  <2> QED
    BY <2>1
<1>2. ASSUME NEW n \in Nat, n \in T PROVE n + 1 \in T
  <2>1. PICK h : Tries(h, n)
    BY <1>2
  <2> DEFINE last == WithTable(h[n], o.tablelist[n + 1], srcs)
             g == [k \in 0..(n + 1) |-> IF k = n + 1 THEN last ELSE h[k]]
  <2>2. DOMAIN g = 0..(n + 1) /\ g[0] = p
    BY <2>1
  <2>3. ASSUME NEW k \in 1..(n + 1) PROVE g[k] = WithTable(g[k - 1], o.tablelist[k], srcs)
    <3>1. k - 1 \in 0..n /\ g[k - 1] = h[k - 1]
      OBVIOUS
    <3>2. CASE k = n + 1
      BY <3>1, <3>2
    <3>3. CASE k \in 1..n
      <4>1. g[k] = h[k]
        BY <3>3
      <4> HIDE DEF g
      <4> QED
        BY <2>1, <3>1, <3>3, <4>1
    <3> QED
      BY <3>2, <3>3
  <2> HIDE DEF g
  <2>4. Tries(g, n + 1)
    BY <2>2, <2>3
  <2> HIDE DEF Tries
  <2> QED
    BY <2>4
<1> HIDE DEF T
<1>3. N \in Nat
  BY ListLength
<1>4. PICK h : Tries(h, N)
  <2>1. N \in T
    BY <1>1, <1>2, <1>3, NatSetInduction
  <2> QED
    BY <2>1 DEF T
<1> DEFINE h1 == [k \in 0..N |-> h[k]]
<1> HIDE DEF N
<1>5. h1 = [k \in 0..N |-> IF k = 0 THEN p ELSE WithTable(h1[k - 1], o.tablelist[k], srcs)]
  <2>1. ASSUME NEW k \in 0..N, k # 0
        PROVE  h1[k] = WithTable(h1[k - 1], o.tablelist[k], srcs)
    <3>1. k \in 1..N /\ k - 1 \in 0..N
      BY <1>3, <2>1
    <3>2. h1[k] = h[k] /\ h1[k - 1] = h[k - 1]
      BY <3>1
    <3> HIDE DEF h1
    <3> QED
      BY <1>4, <3>1, <3>2
  <2>2. \A k \in 0..N : h1[k] = IF k = 0 THEN p ELSE WithTable(h1[k - 1], o.tablelist[k], srcs)
    BY <1>4, <2>1
  <2> QED
    BY <2>2
<1> HIDE DEF h1, Tries
<1>6. tried = [k \in 0..N |-> IF k = 0 THEN p ELSE WithTable(tried[k - 1], o.tablelist[k], srcs)]
  <2>1. \E f : f = [k \in 0..N |-> IF k = 0 THEN p ELSE WithTable(f[k - 1], o.tablelist[k], srcs)]
    BY <1>5
  <2> QED
    BY <2>1 DEF tried
<1>7. AllSources(o, srcs) = tried[N]
  BY DEF AllSources, N, p
<1> HIDE DEF tried
<1>8. tried[0] = p /\ \A k \in 1..N : tried[k] = WithTable(tried[k - 1], o.tablelist[k], srcs)
  BY <1>3, <1>6
<1> QED
  BY <1>7, <1>8 DEF N, p

\* Every source, for every table of the object.
LEMMA AllSourcesProgress ==
  ASSUME NullIsNoTree, NEW o, IsProgress(Progress(o)), NEW srcs \in Seq(Source)
  PROVE  IsProgress(AllSources(o, srcs))
<1> DEFINE N == Len(o.tablelist)
<1>1. IsList(o.tablelist)
  <2>1. Progress(o).o = o
    BY DEF Progress
  <2> QED
    BY <2>1 DEF IsProgress, IsObject
<1>2. PICK h : /\ h[0] = Progress(o) /\ h[N] = AllSources(o, srcs)
               /\ \A k \in 1..N : h[k] = WithTable(h[k - 1], o.tablelist[k], srcs)
  BY <1>1, AllSourcesSteps
<1>3. N \in Nat
  BY <1>1, ListLength
<1>4. ASSUME NEW k \in 1..N, IsProgress(h[k - 1]) PROVE IsProgress(h[k])
  BY <1>2, <1>4, WithTableProgress
<1> HIDE DEF N
<1> DEFINE U == {m \in Nat : m \in 0..N => IsProgress(h[m])}
<1>5. 0 \in U
  BY <1>2
<1>6. ASSUME NEW m \in Nat, m \in U PROVE m + 1 \in U
  <2>1. m + 1 \in 0..N => m \in 0..N /\ m + 1 \in 1..N /\ (m + 1) - 1 = m
    BY <1>3
  <2> QED
    BY <1>4, <1>6, <2>1
<1> HIDE DEF U
<1>7. N \in U
  BY <1>3, <1>5, <1>6, NatSetInduction
<1> QED
  BY <1>2, <1>3, <1>7 DEF U

-----------------------------------------------------------------------------
(* Statements, parsed and extended.                                        *)

\* A select of which the parser left parts unset is still one.
LEMMA ZeroedIsSelect ==
  ASSUME NEW x, IsSelect(x)
  PROVE  IsSelect(Zeroed(x))
<1>1. PICK d, fs, from, w, o, g : x = SelectBuild(d, fs, from, w, o, g) /\ IsList(from)
  BY DEF IsSelect
<1> DEFINE zeroed == [i \in DOMAIN from |-> Settled(ZeroedSelect, from[i])]
<1>2. Zeroed(x) = SelectBuild(d, fs, zeroed, w, o, g)
  BY <1>1 DEF Zeroed, ZeroedFrom, SelectBuild, Each
<1>3. IsList(zeroed)
  <2>1. Len(from) \in Nat /\ DOMAIN from = 1..Len(from)
    BY <1>1, ListLength
  <2>2. zeroed \in Seq({Settled(ZeroedSelect, from[i]) : i \in 1..Len(from)})
    BY <2>1
  <2> HIDE DEF zeroed
  <2> QED
    BY <2>2, SequenceIsList
<1> HIDE DEF zeroed
<1> QED
  BY <1>2, <1>3 DEF IsSelect

\* Whatever the parser makes of a text is a statement, or none.
LEMMA ParsedIsStatement ==
  ASSUME NEW text, NEW s \in Parsed(text)
  PROVE  s # NULL => IsStatement(s)
<1> DEFINE tree == SqlParse(text)
<1>1. tree # NULL => IsStatement(tree)
  BY ParseIsStatement
<1> HIDE DEF tree
<1> SUFFICES ASSUME s # NULL, tree # NULL, s # tree PROVE IsStatement(s)
  BY <1>1 DEF Parsed, Trees, tree
<1>2. PICK type, x : tree = StatementBuild(type, x) /\ (type = "SQL_select" => IsSelect(x))
  BY <1>1 DEF IsStatement
<1>3. tree.type = "SQL_select" /\ s = [tree EXCEPT !.statement = Zeroed(tree.statement)]
  BY DEF Parsed, Trees, tree
<1>4. type = "SQL_select" /\ s = StatementBuild(type, Zeroed(x))
  BY <1>2, <1>3 DEF StatementBuild
<1>5. IsSelect(Zeroed(x))
  BY <1>2, <1>4, ZeroedIsSelect
<1> QED
  BY <1>4, <1>5 DEF IsStatement

\* A column leaves a statement a statement.
LEMMA AppendFieldIsStatement ==
  ASSUME NullIsNoTree, NEW s, IsStatement(s), NEW table, NEW fieldname
  PROVE  /\ IsStatement(AppendField(s, table, fieldname, NULL))
         /\ AppendField(s, table, fieldname, NULL) # NULL
<1>1. PICK type, x : s = StatementBuild(type, x) /\ (type = "SQL_select" => IsSelect(x))
  BY DEF IsStatement
<1> DEFINE t == AppendField(s, table, fieldname, NULL)
<1>2. CASE type = "SQL_select"
  <2>1. PICK d, fs, from, w, o, g : x = SelectBuild(d, fs, from, w, o, g) /\ IsList(from)
    BY <1>1, <1>2 DEF IsSelect
  <2> DEFINE name == IF table = NULL THEN <<fieldname>> ELSE <<table, fieldname>>
             field == FieldSetAs(NamedField(name), NULL)
             y == SelectBuild(d, Append(fs, field), from, w, o, g)
  <2>2. t = [s EXCEPT !.statement.fields = Append(@, field)]
    BY <1>1, <1>2 DEF AppendField, StatementBuild
  <2> HIDE DEF field, t
  <2>3. t = StatementBuild(type, y)
    BY <1>1, <2>1, <2>2 DEF StatementBuild, SelectBuild
  <2>4. IsSelect(y)
    BY <2>1 DEF IsSelect
  <2> HIDE DEF y
  <2> QED
    BY <2>3, <2>4 DEF IsStatement, NullIsNoTree, t
<1>3. CASE type # "SQL_select"
  <2>1. t = s
    BY <1>1, <1>3 DEF AppendField, StatementBuild
  <2> QED
    BY <1>1, <2>1 DEF NullIsNoTree
<1> QED
  BY <1>2, <1>3

\* A joined table leaves a select a select.
LEMMA AppendTableJoinIsStatement ==
  ASSUME NullIsNoTree, NEW s, IsStatement(s), s.type = "SQL_select",
         NEW lt, NEW rt, NEW lf, NEW rf
  PROVE  /\ IsStatement(AppendTableJoin(s, lt, rt, lf, rf))
         /\ AppendTableJoin(s, lt, rt, lf, rf) # NULL
<1>1. PICK type, x : s = StatementBuild(type, x) /\ (type = "SQL_select" => IsSelect(x))
  BY DEF IsStatement
<1>2. type = "SQL_select"
  BY <1>1 DEF StatementBuild
<1>3. PICK d, fs, from, w, o, g : x = SelectBuild(d, fs, from, w, o, g) /\ IsList(from)
  BY <1>1, <1>2 DEF IsSelect
<1> DEFINE t == AppendTableJoin(s, lt, rt, lf, rf)
           table == TableBuild(rt)
           cond  == Condition(NamedField(<<<<lt, ".", lf>>>>),
                              NamedField(<<<<rt, ".", rf>>>>), "=")
           where == IF s.statement.where = NULL THEN WhereSingle(cond)
                    ELSE WherePair(s.statement.where, WhereSingle(cond), "and")
           y == SelectBuild(d, fs, Append(from, table), where, o, g)
<1>4. t = [s EXCEPT !.statement.from = Append(@, table), !.statement.where = where]
  BY DEF AppendTableJoin
<1> HIDE DEF table, where, t
<1>5. t = StatementBuild(type, y)
  BY <1>1, <1>3, <1>4 DEF StatementBuild, SelectBuild
<1>6. IsSelect(y)
  BY <1>3, ListWithLast DEF IsSelect
<1> HIDE DEF y
<1> QED
  BY <1>5, <1>6 DEF IsStatement, NullIsNoTree, t

\* bonddb_clear leaves no statement and nothing to generate.
LEMMA ClearIsObject ==
  ASSUME NEW o, IsObject(o), NEW text
  PROVE  LET p == [Clear(o) EXCEPT !.query = text]
         IN  /\ IsObject(p) /\ p.statement = NULL /\ p.generatequery = FALSE
             /\ p.birthhash = o.birthhash /\ p.tablelist = <<>>
<1> DEFINE f == ParseFree(o)
           c == Clear(o)
           p == [Clear(o) EXCEPT !.query = text]
<1>1. p = [query |-> text, statement |-> NULL, tablelist |-> <<>>,
           generatequery |-> FALSE, birthhash |-> o.birthhash,
           reflist |-> o.reflist, position |-> o.position]
  <2>1. f = [o EXCEPT !.statement = NULL, !.tablelist = <<>>]
    BY DEF ParseFree
  <2>2. c = [f EXCEPT !.query = NULL, !.generatequery = FALSE]
    BY DEF Clear
  <2>3. p = [c EXCEPT !.query = text]
    OBVIOUS
  <2> HIDE DEF f, c, p
  <2> QED
    BY <2>1, <2>2, <2>3 DEF IsObject
<1> HIDE DEF p
<1>2. IsObject(p)
  BY <1>1, EmptyIsList DEF IsObject
<1>3. /\ p.statement = NULL /\ p.generatequery = FALSE /\ p.birthhash = o.birthhash
      /\ p.tablelist = <<>>
  BY <1>1
<1> QED
  BY <1>2, <1>3 DEF p

\* The object takes the statement it is given.
LEMMA ParseProperIsObject ==
  ASSUME NEW o, IsObject(o), NEW s, s # NULL => IsStatement(s)
  PROVE  /\ IsObject(ParseProper(o, s)) /\ ParseProper(o, s).statement = s
         /\ ParseProper(o, s).generatequery = o.generatequery
         /\ ParseProper(o, s).birthhash = o.birthhash
         /\ s = NULL \/ s.type # "SQL_select" => ParseProper(o, s).tablelist = <<>>
<1> DEFINE p == ParseProper(o, s)
<1>1. CASE s = NULL
  <2>1. p = [query |-> o.query, statement |-> NULL, tablelist |-> <<>>,
           generatequery |-> o.generatequery, birthhash |-> o.birthhash,
           reflist |-> o.reflist, position |-> o.position]
    BY <1>1 DEF ParseProper, ParseFree, IsObject
  <2> HIDE DEF p
  <2>2. IsObject(p)
    BY <2>1, EmptyIsList DEF IsObject
  <2>3. /\ p.statement = s /\ p.generatequery = o.generatequery
        /\ p.birthhash = o.birthhash /\ p.tablelist = <<>>
    BY <1>1, <2>1
  <2> QED
    BY <2>2, <2>3 DEF p
<1>2. CASE s # NULL
  <2> DEFINE tables == IF s.type = "SQL_select" THEN GetTables(s) ELSE <<>>
  <2>1. IsList(tables)
    <3>1. PICK type, x : s = StatementBuild(type, x) /\ (type = "SQL_select" => IsSelect(x))
      BY <1>2 DEF IsStatement
    <3>2. CASE type = "SQL_select"
      <4>1. IsList(x.from)
        BY <3>1, <3>2 DEF IsSelect, SelectBuild
      <4>2. GetTables(s) = [i \in DOMAIN x.from |-> TableName(x.from[i])]
        BY <3>1, <3>2 DEF GetTables, Each, StatementBuild
      <4>3. Len(x.from) \in Nat /\ DOMAIN x.from = 1..Len(x.from)
        BY <4>1, ListLength
      <4>4. GetTables(s) \in Seq({TableName(x.from[i]) : i \in 1..Len(x.from)})
        BY <4>2, <4>3
      <4>5. tables = GetTables(s)
        BY <3>1, <3>2 DEF StatementBuild
      <4> HIDE DEF tables
      <4> QED
        BY <4>4, <4>5, SequenceIsList
    <3>3. CASE type # "SQL_select"
      BY <3>1, <3>3, EmptyIsList DEF StatementBuild
    <3> QED
      BY <3>2, <3>3
  <2> HIDE DEF tables
  <2>2. p = [query |-> o.query, statement |-> s, tablelist |-> tables,
           generatequery |-> o.generatequery, birthhash |-> o.birthhash,
           reflist |-> o.reflist, position |-> o.position]
    BY <1>2 DEF ParseProper, IsObject, tables
  <2> HIDE DEF p
  <2>3. IsObject(p)
    BY <2>1, <2>2 DEF IsObject
  <2>4. p.statement = s /\ p.generatequery = o.generatequery /\ p.birthhash = o.birthhash
    BY <2>2
  <2>5. s.type # "SQL_select" => p.tablelist = <<>>
    BY <2>2 DEF tables
  <2> QED
    BY <1>2, <2>3, <2>4, <2>5 DEF p
<1> QED
  BY <1>1, <1>2

\* The columns of the result are numbered.
LEMMA ColumnsArePositions ==
  ASSUME NEW s
  PROVE  IsPosition(Columns(s))
BY ReferenceAssumption DEF Columns, Restrict, IsPosition

-----------------------------------------------------------------------------
(* The calls.                                                              *)

\* An object of which one thing changes.
LEMMA QueryIsObject ==
  ASSUME NEW o, IsObject(o), NEW p, NEW text, p = [o EXCEPT !.query = text]
  PROVE  /\ IsObject(p) /\ p.statement = o.statement
         /\ p.generatequery = o.generatequery /\ p.birthhash = o.birthhash
         /\ p.tablelist = o.tablelist /\ p.position = o.position /\ p.reflist = o.reflist
<1>1. p = [query |-> text, statement |-> o.statement, tablelist |-> o.tablelist,
           generatequery |-> o.generatequery, birthhash |-> o.birthhash,
           reflist |-> o.reflist, position |-> o.position]
  BY DEF IsObject
<1> QED
  BY <1>1 DEF IsObject

\* Its statement changes.
LEMMA StatementIsObject ==
  ASSUME NEW o, IsObject(o), NEW p, NEW s, IsStatement(s), p = [o EXCEPT !.statement = s]
  PROVE  /\ IsObject(p) /\ p.statement = s
         /\ p.generatequery = o.generatequery /\ p.birthhash = o.birthhash
<1>1. p = [query |-> o.query, statement |-> s, tablelist |-> o.tablelist,
           generatequery |-> o.generatequery, birthhash |-> o.birthhash,
           reflist |-> o.reflist, position |-> o.position]
  BY DEF IsObject
<1> QED
  BY <1>1 DEF IsObject

\* The positions of its columns change.
LEMMA PositionIsObject ==
  ASSUME NEW o, IsObject(o), NEW p, NEW c, IsPosition(c), p = [o EXCEPT !.position = c]
  PROVE  /\ IsObject(p) /\ p.statement = o.statement
         /\ p.generatequery = o.generatequery /\ p.birthhash = o.birthhash
         /\ p.tablelist = o.tablelist
<1>1. p = [query |-> o.query, statement |-> o.statement, tablelist |-> o.tablelist,
           generatequery |-> o.generatequery, birthhash |-> o.birthhash,
           reflist |-> o.reflist, position |-> c]
  BY DEF IsObject
<1> QED
  BY <1>1 DEF IsObject

\* Its references change.
LEMMA ReflistIsObject ==
  ASSUME NEW o, IsObject(o), NEW p, NEW l \in Seq(Told), p = [o EXCEPT !.reflist = l]
  PROVE  /\ IsObject(p) /\ p.statement = o.statement
         /\ p.generatequery = o.generatequery /\ p.birthhash = o.birthhash
         /\ p.tablelist = o.tablelist
<1>1. p = [query |-> o.query, statement |-> o.statement, tablelist |-> o.tablelist,
           generatequery |-> o.generatequery, birthhash |-> o.birthhash,
           reflist |-> l, position |-> o.position]
  BY DEF IsObject
<1> QED
  BY <1>1 DEF IsObject

\* The values of its new rows change.
LEMMA BirthsIsObject ==
  ASSUME NEW o, IsObject(o), NEW p, NEW b, p = [o EXCEPT !.birthhash = b]
  PROVE  /\ IsObject(p) /\ p.statement = o.statement
         /\ p.generatequery = o.generatequery /\ p.birthhash = b
         /\ p.tablelist = o.tablelist
<1>1. p = [query |-> o.query, statement |-> o.statement, tablelist |-> o.tablelist,
           generatequery |-> o.generatequery, birthhash |-> b,
           reflist |-> o.reflist, position |-> o.position]
  BY DEF IsObject
<1> QED
  BY <1>1 DEF IsObject

\* A query is generated only when loading by others has added to it, and then
\* there is a statement.
QueryInv ==
  /\ IsObject(obj) /\ IsSources(src)
  /\ obj.generatequery => loaded # <<>>
  /\ loaded # <<>> => obj.statement # NULL
  /\ loaded # <<>> => RowsBelong(obj.birthhash, loaded)

\* The invariant holds of an object that is new.
LEMMA QueryInit == Init => QueryInv
<1> SUFFICES ASSUME Init PROVE QueryInv
  OBVIOUS
<1>1. IsObject(obj)
  <2>1. IsPosition(<<>>)
    BY DEF IsPosition
  <2> QED
    BY <2>1, EmptyIsList DEF Init, Object0, IsObject
<1>2. IsSources(src)
  <2>1. \A n \in Source :
          src[n] = [row |-> 1, firsttable |-> SourceOf[n].firsttable,
               tablelist |-> SourceOf[n].tablelist, reflist |-> SourceOf[n].reflist]
    BY DEF Init
  <2>2. ASSUME NEW n \in Source PROVE IsSource(src[n])
    <3>1. SourceOf[n].tablelist \in Seq(STRING) /\ SourceOf[n].reflist \in Seq(Told)
      BY SourceAssumption
    <3> DEFINE x == src[n]
    <3>2. x = [row |-> 1, firsttable |-> SourceOf[n].firsttable,
               tablelist |-> SourceOf[n].tablelist, reflist |-> SourceOf[n].reflist]
      BY <2>1
    <3> HIDE DEF x
    <3>3. IsSource(x)
      BY <3>1, <3>2 DEF IsSource
    <3> QED
      BY <3>3 DEF x
  <2>3. src = [n \in Source |-> src[n]]
    <3> DEFINE first == [n \in Source |->
                 [row |-> 1, firsttable |-> SourceOf[n].firsttable,
                  tablelist |-> SourceOf[n].tablelist, reflist |-> SourceOf[n].reflist]]
    <3>1. src = first
      BY DEF Init
    <3>2. first = [n \in Source |-> first[n]]
      OBVIOUS
    <3> QED
      BY <3>1, <3>2
  <2> QED
    BY <2>2, <2>3 DEF IsSources
<1>3. loaded = <<>> /\ obj.generatequery = FALSE
  BY DEF Init, Object0
<1> QED
  BY <1>1, <1>2, <1>3 DEF QueryInv

\* An object without tables is loaded by nothing.
LEMMA NoTables ==
  ASSUME NEW o, o.tablelist = <<>>, NEW srcs
  PROVE  AllSources(o, srcs) = Progress(o)
<1> DEFINE N == Len(o.tablelist)
           p == Progress(o)
           tried[k \in 0..N] ==
             IF k = 0 THEN p ELSE WithTable(tried[k - 1], o.tablelist[k], srcs)
           first == [k \in 0..N |-> p]
<1> HIDE DEF p
<1>1. N = 0
  OBVIOUS
<1> HIDE DEF N
<1>2. first = [k \in 0..N |->
                 IF k = 0 THEN p ELSE WithTable(first[k - 1], o.tablelist[k], srcs)]
  BY <1>1
<1> HIDE DEF first
<1>3. tried = [k \in 0..N |->
                 IF k = 0 THEN p ELSE WithTable(tried[k - 1], o.tablelist[k], srcs)]
  <2>1. \E f : f = [k \in 0..N |->
                 IF k = 0 THEN p ELSE WithTable(f[k - 1], o.tablelist[k], srcs)]
    BY <1>2
  <2> QED
    BY <2>1 DEF tried
<1>4. AllSources(o, srcs) = tried[N]
  BY DEF AllSources, N, p
<1> HIDE DEF tried
<1>5. tried[N] = p
  BY <1>1, <1>3
<1> QED
  BY <1>4, <1>5 DEF p

\* Nothing has been promised when loading begins.
LEMMA ProgressStarts ==
  ASSUME QueryInv, loaded = <<>>, NEW o, IsObject(o), o.statement # NULL,
         ~o.generatequery, o.birthhash = <<>>
  PROVE  IsProgress(Progress(o))
<1> DEFINE x == Progress(o)
<1>1. x = [o |-> o, src |-> src, conds |-> conds, loaded |-> loaded,
           pass |-> 0, fault |-> NULL]
  BY DEF Progress
<1> HIDE DEF x
<1>2. RowsBelong(x.o.birthhash, x.loaded)
  <2>1. x.o.birthhash = <<>> /\ x.loaded = <<>>
    BY <1>1
  <2>2. DOMAIN x.o.birthhash = {} /\ DOMAIN x.loaded = {}
    BY <2>1
  <2> QED
    BY <2>2 DEF RowsBelong
<1>3. IsProgress(x)
  BY <1>1, <1>2 DEF IsProgress, QueryInv
<1> QED
  BY <1>3 DEF x

\* The object that is loaded has its statement, or the one its text is parsed to.
LEMMA LoadByStarts ==
  ASSUME "fresh" \in Discipline, QueryInv, NEW srcs, LoadBy(srcs)
  PROVE  \E s, o :
           /\ IF obj.statement = NULL THEN s \in Parsed(obj.query) ELSE s = obj.statement
           /\ IsObject(o) /\ o.statement = s /\ ~o.generatequery
           /\ obj.statement = NULL /\ (s = NULL \/ s.type # "SQL_select")
                => o.tablelist = <<>>
           /\ obj.statement # NULL => o.tablelist = obj.tablelist
           /\ loaded = <<>> /\ o.birthhash = <<>> /\ (s # NULL => Careful(o, srcs))
           /\ LoadWith(AllSources(o, srcs), IF obj.statement = NULL THEN WhereOf(s) ELSE base)
<1>1. PICK s \in IF obj.statement = NULL THEN Parsed(obj.query) ELSE {obj.statement} :
        \E o \in {NoBirths(IF obj.statement = NULL THEN ParseProper(obj, s) ELSE obj)} :
            /\ s # NULL => Careful(o, srcs)
            /\ \E p \in {AllSources(o, srcs)} :
                 LoadWith(p, IF obj.statement = NULL THEN WhereOf(s) ELSE base)
  BY DEF LoadBy
<1> DEFINE o1 == IF obj.statement = NULL THEN ParseProper(obj, s) ELSE obj
           o == NoBirths(o1)
           where == IF obj.statement = NULL THEN WhereOf(s) ELSE base
<1>2. (s # NULL => Careful(o, srcs)) /\ LoadWith(AllSources(o, srcs), where)
  BY <1>1
<1>3. /\ IsObject(o1) /\ o1.statement = s /\ o1.generatequery = obj.generatequery
      /\ obj.statement = NULL /\ (s = NULL \/ s.type # "SQL_select") => o1.tablelist = <<>>
      /\ obj.statement # NULL => o1.tablelist = obj.tablelist
  <2>1. CASE obj.statement = NULL
    BY <1>1, <2>1, ParsedIsStatement, ParseProperIsObject DEF QueryInv
  <2>2. CASE obj.statement # NULL
    BY <1>1, <2>2 DEF QueryInv
  <2> QED
    BY <2>1, <2>2
<1> HIDE DEF o1
<1>4. IsObject(o) /\ o.statement = s /\ o.tablelist = o1.tablelist
      /\ o.generatequery = obj.generatequery /\ o.birthhash = <<>>
  <2> DEFINE none == <<>>
  <2>1. o = [o1 EXCEPT !.birthhash = none]
    BY DEF NoBirths
  <2> HIDE DEF o, none
  <2>2. /\ IsObject(o) /\ o.statement = o1.statement
        /\ o.generatequery = o1.generatequery /\ o.tablelist = o1.tablelist
        /\ o.birthhash = none
    <3>1. IsObject(o1)
      BY <1>3
    <3> QED
      BY <2>1, <3>1, BirthsIsObject
  <2>3. o.generatequery = obj.generatequery
    BY <1>3, <2>2, Zenon
  <2>4. IsObject(o) /\ o.statement = s /\ o.tablelist = o1.tablelist
        /\ o.birthhash = <<>>
    BY <1>3, <2>2 DEF none
  <2> QED
    BY <2>3, <2>4, Zenon
<1>5. loaded = <<>>
  <2>1. CASE s = NULL
    BY <1>1, <2>1 DEF QueryInv
  <2>2. CASE s # NULL
    BY <1>2, <2>2 DEF Careful
  <2> QED
    BY <2>1, <2>2
<1>6. ~obj.generatequery
  BY <1>5 DEF QueryInv
<1> HIDE DEF o
<1>7. ~o.generatequery
  <2>1. o.generatequery = obj.generatequery
    BY <1>4
  <2> QED
    BY <1>6, <2>1, Zenon
<1>8. IF obj.statement = NULL THEN s \in Parsed(obj.query) ELSE s = obj.statement
  BY <1>1
<1>9. /\ obj.statement = NULL /\ (s = NULL \/ s.type # "SQL_select") => o.tablelist = <<>>
      /\ obj.statement # NULL => o.tablelist = obj.tablelist
  BY <1>3, <1>4
<1>10. IsObject(o) /\ o.statement = s /\ o.birthhash = <<>>
  BY <1>4
<1> QED
  BY <1>2, <1>5, <1>7, <1>8, <1>9, <1>10

\* Loading by other objects adds to a statement that is there, and a value for a
\* new row only with the condition that asks for it.
LEMMA LoadByKeeps ==
  ASSUME NullIsNoTree, "fresh" \in Discipline, QueryInv, NEW srcs \in SourceList,
         LoadBy(srcs)
  PROVE  QueryInv'
<1>1. PICK s, o :
        /\ IF obj.statement = NULL THEN s \in Parsed(obj.query) ELSE s = obj.statement
        /\ IsObject(o) /\ o.statement = s /\ ~o.generatequery
        /\ obj.statement = NULL /\ (s = NULL \/ s.type # "SQL_select")
             => o.tablelist = <<>>
        /\ loaded = <<>> /\ o.birthhash = <<>>
        /\ LoadWith(AllSources(o, srcs), IF obj.statement = NULL THEN WhereOf(s) ELSE base)
  BY LoadByStarts
<1> DEFINE p == AllSources(o, srcs)
           where == IF obj.statement = NULL THEN WhereOf(s) ELSE base
<1>2. \/ p.o = o /\ p.src = src /\ p.pass = 0 /\ p.fault = NULL
      \/ IsProgress(p)
  <2>1. CASE s = NULL
    <3>1. p = Progress(o)
      BY <1>1, <2>1, NoTables
    <3> HIDE DEF p
    <3> QED
      BY <3>1 DEF Progress
  <2>2. CASE s # NULL
    <3>1. IsProgress(Progress(o))
      BY <1>1, <2>2, ProgressStarts
    <3>2. srcs \in Seq(Source)
      BY SourceAssumption
    <3> QED
      BY <3>1, <3>2, AllSourcesProgress
  <2> QED
    BY <2>1, <2>2
<1>3. LoadWith(p, where) /\ IsObject(o) /\ loaded = <<>>
  BY <1>1
<1> HIDE DEF p, where
<1>4. CASE p.fault # NULL /\ Crash(p.fault)
  BY <1>4 DEF Crash, QueryInv
<1>5. CASE p.fault = NULL /\ p.pass > 0 /\ obj' = p.o /\ loaded' = p.loaded /\ src' = p.src
  BY <1>2, <1>5 DEF IsProgress, QueryInv
<1>6. CASE /\ p.fault = NULL /\ p.pass = 0 /\ obj' = [Clear(p.o) EXCEPT !.query = p.o.query]
           /\ src' = p.src /\ loaded' = loaded
  <2>1. IsObject(p.o) /\ IsSources(p.src)
    BY <1>2, <1>3 DEF IsProgress, QueryInv
  <2>2. IsObject(obj') /\ obj'.generatequery = FALSE
    BY <1>6, <2>1, ClearIsObject
  <2> QED
    BY <1>3, <1>6, <2>1, <2>2 DEF QueryInv
<1> QED
  BY <1>3, <1>4, <1>5, <1>6 DEF LoadWith

\* Every call keeps the invariant.
LEMMA QueryStep ==
  ASSUME NullIsNoTree, "fresh" \in Discipline, QueryInv, [Next]_vars
  PROVE  QueryInv'
<1>1. ASSUME NEW text, Sql(text) PROVE QueryInv'
  <2>1. IsObject(obj') /\ obj'.generatequery = FALSE
    BY <1>1, ClearIsObject DEF Sql, QueryInv
  <2>2. loaded' = <<>>
    BY <1>1 DEF Sql
  <2> QED
    BY <1>1, <2>1, <2>2 DEF Sql, QueryInv
<1>2. CASE Parse
  <2>1. PICK s \in Parsed(obj.query) : obj' = ParseProper(obj, s)
    BY <1>2 DEF Parse
  <2>2. s # NULL => IsStatement(s)
    BY ParsedIsStatement
  <2>3. /\ IsObject(obj') /\ obj'.generatequery = obj.generatequery
        /\ obj'.birthhash = obj.birthhash
    BY <2>1, <2>2, ParseProperIsObject DEF QueryInv
  <2>4. loaded = <<>> /\ loaded' = loaded /\ src' = src
    BY <1>2 DEF Parse
  <2> QED
    BY <2>3, <2>4 DEF QueryInv
<1>3. CASE Run
  <2> DEFINE o == InternalQuery(obj)
             text == SqlStringify(obj.statement)
  <2>1. obj' = [o EXCEPT !.position = Columns(SqlParse(o.query))]
    BY <1>3 DEF Run
  <2>2. /\ IsObject(o) /\ o.statement = obj.statement
        /\ o.generatequery = obj.generatequery /\ o.birthhash = obj.birthhash
    <3>1. CASE obj.generatequery
      <4>1. o = [obj EXCEPT !.query = text]
        BY <3>1 DEF InternalQuery
      <4> HIDE DEF o, text
      <4> QED
        BY <4>1, QueryIsObject DEF QueryInv
    <3>2. CASE ~obj.generatequery
      BY <3>2 DEF InternalQuery, QueryInv
    <3> QED
      BY <3>1, <3>2
  <2> HIDE DEF o
  <2>3. /\ IsObject(obj') /\ obj'.statement = obj.statement
        /\ obj'.generatequery = obj.generatequery /\ obj'.birthhash = obj.birthhash
    <3> DEFINE c == Columns(SqlParse(o.query))
    <3>1. IsPosition(c)
      BY ColumnsArePositions
    <3> HIDE DEF c
    <3> QED
      BY <2>1, <2>2, <3>1, PositionIsObject DEF c
  <2>4. loaded' = loaded /\ src' = src
    BY <1>3 DEF Run
  <2> QED
    BY <2>3, <2>4 DEF QueryInv
<1>4. ASSUME NEW what, Crash(what) PROVE QueryInv'
  BY <1>4 DEF Crash, QueryInv
<1>5. ASSUME NEW l, NEW r, NEW op, NEW condop, AppendCondition(l, r, op, condop)
      PROVE  QueryInv'
  <2>1. CASE Crash("negation")
    BY <1>4, <2>1
  <2>2. CASE ~Crash("negation")
    <3> DEFINE s == AppendWhere(obj.statement, l, r, op, condop)
    <3>1. obj' = [obj EXCEPT !.statement = s] /\ loaded' = loaded /\ src' = src
      BY <1>5, <2>2 DEF AppendCondition
    <3>2. IsStatement(s) /\ s # NULL
      BY <1>5, AppendWhereIsStatement DEF AppendCondition, Extendable, QueryInv, IsObject
    <3> HIDE DEF s
    <3> QED
      BY <3>1, <3>2, StatementIsObject DEF QueryInv
  <2> QED
    BY <2>1, <2>2
<1>6. ASSUME NEW lt, NEW rt, NEW lf, NEW rf, AppendJoin(lt, rt, lf, rf)
      PROVE  QueryInv'
  <2> DEFINE s == AppendTableJoin(obj.statement, lt, rt, lf, rf)
  <2>1. obj' = [obj EXCEPT !.statement = s] /\ loaded' = loaded /\ src' = src
    BY <1>6 DEF AppendJoin
  <2>2. IsStatement(s) /\ s # NULL
    BY <1>6, AppendTableJoinIsStatement DEF AppendJoin, Extendable, QueryInv, IsObject
  <2> HIDE DEF s
  <2> QED
    BY <2>1, <2>2, StatementIsObject DEF QueryInv
<1>7. ASSUME NEW fieldname, NEW tablename, AddFieldTable(fieldname, tablename)
      PROVE  QueryInv'
  <2> DEFINE s == obj.statement
             s1 == IF Contains(GetTables(s), tablename) THEN s
                   ELSE AppendField(s, <<tablename>>, <<"oid">>, NULL)
             s2 == AppendField(s1, <<tablename>>, <<fieldname>>, NULL)
             text == SqlStringify(s2)
  <2>1. /\ obj' = [obj EXCEPT !.statement = s2, !.query = text]
        /\ loaded' = loaded /\ src' = src
    BY <1>7 DEF AddFieldTable
  <2>2. IsStatement(s) /\ s # NULL
    BY <1>7 DEF AddFieldTable, QueryInv, IsObject
  <2>3. IsStatement(s1)
    BY <2>2, AppendFieldIsStatement
  <2> HIDE DEF s1
  <2>4. IsStatement(s2) /\ s2 # NULL
    BY <2>3, AppendFieldIsStatement
  <2> HIDE DEF s2, text
  <2> DEFINE o == [obj EXCEPT !.statement = s2]
  <2>5. /\ IsObject(o) /\ o.statement = s2 /\ o.generatequery = obj.generatequery
        /\ o.birthhash = obj.birthhash
    BY <2>4, StatementIsObject DEF QueryInv
  <2>6. obj' = [o EXCEPT !.query = text]
    BY <2>1
  <2> HIDE DEF o
  <2>7. /\ IsObject(obj') /\ obj'.statement = s2 /\ obj'.generatequery = obj.generatequery
        /\ obj'.birthhash = obj.birthhash
    BY <2>5, <2>6, QueryIsObject
  <2> QED
    BY <2>1, <2>4, <2>7 DEF QueryInv
<1>8. ASSUME NEW srcs \in SourceList, LoadBy(srcs) PROVE QueryInv'
  BY <1>8, LoadByKeeps
<1>9. ASSUME NEW n \in Source, NEW row, Moveto(n, row) PROVE QueryInv'
  <2>1. src' = [src EXCEPT ![n].row = row] /\ obj' = obj /\ loaded' = loaded
    BY <1>9 DEF Moveto
  <2>2. IsSources(src')
    <3>1. src' = [m \in Source |-> IF m = n THEN [src[n] EXCEPT !.row = row] ELSE src[m]]
      BY <2>1 DEF QueryInv, IsSources
    <3> DEFINE x == [src[n] EXCEPT !.row = row]
    <3>2. IsSource(x)
      <4>1. IsSource(src[n])
        BY DEF QueryInv, IsSources
      <4> DEFINE y == src[n]
      <4>2. x = [y EXCEPT !.row = row]
        OBVIOUS
      <4> HIDE DEF x, y
      <4> QED
        BY <4>1, <4>2 DEF IsSource, y
    <3> HIDE DEF x
    <3>3. src' = [m \in Source |-> IF m = n THEN x ELSE src[m]]
      BY <3>1 DEF x
    <3>4. \A m \in Source : IsSource(src'[m])
      BY <3>2, <3>3 DEF QueryInv, IsSources
    <3>5. src' = [m \in Source |-> src'[m]]
      BY <3>3
    <3> QED
      BY <3>4, <3>5 DEF IsSources
  <2> QED
    BY <2>1, <2>2 DEF QueryInv
<1>10. ASSUME NEW r \in Given, RefAdd(r) PROVE QueryInv'
  <2> DEFINE l == <<ReferenceNew(r, obj.position)>> \o obj.reflist
  <2>1. obj' = [obj EXCEPT !.reflist = l] /\ src' = src /\ loaded' = loaded
    BY <1>10 DEF RefAdd
  <2>2. l \in Seq(Told)
    <3>1. ReferenceNew(r, obj.position) \in Told
      BY ReferenceNewTold DEF Known, QueryInv, IsObject
    <3> QED
      BY <3>1 DEF QueryInv, IsObject
  <2> HIDE DEF l
  <2> QED
    BY <2>1, <2>2, ReflistIsObject DEF QueryInv
<1>11. CASE UNCHANGED vars
  BY <1>11 DEF vars, QueryInv
<1> QED
  BY <1>1, <1>2, <1>3, <1>4, <1>5, <1>6, <1>7, <1>8, <1>9, <1>10, <1>11
  DEF Next, TouchGarbage

-----------------------------------------------------------------------------
(* The right side of a tree, and a condition inserted there.               *)

\* The right side of a tree down to a tree that is no AND: p[k] is that tree.
Ands(p, k, w) ==
  /\ k \in Nat /\ k > 0 /\ p[1] = w
  /\ \A i \in 1..k : IsTree(p[i])
  /\ \A i \in 1..k-1 : IsPair(p[i]) /\ p[i].op = "and" /\ p[i + 1] = p[i].right
  /\ ~(IsPair(p[k]) /\ p[k].op = "and")

\* The left operands of those ANDs.
Lead(p, k, T) == \A i \in 1..k-1 : Holds(p[i].left, T)

\* The right side goes on by ORs alone, to p[n], which is no pair.
Ors(p, k, n) ==
  /\ n \in Nat /\ k <= n
  /\ \A i \in k..n : IsTree(p[i])
  /\ \A i \in k..n-1 : IsPair(p[i]) /\ p[i].op = "or" /\ p[i + 1] = p[i].right
  /\ ~IsPair(p[n])

\* Every tree has such a right side.
LEMMA AndsExist ==
  ASSUME NEW w, IsTree(w)
  PROVE  \E p, k : Ands(p, k, w)
<1> DEFINE Q == {n \in Nat : \A v : IsTree(v) /\ Level(v)[n] = {}
                                    => \E p, k : Ands(p, k, v)}
<1>1. 0 \in Q
  BY LevelUnfolds
<1>2. ASSUME NEW n \in Nat, n \in Q PROVE n + 1 \in Q
  <2> SUFFICES ASSUME NEW v, IsTree(v), Level(v)[n + 1] = {}
               PROVE  \E p, k : Ands(p, k, v)
    OBVIOUS
  <2>1. CASE IsPair(v) /\ v.op = "and"
    <3>1. IsTree(v.right) /\ Level(v.right)[n] = {}
      BY <2>1, OperandsOf, OperandsAreTrees, LowerOperands
    <3>2. PICK p, k : Ands(p, k, v.right)
      BY <1>2, <3>1
    <3> DEFINE q == [i \in 1..k+1 |-> IF i = 1 THEN v ELSE p[i - 1]]
    <3>3. k \in Nat /\ k > 0 /\ p[1] = v.right
      BY <3>2 DEF Ands
    <3>4. \A i \in 1..k+1 : q[i] = IF i = 1 THEN v ELSE p[i - 1]
      OBVIOUS
    <3> HIDE DEF q
    <3>5. q[1] = v /\ q[2] = v.right
      BY <3>3, <3>4
    <3>6. ASSUME NEW i \in 1..k PROVE q[i + 1] = p[i]
      <4>1. i + 1 \in 1..k+1 /\ i + 1 # 1 /\ (i + 1) - 1 = i
        BY <3>3
      <4> QED
        BY <3>4, <4>1
    <3>7. ASSUME NEW i \in 1..k+1 PROVE IsTree(q[i])
      <4>1. CASE i = 1
        BY <3>5, <4>1
      <4>2. CASE i # 1
        <5>1. i - 1 \in 1..k
          BY <3>3, <4>2
        <5>2. q[i] = p[i - 1]
          BY <3>4, <4>2
        <5> QED
          BY <3>2, <5>1, <5>2 DEF Ands
      <4> QED
        BY <4>1, <4>2
    <3>8. ASSUME NEW i \in 1..k
          PROVE  IsPair(q[i]) /\ q[i].op = "and" /\ q[i + 1] = q[i].right
      <4>1. CASE i = 1
        BY <2>1, <3>5, <4>1
      <4>2. CASE i # 1
        <5>1. i - 1 \in 1..k-1 /\ (i - 1) + 1 = i
          BY <3>3, <4>2
        <5>2. q[i] = p[i - 1] /\ q[i + 1] = p[i]
          BY <3>3, <3>4, <3>6, <4>2
        <5>3. IsPair(p[i - 1]) /\ p[i - 1].op = "and" /\ p[(i - 1) + 1] = p[i - 1].right
          BY <3>2, <5>1 DEF Ands
        <5> QED
          BY <5>1, <5>2, <5>3
      <4> QED
        BY <4>1, <4>2
    <3>9. ~(IsPair(q[k + 1]) /\ q[k + 1].op = "and")
      <4>1. q[k + 1] = p[k]
        BY <3>3, <3>6
      <4> QED
        BY <3>2, <4>1 DEF Ands
    <3>10. (k + 1) - 1 = k /\ k + 1 \in Nat /\ k + 1 > 0
      BY <3>3
    <3>11. Ands(q, k + 1, v)
      BY <3>5, <3>7, <3>8, <3>9, <3>10 DEF Ands
    <3> QED
      BY <3>11
  <2>2. CASE ~(IsPair(v) /\ v.op = "and")
    <3> DEFINE q == [i \in 1..1 |-> v]
    <3>1. q[1] = v
      OBVIOUS
    <3> HIDE DEF q
    <3>2. Ands(q, 1, v)
      BY <2>2, <3>1 DEF Ands
    <3> QED
      BY <3>2
  <2> QED
    BY <2>1, <2>2
<1> HIDE DEF Q
<1>3. Nat \subseteq Q
  BY <1>1, <1>2, NatSetInduction
<1>4. PICK N \in Nat : Level(w)[N] = {}
  BY DEF IsTree, Ending
<1>5. N \in Q
  BY <1>3
<1> QED
  BY <1>4, <1>5 DEF Q

\* It selects what their left operands and the tree at its end do.
LEMMA AndsHold ==
  ASSUME NEW p, NEW k, NEW w, Ands(p, k, w), NEW T
  PROVE  Holds(w, T) <=> Lead(p, k, T) /\ Holds(p[k], T)
<1> DEFINE Q == {n \in Nat : n + 1 \in 1..k =>
                   (Holds(w, T) <=> (\A i \in 1..n : Holds(p[i].left, T)) /\ Holds(p[n + 1], T))}
<1>1. k \in Nat /\ k > 0 /\ p[1] = w
  BY DEF Ands
<1>2. 0 \in Q
  BY <1>1
<1>3. ASSUME NEW n \in Nat, n \in Q PROVE n + 1 \in Q
  <2> SUFFICES ASSUME (n + 1) + 1 \in 1..k
               PROVE  Holds(w, T) <=> /\ \A i \in 1..n+1 : Holds(p[i].left, T)
                                      /\ Holds(p[(n + 1) + 1], T)
    OBVIOUS
  <2>1. n + 1 \in 1..k-1 /\ n + 1 \in 1..k
    BY <1>1
  <2>2. /\ IsTree(p[n + 1]) /\ IsPair(p[n + 1]) /\ p[n + 1].op = "and"
        /\ p[(n + 1) + 1] = p[n + 1].right
    BY <2>1 DEF Ands
  <2>3. Holds(p[n + 1], T) = (Holds(p[n + 1].left, T) /\ Holds(p[(n + 1) + 1], T))
    BY <2>2, HoldsUnfolds
  <2>4. Holds(w, T) <=> (\A i \in 1..n : Holds(p[i].left, T)) /\ Holds(p[n + 1], T)
    BY <1>3, <2>1
  <2>5. 1..n+1 = 1..n \cup {n + 1}
    OBVIOUS
  <2>6. (\A i \in 1..n+1 : Holds(p[i].left, T)) <=>
          (\A i \in 1..n : Holds(p[i].left, T)) /\ Holds(p[n + 1].left, T)
    BY <2>5
  <2> QED
    BY <2>3, <2>4, <2>6
<1> HIDE DEF Q
<1>4. k - 1 \in Q
  BY <1>1, <1>2, <1>3, NatSetInduction
<1>5. k - 1 \in Nat /\ (k - 1) + 1 = k /\ k \in 1..k
  BY <1>1
<1> QED
  BY <1>4, <1>5 DEF Q, Lead

\* The fields of a pair.
LEMMA PairFields ==
  ASSUME NEW l, NEW r, NEW op \in {"and", "or"}
  PROVE  /\ IsPair(WherePair(l, r, op)) /\ WherePair(l, r, op).left = l
         /\ WherePair(l, r, op).right = r /\ WherePair(l, r, op).op = op
BY DEF IsPair, WherePair

\* An AND goes below the ANDs of the right side: its tree is the last of them,
\* and those before it say what the whole tree said.
LEMMA InsertAnd ==
  ASSUME NEW w, IsTree(w), NEW c
  PROVE  \E p, k : /\ Ands(p, k, InsertCondition(w, WhereSingle(c), "and"))
                   /\ Ors(p, k, k)
                   /\ \A T : Lead(p, k, T) <=> Holds(w, T)
                   /\ \A T : Holds(p[k], T) <=> Atom(c) \in T
<1> DEFINE new == WhereSingle(c)
           Ins(v) == InsertCondition(v, new, "and")
<1>1. PICK p, k : Ands(p, k, w)
  BY AndsExist
<1>2. k \in Nat /\ k > 0 /\ p[1] = w /\ \A i \in 1..k : IsTree(p[i])
  BY <1>1 DEF Ands
<1>3. IsTree(new) /\ IsSingle(new) /\ new.single = c /\ ~IsPair(new)
  BY SingleIsTree, OperandsOf
<1>4. \A v : IsTree(v) => IsTree(Ins(v))
  BY <1>3, InsertIsTree
<1> DEFINE q == [i \in 1..k+1 |-> IF i = k + 1 THEN new ELSE Ins(p[i])]
<1>5. \A i \in 1..k+1 : q[i] = IF i = k + 1 THEN new ELSE Ins(p[i])
  OBVIOUS
<1> HIDE DEF q
<1>6. ASSUME NEW i \in 1..k
      PROVE  \/ i < k /\ q[i] = WherePair(p[i].left, q[i + 1], "and")
             \/ i = k /\ q[i] = WherePair(p[k], new, "and")
  <2>1. q[i] = Ins(p[i]) /\ IsTree(p[i])
    BY <1>2, <1>5
  <2>2. CASE i < k
    <3>1. i \in 1..k-1
      BY <1>2, <2>2
    <3>2. IsPair(p[i]) /\ p[i].op = "and" /\ p[i + 1] = p[i].right
      BY <1>1, <3>1 DEF Ands
    <3>3. Ins(p[i]) = WherePair(p[i].left, Ins(p[i].right), p[i].op)
      <4>1. ~("and" = "and" /\ p[i].op = "or")
        BY <3>2
      <4> HIDE DEF new
      <4> QED
        BY <2>1, <3>2, <4>1, InsertUnfolds
    <3>4. i + 1 \in 1..k+1 /\ i + 1 # k + 1
      BY <1>2, <2>2
    <3>5. q[i + 1] = Ins(p[i].right)
      BY <1>5, <3>2, <3>4
    <3> QED
      BY <2>1, <2>2, <3>2, <3>3, <3>5
  <2>3. CASE i = k
    <3>1. ~(IsPair(p[k]) /\ p[k].op = "and")
      BY <1>1 DEF Ands
    <3>2. ~(IsPair(p[k]) /\ ~("and" = "and" /\ p[k].op = "or"))
      <4>1. IsPair(p[k]) => p[k].op \in {"and", "or"}
        BY DEF IsPair
      <4> QED
        BY <3>1, <4>1
    <3>3. Ins(p[k]) = WherePair(p[k], new, "and")
      <4> HIDE DEF new
      <4> QED
        BY <2>1, <2>3, <3>2, InsertUnfolds
    <3> QED
      BY <2>1, <2>3, <3>3
  <2> QED
    BY <1>2, <2>2, <2>3
<1> HIDE DEF new
<1>7. q[k + 1] = new /\ q[1] = Ins(w)
  BY <1>2, <1>5
<1>8. ASSUME NEW i \in 1..k+1 PROVE IsTree(q[i])
  BY <1>2, <1>3, <1>4, <1>5
<1> HIDE DEF Ins
<1>9. ASSUME NEW i \in 1..k
      PROVE  /\ IsPair(q[i]) /\ q[i].op = "and" /\ q[i + 1] = q[i].right
             /\ q[i].left = IF i = k THEN p[k] ELSE p[i].left
  <2>1. CASE i < k /\ q[i] = WherePair(p[i].left, q[i + 1], "and")
    BY <1>2, <2>1, PairFields
  <2>2. CASE i = k /\ q[i] = WherePair(p[k], new, "and")
    BY <1>2, <1>7, <2>2, PairFields
  <2> QED
    BY <1>6, <2>1, <2>2
<1>10. k + 1 \in Nat /\ k + 1 > 0 /\ (k + 1) - 1 = k
  BY <1>2
<1>11. Ands(q, k + 1, Ins(w))
  BY <1>3, <1>7, <1>8, <1>9, <1>10 DEF Ands
<1>12. Ors(q, k + 1, k + 1)
  <2>1. (k + 1)..((k + 1) - 1) = {} /\ (k + 1)..(k + 1) = {k + 1} /\ k + 1 <= k + 1
    BY <1>10
  <2> QED
    BY <1>3, <1>7, <1>10, <2>1 DEF Ors
<1>13. ASSUME NEW T PROVE Lead(q, k + 1, T) <=> Holds(w, T)
  <2>1. Lead(q, k + 1, T) <=> \A i \in 1..k : Holds(q[i].left, T)
    BY <1>10 DEF Lead
  <2>2. 1..k = 1..k-1 \cup {k} /\ \A i \in 1..k-1 : i # k /\ i \in 1..k
    BY <1>2
  <2>3. (\A i \in 1..k : Holds(q[i].left, T)) <=>
           (\A i \in 1..k-1 : Holds(p[i].left, T)) /\ Holds(p[k], T)
    BY <1>9, <2>2
  <2>4. Holds(w, T) <=> Lead(p, k, T) /\ Holds(p[k], T)
    BY <1>1, AndsHold
  <2> QED
    BY <2>1, <2>3, <2>4 DEF Lead
<1>14. ASSUME NEW T PROVE Holds(q[k + 1], T) <=> Atom(c) \in T
  BY <1>3, <1>7, HoldsUnfolds
<1> QED
  BY <1>11, <1>12, <1>13, <1>14 DEF Ins, new

\* An OR goes to the end of the right side: it extends the last of the ANDs.
LEMMA InsertOr ==
  ASSUME NEW p, NEW k, NEW n, NEW w, Ands(p, k, w), Ors(p, k, n), NEW c
  PROVE  \E q : /\ Ands(q, k, InsertCondition(w, WhereSingle(c), "or"))
                /\ Ors(q, k, n + 1)
                /\ \A T : Lead(q, k, T) <=> Lead(p, k, T)
                /\ \A T : Holds(q[k], T) <=> Holds(p[k], T) \/ Atom(c) \in T
<1> DEFINE new == WhereSingle(c)
           Ins(v) == InsertCondition(v, new, "or")
<1>1. k \in Nat /\ k > 0 /\ p[1] = w /\ n \in Nat /\ k <= n
  BY DEF Ands, Ors
<1>2. \A i \in 1..n : IsTree(p[i])
  BY <1>1 DEF Ands, Ors
<1>3. \A i \in 1..n-1 : IsPair(p[i]) /\ p[i + 1] = p[i].right
  BY <1>1 DEF Ands, Ors
<1>4. IsTree(new) /\ IsSingle(new) /\ new.single = c /\ ~IsPair(new)
  BY SingleIsTree, OperandsOf
<1>5. \A v : IsTree(v) => IsTree(Ins(v))
  BY <1>4, InsertIsTree
<1> DEFINE q == [i \in 1..n+1 |-> IF i = n + 1 THEN new ELSE Ins(p[i])]
<1>6. \A i \in 1..n+1 : q[i] = IF i = n + 1 THEN new ELSE Ins(p[i])
  OBVIOUS
<1> HIDE DEF q
<1>7. ASSUME NEW i \in 1..n-1 PROVE q[i] = WherePair(p[i].left, q[i + 1], p[i].op)
  <2>1. q[i] = Ins(p[i]) /\ IsTree(p[i])
    BY <1>1, <1>2, <1>6
  <2>2. Ins(p[i]) = WherePair(p[i].left, Ins(p[i].right), p[i].op)
    <3>1. ~("or" = "and" /\ p[i].op = "or")
      OBVIOUS
    <3>2. IsPair(p[i])
      BY <1>3
    <3> HIDE DEF new
    <3> QED
      BY <2>1, <3>1, <3>2, InsertUnfolds
  <2>3. i + 1 \in 1..n+1 /\ i + 1 # n + 1
    BY <1>1
  <2>4. q[i + 1] = Ins(p[i].right)
    BY <1>3, <1>6, <2>3
  <2> QED
    BY <2>1, <2>2, <2>4
<1>8. q[n] = WherePair(p[n], new, "or")
  <2>1. q[n] = Ins(p[n]) /\ IsTree(p[n]) /\ ~IsPair(p[n])
    BY <1>1, <1>2, <1>6 DEF Ors
  <2> HIDE DEF new
  <2> QED
    BY <2>1, InsertUnfolds
<1> HIDE DEF new
<1>9. q[n + 1] = new /\ q[1] = Ins(w)
  BY <1>1, <1>6
<1>10. ASSUME NEW i \in 1..n+1 PROVE IsTree(q[i])
  BY <1>1, <1>2, <1>4, <1>5, <1>6
<1> HIDE DEF Ins
<1>11. ASSUME NEW i \in 1..n-1
       PROVE  /\ IsPair(q[i]) /\ q[i].op = p[i].op /\ q[i + 1] = q[i].right
              /\ q[i].left = p[i].left
  <2>1. p[i].op \in {"and", "or"}
    BY <1>3 DEF IsPair
  <2> QED
    BY <1>7, <2>1, PairFields
<1>12. IsPair(q[n]) /\ q[n].op = "or" /\ q[n].left = p[n] /\ q[n].right = q[n + 1]
  BY <1>8, <1>9, PairFields
<1>13. Ands(q, k, Ins(w))
  <2>1. \A i \in 1..k-1 : i \in 1..n-1 /\ p[i].op = "and"
    BY <1>1 DEF Ands
  <2>2. \A i \in 1..k-1 : IsPair(q[i]) /\ q[i].op = "and" /\ q[i + 1] = q[i].right
    BY <1>11, <2>1
  <2>3. ~(IsPair(q[k]) /\ q[k].op = "and")
    <3>1. CASE k = n
      BY <1>12, <3>1
    <3>2. CASE k # n
      <4>1. k \in 1..n-1 /\ k \in k..n-1
        BY <1>1, <3>2
      <4>2. p[k].op = "or"
        BY <4>1 DEF Ors
      <4> QED
        BY <1>11, <4>1, <4>2
    <3> QED
      BY <3>1, <3>2
  <2>4. \A i \in 1..k : i \in 1..n+1
    BY <1>1
  <2> QED
    BY <1>1, <1>9, <1>10, <2>2, <2>3, <2>4 DEF Ands
<1>14. Ors(q, k, n + 1)
  <2>1. ASSUME NEW i \in k..n PROVE IsPair(q[i]) /\ q[i].op = "or" /\ q[i + 1] = q[i].right
    <3>1. CASE i = n
      BY <1>12, <3>1
    <3>2. CASE i # n
      <4>1. i \in 1..n-1 /\ i \in k..n-1
        BY <1>1, <3>2
      <4>2. p[i].op = "or"
        BY <4>1 DEF Ors
      <4> QED
        BY <1>11, <4>1, <4>2
    <3> QED
      BY <3>1, <3>2
  <2>2. n + 1 \in Nat /\ k <= n + 1 /\ (n + 1) - 1 = n /\ \A i \in k..n+1 : i \in 1..n+1
    BY <1>1
  <2>3. ~IsPair(q[n + 1])
    BY <1>4, <1>9
  <2> QED
    BY <1>10, <2>1, <2>2, <2>3 DEF Ors
<1>15. ASSUME NEW T PROVE Lead(q, k, T) <=> Lead(p, k, T)
  <2>1. \A i \in 1..k-1 : i \in 1..n-1
    BY <1>1
  <2>2. \A i \in 1..k-1 : q[i].left = p[i].left
    BY <1>11, <2>1
  <2> QED
    BY <2>2 DEF Lead
<1>16. ASSUME NEW T PROVE Holds(q[k], T) <=> Holds(p[k], T) \/ Atom(c) \in T
  <2> DEFINE Q == {m \in Nat : n - m \in k..n =>
                     (Holds(q[n - m], T) <=> Holds(p[n - m], T) \/ Atom(c) \in T)}
  <2>1. 0 \in Q
    <3>1. Holds(q[n], T) = (Holds(q[n].left, T) \/ Holds(q[n].right, T))
      <4>1. IsTree(q[n])
        BY <1>1, <1>10
      <4> QED
        BY <1>12, <4>1, HoldsUnfolds
    <3>2. Holds(q[n + 1], T) = (Atom(c) \in T)
      BY <1>4, <1>9, HoldsUnfolds
    <3>3. Holds(q[n], T) <=> Holds(p[n], T) \/ Atom(c) \in T
      BY <1>12, <3>1, <3>2
    <3>4. n - 0 = n
      BY <1>1
    <3> QED
      BY <3>3, <3>4
  <2>2. ASSUME NEW m \in Nat, m \in Q PROVE m + 1 \in Q
    <3> DEFINE i == n - (m + 1)
    <3> SUFFICES ASSUME i \in k..n
                 PROVE  Holds(q[i], T) <=> Holds(p[i], T) \/ Atom(c) \in T
      OBVIOUS
    <3>1. i + 1 = n - m /\ i + 1 \in k..n /\ i \in 1..n-1 /\ i \in k..n-1 /\ i \in 1..n+1
      BY <1>1
    <3>2. Holds(q[i + 1], T) <=> Holds(p[i + 1], T) \/ Atom(c) \in T
      BY <2>2, <3>1
    <3> HIDE DEF i
    <3>3. /\ IsPair(p[i]) /\ p[i].op = "or" /\ p[i + 1] = p[i].right
          /\ IsTree(p[i]) /\ IsTree(q[i])
      BY <1>1, <1>2, <1>10, <3>1 DEF Ors
    <3>4. IsPair(q[i]) /\ q[i].op = "or" /\ q[i + 1] = q[i].right /\ q[i].left = p[i].left
      BY <1>11, <3>1, <3>3
    <3>5. Holds(q[i], T) = (Holds(p[i].left, T) \/ Holds(q[i + 1], T))
      BY <3>3, <3>4, HoldsUnfolds
    <3>6. Holds(p[i], T) = (Holds(p[i].left, T) \/ Holds(p[i + 1], T))
      BY <3>3, HoldsUnfolds
    <3> QED
      BY <3>2, <3>5, <3>6
  <2> HIDE DEF Q
  <2>3. n - k \in Q
    BY <1>1, <2>1, <2>2, NatSetInduction
  <2>4. n - (n - k) = k /\ k \in k..n
    BY <1>1
  <2> QED
    BY <2>3, <2>4 DEF Q
<1> QED
  BY <1>13, <1>14, <1>15, <1>16 DEF Ins, new

-----------------------------------------------------------------------------
(* The clauses of the conditions appended.                                 *)

\* NULL is no tree of conditions either: the builders allocate them.
NullIsNoWhere ==
  /\ \A c : WhereSingle(c) # NULL
  /\ \A w : WhereNegated(w) # NULL
  /\ \A l, r, op : WherePair(l, r, op) # NULL

\* Clauses and ClauseHolds, of any list of conditions.
IsConds(c) == IsList(c) /\ \A i \in 1..Len(c) : c[i].op \in {"and", "or"}
ClausesIn(c) == {i \in DOMAIN c : i = 1 \/ c[i].op = "and"}
HoldsFrom(c, i, T) ==
  \E j \in i..Len(c) : c[j].atom \in T /\ \A k \in i+1..j : c[k].op = "or"
LastClause(c, m) == m \in ClausesIn(c) /\ \A i \in ClausesIn(c) : i <= m

\* The ANDs on the right side of w select what b does and every clause of c but
\* the last, which the tree below them is.
Means(w, b, c) ==
  \E p, k, n, m :
    /\ Ands(p, k, w) /\ Ors(p, k, n) /\ LastClause(c, m)
    /\ \A T : Lead(p, k, T) <=>
         Selects(b, T) /\ \A i \in ClausesIn(c) \ {m} : HoldsFrom(c, i, T)
    /\ \A T : Holds(p[k], T) <=> HoldsFrom(c, m, T)

\* A tree that means the clauses selects what they do.
LEMMA MeansClauses ==
  ASSUME NEW w, NEW b, NEW c, Means(w, b, c), NEW T
  PROVE  Holds(w, T) <=> Selects(b, T) /\ \A i \in ClausesIn(c) : HoldsFrom(c, i, T)
<1>1. PICK p, k, n, m :
        /\ Ands(p, k, w) /\ LastClause(c, m)
        /\ \A U : Lead(p, k, U) <=>
             Selects(b, U) /\ \A i \in ClausesIn(c) \ {m} : HoldsFrom(c, i, U)
        /\ \A U : Holds(p[k], U) <=> HoldsFrom(c, m, U)
  BY DEF Means
<1>2. Holds(w, T) <=> Lead(p, k, T) /\ Holds(p[k], T)
  BY <1>1, AndsHold
<1>3. m \in ClausesIn(c)
  BY <1>1 DEF LastClause
<1>4. Lead(p, k, T) <=> Selects(b, T) /\ \A i \in ClausesIn(c) \ {m} : HoldsFrom(c, i, T)
  BY <1>1
<1>5. Holds(p[k], T) <=> HoldsFrom(c, m, T)
  BY <1>1
<1> QED
  BY <1>2, <1>3, <1>4, <1>5

\* One more condition.
LEMMA AppendedList ==
  ASSUME NEW c, IsConds(c), NEW op \in {"and", "or"}, NEW a
  PROVE  LET x == [op |-> op, atom |-> a]
             d == Append(c, x)
         IN  /\ IsConds(d) /\ Len(c) \in Nat /\ DOMAIN c = 1..Len(c)
             /\ Len(d) = Len(c) + 1 /\ DOMAIN d = 1..Len(c)+1
             /\ \A i \in 1..Len(c) : d[i] = c[i]
             /\ d[Len(c) + 1].op = op /\ d[Len(c) + 1].atom = a
<1> DEFINE x == [op |-> op, atom |-> a]
           d == Append(c, x)
<1>1. Len(c) \in Nat /\ DOMAIN c = 1..Len(c) /\ c \in Seq(Range(c))
  BY ListLength DEF IsConds, IsList
<1>2. x.op = op /\ x.atom = a
  OBVIOUS
<1> HIDE DEF x
<1>3. IsList(d)
  BY ListWithLast DEF IsConds
<1>4. /\ Len(d) = Len(c) + 1 /\ DOMAIN d = 1..Len(c)+1
      /\ \A i \in 1..Len(c) : d[i] = c[i]
      /\ d[Len(c) + 1] = x
  BY <1>1
<1> HIDE DEF d
<1>5. \A i \in 1..Len(d) : d[i].op \in {"and", "or"}
  <2>1. \A i \in 1..Len(c) : c[i].op \in {"and", "or"}
    BY DEF IsConds
  <2>2. \A i \in 1..Len(d) : i \in 1..Len(c) \/ i = Len(c) + 1
    BY <1>1, <1>4
  <2> QED
    BY <1>2, <1>4, <2>1, <2>2
<1>6. IsConds(d)
  BY <1>3, <1>5 DEF IsConds
<1> QED
  BY <1>1, <1>2, <1>4, <1>6 DEF d, x

\* An AND, and whatever is appended first, begins a clause.
LEMMA AppendedAnd ==
  ASSUME NEW c, IsConds(c), NEW op \in {"and", "or"}, op = "and" \/ c = <<>>, NEW a
  PROVE  LET d == Append(c, [op |-> op, atom |-> a])
             m == Len(c) + 1
         IN  /\ LastClause(d, m) /\ ClausesIn(d) \ {m} = ClausesIn(c)
             /\ \A T : HoldsFrom(d, m, T) <=> a \in T
             /\ \A T : \A i \in ClausesIn(c) : HoldsFrom(d, i, T) <=> HoldsFrom(c, i, T)
<1> DEFINE d == Append(c, [op |-> op, atom |-> a])
           m == Len(c) + 1
<1>1. /\ IsConds(d) /\ Len(c) \in Nat /\ DOMAIN c = 1..Len(c)
      /\ Len(d) = m /\ DOMAIN d = 1..m
      /\ \A i \in 1..Len(c) : d[i] = c[i]
      /\ d[m].op = op /\ d[m].atom = a
  BY AppendedList
<1> HIDE DEF d
<1>2. m = 1 \/ op = "and"
  BY <1>1
<1>3. LastClause(d, m) /\ ClausesIn(d) \ {m} = ClausesIn(c)
  <2>1. m \in ClausesIn(d)
    BY <1>1, <1>2 DEF ClausesIn
  <2>2. \A i \in ClausesIn(d) : i <= m
    BY <1>1 DEF ClausesIn
  <2>3. \A i : i \in DOMAIN d /\ i # m <=> i \in DOMAIN c
    BY <1>1
  <2>4. ClausesIn(d) \ {m} = ClausesIn(c)
    BY <1>1, <2>3 DEF ClausesIn
  <2> QED
    BY <2>1, <2>2, <2>4 DEF LastClause
<1>4. ASSUME NEW T PROVE HoldsFrom(d, m, T) <=> a \in T
  <2>1. m..Len(d) = {m} /\ m+1..m = {}
    BY <1>1
  <2> QED
    BY <1>1, <2>1 DEF HoldsFrom
<1>5. ASSUME NEW T, NEW i \in ClausesIn(c) PROVE HoldsFrom(d, i, T) <=> HoldsFrom(c, i, T)
  <2>1. i \in 1..Len(c) /\ op = "and"
    BY <1>1 DEF ClausesIn
  <2>2. HoldsFrom(c, i, T) => HoldsFrom(d, i, T)
    <3>1. SUFFICES ASSUME NEW j \in i..Len(c), c[j].atom \in T, \A k \in i+1..j : c[k].op = "or"
                   PROVE  HoldsFrom(d, i, T)
      BY DEF HoldsFrom
    <3>2. j \in i..Len(d) /\ j \in 1..Len(c) /\ \A k \in i+1..j : k \in 1..Len(c)
      BY <1>1, <2>1
    <3>3. d[j].atom \in T /\ \A k \in i+1..j : d[k].op = "or"
      BY <1>1, <3>1, <3>2
    <3> QED
      BY <3>2, <3>3 DEF HoldsFrom
  <2>3. HoldsFrom(d, i, T) => HoldsFrom(c, i, T)
    <3>1. SUFFICES ASSUME NEW j \in i..Len(d), d[j].atom \in T, \A k \in i+1..j : d[k].op = "or"
                   PROVE  HoldsFrom(c, i, T)
      BY DEF HoldsFrom
    <3>2. j # m
      <4>1. j = m => m \in i+1..j
        BY <1>1, <2>1
      <4> QED
        BY <1>1, <2>1, <3>1, <4>1
    <3>3. j \in i..Len(c) /\ j \in 1..Len(c) /\ \A k \in i+1..j : k \in 1..Len(c)
      BY <1>1, <2>1, <3>2
    <3>4. c[j].atom \in T /\ \A k \in i+1..j : c[k].op = "or"
      BY <1>1, <3>1, <3>3
    <3> QED
      BY <3>3, <3>4 DEF HoldsFrom
  <2> QED
    BY <2>2, <2>3
<1> QED
  BY <1>3, <1>4, <1>5 DEF d

\* An OR extends the last clause.
LEMMA AppendedOr ==
  ASSUME NEW c, IsConds(c), NEW a, NEW m, LastClause(c, m)
  PROVE  LET d == Append(c, [op |-> "or", atom |-> a])
         IN  /\ LastClause(d, m) /\ ClausesIn(d) = ClausesIn(c)
             /\ \A T : HoldsFrom(d, m, T) <=> HoldsFrom(c, m, T) \/ a \in T
             /\ \A T : \A i \in ClausesIn(c) \ {m} :
                  HoldsFrom(d, i, T) <=> HoldsFrom(c, i, T)
<1> DEFINE d == Append(c, [op |-> "or", atom |-> a])
           e == Len(c) + 1
<1>1. /\ IsConds(d) /\ Len(c) \in Nat /\ DOMAIN c = 1..Len(c)
      /\ Len(d) = e /\ DOMAIN d = 1..e
      /\ \A i \in 1..Len(c) : d[i] = c[i]
      /\ d[e].op = "or" /\ d[e].atom = a
  BY AppendedList
<1> HIDE DEF d
<1>2. m \in 1..Len(c) /\ m \in ClausesIn(c) /\ \A i \in ClausesIn(c) : i <= m
  BY <1>1 DEF LastClause, ClausesIn
<1>3. ClausesIn(d) = ClausesIn(c)
  <2>1. \A i : i \in DOMAIN d <=> i \in DOMAIN c \/ i = e
    BY <1>1
  <2>2. e # 1 /\ e \notin DOMAIN c
    BY <1>1, <1>2
  <2> QED
    BY <1>1, <2>1, <2>2 DEF ClausesIn
<1>4. LastClause(d, m)
  BY <1>2, <1>3 DEF LastClause
<1>5. ASSUME NEW k \in m+1..e PROVE d[k].op = "or"
  <2>1. CASE k = e
    BY <1>1, <2>1
  <2>2. CASE k # e
    <3>1. k \in 1..Len(c) /\ ~(k <= m)
      BY <1>1, <1>2, <2>2
    <3>2. k \notin ClausesIn(c)
      BY <1>2, <3>1
    <3>3. c[k].op # "and"
      BY <1>1, <3>1, <3>2 DEF ClausesIn
    <3>4. c[k].op \in {"and", "or"}
      BY <3>1 DEF IsConds
    <3> QED
      BY <1>1, <3>1, <3>3, <3>4
  <2> QED
    BY <2>1, <2>2
<1>6. ASSUME NEW T, NEW i \in 1..Len(c), HoldsFrom(c, i, T) PROVE HoldsFrom(d, i, T)
  <2>1. PICK j \in i..Len(c) : c[j].atom \in T /\ \A k \in i+1..j : c[k].op = "or"
    BY <1>6 DEF HoldsFrom
  <2>2. j \in i..Len(d) /\ j \in 1..Len(c) /\ \A k \in i+1..j : k \in 1..Len(c)
    BY <1>1, <1>6
  <2>3. d[j].atom \in T /\ \A k \in i+1..j : d[k].op = "or"
    BY <1>1, <2>1, <2>2
  <2> QED
    BY <2>2, <2>3 DEF HoldsFrom
<1>7. ASSUME NEW T, NEW i \in 1..Len(c), HoldsFrom(d, i, T)
      PROVE  \/ HoldsFrom(c, i, T)
             \/ a \in T /\ \A k \in i+1..e : d[k].op = "or"
  <2>1. PICK j \in i..Len(d) : d[j].atom \in T /\ \A k \in i+1..j : d[k].op = "or"
    BY <1>7 DEF HoldsFrom
  <2>2. CASE j = e
    BY <1>1, <2>1, <2>2
  <2>3. CASE j # e
    <3>1. j \in i..Len(c) /\ j \in 1..Len(c) /\ \A k \in i+1..j : k \in 1..Len(c)
      BY <1>1, <1>7, <2>3
    <3>2. c[j].atom \in T /\ \A k \in i+1..j : c[k].op = "or"
      BY <1>1, <2>1, <3>1
    <3> QED
      BY <3>1, <3>2 DEF HoldsFrom
  <2> QED
    BY <2>2, <2>3
<1>8. ASSUME NEW T PROVE HoldsFrom(d, m, T) <=> HoldsFrom(c, m, T) \/ a \in T
  <2>1. a \in T => HoldsFrom(d, m, T)
    <3>1. e \in m..Len(d)
      BY <1>1, <1>2
    <3> QED
      BY <1>1, <1>5, <3>1 DEF HoldsFrom
  <2> QED
    BY <1>2, <1>6, <1>7, <2>1
<1>9. ASSUME NEW T, NEW i \in ClausesIn(c) \ {m}
      PROVE  HoldsFrom(d, i, T) <=> HoldsFrom(c, i, T)
  <2>1. i \in 1..Len(c) /\ i < m
    BY <1>1, <1>2 DEF ClausesIn
  <2>2. m \in i+1..e /\ m # 1
    BY <1>1, <1>2, <2>1
  <2>3. d[m].op = "and"
    BY <1>1, <1>2, <2>2 DEF ClausesIn
  <2>4. ~\A k \in i+1..e : d[k].op = "or"
    BY <2>2, <2>3
  <2> QED
    BY <1>6, <1>7, <2>1, <2>4
<1> QED
  BY <1>3, <1>4, <1>8, <1>9 DEF d

\* A tree is not NULL,
LEMMA TreeIsThere ==
  ASSUME NullIsNoWhere, NEW w, IsTree(w)
  PROVE  w # NULL
<1>1. IsNode(w)
  BY RootIsNode
<1> QED
  BY <1>1 DEF NullIsNoWhere, IsNode, IsSingle, IsNegated, IsPair

\* and holds or does not.
LEMMA HoldsIsBoolean ==
  ASSUME NEW w, IsTree(w), NEW T
  PROVE  Holds(w, T) \in BOOLEAN
<1>1. \/ IsSingle(w) \/ IsNegated(w)
      \/ IsPair(w) /\ w.op \in {"and", "or"}
  BY RootIsNode DEF IsNode, IsPair
<1>2. /\ IsSingle(w) => Holds(w, T) = (Atom(w.single) \in T)
      /\ IsNegated(w) => Holds(w, T) = ~Holds(w.negated, T)
      /\ IsPair(w) /\ w.op = "and" => Holds(w, T) = (Holds(w.left, T) /\ Holds(w.right, T))
      /\ IsPair(w) /\ w.op = "or" => Holds(w, T) = (Holds(w.left, T) \/ Holds(w.right, T))
  BY HoldsUnfolds
<1>3. CASE IsSingle(w)
  <2>1. \A x : (x \in T) \in BOOLEAN
    OBVIOUS
  <2>2. Holds(w, T) = (Atom(w.single) \in T)
    BY <1>2, <1>3
  <2> QED
    BY <2>1, <2>2, Zenon
<1>4. CASE IsNegated(w)
  BY <1>2, <1>4, Zenon
<1>5. CASE IsPair(w) /\ w.op = "and"
  BY <1>2, <1>5, Zenon
<1>6. CASE IsPair(w) /\ w.op = "or"
  BY <1>2, <1>6, Zenon
<1> QED
  BY <1>1, <1>3, <1>4, <1>5, <1>6, Zenon

\* One condition alone, after none.
LEMMA FirstMeans ==
  ASSUME NEW c, NEW op \in {"and", "or"}
  PROVE  LET w == WhereSingle(c)
         IN  Means(w, NULL, Append(<<>>, [op |-> op, atom |-> Atom(c)]))
<1> DEFINE w == WhereSingle(c)
           a == Atom(c)
           d == Append(<<>>, [op |-> op, atom |-> a])
           p == [i \in 1..1 |-> w]
<1>1. IsTree(w) /\ ~IsPair(w) /\ IsSingle(w) /\ w.single = c
  BY SingleIsTree, OperandsOf
<1>2. IsConds(<<>>)
  BY EmptyIsList DEF IsConds
<1>3. /\ LastClause(d, 1) /\ ClausesIn(d) \ {1} = ClausesIn(<<>>)
      /\ \A T : HoldsFrom(d, 1, T) <=> a \in T
  <2> DEFINE c0 == <<>>
             m == Len(c0) + 1
  <2>1. m = 1 /\ IsConds(c0) /\ d = Append(c0, [op |-> op, atom |-> a])
    BY <1>2
  <2>2. op = "and" \/ c0 = <<>>
    OBVIOUS
  <2> HIDE DEF a, d, c0
  <2>3. /\ LastClause(d, m) /\ ClausesIn(d) \ {m} = ClausesIn(c0)
        /\ \A T : HoldsFrom(d, m, T) <=> a \in T
    BY <2>1, <2>2, AppendedAnd
  <2> HIDE DEF m
  <2> QED
    BY <2>1, <2>3 DEF c0
<1>4. ClausesIn(<<>>) = {}
  BY DEF ClausesIn
<1>5. p[1] = w
  OBVIOUS
<1> HIDE DEF p, d
<1>6. Ands(p, 1, w) /\ Ors(p, 1, 1)
  <2> HIDE DEF w
  <2>1. \A i \in 1..1 : i = 1
    OBVIOUS
  <2>2. \A i \in 1..1-1 : FALSE
    OBVIOUS
  <2>3. \A i \in 1..1 : IsTree(p[i])
    BY <1>1, <1>5, <2>1
  <2>4. ~IsPair(p[1])
    BY <1>1, <1>5
  <2>5. Ands(p, 1, w)
    BY <1>5, <2>2, <2>3, <2>4 DEF Ands
  <2>6. Ors(p, 1, 1)
    BY <2>2, <2>3, <2>4 DEF Ors
  <2> QED
    BY <2>5, <2>6
<1>7. ASSUME NEW T PROVE Holds(p[1], T) <=> a \in T
  <2>1. IsTree(p[1]) /\ IsSingle(p[1]) /\ Atom(p[1].single) = a
    BY <1>1, <1>5
  <2> HIDE DEF a, w
  <2> QED
    BY <2>1, HoldsUnfolds
<1>8. \A T : Lead(p, 1, T) /\ Selects(NULL, T)
  BY DEF Lead, Selects
<1>9. ASSUME NEW T
      PROVE  Lead(p, 1, T) <=> Selects(NULL, T) /\ \A i \in ClausesIn(d) \ {1} : HoldsFrom(d, i, T)
  BY <1>3, <1>4, <1>8
<1>10. ASSUME NEW T PROVE Holds(p[1], T) <=> HoldsFrom(d, 1, T)
  BY <1>3, <1>7
<1> HIDE DEF w, a
<1>11. Means(w, NULL, d)
  BY <1>3, <1>6, <1>9, <1>10 DEF Means
<1> QED
  BY <1>11 DEF w, d, a

\* What a tree means after an AND is what it did, and the new condition.
LEMMA AndMeans ==
  ASSUME NEW w, NEW v, NEW b, NEW c, IsConds(c), NEW a, NEW p, NEW k,
         Ands(p, k, v), Ors(p, k, k),
         \A T : Lead(p, k, T) <=> Holds(w, T),
         \A T : Holds(p[k], T) <=> a \in T,
         \A T : Holds(w, T) <=> Selects(b, T) /\ \A i \in ClausesIn(c) : HoldsFrom(c, i, T)
  PROVE  Means(v, b, Append(c, [op |-> "and", atom |-> a]))
<1> DEFINE d == Append(c, [op |-> "and", atom |-> a])
           m == Len(c) + 1
<1>1. /\ LastClause(d, m) /\ ClausesIn(d) \ {m} = ClausesIn(c)
      /\ \A T : HoldsFrom(d, m, T) <=> a \in T
      /\ \A T : \A i \in ClausesIn(c) : HoldsFrom(d, i, T) <=> HoldsFrom(c, i, T)
  BY AppendedAnd
<1> HIDE DEF d, m
<1>2. ASSUME NEW T
      PROVE  Lead(p, k, T) <=> Selects(b, T) /\ \A i \in ClausesIn(d) \ {m} : HoldsFrom(d, i, T)
  <2>1. Lead(p, k, T) <=> Holds(w, T)
    OBVIOUS
  <2>2. Holds(w, T) <=> Selects(b, T) /\ \A i \in ClausesIn(c) : HoldsFrom(c, i, T)
    OBVIOUS
  <2> QED
    BY <1>1, <2>1, <2>2
<1>3. ASSUME NEW T PROVE Holds(p[k], T) <=> HoldsFrom(d, m, T)
  BY <1>1
<1>4. Means(v, b, d)
  BY <1>1, <1>2, <1>3 DEF Means
<1> QED
  BY <1>4 DEF d

\* What the conditions of a statement are while conditions are appended to it.
Conditioned(w, b, c) ==
  /\ w = NULL \/ IsTree(w)
  /\ IsConds(c)
  /\ c = <<>> => w = b
  /\ c # <<>> => w # NULL /\ (b = NULL \/ c[1].op = "and" => Means(w, b, c))

\* So with the conditions appended to it a tree means what ClauseForm says.
LEMMA ConditionedMeans ==
  ASSUME NEW w, w # NULL, NEW b, NEW c, Conditioned(w, b, c), NEW T,
         c # <<>> => b = NULL \/ c[1].op = "and"
  PROVE  Holds(w, T) <=> Selects(b, T) /\ \A i \in ClausesIn(c) : HoldsFrom(c, i, T)
<1>1. CASE c = <<>>
  <2>1. w = b /\ ClausesIn(c) = {}
    BY <1>1 DEF Conditioned, ClausesIn
  <2> QED
    BY <2>1 DEF Selects
<1>2. CASE c # <<>>
  BY <1>2, MeansClauses DEF Conditioned
<1> QED
  BY <1>1, <1>2

\* sql_statement_append_where, as a tree and as a condition appended.
LEMMA AppendConditioned ==
  ASSUME NullIsNoWhere, NEW w, NEW b, NEW c, Conditioned(w, b, c),
         NEW x, NEW op \in {"and", "or"}
  PROVE  LET new == WhereSingle(x)
         IN  Conditioned(IF w = NULL THEN new ELSE InsertCondition(w, new, op), b,
                         Append(c, [op |-> op, atom |-> Atom(x)]))
<1> DEFINE new == WhereSingle(x)
           a == Atom(x)
           d == Append(c, [op |-> op, atom |-> a])
           v == IF w = NULL THEN new ELSE InsertCondition(w, new, op)
<1>1. IsConds(c) /\ (w = NULL \/ IsTree(w))
  BY DEF Conditioned
<1>2. IsTree(new)
  BY SingleIsTree
<1>3. IsTree(v)
  <2> HIDE DEF new
  <2> QED
    BY <1>1, <1>2, InsertIsTree
<1>4. v # NULL
  <2> HIDE DEF v
  <2> QED
    BY <1>3, TreeIsThere
<1>5. /\ IsConds(d) /\ Len(c) \in Nat /\ DOMAIN c = 1..Len(c) /\ Len(d) = Len(c) + 1
      /\ \A i \in 1..Len(c) : d[i] = c[i]
      /\ d[Len(c) + 1].op = op
  <2> HIDE DEF a
  <2> QED
    BY <1>1, AppendedList
<1>6. d # <<>>
  <2> HIDE DEF d
  <2> QED
    BY <1>5
<1>7. c # <<>> => d[1] = c[1]
  <2>1. c # <<>> => 1 \in 1..Len(c)
    BY <1>1, <1>5 DEF IsConds, IsList
  <2> HIDE DEF d
  <2> QED
    BY <1>5, <2>1
<1>8. c = <<>> => d[1].op = op
  <2> HIDE DEF d
  <2> QED
    BY <1>5
<1>9. ASSUME b = NULL \/ d[1].op = "and" PROVE Means(v, b, d)
  <2>1. c # <<>> => b = NULL \/ c[1].op = "and"
    BY <1>7, <1>9
  <2>2. CASE w = NULL
    <3>1. c = <<>> /\ b = NULL
      BY <2>2 DEF Conditioned
    <3>2. Means(new, NULL, Append(<<>>, [op |-> op, atom |-> a]))
      BY FirstMeans
    <3> HIDE DEF new, a
    <3> QED
      BY <2>2, <3>1, <3>2
  <2>3. CASE w # NULL /\ op = "and"
    <3>1. IsTree(w)
      BY <1>1, <2>3
    <3>2. v = InsertCondition(w, new, "and")
      BY <2>3
    <3>3. PICK p, k : /\ Ands(p, k, v) /\ Ors(p, k, k)
                      /\ \A T : Lead(p, k, T) <=> Holds(w, T)
                      /\ \A T : Holds(p[k], T) <=> a \in T
      <4> HIDE DEF v
      <4> QED
        BY <3>1, <3>2, InsertAnd
    <3>4. ASSUME NEW T
          PROVE  Holds(w, T) <=> Selects(b, T) /\ \A i \in ClausesIn(c) : HoldsFrom(c, i, T)
      BY <2>1, <2>3, ConditionedMeans
    <3> HIDE DEF v, a
    <3>5. Means(v, b, Append(c, [op |-> "and", atom |-> a]))
      BY <1>1, <3>3, <3>4, AndMeans
    <3> QED
      BY <2>3, <3>5
  <2>4. CASE w # NULL /\ op = "or"
    <3>1. c # <<>>
      BY <1>8, <1>9, <2>4 DEF Conditioned
    <3>2. Means(w, b, c)
      BY <2>1, <3>1 DEF Conditioned
    <3>3. PICK p, k, n, m :
            /\ Ands(p, k, w) /\ Ors(p, k, n) /\ LastClause(c, m)
            /\ \A T : Lead(p, k, T) <=>
                 Selects(b, T) /\ \A i \in ClausesIn(c) \ {m} : HoldsFrom(c, i, T)
            /\ \A T : Holds(p[k], T) <=> HoldsFrom(c, m, T)
      BY <3>2 DEF Means
    <3>4. v = InsertCondition(w, new, "or") /\ d = Append(c, [op |-> "or", atom |-> a])
      BY <2>4
    <3>5. PICK q : /\ Ands(q, k, v) /\ Ors(q, k, n + 1)
                   /\ \A T : Lead(q, k, T) <=> Lead(p, k, T)
                   /\ \A T : Holds(q[k], T) <=> Holds(p[k], T) \/ a \in T
      <4> HIDE DEF v
      <4> QED
        BY <3>3, <3>4, InsertOr
    <3>6. /\ LastClause(d, m) /\ ClausesIn(d) = ClausesIn(c)
          /\ \A T : HoldsFrom(d, m, T) <=> HoldsFrom(c, m, T) \/ a \in T
          /\ \A T : \A i \in ClausesIn(c) \ {m} : HoldsFrom(d, i, T) <=> HoldsFrom(c, i, T)
      <4> HIDE DEF d, a
      <4> QED
        BY <1>1, <3>3, <3>4, AppendedOr
    <3> HIDE DEF v, d, a
    <3>7. ASSUME NEW T
          PROVE  Lead(q, k, T) <=>
                   Selects(b, T) /\ \A i \in ClausesIn(d) \ {m} : HoldsFrom(d, i, T)
      <4>1. Lead(q, k, T) <=> Lead(p, k, T)
        BY <3>5
      <4>2. Lead(p, k, T) <=>
              Selects(b, T) /\ \A i \in ClausesIn(c) \ {m} : HoldsFrom(c, i, T)
        BY <3>3
      <4> QED
        BY <3>6, <4>1, <4>2
    <3>8. ASSUME NEW T PROVE Holds(q[k], T) <=> HoldsFrom(d, m, T)
      <4>1. Holds(q[k], T) <=> Holds(p[k], T) \/ a \in T
        BY <3>5
      <4>2. Holds(p[k], T) <=> HoldsFrom(c, m, T)
        BY <3>3
      <4> QED
        BY <3>6, <4>1, <4>2
    <3> QED
      BY <3>5, <3>6, <3>7, <3>8 DEF Means
  <2> QED
    BY <2>2, <2>3, <2>4
<1> HIDE DEF v, d
<1>10. Conditioned(v, b, d)
  BY <1>3, <1>4, <1>5, <1>6, <1>9 DEF Conditioned
<1> QED
  BY <1>10 DEF v, d

-----------------------------------------------------------------------------
(* Statements and their conditions.                                        *)

\* A join puts its condition above all of them.
LEMMA PairAnd ==
  ASSUME NEW w, IsTree(w), NEW c
  PROVE  LET v == WherePair(w, WhereSingle(c), "and")
         IN  /\ IsTree(v)
             /\ \E p, k : /\ Ands(p, k, v) /\ Ors(p, k, k)
                          /\ \A T : Lead(p, k, T) <=> Holds(w, T)
                          /\ \A T : Holds(p[k], T) <=> Atom(c) \in T
<1> DEFINE new == WhereSingle(c)
           v == WherePair(w, new, "and")
           p == [i \in 1..2 |-> IF i = 1 THEN v ELSE new]
<1>1. IsTree(new) /\ IsSingle(new) /\ new.single = c /\ ~IsPair(new)
  BY SingleIsTree, OperandsOf
<1> HIDE DEF new
<1>2. IsTree(v) /\ IsPair(v) /\ v.left = w /\ v.right = new /\ v.op = "and"
  BY <1>1, PairIsTree
<1> HIDE DEF v
<1>3. p[1] = v /\ p[2] = new
  OBVIOUS
<1> HIDE DEF p
<1>4. /\ \A i \in 1..2 : i = 1 \/ i = 2
      /\ \A i \in 1..2-1 : i = 1
      /\ \A i \in 2..2 : i = 2
      /\ \A i \in 2..2-1 : FALSE
  OBVIOUS
<1>5. \A i \in 1..2 : IsTree(p[i])
  BY <1>1, <1>2, <1>3, <1>4
<1>6. \A i \in 1..2-1 : IsPair(p[i]) /\ p[i].op = "and" /\ p[i + 1] = p[i].right
  BY <1>2, <1>3, <1>4
<1>7. Ands(p, 2, v)
  BY <1>1, <1>3, <1>5, <1>6 DEF Ands
<1>8. Ors(p, 2, 2)
  <2>1. \A i \in 2..2 : IsTree(p[i])
    BY <1>1, <1>3, <1>4
  <2> QED
    BY <1>1, <1>3, <1>4, <2>1 DEF Ors
<1>9. ASSUME NEW T PROVE Lead(p, 2, T) <=> Holds(w, T)
  <2>1. 1 \in 1..2-1
    OBVIOUS
  <2> QED
    BY <1>2, <1>3, <1>4, <2>1 DEF Lead
<1>10. ASSUME NEW T PROVE Holds(p[2], T) <=> Atom(c) \in T
  BY <1>1, <1>3, HoldsUnfolds
<1> QED
  BY <1>2, <1>7, <1>8, <1>9, <1>10 DEF v, new

\* sql_statement_append_tablejoin, likewise.
LEMMA JoinConditioned ==
  ASSUME NullIsNoWhere, NEW w, NEW b, NEW c, Conditioned(w, b, c), NEW x
  PROVE  LET new == WhereSingle(x)
         IN  Conditioned(IF w = NULL THEN new ELSE WherePair(w, new, "and"), b,
                         Append(c, [op |-> "and", atom |-> Atom(x)]))
<1> DEFINE new == WhereSingle(x)
           a == Atom(x)
           d == Append(c, [op |-> "and", atom |-> a])
           v == IF w = NULL THEN new ELSE WherePair(w, new, "and")
<1>1. IsConds(c) /\ (w = NULL \/ IsTree(w))
  BY DEF Conditioned
<1>2. CASE w = NULL
  <2>1. Conditioned(IF w = NULL THEN new ELSE InsertCondition(w, new, "and"), b, d)
    BY AppendConditioned
  <2> QED
    BY <1>2, <2>1
<1>3. CASE w # NULL
  <2>1. IsTree(w) /\ v = WherePair(w, new, "and")
    BY <1>1, <1>3
  <2>2. IsTree(v)
    BY <2>1, PairAnd
  <2>3. PICK p, k : /\ Ands(p, k, v) /\ Ors(p, k, k)
                    /\ \A T : Lead(p, k, T) <=> Holds(w, T)
                    /\ \A T : Holds(p[k], T) <=> a \in T
    BY <2>1, PairAnd
  <2> HIDE DEF v
  <2>4. v # NULL
    BY <2>2, TreeIsThere
  <2> HIDE DEF a
  <2>5. /\ IsConds(d) /\ Len(c) \in Nat /\ DOMAIN c = 1..Len(c) /\ Len(d) = Len(c) + 1
        /\ \A i \in 1..Len(c) : d[i] = c[i]
    BY <1>1, AppendedList
  <2>6. d # <<>> /\ (c # <<>> => d[1] = c[1])
    <3>1. c # <<>> => 1 \in 1..Len(c)
      BY <1>1, <2>5 DEF IsConds, IsList
    <3> HIDE DEF d
    <3> QED
      BY <2>5, <3>1
  <2>7. ASSUME b = NULL \/ d[1].op = "and" PROVE Means(v, b, d)
    <3>1. c # <<>> => b = NULL \/ c[1].op = "and"
      BY <2>6, <2>7
    <3>2. ASSUME NEW T
          PROVE  Holds(w, T) <=> Selects(b, T) /\ \A i \in ClausesIn(c) : HoldsFrom(c, i, T)
      BY <1>3, <3>1, ConditionedMeans
    <3> QED
      BY <1>1, <2>3, <3>2, AndMeans
  <2> HIDE DEF d
  <2>8. Conditioned(v, b, d)
    BY <2>2, <2>4, <2>5, <2>6, <2>7 DEF Conditioned
  <2> QED
    BY <2>8 DEF v, d, a
<1> QED
  BY <1>2, <1>3

\* The conditions of an object's statement: a select's are those appended to
\* what it was parsed to, nothing is appended to another statement.
Selecting(s) == s # NULL /\ s.type = "SQL_select"
ClauseObject(o, b, c) ==
  IF Selecting(o.statement) THEN Conditioned(o.statement.statement.where, b, c)
  ELSE c = <<>> /\ o.tablelist = <<>>

\* The conditions of a select are its WHERE.
LEMMA WhereOfSelect ==
  ASSUME NEW s, Selecting(s)
  PROVE  WhereOf(s) = s.statement.where
BY DEF Selecting, WhereOf

\* Nothing has been appended to a tree yet.
LEMMA NoConditions ==
  ASSUME NEW w, w = NULL \/ IsTree(w)
  PROVE  Conditioned(w, w, <<>>)
BY EmptyIsList DEF Conditioned, IsConds

\* A condition is appended to a statement.
LEMMA AppendWhereClause ==
  ASSUME NullIsNoTree, NullIsNoWhere, NEW s, IsStatement(s), Selecting(s), NEW b, NEW c,
         Conditioned(s.statement.where, b, c),
         NEW l, NEW r, NEW op \in {"and", "or"}, NEW condop
  PROVE  LET t == AppendWhere(s, l, r, op, condop)
         IN  /\ Selecting(t)
             /\ Conditioned(t.statement.where, b,
                  Append(c, [op |-> op, atom |-> Atom(WhereCondition(l, r, condop))]))
<1>1. PICK type, x : s = StatementBuild(type, x) /\ (type = "SQL_select" => IsSelect(x))
  BY DEF IsStatement
<1>2. type = "SQL_select" /\ s.statement = x
  BY <1>1 DEF Selecting, StatementBuild
<1>3. PICK d, fs, from, w, o, g : x = SelectBuild(d, fs, from, w, o, g)
  BY <1>1, <1>2 DEF IsSelect
<1> DEFINE cc == WhereCondition(l, r, condop)
           new == WhereSingle(cc)
           where == IF w = NULL THEN new ELSE InsertCondition(w, new, op)
           t == AppendWhere(s, l, r, op, condop)
<1>4. s.statement.where = w
  BY <1>2, <1>3 DEF SelectBuild
<1>5. t = StatementBuild(type, SelectBuild(d, fs, from, where, o, g))
  <2>1. t = [s EXCEPT !.statement.where = IF @ = NULL THEN new ELSE InsertCondition(@, new, op)]
    BY DEF AppendWhere
  <2>2. t = [s EXCEPT !.statement.where = where]
    BY <1>4, <2>1
  <2> HIDE DEF t, where
  <2> QED
    BY <1>1, <1>3, <2>2 DEF StatementBuild, SelectBuild
<1> HIDE DEF cc
<1>6. Conditioned(where, b, Append(c, [op |-> op, atom |-> Atom(cc)]))
  BY <1>4, AppendConditioned
<1> HIDE DEF where, t
<1>7. t.type = "SQL_select" /\ t.statement.where = where
  BY <1>2, <1>5 DEF StatementBuild, SelectBuild
<1>8. t # NULL
  BY <1>5 DEF NullIsNoTree
<1> QED
  BY <1>6, <1>7, <1>8 DEF Selecting, t, cc

\* A table is joined to one.
LEMMA AppendJoinClause ==
  ASSUME NullIsNoTree, NullIsNoWhere, NEW s, IsStatement(s), Selecting(s), NEW b, NEW c,
         Conditioned(s.statement.where, b, c),
         NEW lt, NEW rt, NEW lf, NEW rf
  PROVE  LET t == AppendTableJoin(s, lt, rt, lf, rf)
         IN  /\ Selecting(t)
             /\ Conditioned(t.statement.where, b,
                  Append(c, [op |-> "and", atom |-> Equals(<<lt, ".", lf>>, <<rt, ".", rf>>)]))
<1>1. PICK type, x : s = StatementBuild(type, x) /\ (type = "SQL_select" => IsSelect(x))
  BY DEF IsStatement
<1>2. type = "SQL_select" /\ s.statement = x
  BY <1>1 DEF Selecting, StatementBuild
<1>3. PICK d, fs, from, w, o, g : x = SelectBuild(d, fs, from, w, o, g)
  BY <1>1, <1>2 DEF IsSelect
<1> DEFINE cc == Condition(NamedField(<<<<lt, ".", lf>>>>),
                           NamedField(<<<<rt, ".", rf>>>>), "=")
           new == WhereSingle(cc)
           where == IF w = NULL THEN new ELSE WherePair(w, new, "and")
           tables == Append(from, TableBuild(rt))
           t == AppendTableJoin(s, lt, rt, lf, rf)
<1>4. s.statement.where = w
  BY <1>2, <1>3 DEF SelectBuild
<1>5. t = StatementBuild(type, SelectBuild(d, fs, tables, where, o, g))
  <2>1. t = [s EXCEPT !.statement.from = Append(@, TableBuild(rt)), !.statement.where = where]
    BY <1>4 DEF AppendTableJoin
  <2>2. s.statement.from = from
    BY <1>2, <1>3 DEF SelectBuild
  <2>3. t = [s EXCEPT !.statement.from = tables, !.statement.where = where]
    <3> HIDE DEF t, where
    <3> QED
      BY <1>1, <1>2, <2>1, <2>2 DEF StatementBuild
  <2> HIDE DEF t, where, tables
  <2> QED
    BY <1>1, <1>3, <2>3 DEF StatementBuild, SelectBuild
<1>6. Equals(<<lt, ".", lf>>, <<rt, ".", rf>>) = Atom(cc)
  BY DEF Equals
<1> HIDE DEF cc
<1>7. Conditioned(where, b, Append(c, [op |-> "and", atom |-> Atom(cc)]))
  BY <1>4, JoinConditioned
<1> HIDE DEF where, t
<1>8. t.type = "SQL_select" /\ t.statement.where = where
  BY <1>2, <1>5 DEF StatementBuild, SelectBuild
<1>9. t # NULL
  BY <1>5 DEF NullIsNoTree
<1> QED
  BY <1>6, <1>7, <1>8, <1>9 DEF Selecting, t

-----------------------------------------------------------------------------
(* The conditions that loading by others appends.                          *)

\* Every source is on one of its rows.
OnRows(sources) == \A n \in Source : sources[n].row \in DOMAIN SourceOf[n].rows

\* What holds throughout a call that loads an object whose statement is a select.
ClauseProgress(p, b) ==
  /\ IsProgress(p) /\ OnRows(p.src) /\ Selecting(p.o.statement)
  /\ Conditioned(p.o.statement.statement.where, b, p.conds)

\* One source and one table add one condition, or none.
LEMMA AddLoadByClause ==
  ASSUME NullIsNoTree, NullIsNoWhere, NEW p, NEW b, ClauseProgress(p, b),
         NEW n \in Source, NEW table
  PROVE  ClauseProgress(AddLoadBy(p, n, table), b)
<1> DEFINE row == SourceOf[n].rows[p.src[n].row]
           q == Related(p, n)
           found == RefFind(q.o.reflist, q.src[n], table)
           w == Joining(found, row.values)
<1>1. IsProgress(p) /\ OnRows(p.src) /\ Selecting(p.o.statement)
      /\ Conditioned(p.o.statement.statement.where, b, p.conds)
  BY DEF ClauseProgress
<1>2. CASE p.src[n].firsttable = table /\ p.pass = 0
  <2>1. AddLoadBy(p, n, table) = ByItself(p, row)
    BY <1>2 DEF AddLoadBy
  <2> DEFINE z == ByItself(p, row)
  <2>2. /\ IsProgress(z) /\ z.o.statement = p.o.statement
        /\ z.src = p.src /\ z.conds = p.conds
    BY <1>1, <1>2, ByItselfProgress
  <2> HIDE DEF z
  <2> QED
    BY <1>1, <2>1, <2>2 DEF ClauseProgress, z
<1>3. CASE ~(p.src[n].firsttable = table /\ p.pass = 0)
  <2>1. AddLoadBy(p, n, table) = AddWhere(q, w, row.values)
    BY <1>3 DEF AddLoadBy, AddRelated
  <2> HIDE DEF row
  <2>3. w # NULL => w[2] # NULL
    BY JoiningReads
  <2>4. /\ IsProgress(q) /\ q.o.statement = p.o.statement /\ q.conds = p.conds
        /\ \A m \in Source : q.src[m].row = p.src[m].row
    <3>1. /\ IsProgress(q) /\ q.o.statement = p.o.statement /\ q.conds = p.conds
          /\ StaysOn(q.src, p.src)
      BY <1>1, RelatedProgress
    <3> HIDE DEF q
    <3>2. \A m \in Source : q.src[m].row = p.src[m].row
      BY <3>1, StaysOnRow
    <3> QED
      BY <3>1, <3>2
  <2> HIDE DEF q
  <2>5. ClauseProgress(q, b)
    BY <1>1, <2>4 DEF ClauseProgress, OnRows
  <2>6. CASE w = NULL
    BY <2>1, <2>5, <2>6 DEF AddWhere
  <2>7. CASE w # NULL
    <3> DEFINE left == w[1]
               right == w[2]
               z == ByReference(q, left, right, row.values)
    <3>1. AddLoadBy(p, n, table) = z
      BY <2>1, <2>7 DEF AddWhere
    <3>2. IsProgress(AddLoadBy(p, n, table))
      BY <1>1, AddLoadByProgress
    <3>3. IsProgress(z)
      BY <3>1, <3>2
    <3>5. right # NULL
      BY <2>3, <2>7
    <3> HIDE DEF w, left, right
    <3>6. /\ z.src = q.src
          /\ z.o.statement = AppendWhere(q.o.statement, left, right, "and", "=")
          /\ z.conds = Append(q.conds, [op |-> "and", atom |-> Equals(left, right)])
      <4> DEFINE values == row.values
                 v == Promise(q, right, values)
      <4>1. IsProgress(q)
        BY <2>4
      <4> HIDE DEF values
      <4>2. /\ z.src = q.src
            /\ z.o.statement = AppendWhere(q.o.statement, left, right, "and", "=")
            /\ z.conds = Append(q.conds, [op |-> "and", atom |-> Equals(left, right)])
            /\ Belong(q.loaded) /\ (\E r \in Known : Connects(r, left, v))
                 => Belong(z.loaded)
        BY <4>1, ByReferenceProgress DEF values
      <4> HIDE DEF z, v
      <4> QED
        BY <4>2
    <3>7. Equals(left, right) = Atom(WhereCondition(left, right, "="))
      BY <3>5 DEF Equals, WhereCondition
    <3> HIDE DEF z
    <3>8. Selecting(z.o.statement) /\ Conditioned(z.o.statement.statement.where, b, z.conds)
      <4> DEFINE s == q.o.statement
      <4>1. IsStatement(s) /\ Selecting(s) /\ Conditioned(s.statement.where, b, q.conds)
        BY <2>5 DEF ClauseProgress, IsProgress, IsObject
      <4> HIDE DEF s
      <4> DEFINE t == AppendWhere(s, left, right, "and", "=")
      <4>2. /\ Selecting(t)
            /\ Conditioned(t.statement.where, b,
                 Append(q.conds, [op |-> "and", atom |-> Atom(WhereCondition(left, right, "="))]))
        BY <4>1, AppendWhereClause
      <4>3. z.o.statement = t
        BY <3>6 DEF s
      <4> HIDE DEF t
      <4> QED
        BY <3>6, <3>7, <4>2, <4>3
    <3>9. OnRows(z.src)
      BY <2>5, <3>6 DEF ClauseProgress
    <3> QED
      BY <3>1, <3>3, <3>8, <3>9 DEF ClauseProgress
  <2> QED
    BY <2>6, <2>7
<1> QED
  BY <1>2, <1>3

\* Every source, for one table.
LEMMA WithTableClause ==
  ASSUME NullIsNoTree, NullIsNoWhere, NEW p, NEW b, ClauseProgress(p, b), NEW table,
         NEW srcs \in Seq(Source)
  PROVE  ClauseProgress(WithTable(p, table, srcs), b)
<1> DEFINE N == Len(srcs)
<1>1. PICK h : /\ h[0] = p /\ h[N] = WithTable(p, table, srcs)
               /\ \A k \in 1..N : h[k] = AddLoadBy(h[k - 1], srcs[k], table)
  BY WithTableSteps
<1>2. N \in Nat
  OBVIOUS
<1>3. ASSUME NEW k \in 1..N, ClauseProgress(h[k - 1], b) PROVE ClauseProgress(h[k], b)
  <2>1. srcs[k] \in Source
    OBVIOUS
  <2> QED
    BY <1>1, <1>3, <2>1, AddLoadByClause
<1> HIDE DEF N
<1> DEFINE U == {m \in Nat : m \in 0..N => ClauseProgress(h[m], b)}
<1>4. 0 \in U
  BY <1>1
<1>5. ASSUME NEW m \in Nat, m \in U PROVE m + 1 \in U
  <2>1. m + 1 \in 0..N => m \in 0..N /\ m + 1 \in 1..N /\ (m + 1) - 1 = m
    BY <1>2
  <2> QED
    BY <1>3, <1>5, <2>1
<1> HIDE DEF U
<1>6. N \in U
  BY <1>2, <1>4, <1>5, NatSetInduction
<1> QED
  BY <1>1, <1>2, <1>6 DEF U

\* Every source, for every table of the object.
LEMMA AllSourcesClause ==
  ASSUME NullIsNoTree, NullIsNoWhere, NEW o, NEW b, ClauseProgress(Progress(o), b),
         NEW srcs \in Seq(Source)
  PROVE  ClauseProgress(AllSources(o, srcs), b)
<1> DEFINE N == Len(o.tablelist)
<1>1. IsList(o.tablelist)
  <2>1. Progress(o).o = o
    BY DEF Progress
  <2> QED
    BY <2>1 DEF ClauseProgress, IsProgress, IsObject
<1>2. PICK h : /\ h[0] = Progress(o) /\ h[N] = AllSources(o, srcs)
               /\ \A k \in 1..N : h[k] = WithTable(h[k - 1], o.tablelist[k], srcs)
  BY <1>1, AllSourcesSteps
<1>3. N \in Nat
  BY <1>1, ListLength
<1>4. ASSUME NEW k \in 1..N, ClauseProgress(h[k - 1], b) PROVE ClauseProgress(h[k], b)
  BY <1>2, <1>4, WithTableClause
<1> HIDE DEF N
<1> DEFINE U == {m \in Nat : m \in 0..N => ClauseProgress(h[m], b)}
<1>5. 0 \in U
  BY <1>2
<1>6. ASSUME NEW m \in Nat, m \in U PROVE m + 1 \in U
  <2>1. m + 1 \in 0..N => m \in 0..N /\ m + 1 \in 1..N /\ (m + 1) - 1 = m
    BY <1>3
  <2> QED
    BY <1>4, <1>6, <2>1
<1> HIDE DEF U
<1>7. N \in U
  BY <1>3, <1>5, <1>6, NatSetInduction
<1> QED
  BY <1>2, <1>3, <1>7 DEF U

-----------------------------------------------------------------------------
(* The calls, and the conditions.                                          *)

\* Conditions of a statement that was parsed are a tree.
LEMMA ParsedHasTree ==
  ASSUME NEW text, NEW s \in Parsed(text), Selecting(s)
  PROVE  s.statement.where = NULL \/ IsTree(s.statement.where)
<1> DEFINE tree == SqlParse(text)
<1>1. tree # NULL => IsStatement(tree)
  BY ParseIsStatement
<1>2. /\ tree # NULL /\ tree.type = "SQL_select"
      /\ s = tree \/ s = [tree EXCEPT !.statement = Zeroed(tree.statement)]
  <2>1. s \in Trees(tree)
    BY DEF Parsed
  <2> HIDE DEF tree
  <2> QED
    BY <2>1 DEF Trees, Selecting
<1>3. HasTree(tree.statement)
  BY <1>2, ParseHasTree
<1> HIDE DEF tree
<1>4. PICK type, x : tree = StatementBuild(type, x) /\ (type = "SQL_select" => IsSelect(x))
  BY <1>1, <1>2 DEF IsStatement
<1>5. IsSelect(x) /\ tree.statement = x
  BY <1>2, <1>4 DEF StatementBuild
<1>6. PICK d, fs, from, w, o, g : x = SelectBuild(d, fs, from, w, o, g)
  BY <1>5 DEF IsSelect
<1>7. Zeroed(x).where = x.where
  BY <1>6 DEF Zeroed, ZeroedFrom, SelectBuild
<1>8. s.statement = x \/ s.statement = Zeroed(x)
  BY <1>2, <1>4, <1>5 DEF StatementBuild
<1> QED
  BY <1>3, <1>5, <1>7, <1>8 DEF HasTree

\* Adding a field leaves the conditions alone.
LEMMA AppendFieldWhere ==
  ASSUME NullIsNoTree, NEW s, IsStatement(s), Selecting(s), NEW table, NEW fieldname
  PROVE  LET t == AppendField(s, table, fieldname, NULL)
         IN  Selecting(t) /\ t.statement.where = s.statement.where
<1>1. PICK type, x : s = StatementBuild(type, x) /\ (type = "SQL_select" => IsSelect(x))
  BY DEF IsStatement
<1>2. type = "SQL_select" /\ s.statement = x
  BY <1>1 DEF Selecting, StatementBuild
<1>3. PICK d, fs, from, w, o, g : x = SelectBuild(d, fs, from, w, o, g)
  BY <1>1, <1>2 DEF IsSelect
<1> DEFINE name == IF table = NULL THEN <<fieldname>> ELSE <<table, fieldname>>
           field == FieldSetAs(NamedField(name), NULL)
           t == AppendField(s, table, fieldname, NULL)
<1>4. t = [s EXCEPT !.statement.fields = Append(@, field)]
  BY DEF AppendField, Selecting
<1> HIDE DEF t, field
<1>5. t = StatementBuild(type, SelectBuild(d, Append(fs, field), from, w, o, g))
  BY <1>1, <1>3, <1>4 DEF StatementBuild, SelectBuild
<1>6. t.type = "SQL_select" /\ t.statement.where = s.statement.where
  BY <1>1, <1>2, <1>3, <1>5 DEF StatementBuild, SelectBuild
<1>7. t # NULL
  BY <1>5 DEF NullIsNoTree
<1> QED
  BY <1>6, <1>7 DEF Selecting, t

\* The sources are on rows they have, and the conditions of the statement are
\* those of the text and the ones appended since.
ClauseInv == QueryInv /\ OnRows(src) /\ ClauseObject(obj, base, conds)

\* The invariant holds of an object that is new.
LEMMA ClauseInit == Init => ClauseInv
<1> SUFFICES ASSUME Init PROVE ClauseInv
  OBVIOUS
<1>1. QueryInv
  BY QueryInit
<1>2. OnRows(src)
  <2>1. \A n \in Source : src[n].row = 1 /\ 1 \in DOMAIN SourceOf[n].rows
    BY SourceAssumption DEF Init
  <2> QED
    BY <2>1 DEF OnRows
<1>3. ClauseObject(obj, base, conds)
  <2>1. obj.statement = NULL /\ obj.tablelist = <<>> /\ conds = <<>>
    BY DEF Init, Object0
  <2> QED
    BY <2>1 DEF ClauseObject, Selecting
<1> QED
  BY <1>1, <1>2, <1>3 DEF ClauseInv

\* Loading by other objects appends conditions, or leaves the object blank.
LEMMA LoadByClause ==
  ASSUME NullIsNoTree, NullIsNoWhere, "fresh" \in Discipline, ClauseInv,
         NEW srcs \in SourceList, LoadBy(srcs)
  PROVE  OnRows(src') /\ ClauseObject(obj', base', conds')
<1>1. PICK s, o :
        /\ IF obj.statement = NULL THEN s \in Parsed(obj.query) ELSE s = obj.statement
        /\ IsObject(o) /\ o.statement = s /\ ~o.generatequery
        /\ obj.statement = NULL /\ (s = NULL \/ s.type # "SQL_select")
             => o.tablelist = <<>>
        /\ obj.statement # NULL => o.tablelist = obj.tablelist
        /\ loaded = <<>> /\ o.birthhash = <<>>
        /\ LoadWith(AllSources(o, srcs), IF obj.statement = NULL THEN WhereOf(s) ELSE base)
  BY LoadByStarts DEF ClauseInv
<1> DEFINE p == AllSources(o, srcs)
           where == IF obj.statement = NULL THEN WhereOf(s) ELSE base
<1>2. OnRows(src) /\ ClauseObject(obj, base, conds) /\ QueryInv
  BY DEF ClauseInv
<1>3. \/ p.pass = 0 /\ IsObject(p.o) /\ OnRows(p.src)
      \/ ClauseProgress(p, where)
  <2>1. CASE ~Selecting(s)
    <3>1. o.tablelist = <<>>
      BY <1>1, <1>2, <2>1 DEF Selecting, ClauseObject
    <3>2. p = Progress(o)
      BY <3>1, NoTables
    <3> HIDE DEF p
    <3>3. p.pass = 0 /\ p.o = o /\ p.src = src
      BY <3>2 DEF Progress
    <3> QED
      BY <1>1, <1>2, <3>3
  <2>2. CASE Selecting(s)
    <3>1. Conditioned(s.statement.where, where, conds)
      <4>1. CASE obj.statement = NULL
        <5>1. conds = <<>>
          BY <1>2, <4>1 DEF ClauseObject, Selecting
        <5>2. s.statement.where = NULL \/ IsTree(s.statement.where)
          BY <1>1, <2>2, <4>1, ParsedHasTree
        <5>3. where = s.statement.where
          BY <2>2, <4>1, WhereOfSelect
        <5> QED
          BY <5>1, <5>2, <5>3, NoConditions
      <4>2. CASE obj.statement # NULL
        BY <1>1, <1>2, <2>2, <4>2 DEF ClauseObject
      <4> QED
        BY <4>1, <4>2
    <3> HIDE DEF where
    <3>2. ClauseProgress(Progress(o), where)
      <4> DEFINE q == Progress(o)
      <4>1. IsProgress(q)
        BY <1>1, <1>2, <2>2, ProgressStarts DEF Selecting
      <4>2. q.o = o /\ q.src = src /\ q.conds = conds
        BY DEF Progress
      <4> HIDE DEF q
      <4>3. ClauseProgress(q, where)
        BY <1>1, <1>2, <2>2, <3>1, <4>1, <4>2 DEF ClauseProgress
      <4> QED
        BY <4>3 DEF q
    <3>3. srcs \in Seq(Source)
      BY SourceAssumption
    <3> QED
      BY <3>2, <3>3, AllSourcesClause
  <2> QED
    BY <2>1, <2>2
<1>4. LoadWith(p, where)
  BY <1>1
<1> HIDE DEF p, where
<1>5. CASE p.fault # NULL /\ Crash(p.fault)
  BY <1>2, <1>5 DEF Crash
<1>6. CASE /\ p.fault = NULL /\ p.pass > 0 /\ obj' = p.o /\ conds' = p.conds
           /\ base' = where /\ src' = p.src
  BY <1>3, <1>6 DEF ClauseProgress, ClauseObject
<1>7. CASE /\ p.fault = NULL /\ p.pass = 0 /\ obj' = [Clear(p.o) EXCEPT !.query = p.o.query]
           /\ base' = NULL /\ conds' = <<>> /\ src' = p.src
  <2>1. IsObject(p.o) /\ OnRows(p.src)
    BY <1>3 DEF ClauseProgress, IsProgress
  <2>2. obj'.statement = NULL /\ obj'.tablelist = <<>>
    BY <1>7, <2>1, ClearIsObject
  <2> QED
    BY <1>7, <2>1, <2>2 DEF ClauseObject, Selecting
<1> QED
  BY <1>4, <1>5, <1>6, <1>7 DEF LoadWith

\* Every call keeps the invariant.
LEMMA ClauseStep ==
  ASSUME NullIsNoTree, NullIsNoWhere, "fresh" \in Discipline, ClauseInv, [Next]_vars
  PROVE  ClauseInv'
<1>1. QueryInv'
  BY QueryStep DEF ClauseInv
<1>2. QueryInv /\ IsObject(obj) /\ OnRows(src) /\ ClauseObject(obj, base, conds)
  BY DEF ClauseInv, QueryInv
<1>3. obj.statement # NULL => IsStatement(obj.statement)
  BY <1>2 DEF IsObject
<1> DEFINE Goal == OnRows(src') /\ ClauseObject(obj', base', conds')
<1> SUFFICES Goal
  BY <1>1 DEF ClauseInv
<1>4. ASSUME obj'.statement = obj.statement, obj'.tablelist = obj.tablelist,
             base' = base, conds' = conds
      PROVE  ClauseObject(obj', base', conds')
  BY <1>2, <1>4 DEF ClauseObject
<1>5. ASSUME NEW text, Sql(text) PROVE Goal
  <2>1. obj'.statement = NULL /\ obj'.tablelist = <<>>
    BY <1>2, <1>5, ClearIsObject DEF Sql
  <2> QED
    BY <1>2, <1>5, <2>1 DEF Sql, ClauseObject, Selecting
<1>6. CASE Parse
  <2>1. PICK s \in Parsed(obj.query) :
          obj' = ParseProper(obj, s) /\ base' = WhereOf(s) /\ conds' = <<>>
    BY <1>6 DEF Parse
  <2>2. s # NULL => IsStatement(s)
    BY ParsedIsStatement
  <2>3. /\ obj'.statement = s
        /\ s = NULL \/ s.type # "SQL_select" => obj'.tablelist = <<>>
    BY <1>2, <2>1, <2>2, ParseProperIsObject
  <2>4. CASE Selecting(s)
    <3>1. s.statement.where = NULL \/ IsTree(s.statement.where)
      BY <2>4, ParsedHasTree
    <3>2. WhereOf(s) = s.statement.where
      BY <2>4, WhereOfSelect
    <3>3. Conditioned(s.statement.where, base', conds')
      BY <2>1, <3>1, <3>2, NoConditions
    <3> QED
      BY <1>2, <1>6, <2>3, <2>4, <3>3 DEF Parse, ClauseObject
  <2>5. CASE ~Selecting(s)
    BY <1>2, <1>6, <2>1, <2>3, <2>5 DEF Parse, ClauseObject, Selecting
  <2> QED
    BY <2>4, <2>5
<1>7. CASE Run
  <2> DEFINE o == InternalQuery(obj)
             text == SqlStringify(obj.statement)
             c == Columns(SqlParse(o.query))
  <2>1. obj' = [o EXCEPT !.position = c]
    BY <1>7 DEF Run
  <2>2. IsObject(o) /\ o.statement = obj.statement /\ o.tablelist = obj.tablelist
    <3>1. CASE obj.generatequery
      <4>1. o = [obj EXCEPT !.query = text]
        BY <3>1 DEF InternalQuery
      <4> HIDE DEF o, text
      <4> QED
        BY <1>2, <4>1, QueryIsObject
    <3>2. CASE ~obj.generatequery
      BY <1>2, <3>2 DEF InternalQuery
    <3> QED
      BY <3>1, <3>2
  <2>3. IsPosition(c)
    BY ColumnsArePositions
  <2> HIDE DEF o, c
  <2>4. obj'.statement = obj.statement /\ obj'.tablelist = obj.tablelist
    BY <2>1, <2>2, <2>3, PositionIsObject
  <2>5. base' = base /\ conds' = conds /\ src' = src
    BY <1>7 DEF Run
  <2> QED
    BY <1>2, <1>4, <2>4, <2>5
<1>8. ASSUME NEW what, Crash(what) PROVE Goal
  BY <1>2, <1>8 DEF Crash
<1>9. ASSUME NEW l, NEW r, NEW op \in {"and", "or"}, NEW condop,
             AppendCondition(l, r, op, condop)
      PROVE  Goal
  <2>1. CASE Crash("negation")
    BY <1>8, <2>1
  <2>2. CASE ~Crash("negation")
    <3> DEFINE s == AppendWhere(obj.statement, l, r, op, condop)
               d == Append(conds, [op |-> op, atom |-> Atom(WhereCondition(l, r, condop))])
    <3>1. /\ obj' = [obj EXCEPT !.statement = s] /\ conds' = d
          /\ base' = base /\ src' = src
      BY <1>9, <2>2 DEF AppendCondition
    <3>2. Selecting(obj.statement)
      BY <1>9 DEF AppendCondition, Extendable, Selecting
    <3>3. Conditioned(obj.statement.statement.where, base, conds)
      BY <1>2, <3>2 DEF ClauseObject
    <3>4. Selecting(s) /\ Conditioned(s.statement.where, base, d)
      BY <1>3, <3>2, <3>3, AppendWhereClause DEF Selecting
    <3>5. IsStatement(s)
      BY <1>3, <3>2, AppendWhereIsStatement DEF Selecting
    <3> HIDE DEF s, d
    <3>6. obj'.statement = s
      BY <1>2, <3>1, <3>5, StatementIsObject
    <3> QED
      BY <1>2, <3>1, <3>4, <3>6 DEF ClauseObject
  <2> QED
    BY <2>1, <2>2
<1>10. ASSUME NEW lt, NEW rt, NEW lf, NEW rf, AppendJoin(lt, rt, lf, rf)
       PROVE  Goal
  <2> DEFINE s == AppendTableJoin(obj.statement, lt, rt, lf, rf)
             d == Append(conds, [op |-> "and",
                    atom |-> Equals(<<lt, ".", lf>>, <<rt, ".", rf>>)])
  <2>1. /\ obj' = [obj EXCEPT !.statement = s] /\ conds' = d
        /\ base' = base /\ src' = src
    BY <1>10 DEF AppendJoin
  <2>2. Selecting(obj.statement)
    BY <1>10 DEF AppendJoin, Extendable, Selecting
  <2>3. Conditioned(obj.statement.statement.where, base, conds)
    BY <1>2, <2>2 DEF ClauseObject
  <2>4. Selecting(s) /\ Conditioned(s.statement.where, base, d)
    BY <1>3, <2>2, <2>3, AppendJoinClause DEF Selecting
  <2>5. IsStatement(s)
    BY <1>3, <2>2, AppendTableJoinIsStatement DEF Selecting
  <2> HIDE DEF s, d
  <2>6. obj'.statement = s
    BY <1>2, <2>1, <2>5, StatementIsObject
  <2> QED
    BY <1>2, <2>1, <2>4, <2>6 DEF ClauseObject
<1>11. ASSUME NEW fieldname, NEW tablename, AddFieldTable(fieldname, tablename)
       PROVE  Goal
  <2> DEFINE s == obj.statement
             s1 == IF Contains(GetTables(s), tablename) THEN s
                   ELSE AppendField(s, <<tablename>>, <<"oid">>, NULL)
             s2 == AppendField(s1, <<tablename>>, <<fieldname>>, NULL)
             text == SqlStringify(s2)
  <2>1. /\ obj' = [obj EXCEPT !.statement = s2, !.query = text]
        /\ base' = base /\ conds' = conds /\ src' = src
    BY <1>11 DEF AddFieldTable
  <2>2. IsStatement(s) /\ Selecting(s)
    BY <1>3, <1>11 DEF AddFieldTable, Selecting
  <2>3. IsStatement(s1) /\ Selecting(s1) /\ s1.statement.where = s.statement.where
    BY <2>2, AppendFieldIsStatement, AppendFieldWhere
  <2> HIDE DEF s1
  <2>4. IsStatement(s2) /\ Selecting(s2) /\ s2.statement.where = s.statement.where
    BY <2>3, AppendFieldIsStatement, AppendFieldWhere
  <2> HIDE DEF s2, text
  <2> DEFINE o == [obj EXCEPT !.statement = s2]
  <2>5. IsObject(o) /\ o.statement = s2
    BY <1>2, <2>4, StatementIsObject
  <2>6. obj' = [o EXCEPT !.query = text]
    BY <2>1
  <2> HIDE DEF o
  <2>7. obj'.statement = s2
    BY <2>5, <2>6, QueryIsObject
  <2> QED
    BY <1>2, <2>1, <2>2, <2>4, <2>7 DEF ClauseObject
<1>12. ASSUME NEW srcs \in SourceList, LoadBy(srcs) PROVE Goal
  BY <1>12, LoadByClause
<1>13. ASSUME NEW n \in Source, NEW row, Moveto(n, row) PROVE Goal
  <2>1. /\ src' = [src EXCEPT ![n].row = row] /\ row \in DOMAIN SourceOf[n].rows
        /\ obj' = obj /\ base' = base /\ conds' = conds
    BY <1>13 DEF Moveto
  <2>2. ASSUME NEW m \in Source PROVE src'[m].row \in DOMAIN SourceOf[m].rows
    <3>1. src[m] = [row |-> src[m].row, firsttable |-> src[m].firsttable,
                    tablelist |-> src[m].tablelist, reflist |-> src[m].reflist]
          /\ src = [k \in Source |-> src[k]]
      BY <1>2 DEF QueryInv, IsSources, IsSource
    <3>2. CASE m = n
      <4> DEFINE x == [src[n] EXCEPT !.row = row]
      <4>1. src'[m] = x
        BY <2>1, <3>1, <3>2
      <4>2. x.row = row
        BY <3>1, <3>2
      <4> HIDE DEF x
      <4> QED
        BY <2>1, <3>2, <4>1, <4>2
    <3>3. CASE m # n
      <4>1. src'[m] = src[m]
        BY <2>1, <3>1, <3>3
      <4> QED
        BY <1>2, <4>1 DEF OnRows
    <3> QED
      BY <3>2, <3>3
  <2>3. OnRows(src')
    BY <2>2 DEF OnRows
  <2> QED
    BY <1>4, <2>1, <2>3
<1>14. ASSUME NEW r \in Given, RefAdd(r) PROVE Goal
  <2> DEFINE l == <<ReferenceNew(r, obj.position)>> \o obj.reflist
  <2>1. /\ obj' = [obj EXCEPT !.reflist = l] /\ src' = src
        /\ base' = base /\ conds' = conds
    BY <1>14 DEF RefAdd
  <2>2. l \in Seq(Told)
    <3>1. ReferenceNew(r, obj.position) \in Told
      BY <1>2, ReferenceNewTold DEF Known, IsObject
    <3> QED
      BY <1>2, <3>1 DEF IsObject
  <2> HIDE DEF l
  <2>3. obj'.statement = obj.statement /\ obj'.tablelist = obj.tablelist
    BY <1>2, <2>1, <2>2, ReflistIsObject
  <2> QED
    BY <1>2, <1>4, <2>1, <2>3
<1>15. CASE UNCHANGED vars
  BY <1>2, <1>15 DEF vars
<1> QED
  BY <1>5, <1>6, <1>7, <1>8, <1>9, <1>10, <1>11, <1>12, <1>13, <1>14, <1>15
  DEF Next, TouchGarbage

\* What the invariant says of a statement is what ClauseForm does.
LEMMA ClauseInvForm ==
  ASSUME ClauseInv
  PROVE  ClauseForm
<1>1. SUFFICES ASSUME conds # <<>>, obj.statement # NULL,
                      base = NULL \/ conds[1].op = "and", NEW T
               PROVE  Selects(WhereOf(obj.statement), T) =
                        (Selects(base, T) /\ \A i \in Clauses : ClauseHolds(i, T))
  BY Zenon DEF ClauseForm
<1> DEFINE w == obj.statement.statement.where
<1>2. Selecting(obj.statement) /\ Conditioned(w, base, conds)
  BY <1>1 DEF ClauseInv, ClauseObject
<1>3. w # NULL /\ IsTree(w)
  BY <1>1, <1>2 DEF Conditioned
<1>4. WhereOf(obj.statement) = w
  BY <1>2, WhereOfSelect
<1> HIDE DEF w
<1>5. Selects(w, T) = Holds(w, T) /\ Holds(w, T) \in BOOLEAN
  BY <1>3, HoldsIsBoolean DEF Selects
<1>6. Clauses = ClausesIn(conds) /\ \A i : ClauseHolds(i, T) <=> HoldsFrom(conds, i, T)
  BY DEF Clauses, ClausesIn, ClauseHolds, HoldsFrom
<1>7. Holds(w, T) <=> Selects(base, T) /\ \A i \in ClausesIn(conds) : HoldsFrom(conds, i, T)
  BY <1>1, <1>2, <1>3, ConditionedMeans
<1>8. Holds(w, T) <=> Selects(base, T) /\ \A i \in Clauses : ClauseHolds(i, T)
  BY <1>6, <1>7
<1> DEFINE q == Selects(base, T) /\ \A i \in Clauses : ClauseHolds(i, T)
<1>9. q \in BOOLEAN
  BY Zenon
<1>10. Holds(w, T) = q
  BY <1>5, <1>8, <1>9, Zenon
<1> QED
  BY <1>4, <1>5, <1>10, Zenon

-----------------------------------------------------------------------------
(* The row an object is loaded by, and the rows added to it.               *)

\* Throughout a call a source stays on its row, and is of no other table.
KeepsSources(sources) == StaysOn(sources, src)

\* One source and one table promise a value of the column that is asked for.
LEMMA AddLoadByBelongs ==
  ASSUME NullIsNoTree, OnRows(src), NEW o, NEW srcs, OwnColumns(o, srcs),
         NEW p, IsProgress(p), Belong(p.loaded), KeepsSources(p.src),
         NEW n \in Source, n \in ToSet(srcs), NEW table, Contains(o.tablelist, table)
  PROVE  LET q == AddLoadBy(p, n, table)
         IN  Belong(q.loaded) /\ KeepsSources(q.src)
<1> DEFINE row == SourceOf[n].rows[p.src[n].row]
           q == Related(p, n)
           found == RefFind(q.o.reflist, q.src[n], table)
           w == Joining(found, row.values)
<1>1. CASE p.src[n].firsttable = table /\ p.pass = 0
  <2> HIDE DEF row
  <2>1. AddLoadBy(p, n, table) = ByItself(p, row)
    BY <1>1 DEF AddLoadBy, row
  <2> QED
    BY <1>1, <2>1, ByItselfProgress
<1>2. CASE ~(p.src[n].firsttable = table /\ p.pass = 0)
  <2>1. AddLoadBy(p, n, table) = AddWhere(q, w, row.values)
    BY <1>2 DEF AddLoadBy, AddRelated
  <2>2. IsProgress(q) /\ q.loaded = p.loaded /\ StaysOn(q.src, p.src)
    BY RelatedProgress
  <2>3. row \in Range(SourceOf[n].rows)
    <3>1. p.src[n].row \in DOMAIN SourceOf[n].rows
      BY DEF OnRows, KeepsSources, StaysOn
    <3> QED
      BY <3>1 DEF Range
  <2> HIDE DEF q, row
  <2>4. KeepsSources(q.src) /\ Belong(q.loaded)
    <3>1. Belong(q.loaded)
      BY <2>2
    <3>2. KeepsSources(q.src)
      BY <2>2, StaysOnTransitive DEF KeepsSources
    <3> QED
      BY <3>1, <3>2
  <2>5. CASE w = NULL
    BY <2>1, <2>4, <2>5 DEF AddWhere
  <2>6. CASE w # NULL
    <3> DEFINE e == Ends(found.ref, found.onetomany)
               v == Promise(q, w[2], row.values)
    <3>1. found \in FoundSoFar /\ Fitting(found, q.src[n], table)
      <4>1. q.o.reflist \in Seq(Told) /\ q.src[n].reflist \in Seq(Told)
        BY <2>2 DEF IsProgress, IsObject, IsSources, IsSource
      <4> QED
        BY <4>1, RefFindFinds
    <3> HIDE DEF found
    <3>2. found.ref # NULL
      BY <2>6 DEF Joining
    <3>3. Contains(o.tablelist, Head(e.there)) /\ VerifyTable(src[n], Head(e.here))
      <4>1. Head(e.there) = table /\ VerifyTable(q.src[n], Head(e.here))
        BY <3>1, <3>2 DEF Fitting
      <4>2. src[n].tablelist # <<>> => q.src[n].tablelist = src[n].tablelist
        BY <2>4 DEF KeepsSources, StaysOn
      <4> HIDE DEF e
      <4> QED
        BY <4>1, <4>2 DEF VerifyTable
    <3>4. e \in {Ends(r, onetomany) : r \in Known, onetomany \in BOOLEAN}
      <4>1. Bare(found.ref) \in Known /\ found.onetomany \in BOOLEAN
        BY <3>1, <3>2 DEF FoundSoFar, Told
      <4>2. e = Ends(Bare(found.ref), found.onetomany)
        BY DEF Ends, Bare
      <4> HIDE DEF e
      <4> QED
        BY <4>1, <4>2
    <3> HIDE DEF e
    <3>5. ColumnFor(row.values, e.here) \subseteq {e.here}
      <4>1. e \in Asked(o, n)
        BY <3>3, <3>4 DEF Asked
      <4>2. \A x \in Asked(o, n), r \in Range(SourceOf[n].rows) :
              ColumnFor(r.values, x.here) \subseteq {x.here}
        BY DEF OwnColumns
      <4> QED
        BY <2>3, <4>1, <4>2
    <3>6. \E r \in Known : Connects(r, w[1], v)
      <4>1. v.row = row.values /\ v.value = w[2]
        BY DEF Promise
      <4> HIDE DEF v
      <4> QED
        BY <2>6, <3>1, <3>5, <4>1, JoiningConnects DEF e
    <3> HIDE DEF w
    <3>7. AddLoadBy(p, n, table) = ByReference(q, w[1], w[2], row.values)
      BY <2>1, <2>6 DEF AddWhere
    <3> DEFINE values == row.values
               left == w[1]
               right == w[2]
               z == ByReference(q, left, right, values)
    <3>8. IsProgress(q) /\ Belong(q.loaded) /\ \E r \in Known : Connects(r, left, v)
      BY <2>2, <2>4, <3>6
    <3> HIDE DEF values, left, right
    <3>9. z.src = q.src /\ Belong(z.loaded)
      <4>1. v = Promise(q, right, values)
        BY DEF values, right
      <4> HIDE DEF v
      <4>2. \E r \in Known : Connects(r, left, Promise(q, right, values))
        BY <3>8, <4>1
      <4>3. IsProgress(q)
        BY <2>2
      <4>4. /\ z.src = q.src
            /\ z.o.statement = AppendWhere(q.o.statement, left, right, "and", "=")
            /\ z.conds = Append(q.conds, [op |-> "and", atom |-> Equals(left, right)])
            /\ Belong(q.loaded)
               /\ (\E r \in Known : Connects(r, left, Promise(q, right, values)))
                 => Belong(z.loaded)
        BY <4>3, ByReferenceProgress
      <4> HIDE DEF z
      <4> QED
        BY <3>8, <4>2, <4>4
    <3> HIDE DEF z
    <3>10. AddLoadBy(p, n, table) = z
      BY <3>7 DEF z, values, left, right
    <3> QED
      BY <2>4, <3>9, <3>10
  <2> QED
    BY <2>5, <2>6
<1> QED
  BY <1>1, <1>2

\* And so do all sources and one table.
LEMMA WithTableBelongs ==
  ASSUME NullIsNoTree, OnRows(src), NEW o, NEW srcs \in Seq(Source), OwnColumns(o, srcs),
         NEW p, IsProgress(p), Belong(p.loaded), KeepsSources(p.src),
         NEW table, Contains(o.tablelist, table)
  PROVE  LET q == WithTable(p, table, srcs)
         IN  Belong(q.loaded) /\ KeepsSources(q.src)
<1> DEFINE N == Len(srcs)
           Good(q) == IsProgress(q) /\ Belong(q.loaded) /\ KeepsSources(q.src)
<1>1. PICK h : /\ h[0] = p /\ h[N] = WithTable(p, table, srcs)
               /\ \A k \in 1..N : h[k] = AddLoadBy(h[k - 1], srcs[k], table)
  BY WithTableSteps
<1>2. N \in Nat
  OBVIOUS
<1>3. ASSUME NEW k \in 1..N, Good(h[k - 1]) PROVE Good(h[k])
  <2> DEFINE n == srcs[k]
             before == h[k - 1]
  <2>1. n \in Source /\ n \in ToSet(srcs)
    BY DEF ToSet
  <2>2. h[k] = AddLoadBy(before, n, table)
    BY <1>1
  <2>3. IsProgress(before) /\ Belong(before.loaded) /\ KeepsSources(before.src)
    BY <1>3
  <2> HIDE DEF n, before, N
  <2>4. IsProgress(AddLoadBy(before, n, table))
    BY <2>1, <2>3, AddLoadByProgress
  <2>5. LET q == AddLoadBy(before, n, table) IN Belong(q.loaded) /\ KeepsSources(q.src)
    BY <2>1, <2>3, AddLoadByBelongs
  <2> QED
    BY <2>2, <2>4, <2>5
<1> HIDE DEF N
<1> DEFINE U == {m \in Nat : m \in 0..N => Good(h[m])}
<1> HIDE DEF Good
<1>4. 0 \in U
  BY <1>1 DEF Good
<1>5. ASSUME NEW m \in Nat, m \in U PROVE m + 1 \in U
  <2>1. m + 1 \in 0..N => m \in 0..N /\ m + 1 \in 1..N /\ (m + 1) - 1 = m
    BY <1>2
  <2> QED
    BY <1>3, <1>5, <2>1
<1> HIDE DEF U
<1>6. N \in U
  BY <1>2, <1>4, <1>5, NatSetInduction
<1> QED
  BY <1>1, <1>2, <1>6 DEF U, Good

\* And all tables of the object.
LEMMA AllSourcesBelong ==
  ASSUME NullIsNoTree, OnRows(src), NEW o, NEW srcs \in Seq(Source), OwnColumns(o, srcs),
         IsProgress(Progress(o)), loaded = <<>>
  PROVE  LET q == AllSources(o, srcs) IN Belong(q.loaded) /\ KeepsSources(q.src)
<1> DEFINE N == Len(o.tablelist)
           Good(q) == IsProgress(q) /\ Belong(q.loaded) /\ KeepsSources(q.src)
<1>1. IsList(o.tablelist)
  <2>1. Progress(o).o = o
    BY DEF Progress
  <2> QED
    BY <2>1 DEF IsProgress, IsObject
<1>2. PICK h : /\ h[0] = Progress(o) /\ h[N] = AllSources(o, srcs)
               /\ \A k \in 1..N : h[k] = WithTable(h[k - 1], o.tablelist[k], srcs)
  BY <1>1, AllSourcesSteps
<1>3. N \in Nat
  BY <1>1, ListLength
<1>4. ASSUME NEW k \in 1..N, Good(h[k - 1]) PROVE Good(h[k])
  <2> DEFINE before == h[k - 1]
             table == o.tablelist[k]
  <2>1. Contains(o.tablelist, table)
    BY <1>1 DEF Contains, IsList
  <2>2. h[k] = WithTable(before, table, srcs)
    BY <1>2
  <2>3. IsProgress(before) /\ Belong(before.loaded) /\ KeepsSources(before.src)
    BY <1>4
  <2> HIDE DEF before, table, N
  <2>4. IsProgress(WithTable(before, table, srcs))
    BY <2>3, WithTableProgress
  <2>5. LET q == WithTable(before, table, srcs) IN Belong(q.loaded) /\ KeepsSources(q.src)
    BY <2>1, <2>3, WithTableBelongs
  <2> QED
    BY <2>2, <2>4, <2>5
<1> HIDE DEF N
<1>5. Good(h[0])
  <2>1. Progress(o).loaded = <<>> /\ Progress(o).src = src
    BY DEF Progress
  <2>2. DOMAIN Progress(o).loaded = {}
    BY <2>1
  <2> QED
    BY <1>2, <2>1, <2>2 DEF Belong, KeepsSources, StaysOn
<1> DEFINE U == {m \in Nat : m \in 0..N => Good(h[m])}
<1> HIDE DEF Good
<1>6. 0 \in U
  BY <1>5
<1>7. ASSUME NEW m \in Nat, m \in U PROVE m + 1 \in U
  <2>1. m + 1 \in 0..N => m \in 0..N /\ m + 1 \in 1..N /\ (m + 1) - 1 = m
    BY <1>3
  <2> QED
    BY <1>4, <1>7, <2>1
<1> HIDE DEF U
<1>8. N \in U
  BY <1>3, <1>6, <1>7, NatSetInduction
<1> QED
  BY <1>2, <1>3, <1>8 DEF U, Good

\* Every promise is of a column that a reference connects to the row, while every
\* source is on one of its rows.
BelongInv == QueryInv /\ OnRows(src) /\ Belong(loaded)

\* The invariant holds of an object that is new.
LEMMA BelongInit == Init => BelongInv
<1> SUFFICES ASSUME Init PROVE BelongInv
  OBVIOUS
<1>1. OnRows(src)
  <2>1. \A n \in Source : src[n].row = 1 /\ 1 \in DOMAIN SourceOf[n].rows
    BY SourceAssumption DEF Init
  <2> QED
    BY <2>1 DEF OnRows
<1>2. loaded = <<>>
  BY DEF Init
<1>3. DOMAIN loaded = {}
  BY <1>2
<1> QED
  BY <1>1, <1>3, QueryInit DEF BelongInv, Belong

\* Loading by sources that have the columns they are asked for keeps it.
LEMMA LoadByBelongs ==
  ASSUME NullIsNoTree, {"fresh", "ownColumns"} \subseteq Discipline, BelongInv,
         NEW srcs \in SourceList, LoadBy(srcs)
  PROVE  OnRows(src') /\ Belong(loaded')
<1>1. QueryInv /\ OnRows(src) /\ Belong(loaded)
  BY DEF BelongInv
<1>2. PICK s, o :
        /\ IF obj.statement = NULL THEN s \in Parsed(obj.query) ELSE s = obj.statement
        /\ IsObject(o) /\ o.statement = s /\ ~o.generatequery
        /\ obj.statement = NULL /\ (s = NULL \/ s.type # "SQL_select")
             => o.tablelist = <<>>
        /\ loaded = <<>> /\ o.birthhash = <<>> /\ (s # NULL => Careful(o, srcs))
        /\ LoadWith(AllSources(o, srcs), IF obj.statement = NULL THEN WhereOf(s) ELSE base)
  BY <1>1, LoadByStarts
<1> DEFINE p == AllSources(o, srcs)
           where == IF obj.statement = NULL THEN WhereOf(s) ELSE base
<1>3. KeepsSources(p.src) /\ Belong(p.loaded)
  <2>1. CASE s = NULL
    <3>1. p = Progress(o)
      BY <1>1, <1>2, <2>1, NoTables
    <3> HIDE DEF p
    <3>2. p.src = src /\ p.loaded = loaded
      BY <3>1 DEF Progress
    <3> QED
      BY <1>1, <3>2 DEF KeepsSources, StaysOn
  <2>2. CASE s # NULL
    <3>1. IsProgress(Progress(o))
      BY <1>1, <1>2, <2>2, ProgressStarts
    <3>2. srcs \in Seq(Source)
      BY SourceAssumption
    <3>3. OwnColumns(o, srcs)
      BY <1>2, <2>2 DEF Careful
    <3> QED
      BY <1>1, <1>2, <3>1, <3>2, <3>3, AllSourcesBelong
  <2> QED
    BY <2>1, <2>2
<1>4. LoadWith(p, where)
  BY <1>2
<1> HIDE DEF p, where
<1>5. OnRows(p.src)
  BY <1>1, <1>3 DEF OnRows, KeepsSources, StaysOn
<1> QED
  BY <1>1, <1>3, <1>4, <1>5 DEF LoadWith, Crash

\* Every call keeps the invariant.
LEMMA BelongStep ==
  ASSUME NullIsNoTree, {"fresh", "ownColumns"} \subseteq Discipline, BelongInv,
         [Next]_vars
  PROVE  BelongInv'
<1>1. QueryInv /\ OnRows(src) /\ Belong(loaded)
  BY DEF BelongInv
<1>2. SUFFICES OnRows(src') /\ Belong(loaded')
  BY <1>1, QueryStep DEF BelongInv
<1>3. ASSUME loaded' = loaded, src' = src PROVE OnRows(src') /\ Belong(loaded')
  BY <1>1, <1>3
<1>4. ASSUME NEW text, Sql(text) PROVE OnRows(src') /\ Belong(loaded')
  <2>1. loaded' = <<>> /\ src' = src
    BY <1>4 DEF Sql
  <2>2. DOMAIN loaded' = {}
    BY <2>1
  <2> QED
    BY <1>1, <2>1, <2>2 DEF Belong
<1>5. ASSUME NEW n \in Source, NEW row, Moveto(n, row) PROVE OnRows(src') /\ Belong(loaded')
  <2>1. src' = [src EXCEPT ![n].row = row] /\ loaded' = loaded
        /\ row \in DOMAIN SourceOf[n].rows
    BY <1>5 DEF Moveto
  <2>2. src = [m \in Source |-> src[m]] /\ IsSource(src[n])
    BY <1>1 DEF QueryInv, IsSources
  <2>3. src' = [m \in Source |-> IF m = n THEN [src[n] EXCEPT !.row = row] ELSE src[m]]
    BY <2>1, <2>2
  <2>4. src'[n].row = row
    BY <2>2, <2>3 DEF IsSource
  <2> QED
    BY <1>1, <2>1, <2>3, <2>4 DEF OnRows
<1>6. ASSUME NEW srcs \in SourceList, LoadBy(srcs) PROVE OnRows(src') /\ Belong(loaded')
  BY <1>6, LoadByBelongs
<1>7. CASE Parse \/ Run \/ TouchGarbage
  <2>1. loaded' = loaded /\ src' = src
    BY <1>7 DEF Parse, Run, TouchGarbage, Crash
  <2> QED
    BY <1>3, <2>1
<1>8. ASSUME NEW l, NEW r, NEW op, NEW condop, AppendCondition(l, r, op, condop)
      PROVE  OnRows(src') /\ Belong(loaded')
  BY <1>3, <1>8 DEF AppendCondition, Crash
<1>9. ASSUME NEW lt, NEW rt, NEW lf, NEW rf, AppendJoin(lt, rt, lf, rf)
      PROVE  OnRows(src') /\ Belong(loaded')
  BY <1>3, <1>9 DEF AppendJoin
<1>10. ASSUME NEW fieldname, NEW tablename, AddFieldTable(fieldname, tablename)
       PROVE  OnRows(src') /\ Belong(loaded')
  BY <1>3, <1>10 DEF AddFieldTable
<1>11. ASSUME NEW r \in Given, RefAdd(r) PROVE OnRows(src') /\ Belong(loaded')
  BY <1>3, <1>11 DEF RefAdd
<1>12. CASE UNCHANGED vars
  BY <1>3, <1>12 DEF vars
<1> QED
  BY <1>4, <1>5, <1>6, <1>7, <1>8, <1>9, <1>10, <1>11, <1>12
  DEF Next

-----------------------------------------------------------------------------

\* bonddb_sql_internal_query generates a query only from a statement: an object
\* that is marked for it, whatever cleared or parsed it since, has one.
THEOREM GenerableHolds ==
  ASSUME NullIsNoTree, "fresh" \in Discipline
  PROVE  Spec => []Generable
<1>1. QueryInv => Generable
  BY DEF QueryInv, Generable
<1> QED
  BY <1>1, QueryInit, QueryStep, PTL DEF Spec

\* A row inserted into an object that is loaded by others is one of those it was
\* loaded for: bonddb_ref_addbirth has kept, for every promised column and for no
\* other, the value of the row, and a known reference connects the two - if the
\* object is loaded once for each query, by sources whose columns the references
\* go by are there under the names no other table's column takes (ownColumns).
THEOREM NewRowsBelongHolds ==
  ASSUME NullIsNoTree, {"fresh", "ownColumns"} \subseteq Discipline
  PROVE  Spec => []NewRowsBelong
<1>1. BelongInv => NewRowsBelong
  <2> SUFFICES ASSUME BelongInv, loaded # <<>>,
                      NEW f \in DOMAIN obj.birthhash
               PROVE  /\ obj.birthhash[f] = loaded[f].value
                      /\ \E r \in Known : Connects(r, f, loaded[f])
    BY DEF NewRowsBelong, BelongInv, QueryInv, RowsBelong
  <2> QED
    BY DEF BelongInv, QueryInv, RowsBelong, Belong
<1>2. BelongInv /\ [Next]_vars => BelongInv'
  BY BelongStep
<1> QED
  BY <1>1, <1>2, BelongInit, PTL DEF Spec

\* Whatever was parsed, appended, joined and loaded by, in whatever order: the
\* statement selects what its text does and every clause of the conditions that
\* sql_statement_append_where and sql_statement_append_tablejoin were given
\* since, an AND beginning one and the ORs after it extending it.
THEOREM ClauseFormHolds ==
  ASSUME NullIsNoTree, NullIsNoWhere, "fresh" \in Discipline
  PROVE  Spec => []ClauseForm
<1>1. ClauseInv => ClauseForm
  BY ClauseInvForm
<1>2. ClauseInv /\ [Next]_vars => ClauseInv'
  BY ClauseStep
<1> QED
  BY <1>1, <1>2, ClauseInit, PTL DEF Spec
=============================================================================

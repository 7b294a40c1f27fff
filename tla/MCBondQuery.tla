----------------------------- MODULE MCBondQuery -----------------------------
(***************************************************************************)
(* The tables of the tests of bonddbloadby.c: soldiers, their ranks and    *)
(* their weapons.                                                          *)
(***************************************************************************)
EXTENDS BondQuery

MCIdent == {"soldier", "rank", "weapon", "id", "name", "rankid", "soldierid",
            "oid", "n", "s", "list", "count", "1", "3", "5", "6"}
MCNumeral == {"1", "3", "5", "6"}
MCLiteral == {"'a'"}
MCTextual == "\"The name\"" :> <<"The", "name">>

\* The queries: every table of the fixture; conditions that end in OR, in a
\* negation, in a range; a join, an order, a nested select, a function, an
\* equation; the other statements; a text that cannot be parsed.
MCQueries ==
  {<<"select", "*", "from", "weapon">>,
   <<"select", "*", "from", "soldier", "where", "name", "like", "'a'", "and",
     "soldier", ".", "rankid", "=", "5">>,
   <<"select", "name", "as", "n", "from", "weapon", "where", "id", ">", "3",
     "or", "name", "is", "null", "order", "by", "name", "desc">>,
   <<"select", "count", "(", "*", ")", "from", "soldier", "inner", "join",
     "weapon", "on", "soldier", ".", "id", "=", "weapon", ".", "soldierid",
     "where", "weapon", ".", "id", "between", "1", "and", "3", "group", "by",
     "rankid", "+", "1">>,
   <<"select", "distinct", "name", "as", "\"The name\"", "from", "rank", ",",
     "weapon", "where", "rank", ".", "id", "=", "1", "and", "not", "(",
     "name", "not", "like", "'a'", ")">>,
   <<"select", "id", "from", "(", "select", "id", "from", "soldier", "where",
     "id", "in", "(", "select", "soldierid", "from", "weapon", ")", ")", "s",
     "left", "join", "rank", "on", "s", ".", "rankid", "=", "rank", ".", "id">>,
   <<"select", "*", "from", "rank", ",", "list", "(", "1", ")">>,
   <<"update", "soldier", "set", "name", "=", "'a'", "where", "id", "!=", "1">>,
   <<"delete", "from", "weapon", "where", "not", "(", "id", "=", "1", "or",
     "name", "is", "not", "null", ")">>,
   <<"insert", "into", "rank", "(", "name", ")", "values", "(", "'a'", ")">>,
   <<"select", "from">>}
MCText == <<MCQueries, {<<"delete", "from", "weapon">>,
                        <<"select", "*", "from", "soldier">>}>>

Column(table, field) == <<table, ".", field>>
Reference(from, fromfield, to, tofield) ==
  [fromtable |-> from, fromfield |-> fromfield, totable |-> to, tofield |-> tofield]
Carries == Reference("soldier", "id", "weapon", "soldierid")
Ranks   == Reference("rank", "id", "soldier", "rankid")

MCDetected == "soldier" :> <<Carries>> @@ "rank" :> <<Ranks>>
MCPosition == <<"soldier", "id">> :> 0 @@ <<"soldier", "rankid">> :> 2
              @@ <<"weapon", "soldierid">> :> 1 @@ <<"rank", "id">> :> 3
MCGiven == {Ranks}

\* A list of soldiers that was parsed, of whom the second has no rank; a base
\* table of ranks that was not; the ranks of some soldiers, without the soldiers'
\* ids, so that the only column named id is that of the rank.
MCSource == {"soldiers", "ranks", "postings"}
MCSourceList == {<<"soldiers">>, <<"ranks">>, <<"postings">>, <<"ranks", "soldiers">>}
Soldier(id, rank) ==
  [id |-> Column("soldier", "id"),
   values |-> Column("soldier", "id") :> <<id>>
              @@ Column("soldier", "rankid") :> rank]
Rank(id) == [id |-> Column("rank", "id"), values |-> Column("rank", "id") :> <<id>>]
MCSourceOf ==
  "soldiers" :> [rows |-> <<Soldier("1", <<"5">>), Soldier("3", NULL)>>,
                 tables |-> <<"soldier">>, tablelist |-> <<"soldier">>,
                 firsttable |-> "soldier", reflist |-> <<>>,
                 position |-> <<"soldier", "id">> :> 0 @@ <<"soldier", "rankid">> :> 1]
  @@ "ranks" :> [rows |-> <<Rank("5")>>,
                 tables |-> <<"rank">>, tablelist |-> <<>>,
                 firsttable |-> "rank", reflist |-> <<>>,
                 position |-> <<"rank", "id">> :> 0]
  @@ "postings" :> [rows |-> <<Rank("6")>>,
                    tables |-> <<"rank", "soldier">>,
                    tablelist |-> <<"rank", "soldier">>,
                    firsttable |-> "rank", reflist |-> <<>>,
                    position |-> <<"rank", "id">> :> 0]

MCConditions == {<<<<"name">>, NULL, "=">>}
MCJoins == {<<"weapon", "soldier", "soldierid", "id">>}
=============================================================================

---------------------------- MODULE MCBondParts -----------------------------
(***************************************************************************)
(* Five parts of the library that share no state, each checked from its    *)
(* own initial state: the rows of an object under filters (BondFilter),    *)
(* what the plugin asks of PostgreSQL (BondPlugin), primary keys and ids   *)
(* (BondKeys), roles (BondRoles), and the escaping of values (BondPurify). *)
(***************************************************************************)
EXTENDS BondFilter, BondPlugin, BondKeys, BondRoles, BondPurify

CONSTANTS key, name   \* the columns of a table

VARIABLE part   \* the part that runs

partsVars == <<objVars, pluginVars, keyVars, roleVars, purifyVars, part>>

-----------------------------------------------------------------------------
\* One table with a key and a nullable column.
MCField == {key, name}

Asks(f, opr, v) == [field |-> f, opr |-> opr, value |-> v]
MCCondition == {Asks(name, "not", 1), Asks(key, "gt", 1)}
MCWithin == {<<1, 1>>}

\* The query returns no rows, or two of which one has a name.
Rows(n, named) ==
  [p \in 0..(n - 1) |->
     [f \in MCField |-> IF f = key THEN p + 1
                        ELSE IF p \in named THEN 1 ELSE NULL]]
MCResultSets == {Rows(0, {}), Rows(2, {0}), Rows(2, {1})}

-----------------------------------------------------------------------------
\* Every kind of default, and a table with three foreign keys, of which two
\* are to one column.
Default(text, call) == [text |-> text, call |-> call]
MCDeclaration ==
  {Default("", "none"), Default("5", "none"), Default("now()", "other"),
   Default("nextval('person_id_seq')", "nextval")}

References(field, table) ==
  [fromtable |-> "orders", fromfield |-> field,
   totable |-> table, tofield |-> "id"]
MCReference ==
  {References("person", "person"), References("seller", "person"),
   References("product", "product")}

-----------------------------------------------------------------------------
\* Two tables that have an id, one of them not first, and a key of two
\* columns; a query selects from one of them or from both.
MCAttributes == [person |-> <<"name", "id">>, orders |-> <<"day", "id", "name">>]
MCKeys == {<<>>, <<2>>, <<2, 1>>}
MCQueries ==
  {<<<<"person", "id">>, <<"orders", "id">>, <<"orders", "day">>>>,
   <<<<"person", "name">>, <<"orders", "id">>, <<"person", "id">>>>}
MCOwnKeys == {<<"id">>}

-----------------------------------------------------------------------------
(* One part takes its steps, the others stay as they are at first.         *)

FilterIdle == obj = NewObject /\ late = {} /\ fault = "none"
PluginIdle ==
  /\ plugin = NewPlugin /\ conn = NewConn
  /\ database = [sequence |-> [s \in Server |-> 0],
                 default |-> [c \in Column |-> Default("", "none")],
                 trigger |-> <<>>]
  /\ raised = 0 /\ drawn = <<>> /\ answer = NONE

KeysIdle ==
  /\ catalog = [t \in Tables |-> [key |-> <<>>, dropped |-> {}]]
  /\ dictionary = [cache_dictonary |-> TRUE, fieldlisthash |-> Unknown,
                   primarykeyhash |-> Unknown]
  /\ object = NewObjectKeys(<<>>)
  /\ own = Unknown /\ id = <<>>

Init ==
  \/ /\ part = "filter" /\ FilterInit
     /\ PluginIdle /\ KeysIdle /\ RolesInit /\ PurifyInit
  \/ /\ part = "plugin" /\ PluginInit
     /\ FilterIdle /\ KeysIdle /\ RolesInit /\ PurifyInit
  \/ /\ part = "keys" /\ KeysInit
     /\ FilterIdle /\ PluginIdle /\ RolesInit /\ PurifyInit
  \/ /\ part \in {"roles", "purify"} /\ RolesInit /\ PurifyInit
     /\ FilterIdle /\ PluginIdle /\ KeysIdle

Next ==
  /\ \/ /\ part = "filter" /\ FilterNext
        /\ UNCHANGED <<pluginVars, keyVars, roleVars, purifyVars>>
     \/ /\ part = "plugin" /\ PluginNext
        /\ UNCHANGED <<objVars, keyVars, roleVars, purifyVars>>
     \/ /\ part = "keys" /\ KeysNext
        /\ UNCHANGED <<objVars, pluginVars, roleVars, purifyVars>>
     \/ /\ part = "roles" /\ RolesNext
        /\ UNCHANGED <<objVars, pluginVars, keyVars, purifyVars>>
     \/ /\ part = "purify" /\ PurifyNext
        /\ UNCHANGED <<objVars, pluginVars, keyVars, roleVars>>
  /\ UNCHANGED part

\* The fairness of PluginSpec, while the plugin runs.
Polls == part = "plugin" /\ NotifyCheck
         /\ UNCHANGED <<objVars, keyVars, roleVars, purifyVars, part>>

Spec == Init /\ [][Next]_partsVars /\ WF_partsVars(Polls)
=============================================================================

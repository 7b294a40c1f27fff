# A verification of BondDB

BondDB is a C library that gives an application editable objects over SQL
queries: an object holds the result of a query, the application moves a cursor
over its rows, reads and writes values, adds and deletes rows, and saves; the
library turns the pending writes into INSERT, UPDATE and DELETE statements.
This directory holds TLA+ models of the library, the instances TLC checks and
proofs checked by TLAPS.  Paths below are relative to the repository's `src/`;
`bonddb/` is the core.

| file | what it is |
|---|---|
| `BondObject.tla` | one database object: cursor, records, ids, write queue, saves |
| `MCBondObject.tla`, `BondObject*.cfg` | its instances for TLC |
| `BondObject_proofs.tla` | proofs of its types, of the queue's integrity, and of what it promises to a careful application |
| `BondConnection.tla` | the connections objects share, and what runs on which |
| `NamedTransactions.tla` | what one-off connections promise, without connections |
| `MCBondConnection.tla`, `BondConnection*.cfg` | their instances for TLC |
| `BondConnection_proofs.tla` | proofs of the types and of the reference counts, that transactions are isolated and atomic and seen by their own objects, and that it implements `NamedTransactions` |
| `BondSql.tla`, `BondSqlTree.tla` | the SQL parser: grammar, trees, printing, extending |
| `BondQuery.tla`, `BondQuery_proofs.tla` | the query of an object, loading an object by others, with proofs |
| `MCBondQuery.tla`, `BondQuery*.cfg` | their instances for TLC |
| `BondFilter.tla`, `BondFilter_proofs.tla` | the array of records, filters, jumps, arrays of values, with proofs |
| `BondPlugin.tla` | defaults, foreign keys and notifications of PostgreSQL |
| `BondRoles.tla` | who has which role |
| `BondPlugin_proofs.tla` | proofs about these two |
| `BondKeys.tla`, `BondKeys_proofs.tla` | which columns identify a row, with proofs |
| `BondPurify.tla`, `BondPurify_proofs.tla` | the escaping of values, with proofs |
| `SetInduction.tla` | induction over numbers, in the form the proofs use |
| `MCBondParts.tla`, `BondParts*.cfg` | the instances of these five |
| `PROJECT.json` | components, runs, mutants, the map to the source, findings, hazards, theorems |

## 1. The system

### Components

| component | state it keeps | operations | modelled by |
|---|---|---|---|
| Database object (`bonddbobj.c`) | cursor, current record and id, mode, state, result, number of records | new, sql, loadall, moveto, getvalue, setvalue, add, blank, jumpto, delete, undo, forcemark, abortsave, save, clear, free | BondObject, BondFilter, BondQuery, BondKeys, BondConnection: all but autosave, undo of the whole object, aliases, display |
| Write queue (`bonddbwrite.c`) | list of pending writes, hash from (row, field) to its write | write_add, write_delete, write_all | BondObject, for one table; BondConnection, for the statements |
| Record cache (`bonddbrecord.c`) | array of records: mode, id, cached values | populate, write, delete, undo, freeall | BondObject; BondFilter for the growth of the array |
| Record ids (`bonddbid.c`) | oid or key of a row | get, extract, alias, where clause, compare, row of an id | BondObject, BondKeys, BondFilter |
| Primary keys (`bonddbkey.c`) | table to the list of its key columns | set, add, guess | BondKeys |
| Field defaults (`bonddbfield.c`) | fields of a query | get, default, birth values | BondObject, BondPlugin, BondKeys, BondQuery |
| Filters (`bonddbfilter.c`) | filters asked for, map from shown to real rows | add, remove, clear, filter again, moveto, repair on delete | BondFilter |
| Load by (`bonddbloadby.c`) | references between tables, birth values | load by objects, add references | BondQuery |
| Query parsing (`bonddbparse.c`) | tables of the query | parse, add a field | BondQuery |
| One-off connections (`bonddbglobal.c`) | name to connection, reference count, its transaction | new, ref, unref, notifications, roles | BondConnection, BondPlugin, BondRoles |
| Initialisation (`bonddbinit.c`) | read, remote write and administrator's connection | init, cleanup | BondConnection and BondPlugin: what init leaves, restart |
| SQL parser (`bondsql/`) | parse tree | parse, print, append conditions, joins, fields | BondSql, BondSqlTree: all but the lexer below tokens |
| PostgreSQL backend (`pgsql/`) | caches of columns, keys, defaults, foreign keys; notifications | ask the catalog, listen, check, roles | BondPlugin, BondKeys, BondRoles: all but thin wrappers of libpq |
| Plugin loader (`bonddbplugin.c`) | the functions of a library | load, free | what it keeps; not the search for a library |
| Purification, arrays (`bonddbpurify.c`, `bonddbarray.c`) | none | escape, restore, extract | BondPurify, BondFilter |
| Other backends, memory registry, garbage pools, configuration, older copies | | | not modelled, see section 6 |

### How they interact

Everything runs in the application's one thread.  A call on an object runs to
its end, calling down through records, ids and the queue; nothing calls back
into the application.  What makes the code hard is not threads but *deferred
work on positions* and *answers that are kept*:

* a write is queued under a **row number** and carried out at the save, by
  which time rows have been deleted, added, reloaded or saved;
* the id a statement needs is computed **late**, from the object's cursor, its
  cache or its result, which need no longer belong to the row of the write;
* ids, records, keys and filters **point into each other's memory**, and are
  freed by other calls;
* a save is **many statements**, each of which the backend may reject, and what
  stays queued after a failure decides what the next save does;
* objects **share connections** and their transactions, a statement may be
  tried again **elsewhere**, and a remote server is **replicated** with a lag;
* a query is **text and tree at once**: it is parsed when that is needed,
  extended in one of its forms, and printed when it is run;
* what the plugin found once of columns, keys and defaults is **kept**, by
  position, while tables change.

### What makes it correct

* the queue and its hash agree; a save visits each entry once and returns;
* the cursor, the records, the filter and the result speak of the same rows;
* a save changes the rows the object shows, to what it shows, and loses no
  write; no assertion of the code fails and no freed memory is used;
* a one-off connection lives as long as its users; what is saved on it stays
  in its transaction, is committed whole or not at all, and is seen by the
  objects that share it;
* a query that was extended means what the calls said, however it was written,
  and loading by objects narrows it; a row added then belongs to those objects;
* keys, defaults, foreign keys and roles are those of the database; no
  notification is lost or handed out of order;
* an escaped value stays between its quotes and in its buffer.

`PROJECT.json` lists the places where this can go wrong ("hazards"), each with
the properties that would show it.

## 2. The models

A word on **discipline**, which several modules have.  The library keeps its
promises only to an application that is careful, and says nowhere how careful.
The rules of a module are the answer the model gives: guards on the *calls* of
the application or the *statements* of the administrator, never on the code,
that were found one by one from counterexamples.  With all of them the
properties hold; taking one away makes TLC show what it protects from.  They
are a contract, not a claim that applications observe it.

### BondObject

One object over one table with one key column, and the part of the backend it
talks to.  State and code:

| variable | code |
|---|---|
| `obj` | the fields of `struct _BonddbClass` the properties need (`bonddbobj.h`) |
| `writequeue`, `writequeuehash`, `tail` | `obj->writequeue`, `obj->writequeuehash` |
| `pc`, `walk`, `wrote`, `corrupt` | where `bonddb_write_all` is, the list position, `wrotehash`, `psqlres_corrupt` |
| `fault` | the failed `g_assert` or bad dereference that ended the program |
| `db`, `nextkey`, `fails`, `others` | the table, its sequence, statements rejected, writes of other clients |

One action per call (`Moveto`, `GetValue`, `SetValue`, `Add`, `WriteDelete`,
`ForceMark`, `AbortSave`, `Undo`, `LoadAll`, `Save`), and one per statement of
a save: `SaveInsert`, `SaveUpdate`, `SaveDelete`, their failures
(`SaveFailRow`, `SaveDeleteFail`), the entries the walk passes over
(`SaveSkip`, `SaveUnmarked`, `SaveNoWhere`, `SaveDeleteNoWhere`), the faults
(`SaveCrash`), `SaveEnd` and `Refresh`.  Between two of them another client may
write (`OtherClient`).  The queue is a set of entries with positions, which are the
order of queueing: the code puts a new entry in front of its list and reverses
it at each save, and `bonddb_write_freelist_special` puts each entry it keeps in
front in turn, so that what a failed save leaves behind is in that order again.
`Kept` says which entries these are.

Abstractions, beyond the data: the query returns the table's rows in key
order, and the table was created WITH OIDS, as the code asks
(`bonddbwrite.c:653`); the empty string and the SQL NULL are one value; a fault
is terminal, which includes reading freed memory: the real program may survive
it with any value, and nothing is claimed beyond; `bonddb_delete` is
`WriteDelete` followed by `Save`, which the rule `deleteAtOnce` puts next to
each other; autosave and entries of several tables are absent.

| rule | without it |
|---|---|
| `deleteAtOnce` | entries of rows behind a deleted one keep their row numbers (run `delete_rashly`) |
| `newRowAlone` | after a rejected INSERT, entries of a row already saved stay queued (run `insert_twice`); needed only if something is rejected |
| `markedRows` | a row whose writes are all unmarked is passed over, and its entries are freed (`bonddbwrite.c:530`) |
| `cleanReload` | current id and queued ids point into the records a reload frees, or old records stay at places of other rows (`bonddbobj.c:1212`) |
| `cleanUndo` | an undo frees the strings the keys of ids point to (`bonddbrecord.c:286`) |
| `cleanAbort` | an aborted save of a new row drops the write of its default key (`bonddbobj.c:1184`) |

### BondConnection and NamedTransactions

Objects seen from the connections: `objs` (connection, name, administrator
flag, result), `oo_conns` and `references` (`bonddbglobal.c`), the transaction
`txn` of every connection, the rows `data` of the local and the master server,
and the rows `ship` on their way from the master to the local one.  Actions:
creation without a name, with the name of a connection that is there and with
a new one (`NewPlain`, `NewShared`, `NewConnected`, `NewFails`), `Free`,
`Query`, `RunnowWrite`, the insert of a save with its second try on the local
connection (`Insert`, `InsertLocally`, `InsertFails`), the deletion and the
refresh that follows (`Delete`, `DeleteFails`, `Refresh`), transaction
statements given as queries (`Begin`, `End`) and `Replicate`.

Where a statement goes is four operators, each a translation of the
conditionals in the code: `QueryConn` (`bonddb_sql_internal_exec`), `WriteConn`
and `LocalConn` (`bonddb_write_execsql`), `DeleteConn`
(`bonddb_write_sql_delete`).

Abstractions: a creation that fails (`NewFails`) leaves everything as it was,
where the code keeps the memory of the connection that did not come about and
`bonddb_new_sql_full` goes on with the NULL it is given (`bonddbobj.c:156`);
a table is a set of rows and a save inserts or deletes one; the string that names a connection outlives it (the hash keeps the caller's
pointer, see the hazards); no statement waits for a row another transaction has
changed; `saved` and an object's `gone` are history the properties need.  The
rule `inTransaction` is the discipline here: an object on a one-off connection
neither deletes nor uses `bonddb_sql_runnow_write`.

`NamedTransactions` says the same without any of this: a name has a
transaction or none, its rows reach the store all at once or never, everybody
else changes the store row by row.  `BondConnection` maps the one to the
other: the store is what the server that takes the writes has, the
transaction of a name is what was saved on its connection since it began.

### BondSql, BondSqlTree and BondQuery

`BondSql` translates the grammar of `parser.y` and the builders of
`sql_tree.c`: a text is a sequence of tokens, a tree a record with the fields
of the C struct, memory that the code never writes is `Garbage`.
`BondSqlTree` is `sql_parser.c`: printing (`SqlStringify`), appending
conditions, joins and fields, listing fields, tables and joins.  They hold pure
operators, and functions where the code recurs.  The grammar is a function of
how deep its rules may nest (`Grammar`): each level is `Rules`, all rules at
once, over the level above, so that what holds of every text can be proved by
induction.  What walks a tree of conditions is a function on its `Parts`.

`BondQuery` is the machine that runs them: `obj` has the text of the query, its
tree, the flag that it must be generated, birth values, references.  Its
actions are the calls that give an object a query, parse it, append to it,
load it by one or several sources (`bonddb_loadobjectbyobjects`, with the choice of
a reference for each table, the conditions it appends, those it can only append
to the text), tell it references, and run it.  The columns of a source are
looked up as the code does it: `FieldGet` (`bonddb_field_get`) takes the only
column of a name *whatever its table*, `ColumnFor` and `GetValue`
(`bonddb_getvalue`) try again with no table at all, and a value that is not found
or is NULL gives no condition.  `base`, `conds`, `loaded` and `given` are history.

| rule | without it |
|---|---|
| `fresh` | an object is loaded by others, or parsed, again after its query was extended: the query to be generated may have no statement |
| `ownAlone` | an object of the object's own table is one of several sources, or the query does not end with conditions that are no OR: the condition, appended to the text alone, is lost or binds differently (run `load_by_own_table`) |
| `ownColumns` | a source lacks the column a reference goes by but has another table's of that name: its value is taken instead (`NewRowsBelong` fails, see section 3) |

### BondFilter

The rows of an object: an array of records that grows by `Chunk` when the
number of rows reaches a multiple of it, the cursor, and the map `filterhash`
from the numbers of the rows that are shown to records.  The values of a
record are numbers, the queue of writes is left to BondObject (a record is new
until it is saved), so that moves, jumps, additions, deletions and loads can be
interleaved with filters that are added, removed, cleared and evaluated again.
Pointers to freed records and array places never written are values of their
own (`Freed`, `Junk`); using one is a `fault`.

| rule | without it |
|---|---|
| `lastRow` | the repair of the map after a deletion from the middle leaves the cursor past the last row, on a record made of nothing |
| `clearFirst` | after a load the map still points to the records that were freed |
| `loadFirst` | a first load keeps the array that added rows were put in, and rows of a larger result lie past its end (`bonddbobj.c:1212`) |
| `filterRows` | a filter asked for while no row is shown is never applied, and one that fails half-way leaves `ignoreassert` set (`bonddbfilter.c:219`) |
| `knownKey` | a `moveto_id` that finds nothing leaves the cursor on the last row, with the record of another (`bonddbobj.c:821`) |
| `ownId` | a jump by id starts from an id that was freed by a load |
| `saveFirst` | a deletion that cannot move to a row shown saves the others from where it is, and gives up on keys |
| `unfiltered` | a jump counts real rows and moves by those shown |

### BondPlugin, BondKeys, BondRoles, BondPurify

* `BondPlugin`: the default of a column is kept as a value, or as the call to
  make each time; `nextval` runs on the master; foreign keys are put together
  from triggers, three for each; a notification is on the wire, in libpq's
  buffer, or handed out by `NotifyCheck`.  Connections break, the caches are
  switched, the library restarts, the administrator changes defaults and adds
  foreign keys.  Rules, for the administrator: `catalogKept` (nothing is changed
  that the plugin has asked for and kept, since it never asks again,
  `binding_pgsql.c:780` and `:915`) and `oneKeyPerColumn` (no table has two
  foreign keys to one column, of which `_db_constraint_valid` drops the second,
  `:1013`; `ReferencesFound` fails, see section 3).
* `BondKeys`: the plugin joins the positions of `pg_index` with a list of
  columns; an object asks it once per table, or is told by the application;
  an id is made of the key columns found in the result.  Rules: `dictionary`
  (with the cache off, a list of columns that is not kept counts as a failure,
  `binding_pgsql.c:691`), `columnsKept` (positions shift when a column before
  the key is dropped, `:723`), `keysKept` (what is kept is never asked again),
  `connected`, `keyedRows`, `keysQueried` (each failure to make an id sets
  `noprimarykey` for the whole object, for good, `bonddbid.c:254`), `setFirst`
  (setting a key frees the list that ids point to, `bonddbkey.c:83`).
* `BondRoles`: the recursion of `_db_user_has_role` over groups, of which only
  those that inherit are asked, while the administrator grants and revokes.
* `BondPurify`: `bonddb_purify` and `bonddb_unpurify` character by character,
  with the room the buffer is thought to have and the bytes it was given.  The
  server reads backslash escapes in literals, as PostgreSQL did by default when
  the code was written.

`MCBondParts` is the disjoint union of BondFilter and these four: `part` says
which one runs, the others stay as they are.

## 3. What is checked

| run | instance | shows |
|---|---|---|
| `tidy` | 2 rows and 1 to add, all rules but `newRowAlone`, nothing fails | `CursorCoherent`, `NoAbort`, `ResultAligned`, `SavedAsShown`, `NothingLost` |
| `rejected` | 1 row and 1 to add, all rules, INSERT and UPDATE rejected up to twice | `NoAbort`, `SavedAsShown`, `NothingLost` |
| `anyhow` | no rule at all, every statement may be rejected, another client writes | `TypeOK`, `HashAgrees`, and that saves return (`SaveReturns`) |
| `delete_rashly` | without `deleteAtOnce` | violation of `InsertHasRecord` |
| `insert_twice` | without `newRowAlone`, one INSERT rejected | violation of `InsertedOnce` |
| `no_key` | a key without a default | violation of `NothingLost` |
| `shared` | 2 objects, 2 names, 2 rows, remote and administrator's connection, one failure outside one-off connections | `TypeOK`, `Counted`, `Isolated`, `Atomic`, `SeesOwn`, `ImplementsTransactions` |
| `fallback` | a statement fails on a one-off connection | violation of `Isolated` |
| `refresh_elsewhere` | an object on a one-off connection deletes | violation of `DeletionSeen` |
| `query` | 11 queries of every kind, 1 or 2 sources of several tables, conditions, joins, fields | `Generable`, `ClauseForm`, `Regenerated`, `Narrowed`, `NewRowsBelong`, `JoinsFound` |
| `load_by_own_table` | without `ownAlone` | violation of `Narrowed` |
| `parts` | BondFilter: up to 3 rows, 2 filters | `FilterExact`, `Addressable`, `IdsInOrder`, `CursorOnRecord`, `JumpFinds` |
| | BondPlugin: 2 servers, 2 keys, 2 notifications, both rules, 3 foreign keys of which two are of one table to one column | `KeysUnique`, `DefaultAsDeclared`, `ReferencesFound`, `CheckHandsOldest`, `Heard` |
| | BondKeys: 2 tables with a column of the same name, keys of none, one and two columns | `KeyAsDeclared`, `IdFromOwnKey`, `IdsKeepFields` |
| | BondRoles: 4 roles, any memberships | `RolesInherited` |
| | BondPurify: texts of up to 4 characters | `WithinBuffer`, `ReadsBack` |

A hazard that a rule keeps away from the passing runs is not shown by them: what
they show is that the property holds once it is away.  These are, in
BondObject, the deletion that is not saved at once, the undo and the reload with
writes pending; in BondConnection, deletions and `bonddb_sql_runnow_write` on a
one-off connection; in BondQuery, sources of the object's own table and columns
of another one; in BondFilter, deletions from the middle, filters on nothing and
failed searches; in BondKeys, dropped columns, failures to make an id, and keys
set twice; in BondPlugin, a catalog that changes behind the caches and a second
foreign key to a column.  For six of the defects a run of their own expects the
violation; for the others the tables of rules say what happens without the rule, and
taking the rule out of the `.cfg` makes TLC show it.  Three of these are defects
of the code all the same:

* *Without `ownColumns`* (`BondQuery.cfg`) TLC finds `NewRowsBelong` violated
  after one load.  `bonddb_field_get` returns the only column of a name without
  looking at its table (`bonddbfield.c:248`), and `bonddb_getvalue`, when even that
  finds nothing, asks again without a table (`bonddbobj.c:1022`).
  `select rank.id from rank, soldier ...` has no `soldier.id`, so that the weapons
  loaded by it are those whose `soldierid` is a rank's id, and a new weapon is
  given that.
* *Without `oneKeyPerColumn`* (`BondParts.cfg`) TLC finds `ReferencesFound`
  violated.  `_db_constraint_valid` takes a trigger for a duplicate when its table
  has a reference to the same column, and does not look at the column it is *from*
  (`binding_pgsql.c:1013`): of `orders.person` and `orders.seller`, both to
  `person.id`, only the first is kept.
* *Without `keysQueried`* (`BondParts.cfg`) TLC finds `IdFromOwnKey` violated: the
  id of a row is made of another table's column, by the same `bonddb_field_get`.

Every property of a passing run is also broken by a mutant of the code's
translation that is kept beside it (`PROJECT.json`, "mutants"): a hash that is
not updated, an id taken from the wrong row, a queue that keeps the wrong
entries after a failure, a reference that is not counted, an array that is not
cleared where it grew, a default kept where its call should be, positions that
start at 0.

**Bounds.**  `MaxKey`, `MaxRow`, `MaxPos`, `MaxFail` and `MaxOther` bound
BondObject.  Its defects are about *two* rows (the row of a write and the row
the cursor, the id or the gap belongs to), so three places in the array are
enough to have a row before, at and after a deletion, and one data column and
one value are enough because ids and rows are told apart by their keys; writing
a value and writing NULL are told apart.  `MaxPos` lets every column of the
rows concerned be written; two rejections let a second save fail on what the
first one left.  `anyhow` is smaller (one row, two queued writes) since without
rules the state space is large; the theorems make up for it.  In BondConnection
the interesting cases need two users of one name, two names, and one object
that is on neither; all symmetric sets are permuted, there is no liveness
property in those runs.  One failure suffices to reach each error path; what a
second one adds is a repetition of it.

In BondQuery, `Text` lists the queries (each kind of statement, conditions with
AND, OR and a negation, joins, nested selects, GROUP BY), `SourceList` the
sources an object is loaded by; two appended conditions (`MaxCond`) are the least with
an order, and fields are added to statements of fewer than `MaxField`;
`MaxDepth` stands for the stack of bison's parser (`YYMAXDEPTH`), and no text of
the instance nests nearly as deep.  In
BondFilter `Chunk` is 2 and `Slack` 0 where the code has 100 and 2: with three
rows the array grows at its first, at a full and at a third place, and a write
past its end, which the two spare places could hide, shows; two filters are the least of
which one can be taken away.  In BondPlugin two keys and two notifications are
the least that can be equal, or out of order.  In BondKeys the two tables share
the name of a column, one key has its columns in another order than the table,
and one column in front of a key can be dropped.  In BondRoles a chain of four
roles has two groups between the user and the role.  In BondPurify `Spare` and
`More` are 2 where the code has 32 and 16, so that the buffer grows twice in a
value of four quotes; the theorem has them arbitrary.

**Fairness.**  Two assumptions, for the two liveness properties.
`WF_vars(SaveStep)`: the thread that called `bonddb_save` goes on with the loop
of `bonddb_write_all`, each round of which is one statement that the backend
accepts or rejects.  `WF_partsVars(Polls)`: the application goes on calling
`bonddb_notify_check`, as the library, which has no thread of its own, requires
it to.  Nothing is assumed of the backend or other clients.

**What the violations show.**  Six disagreements between what the source says
and what it does, each listed with its line under "findings": an assertion
that a legal sequence of calls reaches (`bonddbwrite.c:303`), one that a single
rejected INSERT reaches (`:304`), writes a save reports as stored and drops
(`:307`), the second try of a failed statement outside its transaction
(`:625`), the refresh on another connection than the object's (`:772`), and
the condition of an object of the same table, which is appended to the text
alone (`bonddbloadby.c`).

**Noticed on the way**, while reading, and outside of what the runs check:

* *Printing a tree* loses the word VALUES of an INSERT (`sql_parser.c:801`),
  the negation of BETWEEN, the brackets of a left operand and the quotes of an
  alias; `x is not null` is printed well, `not` of other operators after the
  operator.  `Plain` excludes these from `Regenerated`.
* *Memory of a tree* that is never written: the alias and join of a table
  function (`sql_tree.c:191`); `append_where` reads the pair of a negation
  (`sql_parser.c:1255`).  The model has `Garbage` and `fault` for them.
* The value of a text key is not quoted when an object is loaded by it; the
  list of references dangles after `bonddb_ref_clear`; the lexer's `\x` loses
  the character; a statement that does not parse leaks its tree.
* Loading an object to which rows were added before its first load keeps them
  in the places of the first rows of the result, which they hide.
* A filter that is not there clears the one that is, if there is one
  (`bonddbfilter.c:320`); the search for a word in a query does not look at
  what precedes it ("datefrom").
* That `field_get` ignores the table when a name is unique
  (`bonddbfield.c:248`) is so for `bonddb_setvalue` too, through which birth values are written
  (`bonddbobj.c:1100`): they may go to another table's column.  `bonddb_sql` and
  `bonddb_clear` leave the birth values of the query before (`:793`).
* Ids over different columns can be equal, since the loop that compares them
  runs only over empty lists (`bonddbid.c:87`).
* A default that is an expression without a call or a cast is used as a text;
  a qualified `pg_catalog.nextval` runs on the slave; the descriptor -1 of a
  broken connection is put into a set before it is tested
  (`binding_pgsql.c:61`); a first failure to read the foreign keys is kept as
  "there are none"; `bonddb_notify_listen` returns the status of its last
  server only.
* `bonddb_save` hides every failure but -10 (`bonddbobj.c:1160`), which is
  also compared with an unsigned oid (`bonddbwrite.c:740`).
* The remote administrator's connection string is built and dropped
  (`bonddbinit.c:262`), its connection never closed; a failed init cleans up
  before there is a table of connections; `bonddb_cleanup`, documented to
  flush, saves nothing (`bonddbinit.c:369`); `bonddb_new_sql_full` does not look
  whether its connection failed (`bonddbobj.c:156`).
* `mem_verify`'s message for freed memory cannot be reached, since the test
  before it catches the same value (`bcmem.c:752`).

## 4. What is proved

Every safety property and action property of a passing run, but for three of
BondQuery, is proved for every value of the constants that the named
assumptions admit.  A theorem that needs a careful application says so: its
hypothesis is the discipline under which the run checks the property, and the
rule tables of section 2 say what each rule is needed for.

### BondObject

All in `BondObject_proofs`.

* From `ConstantAssumption` and `NullAssumption`, whatever
  the application does: `TypeCorrect` (`Spec => []TypeOK`) and `QueueHash`
  (`Spec => []HashAgrees`).  Types are not a formality here: that
  `obj.record[currentrow]` is a record when a call dereferences it depends on
  the whole state of the cursor.  The inductive invariant is `Plain` (the plain
  variables have their types), `Sound(obj)` (the struct has its type, and a
  current record that is set has a record at its place in the array) and
  `QueueOK` (the queue has its type and agrees with its hash).  `Sound` is
  needed because `TypeOK` alone lets the cursor point at a place without a
  record, from where a write leaves the types; `QueueOK` is inductive by the
  lemmas on how a queue is `Made` of another: by adding an entry, dropping
  some, or changing marks, values and ids only.
* Under `CarefulUse`: `CursorKept`, `NeverAborts`,
  `ResultKept` (`CursorCoherent`, `NoAbort`, `ResultAligned` always hold),
  `SavesAsShown` and `LosesNothing` (`SavedAsShown`, `NothingLost`).  None of
  the five is inductive, since each speaks of the rows the object *knows*,
  while what goes wrong happens to rows it will only look at later.  The
  invariant `CarefulInv` says that there is a `K`, the key of the row behind
  each place of the array, known or not, such that: every record, id and
  result row fits `K` (`Rows`, `Fetched`), the table is `K` without the rows
  still to be inserted (`Table`), every pending write is one to the row `K`
  says (`Waiting`), a save has written exactly the entries it has passed
  (`Under`), and between a deletion and the refresh the gap is closed and
  nothing is current (`Gap`).  A deletion shifts `K`, an insertion extends it,
  a load replaces it; all other steps leave it.  `Unkeyed` is the price of
  `noprimarykey`: once ids were given up for a row, that row stays.

  `CarefulUse` is: all rules but `newRowAlone`; that one too if anything may be
  rejected; a key with a default; no deletion rejected; no other client
  (`MaxOther = 0`).  Except for the last these are needed: `delete_rashly`,
  `insert_twice` and `no_key` are counterexamples, and a rejected deletion
  drops the rest of the queue (hazards).  With other clients an UPDATE
  overwrites what it never read, and two records can come to show one key: the
  model, which tells strings apart by their text, then takes the freeing of
  one key for that of the other, so that nothing is claimed there.

### BondConnection

All in `BondConnection_proofs`, from `ConnectionAssumption` and
`ObjectAssumption`.

* Whatever is configured, whatever fails and however careless the application:
  `ConnectionTypes` (`Spec => []TypeOK`) and `ConnectionsCounted`
  (`Spec => []Counted`).  The inductive invariant is
  `TypeOK /\ Counted /\ Pending`.  `Counted` says the count *equals* the number
  of users and no two names share a connection: weaker forms are not
  inductive, since freeing the last user of one name could close a connection
  under another.  `Pending` (the object being refreshed has not been freed) is
  needed for the types after `Refresh`.  `CountOthers` is the heart: a step
  touches the users of one name, the others are as before.
* Under `Careful` (no statement of an object on a one-off connection fails, and
  such an object neither deletes nor uses `bonddb_sql_runnow_write`; the
  instance `shared` meets it): `TransactionIsolated` (`Spec => []Isolated`),
  `TransactionAtomic` (`Spec => Atomic`) and `ObjectsSeeTheirOwn`
  (`Spec => SeesOwn`).  `Isolated` is not inductive: that a save goes to the
  transaction needs `Placed` (an object is on the connection of its name), that
  it stays there needs `Unbroken` (only one-off connections have a transaction,
  none is broken) and `Own` (what was saved since it began is in it), that
  nobody else commits it needs `Apart` (a row is in one transaction at most,
  and committed in none).  Seeing it again needs `Visible` besides: after the
  transaction has ended, what is saved under its name is on the server of the
  connection, and replication does not take it away, since there is none on a
  server that takes writes.  Both conditions of `Careful` are needed: without
  the first, `fallback` is a counterexample; without the second, `RunnowWrite`
  breaks `Placed`.
* Under the same conditions `ConnectionsImplementTransactions`
  (`Spec => ImplementsTransactions`), with the mapping that the run `shared`
  checks.  The invariants above are what makes each step map: the first user's
  BEGIN is a `Start`, an insert a `Save` or a `Put`, the freeing of the last
  user a `Rollback`, everything else a stutter.

### BondFilter

`BondFilter_proofs`, from `FilterAssumption` and `PointerAssumption`, under all
rules: `RowsAddressable`, `IdsStayInOrder`, `CursorStaysOnRecord`,
`FiltersShowExactly` and `JumpsLand`, for any columns, results, filters, number
of rows, and any `Chunk` and `Slack`.  They need one invariant together,
`FilterInv`, since a call that walks over the rows relies on all of it:

* `RowsInv`: every row is a record of its own or in the result, and the array
  is clean up to *some multiple of* `Chunk` above the number of rows
  (`Room`).  "Up to the next multiple" would be false, since deletions leave
  the array as it was, and "one place more than the rows" is not inductive,
  since `bonddb_record_populate` makes it larger only at multiples;
* `IdsInv`: a new row has no id, one that was visited has;
* `HashInv`: the map lists records in increasing order, which is why numbers
  can be counted off both ways;
* `CursorInv`: the cursor is on a row, and an object with a new row has a
  current record, without which a save would find no keys;
* `ShownInv`: the rows shown are those that pass every filter asked for, but
  for the rows added or changed since (`late`).

Numbers and filters are matched by induction: `Nth` says which row has which
number, `FilterByAllFilters` what one filter after the other leaves.

The attempt to prove `RowsAddressable` found what no instance had shown.  An
object that has had rows added and is then loaded for the first time keeps its
array (`bonddbobj.c:1212` frees records only together with a result), however
many rows the result has; with a result of a chunk more than the array, a call writes
past its end.  The instance of `parts` was too small for it.  TLC finds it with
`Chunk` 1 and a result of three rows; the rule `loadFirst` and a hazard say so.

### BondQuery

`BondQuery_proofs`, from `TokenAssumption`, `ReferenceAssumption` and
`SourceAssumption`: `GenerableHolds` and `ClauseFormHolds` under the rule `fresh`,
`NewRowsBelongHolds` under `fresh` and `ownColumns`, for any tokens, queries,
sources and references, and whatever is appended in between.

* The invariants depend on the statement being a tree that something can be
  appended to, that is on the grammar.  `GrammarReads` is an induction over its
  levels: over rules that fail or leave tokens of the text (`Reading`), and that
  return lists of tables and selects (`ListsTables`), the rules do so too; one
  lemma per rule.  Hence `ParseIsStatement`: what `sql_parse` returns, whatever
  the text, is a statement or NULL.
* References are sequences of what was told or detected (`Told`), and
  `RefFindFinds` says that `bonddb_ref_find`, whichever position wins, returns
  one of them or none; `JoiningConnects`, that the condition it gives is at the
  other end of it, of a column the row has under that very name if `ownColumns`
  is observed; without it `NewRowsBelong` is false (section 3).
* `IsProgress` is the invariant of the two loops of
  `bonddb_loadobjectbyobjects`: the statement is one, the query is generated only
  if something was loaded, and the hash of birth values has the values that were
  promised through a reference and no others (`RowsBelong`).  `Belong`, that a
  known reference connects each of them to the row it was read from, is apart, as
  it alone needs `ownColumns`: the rule speaks of what is so *before* a call, and
  is of use in the middle of one since no source leaves its row or comes to be of
  another table there (`KeepsSources`).
* `QueryInv` joins them between calls.  That something is loaded whenever the
  query is to be generated, and a statement there whenever something is loaded,
  is what makes `Generable` inductive; `fresh` is needed for it, since parsing
  again after loading may leave no statement.
* `ClauseForm` is about trees of conditions.  `IsTree` says that a walk over one
  ends and meets only the three kinds of node; `ParseHasTree`, by induction over
  the grammar again, that the conditions of a parsed select are one, and
  `InsertIsTree`, that appending leaves one.  What a tree selects (`Holds`) and
  where a condition is inserted (`InsertCondition`) are recursive functions on
  the parts of a tree; `HoldsUnfolds` and `InsertUnfolds` say, by induction on
  its levels, that they are what their equations say.
* `ClauseForm` itself is not inductive: that a tree selects the right rows does
  not say where the next OR will go.  `Means` does.  Down the right side of the
  tree there are ANDs, then a tree that is no AND: the left operands of the ANDs
  select what the text's conditions do and every clause but the last, and the
  tree below them is the last clause, down whose right side there are only ORs.
  `InsertAnd` and `InsertOr` say what `sql_statement_append_where` does there,
  `AppendedAnd` and `AppendedOr` what one more condition does to the clauses.
  A text whose conditions are followed by an OR first has no such form, which is
  why `ClauseForm` excludes it.
* `ClauseInv` adds this to `QueryInv`, with two facts it needs: a statement that
  is no select has no tables, so that loading it by others appends nothing, and
  every source is on a row it has (`OnRows`).  `ClauseProgress` is the same in the middle of
  `bonddb_loadobjectbyobjects`.

`NullIsNoTree`, a hypothesis of the theorems, says that NULL is none of the
statements that `StatementBuild` makes, and `NullIsNoWhere`, that it is none of
the conditions `sql_where_build_single` and its like make: the code tells that
something is missing by its NULL pointer, and something new was allocated.  They
are hypotheses and no `ASSUME` because TLC cannot go through all trees; its
instances satisfy them, their NULL being a model value.  `SourceAssumption` has
that a source has a row: an object that is loaded by one without rows is not
modelled.

### The other parts

* `BondPlugin_proofs`, from `PluginAssumption`: `SequenceKeysUnique`
  (`[]KeysUnique`) and `ChecksHandOldest` (`CheckHandsOldest`) whatever is
  declared and when, `DefaultsDeclared` (`DefaultAsDeclared`) under `catalogKept`,
  and `ReferencesAreFound` (`ReferencesFound`) under both rules.  The invariant
  of `KeysUnique` and the defaults is `Shape` (types), `Kept` (what is kept of a
  default is the entry of one that was declared, under `catalogKept` of the one
  declared now), `Issued` (no key drawn
  is beyond the master's sequence) and `KeysUnique`; that of foreign keys,
  `ReferenceInv`, says that two triggers of a table to one field are of the
  same foreign key, which makes dropping duplicates right, and that what is
  kept is what the triggers say as long as the connection they were asked on
  holds.  Both rules are needed: without `oneKeyPerColumn` the second key of a
  table to a column is dropped (section 3), without `catalogKept` a key that is
  added after the answer was kept is not in it.
* From `RoleAssumption`, `RolesAreInherited` (`[]RolesInherited`): a user who
  has a role at all has it with no more groups between than there are roles,
  so the recursion of `_db_user_has_role`, which the model follows to that
  depth, finds it; and it finds nothing else.
* `BondKeys_proofs`, from `KeyAssumption`: `IdsNeverLoseFields`
  (`[]IdsKeepFields`), if the discipline has `setFirst`; `KeysAsDeclared`
  (`[]KeyAsDeclared`), if it has `columnsKept` and `keysKept`; `IdsFromOwnKey`
  (`IdFromOwnKey`), if it has every rule but `setFirst`.  The invariants add to
  the shape of the object that a table with ids has a key (`IdsHaveKey`): what
  frees a list of columns is setting a key anew, which `setFirst` allows only
  before there are ids; and that what object and plugin keep of a key is what
  the database has (`DeclaredInv`).
* `BondPurify_proofs`, from `PurifyAssumption`: `PurifyWithinBuffer`
  (`[]WithinBuffer`) and `PurifyReadsBack` (`[]ReadsBack`).  While a value is
  escaped, at most one character more than `aloc` was written and the buffer
  has room for two more than `aloc` (`Filling`); growing by two at least
  restores it.  That a value of any length is restored is proved by what has
  been read and written at each character: every prefix of the escaped text is
  that of a prefix of the value, and the server is never outside the string.

### How the proofs do induction

The library's induction theorems take an operator, which the provers cannot
instantiate.  `SetInduction` states the same of the *set* of numbers with a
property, as a consequence of `WFMin` and the well-foundedness of `<`, which
take sets; a proof defines the set, shows that it has 0 and is closed under
successor, and is done.  A function that is defined by recursion in the model
(`FilterByAll`, `ConstraintInit`, the roles in so many steps) is a `CHOOSE`; a
lemma shows, by induction on its length, that some function satisfies the
equation (`RunsExist`, `FiltersExist`, `FoundsExist`), hence that the chosen one
does.

### Model-checked only

* `SaveReturns` and `Heard`: liveness under fairness, out of the prover's reach.
* `Regenerated`, `Narrowed` and `JoinsFound` of BondQuery.  The first two are
  about a tree that was printed and parsed again: what all the rules of the
  grammar make of all that printing writes.  The third needs that the joins of a
  nested select are no `Garbage`, which `ReadsGarbage` says, a recursion over
  trees of any kind that the provers cannot unfold, and `SelectSeq`, which takes
  an operator.
* The properties of the runs that expect a violation, of course.

## 5. The plan

1. *Queries*: that printing and parsing a plain tree gives it back, from which
   `Regenerated` and, with `ClauseForm`, `Narrowed` would follow.
2. *An abstraction of saves*: a buffered table editor (rows shown, rows stored,
   a save moves the one to the other), refined by BondObject under its rules;
   `K` of `CarefulInv` is its mapping.
3. *Autosave* and the undo of a whole object; a queue with entries of several
   tables; writes to the key column.
4. *Replication*: the lag between a remote write and the next load as a
   property, statements that wait for a transaction of the same program.

## 6. Not modelled

* The first version of the library (`src/`, some 16,000 lines), which is not
  built unless `oldlib` is set, the copies of `bondcommon` it used, its
  tests and tools: nothing of it is in the program.
* The MySQL and GDA backends: the loader demands functions they lack
  (`bonddbplugin.c:107`), so that they cannot be loaded; they are not built by
  default either.
* `bondsql/lexer.c` and `parser.c`, some 5,000 generated lines: the model has
  the grammar they are generated from.  `sql_display.c` is debug output.
* The memory registry (`bcmem.c`): its promise, that misuse is found, depends
  on what freed memory happens to hold, and what can be said of correct use
  holds by construction.  Nothing in the library calls the garbage pools.
* Configuration, debug output, the search for a plugin's file: input and output
  alone.  Temporary ids, `bonddbparse_verifysql` and `mem_concatenate_list`
  have no caller.
* Of the backend, the wrappers of one libpq call each, the conversion of types
  and `_db_findgroups`.

These are most of the repository's lines; of the files that make up the running
library (`bonddb/`, `bondsql/` without the generated ones, `pgsql/`) the map
covers about half.

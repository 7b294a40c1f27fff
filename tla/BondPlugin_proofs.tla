-------------------------- MODULE BondPlugin_proofs --------------------------
(***************************************************************************)
(* What the plugin keeps of the defaults of columns does not show: the     *)
(* sequence gives every key once (KeysUnique), and the default of a column *)
(* is the one declared (DefaultAsDeclared) if none is declared anew while  *)
(* it is kept, for any columns and defaults; notifications are handed on   *)
(* in order; a table has every foreign key it has, once, if no two of them *)
(* are to one column and none is added while they are kept; and the roles  *)
(* it finds are those that a user inherits, for any roles and memberships. *)
(***************************************************************************)
EXTENDS BondPlugin, BondRoles, SequenceTheorems, FiniteSetTheorems,
        SetInduction

\* The shape of the plugin and the types of what its defaults come from.
Shape ==
  /\ DOMAIN plugin = {"cache_dictonary", "defaulthash", "referencehash"}
  /\ DOMAIN plugin.defaulthash = Column
  /\ DOMAIN database = {"sequence", "default", "trigger"}
  /\ database.sequence \in [Server -> Nat]
  /\ database.default \in [Column -> Declaration]

\* What is kept of a default is the entry of one that was declared: of the
\* one declared now, if none is declared anew while it is kept.
Kept ==
  \A c \in Column : plugin.defaulthash[c] # NONE =>
    \E d \in Declaration :
      /\ plugin.defaulthash[c] = Entry(d)
      /\ "catalogKept" \in PluginDiscipline => d = database.default[c]

\* The sequence of the master has gone past every key it gave.
Issued ==
  /\ drawn \in Seq(Nat)
  /\ \A i \in DOMAIN drawn : drawn[i] <= database.sequence["master"]

PluginInv == Shape /\ Kept /\ Issued /\ KeysUnique

-----------------------------------------------------------------------------
\* The entry in force, kept or asked for, is that of a default declared.
EntryInForce(c) ==
  IF plugin.cache_dictonary /\ plugin.defaulthash[c] # NONE
  THEN plugin.defaulthash[c] ELSE Entry(database.default[c])

LEMMA InForce ==
  ASSUME Shape, Kept, NEW c \in Column
  PROVE  \E d \in Declaration :
           /\ EntryInForce(c) = Entry(d)
           /\ "catalogKept" \in PluginDiscipline => d = database.default[c]
<1>1. database.default[c] \in Declaration
  BY DEF Shape
<1> QED
  BY <1>1 DEF Kept, EntryInForce

\* An entry has a function to run exactly when its default is a call.
LEMMA EntryOfCall ==
  ASSUME PluginAssumption, NEW d \in Declaration
  PROVE  /\ Entry(d).value = d.text
         /\ Entry(d).func = NONE <=> d.call = "none"
         /\ d.call # "none" => Entry(d).func = d
         /\ d.call \in Call
BY DEF Entry, PluginAssumption

\* A call that is not nextval takes nothing from a sequence; nextval takes
\* the next key of the master.
LEMMA RunDraws ==
  ASSUME Shape, NEW d \in Declaration, PluginAssumption,
         d.call # "none", Run(d)
  PROVE  \/ UNCHANGED <<database, drawn>>
         \/ /\ database' = [database EXCEPT !.sequence["master"] = @ + 1]
            /\ drawn' = Append(drawn, database.sequence["master"] + 1)
<1>1. d.call \in {"nextval", "other"}
  BY DEF PluginAssumption, Call
<1>2. CASE d.call = "other"
  BY <1>2 DEF Run
<1>3. CASE d.call = "nextval"
  <2>1. RunsOn(d) = "master"
    BY <1>3 DEF RunsOn
  <2> QED
    BY <1>3, <2>1 DEF Run
<1> QED
  BY <1>1, <1>2, <1>3

\* Asking for a default draws at most the next key, and keeps at most the
\* entry in force.
LEMMA DefaultSteps ==
  ASSUME PluginAssumption, Shape, Kept, NEW c \in Column, DefaultValue(c)
  PROVE  /\ \E d \in Declaration :
              /\ "catalogKept" \in PluginDiscipline => d = database.default[c]
              /\ \/ UNCHANGED plugin
                 \/ plugin' = [plugin EXCEPT !.defaulthash[c] = Entry(d)]
         /\ \/ UNCHANGED <<database, drawn>>
            \/ /\ database' = [database EXCEPT !.sequence["master"] = @ + 1]
               /\ drawn' = Append(drawn, database.sequence["master"] + 1)
<1> DEFINE entry == EntryInForce(c)
<1>1. PICK d \in Declaration :
        /\ entry = Entry(d)
        /\ "catalogKept" \in PluginDiscipline => d = database.default[c]
  BY InForce
<1>3. \/ UNCHANGED plugin
      \/ plugin' = [plugin EXCEPT !.defaulthash[c] = entry]
  BY DEF DefaultValue, EntryInForce
<1>4. \/ UNCHANGED <<database, drawn>>
      \/ entry.func # NONE /\ Run(entry.func)
  BY DEF DefaultValue, EntryInForce
<1>5. CASE entry.func # NONE /\ Run(entry.func)
  <2>1. d.call # "none" /\ entry.func = d
    BY <1>1, <1>5, EntryOfCall
  <2>2. \/ UNCHANGED <<database, drawn>>
        \/ /\ database' = [database EXCEPT !.sequence["master"] = @ + 1]
           /\ drawn' = Append(drawn, database.sequence["master"] + 1)
    BY <1>1, <1>5, <2>1, RunDraws
  <2> HIDE DEF entry
  <2> QED
    BY <1>1, <1>3, <2>2
<1> HIDE DEF entry
<1> QED
  BY <1>1, <1>3, <1>4, <1>5

-----------------------------------------------------------------------------
\* A step that draws the next key of the master, or none, keeps the keys
\* apart.
LEMMA DrawNext ==
  ASSUME Shape, Issued, KeysUnique,
         database' = [database EXCEPT !.sequence["master"] = @ + 1],
         drawn' = Append(drawn, database.sequence["master"] + 1)
  PROVE  /\ Issued' /\ KeysUnique'
         /\ DOMAIN database' = DOMAIN database
         /\ database'.sequence \in [Server -> Nat]
         /\ database'.default = database.default
<1> DEFINE n == database.sequence["master"]
<1>1. n \in Nat /\ database'.sequence["master"] = n + 1
  BY DEF Shape, Server
<1>2. /\ drawn' \in Seq(Nat)
      /\ DOMAIN drawn' = DOMAIN drawn \cup {Len(drawn) + 1}
      /\ drawn'[Len(drawn) + 1] = n + 1
      /\ \A i \in DOMAIN drawn : drawn'[i] = drawn[i]
      /\ \A i \in DOMAIN drawn : drawn[i] \in Nat /\ drawn[i] <= n
  BY <1>1 DEF Issued
<1>3. Issued'
  BY <1>1, <1>2 DEF Issued
<1>4. KeysUnique'
  <2> SUFFICES ASSUME NEW i \in DOMAIN drawn', NEW j \in DOMAIN drawn', i # j
               PROVE  drawn'[i] # drawn'[j]
    BY DEF KeysUnique
  <2> QED
    BY <1>1, <1>2 DEF KeysUnique
<1> QED
  BY <1>3, <1>4 DEF Shape, Server

LEMMA DefaultKeepsInv ==
  ASSUME PluginAssumption, PluginInv, NEW c \in Column, DefaultValue(c)
  PROVE  PluginInv'
<1> USE DEF PluginInv
<1>1. /\ DOMAIN database' = DOMAIN database
      /\ database'.sequence \in [Server -> Nat]
      /\ database'.default = database.default
      /\ Issued' /\ KeysUnique'
  <2>1. CASE UNCHANGED <<database, drawn>>
    BY <2>1 DEF Issued, KeysUnique, Shape
  <2>2. CASE /\ database' = [database EXCEPT !.sequence["master"] = @ + 1]
             /\ drawn' = Append(drawn, database.sequence["master"] + 1)
    BY <2>2, DrawNext
  <2> QED
    BY <2>1, <2>2, DefaultSteps
<1>2. /\ DOMAIN plugin' = DOMAIN plugin
      /\ DOMAIN plugin'.defaulthash = Column
      /\ \A b \in Column :
           \/ plugin'.defaulthash[b] = plugin.defaulthash[b]
           \/ \E d \in Declaration :
                /\ plugin'.defaulthash[b] = Entry(d)
                /\ "catalogKept" \in PluginDiscipline => d = database.default[b]
  <2>1. PICK d \in Declaration :
          /\ "catalogKept" \in PluginDiscipline => d = database.default[c]
          /\ \/ UNCHANGED plugin
             \/ plugin' = [plugin EXCEPT !.defaulthash[c] = Entry(d)]
    BY DefaultSteps
  <2> QED
    BY <2>1 DEF Shape
<1>3. Kept'
  <2> SUFFICES ASSUME NEW b \in Column, plugin'.defaulthash[b] # NONE
               PROVE  \E d \in Declaration :
                        /\ plugin'.defaulthash[b] = Entry(d)
                        /\ "catalogKept" \in PluginDiscipline
                             => d = database'.default[b]
    BY DEF Kept, Entry
  <2>1. CASE plugin'.defaulthash[b] = plugin.defaulthash[b]
    BY <1>1, <2>1 DEF Kept
  <2>2. CASE \E d \in Declaration :
               /\ plugin'.defaulthash[b] = Entry(d)
               /\ "catalogKept" \in PluginDiscipline => d = database.default[b]
    BY <1>1, <2>2
  <2> QED
    BY <1>2, <2>1, <2>2
<1> QED
  BY <1>1, <1>2, <1>3 DEF Shape

-----------------------------------------------------------------------------
LEMMA PluginInvInit ==
  ASSUME PluginAssumption, PluginInit
  PROVE  PluginInv
<1>1. Shape
  BY DEF PluginInit, NewPlugin, Shape, Server
<1>2. Kept
  BY DEF PluginInit, NewPlugin, Kept
<1>3. Issued /\ KeysUnique
  BY DEF PluginInit, Issued, KeysUnique
<1> QED
  BY <1>1, <1>2, <1>3 DEF PluginInv

\* A step that leaves alone the sequence, the defaults and what is kept of
\* them, or forgets what is kept.
LEMMA Aside ==
  ASSUME PluginInv, UNCHANGED drawn,
         DOMAIN plugin' = DOMAIN plugin, DOMAIN database' = DOMAIN database,
         database'.sequence = database.sequence,
         database'.default = database.default,
         \/ plugin'.defaulthash = plugin.defaulthash
         \/ plugin'.defaulthash = [c \in Column |-> NONE]
  PROVE  PluginInv'
<1>1. Shape'
  BY DEF PluginInv, Shape
<1>2. Kept'
  BY DEF PluginInv, Kept, Entry
<1>3. Issued' /\ KeysUnique'
  BY DEF PluginInv, Issued, KeysUnique
<1> QED
  BY <1>1, <1>2, <1>3 DEF PluginInv

LEMMA PluginInvStep ==
  ASSUME PluginAssumption, PluginInv, [PluginNext]_pluginVars
  PROVE  PluginInv'
<1>1. CASE \E c \in Column : DefaultValue(c)
  BY <1>1, DefaultKeepsInv
<1>2. CASE \E state \in BOOLEAN : SetCache(state)
  BY <1>2, Aside DEF SetCache, PluginInv, Shape
<1>3. CASE \E t \in Table : FindReference(t)
  BY <1>3, Aside DEF FindReference, PluginInv, Shape
<1>4. CASE NotifyListen \/ NotifyCheck \/ Notify \/ \E s \in Server : Break(s)
  BY <1>4, Aside DEF NotifyListen, NotifyCheck, Notify, Break
<1>5. CASE OtherDraws
  <2>1. UNCHANGED plugin
    BY <1>5 DEF OtherDraws
  <2>2. database' = [database EXCEPT !.sequence["master"] = @ + 1]
    BY <1>5 DEF OtherDraws
  <2>3. drawn' = Append(drawn, database.sequence["master"] + 1)
    BY <1>5, <2>2 DEF OtherDraws, PluginInv, Shape, Server
  <2>4. /\ Issued' /\ KeysUnique'
        /\ DOMAIN database' = DOMAIN database
        /\ database'.sequence \in [Server -> Nat]
        /\ database'.default = database.default
    BY <2>2, <2>3, DrawNext DEF PluginInv
  <2> QED
    BY <2>1, <2>4 DEF PluginInv, Shape, Kept, Entry
<1>6. CASE \E c \in Column, e \in Declaration : AlterDefault(c, e)
  <2> PICK c \in Column, e \in Declaration : AlterDefault(c, e)
    BY <1>6
  <2>1. /\ database' = [database EXCEPT !.default[c] = e]
        /\ "catalogKept" \in PluginDiscipline => plugin.defaulthash[c] = NONE
        /\ UNCHANGED <<plugin, drawn>>
    BY DEF AlterDefault
  <2>2. /\ DOMAIN database' = DOMAIN database
        /\ database'.sequence = database.sequence
        /\ database'.default = [database.default EXCEPT ![c] = e]
    BY <2>1 DEF PluginInv, Shape
  <2>3. Shape' /\ Kept'
    BY <2>1, <2>2 DEF PluginInv, Shape, Kept, Entry
  <2> QED
    BY <2>1, <2>2, <2>3 DEF PluginInv, Issued, KeysUnique
<1>7. CASE \E r \in Reference : AddForeignKey(r)
  BY <1>7, Aside DEF AddForeignKey, PluginInv, Shape
<1>8. CASE Restart
  BY <1>8, Aside DEF Restart, NewPlugin, PluginInv, Shape
<1>9. CASE UNCHANGED pluginVars
  BY <1>9, Aside DEF pluginVars
<1> QED
  BY <1>1, <1>2, <1>3, <1>4, <1>5, <1>6, <1>7, <1>8, <1>9 DEF PluginNext

-----------------------------------------------------------------------------
\* No two rows are given the same key by the sequence, whoever inserts them
\* and whatever the plugin keeps.
THEOREM SequenceKeysUnique == PluginSpec => []KeysUnique
<1>1. PluginInit => PluginInv
  BY PluginAssumption, PluginInvInit
<1>2. PluginInv /\ [PluginNext]_pluginVars => PluginInv'
  BY PluginAssumption, PluginInvStep
<1>3. PluginInv => KeysUnique
  BY DEF PluginInv
<1> QED
  BY <1>1, <1>2, <1>3, PTL DEF PluginSpec

\* Whatever the plugin keeps, the default of a column is the one declared.
LEMMA Declared ==
  ASSUME PluginAssumption, PluginInv, "catalogKept" \in PluginDiscipline, NEW c \in Column, DefaultValue(c)
  PROVE  LET d == database.default[c] IN
         \/ answer' = NONE /\ (d.text = "" \/ \E s \in Server : ~conn[s].alive)
         \/ d.text # "" /\ d.call = "none" /\ answer' = [text |-> d.text]
         \/ d.call = "other" /\ answer' = [server |-> "local"]
         \/ /\ d.call = "nextval"
            /\ answer' = [key |-> database.sequence["master"] + 1]
<1> DEFINE d == database.default[c]
           entry == EntryInForce(c)
<1>1. d \in Declaration
  BY DEF PluginInv, Shape
<1>2. entry = Entry(d)
  BY InForce DEF PluginInv
<1>3. /\ entry.value = d.text
      /\ entry.func = NONE <=> d.call = "none"
      /\ d.call # "none" => entry.func = d
      /\ d.call \in Call
  BY <1>1, <1>2, EntryOfCall
<1>4. \/ answer' = NONE /\ ~conn["local"].alive
      \/ entry.value = "" /\ answer' = NONE
      \/ /\ entry.value # "" /\ entry.func = NONE
         /\ answer' = [text |-> entry.value]
      \/ entry.value # "" /\ entry.func # NONE /\ Run(entry.func)
  BY DEF DefaultValue, EntryInForce
<1>5. CASE entry.func # NONE /\ Run(entry.func)
  <2>1. d.call \in {"nextval", "other"} /\ Run(d)
    BY <1>3, <1>5 DEF Call
  <2>2. RunsOn(d) = IF d.call = "nextval" THEN "master" ELSE "local"
    BY DEF RunsOn
  <2> QED
    BY <2>1, <2>2 DEF Run, Server
<1> QED
  BY <1>3, <1>4, <1>5 DEF Server

\* The default of a column is what the database would use for it, whether or
\* not it is kept, or nothing while a connection is broken, provided that no
\* default is declared anew while it is kept.
THEOREM DefaultsDeclared ==
  ASSUME "catalogKept" \in PluginDiscipline
  PROVE  PluginSpec => DefaultAsDeclared
<1>1. PluginInit => PluginInv
  BY PluginAssumption, PluginInvInit
<1>2. PluginInv /\ [PluginNext]_pluginVars => PluginInv'
  BY PluginAssumption, PluginInvStep
<1>3. PluginInv => \A c \in Column : DefaultValue(c) =>
        LET d == database.default[c] IN
        \/ answer' = NONE /\ (d.text = "" \/ \E s \in Server : ~conn[s].alive)
        \/ d.text # "" /\ d.call = "none" /\ answer' = [text |-> d.text]
        \/ d.call = "other" /\ answer' = [server |-> "local"]
        \/ /\ d.call = "nextval"
           /\ answer' = [key |-> database.sequence["master"] + 1]
  BY PluginAssumption, Declared
<1> QED
  BY <1>1, <1>2, <1>3, PTL DEF PluginSpec, DefaultAsDeclared

-----------------------------------------------------------------------------
(* Notifications.                                                          *)

\* The types of the connections, and nothing is on its way on a broken one.
Connection == [alive : BOOLEAN, listening : BOOLEAN, wire : Seq(Nat),
               buffer : Seq(Nat)]
Broken(k) == ~k.alive => k.wire = <<>>
ConnInv ==
  /\ conn \in [Server -> Connection]
  /\ \A s \in Server : Broken(conn[s])
  /\ raised \in Nat

LEMMA ReadKeeps ==
  ASSUME NEW k \in Connection, Broken(k)
  PROVE  /\ ReadInput(k) \in Connection /\ Broken(ReadInput(k))
         /\ CheckNotify(k) \in Connection /\ Broken(CheckNotify(k))
<1>1. k.buffer \in Seq(Nat) /\ k.wire \in Seq(Nat) /\ <<>> \in Seq(Nat)
  BY DEF Connection
<1>2. k.buffer \o k.wire \in Seq(Nat)
  BY <1>1, ConcatProperties
<1>3. ReadInput(k) \in Connection /\ Broken(ReadInput(k))
  BY <1>1, <1>2 DEF Connection, Broken, ReadInput
<1> QED
  BY <1>3 DEF CheckNotify


LEMMA ExecKeeps ==
  ASSUME ConnInv, NEW S, Exec(S), UNCHANGED raised
  PROVE  ConnInv'
<1>1. \A s \in Server : /\ conn'[s] \in Connection /\ Broken(conn'[s])
  BY ReadKeeps DEF ConnInv, Exec
<1>2. conn' = [s \in Server |-> conn'[s]]
  BY DEF Exec
<1> QED
  BY <1>1, <1>2 DEF ConnInv

LEMMA ConnInvStep ==
  ASSUME PluginAssumption, ConnInv, [PluginNext]_pluginVars
  PROVE  ConnInv'
<1>1. CASE \E c \in Column : DefaultValue(c)
  <2>1. UNCHANGED raised /\ (UNCHANGED conn \/ \E S : Exec(S))
    BY <1>1 DEF DefaultValue
  <2> QED
    BY <2>1, ExecKeeps DEF ConnInv
<1>2. CASE \E t \in Table : FindReference(t)
  <2>1. UNCHANGED raised /\ \E S : Exec(S)
    BY <1>2 DEF FindReference
  <2> QED
    BY <2>1, ExecKeeps
<1>3. CASE NotifyListen
  <2>1. \A s \in Server :
          /\ ReadInput(conn[s]) \in Connection /\ Broken(ReadInput(conn[s]))
          /\ conn[s].alive \in BOOLEAN
    BY ReadKeeps DEF ConnInv, Connection
  <2>2. \A s \in Server : conn'[s] =
          [ReadInput(conn[s]) EXCEPT !.listening = @ \/ conn[s].alive]
    BY <1>3 DEF NotifyListen
  <2>3. \A s \in Server : conn'[s] \in Connection /\ Broken(conn'[s])
    BY <2>1, <2>2 DEF Connection, Broken
  <2>4. conn' = [s \in Server |-> conn'[s]] /\ UNCHANGED raised
    BY <1>3 DEF NotifyListen
  <2> QED
    BY <2>3, <2>4 DEF ConnInv
<1>4. CASE NotifyCheck
  <2> DEFINE k == CheckNotify(conn["master"])
  <2>1. k \in Connection /\ Broken(k)
    BY ReadKeeps DEF ConnInv, Server
  <2>2. /\ conn' = [conn EXCEPT !["master"] =
                      IF k.buffer = <<>> THEN k
                      ELSE [k EXCEPT !.buffer = Tail(@)]]
        /\ UNCHANGED raised
    BY <1>4 DEF NotifyCheck
  <2>3. k.buffer # <<>> => [k EXCEPT !.buffer = Tail(@)] \in Connection
                            /\ Broken([k EXCEPT !.buffer = Tail(@)])
    <3>1. k.buffer \in Seq(Nat)
      BY <2>1 DEF Connection
    <3>2. k.buffer # <<>> => Tail(k.buffer) \in Seq(Nat)
      BY <3>1, HeadTailProperties
    <3> QED
      BY <2>1, <3>2 DEF Connection, Broken
  <2> QED
    BY <2>1, <2>2, <2>3 DEF ConnInv, Server
<1>5. CASE Notify
  <2> DEFINE k == conn["master"]
             hears == k.alive /\ k.listening
             wire == IF hears THEN Append(k.wire, raised + 1) ELSE k.wire
  <2>1. k \in Connection /\ Broken(k) /\ raised \in Nat
    BY DEF ConnInv, Server
  <2>2. k.wire \in Seq(Nat) /\ raised + 1 \in Nat
    BY <2>1 DEF Connection
  <2>3. wire \in Seq(Nat) /\ (~k.alive => wire = <<>>)
    BY <2>1, <2>2, AppendProperties DEF Broken
  <2>4. /\ [k EXCEPT !.wire = wire] \in Connection
        /\ Broken([k EXCEPT !.wire = wire])
    BY <2>1, <2>3 DEF Connection, Broken
  <2>5. /\ conn' = [conn EXCEPT !["master"] = [k EXCEPT !.wire = wire]]
        /\ raised' = raised + 1
    BY <1>5 DEF Notify
  <2> QED
    BY <2>2, <2>4, <2>5 DEF ConnInv, Server
<1>6. CASE \E s \in Server : Break(s)
  <2> PICK s \in Server : Break(s)
    BY <1>6
  <2> DEFINE k == [conn[s] EXCEPT !.alive = FALSE, !.wire = <<>>]
  <2>1. conn' = [conn EXCEPT ![s] = k] /\ UNCHANGED raised
    BY DEF Break, ConnInv
  <2>2. conn[s] \in Connection /\ <<>> \in Seq(Nat)
    BY DEF ConnInv
  <2>3. k \in Connection /\ Broken(k)
    BY <2>2 DEF Connection, Broken
  <2> QED
    BY <2>1, <2>3 DEF ConnInv
<1>7. CASE Restart
  BY <1>7 DEF Restart, NewConn, ConnInv, Connection, Broken
<1>8. CASE UNCHANGED <<conn, raised>>
  BY <1>8 DEF ConnInv
<1>9. CASE \/ \E state \in BOOLEAN : SetCache(state)
           \/ OtherDraws
           \/ \E c \in Column, d \in Declaration : AlterDefault(c, d)
           \/ \E r \in Reference : AddForeignKey(r)
  BY <1>8, <1>9 DEF SetCache, OtherDraws, AlterDefault, AddForeignKey
<1> QED
  BY <1>1, <1>2, <1>3, <1>4, <1>5, <1>6, <1>7, <1>8, <1>9
  DEF PluginNext, pluginVars

LEMMA HeadOfConcat ==
  ASSUME NEW S, NEW s \in Seq(S), NEW t \in Seq(S), s # <<>>
  PROVE  s \o t # <<>> /\ Head(s \o t) = Head(s)
<1>1. Len(s) \in Nat \ {0} /\ Len(t) \in Nat
  BY EmptySeq
<1>2. (s \o t)[1] = s[1]
  BY <1>1, ConcatProperties
<1>3. s \o t # <<>>
  BY ConcatEqualIffEmpty, ConcatSimplifications
<1>4. s \o t \in Seq(S)
  BY ConcatProperties
<1> QED
  BY <1>2, <1>3, <1>4

\* What a check hands out is the first of what was read and what arrived.
LEMMA HandsOldest ==
  ASSUME ConnInv, NotifyCheck
  PROVE  LET there == conn["master"].buffer \o conn["master"].wire IN
         answer' = IF there = <<>> THEN NONE ELSE [note |-> Head(there)]
<1> DEFINE k == conn["master"]
           there == k.buffer \o k.wire
<1>1. k \in Connection /\ Broken(k)
  BY DEF ConnInv, Server
<1>2. /\ k.buffer \in Seq(Nat) /\ k.wire \in Seq(Nat)
      /\ k.buffer # <<>> => there # <<>> /\ Head(there) = Head(k.buffer)
      /\ k.buffer = <<>> => there = k.wire
  <2>1. k.buffer \in Seq(Nat) /\ k.wire \in Seq(Nat)
    BY <1>1 DEF Connection
  <2>2. k.buffer = <<>> => there = k.wire
    BY <2>1, ConcatEmptySeq
  <2>3. k.buffer # <<>> => there # <<>> /\ Head(there) = Head(k.buffer)
    BY <2>1, HeadOfConcat
  <2> QED
    BY <2>1, <2>2, <2>3
<1>3. answer' = IF CheckNotify(k).buffer = <<>> THEN NONE
                ELSE [note |-> Head(CheckNotify(k).buffer)]
  BY DEF NotifyCheck
<1>4. CASE k.buffer # <<>>
  BY <1>2, <1>3, <1>4 DEF CheckNotify
<1>5. CASE k.buffer = <<>>
  <2>1. CheckNotify(k).buffer = there
    BY <1>1, <1>2, <1>5 DEF CheckNotify, ReadInput, Connection, Broken
  <2> QED
    BY <1>3, <2>1
<1> QED
  BY <1>4, <1>5

\* A check hands out the oldest notification there is, whatever statements
\* have read of the connection in between and whenever it broke.
THEOREM ChecksHandOldest == PluginSpec => CheckHandsOldest
<1>1. PluginInit => ConnInv
  BY DEF PluginInit, NewConn, ConnInv, Connection, Broken
<1>2. ConnInv /\ [PluginNext]_pluginVars => ConnInv'
  BY PluginAssumption, ConnInvStep
<1>3. ConnInv => (NotifyCheck =>
        LET there == conn["master"].buffer \o conn["master"].wire IN
        answer' = IF there = <<>> THEN NONE ELSE [note |-> Head(there)])
  BY HandsOldest
<1> QED
  BY <1>1, <1>2, <1>3, PTL DEF PluginSpec, CheckHandsOldest

-----------------------------------------------------------------------------
(* Foreign keys: a table has every reference of the triggers, and no two   *)
(* of a table are to one field, however many triggers stand for each.      *)

\* The rules that foreign keys are found by.
KeysFindable == {"catalogKept", "oneKeyPerColumn"} \subseteq PluginDiscipline

\* A foreign key is told by its table and the field it is to.
OneReference(triggers) ==
  \A i, j \in DOMAIN triggers :
    /\ triggers[i].fromtable = triggers[j].fromtable
    /\ triggers[i].totable = triggers[j].totable
    /\ triggers[i].tofield = triggers[j].tofield
    => triggers[i] = triggers[j]

\* The list of table t after the first m triggers.
ListOf(list, triggers, m, t) ==
  /\ list \in Seq(Reference)
  /\ ToSet(list) = {r \in {triggers[i] : i \in 1..m} : r.fromtable = t}
  /\ IsInjective(list)

\* What the first m triggers lead to.
Founds(g, triggers, m) ==
  /\ g[0] = [t \in Table |-> <<>>]
  /\ \A i \in 1..m : g[i] = ConstraintAdd(g[i - 1], triggers[i])

LEMMA FoundsExist ==
  ASSUME NEW triggers, NEW N \in Nat
  PROVE  \E g : g = [i \in 0..N |-> g[i]] /\ Founds(g, triggers, N)
<1> DEFINE T == {m \in Nat : \E g : /\ g = [i \in 0..m |-> g[i]]
                                   /\ Founds(g, triggers, m)}
<1>1. 0 \in T
  <2> DEFINE g == [i \in 0..0 |-> [t \in Table |-> <<>>]]
  <2>1. g = [i \in 0..0 |-> g[i]] /\ Founds(g, triggers, 0)
    BY DEF Founds
  <2> HIDE DEF g
  <2> QED
    BY <2>1
<1>2. ASSUME NEW m \in Nat, m \in T PROVE m + 1 \in T
  <2>1. PICK g : g = [i \in 0..m |-> g[i]] /\ Founds(g, triggers, m)
    BY <1>2
  <2> DEFINE h == [i \in 0..(m + 1) |-> IF i = m + 1
                                       THEN ConstraintAdd(g[m], triggers[m + 1])
                                       ELSE g[i]]
  <2>2. h = [i \in 0..(m + 1) |-> h[i]] /\ h[0] = [t \in Table |-> <<>>]
    BY <2>1 DEF Founds
  <2>3. ASSUME NEW i \in 1..(m + 1)
        PROVE  h[i] = ConstraintAdd(h[i - 1], triggers[i])
    <3>1. i - 1 \in 0..m /\ h[i - 1] = g[i - 1]
      OBVIOUS
    <3>2. CASE i = m + 1
      BY <3>1, <3>2
    <3>3. CASE i \in 1..m
      <4>1. h[i] = g[i]
        BY <3>3
      <4> QED
        BY <2>1, <3>1, <3>3, <4>1 DEF Founds
    <3> QED
      BY <3>2, <3>3
  <2> HIDE DEF h
  <2>4. Founds(h, triggers, m + 1)
    BY <2>2, <2>3 DEF Founds
  <2> QED
    BY <2>2, <2>4
<1> HIDE DEF T
<1>3. N \in T
  BY <1>1, <1>2, NatSetInduction
<1> QED
  BY <1>3 DEF T

LEMMA ConstraintInitGives ==
  ASSUME NEW triggers, Len(triggers) \in Nat
  PROVE  \E g : /\ Founds(g, triggers, Len(triggers))
                /\ ConstraintInit(triggers) = g[Len(triggers)]
<1> DEFINE N == Len(triggers)
           found[i \in 0..N] ==
             IF i = 0 THEN [t \in Table |-> <<>>]
             ELSE ConstraintAdd(found[i - 1], triggers[i])
<1>1. PICK g : g = [i \in 0..N |-> g[i]] /\ Founds(g, triggers, N)
  BY FoundsExist
<1>2. g = [i \in 0..N |-> IF i = 0 THEN [t \in Table |-> <<>>]
                          ELSE ConstraintAdd(g[i - 1], triggers[i])]
  BY <1>1 DEF Founds
<1>3. found = [i \in 0..N |-> IF i = 0 THEN [t \in Table |-> <<>>]
                              ELSE ConstraintAdd(found[i - 1], triggers[i])]
  BY <1>2 DEF found
<1>4. ConstraintInit(triggers) = found[N]
  BY DEF ConstraintInit
<1> HIDE DEF found
<1>5. Founds(found, triggers, N)
  BY <1>3 DEF Founds
<1> QED
  BY <1>4, <1>5

\* One trigger more: its reference is added unless it is there.
LEMMA ListGrows ==
  ASSUME NEW triggers \in Seq(Reference), OneReference(triggers),
         NEW m \in Nat, m + 1 \in DOMAIN triggers, NEW h, NEW t \in Table,
         h = [u \in Table |-> h[u]], \A u \in Table : ListOf(h[u], triggers, m, u)
  PROVE  ListOf(ConstraintAdd(h, triggers[m + 1])[t], triggers, m + 1, t)
<1> DEFINE r == triggers[m + 1]
           list == h[t]
<1>1. r \in Reference /\ r.fromtable \in Table
  BY DEF Table
<1>2. 1..(m + 1) = (1..m) \cup {m + 1}
  OBVIOUS
<1>3. {triggers[i] : i \in 1..(m + 1)} = {triggers[i] : i \in 1..m} \cup {r}
  BY <1>2
<1>4. ListOf(list, triggers, m, t)
  OBVIOUS
<1> HIDE DEF r, list
<1>5. CASE r.fromtable # t
  <2>1. ConstraintAdd(h, r)[t] = list
    BY <1>1, <1>5 DEF ConstraintAdd, list
  <2> QED
    BY <1>3, <1>4, <1>5, <2>1 DEF ListOf, r
<1>6. CASE r.fromtable = t /\ ConstraintValid(list, r)
  <2>1. ConstraintAdd(h, r)[t] = Append(list, r)
    BY <1>1, <1>6 DEF ConstraintAdd, list
  <2>2. /\ list \in Seq(Reference) /\ Append(list, r) \in Seq(Reference)
        /\ DOMAIN Append(list, r) = DOMAIN list \cup {Len(list) + 1}
        /\ \A i \in DOMAIN list : Append(list, r)[i] = list[i]
        /\ Append(list, r)[Len(list) + 1] = r
    <3>1. list \in Seq(Reference)
      BY <1>4 DEF ListOf
    <3> QED
      BY <1>1, <3>1
  <2>3. \A i \in DOMAIN list : list[i] # r
    BY <1>6 DEF ConstraintValid
  <2>4. ToSet(Append(list, r)) = ToSet(list) \cup {r}
    BY <2>2 DEF ToSet
  <2>5. IsInjective(Append(list, r))
    BY <1>4, <2>2, <2>3 DEF IsInjective, ListOf
  <2>6. ToSet(Append(list, r))
          = {q \in {triggers[i] : i \in 1..(m + 1)} : q.fromtable = t}
    BY <1>3, <1>4, <1>6, <2>4 DEF ListOf
  <2> QED
    BY <2>1, <2>2, <2>5, <2>6 DEF ListOf, r
<1>7. CASE r.fromtable = t /\ ~ConstraintValid(list, r)
  <2>1. ConstraintAdd(h, r)[t] = list
    BY <1>1, <1>7 DEF ConstraintAdd, list
  <2>2. PICK q \in ToSet(list) : q.totable = r.totable /\ q.tofield = r.tofield
    BY <1>7 DEF ConstraintValid, ToSet
  <2>3. PICK i \in 1..m : q = triggers[i] /\ q.fromtable = t
    BY <1>4, <2>2 DEF ListOf
  <2>4. i \in DOMAIN triggers
    OBVIOUS
  <2>5. q = r
    BY <1>7, <2>2, <2>3, <2>4 DEF OneReference, r
  <2>6. r \in {p \in {triggers[j] : j \in 1..m} : p.fromtable = t}
    BY <1>7, <2>3, <2>5
  <2>7. ToSet(list) = {p \in {triggers[j] : j \in 1..(m + 1)} : p.fromtable = t}
    BY <1>3, <1>4, <2>6 DEF ListOf
  <2> QED
    BY <1>4, <2>1, <2>7 DEF ListOf, r
<1> QED
  BY <1>5, <1>6, <1>7 DEF r

\* The references of each table, from the triggers.
LEMMA ConstraintInitFinds ==
  ASSUME NEW triggers \in Seq(Reference), OneReference(triggers),
         NEW t \in Table
  PROVE  ListOf(ConstraintInit(triggers)[t], triggers, Len(triggers), t)
<1> DEFINE N == Len(triggers)
<1>0. N \in Nat /\ DOMAIN triggers = 1..N
  OBVIOUS
<1>1. PICK g : Founds(g, triggers, N) /\ ConstraintInit(triggers) = g[N]
  BY <1>0, ConstraintInitGives
<1> DEFINE Right(m) == /\ g[m] = [u \in Table |-> g[m][u]]
                       /\ \A u \in Table : ListOf(g[m][u], triggers, m, u)
           T == {m \in Nat : m <= N => Right(m)}
<1>2. 0 \in T
  <2>1. g[0] = [u \in Table |-> <<>>]
    BY <1>1 DEF Founds
  <2>2. ASSUME NEW u PROVE ListOf(<<>>, triggers, 0, u)
    BY DEF ListOf, ToSet, IsInjective
  <2> QED
    BY <2>1, <2>2
<1>3. ASSUME NEW m \in Nat, m \in T PROVE m + 1 \in T
  <2> SUFFICES ASSUME m + 1 <= N PROVE Right(m + 1)
    OBVIOUS
  <2> DEFINE h == g[m]
             r == triggers[m + 1]
  <2>1. h = [u \in Table |-> h[u]] /\ \A u \in Table : ListOf(h[u], triggers, m, u)
    BY <1>0, <1>3
  <2>2. m + 1 \in 1..N /\ (m + 1) - 1 = m
    BY <1>0
  <2>3. g[m + 1] = ConstraintAdd(h, r)
    BY <1>1, <2>2 DEF Founds
  <2> HIDE DEF h
  <2>4. g[m + 1] = [u \in Table |-> g[m + 1][u]]
    BY <2>1, <2>3 DEF ConstraintAdd
  <2>5. ASSUME NEW u \in Table
        PROVE  ListOf(g[m + 1][u], triggers, m + 1, u)
    BY <1>0, <2>1, <2>2, <2>3, ListGrows
  <2> QED
    BY <2>4, <2>5
<1> HIDE DEF T
<1>4. N \in T
  BY <1>0, <1>2, <1>3, NatSetInduction
<1> QED
  BY <1>0, <1>1, <1>4 DEF T

\* The triggers stand for foreign keys; what is kept of them, while the
\* connection holds that they were asked of, is what they say.
ReferenceInv ==
  /\ database.trigger \in Seq(Reference) /\ OneReference(database.trigger)
  /\ conn["local"].alive /\ plugin.referencehash # NONE =>
       plugin.referencehash = ConstraintInit(database.trigger)

\* Three triggers more.
LEMMA OneMore ==
  ASSUME NEW triggers \in Seq(Reference), OneReference(triggers),
         NEW r \in Reference,
         \A q \in ToSet(triggers) :
           <<q.fromtable, q.totable, q.tofield>>
             # <<r.fromtable, r.totable, r.tofield>>
  PROVE  /\ triggers \o <<r, r, r>> \in Seq(Reference)
         /\ OneReference(triggers \o <<r, r, r>>)
<1> DEFINE more == triggers \o <<r, r, r>>
<1>1. <<r, r, r>> \in Seq(Reference) /\ Len(<<r, r, r>>) = 3
  OBVIOUS
<1>2. /\ more \in Seq(Reference) /\ Len(more) = Len(triggers) + 3
      /\ \A i \in 1..Len(triggers) : more[i] = triggers[i]
      /\ \A i \in 1..Len(more) : i > Len(triggers) => more[i] = r
  BY <1>1
<1> HIDE DEF more
<1>3. ASSUME NEW i \in DOMAIN more
      PROVE  more[i] = r \/ (i \in DOMAIN triggers /\ more[i] = triggers[i])
  BY <1>2
<1>4. ASSUME NEW i \in DOMAIN triggers
      PROVE  ~ /\ triggers[i].fromtable = r.fromtable
               /\ triggers[i].totable = r.totable
               /\ triggers[i].tofield = r.tofield
  BY DEF ToSet
<1>5. OneReference(more)
  BY <1>3, <1>4 DEF OneReference
<1> QED
  BY <1>2, <1>5 DEF more

\* Steps that declare no foreign key, ask for none, and revive no connection
\* unless what was kept of them is forgotten.
LEMMA ReferencesAside ==
  ASSUME ReferenceInv, database'.trigger = database.trigger,
         \/ plugin'.referencehash = NONE
         \/ /\ plugin'.referencehash = plugin.referencehash
            /\ conn'["local"].alive => conn["local"].alive
  PROVE  ReferenceInv'
<1>1. database'.trigger \in Seq(Reference) /\ OneReference(database.trigger)'
  BY DEF ReferenceInv, OneReference
<1>2. ConstraintInit(database.trigger)' = ConstraintInit(database.trigger)
  BY DEF ConstraintInit, ConstraintAdd, ConstraintValid
<1> QED
  BY <1>1, <1>2 DEF ReferenceInv

LEMMA ExecAlive ==
  ASSUME ConnInv, NEW S, Exec(S)
  PROVE  conn'["local"].alive = conn["local"].alive
BY DEF ConnInv, Exec, ReadInput, Connection, Server

\* What a table's references are taken from, and what is kept.
LEMMA Gathered ==
  ASSUME Shape, ReferenceInv, NEW t \in Table, FindReference(t),
         conn["local"].alive
  PROVE  /\ answer' = [list |-> ConstraintInit(database.trigger)[t]]
         /\ plugin'.referencehash = ConstraintInit(database.trigger)
<1>1. "referencehash" \in DOMAIN plugin
  BY DEF Shape
<1> QED
  BY <1>1 DEF FindReference, ReferenceInv

LEMMA FindKeeps ==
  ASSUME Shape, ConnInv, ReferenceInv, NEW t \in Table, FindReference(t)
  PROVE  ReferenceInv'
<1>1. UNCHANGED database /\ \E S : Exec(S)
  BY DEF FindReference
<1>2. conn'["local"].alive = conn["local"].alive
  BY <1>1, ExecAlive
<1>3. /\ database'.trigger \in Seq(Reference) /\ OneReference(database.trigger)'
  BY <1>1 DEF ReferenceInv, OneReference
<1>4. ConstraintInit(database.trigger)' = ConstraintInit(database.trigger)
  BY <1>1 DEF ConstraintInit, ConstraintAdd, ConstraintValid
<1>5. conn["local"].alive =>
        plugin'.referencehash = ConstraintInit(database.trigger)
  BY Gathered
<1> QED
  BY <1>2, <1>3, <1>4, <1>5 DEF ReferenceInv

LEMMA AddKeeps ==
  ASSUME KeysFindable, Shape, ReferenceInv, NEW r \in Reference,
         AddForeignKey(r)
  PROVE  ReferenceInv'
<1>0. PICK more : more = database.trigger \o <<r, r, r>>
  OBVIOUS
<1>1. /\ UNCHANGED <<plugin, conn>> /\ plugin.referencehash = NONE
      /\ database'.trigger = more
  BY <1>0 DEF AddForeignKey, KeysFindable, Shape
<1>2. more \in Seq(Reference) /\ OneReference(more)
  BY <1>0, OneMore DEF ReferenceInv, AddForeignKey, KeysFindable
<1>3. OneReference(database.trigger)'
  BY <1>1, <1>2 DEF OneReference
<1> QED
  BY <1>1, <1>2, <1>3 DEF ReferenceInv

LEMMA ReferenceInvStep ==
  ASSUME PluginAssumption, KeysFindable, PluginInv, ConnInv, ReferenceInv,
         [PluginNext]_pluginVars
  PROVE  ReferenceInv'
<1>0. Shape /\ Kept
  BY DEF PluginInv
<1>1. ASSUME NEW c \in Column, DefaultValue(c) PROVE ReferenceInv'
  <2>1. plugin'.referencehash = plugin.referencehash
    BY <1>0, <1>1, DefaultSteps DEF Shape
  <2>2. database'.trigger = database.trigger
    BY <1>0, <1>1, DefaultSteps DEF Shape
  <2>3. UNCHANGED conn \/ \E S : Exec(S)
    BY <1>1 DEF DefaultValue
  <2>4. conn'["local"].alive = conn["local"].alive
    BY <2>3, ExecAlive
  <2> QED
    BY <2>1, <2>2, <2>4, ReferencesAside
<1>2. ASSUME NEW state \in BOOLEAN, SetCache(state) PROVE ReferenceInv'
  BY <1>0, <1>2, ReferencesAside DEF SetCache, Shape
<1>3. ASSUME NEW t \in Table, FindReference(t) PROVE ReferenceInv'
  BY <1>0, <1>3, FindKeeps
<1>4. CASE NotifyListen
  <2>1. conn'["local"].alive = conn["local"].alive
    BY <1>4 DEF NotifyListen, ConnInv, Connection, ReadInput, Server
  <2> QED
    BY <1>4, <2>1, ReferencesAside DEF NotifyListen
<1>5. CASE NotifyCheck \/ Notify
  <2>1. conn'["local"].alive = conn["local"].alive
    BY <1>5 DEF NotifyCheck, Notify, ConnInv, Server
  <2> QED
    BY <1>5, <2>1, ReferencesAside DEF NotifyCheck, Notify
<1>6. ASSUME NEW s \in Server, Break(s) PROVE ReferenceInv'
  <2>1. conn'["local"].alive => conn["local"].alive
    BY <1>6 DEF Break, ConnInv, Connection, Server
  <2> QED
    BY <1>6, <2>1, ReferencesAside DEF Break
<1>7. CASE OtherDraws
  BY <1>0, <1>7, ReferencesAside DEF OtherDraws, Shape
<1>8. ASSUME NEW c \in Column, NEW d \in Declaration, AlterDefault(c, d)
      PROVE  ReferenceInv'
  BY <1>0, <1>8, ReferencesAside DEF AlterDefault, Shape
<1>9. ASSUME NEW r \in Reference, AddForeignKey(r) PROVE ReferenceInv'
  BY <1>0, <1>9, AddKeeps
<1>10. CASE Restart
  BY <1>10, ReferencesAside DEF Restart, NewPlugin
<1>11. CASE UNCHANGED pluginVars
  BY <1>11, ReferencesAside DEF pluginVars
<1> QED
  BY <1>1, <1>2, <1>3, <1>4, <1>5, <1>6, <1>7, <1>8, <1>9, <1>10, <1>11
  DEF PluginNext

LEMMA Found ==
  ASSUME PluginInv, ReferenceInv, NEW t \in Table, FindReference(t),
         conn["local"].alive
  PROVE  /\ ToSet(answer'.list)
              = {r \in ToSet(database.trigger) : r.fromtable = t}
         /\ IsInjective(answer'.list)
<1> DEFINE triggers == database.trigger
<1>1. answer'.list = ConstraintInit(triggers)[t]
  BY Gathered DEF PluginInv
<1>2. triggers \in Seq(Reference) /\ OneReference(triggers)
  BY DEF ReferenceInv
<1> HIDE DEF triggers
<1>3. ListOf(ConstraintInit(triggers)[t], triggers, Len(triggers), t)
  BY <1>2, ConstraintInitFinds
<1>4. ToSet(triggers) = {triggers[i] : i \in 1..Len(triggers)}
  BY <1>2 DEF ToSet
<1> QED
  BY <1>1, <1>3, <1>4 DEF ListOf, triggers

\* As long as it can be asked, the plugin says that a table has every foreign
\* key it has, each once, whether or not the answer was kept: provided that no
\* table has two foreign keys to one column, and none is added while the
\* answer is kept.
THEOREM ReferencesAreFound ==
  ASSUME {"catalogKept", "oneKeyPerColumn"} \subseteq PluginDiscipline
  PROVE  PluginSpec => ReferencesFound
<1>1. PluginInit => PluginInv /\ ConnInv
  BY PluginAssumption, PluginInvInit
  DEF PluginInit, NewConn, ConnInv, Connection, Broken
<1>2. PluginInit => ReferenceInv
  <2>1. OneReference(<<>>) /\ <<>> \in Seq(Reference)
    BY DEF OneReference
  <2>2. PluginInit => database.trigger = <<>> /\ plugin.referencehash = NONE
    BY DEF PluginInit, NewPlugin
  <2> QED
    BY <2>1, <2>2 DEF ReferenceInv
<1>3. PluginInv /\ [PluginNext]_pluginVars => PluginInv'
  BY PluginAssumption, PluginInvStep
<1>4. ConnInv /\ [PluginNext]_pluginVars => ConnInv'
  BY PluginAssumption, ConnInvStep
<1>5. PluginInv /\ ConnInv /\ ReferenceInv /\ [PluginNext]_pluginVars
        => ReferenceInv'
  BY PluginAssumption, ReferenceInvStep DEF KeysFindable
<1>6. PluginInv /\ ReferenceInv =>
        \A t \in Table : FindReference(t) /\ conn["local"].alive =>
          /\ ToSet(answer'.list)
               = {r \in ToSet(database.trigger) : r.fromtable = t}
          /\ IsInjective(answer'.list)
  BY Found
<1> QED
  BY <1>1, <1>2, <1>3, <1>4, <1>5, <1>6, PTL DEF PluginSpec, ReferencesFound

-----------------------------------------------------------------------------
(* Roles: those that have a role are found in as many steps as there are   *)
(* groups between, and there are no more groups than roles.                *)

RolesTyped == member \subseteq Role \X Role /\ inherit \subseteq Role

\* Those that have role if those in X have it, and the roles that have it
\* with so many groups between.
Asked(role, X) ==
  {role} \cup {u \in inherit : \E g \in X : <<u, g>> \in member}
AskedFcn(role) == [X \in SUBSET Role |-> Asked(role, X)]
Has(H, role) == Runs(H, Asked(role, {role}), AskedFcn(role), Cardinality(Role))

LEMMA AskedIn ==
  ASSUME RolesTyped, NEW role \in Role, NEW X \in SUBSET Role
  PROVE  Asked(role, X) \in SUBSET Role
  BY DEF RolesTyped, Asked

LEMMA HasExists ==
  ASSUME RoleAssumption, RolesTyped, NEW role \in Role
  PROVE  \E H \in [0..Cardinality(Role) -> SUBSET Role] : Has(H, role)
<1>1. Cardinality(Role) \in Nat
  BY FS_CardinalityType DEF RoleAssumption
<1>2. Asked(role, {role}) \in SUBSET Role
  BY AskedIn
<1>3. AskedFcn(role) \in [SUBSET Role -> SUBSET Role]
  BY AskedIn DEF AskedFcn
<1> QED
  BY <1>1, <1>2, <1>3, RunsExist DEF Has

LEMMA HasStep ==
  ASSUME RoleAssumption, RolesTyped, NEW role \in Role,
         NEW H \in [0..Cardinality(Role) -> SUBSET Role], Has(H, role)
  PROVE  /\ Cardinality(Role) \in Nat
         /\ H[0] = Asked(role, {role})
         /\ \A d \in 1..Cardinality(Role) : H[d] = Asked(role, H[d - 1])
<1>1. Cardinality(Role) \in Nat
  BY FS_CardinalityType DEF RoleAssumption
<1>2. H[0] = Asked(role, {role})
  BY DEF Has, Runs
<1>3. ASSUME NEW d \in 1..Cardinality(Role)
      PROVE  H[d] = Asked(role, H[d - 1])
  <2>1. d - 1 \in 0..Cardinality(Role) /\ H[d - 1] \in SUBSET Role
    BY <1>1
  <2>2. H[d] = AskedFcn(role)[H[d - 1]]
    BY DEF Has, Runs
  <2> QED
    BY <2>1, <2>2 DEF AskedFcn
<1> QED
  BY <1>1, <1>2, <1>3

\* There are no more groups between than there are roles.
LEMMA HasEnds ==
  ASSUME RoleAssumption, RolesTyped, NEW role \in Role,
         NEW H \in [0..Cardinality(Role) -> SUBSET Role], Has(H, role)
  PROVE  Asked(role, H[Cardinality(Role)]) = H[Cardinality(Role)]
<1> DEFINE N == Cardinality(Role)
           T == {d \in Nat : d <= N =>
                   /\ H[d] \subseteq Asked(role, H[d])
                   /\ Asked(role, H[d]) = H[d] \/ Cardinality(H[d]) >= d + 1}
<1>1. /\ N \in Nat
      /\ H[0] = Asked(role, {role})
      /\ \A d \in 1..N : H[d] = Asked(role, H[d - 1])
  BY HasStep
<1>2. \A X \in SUBSET Role : IsFiniteSet(X) /\ Cardinality(X) \in Nat
  BY FS_Subset, FS_CardinalityType DEF RoleAssumption
<1>3. 0 \in T
  <2>1. role \in H[0] /\ H[0] \in SUBSET Role
    BY <1>1 DEF Asked
  <2>2. H[0] \subseteq Asked(role, H[0])
    BY <1>1, <2>1 DEF Asked
  <2>3. Cardinality(H[0]) # 0
    BY <1>2, <2>1, FS_EmptySet
  <2>4. Cardinality(H[0]) >= 0 + 1
    BY <1>2, <2>1, <2>3
  <2> QED
    BY <2>2, <2>4
<1>4. ASSUME NEW d \in Nat, d \in T PROVE d + 1 \in T
  <2>1. ASSUME d + 1 <= N
        PROVE  /\ H[d + 1] \subseteq Asked(role, H[d + 1])
               /\ \/ Asked(role, H[d + 1]) = H[d + 1]
                  \/ Cardinality(H[d + 1]) >= (d + 1) + 1
    <3>1. /\ d \in 0..N /\ d + 1 \in 0..N /\ d + 1 \in 1..N /\ (d + 1) - 1 = d
          /\ d <= N
      BY <1>1, <2>1
    <3>2. /\ H[d] \in SUBSET Role /\ H[d + 1] \in SUBSET Role
          /\ H[d] \subseteq Asked(role, H[d])
          /\ Asked(role, H[d]) = H[d] \/ Cardinality(H[d]) >= d + 1
      BY <1>4, <3>1
    <3>3. H[d + 1] = Asked(role, H[d])
      <4>1. H[d + 1] = Asked(role, H[(d + 1) - 1])
        BY <1>1, <3>1
      <4> QED
        BY <3>1, <4>1
    <3>4. H[d + 1] \subseteq Asked(role, H[d + 1])
      BY <3>2, <3>3 DEF Asked
    <3>5. CASE Asked(role, H[d]) = H[d]
      BY <3>3, <3>4, <3>5
    <3>6. CASE Cardinality(H[d]) >= d + 1 /\ Asked(role, H[d]) # H[d]
      <4>1. H[d] \subseteq H[d + 1] /\ H[d] # H[d + 1]
        BY <3>2, <3>3, <3>6
      <4>2. Cardinality(H[d]) <= Cardinality(H[d + 1])
            /\ Cardinality(H[d]) # Cardinality(H[d + 1])
        BY <1>2, <3>2, <4>1, FS_Subset
      <4>3. Cardinality(H[d]) \in Nat /\ Cardinality(H[d + 1]) \in Nat
        BY <1>2, <3>2
      <4> QED
        BY <3>4, <3>6, <4>2, <4>3
    <3> QED
      BY <3>2, <3>5, <3>6
  <2> QED
    BY <2>1
<1> HIDE DEF T
<1>5. N \in T
  BY <1>1, <1>3, <1>4, NatSetInduction
<1>6. Asked(role, H[N]) = H[N] \/ Cardinality(H[N]) >= N + 1
  BY <1>1, <1>5 DEF T
<1>7. Cardinality(H[N]) <= N /\ Cardinality(H[N]) \in Nat
  BY <1>1, <1>2, FS_Subset DEF RoleAssumption
<1> HIDE DEF N
<1> QED
  BY <1>1, <1>6, <1>7 DEF N

\* So they are those whose groups lead to role.
LEMMA HasInherited ==
  ASSUME RoleAssumption, RolesTyped, NEW role \in Role, NEW u \in Role,
         NEW H \in [0..Cardinality(Role) -> SUBSET Role], Has(H, role)
  PROVE  u \in H[Cardinality(Role)]
           <=> \A S \in Closed(inherit) : u \in S => role \in S
<1> DEFINE N == Cardinality(Role)
<1>1. /\ N \in Nat
      /\ H[0] = Asked(role, {role})
      /\ \A d \in 1..N : H[d] = Asked(role, H[d - 1])
  BY HasStep
<1>2. ASSUME NEW S \in Closed(inherit)
      PROVE  \A x \in H[N] : x \in S => role \in S
  <2> DEFINE T == {d \in Nat : d <= N => \A x \in H[d] : x \in S => role \in S}
  <2>1. ASSUME NEW X, \A x \in X : x \in S => role \in S
        PROVE  \A x \in Asked(role, X) : x \in S => role \in S
    <3>1. ASSUME NEW x \in inherit, NEW g \in X, <<x, g>> \in member, x \in S
          PROVE  role \in S
      <4>1. g \in S
        BY <3>1 DEF Closed
      <4> QED
        BY <2>1, <4>1
    <3> QED
      BY <3>1 DEF Asked
  <2>2. 0 \in T
    BY <1>1, <2>1
  <2>3. ASSUME NEW d \in Nat, d \in T PROVE d + 1 \in T
    <3>1. ASSUME d + 1 <= N
          PROVE  \A x \in H[d + 1] : x \in S => role \in S
      <4>1. d + 1 \in 1..N /\ (d + 1) - 1 = d /\ d <= N
        BY <1>1, <3>1
      <4>2. H[d + 1] = Asked(role, H[d])
        BY <1>1, <4>1
      <4> QED
        BY <2>1, <2>3, <4>1, <4>2
    <3> QED
      BY <3>1
  <2> HIDE DEF T
  <2>4. N \in T
    BY <1>1, <2>2, <2>3, NatSetInduction
  <2> QED
    BY <1>1, <2>4 DEF T
<1>3. ASSUME u \notin H[N]
      PROVE  \E S \in Closed(inherit) : u \in S /\ role \notin S
  <2> DEFINE S == Role \ H[N]
  <2>1. Asked(role, H[N]) = H[N]
    BY HasEnds
  <2>2. role \notin S /\ u \in S
    BY <1>3, <2>1 DEF Asked
  <2>3. S \in Closed(inherit)
    <3>1. ASSUME NEW edge \in member, edge[1] \in S \cap inherit
          PROVE  edge[2] \in S
      <4>1. edge = <<edge[1], edge[2]>> /\ edge[2] \in Role
        BY DEF RolesTyped
      <4>2. edge[2] \notin H[N]
        BY <2>1, <3>1, <4>1 DEF Asked
      <4> QED
        BY <4>1, <4>2
    <3> QED
      BY <3>1 DEF Closed
  <2> HIDE DEF S
  <2> QED
    BY <2>2, <2>3
<1> QED
  BY <1>2, <1>3

\* And _db_user_has_role finds them.
LEMMA UserHasRoleIs ==
  ASSUME RoleAssumption, RolesTyped, NEW role \in Role, NEW u \in Role,
         NEW H \in [0..Cardinality(Role) -> SUBSET Role], Has(H, role)
  PROVE  UserHasRole(u, role) <=> u \in H[Cardinality(Role)]
<1> DEFINE N == Cardinality(Role)
           From(groups) ==
             {x \in Role :
                \/ x = role
                \/ /\ x \in inherit
                   /\ \/ <<x, role>> \in member
                      \/ \E y \in groups : <<x, y>> \in member}
           has[depth \in 0..N] ==
             LET groups == IF depth = 0 THEN {} ELSE has[depth - 1] IN From(groups)
<1>1. /\ N \in Nat
      /\ H[0] = Asked(role, {role})
      /\ \A d \in 1..N : H[d] = Asked(role, H[d - 1])
  BY HasStep
<1>2. ASSUME NEW d \in 0..N PROVE role \in H[d]
  <2>1. d = 0 \/ d \in 1..N
    BY <1>1
  <2> QED
    BY <1>1, <2>1 DEF Asked
<1>3. ASSUME NEW d \in 0..N
      PROVE  H[d] = LET groups == IF d = 0 THEN {} ELSE H[d - 1] IN From(groups)
  <2>1. CASE d = 0
    BY <1>1, <2>1 DEF Asked, RolesTyped
  <2>2. CASE d \in 1..N
    <3>1. d - 1 \in 0..N /\ d > 0 /\ role \in H[d - 1] /\ H[d - 1] \in SUBSET Role
      BY <1>1, <1>2, <2>2
    <3>2. H[d] = Asked(role, H[d - 1])
      BY <1>1, <2>2
    <3> DEFINE X == H[d - 1]
    <3>3. X \in SUBSET Role /\ role \in X /\ H[d] = Asked(role, X)
      BY <3>1, <3>2
    <3> HIDE DEF X
    <3>4. Asked(role, X) = From(X)
      BY <3>3 DEF Asked, RolesTyped
    <3> HIDE DEF From
    <3> QED
      BY <3>1, <3>3, <3>4 DEF X
  <2>3. d = 0 \/ d \in 1..N
    BY <1>1
  <2> QED
    BY <2>1, <2>2, <2>3
<1>4. H = [d \in 0..N |->
             LET groups == IF d = 0 THEN {} ELSE H[d - 1] IN From(groups)]
  <2> HIDE DEF From, N
  <2> QED
    BY <1>3 DEF N
<1>5. has = [d \in 0..N |->
               LET groups == IF d = 0 THEN {} ELSE has[d - 1] IN From(groups)]
  <2> HIDE DEF From
  <2> QED
    BY <1>4 DEF has
<1>6. UserHasRole(u, role) <=> u \in has[N]
  BY DEF UserHasRole
<1> HIDE DEF has, From
<1>7. has[N] = H[N]
  <2> DEFINE T == {d \in Nat : d <= N => has[d] = H[d]}
  <2>1. 0 \in T
    BY <1>1, <1>4, <1>5
  <2>2. ASSUME NEW d \in Nat, d \in T PROVE d + 1 \in T
    <3>1. ASSUME d + 1 <= N PROVE has[d + 1] = H[d + 1]
      <4>1. d + 1 \in 0..N /\ (d + 1) - 1 = d /\ d + 1 # 0 /\ has[d] = H[d]
        BY <1>1, <2>2, <3>1
      <4>2. has[d + 1] = From(has[(d + 1) - 1])
        BY <1>5, <4>1
      <4>3. H[d + 1] = From(H[(d + 1) - 1])
        BY <1>4, <4>1
      <4> QED
        BY <4>1, <4>2, <4>3
    <3> QED
      BY <3>1
  <2> HIDE DEF T
  <2>3. N \in T
    BY <1>1, <2>1, <2>2, NatSetInduction
  <2> QED
    BY <1>1, <2>3 DEF T
<1> QED
  BY <1>6, <1>7

LEMMA RolesTypedNext ==
  ASSUME RolesTyped, [RolesNext]_roleVars
  PROVE  RolesTyped'
<1>1. CASE UNCHANGED roleVars
  BY <1>1 DEF roleVars, RolesTyped
<1>2. ASSUME NEW g \in Role, NEW r \in Role, Grant(g, r) \/ Revoke(g, r)
      PROVE  RolesTyped'
  BY <1>2 DEF Grant, Revoke, RolesTyped
<1>3. ASSUME NEW r \in Role, AlterInherit(r)
      PROVE  RolesTyped'
  BY <1>3 DEF AlterInherit, RolesTyped
<1> QED
  BY <1>1, <1>2, <1>3 DEF RolesNext

\* The recursion of _db_user_has_role finds exactly the roles a user has
\* through the groups of those that inherit, however many, whatever is
\* granted and revoked.
THEOREM RolesAreInherited == RolesSpec => []RolesInherited
<1>1. RolesInit => RolesTyped
  BY DEF RolesInit, RolesTyped
<1>2. RolesTyped /\ [RolesNext]_roleVars => RolesTyped'
  BY RolesTypedNext
<1>3. RolesTyped => RolesInherited
  <2> SUFFICES ASSUME RolesTyped, NEW u \in Role, NEW r \in Role
               PROVE  UserHasRole(u, r) <=>
                        \A S \in Closed(inherit) : u \in S => r \in S
    BY DEF RolesInherited
  <2>1. PICK H \in [0..Cardinality(Role) -> SUBSET Role] : Has(H, r)
    BY RoleAssumption, HasExists
  <2> QED
    BY <2>1, RoleAssumption, UserHasRoleIs, HasInherited
<1> QED BY <1>1, <1>2, <1>3, PTL DEF RolesSpec
=============================================================================

------------------------- MODULE BondPurify_proofs --------------------------
(***************************************************************************)
(* The buffer of bonddb_purify is large enough, for any values, of any     *)
(* length, and any rate of growth; a purified value reads back as the      *)
(* value, by the server and by bonddb_unpurify.                            *)
(***************************************************************************)
EXTENDS BondPurify, SetInduction

\* While a value is escaped, at most one character more than aloc was
\* written, and the buffer has room for two.
Filling ==
  /\ value \in Seq(Char) /\ newstr \in Seq(Char)
  /\ aloc \in Nat /\ size \in Nat /\ pos \in Nat
  /\ Len(newstr) <= aloc + 1
  /\ size >= aloc + 2

FillingInv == phase \in {"purify", "purified"} => Filling

LEMMA TextsAreSequences ==
  ASSUME PurifyAssumption, NEW v \in Texts
  PROVE  v \in Seq(Char)
<1>1. PICK n \in 0..MaxText : v \in [1..n -> Char]
  BY DEF Texts
<1> QED BY <1>1 DEF PurifyAssumption

\* Growing makes room for what a character may need.
LEMMA Grows ==
  ASSUME NEW a \in Nat, NEW s \in Nat \ {0}, NEW m \in Nat,
         NEW p \in Nat \ {0}
  PROVE  /\ a + m + a \div s \in Nat
         /\ a + m + a \div s >= a + m
         /\ p * (a + m + a \div s + 2) \in Nat
         /\ p * (a + m + a \div s + 2) >= a + m + a \div s + 2
<1>1. a \div s \in Nat
  OBVIOUS
<1>2. ASSUME NEW q \in Nat, NEW r \in Nat \ {0}
      PROVE  r * q \in Nat /\ r * q >= q
  OBVIOUS
<1>3. DEFINE b == a + m + a \div s
<1>4. b \in Nat /\ b >= a + m
  BY <1>1
<1> HIDE DEF b
<1>5. p * (b + 2) \in Nat /\ p * (b + 2) >= b + 2
  BY <1>2, <1>4
<1> QED BY <1>4, <1>5 DEF b

LEMMA PurifyStepFills ==
  ASSUME PurifyAssumption, Filling, PurifyStep
  PROVE  Filling'
<1>1. value[pos + 1] \in Char
  BY DEF Filling, PurifyStep
<1> DEFINE more == Escaped(value[pos + 1])
<1>2. more \in Seq(Char) /\ Len(more) \in Nat /\ Len(more) <= 2
  <2>1. Backslash \in Char
    BY DEF Char
  <2>2. CASE more = <<Backslash, value[pos + 1]>>
    BY <1>1, <2>1, <2>2
  <2>3. CASE more = <<value[pos + 1]>>
    BY <1>1, <2>3
  <2> QED BY <2>2, <2>3 DEF Escaped
<1>3. newstr' = newstr \o more
  BY DEF PurifyStep
<1> HIDE DEF more
<1>4. /\ newstr' \in Seq(Char)
      /\ Len(newstr') = Len(newstr) + Len(more)
  BY <1>2, <1>3 DEF Filling
<1>5. Len(newstr) \in Nat /\ Len(newstr') <= Len(newstr) + 2
  <2>1. newstr \in Seq(Char)
    BY DEF Filling
  <2> QED BY <1>2, <1>4, <2>1
<1>6. value' \in Seq(Char) /\ pos' \in Nat
  BY DEF PurifyStep, Filling
<1>7. CASE Full(Len(newstr))
  <2>1. aloc' = aloc + More + aloc \div Spare /\ size' = PointerSize * (aloc' + 2)
    BY <1>7 DEF PurifyStep
  <2>2. /\ aloc' \in Nat /\ aloc' >= aloc + 2
        /\ size' \in Nat /\ size' >= aloc' + 2
    <3>1. /\ aloc' \in Nat /\ aloc' >= aloc + More
          /\ size' \in Nat /\ size' >= aloc' + 2
      BY <2>1, Grows DEF Filling, PurifyAssumption
    <3>2. aloc \in Nat /\ More \in Nat /\ More >= 2
      BY DEF Filling, PurifyAssumption
    <3>3. aloc' >= aloc + 2
      BY <3>1, <3>2
    <3> QED BY <3>1, <3>3
  <2>3. Len(newstr) <= aloc + 1 /\ aloc \in Nat
    BY DEF Filling
  <2>4. Len(newstr') <= aloc' + 1
    BY <1>5, <2>2, <2>3
  <2> QED BY <1>4, <1>6, <2>2, <2>4 DEF Filling
<1>8. CASE ~Full(Len(newstr))
  BY <1>4, <1>5, <1>6, <1>8 DEF Full, PurifyStep, Filling
<1> QED BY <1>7, <1>8

LEMMA FillingInvNext ==
  ASSUME PurifyAssumption, FillingInv, [PurifyNext]_purifyVars
  PROVE  FillingInv'
<1>1. ASSUME NEW v \in Texts, Purify(v)
      PROVE  Filling'
  <2>1. v \in Seq(Char)
    BY TextsAreSequences
  <2>2. Len(v) \div Spare \in Nat
    BY <2>1 DEF PurifyAssumption
  <2> QED BY <1>1, <2>1, <2>2 DEF Purify, Filling
<1>2. CASE PurifyStep
  BY <1>2, PurifyStepFills DEF FillingInv, PurifyStep
<1>3. CASE PurifyEnd
  BY <1>3 DEF PurifyEnd, FillingInv, Filling
<1>4. CASE UNCHANGED purifyVars
  BY <1>4 DEF purifyVars, FillingInv, Filling
<1>5. CASE Unpurify \/ (\E s \in Texts : UnpurifyOther(s)) \/ UnpurifyStep
           \/ UnpurifyEnd
  <2>1. phase' \in {"restore", "shorten", "restored", "idle"}
    BY <1>5 DEF Unpurify, UnpurifyOther, UnpurifyStep, UnpurifyEnd
  <2> QED BY <2>1 DEF FillingInv
<1> QED BY <1>1, <1>2, <1>3, <1>4, <1>5 DEF PurifyNext, FillingInv

-----------------------------------------------------------------------------
\* bonddb_purify writes nothing past the end of its buffer, whatever it
\* escapes and however fast the buffer grows, by two characters at least.
THEOREM PurifyWithinBuffer == PurifySpec => []WithinBuffer
<1>1. PurifyInit => FillingInv
  BY DEF PurifyInit, FillingInv
<1>2. FillingInv /\ [PurifyNext]_purifyVars => FillingInv'
  BY PurifyAssumption, FillingInvNext
<1>3. FillingInv => WithinBuffer
  BY DEF FillingInv, Filling, WithinBuffer
<1> QED BY <1>1, <1>2, <1>3, PTL DEF PurifySpec

-----------------------------------------------------------------------------
(* Where the characters of a sequence leave the server is a recursive      *)
(* function of the place: it is one by induction, which needs the set of   *)
(* the numbers it is about.                                                *)

\* The first m states the server goes through, as it reads s.
Follows(g, s, m) ==
  g[0] = "inside" /\ \A n \in 1..m : g[n] = After(g[n - 1], s[n])

\* There are such states, for any sequence.
LEMMA FollowsExists ==
  ASSUME NEW s, NEW N \in Nat
  PROVE  \E g : g = [n \in 0..N |-> g[n]] /\ Follows(g, s, N)
<1> DEFINE T == {m \in Nat : \E g : /\ g = [n \in 0..m |-> g[n]]
                                   /\ Follows(g, s, m)}
<1>1. 0 \in T
  <2> DEFINE g == [n \in 0..0 |-> "inside"]
  <2>1. g = [n \in 0..0 |-> g[n]] /\ Follows(g, s, 0)
    BY DEF Follows
  <2> HIDE DEF g
  <2> QED
    BY <2>1
<1>2. ASSUME NEW m \in Nat, m \in T PROVE m + 1 \in T
  <2>1. PICK g : g = [n \in 0..m |-> g[n]] /\ Follows(g, s, m)
    BY <1>2
  <2> DEFINE h == [n \in 0..(m + 1) |->
                     IF n = m + 1 THEN After(g[m], s[m + 1]) ELSE g[n]]
  <2>2. h = [n \in 0..(m + 1) |-> h[n]] /\ h[0] = "inside"
    BY <2>1 DEF Follows
  <2>3. ASSUME NEW n \in 1..(m + 1) PROVE h[n] = After(h[n - 1], s[n])
    <3>1. n - 1 \in 0..m /\ h[n - 1] = g[n - 1]
      OBVIOUS
    <3>2. CASE n = m + 1
      BY <3>1, <3>2
    <3>3. CASE n \in 1..m
      <4>1. h[n] = g[n]
        BY <3>3
      <4> QED
        BY <2>1, <3>1, <3>3, <4>1 DEF Follows
    <3> QED
      BY <3>2, <3>3
  <2> HIDE DEF h
  <2>4. Follows(h, s, m + 1)
    BY <2>2, <2>3 DEF Follows
  <2> QED
    BY <2>2, <2>4
<1> HIDE DEF T
<1>3. N \in T
  BY <1>1, <1>2, NatSetInduction
<1> QED
  BY <1>3 DEF T

\* They depend on the characters read alone.
LEMMA FollowsUnique ==
  ASSUME NEW s, NEW t, NEW N \in Nat, \A n \in 1..N : s[n] = t[n],
         NEW g, NEW h, Follows(g, s, N), Follows(h, t, N)
  PROVE  g[N] = h[N]
<1> DEFINE T == {m \in Nat : m <= N => g[m] = h[m]}
<1>1. 0 \in T
  BY DEF Follows
<1>2. ASSUME NEW m \in Nat, m \in T PROVE m + 1 \in T
  BY <1>2 DEF Follows
<1> HIDE DEF T
<1>3. N \in T
  BY <1>1, <1>2, NatSetInduction
<1> QED
  BY <1>3 DEF T

LEMMA ReadsGives ==
  ASSUME NEW s, Len(s) \in Nat
  PROVE  \E g : Follows(g, s, Len(s)) /\ Reads(s) = g[Len(s)]
<1> DEFINE N == Len(s)
           state[n \in 0..N] ==
             IF n = 0 THEN "inside" ELSE After(state[n - 1], s[n])
<1>1. PICK g : g = [n \in 0..N |-> g[n]] /\ Follows(g, s, N)
  BY FollowsExists
<1>2. g = [n \in 0..N |-> IF n = 0 THEN "inside" ELSE After(g[n - 1], s[n])]
  BY <1>1 DEF Follows
<1>3. state = [n \in 0..N |->
                 IF n = 0 THEN "inside" ELSE After(state[n - 1], s[n])]
  BY <1>2 DEF state
<1>4. Reads(s) = state[N]
  BY DEF Reads
<1> HIDE DEF state
<1>5. Follows(state, s, N)
  BY <1>3 DEF Follows
<1> QED
  BY <1>4, <1>5

\* An opening quote is inside the string, and a character more is read
\* from where those before it have led.
LEMMA ReadsEmpty == Reads(<<>>) = "inside"
  BY ReadsGives DEF Follows

LEMMA ReadsOn ==
  ASSUME NEW S, NEW s \in Seq(S), NEW c \in S
  PROVE  Reads(s \o <<c>>) = After(Reads(s), c)
<1> DEFINE t == s \o <<c>>
           N == Len(s)
<1>1. /\ t \in Seq(S) /\ Len(t) = N + 1 /\ N \in Nat
      /\ t[N + 1] = c /\ \A n \in 1..N : t[n] = s[n]
  OBVIOUS
<1> HIDE DEF t, N
<1>2. PICK g : Follows(g, s, N) /\ Reads(s) = g[N]
  BY <1>1, ReadsGives DEF N
<1>3. PICK h : Follows(h, t, N + 1) /\ Reads(t) = h[N + 1]
  BY <1>1, ReadsGives
<1>4. Follows(h, t, N) /\ h[N + 1] = After(h[N], t[N + 1])
  BY <1>1, <1>3 DEF Follows
<1>5. g[N] = h[N]
  BY <1>1, <1>2, <1>4, FollowsUnique
<1> QED
  BY <1>1, <1>2, <1>3, <1>4, <1>5 DEF t

\* An escaped character leaves the server inside the string.
LEMMA ReadsEscaped ==
  ASSUME PurifyAssumption, NEW s \in Seq(Char), NEW c \in Char,
         Reads(s) = "inside"
  PROVE  Reads(s \o Escaped(c)) = "inside"
<1>1. Backslash \in Char
  BY DEF Char
<1>2. CASE c \in {Quote, Backslash}
  <2>1. s \o <<Backslash>> \in Seq(Char)
    BY <1>1
  <2>2. s \o Escaped(c) = (s \o <<Backslash>>) \o <<c>>
    BY <1>1, <1>2 DEF Escaped
  <2>3. Reads(s \o <<Backslash>>) = "escape"
    BY <1>1, ReadsOn DEF After, Quote, Backslash
  <2>4. Reads((s \o <<Backslash>>) \o <<c>>) = "inside"
    BY <2>1, <2>3, ReadsOn DEF After
  <2> QED
    BY <2>2, <2>4
<1>3. CASE c \notin {Quote, Backslash}
  BY <1>3, ReadsOn DEF After, Escaped
<1> QED
  BY <1>2, <1>3

-----------------------------------------------------------------------------
(* The first n characters of v, escaped, end at m[1], ..., m[n].           *)
Ends(m, v, n) ==
  /\ m[0] = 0
  /\ \A i \in 0..n : m[i] \in Nat /\ i <= m[i]
  /\ \A i \in 1..n :
       m[i] = m[i - 1] + (IF v[i] \in {Quote, Backslash} THEN 2 ELSE 1)
  /\ \A i, j \in 0..n : i < j => m[i] < m[j]

\* Character i of v is at its place in s, behind its backslash.
Holds(m, s, v, i) ==
  /\ s[m[i]] = v[i]
  /\ v[i] \in {Quote, Backslash} => s[m[i] - 1] = Backslash

\* The characters that were read have been written, escaped.
WrittenAt(m) ==
  /\ Ends(m, value, pos)
  /\ Len(newstr) = m[pos]
  /\ \A i \in 1..pos : Holds(m, newstr, value, i)

\* In the string that is shortened, the characters that were written are
\* those of the value, and those to come are where they were.
RestoredAt(m) ==
  /\ Ends(m, value, Len(value))
  /\ Len(newstr) = m[Len(value)]
  /\ pos = m[tail]
  /\ \A i \in 1..tail : newstr[i] = value[i]
  /\ \A i \in (tail + 1)..Len(value) : Holds(m, newstr, value, i)

Strings ==
  /\ value \in Seq(Char) /\ newstr \in Seq(Char)
  /\ pos \in Nat /\ tail \in Nat

Purifying ==
  /\ Strings /\ tail = 0 /\ pos <= Len(value)
  /\ Reads(newstr) = "inside"
  /\ \E m : WrittenAt(m)

Restoring ==
  /\ Strings /\ tail <= Len(value)
  /\ \E m : RestoredAt(m)

ReadsInv ==
  /\ phase \in {"purify", "purified"} => Purifying
  /\ phase = "purified" => pos = Len(value)
  /\ phase = "restore" => Restoring
  /\ phase = "restored" => newstr = value

LEMMA EscapedIs ==
  ASSUME NEW c \in Char
  PROVE  /\ Escaped(c) \in Seq(Char)
         /\ c \in {Quote, Backslash} =>
              /\ Len(Escaped(c)) = 2
              /\ Escaped(c)[1] = Backslash /\ Escaped(c)[2] = c
         /\ c \notin {Quote, Backslash} =>
              Len(Escaped(c)) = 1 /\ Escaped(c)[1] = c
<1>1. Backslash \in Char
  BY DEF Char
<1>2. CASE c \in {Quote, Backslash}
  BY <1>1, <1>2 DEF Escaped
<1>3. CASE c \notin {Quote, Backslash}
  BY <1>3 DEF Escaped
<1> QED
  BY <1>2, <1>3

\* A character more has its place after the others.
LEMMA EndsOn ==
  ASSUME NEW m, NEW v, NEW n \in Nat, Ends(m, v, n)
  PROVE  \E k : Ends(k, v, n + 1) /\ \A i \in 0..n : k[i] = m[i]
<1> DEFINE e == m[n] + (IF v[n + 1] \in {Quote, Backslash} THEN 2 ELSE 1)
           k == [i \in 0..(n + 1) |-> IF i = n + 1 THEN e ELSE m[i]]
<1>1. /\ \A i \in 0..n : k[i] = m[i]
      /\ k[n + 1] = e
  OBVIOUS
<1>2. /\ m[n] \in Nat /\ n <= m[n] /\ e \in Nat /\ m[n] < e
  BY DEF Ends
<1> HIDE DEF k
<1>3. \A i \in 0..n : k[i] <= m[n]
  BY <1>1 DEF Ends
<1>4. \A i \in 1..(n + 1) :
        k[i] = k[i - 1] + (IF v[i] \in {Quote, Backslash} THEN 2 ELSE 1)
  <2>1. ASSUME NEW i \in 1..n
        PROVE  k[i] = k[i - 1] + (IF v[i] \in {Quote, Backslash} THEN 2 ELSE 1)
    <3>1. i - 1 \in 0..n /\ i \in 0..n
      OBVIOUS
    <3> QED
      BY <1>1, <3>1 DEF Ends
  <2>2. k[n + 1] = k[(n + 1) - 1] + (IF v[n + 1] \in {Quote, Backslash} THEN 2 ELSE 1)
    BY <1>1
  <2> QED
    BY <2>1, <2>2
<1> HIDE DEF e
<1>5. \A i \in 0..(n + 1) : k[i] \in Nat /\ i <= k[i]
  BY <1>1, <1>2 DEF Ends
<1>6. \A i, j \in 0..(n + 1) : i < j => k[i] < k[j]
  <2>1. ASSUME NEW i \in 0..(n + 1), NEW j \in 0..(n + 1), i < j
        PROVE  k[i] < k[j]
    <3>1. CASE j = n + 1
      <4>1. i \in 0..n
        BY <2>1
      <4> QED
        BY <1>1, <1>2, <1>3, <1>5, <3>1, <4>1
    <3>2. CASE j \in 0..n
      BY <1>1, <2>1, <3>2 DEF Ends
    <3> QED
      BY <3>1, <3>2
  <2> QED
    BY <2>1
<1> QED
  BY <1>1, <1>4, <1>5, <1>6 DEF Ends

LEMMA PurifyStepWrites ==
  ASSUME PurifyAssumption, Purifying, PurifyStep
  PROVE  Purifying'
<1> DEFINE c == value[pos + 1]
           N == Len(newstr)
<1>1. /\ value \in Seq(Char) /\ newstr \in Seq(Char) /\ N \in Nat
      /\ pos \in Nat /\ pos + 1 <= Len(value) /\ c \in Char
      /\ value' = value /\ pos' = pos + 1 /\ tail' = 0
      /\ newstr' = newstr \o Escaped(c)
  BY DEF Purifying, Strings, PurifyStep
<1>2. PICK m : WrittenAt(m)
  BY DEF Purifying
<1>3. PICK k : Ends(k, value, pos + 1) /\ \A i \in 0..pos : k[i] = m[i]
  BY <1>1, <1>2, EndsOn DEF WrittenAt
<1>4. /\ k[pos] = N
      /\ k[pos + 1] = N + (IF c \in {Quote, Backslash} THEN 2 ELSE 1)
  <2>1. pos + 1 \in 1..(pos + 1) /\ (pos + 1) - 1 = pos /\ pos \in 0..pos
    BY <1>1
  <2>2. k[pos + 1] = k[pos] + (IF c \in {Quote, Backslash} THEN 2 ELSE 1)
    BY <1>3, <2>1 DEF Ends
  <2> QED
    BY <1>2, <1>3, <2>1, <2>2 DEF WrittenAt
<1> HIDE DEF c
<1>5. /\ Len(newstr') = k[pos + 1] /\ newstr' \in Seq(Char)
      /\ newstr'[k[pos + 1]] = c
      /\ c \in {Quote, Backslash} => newstr'[k[pos + 1] - 1] = Backslash
  <2> DEFINE e == Escaped(c)
  <2>1. /\ e \in Seq(Char) /\ newstr' = newstr \o e
        /\ c \in {Quote, Backslash} =>
             Len(e) = 2 /\ e[1] = Backslash /\ e[2] = c
        /\ c \notin {Quote, Backslash} => Len(e) = 1 /\ e[1] = c
    BY <1>1, EscapedIs
  <2> HIDE DEF e
  <2>2. newstr' \in Seq(Char) /\ Len(newstr') = N + Len(e)
    BY <1>1, <2>1
  <2>3. \A j \in 1..Len(e) : newstr'[N + j] = e[j]
    BY <1>1, <2>1
  <2>4. CASE c \in {Quote, Backslash}
    <3>1. newstr'[N + 1] = Backslash /\ newstr'[N + 2] = c
      BY <2>1, <2>3, <2>4
    <3>2. k[pos + 1] = N + 2 /\ k[pos + 1] - 1 = N + 1 /\ Len(e) = 2
      BY <1>1, <1>4, <2>1, <2>4
    <3> QED
      BY <2>2, <3>1, <3>2
  <2>5. CASE c \notin {Quote, Backslash}
    <3>1. Len(e) = 1 /\ e[1] = c
      BY <2>1, <2>5
    <3>2. 1 \in 1..Len(e)
      BY <3>1
    <3>3. newstr'[N + 1] = c
      BY <2>3, <3>1, <3>2
    <3>4. k[pos + 1] = N + 1
      BY <1>4, <2>5
    <3> QED
      BY <2>2, <2>5, <3>1, <3>3, <3>4
  <2> QED
    BY <2>4, <2>5
<1>6. \A j \in 1..N : newstr'[j] = newstr[j]
  BY <1>1, EscapedIs
<1> HIDE DEF N
<1>7. ASSUME NEW i \in 1..(pos + 1) PROVE Holds(k, newstr', value, i)
  <2>1. CASE i = pos + 1
    BY <1>5, <2>1 DEF Holds, c
  <2>2. CASE i \in 1..pos
    <3>1. /\ Holds(m, newstr, value, i) /\ k[i] = m[i]
          /\ k[i - 1] \in Nat /\ k[i] \in Nat
          /\ k[i] = k[i - 1] + (IF value[i] \in {Quote, Backslash} THEN 2 ELSE 1)
      <4>1. i \in 0..pos /\ i \in 0..(pos + 1) /\ i - 1 \in 0..(pos + 1)
            /\ i \in 1..(pos + 1)
        BY <1>1, <2>2
      <4> QED
        BY <1>2, <1>3, <2>2, <4>1 DEF WrittenAt, Ends
    <3>2. k[i] <= N
      <4>1. i = pos \/ k[i] < k[pos]
        BY <1>1, <1>3, <2>2 DEF Ends
      <4> QED
        BY <1>1, <1>4, <3>1, <4>1
    <3>3. k[i] \in 1..N
      BY <1>1, <3>1, <3>2
    <3>4. value[i] \in {Quote, Backslash} => k[i] - 1 \in 1..N
      BY <1>1, <3>1, <3>2
    <3> QED
      BY <1>6, <3>1, <3>3, <3>4 DEF Holds
  <2> QED
    BY <1>1, <2>1, <2>2
<1>8. WrittenAt(k)'
  BY <1>1, <1>3, <1>5, <1>7 DEF WrittenAt
<1>9. Reads(newstr') = "inside"
  <2>1. c \in Char
    BY <1>1 DEF c
  <2>2. Reads(newstr) = "inside"
    BY DEF Purifying
  <2> QED
    BY <1>1, <2>1, <2>2, ReadsEscaped
<1> QED
  BY <1>1, <1>5, <1>8, <1>9 DEF Purifying, Strings

LEMMA UnpurifyStepRestores ==
  ASSUME PurifyAssumption, Restoring, UnpurifyStep
  PROVE  Restoring'
<1> DEFINE L == Len(value)
           i == tail + 1
<1>1. PICK m : RestoredAt(m)
  BY DEF Restoring
<1>2. /\ value \in Seq(Char) /\ newstr \in Seq(Char) /\ L \in Nat
      /\ pos \in Nat /\ tail \in Nat /\ pos < Len(newstr)
      /\ value' = value /\ tail' = i
  BY DEF Restoring, Strings, UnpurifyStep
<1>3. tail < L
  <2>1. tail # L
    BY <1>1, <1>2 DEF RestoredAt
  <2> QED
    BY <1>2, <2>1 DEF Restoring
<1>4. /\ m[i] \in Nat /\ m[i] <= Len(newstr) /\ i <= m[i]
      /\ m[i] = pos + (IF value[i] \in {Quote, Backslash} THEN 2 ELSE 1)
  <2>1. i \in 1..L /\ i \in 0..L /\ L \in 0..L /\ i - 1 = tail /\ tail \in 0..L
    BY <1>2, <1>3
  <2>2. m[i] = m[tail] + (IF value[i] \in {Quote, Backslash} THEN 2 ELSE 1)
    BY <1>1, <2>1 DEF RestoredAt, Ends
  <2>3. m[i] \in Nat /\ m[L] \in Nat /\ (i = L \/ m[i] < m[L]) /\ i <= m[i]
    BY <1>1, <2>1 DEF RestoredAt, Ends
  <2> QED
    BY <1>1, <2>2, <2>3 DEF RestoredAt
<1>5. /\ newstr[m[i]] = value[i]
      /\ value[i] \in {Quote, Backslash} => newstr[m[i] - 1] = Backslash
  BY <1>1, <1>2, <1>3 DEF RestoredAt, Holds
<1>6. newstr' = [newstr EXCEPT ![i] = value[i]] /\ pos' = m[i]
  <2>1. CASE value[i] \in {Quote, Backslash}
    <3>1. newstr[pos + 1] = Backslash /\ pos + 1 < Len(newstr) /\ pos + 2 = m[i]
      BY <1>2, <1>4, <1>5, <2>1
    <3> QED
      BY <1>5, <3>1 DEF UnpurifyStep
  <2>2. CASE value[i] \notin {Quote, Backslash}
    <3>1. newstr[pos + 1] # Backslash /\ pos + 1 = m[i]
      BY <1>2, <1>4, <1>5, <2>2
    <3> QED
      BY <1>5, <3>1 DEF UnpurifyStep
  <2> QED
    BY <2>1, <2>2
<1>7. i \in 1..Len(newstr) /\ value[i] \in Char
  BY <1>2, <1>3, <1>4
<1> HIDE DEF i
<1>8. /\ newstr' \in Seq(Char) /\ Len(newstr') = Len(newstr)
      /\ newstr'[i] = value[i]
      /\ \A j \in 1..Len(newstr) : j # i => newstr'[j] = newstr[j]
  BY <1>2, <1>6, <1>7
<1>9. \A j \in 1..i : newstr'[j] = value[j]
  <2>1. ASSUME NEW j \in 1..tail PROVE newstr'[j] = value[j]
    <3>1. j \in 1..Len(newstr) /\ j # i
      BY <1>2, <1>7 DEF i
    <3> QED
      BY <1>1, <1>8, <3>1 DEF RestoredAt
  <2> QED
    BY <1>2, <1>8, <2>1 DEF i
<1>10. ASSUME NEW j \in (i + 1)..L PROVE Holds(m, newstr', value, j)
  <2>1. Holds(m, newstr, value, j)
    BY <1>1, <1>2 DEF RestoredAt, i
  <2>2. /\ j \in 0..L /\ j - 1 \in 0..L /\ i \in 0..L /\ L \in 0..L
        /\ j \in 1..L /\ i <= j - 1 /\ j <= L
    BY <1>2 DEF i
  <2>3. /\ m[j] \in Nat /\ m[j - 1] \in Nat /\ m[L] \in Nat
        /\ m[j] = m[j - 1] + (IF value[j] \in {Quote, Backslash} THEN 2 ELSE 1)
        /\ (i = j - 1 \/ m[i] < m[j - 1]) /\ (j = L \/ m[j] < m[L])
    BY <1>1, <2>2 DEF RestoredAt, Ends
  <2>4. i < m[j] /\ m[j] <= Len(newstr) /\ i \in Nat
    BY <1>1, <1>2, <1>4, <2>3 DEF RestoredAt, i
  <2>5. value[j] \in {Quote, Backslash} => i < m[j] - 1
    BY <1>4, <2>3, <2>4
  <2> QED
    BY <1>2, <1>8, <2>1, <2>3, <2>4, <2>5 DEF Holds
<1>11. RestoredAt(m)'
  BY <1>1, <1>2, <1>6, <1>8, <1>9, <1>10 DEF RestoredAt
<1> QED
  BY <1>2, <1>3, <1>4, <1>6, <1>8, <1>11 DEF Restoring, Strings, i

LEMMA ReadsInvNext ==
  ASSUME PurifyAssumption, ReadsInv, [PurifyNext]_purifyVars
  PROVE  ReadsInv'
<1>1. ASSUME NEW v \in Texts, Purify(v)
      PROVE  ReadsInv'
  <2>1. v \in Seq(Char) /\ phase' = "purify" /\ value' = v
        /\ newstr' = <<>> /\ pos' = 0 /\ tail' = 0
    BY <1>1, TextsAreSequences DEF Purify
  <2> DEFINE m == [i \in 0..0 |-> 0]
  <2>2. Ends(m, v, 0)
    BY DEF Ends
  <2>3. m[0] = 0
    OBVIOUS
  <2> HIDE DEF m
  <2>4. WrittenAt(m)'
    BY <2>1, <2>2, <2>3 DEF WrittenAt
  <2> QED
    BY <2>1, <2>4, ReadsEmpty DEF ReadsInv, Purifying, Strings
<1>2. CASE PurifyStep
  BY <1>2, PurifyStepWrites DEF ReadsInv, PurifyStep
<1>3. CASE PurifyEnd
  <2>1. Purifying'
    <3>1. Purifying /\ UNCHANGED <<value, newstr, pos, tail>>
      BY <1>3 DEF PurifyEnd, ReadsInv
    <3> QED
      BY <3>1 DEF Purifying, Strings, WrittenAt
  <2> QED
    BY <1>3, <2>1 DEF PurifyEnd, ReadsInv
<1>4. CASE Unpurify
  <2>1. /\ Purifying /\ pos = Len(value) /\ phase' = "restore" /\ pos' = 0
        /\ UNCHANGED <<value, newstr, tail>>
    BY <1>4 DEF Unpurify, ReadsInv
  <2>2. PICK m : WrittenAt(m)
    BY <2>1 DEF Purifying
  <2>3. tail = 0 /\ m[0] = 0 /\ Len(value) \in Nat
    BY <2>1, <2>2 DEF Purifying, WrittenAt, Ends, Strings
  <2>4. RestoredAt(m)'
    BY <2>1, <2>2, <2>3 DEF RestoredAt, WrittenAt
  <2> QED
    BY <2>1, <2>3, <2>4 DEF ReadsInv, Purifying, Restoring, Strings
<1>5. CASE UnpurifyStep
  BY <1>5, UnpurifyStepRestores DEF ReadsInv, UnpurifyStep
<1>6. ASSUME UnpurifyEnd, phase = "restore"
      PROVE  ReadsInv'
  <2>1. /\ Restoring /\ pos = Len(newstr) /\ phase' = "restored"
        /\ newstr' = SubSeq(newstr, 1, tail) /\ value' = value
    BY <1>6 DEF UnpurifyEnd, ReadsInv
  <2>2. PICK m : RestoredAt(m)
    BY <2>1 DEF Restoring
  <2>3. value \in Seq(Char) /\ newstr \in Seq(Char) /\ tail \in Nat
        /\ tail <= Len(value) /\ Len(value) \in Nat
    BY <2>1 DEF Restoring, Strings
  <2>4. tail = Len(value)
    BY <2>1, <2>2, <2>3 DEF RestoredAt, Ends
  <2>5. tail <= Len(newstr)
    BY <2>2, <2>3, <2>4 DEF RestoredAt, Ends
  <2>6. \A j \in 1..tail : newstr[j] = value[j]
    BY <2>2 DEF RestoredAt
  <2>7. SubSeq(newstr, 1, tail) = value
    BY <2>3, <2>4, <2>5, <2>6
  <2> QED
    BY <2>1, <2>7 DEF ReadsInv
<1>7. CASE UNCHANGED purifyVars
  BY <1>7 DEF purifyVars, ReadsInv, Purifying, Restoring, Strings, WrittenAt,
              RestoredAt
<1>8. CASE \/ \E s \in Texts : UnpurifyOther(s)
           \/ phase # "restore" /\ UnpurifyEnd
  <2>1. phase' \in {"shorten", "idle"}
    BY <1>8 DEF UnpurifyOther, UnpurifyEnd
  <2> QED
    BY <2>1 DEF ReadsInv
<1> QED
  BY <1>1, <1>2, <1>3, <1>4, <1>5, <1>6, <1>7, <1>8 DEF PurifyNext

-----------------------------------------------------------------------------
\* A purified value, of any length, leaves the server inside the string it
\* was put in, and bonddb_unpurify makes the value of it again, in place.
THEOREM PurifyReadsBack == PurifySpec => []ReadsBack
<1>1. PurifyInit => ReadsInv
  BY DEF PurifyInit, ReadsInv
<1>2. ReadsInv /\ [PurifyNext]_purifyVars => ReadsInv'
  BY PurifyAssumption, ReadsInvNext
<1>3. ReadsInv => ReadsBack
  BY DEF ReadsInv, Purifying, ReadsBack
<1> QED BY <1>1, <1>2, <1>3, PTL DEF PurifySpec
=============================================================================

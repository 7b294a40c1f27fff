----------------------------- MODULE BondPurify -----------------------------
(***************************************************************************)
(* The escaping of values for SQL and back (bonddb/bonddbpurify.c), one    *)
(* character at a time: a buffer that grows while it is filled, and a      *)
(* string that is shortened in place.                                      *)
(*                                                                         *)
(* Abstractions.  A character is a quote, a backslash or another.  The     *)
(* server honours backslash escapes.  A buffer is full of nothing until it *)
(* is written, in order, so that newstr is what has been written to it.    *)
(***************************************************************************)
EXTENDS Integers, SequencesExt

CONSTANTS
  Other,        \* characters that mean nothing to SQL
  MaxText,      \* bound: the length of a value
  Spare,        \* one character in so many is expected to need a backslash
                \* (32 in the code, as a shift by 5)
  More,         \* the buffer grows by this and one in Spare (16 in the code)
  PointerSize   \* sizeof(gchar*)

Quote == "'"
Backslash == "\\"
Char == {Quote, Backslash} \cup Other

ASSUME PurifyAssumption ==
  /\ Other \cap {Quote, Backslash} = {}
  /\ MaxText \in Nat /\ More \in Nat \ {0, 1}
  /\ Spare \in Nat \ {0} /\ PointerSize \in Nat \ {0}

Texts == UNION {[1..n -> Char] : n \in 0..MaxText}

VARIABLES
  phase,   \* "idle", or the loop that runs or has ended
  value,   \* the value that is escaped
  newstr,  \* the characters written, or the string that is shortened
  aloc,    \* how many the code thinks there is room for
  size,    \* how many bytes were allocated
  pos,     \* how many characters were read
  tail     \* how many of the shortened string were written

purifyVars == <<phase, value, newstr, aloc, size, pos, tail>>

-----------------------------------------------------------------------------
(* bonddb_purify.                                                          *)

Purify(v) ==
  /\ phase \in {"idle", "purified", "restored"}
  /\ phase' = "purify" /\ value' = v /\ newstr' = <<>> /\ pos' = 0
  /\ aloc' = Len(v) + Len(v) \div Spare
  /\ size' = aloc' + 2
  /\ tail' = 0

\* Mutant of Full: the test comes one character late.
FullLate(j) == j > aloc

\* There may be no room for a character and its backslash.
Full(j) == j >= aloc

\* Mutant of Escaped: only quotes are.
EscapedQuote(c) == IF c = Quote THEN <<Backslash, c>> ELSE <<c>>

Escaped(c) == IF c \in {Quote, Backslash} THEN <<Backslash, c>> ELSE <<c>>

PurifyStep ==
  /\ phase = "purify" /\ pos < Len(value)
  /\ IF Full(Len(newstr))
     THEN /\ aloc' = aloc + More + aloc \div Spare
          /\ size' = PointerSize * (aloc' + 2)
     ELSE UNCHANGED <<aloc, size>>
  /\ newstr' = newstr \o Escaped(value[pos + 1])
  /\ pos' = pos + 1
  /\ UNCHANGED <<phase, value, tail>>

\* The terminating NUL is written.
PurifyEnd ==
  /\ phase = "purify" /\ pos = Len(value)
  /\ phase' = "purified" /\ UNCHANGED <<value, newstr, aloc, size, pos, tail>>

-----------------------------------------------------------------------------
(* bonddb_unpurify, of a purified value or of another string.              *)

Unpurify ==
  /\ phase = "purified"
  /\ phase' = "restore" /\ pos' = 0
  /\ UNCHANGED <<value, newstr, aloc, size, tail>>
UnpurifyOther(s) ==
  /\ phase = "idle"
  /\ phase' = "shorten" /\ newstr' = s /\ size' = Len(s) + 1
  /\ UNCHANGED <<value, aloc, pos, tail>>

\* A backslash goes, unless the string ends with it.
UnpurifyStep ==
  /\ phase \in {"restore", "shorten"} /\ pos < Len(newstr)
  /\ LET head == IF newstr[pos + 1] = Backslash /\ pos + 1 < Len(newstr)
                 THEN pos + 2 ELSE pos + 1
     IN  /\ newstr' = [newstr EXCEPT ![tail + 1] = newstr[head]]
         /\ pos' = head
  /\ tail' = tail + 1
  /\ UNCHANGED <<phase, value, aloc, size>>

UnpurifyEnd ==
  /\ phase \in {"restore", "shorten"} /\ pos = Len(newstr)
  /\ phase' = IF phase = "restore" THEN "restored" ELSE "idle"
  /\ newstr' = SubSeq(newstr, 1, tail) /\ pos' = 0 /\ tail' = 0
  /\ UNCHANGED <<value, aloc, size>>

PurifyInit ==
  /\ phase = "idle" /\ value = <<>> /\ newstr = <<>>
  /\ aloc = 0 /\ size = 0 /\ pos = 0 /\ tail = 0

PurifyNext ==
  \/ \E v \in Texts : Purify(v)
  \/ PurifyStep \/ PurifyEnd
  \/ Unpurify \/ \E s \in Texts : UnpurifyOther(s)
  \/ UnpurifyStep \/ UnpurifyEnd

PurifySpec == PurifyInit /\ [][PurifyNext]_purifyVars

-----------------------------------------------------------------------------
(* Properties.                                                             *)

\* Nothing is written past the end of the buffer, the terminating NUL and a
\* backslash that comes with the last character before it grows included.
WithinBuffer ==
  /\ phase = "purify" => Len(newstr) <= size
  /\ phase = "purified" => Len(newstr) < size

\* How the server reads the characters that follow an opening quote: what
\* one character does, and where they leave it.
After(state, c) ==
  IF state = "inside"
  THEN IF c = Quote THEN "ended" ELSE IF c = Backslash THEN "escape" ELSE state
  ELSE IF state = "escape" THEN "inside" ELSE state
Reads(s) ==
  LET state[n \in 0..Len(s)] ==
        IF n = 0 THEN "inside" ELSE After(state[n - 1], s[n])
  IN  state[Len(s)]

\* A value between quotes stays between them ("makes a string safe for use
\* between sql single quotes", bonddbpurify.c:32), and restoring it, in
\* place, gives the value again.
ReadsBack ==
  /\ phase = "purified" => Reads(newstr) = "inside"
  /\ phase = "restored" => newstr = value
=============================================================================

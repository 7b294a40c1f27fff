---------------------------- MODULE MCBondObject ----------------------------
(***************************************************************************)
(* Instances of BondObject for TLC: one data column, one value, two or     *)
(* three keys, and how careful the application is in each run.             *)
(***************************************************************************)
EXTENDS BondObject

CONSTANT a

MCField == {a}

\* What the application has to observe for a save to do what it shows.
Tidy == {"deleteAtOnce", "markedRows", "cleanReload", "cleanUndo",
         "cleanAbort"}

\* And what it has to observe too when statements may be rejected.
TidyAlone == Tidy \cup {"newRowAlone"}

Rashly == Tidy \ {"deleteAtOnce"}
Nothing == {}
=============================================================================

\* fault ends a run: deadlock is not checked.
SPECIFICATION Spec
CHECK_DEADLOCK FALSE
CONSTANTS
  NULL = NULL
  Garbage = Garbage
  MaxDepth = 60
  Ident <- MCIdent
  Numeral <- MCNumeral
  Literal <- MCLiteral
  Textual <- MCTextual
  Text <- MCText
  Source <- MCSource
  SourceList <- MCSourceList
  SourceOf <- MCSourceOf
  Detected <- MCDetected
  Position <- MCPosition
  Given <- MCGiven
  Conditions <- MCConditions
  Joins <- MCJoins
  Discipline = {"fresh", "ownAlone", "ownColumns"}
  MaxCond = 2
  MaxField = 2
INVARIANTS
  Generable
  ClauseForm
  Regenerated
  Narrowed
  NewRowsBelong
  JoinsFound

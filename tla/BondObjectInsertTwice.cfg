SPECIFICATION Spec
CONSTANTS
  a = a
  Field <- MCField
  KeyField = KeyField
  Value = {1}
  NULL = NULL
  Freed = Freed
  InitRows = 0
  KeyDefault = TRUE
  FirstTable = TRUE
  MayFail = {"INSERT"}
  Discipline <- Tidy
  MaxKey = 3
  MaxRow = 2
  MaxPos = 6
  MaxFail = 1
  MaxOther = 0
INVARIANT InsertedOnce

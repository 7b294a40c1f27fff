SPECIFICATION Spec
CONSTANTS
  a = a
  Field <- MCField
  KeyField = KeyField
  Value = {1}
  NULL = NULL
  Freed = Freed
  InitRows = 1
  KeyDefault = TRUE
  FirstTable = TRUE
  MayFail = {}
  Discipline <- Rashly
  MaxKey = 3
  MaxRow = 3
  MaxPos = 4
  MaxFail = 0
  MaxOther = 0
INVARIANT InsertHasRecord

SPECIFICATION Spec
CONSTANTS
  a = a
  Field <- MCField
  KeyField = KeyField
  Value = {1}
  NULL = NULL
  Freed = Freed
  InitRows = 2
  KeyDefault = TRUE
  FirstTable = TRUE
  MayFail = {}
  Discipline <- Tidy
  MaxKey = 3
  MaxRow = 3
  MaxPos = 2
  MaxFail = 0
  MaxOther = 0
INVARIANTS CursorCoherent NoAbort ResultAligned
PROPERTIES SavedAsShown NothingLost

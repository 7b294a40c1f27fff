SPECIFICATION Spec
CONSTANTS
  a = a
  Field <- MCField
  KeyField = KeyField
  Value = {1}
  NULL = NULL
  Freed = Freed
  InitRows = 1
  KeyDefault = TRUE
  FirstTable = TRUE
  MayFail = {"INSERT", "UPDATE"}
  Discipline <- TidyAlone
  MaxKey = 2
  MaxRow = 2
  MaxPos = 4
  MaxFail = 2
  MaxOther = 0
INVARIANT NoAbort
PROPERTIES SavedAsShown NothingLost

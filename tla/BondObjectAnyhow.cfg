SPECIFICATION Spec
CONSTANTS
  a = a
  Field <- MCField
  KeyField = KeyField
  Value = {1}
  NULL = NULL
  Freed = Freed
  InitRows = 0
  KeyDefault = TRUE
  FirstTable = TRUE
  MayFail = {"SELECT", "INSERT", "UPDATE", "DELETE"}
  Discipline <- Nothing
  MaxKey = 1
  MaxRow = 1
  MaxPos = 2
  MaxFail = 1
  MaxOther = 1
INVARIANTS TypeOK HashAgrees
PROPERTY SaveReturns

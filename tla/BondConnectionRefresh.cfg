SPECIFICATION Spec
CONSTANTS
  Obj = {o1}
  Name = {n1}
  Row = {r1}
  NULL = NULL
  Remote = FALSE
  Admin = FALSE
  MayFail = {}
  Discipline <- Nothing
  OneOff = {c1}
  MaxFail = 0
INVARIANT DeletionSeen
CHECK_DEADLOCK FALSE

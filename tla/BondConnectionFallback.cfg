SPECIFICATION Spec
CONSTANTS
  Obj = {o1}
  Name = {n1}
  Row = {r1}
  NULL = NULL
  Remote = FALSE
  Admin = FALSE
  MayFail = {"named"}
  Discipline <- InTransaction
  OneOff = {c1}
  MaxFail = 1
INVARIANT Isolated
CHECK_DEADLOCK FALSE

SPECIFICATION Spec
CONSTANTS
  Obj = {o1, o2}
  Name = {n1, n2}
  Row = {r1, r2}
  NULL = NULL
  Remote = TRUE
  Admin = TRUE
  MayFail = {"connect", "begin", "plain"}
  Discipline <- InTransaction
  OneOff = {c1, c2}
  MaxFail = 1
SYMMETRY Symmetry
INVARIANTS TypeOK Counted Isolated
PROPERTIES Atomic SeesOwn ImplementsTransactions

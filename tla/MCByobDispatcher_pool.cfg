SPECIFICATION Spec
CONSTANTS
  t1 = t1
  t2 = t2
  Token = {t1}
  Acceptor = {a1, a2}
  Conn = {c1, c2}
  Request = {r1, r2}
  NumWorkers <- TwoWorkers
  MaxAcceptErrors = 1
  OrphanPools = TRUE
  NULL = NULL
SYMMETRY Symmetry
INVARIANTS
  PointersValid
  CallbackOwned

SPECIFICATION Spec
CONSTANTS
  t1 = t1
  t2 = t2
  Token = {t1, t2}
  Acceptor = {a1, a2}
  Conn = {c1, c2}
  Request = {r1}
  NumWorkers <- OneWorkerEach
  MaxAcceptErrors = 0
  OrphanPools = FALSE
  NULL = NULL
SYMMETRY SymmetryNoRequest
INVARIANTS
  FdOwnership
  ResponseFromOwnBinary
  NoAbandonedAcceptor
  CleanShutdown

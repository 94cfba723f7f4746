SPECIFICATION Spec
CONSTANTS
  router = router
  host = host
  Node = {router, host}
  Router = {router}
  Val = {0, 1}
  Golden <- MCGolden
  Req = {q1, q2, q3}
  Kinds = {"rollback", "snapshot", "inject"}
  Faults = {"restore"}
  MaxOps = 2
  NIL = NIL
SYMMETRY Perms
PROPERTY OnlyHolderWrites
CHECK_DEADLOCK FALSE

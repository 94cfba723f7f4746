SPECIFICATION Spec
CONSTANTS
  router = router
  host = host
  Node = {router, host}
  Router = {router}
  Val = {0, 1}
  Golden <- MCGolden
  Req = {q1, q2, q3}
  Kinds = {"apply", "rollback", "snapshot", "inject", "golden"}
  Faults = {"op", "capture"}
  MaxOps = 1
  NIL = NIL
SYMMETRY Perms
INVARIANTS TypeOK LockedByHolder ChangeIsLocal GoldenMarkerIsGolden
PROPERTIES OnlyHolderWrites RecordedAfterIsLive RolledBackIsUndone RollbackReachesTarget MutationsFlush Serialised
CHECK_DEADLOCK FALSE

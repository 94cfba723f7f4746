SPECIFICATION FairSpec
CONSTANTS
  router = router
  host = host
  Node = {router, host}
  Router = {router}
  Val = {0, 1}
  Golden <- MCGolden
  Req = {q1, q2}
  Kinds = {"apply", "rollback", "snapshot", "inject", "golden"}
  Faults = {"capture", "op", "restore", "script", "timeout", "flush", "crash"}
  MaxOps = 1
  NIL = NIL
INVARIANTS SuccessLeavesNothingRunning RecordedStatesStored
PROPERTY Answered
CHECK_DEADLOCK FALSE

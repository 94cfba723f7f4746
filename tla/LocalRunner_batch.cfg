SPECIFICATION FairSpec
CONSTANTS
  Tool = {"read_topology", "apply_config", "export_change", "intent_check"}
  Verifier = {"intent_check"}
  Commander = {"read_topology", "export_change"}
  Role = {"fixer", "verifier"}
  Listed <- MCListed
  Disallowed <- MCDisallowed
  RoleTurns <- MCRoleTurns
  MaxTurns = 2
  MaxNudges = 1
  MaxRuns = 2
  MaxAsked = 3
  NIL = NIL
INVARIANTS TypeOK OnlyAllowedServed ReportedChangesAreOwn ChargedForItself
PROPERTY RunEnds
CHECK_DEADLOCK FALSE

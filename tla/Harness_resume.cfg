SPECIFICATION FairSpec
CONSTANTS
  quiet = quiet
  loud = loud
  Scenario = {quiet, loud}
  Edit = {}
  Loud = {loud}
  Plan <- MCPlan
  MaxStarts = 3
  MaxEdits = 1
  MaxStrays = 1
  NIL = NIL
INVARIANTS TypeOK RecordedOnce OneGolden Accounted
PROPERTIES StartsPlanted 
CHECK_DEADLOCK FALSE

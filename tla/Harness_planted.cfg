SPECIFICATION Spec
CONSTANTS
  quiet = quiet
  loud = loud
  Scenario = {quiet, loud}
  Edit = {}
  Loud = {loud}
  Plan <- MCPlan
  MaxStarts = 2
  MaxEdits = 1
  MaxStrays = 0
  NIL = NIL
INVARIANT PlantedTwinStops
CHECK_DEADLOCK FALSE

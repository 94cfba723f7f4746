SPECIFICATION FairSpec
CONSTANTS
  MaxRuns = 2
  MaxEdits = 1
  MaxExports = 2
  MaxLines = 4
  Lingers = FALSE
  NIL = NIL
INVARIANTS TypeOK StreamIsRead OwnExport JudgedAsLeft FailuresAreToldApart
PROPERTY BatchGoesOn
CHECK_DEADLOCK FALSE

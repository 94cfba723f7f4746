SPECIFICATION Spec
CONSTANTS
  State = {0, 1, 2, 3}
  strict = strict
  lax = lax
  Policy = {strict, lax}
  Sessions <- MCSessions
  Reaches <- MCReaches
  Denies <- MCDenies
  NoLeak <- MCNoLeak
  Check = {c1, c2}
  MaxPolls = 2
  Quiet = TRUE
  Failures = {"tables", "closed", "open"}
  Blank = Blank
  Export = {e1}
  MaxChanges = 1
  Modes = {TRUE, FALSE}
  NIL = NIL
SYMMETRY Symmetry
INVARIANTS TypeOK AttestationTrue GoodTwinPasses OfferedIsVerified AnswerIsTrue
PROPERTY DecisionIsFinal
CHECK_DEADLOCK FALSE

SPECIFICATION Spec
CONSTANTS
  State = {0, 1, 2, 3}
  strict = strict
  lax = lax
  Policy = {strict, lax}
  Sessions <- MCSessions
  Reaches <- MCReaches
  Denies <- MCDenies
  NoLeak <- MCNoLeak
  Check = {c1}
  MaxPolls = 3
  Quiet = FALSE
  Failures = {"tables", "closed", "open"}
  Blank = Blank
  Export = {e1}
  MaxChanges = 2
  Modes = {FALSE}
  NIL = NIL
INVARIANT AttestationTrue
CHECK_DEADLOCK FALSE

----------------------------- MODULE MCHarness -----------------------------
(* Two faults, one of which keeps the twin from converging, and two runs.  *)
EXTENDS Harness, TLC

CONSTANTS quiet, loud

MCPlan == <<quiet, loud>>
============================================================================

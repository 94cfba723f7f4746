----------------------------- MODULE MCTwinLab -----------------------------
(* Instances of TwinLab for TLC: a router, a host, two configurations per  *)
(* layer.                                                                  *)
EXTENDS TwinLab, TLC

CONSTANTS router, host

MCGolden == [s \in Slot |-> 0]
Perms == Permutations(Req)
============================================================================

--------------------------- MODULE MCLocalRunner ---------------------------
(* Two roles: the fixer may change and export, and nobody tells its file   *)
(* of the ablation; the verifier lists a tool that is also disallowed.     *)
EXTENDS LocalRunner, TLC

MCListed(r) == IF r = "fixer" THEN {Apply, Export} ELSE {"intent_check", Apply}
MCDisallowed(r) == IF r = "fixer" THEN {} ELSE {Apply}
MCRoleTurns(r) == IF r = "fixer" THEN 1 ELSE 0
============================================================================

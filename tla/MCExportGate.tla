---------------------------- MODULE MCExportGate ----------------------------
(* Four states of the twin under two policies: 0 satisfies both, 1 has its *)
(* sessions down; 2 breaks an allow rule of strict, 3 a deny rule of       *)
(* strict and a no_route_leak rule of lax.                                 *)
EXTENDS ExportGate, TLC

CONSTANTS strict, lax

MCSessions(p) == State \ {1}
MCReaches(p) == IF p = strict THEN State \ {2} ELSE State
MCDenies(p) == IF p = strict THEN State \ {3} ELSE State
MCNoLeak(p) == IF p = lax THEN State \ {3} ELSE State

Symmetry == Permutations(Check)
=============================================================================

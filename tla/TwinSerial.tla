---------------------------- MODULE TwinSerial ----------------------------
(***************************************************************************)
(* What the twinlab server promises its callers: one call at a time.  An   *)
(* apply moves the twin from the recorded `before` to the recorded `after` *)
(* in one step and touches one node; a rollback moves it to a stored       *)
(* snapshot in one step; nothing else moves it, but an admin call while it *)
(* is being served.                                                        *)
(***************************************************************************)
CONSTANTS Node, Slot, State

VARIABLES twin, store, changes,
          admin         \* inject or golden is being served

OnlyAt(n, a, b) == \A s \in Slot : a[s] # b[s] => s[1] = n

Init == store = {} /\ changes = {} /\ twin \in State

Apply(n) ==
    /\ twin' \in State /\ OnlyAt(n, twin, twin')
    /\ changes' = changes \cup {[node |-> n, before |-> twin, after |-> twin']}
    /\ store' = store \cup {twin'}

(* apply raised SnapshotError: the node keeps what was done, no record.    *)
Abandon(n) ==
    /\ twin' \in State /\ OnlyAt(n, twin, twin')
    /\ UNCHANGED <<store, changes>>

Rollback ==
    /\ twin' \in store
    /\ store' = store \/ store' = store \cup {twin'}
    /\ UNCHANGED changes

(* Snapshots are kept; a capture may be of an instant the callers never    *)
(* see (the half-applied state of an apply about to be undone).            *)
Save ==
    /\ \E s \in State : store' = store \cup {s}
    /\ UNCHANGED <<twin, changes>>

AdminWrite ==
    /\ admin
    /\ twin' \in State
    /\ UNCHANGED <<store, changes>>

Next == (\E n \in Node : Apply(n) \/ Abandon(n)) \/ Rollback \/ Save \/ AdminWrite

Spec == Init /\ [][Next]_<<twin, store, changes>>
============================================================================

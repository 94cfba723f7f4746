----------------------------- MODULE ExportGate -----------------------------
(***************************************************************************)
(* The export gate of twinlab beside netverify: changes move the twin, the *)
(* verifier reports, an export is prepared from change ids and a report,   *)
(* and an operator decides it, through the elicitation that export_change  *)
(* waits for or through the admin approve route.  Bundles are files; the   *)
(* server may die and come back between any two writes.                    *)
(***************************************************************************)
EXTENDS NetVerify, Sequences, FiniteSets

CONSTANTS Export,     \* exports: each element is one at most
          MaxChanges, \* changes recorded
          Modes       \* TRUE: bench mode, exports are approved unasked

VARIABLES changes,    \* recorded changes, [before, after], in order
          bundle,     \* bundle.json of each export, or NIL
          artefacts,  \* exports whose patch, root cause and evidence exist
          asking,     \* exports whose export_change call awaits the operator
          told,       \* what export_change answered, or NIL
          inForce     \* policy in force when the export was prepared

gateVars == <<changes, bundle, artefacts, asking, told, inForce>>
vars == <<verifyVars, gateVars>>

Status == {"pending", "approved", "declined"}
Bundle == [status : Status, last : 1..MaxChanges, report : Report,
           by : {NIL, "operator", "cli", "bench-auto"}]

ASSUME ExportGateAssumption ==
    MaxChanges \in Nat /\ Modes \subseteq BOOLEAN /\ NIL \notin Bundle \cup Status \cup {"error"}

TypeOK ==
    /\ VerifyTypeOK
    /\ changes \in Seq([before : State, after : State])
    /\ Len(changes) <= MaxChanges
    /\ bundle \in [Export -> Bundle \cup {NIL}]
    /\ artefacts \subseteq Export /\ asking \subseteq Export
    /\ told \in [Export -> Status \cup {"error", NIL}]
    /\ inForce \in [Export -> Policy \cup {NIL}]

Init ==
    /\ VerifyInit
    /\ changes = <<>>
    /\ bundle = [e \in Export |-> NIL]
    /\ artefacts = {} /\ asking = {}
    /\ told = [e \in Export |-> NIL]
    /\ inForce = [e \in Export |-> NIL]

----------------------------------------------------------------------------
(* TwinLab's calls, one at a time (TwinSerial).                            *)
Apply ==
    /\ Len(changes) < MaxChanges
    /\ \E s \in State :
         /\ TwinBecomes(s)
         /\ changes' = Append(changes, [before |-> twin, after |-> s])
    /\ UNCHANGED <<bundle, artefacts, asking, told, inForce>>

Rollback ==
    /\ \E i \in DOMAIN changes : twin # changes[i].before /\ TwinBecomes(changes[i].before)
    /\ UNCHANGED gateVars

Verify(c) == IntentCheck(c) /\ UNCHANGED gateVars

World == (EditPolicy \/ Settle) /\ UNCHANGED gateVars

----------------------------------------------------------------------------
(* validate: the report passed, its attestation is netverify's own, is for *)
(* the policy in force and for the state after the last change named.  A   *)
(* mutated form forgets the policy, another the state.                     *)
ValidAnyPolicy(r, i) == r \in reports /\ r.passed /\ r.snap = changes[i].after

ValidAnyState(r, i) == r \in reports /\ r.passed /\ r.sha = policy

Valid(r, i) ==
    /\ r \in reports /\ r.passed
    /\ r.sha = policy
    /\ r.snap = changes[i].after

(* save: bundle.json first, then the artefacts of an approved export.  A   *)
(* mutated form writes only bundle.json.                                   *)
SaveBundleOnly(e, b) ==
    /\ bundle' = [bundle EXCEPT ![e] = b]
    /\ UNCHANGED artefacts

Save(e, b) ==
    /\ bundle' = [bundle EXCEPT ![e] = b]
    /\ artefacts' = IF b.status = "approved" THEN artefacts \cup {e} ELSE artefacts

(* export_change: no other call runs between the check and the bundle; the *)
(* call then asks the operator, or approves by itself in bench mode (a     *)
(* setting of the server, which may change from one start to the next).    *)
Prepare(e, status, by) ==
    /\ bundle[e] = NIL
    /\ \E i \in DOMAIN changes, r \in reports :
         /\ Valid(r, i)
         /\ Save(e, [status |-> status, last |-> i, report |-> r, by |-> by])
    /\ inForce' = [inForce EXCEPT ![e] = policy]
    /\ UNCHANGED <<verifyVars, changes>>

ExportChange(e) ==
    /\ FALSE \in Modes
    /\ Prepare(e, "pending", NIL)
    /\ asking' = asking \cup {e}
    /\ UNCHANGED told

ExportUnasked(e) ==
    /\ TRUE \in Modes
    /\ Prepare(e, "approved", "bench-auto")
    /\ told' = [told EXCEPT ![e] = "approved"]
    /\ UNCHANGED asking

Decided(e, approved, by) ==
    [bundle[e] EXCEPT !.status = IF approved THEN "approved" ELSE "declined", !.by = by]

(* decide_export refuses what is not pending.  A mutated form decides      *)
(* again.                                                                  *)
AlwaysOpen(e) == bundle[e] # NIL

Open(e) == bundle[e] # NIL /\ bundle[e].status = "pending"

(* The operator answers the elicitation.  If the export has been decided   *)
(* meanwhile, the tool call fails and the decision stands.                 *)
OperatorAnswers(e, approved) ==
    /\ e \in asking
    /\ asking' = asking \ {e}
    /\ IF Open(e)
       THEN /\ Save(e, Decided(e, approved, "operator"))
            /\ told' = [told EXCEPT ![e] = IF approved THEN "approved" ELSE "declined"]
       ELSE /\ told' = [told EXCEPT ![e] = "error"]
            /\ UNCHANGED <<bundle, artefacts>>
    /\ UNCHANGED <<verifyVars, changes, inForce>>

CannotElicit(e) ==
    /\ e \in asking
    /\ asking' = asking \ {e}
    /\ told' = [told EXCEPT ![e] = "pending"]
    /\ UNCHANGED <<verifyVars, changes, bundle, artefacts, inForce>>

AdminApproves(e) ==
    /\ Open(e)
    /\ Save(e, Decided(e, TRUE, "cli"))
    /\ UNCHANGED <<verifyVars, changes, asking, told, inForce>>

(* The server dies: calls in progress are lost, files stay.  It may die    *)
(* inside save, after bundle.json and before the artefacts.                *)
Crash ==
    /\ asking # {}
    /\ asking' = {}
    /\ UNCHANGED <<verifyVars, changes, bundle, artefacts, told, inForce>>

CrashInSave(e) ==
    /\ Open(e)
    /\ bundle' = [bundle EXCEPT ![e] =
                    Decided(e, TRUE, IF e \in asking THEN "operator" ELSE "cli")]
    /\ asking' = {}
    /\ UNCHANGED <<verifyVars, changes, artefacts, told, inForce>>

Next ==
    \/ Apply \/ Rollback \/ World
    \/ \E c \in Check : Verify(c)
    \/ \E e \in Export :
         \/ ExportChange(e) \/ ExportUnasked(e)
         \/ CannotElicit(e) \/ AdminApproves(e) \/ CrashInSave(e)
         \/ \E a \in BOOLEAN : OperatorAnswers(e, a)
    \/ Crash

Spec == Init /\ [][Next]_vars

----------------------------------------------------------------------------
(* "only a verified change is offered to a person for approval" (README):  *)
(* the state after the last change of every bundle is one that a report    *)
(* passed under the policy in force when the bundle was prepared, with all *)
(* that such a report attests.                                             *)
OfferedIsVerified ==
    \A e \in Export : bundle[e] # NIL =>
        /\ bundle[e].report.passed
        /\ Attests(bundle[e].report, changes[bundle[e].last].after, inForce[e])

(* An export is decided once, whoever answers first and whatever restarts  *)
(* in between.                                                             *)
DecisionIsFinal ==
    [][\A e \in Export : bundle[e] # NIL /\ bundle[e].status # "pending"
                           => bundle'[e] = bundle[e]]_vars

(* Every answer of export_change stays true of the bundle on disk.  With   *)
(* "approved" the diff, root cause and evidence are there; "pending" is    *)
(* said of a bundle that the admin route alone can still approve, and may  *)
(* have approved already; an error means that another decided first.       *)
AnswerIsTrue ==
    \A e \in Export :
      /\ told[e] \in {"approved", "declined"} => bundle[e].status = told[e]
      /\ told[e] = "approved" => e \in artefacts
      /\ told[e] = "pending" =>
           \/ bundle[e].status = "pending"
           \/ bundle[e].status = "approved" /\ bundle[e].by = "cli"
      /\ told[e] = "error" => bundle[e].status # "pending"
============================================================================

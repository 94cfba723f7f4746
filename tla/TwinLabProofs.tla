--------------------------- MODULE TwinLabProofs ---------------------------
(***************************************************************************)
(* Proofs about TwinLab, for any topology, any number of calls, any op     *)
(* lists and all faults: types, the lock, what a call leaves running, what *)
(* its records name, and that calls are never stuck and never go back.     *)
(***************************************************************************)
EXTENDS TwinLab, TLAPS

(* TypeOK in three parts, and what must hold of a call's arguments and     *)
(* locals for its next step to be well typed.                              *)
ServerOK ==
    /\ twin \in State
    /\ holder \in Req \cup {NIL}
    /\ waiters \in Seq(Req)
    /\ store \subseteq State
    /\ changes \subseteq Change
    /\ marker \in State \cup {NIL}
    /\ injected \in State \cup {NIL}
    /\ unflushed \in BOOLEAN

ControlOK ==
    /\ pc \in [Req -> {"new", "queued", "done"} \cup Capturing \cup Locked]
    /\ kind \in [Req -> AllKinds \cup {NIL}]
    /\ node \in [Req -> Node \cup {NIL}]
    /\ target \in [Req -> State \cup {NIL}]
    /\ left \in [Req -> 0..MaxOps]

LocalOK ==
    /\ cap \in [Req -> Partial]
    /\ before \in [Req -> State \cup {NIL}]
    /\ todo \in [Req -> SUBSET Slot]
    /\ late \in [Req -> SUBSET (Slot \X Val)]
    /\ out \in [Req -> Outcome \cup {NIL}]

ArgsOK ==
    \A r \in Req :
      /\ kind[r] = "rollback" => target[r] \in State
      /\ kind[r] = "apply" => node[r] \in Node
      /\ pc[r] = "new" => todo[r] = {}
      /\ pc[r] = "script" => kind[r] = "golden"
      /\ pc[r] \in {"ops", "undo", "restore"} => before[r] \in State
      /\ pc[r] = "after" => kind[r] = "golden" \/ before[r] \in State
      /\ todo[r] # {} => kind[r] \in {"golden", "rollback"} \/ before[r] \in State

TypeInv == ServerOK /\ ControlOK /\ LocalOK /\ ArgsOK

LEMMA TypeInvTypeOK == TypeInv <=> TypeOK /\ ArgsOK
BY DEF TypeInv, TypeOK, ServerOK, ControlOK, LocalOK

----------------------------------------------------------------------------
(* Lemmas on the operators of the model.                                   *)

(* A capture that has read every slot is a state.                          *)
LEMMA FullCapture == \A c \in Partial : DOMAIN c = Slot => c \in State
BY DEF Partial, State

LEMMA EmptyCapture == Empty \in Partial /\ DOMAIN Empty = {}
BY DEF Empty, Partial

(* Reading one more slot of a well-typed twin keeps a capture well typed.  *)
LEMMA ReadMore ==
    ASSUME NEW c \in Partial, NEW s \in Slot, NEW v \in Val
    PROVE  [t \in DOMAIN c \cup {s} |-> IF t = s THEN v ELSE c[t]] \in Partial
<1>1. PICK S \in SUBSET Slot : c \in [S -> Val]
  BY DEF Partial
<1>2. DOMAIN c \cup {s} \in SUBSET Slot
  BY <1>1
<1>3. [t \in DOMAIN c \cup {s} |-> IF t = s THEN v ELSE c[t]]
        \in [DOMAIN c \cup {s} -> Val]
  BY <1>1
<1> QED BY <1>2, <1>3 DEF Partial

(* Writing a slot keeps the twin well typed.                               *)
LEMMA WriteTyped ==
    ASSUME ServerOK, NEW s \in Slot, NEW v \in Val, Write(s, v)
    PROVE  twin' \in State /\ unflushed' \in BOOLEAN
BY DEF ServerOK, State, Write

(* What a crash leaves in the containers are writes to slots of the twin,  *)
(* and a call without ops or tasks leaves nothing.                         *)
LEMMA SurvivorsTyped ==
    ASSUME TypeInv, NEW r \in Req, NEW w \in Surviving(r)
    PROVE  w \in SUBSET (Slot \X Val)
<1>1. PICK S \in InFlight(r) : \E f \in [S -> Val] : w = {<<s, f[s]>> : s \in S}
  BY DEF Surviving
<1>2. S \subseteq Slot
  BY <1>1 DEF InFlight, Writable, Ready, TypeInv, LocalOK
<1> QED BY <1>1, <1>2

LEMMA QuietSurvivors ==
    ASSUME NEW r \in Req, pc[r] # "ops", todo[r] = {}, NEW w \in Surviving(r)
    PROVE  w = {}
<1>1. PICK S \in InFlight(r) : \E f \in [S -> Val] : w = {<<s, f[s]>> : s \in S}
  BY DEF Surviving
<1>2. S = {}
  BY <1>1 DEF InFlight, Ready
<1> QED BY <1>1, <1>2

(* A crash only adds to the writes nobody waits for.                       *)
LEMMA CrashLate ==
    ASSUME TypeInv, Crash
    PROVE  /\ late' \in [Req -> SUBSET (Slot \X Val)]
           /\ \A r \in Req : \E x \in Surviving(r) : late'[r] = late[r] \cup x
<1>1. PICK w \in [Req -> UNION {Surviving(r) : r \in Req}] :
        /\ \A r \in Req : w[r] \in Surviving(r)
        /\ late' = [r \in Req |-> late[r] \cup w[r]]
  BY DEF Crash
<1>2. \A r \in Req : w[r] \in SUBSET (Slot \X Val)
  BY <1>1, SurvivorsTyped
<1>3. \A r \in Req : late[r] \in SUBSET (Slot \X Val)
  BY DEF TypeInv, LocalOK
<1> QED BY <1>1, <1>2, <1>3

LEMMA FlushTyped ==
    ASSUME unflushed \in BOOLEAN, FlushRouteCaches
    PROVE  unflushed' \in BOOLEAN
<1>1. unflushed' = FALSE \/ unflushed' = unflushed
  BY DEF FlushRouteCaches
<1> QED BY <1>1

LEMMA QueueTyped ==
    ASSUME NEW S, NEW q \in Seq(S), NEW r \in S
    PROVE  Append(q, r) \in Seq(S)
OBVIOUS

(* The call that takes its turn leaves a well-typed queue.                 *)
LEMMA DequeueTyped ==
    ASSUME NEW S, NEW q \in Seq(S), q # <<>>
    PROVE  Head(q) \in S /\ Tail(q) \in Seq(S)
OBVIOUS

(* What a completed capture gives, whichever call it belongs to.           *)
LEMMA CapturedTyped ==
    ASSUME TypeInv, NEW r \in Req, NEW label, Captured(r, label)
    PROVE  /\ pc[r] = label
           /\ cap[r] \in State
           /\ store' \subseteq State
           /\ cap' \in [Req -> Partial]
<1> USE DEF Captured, Save, TypeInv, ServerOK, LocalOK
<1>1. cap[r] \in State
  BY FullCapture
<1>2. cap' \in [Req -> Partial]
  BY EmptyCapture
<1> QED BY <1>1, <1>2

(* What a capture leaves alone.                                            *)
LEMMA CapturedFrame ==
    ASSUME NEW r \in Req, NEW label, Captured(r, label)
    PROVE  /\ pc[r] = label
           /\ UNCHANGED <<twin, unflushed, kind, node, target, left, late>>
BY DEF Captured, argVars

(* What a failed command may do later is a write of the slot it was about. *)
LEMMA LingeringTyped ==
    ASSUME NEW s \in Slot, NEW w \in Lingering(s)
    PROVE  w \subseteq Slot \X Val
BY DEF Lingering

----------------------------------------------------------------------------
(* Every action preserves TypeInv.                                         *)

LEMMA IssueTyped ==
    ASSUME TypeInv, NEW r \in Req, NEW k \in AllKinds, Issue(r, k)
    PROVE  /\ ServerOK'
           /\ pc' \in [Req -> {"new", "queued", "done"} \cup Capturing \cup Locked]
           /\ kind' \in [Req -> AllKinds \cup {NIL}]
           /\ LocalOK'
<1> USE DEF Issue, TypeInv, diskVars
<1>1. waiters' \in Seq(Req)
  BY QueueTyped DEF ServerOK
<1>2. ServerOK'
  BY <1>1 DEF ServerOK
<1>3. pc' \in [Req -> {"new", "queued", "done"} \cup Capturing \cup Locked]
  BY DEF ControlOK, Capturing
<1>4. kind' \in [Req -> AllKinds \cup {NIL}]
  BY DEF ControlOK
<1>5. LocalOK'
  BY DEF LocalOK
<1> QED BY <1>2, <1>3, <1>4, <1>5

LEMMA CallApplyTyped ==
    ASSUME TypeInv, NEW r \in Req, CallApply(r)
    PROVE  TypeInv'
<1>1. "apply" \in AllKinds /\ Issue(r, "apply")
  BY DEF AllKinds, CallApply
<1>2. node' \in [Req -> Node \cup {NIL}]
  BY DEF CallApply, TypeInv, ControlOK
<1>3. target' \in [Req -> State \cup {NIL}]
  BY DEF CallApply, TypeInv, ControlOK, ServerOK
<1>4. left' \in [Req -> 0..MaxOps]
  BY DEF CallApply, TypeInv, ControlOK
<1>5. ArgsOK'
  BY DEF CallApply, Issue, TypeInv, ControlOK, ServerOK, LocalOK, ArgsOK
<1> QED BY <1>1, <1>2, <1>3, <1>4, <1>5, IssueTyped DEF TypeInv, ControlOK

LEMMA CallInjectTyped ==
    ASSUME TypeInv, NEW r \in Req, CallInject(r)
    PROVE  TypeInv'
<1>1. "inject" \in AllKinds /\ Issue(r, "inject")
  BY DEF AllKinds, CallInject
<1>2. node' \in [Req -> Node \cup {NIL}]
  BY DEF CallInject, TypeInv, ControlOK
<1>3. target' \in [Req -> State \cup {NIL}]
  BY DEF CallInject, TypeInv, ControlOK, ServerOK
<1>4. left' \in [Req -> 0..MaxOps]
  BY DEF CallInject, TypeInv, ControlOK
<1>5. ArgsOK'
  BY DEF CallInject, Issue, TypeInv, ControlOK, ServerOK, LocalOK, ArgsOK
<1> QED BY <1>1, <1>2, <1>3, <1>4, <1>5, IssueTyped DEF TypeInv, ControlOK

LEMMA CallRollbackTyped ==
    ASSUME TypeInv, NEW r \in Req, CallRollback(r)
    PROVE  TypeInv'
<1>1. "rollback" \in AllKinds /\ Issue(r, "rollback")
  BY DEF AllKinds, CallRollback
<1>2. node' \in [Req -> Node \cup {NIL}]
  BY DEF CallRollback, TypeInv, ControlOK
<1>3. target' \in [Req -> State \cup {NIL}]
  BY DEF CallRollback, TypeInv, ControlOK, ServerOK
<1>4. left' \in [Req -> 0..MaxOps]
  BY DEF CallRollback, TypeInv, ControlOK
<1>5. ArgsOK'
  BY DEF CallRollback, Issue, TypeInv, ControlOK, ServerOK, LocalOK, ArgsOK
<1> QED BY <1>1, <1>2, <1>3, <1>4, <1>5, IssueTyped DEF TypeInv, ControlOK

LEMMA CallSnapshotTyped ==
    ASSUME TypeInv, NEW r \in Req, CallSnapshot(r)
    PROVE  TypeInv'
<1>1. "snapshot" \in AllKinds /\ Issue(r, "snapshot")
  BY DEF AllKinds, CallSnapshot
<1>2. node' \in [Req -> Node \cup {NIL}]
  BY DEF CallSnapshot, TypeInv, ControlOK
<1>3. target' \in [Req -> State \cup {NIL}]
  BY DEF CallSnapshot, TypeInv, ControlOK, ServerOK
<1>4. left' \in [Req -> 0..MaxOps]
  BY DEF CallSnapshot, TypeInv, ControlOK
<1>5. ArgsOK'
  BY DEF CallSnapshot, Issue, TypeInv, ControlOK, ServerOK, LocalOK, ArgsOK
<1> QED BY <1>1, <1>2, <1>3, <1>4, <1>5, IssueTyped DEF TypeInv, ControlOK

LEMMA CallGoldenTyped ==
    ASSUME TypeInv, NEW r \in Req, CallGolden(r)
    PROVE  TypeInv'
<1>1. "golden" \in AllKinds /\ Issue(r, "golden")
  BY DEF AllKinds, CallGolden
<1>2. node' \in [Req -> Node \cup {NIL}]
  BY DEF CallGolden, TypeInv, ControlOK
<1>3. target' \in [Req -> State \cup {NIL}]
  BY DEF CallGolden, TypeInv, ControlOK, ServerOK
<1>4. left' \in [Req -> 0..MaxOps]
  BY DEF CallGolden, TypeInv, ControlOK
<1>5. ArgsOK'
  BY DEF CallGolden, Issue, TypeInv, ControlOK, ServerOK, LocalOK, ArgsOK
<1> QED BY <1>1, <1>2, <1>3, <1>4, <1>5, IssueTyped DEF TypeInv, ControlOK

(* An arrival touches nothing but the call that arrives, and the queue.    *)
LEMMA ArriveFrame ==
    ASSUME TypeInv, NEW r \in Req, Arrive(r)
    PROVE  /\ pc[r] = "new" /\ pc'[r] \in {"queued", "snapshot"}
           /\ UNCHANGED <<twin, holder, diskVars, injected, unflushed, cap,
                          before, todo, late, out>>
           /\ \A q \in Req \ {r} : /\ pc'[q] = pc[q] /\ kind'[q] = kind[q]
                                   /\ node'[q] = node[q] /\ target'[q] = target[q]
                                   /\ left'[q] = left[q]
BY DEF Arrive, CallApply, CallInject, CallRollback, CallSnapshot, CallGolden,
       Issue, TypeInv, ControlOK

LEMMA AcquireTyped ==
    ASSUME TypeInv, NEW r \in Req, Acquire(r)
    PROVE  TypeInv'
<1> USE DEF Acquire, Turn, diskVars, argVars
<1>1. ServerOK'
  BY DequeueTyped DEF TypeInv, ServerOK
<1>2. ControlOK'
  BY DEF TypeInv, ControlOK, Locked
<1>3. LocalOK'
  BY DEF TypeInv, LocalOK
<1>4. ArgsOK'
  <2>1. /\ UNCHANGED <<kind, node, target, before>>
        /\ \A q \in Req \ {r} : pc'[q] = pc[q] /\ todo'[q] = todo[q]
    BY DEF TypeInv, ControlOK, LocalOK
  <2>2. \/ pc'[r] = "script" /\ kind[r] = "golden"
        \/ pc'[r] = "before" /\ todo'[r] = todo[r]
    BY DEF TypeInv, ControlOK, LocalOK
  <2> HIDE DEF Acquire, Turn
  <2> QED BY <2>1, <2>2 DEF TypeInv, ArgsOK
<1> QED BY <1>1, <1>2, <1>3, <1>4 DEF TypeInv

LEMMA ReadSlotTyped ==
    ASSUME TypeInv, NEW r \in Req, NEW s \in Slot, ReadSlot(r, s)
    PROVE  TypeInv'
<1> USE DEF ReadSlot, lockVars, diskVars, argVars
<1>0. twin[s] \in Val
  BY DEF TypeInv, ServerOK, State
<1>1. ServerOK'
  BY DEF TypeInv, ServerOK
<1>2. ControlOK'
  BY DEF TypeInv, ControlOK
<1>3. LocalOK'
  <2> DEFINE more == [t \in DOMAIN cap[r] \cup {s} |->
                        IF t = s THEN twin[s] ELSE cap[r][t]]
  <2>1. cap[r] \in Partial
    BY DEF TypeInv, LocalOK
  <2>2. more \in Partial
    BY <1>0, <2>1, ReadMore
  <2>3. cap' = [cap EXCEPT ![r] = more]
    OBVIOUS
  <2> HIDE DEF more
  <2> QED BY <2>2, <2>3 DEF TypeInv, LocalOK
<1>4. ArgsOK'
  BY DEF TypeInv, ControlOK, LocalOK, ArgsOK
<1> QED BY <1>1, <1>2, <1>3, <1>4 DEF TypeInv

LEMMA CapturedBeforeTyped ==
    ASSUME TypeInv, NEW r \in Req, CapturedBefore(r)
    PROVE  TypeInv'
<1> USE DEF CapturedBefore, Captured, Goto, lockVars, argVars
<1>0. cap[r] \in State /\ store' \subseteq State /\ cap' \in [Req -> Partial]
  BY CapturedTyped
<1>1. ServerOK'
  BY <1>0 DEF TypeInv, ServerOK
<1>2. ControlOK'
  BY DEF TypeInv, ControlOK, Locked
<1>3. LocalOK'
  BY <1>0 DEF TypeInv, LocalOK, Differing
<1>4. ArgsOK'
  BY <1>0 DEF TypeInv, ControlOK, LocalOK, ArgsOK
<1> QED BY <1>1, <1>2, <1>3, <1>4 DEF TypeInv

LEMMA CapturedUndoTyped ==
    ASSUME TypeInv, NEW r \in Req, CapturedUndo(r)
    PROVE  TypeInv'
<1> USE DEF CapturedUndo, Captured, Goto, lockVars, argVars
<1>0. cap[r] \in State /\ store' \subseteq State /\ cap' \in [Req -> Partial]
  BY CapturedTyped
<1>1. ServerOK'
  BY <1>0 DEF TypeInv, ServerOK
<1>2. ControlOK'
  BY DEF TypeInv, ControlOK, Locked
<1>3. LocalOK'
  BY <1>0 DEF TypeInv, LocalOK, Differing
<1>4. ArgsOK'
  BY <1>0 DEF TypeInv, ControlOK, LocalOK, ArgsOK
<1> QED BY <1>1, <1>2, <1>3, <1>4 DEF TypeInv

LEMMA CapturedAfterTyped ==
    ASSUME TypeInv, NEW r \in Req, CapturedAfter(r)
    PROVE  TypeInv'
<1> USE DEF CapturedAfter, Captured, Finish, argVars
<1>0. cap[r] \in State /\ store' \subseteq State /\ cap' \in [Req -> Partial]
  BY CapturedTyped
<1>1. ServerOK'
  <2>1. changes' \subseteq Change
    <3>1. CASE kind[r] = "apply"
      <4>1. node[r] \in Node /\ before[r] \in State
        BY <3>1 DEF TypeInv, ArgsOK
      <4>2. [node |-> node[r], before |-> before[r], after |-> cap[r]] \in Change
        BY <4>1, <1>0 DEF Change
      <4> QED BY <3>1, <4>2 DEF TypeInv, ServerOK
    <3>2. CASE kind[r] # "apply"
      BY <3>2 DEF TypeInv, ServerOK
    <3> QED BY <3>1, <3>2
  <2>2. marker' \in State \cup {NIL} /\ injected' \in State \cup {NIL}
    BY <1>0 DEF TypeInv, ServerOK
  <2> QED BY <1>0, <2>1, <2>2 DEF TypeInv, ServerOK
<1>2. ControlOK'
  BY DEF TypeInv, ControlOK
<1>3. LocalOK'
  BY <1>0 DEF TypeInv, LocalOK, Outcome
<1>4. ArgsOK'
  BY DEF TypeInv, ControlOK, LocalOK, ArgsOK
<1> QED BY <1>1, <1>2, <1>3, <1>4 DEF TypeInv

LEMMA CapturedSnapshotTyped ==
    ASSUME TypeInv, NEW r \in Req, CapturedSnapshot(r)
    PROVE  TypeInv'
<1> USE DEF CapturedSnapshot, Captured, Finish, argVars
<1>0. cap[r] \in State /\ store' \subseteq State /\ cap' \in [Req -> Partial]
  BY CapturedTyped
<1>1. ServerOK'
  BY <1>0 DEF TypeInv, ServerOK
<1>2. ControlOK'
  BY DEF TypeInv, ControlOK
<1>3. LocalOK'
  BY <1>0 DEF TypeInv, LocalOK, Outcome
<1>4. ArgsOK'
  BY DEF TypeInv, ControlOK, LocalOK, ArgsOK
<1> QED BY <1>1, <1>2, <1>3, <1>4 DEF TypeInv

LEMMA CaptureFailsTyped ==
    ASSUME TypeInv, NEW r \in Req, CaptureFails(r)
    PROVE  TypeInv'
<1> USE DEF CaptureFails, Finish, diskVars, argVars
<1>1. ServerOK'
  BY DEF TypeInv, ServerOK
<1>2. ControlOK'
  BY DEF TypeInv, ControlOK
<1>3. LocalOK'
  BY EmptyCapture DEF TypeInv, LocalOK, Outcome
<1>4. ArgsOK'
  BY DEF TypeInv, ControlOK, LocalOK, ArgsOK
<1> QED BY <1>1, <1>2, <1>3, <1>4 DEF TypeInv

LEMMA OpOkTyped ==
    ASSUME TypeInv, NEW r \in Req, NEW s \in Slot, NEW v \in Val, OpOk(r, s, v)
    PROVE  TypeInv'
<1> USE DEF OpOk, OpsLeft, lockVars, diskVars, argVars
<1>0. twin' \in State /\ unflushed' \in BOOLEAN
  BY WriteTyped DEF TypeInv
<1>1. ServerOK'
  BY <1>0 DEF TypeInv, ServerOK
<1>2. ControlOK'
  BY TwinLabAssumption DEF TwinLabAssumption, TypeInv, ControlOK
<1>3. LocalOK'
  BY DEF TypeInv, LocalOK
<1>4. ArgsOK'
  BY DEF TypeInv, ControlOK, LocalOK, ArgsOK
<1> QED BY <1>1, <1>2, <1>3, <1>4 DEF TypeInv

LEMMA OpFailsTyped ==
    ASSUME TypeInv, NEW r \in Req, NEW s \in Slot, NEW v \in Val, OpFails(r, s, v)
    PROVE  TypeInv'
<1> USE DEF OpFails, OpsLeft, Goto, Finish, lockVars, diskVars, argVars
<1>0. twin' \in State /\ unflushed' \in BOOLEAN
  BY WriteTyped DEF TypeInv
<1>01. late' \in [Req -> SUBSET (Slot \X Val)]
  BY LingeringTyped DEF TypeInv, LocalOK
<1>1. ServerOK'
  BY <1>0 DEF TypeInv, ServerOK
<1>2. ControlOK'
  BY TwinLabAssumption DEF TwinLabAssumption, TypeInv, ControlOK, Capturing
<1>3. LocalOK'
  BY <1>01 DEF TypeInv, LocalOK, Outcome
<1>4. ArgsOK'
  BY DEF TypeInv, ControlOK, LocalOK, ArgsOK
<1> QED BY <1>1, <1>2, <1>3, <1>4 DEF TypeInv

LEMMA RestoreFailsTyped ==
    ASSUME TypeInv, NEW r \in Req, NEW s \in Slot, NEW v \in Val, RestoreFails(r, s, v)
    PROVE  TypeInv'
<1> USE DEF RestoreFails, Ready, Finish, lockVars, diskVars, argVars
<1>0. twin' \in State /\ unflushed' \in BOOLEAN
  BY WriteTyped DEF TypeInv
<1>01. late' \in [Req -> SUBSET (Slot \X Val)]
  BY LingeringTyped DEF TypeInv, LocalOK
<1>1. ServerOK'
  BY <1>0 DEF TypeInv, ServerOK
<1>2. ControlOK'
  BY DEF TypeInv, ControlOK
<1>3. LocalOK'
  BY <1>01 DEF TypeInv, LocalOK, Outcome
<1>4. ArgsOK'
  BY DEF TypeInv, ControlOK, LocalOK, ArgsOK
<1> QED BY <1>1, <1>2, <1>3, <1>4 DEF TypeInv

LEMMA OpsDoneTyped ==
    ASSUME TypeInv, NEW r \in Req, OpsDone(r)
    PROVE  TypeInv'
<1> USE DEF OpsDone, Goto, lockVars, diskVars, argVars
<1>0. unflushed' \in BOOLEAN
  BY FlushTyped DEF FlushAfterOps, TypeInv, ServerOK
<1>1. ServerOK'
  BY <1>0 DEF TypeInv, ServerOK
<1>2. ControlOK'
  BY DEF TypeInv, ControlOK, Locked
<1>3. LocalOK'
  BY DEF TypeInv, LocalOK
<1>4. ArgsOK'
  BY DEF TypeInv, ControlOK, LocalOK, ArgsOK
<1> QED BY <1>1, <1>2, <1>3, <1>4 DEF TypeInv

LEMMA WriteBackTyped ==
    ASSUME TypeInv, NEW r \in Req, NEW s \in Slot, WriteBack(r, s)
    PROVE  TypeInv'
<1> USE DEF WriteBack, Ready, lockVars, diskVars, argVars
<1>01. Desired(r) \in State
  BY TwinLabAssumption DEF TwinLabAssumption, Desired, TypeInv, ControlOK,
                           ArgsOK
<1>02. Desired(r)[s] \in Val
  BY <1>01 DEF State
<1>0. twin' \in State /\ unflushed' \in BOOLEAN
  BY <1>02, WriteTyped DEF TypeInv
<1>1. ServerOK'
  BY <1>0 DEF TypeInv, ServerOK
<1>2. ControlOK'
  BY DEF TypeInv, ControlOK
<1>3. LocalOK'
  BY DEF TypeInv, LocalOK
<1>4. ArgsOK'
  BY DEF TypeInv, ControlOK, LocalOK, ArgsOK
<1> QED BY <1>1, <1>2, <1>3, <1>4 DEF TypeInv

LEMMA RestoreDoneTyped ==
    ASSUME TypeInv, NEW r \in Req, RestoreDone(r)
    PROVE  TypeInv'
<1> USE DEF RestoreDone, TasksOver, Goto, Finish, lockVars, diskVars, argVars
<1>0. unflushed' \in BOOLEAN
  BY FlushTyped DEF TypeInv, ServerOK
<1>1. ServerOK'
  BY <1>0 DEF TypeInv, ServerOK
<1>2. ControlOK'
  BY DEF TypeInv, ControlOK, Locked
<1>3. LocalOK'
  BY DEF TypeInv, LocalOK, Outcome
<1>4. ArgsOK'
  BY DEF TypeInv, ControlOK, LocalOK, ArgsOK
<1> QED BY <1>1, <1>2, <1>3, <1>4 DEF TypeInv

LEMMA ScriptFailsTyped ==
    ASSUME TypeInv, NEW r \in Req, NEW s \in Slot, NEW v \in Val, ScriptFails(r, s, v)
    PROVE  TypeInv'
<1> USE DEF ScriptFails, Ready, lockVars, diskVars, argVars
<1>0. twin' \in State /\ unflushed' \in BOOLEAN
  BY WriteTyped DEF TypeInv
<1>1. ServerOK'
  BY <1>0 DEF TypeInv, ServerOK
<1>2. ControlOK'
  BY DEF TypeInv, ControlOK
<1>3. LocalOK'
  BY DEF TypeInv, LocalOK, Outcome
<1>4. ArgsOK'
  BY DEF TypeInv, ControlOK, LocalOK, ArgsOK
<1> QED BY <1>1, <1>2, <1>3, <1>4 DEF TypeInv

LEMMA ScriptDoneTyped ==
    ASSUME TypeInv, NEW r \in Req, ScriptDone(r)
    PROVE  TypeInv'
<1> USE DEF ScriptDone, TasksOver, Goto, Finish, lockVars, diskVars, argVars
<1>1. ServerOK'
  BY DEF TypeInv, ServerOK
<1>2. ControlOK'
  BY DEF TypeInv, ControlOK, Locked
<1>3. LocalOK'
  BY DEF TypeInv, LocalOK, Outcome
<1>4. ArgsOK'
  BY DEF TypeInv, ControlOK, LocalOK, ArgsOK
<1> QED BY <1>1, <1>2, <1>3, <1>4 DEF TypeInv

LEMMA ConvergeFailsTyped ==
    ASSUME TypeInv, NEW r \in Req, ConvergeFails(r)
    PROVE  TypeInv'
<1> USE DEF ConvergeFails, TasksOver, Finish, diskVars, argVars
<1>1. ServerOK'
  BY DEF TypeInv, ServerOK
<1>2. ControlOK'
  BY DEF TypeInv, ControlOK
<1>3. LocalOK'
  BY DEF TypeInv, LocalOK, Outcome
<1>4. ArgsOK'
  BY DEF TypeInv, ControlOK, LocalOK, ArgsOK
<1> QED BY <1>1, <1>2, <1>3, <1>4 DEF TypeInv

LEMMA ScriptTimesOutTyped ==
    ASSUME TypeInv, NEW r \in Req, ScriptTimesOut(r)
    PROVE  TypeInv'
<1> USE DEF ScriptTimesOut, Finish, diskVars, argVars
<1>1. ServerOK'
  BY DEF TypeInv, ServerOK
<1>2. ControlOK'
  BY DEF TypeInv, ControlOK
<1>3. LocalOK'
  BY DEF TypeInv, LocalOK, Outcome
<1>4. ArgsOK'
  BY DEF TypeInv, ControlOK, LocalOK, ArgsOK
<1> QED BY <1>1, <1>2, <1>3, <1>4 DEF TypeInv

LEMMA LateLandsTyped ==
    ASSUME TypeInv, NEW r \in Req, NEW e \in late[r], LateLands(r, e)
    PROVE  TypeInv'
<1> USE DEF LateLands, lockVars, diskVars, argVars
<1>01. e[1] \in Slot /\ e[2] \in Val
  BY DEF TypeInv, LocalOK
<1>0. twin' \in State /\ unflushed' \in BOOLEAN
  BY <1>01, WriteTyped DEF TypeInv
<1>1. ServerOK'
  BY <1>0 DEF TypeInv, ServerOK
<1>2. ControlOK'
  BY DEF TypeInv, ControlOK
<1>3. LocalOK'
  BY DEF TypeInv, LocalOK
<1>4. ArgsOK'
  BY DEF TypeInv, ControlOK, LocalOK, ArgsOK
<1> QED BY <1>1, <1>2, <1>3, <1>4 DEF TypeInv

LEMMA CrashTyped ==
    ASSUME TypeInv, Crash
    PROVE  TypeInv'
<1> USE DEF Crash, diskVars, argVars
<1>1. ServerOK'
  BY DEF TypeInv, ServerOK
<1>2. ControlOK'
  BY DEF TypeInv, ControlOK
<1>3. LocalOK'
  BY EmptyCapture, CrashLate DEF TypeInv, LocalOK, Outcome
<1>4. ArgsOK'
  BY DEF TypeInv, ControlOK, LocalOK, ArgsOK
<1> QED BY <1>1, <1>2, <1>3, <1>4 DEF TypeInv

(* Every step preserves TypeInv.                                           *)
LEMMA TypeStep ==
    ASSUME TypeInv, [Next]_vars
    PROVE  TypeInv'
<1>1. CASE UNCHANGED vars
  BY <1>1 DEF vars, lockVars, diskVars, argVars, TypeInv, ServerOK, ControlOK,
              LocalOK, ArgsOK
<1>2. ASSUME NEW r \in Req, Arrive(r) PROVE TypeInv'
  BY <1>2, CallApplyTyped, CallInjectTyped, CallRollbackTyped,
     CallSnapshotTyped, CallGoldenTyped DEF Arrive
<1>3. ASSUME NEW r \in Req, Progress(r) PROVE TypeInv'
  BY <1>3, AcquireTyped, ReadSlotTyped, CapturedBeforeTyped,
     CapturedUndoTyped, CapturedAfterTyped, CapturedSnapshotTyped,
     CaptureFailsTyped, OpOkTyped, OpFailsTyped, RestoreFailsTyped,
     OpsDoneTyped, WriteBackTyped, RestoreDoneTyped, ScriptFailsTyped,
     ScriptDoneTyped, ConvergeFailsTyped, ScriptTimesOutTyped DEF Progress
<1>4. ASSUME NEW r \in Req, NEW e \in late[r], LateLands(r, e) PROVE TypeInv'
  BY <1>4, LateLandsTyped
<1>5. CASE Crash
  BY <1>5, CrashTyped
<1> QED BY <1>1, <1>2, <1>3, <1>4, <1>5 DEF Next

LEMMA TypeInit == Init => TypeInv
<1> SUFFICES ASSUME Init PROVE TypeInv
  OBVIOUS
<1> USE TwinLabAssumption DEF TwinLabAssumption, Init
<1>1. ServerOK
  <2>1. waiters \in Seq(Req)
    OBVIOUS
  <2> QED BY <2>1 DEF ServerOK
<1>2. ControlOK
  BY DEF ControlOK
<1>3. LocalOK
  BY EmptyCapture DEF LocalOK
<1>4. ArgsOK
  BY DEF ArgsOK, AllKinds
<1> QED BY <1>1, <1>2, <1>3, <1>4 DEF TypeInv

THEOREM TypeInvariant == Spec => []TypeInv
BY TypeInit, TypeStep, PTL DEF Spec

(* Every variable of the server keeps its type, whatever calls come, fail, *)
(* time out or are lost in a crash (TypeOK).                               *)
THEOREM TypeCorrect == Spec => []TypeOK
BY TypeInvariant, TypeInvTypeOK, PTL

----------------------------------------------------------------------------
(* The lock.                                                               *)

LEMMA LockStep ==
    ASSUME TypeInv, LockedByHolder, [Next]_vars
    PROVE  LockedByHolder'
<1> USE TwinLabAssumption
    DEF TwinLabAssumption, LockedByHolder, Locked, TypeInv, ControlOK
<1>1. CASE UNCHANGED vars
  BY <1>1 DEF vars, lockVars
<1>2. ASSUME NEW r \in Req, Arrive(r) PROVE LockedByHolder'
  BY <1>2 DEF Arrive, CallApply, CallInject, CallRollback, CallSnapshot,
              CallGolden, Issue
<1>3. ASSUME NEW r \in Req, Acquire(r) PROVE LockedByHolder'
  BY <1>3 DEF Acquire, Turn
<1>4. ASSUME NEW r \in Req, NEW s \in Slot, ReadSlot(r, s)
      PROVE  LockedByHolder'
  BY <1>4 DEF ReadSlot, lockVars
<1>5. ASSUME NEW r \in Req, CapturedBefore(r) PROVE LockedByHolder'
  BY <1>5 DEF CapturedBefore, Captured, Goto, lockVars
<1>6. ASSUME NEW r \in Req, CapturedUndo(r) PROVE LockedByHolder'
  BY <1>6 DEF CapturedUndo, Captured, Goto, lockVars
<1>7. ASSUME NEW r \in Req, CapturedAfter(r) PROVE LockedByHolder'
  BY <1>7 DEF CapturedAfter, Captured, Finish
<1>8. ASSUME NEW r \in Req, CapturedSnapshot(r) PROVE LockedByHolder'
  BY <1>8 DEF CapturedSnapshot, Captured, Finish, Capturing
<1>9. ASSUME NEW r \in Req, CaptureFails(r) PROVE LockedByHolder'
  BY <1>9 DEF CaptureFails, Finish, Capturing
<1>10. ASSUME NEW r \in Req, NEW s \in Slot, NEW v \in Val, OpOk(r, s, v)
       PROVE  LockedByHolder'
  BY <1>10 DEF OpOk, lockVars
<1>11. ASSUME NEW r \in Req, NEW s \in Slot, NEW v \in Val, OpFails(r, s, v)
       PROVE  LockedByHolder'
  BY <1>11 DEF OpFails, Goto, Finish, lockVars
<1>12. ASSUME NEW r \in Req, NEW s \in Slot, NEW v \in Val, RestoreFails(r, s, v)
       PROVE  LockedByHolder'
  BY <1>12 DEF RestoreFails, Finish, lockVars
<1>13. ASSUME NEW r \in Req, OpsDone(r) PROVE LockedByHolder'
  BY <1>13 DEF OpsDone, Goto, lockVars
<1>14. ASSUME NEW r \in Req, NEW s \in Slot, WriteBack(r, s)
       PROVE  LockedByHolder'
  BY <1>14 DEF WriteBack, lockVars
<1>15. ASSUME NEW r \in Req, RestoreDone(r) PROVE LockedByHolder'
  BY <1>15 DEF RestoreDone, Goto, Finish, lockVars
<1>16. ASSUME NEW r \in Req, NEW s \in Slot, NEW v \in Val, ScriptFails(r, s, v)
       PROVE  LockedByHolder'
  BY <1>16 DEF ScriptFails, lockVars
<1>17. ASSUME NEW r \in Req, ScriptDone(r) PROVE LockedByHolder'
  BY <1>17 DEF ScriptDone, Goto, Finish, lockVars
<1>18. ASSUME NEW r \in Req, ConvergeFails(r) PROVE LockedByHolder'
  BY <1>18 DEF ConvergeFails, Finish
<1>19. ASSUME NEW r \in Req, ScriptTimesOut(r) PROVE LockedByHolder'
  BY <1>19 DEF ScriptTimesOut, Finish
<1>20. ASSUME NEW r \in Req, NEW e \in late[r], LateLands(r, e)
       PROVE  LockedByHolder'
  BY <1>20 DEF LateLands, lockVars
<1>21. CASE Crash
  BY <1>21 DEF Crash
<1> QED BY <1>1, <1>2, <1>3, <1>4, <1>5, <1>6, <1>7, <1>8, <1>9, <1>10,
          <1>11, <1>12, <1>13, <1>14, <1>15, <1>16, <1>17, <1>18, <1>19,
          <1>20, <1>21
    DEF Next, Progress

(* The lock word is right: write_lock is held by the one call that is      *)
(* inside `async with`, and is given back however that call ends           *)
(* (LockedByHolder).                                                       *)
THEOREM LockCorrect == Spec => []LockedByHolder
<1>1. Init => LockedByHolder
  BY TwinLabAssumption DEF TwinLabAssumption, Init, LockedByHolder, Locked
<1>2. TypeInv /\ LockedByHolder /\ [Next]_vars => LockedByHolder'
  BY LockStep
<1> QED BY <1>1, <1>2, TypeInvariant, PTL DEF Spec

----------------------------------------------------------------------------
(* What is left running.                                                   *)

(* Which kind of call is where; only a restore, the script or a finished   *)
(* call has writes to make, only a call that failed has commands that      *)
(* linger.                                                                 *)
IdleInv ==
    \A r \in Req :
      /\ pc[r] \notin {"restore", "script", "done"} => todo[r] = {}
      /\ pc[r] = "snapshot" => kind[r] = "snapshot"
      /\ pc[r] = "queued" => kind[r] \in {"apply", "inject", "rollback", "golden"}
      /\ pc[r] = "before" => kind[r] \in {"apply", "inject", "rollback"}
      /\ pc[r] = "ops" => kind[r] \in {"apply", "inject"}
      /\ pc[r] = "undo" => kind[r] = "apply"
      /\ late[r] # {} => /\ pc[r] \in {"undo", "restore", "done"}
                         /\ pc[r] = "restore" => kind[r] # "rollback"
      /\ out[r] \in {"ok", "mismatch"} => pc[r] = "done" /\ todo[r] = {} /\ late[r] = {}

LEMMA IdleStep ==
    ASSUME TypeInv, IdleInv, [Next]_vars
    PROVE  IdleInv'
<1> USE TwinLabAssumption
    DEF TwinLabAssumption, IdleInv, TypeInv, ControlOK, LocalOK
<1>1. CASE UNCHANGED vars
  BY <1>1 DEF vars, lockVars, diskVars, argVars
<1>2. ASSUME NEW r \in Req, Arrive(r) PROVE IdleInv'
  BY <1>2 DEF Arrive, CallApply, CallInject, CallRollback, CallSnapshot,
              CallGolden, Issue
<1>3. ASSUME NEW r \in Req, Acquire(r) PROVE IdleInv'
  <2>1. /\ pc[r] = "queued" /\ UNCHANGED <<kind, late, out>>
        /\ \A q \in Req \ {r} : pc'[q] = pc[q] /\ todo'[q] = todo[q]
    BY <1>3 DEF Acquire, argVars
  <2>2. late[r] = {} /\ out[r] \notin {"ok", "mismatch"}
    BY <2>1
  <2>3. \/ pc'[r] = "script"
        \/ /\ pc'[r] = "before" /\ todo'[r] = {}
           /\ kind[r] \in {"apply", "inject", "rollback"}
    BY <1>3, <2>1 DEF Acquire
  <2> QED BY <2>1, <2>2, <2>3
<1>4. ASSUME NEW r \in Req, NEW s \in Slot, ReadSlot(r, s) PROVE IdleInv'
  BY <1>4 DEF ReadSlot, lockVars, diskVars, argVars
<1>5. ASSUME NEW r \in Req, CapturedBefore(r) PROVE IdleInv'
  BY <1>5, CapturedFrame DEF CapturedBefore, Goto, lockVars
<1>6. ASSUME NEW r \in Req, CapturedUndo(r) PROVE IdleInv'
  BY <1>6, CapturedFrame DEF CapturedUndo, Goto, lockVars
<1>7. ASSUME NEW r \in Req, CapturedAfter(r) PROVE IdleInv'
  BY <1>7, CapturedFrame DEF CapturedAfter, Finish, lockVars
<1>8. ASSUME NEW r \in Req, CapturedSnapshot(r) PROVE IdleInv'
  BY <1>8, CapturedFrame DEF CapturedSnapshot, Finish, lockVars
<1>9. ASSUME NEW r \in Req, CaptureFails(r) PROVE IdleInv'
  BY <1>9 DEF CaptureFails, Finish, lockVars, diskVars, argVars, Capturing
<1>10. ASSUME NEW r \in Req, NEW s \in Slot, NEW v \in Val, OpOk(r, s, v)
       PROVE  IdleInv'
  BY <1>10 DEF OpOk, lockVars, diskVars, argVars
<1>11. ASSUME NEW r \in Req, NEW s \in Slot, NEW v \in Val, OpFails(r, s, v)
       PROVE  IdleInv'
  BY <1>11 DEF OpFails, Goto, Finish, lockVars, diskVars, argVars
<1>12. ASSUME NEW r \in Req, NEW s \in Slot, NEW v \in Val, RestoreFails(r, s, v)
       PROVE  IdleInv'
  BY <1>12 DEF RestoreFails, Finish, lockVars, diskVars, argVars, Ready
<1>13. ASSUME NEW r \in Req, OpsDone(r) PROVE IdleInv'
  BY <1>13 DEF OpsDone, Goto, lockVars, diskVars, argVars
<1>14. ASSUME NEW r \in Req, NEW s \in Slot, WriteBack(r, s) PROVE IdleInv'
  BY <1>14 DEF WriteBack, lockVars, diskVars, argVars, Ready
<1>15. ASSUME NEW r \in Req, RestoreDone(r) PROVE IdleInv'
  BY <1>15 DEF RestoreDone, Goto, Finish, lockVars, diskVars, argVars,
               TasksOver
<1>16. ASSUME NEW r \in Req, NEW s \in Slot, NEW v \in Val, ScriptFails(r, s, v)
       PROVE  IdleInv'
  BY <1>16 DEF ScriptFails, lockVars, diskVars, argVars, Ready
<1>17. ASSUME NEW r \in Req, ScriptDone(r) PROVE IdleInv'
  BY <1>17 DEF ScriptDone, Goto, Finish, lockVars, diskVars, argVars, TasksOver
<1>18. ASSUME NEW r \in Req, ConvergeFails(r) PROVE IdleInv'
  BY <1>18 DEF ConvergeFails, Finish, lockVars, diskVars, argVars, TasksOver
<1>19. ASSUME NEW r \in Req, ScriptTimesOut(r) PROVE IdleInv'
  BY <1>19 DEF ScriptTimesOut, Finish, lockVars, diskVars, argVars
<1>20. ASSUME NEW r \in Req, NEW e \in late[r], LateLands(r, e) PROVE IdleInv'
  BY <1>20 DEF LateLands, lockVars, diskVars, argVars
<1>21. CASE Crash
  <2>1. ASSUME NEW r \in Req, pc[r] # "ops", todo[r] = {} PROVE late'[r] = late[r]
    <3>1. PICK x \in Surviving(r) : late'[r] = late[r] \cup x
      BY <1>21, CrashLate
    <3>2. x = {}
      BY <2>1, QuietSurvivors
    <3> QED BY <3>1, <3>2
  <2>2. ASSUME NEW r \in Req
        PROVE  \/ pc[r] \notin {"new", "done"} /\ pc'[r] = "done" /\ out'[r] = "lost"
               \/ pc[r] \in {"new", "done"} /\ pc'[r] = pc[r] /\ out'[r] = out[r]
    BY <1>21 DEF Crash
  <2>3. \A r \in Req : kind'[r] = kind[r] /\ todo'[r] \subseteq todo[r]
    BY <1>21 DEF Crash, argVars
  <2> QED BY <2>1, <2>2, <2>3
<1> QED BY <1>1, <1>2, <1>3, <1>4, <1>5, <1>6, <1>7, <1>8, <1>9, <1>10,
          <1>11, <1>12, <1>13, <1>14, <1>15, <1>16, <1>17, <1>18, <1>19,
          <1>20, <1>21
    DEF Next, Progress

(* Whatever fails, times out or crashes, a call that reported success has  *)
(* no restore task, script or timed-out command still running              *)
(* (SuccessLeavesNothingRunning).                                          *)
THEOREM SuccessIsQuiet == Spec => []SuccessLeavesNothingRunning
<1>1. Init => IdleInv
  BY TwinLabAssumption DEF TwinLabAssumption, Init, IdleInv, Outcome
<1>2. TypeInv /\ IdleInv /\ [Next]_vars => IdleInv'
  BY IdleStep
<1>3. IdleInv => SuccessLeavesNothingRunning
  BY DEF IdleInv, SuccessLeavesNothingRunning
<1> QED BY <1>1, <1>2, <1>3, TypeInvariant, PTL DEF Spec

----------------------------------------------------------------------------
(* What is on disk.                                                        *)

(* The snapshot a call has in hand is on disk before the call changes      *)
(* anything.                                                               *)
StoredInv ==
    /\ RecordedStatesStored
    /\ \A r \in Req : before[r] \in store \cup {NIL}

LEMMA StoredStep ==
    ASSUME TypeInv, StoredInv, [Next]_vars
    PROVE  StoredInv'
<1> USE TwinLabAssumption
    DEF TwinLabAssumption, StoredInv, RecordedStatesStored, TypeInv, ControlOK, LocalOK
<1>1. CASE UNCHANGED vars
  BY <1>1 DEF vars, lockVars, diskVars, argVars
<1>2. ASSUME NEW r \in Req, Arrive(r) PROVE StoredInv'
  BY <1>2 DEF Arrive, CallApply, CallInject, CallRollback, CallSnapshot,
              CallGolden, Issue, diskVars
<1>3. ASSUME NEW r \in Req, Acquire(r) PROVE StoredInv'
  BY <1>3 DEF Acquire, Turn, lockVars, diskVars, argVars
<1>4. ASSUME NEW r \in Req, NEW s \in Slot, ReadSlot(r, s) PROVE StoredInv'
  BY <1>4 DEF ReadSlot, lockVars, diskVars, argVars
<1>5. ASSUME NEW r \in Req, CapturedBefore(r) PROVE StoredInv'
  BY <1>5 DEF CapturedBefore, Captured, Goto, lockVars, diskVars, argVars, Save
<1>6. ASSUME NEW r \in Req, CapturedUndo(r) PROVE StoredInv'
  BY <1>6 DEF CapturedUndo, Captured, Goto, lockVars, diskVars, argVars, Save
<1>7. ASSUME NEW r \in Req, CapturedAfter(r) PROVE StoredInv'
  BY <1>7 DEF CapturedAfter, Captured, Finish, lockVars, diskVars, argVars,
              Save, ArgsOK
<1>8. ASSUME NEW r \in Req, CapturedSnapshot(r) PROVE StoredInv'
  BY <1>8 DEF CapturedSnapshot, Captured, Finish, lockVars, diskVars, argVars,
              Save
<1>9. ASSUME NEW r \in Req, CaptureFails(r) PROVE StoredInv'
  BY <1>9 DEF CaptureFails, Finish, lockVars, diskVars, argVars
<1>10. ASSUME NEW r \in Req, NEW s \in Slot, NEW v \in Val, OpOk(r, s, v)
       PROVE  StoredInv'
  BY <1>10 DEF OpOk, lockVars, diskVars, argVars
<1>11. ASSUME NEW r \in Req, NEW s \in Slot, NEW v \in Val, OpFails(r, s, v)
       PROVE  StoredInv'
  BY <1>11 DEF OpFails, Goto, Finish, lockVars, diskVars, argVars
<1>12. ASSUME NEW r \in Req, NEW s \in Slot, NEW v \in Val, RestoreFails(r, s, v)
       PROVE  StoredInv'
  BY <1>12 DEF RestoreFails, Finish, lockVars, diskVars, argVars
<1>13. ASSUME NEW r \in Req, OpsDone(r) PROVE StoredInv'
  BY <1>13 DEF OpsDone, Goto, lockVars, diskVars, argVars
<1>14. ASSUME NEW r \in Req, NEW s \in Slot, WriteBack(r, s) PROVE StoredInv'
  BY <1>14 DEF WriteBack, lockVars, diskVars, argVars
<1>15. ASSUME NEW r \in Req, RestoreDone(r) PROVE StoredInv'
  BY <1>15 DEF RestoreDone, Goto, Finish, lockVars, diskVars, argVars
<1>16. ASSUME NEW r \in Req, NEW s \in Slot, NEW v \in Val, ScriptFails(r, s, v)
       PROVE  StoredInv'
  BY <1>16 DEF ScriptFails, lockVars, diskVars, argVars
<1>17. ASSUME NEW r \in Req, ScriptDone(r) PROVE StoredInv'
  BY <1>17 DEF ScriptDone, Goto, Finish, lockVars, diskVars, argVars
<1>18. ASSUME NEW r \in Req, ConvergeFails(r) PROVE StoredInv'
  BY <1>18 DEF ConvergeFails, Finish, lockVars, diskVars, argVars
<1>19. ASSUME NEW r \in Req, ScriptTimesOut(r) PROVE StoredInv'
  BY <1>19 DEF ScriptTimesOut, Finish, lockVars, diskVars, argVars
<1>20. ASSUME NEW r \in Req, NEW e \in late[r], LateLands(r, e)
       PROVE  StoredInv'
  BY <1>20 DEF LateLands, lockVars, diskVars, argVars
<1>21. CASE Crash
  BY <1>21 DEF Crash, diskVars, argVars
<1> QED BY <1>1, <1>2, <1>3, <1>4, <1>5, <1>6, <1>7, <1>8, <1>9, <1>10,
          <1>11, <1>12, <1>13, <1>14, <1>15, <1>16, <1>17, <1>18, <1>19,
          <1>20, <1>21
    DEF Next, Progress

(* Whatever fails or crashes, both states of every change record, and the  *)
(* states the golden marker and the last injection name, are snapshots one *)
(* can roll back to (RecordedStatesStored).                                *)
THEOREM RecordsAreStored == Spec => []RecordedStatesStored
<1>1. Init => StoredInv
  BY DEF Init, StoredInv, RecordedStatesStored
<1>2. TypeInv /\ StoredInv /\ [Next]_vars => StoredInv'
  BY StoredStep
<1>3. StoredInv => RecordedStatesStored
  BY DEF StoredInv
<1> QED BY <1>1, <1>2, <1>3, TypeInvariant, PTL DEF Spec
----------------------------------------------------------------------------
(* Nobody is stuck: the safety core of Answered, for any number of calls   *)
(* and all faults.                                                         *)

(* The queue of write_lock holds the calls that wait for it, each once.    *)
Waits(r) == \E i \in 1..Len(waiters) : waiters[i] = r

QueueInv ==
    /\ \A r \in Req : pc[r] = "queued" <=> Waits(r)
    /\ \A i, j \in 1..Len(waiters) : waiters[i] = waiters[j] => i = j

(* A step that touches neither the queue nor who waits keeps QueueInv.     *)
LEMMA QueueFrame ==
    ASSUME QueueInv, waiters' = waiters,
           \A r \in Req : pc'[r] = "queued" <=> pc[r] = "queued"
    PROVE  QueueInv'
BY DEF QueueInv, Waits

(* A call that gets in line stands last.                                   *)
LEMMA QueueGrows ==
    ASSUME TypeInv, QueueInv, NEW r \in Req, pc[r] = "new",
           waiters' = Append(waiters, r),
           pc' = [pc EXCEPT ![r] = "queued"]
    PROVE  QueueInv'
<1> USE DEF TypeInv, ServerOK, ControlOK
<1>1. ~ Waits(r)
  BY DEF QueueInv
<1>2. /\ Len(waiters') = Len(waiters) + 1
      /\ waiters'[Len(waiters) + 1] = r
      /\ \A i \in 1..Len(waiters) : waiters'[i] = waiters[i]
  OBVIOUS
<1>3. Len(waiters) \in Nat
  OBVIOUS
<1>4. ASSUME NEW q \in Req PROVE pc'[q] = "queued" <=> Waits(q)'
  <2>1. CASE q = r
    <3>1. Len(waiters) + 1 \in 1..Len(waiters')
      BY <1>2, <1>3
    <3> QED BY <2>1, <1>2, <3>1 DEF Waits
  <2>2. CASE q # r
    <3>1. pc'[q] = pc[q]
      BY <2>2
    <3>2. Waits(q)' <=> Waits(q)
      BY <2>2, <1>2, <1>3 DEF Waits
    <3> QED BY <3>1, <3>2 DEF QueueInv
  <2> QED BY <2>1, <2>2
<1>5. ASSUME NEW i \in 1..Len(waiters'), NEW j \in 1..Len(waiters'),
             waiters'[i] = waiters'[j]
      PROVE  i = j
  BY <1>1, <1>2, <1>3, <1>5 DEF QueueInv, Waits
<1> QED BY <1>4, <1>5 DEF QueueInv

(* The call at the head leaves the queue for good.                         *)
LEMMA QueueShrinks ==
    ASSUME TypeInv, QueueInv, NEW r \in Req, waiters # <<>>,
           Head(waiters) = r, waiters' = Tail(waiters),
           NEW label, label # "queued", pc' = [pc EXCEPT ![r] = label]
    PROVE  QueueInv'
<1> USE DEF TypeInv, ServerOK, ControlOK
<1>1. /\ Len(waiters) \in Nat /\ Len(waiters) > 0
      /\ Len(waiters') = Len(waiters) - 1
      /\ waiters[1] = r
      /\ \A i \in 1..Len(waiters') : waiters'[i] = waiters[i + 1]
  OBVIOUS
<1>2. ~ Waits(r)'
  <2>1. ASSUME NEW i \in 1..Len(waiters'), waiters'[i] = r PROVE FALSE
    <3>1. i + 1 \in 1..Len(waiters) /\ waiters[i + 1] = waiters[1]
      BY <1>1, <2>1
    <3>2. 1 \in 1..Len(waiters)
      BY <1>1
    <3>3. i + 1 = 1
      BY <3>1, <3>2 DEF QueueInv
    <3> QED BY <3>3
  <2> QED BY <2>1 DEF Waits
<1>3. ASSUME NEW q \in Req PROVE pc'[q] = "queued" <=> Waits(q)'
  <2>1. CASE q = r
    BY <2>1, <1>2
  <2>2. CASE q # r
    <3>1. pc'[q] = pc[q]
      BY <2>2
    <3>2. ASSUME NEW i \in 1..Len(waiters), waiters[i] = q PROVE Waits(q)'
      <4>1. i - 1 \in 1..Len(waiters') /\ waiters'[i - 1] = q
        BY <3>2, <2>2, <1>1
      <4> QED BY <4>1 DEF Waits
    <3>3. ASSUME NEW i \in 1..Len(waiters'), waiters'[i] = q PROVE Waits(q)
      <4>1. i + 1 \in 1..Len(waiters) /\ waiters[i + 1] = q
        BY <3>3, <1>1
      <4> QED BY <4>1 DEF Waits
    <3> QED BY <3>1, <3>2, <3>3 DEF QueueInv, Waits
  <2> QED BY <2>1, <2>2
<1>4. ASSUME NEW i \in 1..Len(waiters'), NEW j \in 1..Len(waiters'),
             waiters'[i] = waiters'[j]
      PROVE  i = j
  <2>1. /\ i + 1 \in 1..Len(waiters) /\ j + 1 \in 1..Len(waiters)
        /\ waiters[i + 1] = waiters[j + 1]
    BY <1>1, <1>4
  <2>2. i + 1 = j + 1
    BY <2>1 DEF QueueInv
  <2> QED BY <2>2
<1> QED BY <1>3, <1>4 DEF QueueInv

LEMMA QueueStep ==
    ASSUME TypeInv, IdleInv, QueueInv, [Next]_vars
    PROVE  QueueInv'
<1> USE QueueFrame DEF TypeInv, ControlOK
<1>1. CASE UNCHANGED vars
  BY <1>1 DEF vars, lockVars
<1>2. ASSUME NEW r \in Req, Arrive(r) PROVE QueueInv'
  <2>1. pc[r] = "new"
    BY <1>2, ArriveFrame
  <2>2. CASE waiters' = waiters /\ pc' = [pc EXCEPT ![r] = "snapshot"]
    BY <2>1, <2>2
  <2>3. CASE /\ waiters' = Append(waiters, r)
             /\ pc' = [pc EXCEPT ![r] = "queued"]
    BY <2>1, <2>3, QueueGrows
  <2>4. PICK k \in AllKinds : Issue(r, k)
    BY <1>2 DEF Arrive, CallApply, CallInject, CallRollback, CallSnapshot,
                CallGolden, AllKinds
  <2> QED BY <2>2, <2>3, <2>4 DEF Issue
<1>3. ASSUME NEW r \in Req, Acquire(r) PROVE QueueInv'
  <2>1. CASE pc' = [pc EXCEPT ![r] = "script"]
    BY <1>3, <2>1, QueueShrinks DEF Acquire, Turn
  <2>2. CASE pc' = [pc EXCEPT ![r] = "before"]
    BY <1>3, <2>2, QueueShrinks DEF Acquire, Turn
  <2> QED BY <1>3, <2>1, <2>2 DEF Acquire
<1>4. ASSUME NEW r \in Req, NEW s \in Slot, ReadSlot(r, s)
      PROVE  QueueInv'
  BY <1>4 DEF ReadSlot, lockVars
<1>5. ASSUME NEW r \in Req, CapturedBefore(r)
      PROVE  QueueInv'
  BY <1>5 DEF CapturedBefore, Captured, Goto, lockVars
<1>6. ASSUME NEW r \in Req, CapturedUndo(r)
      PROVE  QueueInv'
  BY <1>6 DEF CapturedUndo, Captured, Goto, lockVars
<1>7. ASSUME NEW r \in Req, CapturedAfter(r)
      PROVE  QueueInv'
  BY <1>7 DEF CapturedAfter, Captured, Finish
<1>8. ASSUME NEW r \in Req, CapturedSnapshot(r)
      PROVE  QueueInv'
  BY <1>8 DEF CapturedSnapshot, Captured, Finish
<1>9. ASSUME NEW r \in Req, CaptureFails(r)
      PROVE  QueueInv'
  BY <1>9 DEF CaptureFails, Finish, Capturing
<1>10. ASSUME NEW r \in Req, NEW s \in Slot, NEW v \in Val, OpOk(r, s, v)
      PROVE  QueueInv'
  BY <1>10 DEF OpOk, lockVars
<1>11. ASSUME NEW r \in Req, NEW s \in Slot, NEW v \in Val, OpFails(r, s, v)
      PROVE  QueueInv'
  BY <1>11 DEF OpFails, Goto, Finish, lockVars
<1>12. ASSUME NEW r \in Req, NEW s \in Slot, NEW v \in Val, RestoreFails(r, s, v)
      PROVE  QueueInv'
  BY <1>12 DEF RestoreFails, Finish, lockVars
<1>13. ASSUME NEW r \in Req, OpsDone(r)
      PROVE  QueueInv'
  BY <1>13 DEF OpsDone, Goto, lockVars
<1>14. ASSUME NEW r \in Req, NEW s \in Slot, WriteBack(r, s)
      PROVE  QueueInv'
  BY <1>14 DEF WriteBack, lockVars
<1>15. ASSUME NEW r \in Req, RestoreDone(r)
      PROVE  QueueInv'
  BY <1>15 DEF RestoreDone, Goto, Finish, lockVars
<1>16. ASSUME NEW r \in Req, NEW s \in Slot, NEW v \in Val, ScriptFails(r, s, v)
      PROVE  QueueInv'
  BY <1>16 DEF ScriptFails, lockVars
<1>17. ASSUME NEW r \in Req, ScriptDone(r)
      PROVE  QueueInv'
  BY <1>17 DEF ScriptDone, Goto, Finish, lockVars
<1>18. ASSUME NEW r \in Req, ConvergeFails(r)
      PROVE  QueueInv'
  BY <1>18 DEF ConvergeFails, Finish
<1>19. ASSUME NEW r \in Req, ScriptTimesOut(r)
      PROVE  QueueInv'
  BY <1>19 DEF ScriptTimesOut, Finish
<1>20. ASSUME NEW r \in Req, NEW e \in late[r], LateLands(r, e)
      PROVE  QueueInv'
  BY <1>20 DEF LateLands, lockVars
<1>21. CASE Crash
  <2>1. waiters' = <<>> /\ \A r \in Req : pc'[r] # "queued"
    BY <1>21 DEF Crash
  <2> QED BY <2>1 DEF QueueInv, Waits
<1> QED BY <1>1, <1>2, <1>3, <1>4, <1>5, <1>6, <1>7, <1>8, <1>9, <1>10,
          <1>11, <1>12, <1>13, <1>14, <1>15, <1>16, <1>17, <1>18, <1>19,
          <1>20, <1>21
    DEF Next, Progress

(* What lets a call take its next step, no fault being needed: one line    *)
(* per guard of the actions of Progress.                                   *)
MayGoOn(r) ==
    \/ pc[r] = "queued" /\ Turn(r)
    \/ pc[r] \in Capturing /\ \E s \in Slot : s \notin DOMAIN cap[r]
    \/ pc[r] \in Capturing /\ DOMAIN cap[r] = Slot
    \/ pc[r] = "ops" /\ OpsLeft(r) /\ Writable(r) # {}
    \/ pc[r] = "ops" /\ left[r] = 0
    \/ pc[r] \in {"restore", "script"} /\ Ready(r) # {}
    \/ pc[r] \in {"restore", "script"} /\ TasksOver(r)

(* The call another one waits for: itself, the holder of the lock, or the  *)
(* first in line when the lock is free.                                    *)
First(r) ==
    IF pc[r] # "queued" THEN r
    ELSE IF holder # NIL THEN holder ELSE Head(waiters)

(* Whoever has not been answered waits for one call, and that call may go  *)
(* on.                                                                     *)
NeverStuck ==
    \A r \in Req : pc[r] \notin {"new", "done"}
      => First(r) \in Req /\ MayGoOn(First(r))

(* Of the writes a restore or the script has left, one is ready: a router  *)
(* layer if there is any, else every one.                                  *)
LEMMA OneIsReady ==
    ASSUME TypeInv, NEW r \in Req, todo[r] # {}
    PROVE  Ready(r) # {}
<1>1. todo[r] \subseteq Slot
  BY DEF TypeInv, LocalOK
<1>2. CASE \E t \in todo[r] : t[2] = "frr"
  <2>1. PICK t \in todo[r] : t[2] = "frr"
    BY <1>2
  <2>2. t \in Ready(r)
    BY <2>1 DEF Ready, Precedes
  <2> QED BY <2>2
<1>3. CASE \A t \in todo[r] : t[2] # "frr"
  BY <1>3 DEF Ready, Precedes
<1> QED BY <1>2, <1>3

(* A call that does not wait for the lock may always go on.                *)
LEMMA RunningMayGoOn ==
    ASSUME Node # {}, TypeInv, IdleInv, NEW r \in Req,
           pc[r] \notin {"new", "queued", "done"}
    PROVE  MayGoOn(r)
<1>1. CASE pc[r] \in Capturing
  <2>1. DOMAIN cap[r] \subseteq Slot
    BY DEF TypeInv, LocalOK, Partial
  <2> QED BY <1>1, <2>1 DEF MayGoOn
<1>2. CASE pc[r] = "ops"
  <2>1. left[r] = 0 \/ OpsLeft(r)
    BY DEF TypeInv, ControlOK, OpsLeft
  <2>2. \A n \in Node : <<n, "kernel">> \in Slot
    BY DEF Slot
  <2>3. kind[r] = "apply" => node[r] \in Node
    BY DEF TypeInv, ArgsOK
  <2>4. PICK n \in Node : kind[r] = "apply" => n = node[r]
    BY <2>3
  <2>5. <<n, "kernel">> \in Writable(r)
    BY <2>2, <2>4 DEF Writable
  <2> QED BY <1>2, <2>1, <2>5 DEF MayGoOn
<1>3. CASE pc[r] \in {"restore", "script"}
  BY <1>3, OneIsReady DEF MayGoOn, TasksOver
<1> QED BY <1>1, <1>2, <1>3 DEF TypeInv, ControlOK, Capturing, Locked

LEMMA NobodyStuck ==
    ASSUME Node # {}, TypeInv, IdleInv, LockedByHolder, QueueInv
    PROVE  NeverStuck
<1> SUFFICES ASSUME NEW r \in Req, pc[r] \notin {"new", "done"}
             PROVE  First(r) \in Req /\ MayGoOn(First(r))
  BY DEF NeverStuck
<1>1. CASE pc[r] # "queued"
  BY <1>1, RunningMayGoOn DEF First
<1>2. CASE pc[r] = "queued" /\ holder # NIL
  <2>1. holder \in Req /\ pc[holder] \in Locked
    BY <1>2 DEF TypeInv, ServerOK, LockedByHolder
  <2>2. MayGoOn(holder)
    BY <2>1, RunningMayGoOn DEF Locked
  <2> QED BY <1>2, <2>1, <2>2 DEF First
<1>3. CASE pc[r] = "queued" /\ holder = NIL
  <2>1. Waits(r)
    BY <1>3 DEF QueueInv
  <2>2. /\ waiters # <<>> /\ 1 \in 1..Len(waiters)
        /\ Head(waiters) \in Req /\ waiters[1] = Head(waiters)
    BY <2>1 DEF Waits, TypeInv, ServerOK
  <2>3. pc[Head(waiters)] = "queued"
    BY <2>2 DEF QueueInv, Waits
  <2>4. MayGoOn(Head(waiters))
    BY <1>3, <2>2, <2>3 DEF MayGoOn, Turn
  <2> QED BY <1>3, <2>2, <2>4 DEF First
<1> QED BY <1>1, <1>2, <1>3

(* On every twin that has a node, at any time and whatever has failed,     *)
(* timed out or crashed: a call that has not been answered may go on       *)
(* itself, or waits on write_lock for a call that may go on: never for one *)
(* that is over, and never for one that waits on the lock in its turn      *)
(* (NeverStuck).                                                           *)
THEOREM NobodyIsStuck == Node # {} => (Spec => []NeverStuck)
<1> SUFFICES ASSUME Node # {} PROVE Spec => []NeverStuck
  OBVIOUS
<1>1. Init => IdleInv /\ QueueInv
  BY TwinLabAssumption
    DEF TwinLabAssumption, Init, IdleInv, Outcome, QueueInv, Waits
<1>2. TypeInv /\ IdleInv /\ [Next]_vars => IdleInv'
  BY IdleStep
<1>3. TypeInv /\ IdleInv /\ QueueInv /\ [Next]_vars => QueueInv'
  BY QueueStep
<1>4. TypeInv /\ IdleInv /\ LockedByHolder /\ QueueInv => NeverStuck
  BY NobodyStuck
<1> QED BY <1>1, <1>2, <1>3, <1>4, TypeInvariant, LockCorrect, PTL DEF Spec
----------------------------------------------------------------------------
(* No call goes round in circles: the other half of why calls are          *)
(* answered.                                                               *)

(* The ladder that every call climbs, an apply that is undone included.    *)
Rank == [new |-> 0, queued |-> 1, before |-> 2, script |-> 2, ops |-> 3,
         undo |-> 4, restore |-> 5, snapshot |-> 6, after |-> 6, done |-> 7]

(* A call moves up, or has fewer ops, fewer writes or fewer slots to go.   *)
GoesForward(r) ==
    \/ Rank[pc[r]] < Rank[pc'[r]]
    \/ /\ pc'[r] = pc[r]
       /\ \/ left'[r] < left[r]
          \/ todo'[r] \subseteq todo[r] /\ todo'[r] # todo[r]
          \/ /\ pc[r] \in Capturing
             /\ DOMAIN cap[r] \subseteq DOMAIN cap'[r]
             /\ DOMAIN cap'[r] # DOMAIN cap[r]

StaysPut(r) ==
    /\ pc'[r] = pc[r] /\ left'[r] = left[r] /\ todo'[r] = todo[r]
    /\ pc[r] \in Capturing => cap'[r] = cap[r]

(* A call's own steps take it forward, and nobody's steps take it back.    *)
CallsGoForward ==
    [][\A r \in Req : /\ Progress(r) => GoesForward(r)
                      /\ GoesForward(r) \/ StaysPut(r)]_vars

LEMMA Ladder ==
    /\ Rank["new"] < Rank["queued"] /\ Rank["new"] < Rank["snapshot"]
    /\ Rank["queued"] < Rank["before"] /\ Rank["queued"] < Rank["script"]
    /\ Rank["before"] < Rank["ops"] /\ Rank["before"] < Rank["restore"]
    /\ Rank["ops"] < Rank["undo"] /\ Rank["ops"] < Rank["after"]
    /\ Rank["undo"] < Rank["restore"] /\ Rank["restore"] < Rank["after"]
    /\ Rank["script"] < Rank["after"]
    /\ \A label \in {"new", "queued"} \cup Capturing \cup Locked :
         Rank[label] < Rank["done"]
BY DEF Rank, Capturing, Locked

(* What a step of one call is to all of them.                              *)
OwnStep(r) == GoesForward(r) /\ \A q \in Req \ {r} : StaysPut(q)

LEMMA ProgressIsForward ==
    ASSUME TypeInv, NEW r \in Req, Progress(r)
    PROVE  OwnStep(r)
<1> USE Ladder DEF TypeInv, ControlOK, LocalOK, OwnStep, GoesForward, StaysPut
<1>1. CASE Acquire(r)
  BY <1>1 DEF Acquire, Turn, argVars
<1>2. ASSUME NEW s \in Slot, ReadSlot(r, s)
      PROVE  OwnStep(r)
  BY <1>2 DEF ReadSlot, argVars, Capturing
<1>3. CASE CapturedBefore(r)
  BY <1>3 DEF CapturedBefore, Captured, Goto, argVars, Capturing
<1>4. CASE CapturedUndo(r)
  BY <1>4 DEF CapturedUndo, Captured, Goto, argVars, Capturing
<1>5. CASE CapturedAfter(r)
  BY <1>5 DEF CapturedAfter, Captured, Finish, argVars, Capturing, Locked
<1>6. CASE CapturedSnapshot(r)
  BY <1>6 DEF CapturedSnapshot, Captured, Finish, argVars, Capturing, Locked
<1>7. CASE CaptureFails(r)
  BY <1>7 DEF CaptureFails, Finish, argVars, Capturing, Locked
<1>8. ASSUME NEW s \in Slot, NEW v \in Val, OpOk(r, s, v)
      PROVE  OwnStep(r)
  BY <1>8 DEF OpOk, OpsLeft, argVars, Capturing
<1>9. ASSUME NEW s \in Slot, NEW v \in Val, OpFails(r, s, v)
      PROVE  OwnStep(r)
  BY <1>9 DEF OpFails, Goto, Finish, argVars, Capturing, Locked
<1>10. ASSUME NEW s \in Slot, NEW v \in Val, RestoreFails(r, s, v)
      PROVE  OwnStep(r)
  BY <1>10 DEF RestoreFails, Ready, Finish, argVars, Capturing, Locked
<1>11. CASE OpsDone(r)
  BY <1>11 DEF OpsDone, Goto, argVars, Capturing
<1>12. ASSUME NEW s \in Slot, WriteBack(r, s)
      PROVE  OwnStep(r)
  BY <1>12 DEF WriteBack, Ready, argVars, Capturing
<1>13. CASE RestoreDone(r)
  BY <1>13 DEF RestoreDone, Goto, Finish, argVars, Capturing, Locked
<1>14. ASSUME NEW s \in Slot, NEW v \in Val, ScriptFails(r, s, v)
      PROVE  OwnStep(r)
  BY <1>14 DEF ScriptFails, Ready, argVars, Capturing
<1>15. CASE ScriptDone(r)
  BY <1>15 DEF ScriptDone, Goto, Finish, argVars, Capturing, Locked
<1>16. CASE ConvergeFails(r)
  BY <1>16 DEF ConvergeFails, Finish, argVars, Capturing, Locked
<1>17. CASE ScriptTimesOut(r)
  BY <1>17 DEF ScriptTimesOut, Finish, argVars, Capturing, Locked
<1> QED BY <1>1, <1>2, <1>3, <1>4, <1>5, <1>6, <1>7, <1>8, <1>9, <1>10,
          <1>11, <1>12, <1>13, <1>14, <1>15, <1>16, <1>17
    DEF Progress

LEMMA StepIsForward ==
    ASSUME TypeInv, [Next]_vars, NEW r \in Req
    PROVE  GoesForward(r) \/ StaysPut(r)
<1>1. CASE UNCHANGED vars
  BY <1>1 DEF vars, StaysPut
<1>2. ASSUME NEW q \in Req, Arrive(q) PROVE GoesForward(r) \/ StaysPut(r)
  BY <1>2, ArriveFrame, Ladder DEF GoesForward, StaysPut
<1>3. ASSUME NEW q \in Req, Progress(q) PROVE GoesForward(r) \/ StaysPut(r)
  BY <1>3, ProgressIsForward DEF OwnStep
<1>4. ASSUME NEW q \in Req, NEW e \in late[q], LateLands(q, e)
      PROVE  GoesForward(r) \/ StaysPut(r)
  BY <1>4 DEF LateLands, StaysPut
<1>5. CASE Crash
  <2>1. CASE pc[r] \notin {"new", "done"}
    BY <1>5, <2>1, Ladder DEF Crash, TypeInv, ControlOK, GoesForward
  <2>2. CASE pc[r] \in {"new", "done"}
    BY <1>5, <2>2 DEF Crash, TypeInv, LocalOK, GoesForward, StaysPut, Capturing
  <2> QED BY <2>1, <2>2
<1> QED BY <1>1, <1>2, <1>3, <1>4, <1>5 DEF Next

(* Every step of a call takes it up the ladder or leaves it fewer ops,     *)
(* writes or reads to make, and no step of another call, late write or     *)
(* crash takes it back: no call can retry, undo or capture for ever        *)
(* (CallsGoForward).                                                       *)
THEOREM CallsDoGoForward == Spec => CallsGoForward
<1> DEFINE Forward(r) == /\ Progress(r) => GoesForward(r)
                         /\ GoesForward(r) \/ StaysPut(r)
<1>1. ASSUME TypeInv, [Next]_vars PROVE \A r \in Req : Forward(r)
  <2>1. ASSUME NEW r \in Req, Progress(r) PROVE GoesForward(r)
    BY <1>1, <2>1, ProgressIsForward DEF OwnStep
  <2>2. ASSUME NEW r \in Req PROVE GoesForward(r) \/ StaysPut(r)
    BY <1>1, StepIsForward
  <2> QED BY <2>1, <2>2
<1>2. TypeInv /\ [Next]_vars => [\A r \in Req : Forward(r)]_vars
  BY <1>1
<1> QED BY <1>2, TypeInvariant, PTL DEF Spec, CallsGoForward
============================================================================

------------------------------ MODULE TwinLab ------------------------------
(***************************************************************************)
(* The twinlab server: tool calls and admin routes that read and write the *)
(* twin (a lab of containers) around one asyncio.Lock.  A step is what     *)
(* runs between two awaits; the configuration of the twin is a function on *)
(* slots (node, layer), and a snapshot is the configured state it captured *)
(* (its id is the hash of that state, so state and id are identified).     *)
(***************************************************************************)
EXTENDS Naturals, Sequences

CONSTANTS Node,       \* the nodes of the topology
          Router,     \* those with an FRR layer
          Val,        \* configurations a layer of a node can have
          Golden,     \* the configuration golden.sh applies
          Req,        \* calls: each element is one call served at most once
          Kinds,      \* which of AllKinds are issued
          Faults,     \* which of AllFaults may happen
          MaxOps,     \* longest op list of one apply or scenario
          NIL

AllKinds  == {"apply", "rollback", "snapshot", "inject", "golden"}
AllFaults == {"capture", "op", "restore", "script", "timeout", "flush", "crash"}

Outcome   == {"ok", "mismatch", "rolled_back", "error", "lost"}

Slot   == {s \in Node \X {"frr", "kernel"} : s[2] = "frr" => s[1] \in Router}
State  == [Slot -> Val]
Partial == UNION {[S -> Val] : S \in SUBSET Slot}
Change == [node : Node, before : State, after : State]

ASSUME TwinLabAssumption ==
    /\ Router \subseteq Node
    /\ Golden \in State
    /\ Kinds \subseteq AllKinds
    /\ Faults \subseteq AllFaults
    /\ MaxOps \in Nat \ {0}
    /\ NIL \notin Req /\ NIL \notin State /\ NIL \notin Node
    /\ NIL \notin AllKinds /\ NIL \notin Outcome

VARIABLES
    twin,       \* live configuration of the containers
    holder,     \* call that holds write_lock, or NIL
    waiters,    \* calls queued on write_lock, in arrival order
    store,      \* snapshots on disk
    changes,    \* change records on disk
    marker,     \* the golden marker file
    injected,   \* last_injection: its after-snapshot, or NIL
    unflushed,  \* some node's route cache may be older than the last write
    pc, kind, node, target, left,   \* per call: control, arguments, ops left
    cap,        \* per call: slots read so far by the capture in progress
    before,     \* per call: the `before` snapshot
    todo,       \* per call: slots its restore (or golden.sh) has yet to write
    late,       \* per call: writes of commands nobody waits for any more
    out         \* per call: how it ended

lockVars == <<holder, waiters>>
diskVars == <<store, changes, marker>>
argVars  == <<kind, node, target>>
vars == <<twin, lockVars, diskVars, injected, unflushed,
          pc, argVars, left, cap, before, todo, late, out>>

Capturing == {"before", "undo", "after", "snapshot"}
Locked    == {"before", "ops", "undo", "restore", "after", "script"}

TypeOK ==
    /\ twin \in State
    /\ holder \in Req \cup {NIL}
    /\ waiters \in Seq(Req)
    /\ store \subseteq State
    /\ changes \subseteq Change
    /\ marker \in State \cup {NIL}
    /\ injected \in State \cup {NIL}
    /\ unflushed \in BOOLEAN
    /\ pc \in [Req -> {"new", "queued", "done"} \cup Capturing \cup Locked]
    /\ kind \in [Req -> AllKinds \cup {NIL}]
    /\ node \in [Req -> Node \cup {NIL}]
    /\ target \in [Req -> State \cup {NIL}]
    /\ left \in [Req -> 0..MaxOps]
    /\ cap \in [Req -> Partial]
    /\ before \in [Req -> State \cup {NIL}]
    /\ todo \in [Req -> SUBSET Slot]
    /\ late \in [Req -> SUBSET (Slot \X Val)]
    /\ out \in [Req -> Outcome \cup {NIL}]

Empty == [s \in {} |-> NIL]

Init ==
    /\ twin = Golden
    /\ holder = NIL /\ waiters = <<>>
    /\ store = {} /\ changes = {} /\ marker = NIL
    /\ injected = NIL /\ unflushed = FALSE
    /\ pc = [r \in Req |-> "new"]
    /\ kind = [r \in Req |-> NIL]
    /\ node = [r \in Req |-> NIL]
    /\ target = [r \in Req |-> NIL]
    /\ left = [r \in Req |-> 0]
    /\ cap = [r \in Req |-> Empty]
    /\ before = [r \in Req |-> NIL]
    /\ todo = [r \in Req |-> {}]
    /\ late = [r \in Req |-> {}]
    /\ out = [r \in Req |-> NIL]

----------------------------------------------------------------------------
(* Arrival of a call and the lock.  A snapshot takes no lock; every other  *)
(* call waits its turn (asyncio.Lock is first come, first served).  The    *)
(* target of a rollback is loaded before the lock is asked for.            *)

Issue(r, k) ==
    /\ pc[r] = "new" /\ k \in Kinds
    /\ kind' = [kind EXCEPT ![r] = k]
    /\ IF k = "snapshot"
       THEN pc' = [pc EXCEPT ![r] = "snapshot"] /\ UNCHANGED waiters
       ELSE pc' = [pc EXCEPT ![r] = "queued"] /\ waiters' = Append(waiters, r)
    /\ UNCHANGED <<twin, holder, diskVars, injected, unflushed, cap, before,
                   todo, late, out>>

CallApply(r) ==
    /\ Issue(r, "apply")
    /\ \E n \in Node : node' = [node EXCEPT ![r] = n]
    /\ \E k \in 1..MaxOps : left' = [left EXCEPT ![r] = k]
    /\ UNCHANGED target

CallInject(r) ==
    /\ Issue(r, "inject")
    /\ \E k \in 1..MaxOps : left' = [left EXCEPT ![r] = k]
    /\ UNCHANGED <<node, target>>

CallRollback(r) ==
    /\ Issue(r, "rollback")
    /\ \E s \in store : target' = [target EXCEPT ![r] = s]
    /\ UNCHANGED <<node, left>>

CallSnapshot(r) == Issue(r, "snapshot") /\ UNCHANGED <<node, target, left>>

CallGolden(r) == Issue(r, "golden") /\ UNCHANGED <<node, target, left>>

(* A mutated form drops the lock word.                                     *)
TurnBarging(r) == waiters # <<>> /\ Head(waiters) = r

Turn(r) == holder = NIL /\ waiters # <<>> /\ Head(waiters) = r

Acquire(r) ==
    /\ pc[r] = "queued" /\ Turn(r)
    /\ holder' = r /\ waiters' = Tail(waiters)
    /\ IF kind[r] = "golden"
       THEN /\ pc' = [pc EXCEPT ![r] = "script"]
            /\ todo' = [todo EXCEPT ![r] = Slot]
       ELSE /\ pc' = [pc EXCEPT ![r] = "before"]
            /\ UNCHANGED todo
    /\ UNCHANGED <<twin, diskVars, injected, unflushed, argVars, left, cap,
                   before, late, out>>

(* Mutated form of Finish: an exception skips the release.                 *)
FinishKeepingLock(r, o) ==
    /\ pc' = [pc EXCEPT ![r] = "done"]
    /\ out' = [out EXCEPT ![r] = o]
    /\ holder' = IF holder = r /\ o # "error" THEN NIL ELSE holder
    /\ UNCHANGED waiters

(* The call returns or raises; leaving `async with` releases the lock.     *)
Finish(r, o) ==
    /\ pc' = [pc EXCEPT ![r] = "done"]
    /\ out' = [out EXCEPT ![r] = o]
    /\ holder' = IF holder = r THEN NIL ELSE holder
    /\ UNCHANGED waiters

Goto(r, label) ==
    /\ pc' = [pc EXCEPT ![r] = label]
    /\ UNCHANGED <<out, lockVars>>

----------------------------------------------------------------------------
(* capture: every slot is read by a docker exec of its own, in any order.  *)
(* The snapshot is saved under its content; then the call goes on.         *)

ReadSlot(r, s) ==
    /\ pc[r] \in Capturing /\ s \notin DOMAIN cap[r]
    /\ cap' = [cap EXCEPT ![r] =
                 [t \in DOMAIN cap[r] \cup {s} |->
                    IF t = s THEN twin[s] ELSE cap[r][t]]]
    /\ UNCHANGED <<twin, lockVars, diskVars, injected, unflushed, pc, argVars,
                   left, before, todo, late, out>>

(* A mutated form returns the snapshot without writing it.                 *)
SaveNothing(s) == UNCHANGED store

Save(s) == store' = store \cup {s}

Captured(r, label) ==
    /\ pc[r] = label /\ DOMAIN cap[r] = Slot
    /\ Save(cap[r])
    /\ cap' = [cap EXCEPT ![r] = Empty]
    /\ UNCHANGED <<twin, unflushed, argVars, left, late>>

(* What a restore has to write; a mutated form forgets the kernel plan.    *)
DifferingFrr(a, b) == {s \in Slot : a[s] # b[s] /\ s[2] = "frr"}

Differing(a, b) == {s \in Slot : a[s] # b[s]}

CapturedBefore(r) ==
    /\ Captured(r, "before")
    /\ before' = [before EXCEPT ![r] = cap[r]]
    /\ IF kind[r] = "rollback"
       THEN /\ Goto(r, "restore")
            /\ todo' = [todo EXCEPT ![r] = Differing(cap[r], target[r])]
       ELSE Goto(r, "ops") /\ UNCHANGED todo
    /\ UNCHANGED <<changes, marker, injected>>

CapturedUndo(r) ==
    /\ Captured(r, "undo")
    /\ todo' = [todo EXCEPT ![r] = Differing(cap[r], before[r])]
    /\ Goto(r, "restore")
    /\ UNCHANGED <<changes, marker, injected, before>>

CapturedAfter(r) ==
    /\ Captured(r, "after")
    /\ Finish(r, IF kind[r] = "rollback" /\ cap[r] # target[r]
                 THEN "mismatch" ELSE "ok")
    /\ changes' = IF kind[r] # "apply" THEN changes
                  ELSE changes \cup {[node |-> node[r], before |-> before[r],
                                      after |-> cap[r]]}
    /\ marker' = IF kind[r] = "golden" THEN cap[r] ELSE marker
    /\ injected' = CASE kind[r] = "inject" -> cap[r]
                     [] kind[r] = "golden" -> NIL
                     [] OTHER -> injected
    /\ UNCHANGED <<before, todo>>

CapturedSnapshot(r) ==
    /\ Captured(r, "snapshot")
    /\ Finish(r, "ok")
    /\ UNCHANGED <<changes, marker, injected, before, todo>>

CaptureFails(r) ==
    /\ "capture" \in Faults
    /\ pc[r] \in Capturing
    /\ Finish(r, "error")
    /\ cap' = [cap EXCEPT ![r] = Empty]
    /\ UNCHANGED <<twin, diskVars, injected, unflushed, argVars, left, before,
                   todo, late>>

----------------------------------------------------------------------------
(* apply_ops: an apply writes slots of its node, a scenario those of any.  *)

(* A mutated form does not see the end of the op list.                     *)
OpsWithoutEnd(r) == TRUE

OpsLeft(r) == left[r] > 0

Writable(r) == {s \in Slot : kind[r] = "apply" => s[1] = node[r]}

Write(s, v) ==
    /\ twin' = [twin EXCEPT ![s] = v]
    /\ unflushed' = TRUE

OpOk(r, s, v) ==
    /\ pc[r] = "ops" /\ OpsLeft(r) /\ s \in Writable(r)
    /\ Write(s, v)
    /\ left' = [left EXCEPT ![r] = @ - 1]
    /\ UNCHANGED <<lockVars, diskVars, injected, pc, argVars, cap, before,
                   todo, late, out>>

(* flush_route_caches asks every node and reads no result: a flush that    *)
(* fails goes unnoticed.                                                   *)
FlushRouteCaches ==
    unflushed' \in {FALSE} \cup (IF "flush" \in Faults THEN {unflushed} ELSE {})

(* After the last op, apply flushes the route caches; inject does not.  A  *)
(* mutated form never flushes.                                             *)
NeverFlush(r) == UNCHANGED unflushed

FlushAfterOps(r) ==
    IF kind[r] = "apply" THEN FlushRouteCaches ELSE UNCHANGED unflushed

OpsDone(r) ==
    /\ pc[r] = "ops" /\ left[r] = 0
    /\ Goto(r, "after")
    /\ FlushAfterOps(r)
    /\ UNCHANGED <<twin, diskVars, injected, argVars, left, cap, before, todo,
                   late>>

(* A command failed, possibly after part of its effect; a timed-out one    *)
(* goes on inside the container and may write later.  apply undoes what    *)
(* was done, inject gives up.                                              *)
Lingering(s) ==
    {{}} \cup (IF "timeout" \in Faults THEN {{<<s, x>>} : x \in Val} ELSE {})

OpFails(r, s, v) ==
    /\ "op" \in Faults
    /\ pc[r] = "ops" /\ OpsLeft(r) /\ s \in Writable(r)
    /\ Write(s, v)
    /\ \E w \in Lingering(s) : late' = [late EXCEPT ![r] = @ \cup w]
    /\ left' = [left EXCEPT ![r] = 0]
    /\ IF kind[r] = "apply" THEN Goto(r, "undo") ELSE Finish(r, "error")
    /\ UNCHANGED <<diskVars, injected, argVars, cap, before, todo>>

----------------------------------------------------------------------------
(* restore: one task per node, all concurrent; within a node FRR comes     *)
(* before the kernel.  golden.sh: the FRR phase on every router, then the  *)
(* setup phase.  Both write the slots in `todo`, and both can be left      *)
(* running when the call that started them is over.                        *)

Desired(r) == CASE kind[r] = "rollback" -> target[r]
                [] kind[r] = "golden"   -> Golden
                [] OTHER                -> before[r]

Precedes(r, t, s) ==
    /\ t[2] = "frr" /\ s[2] = "kernel"
    /\ kind[r] = "golden" \/ t[1] = s[1]

Ready(r) == {s \in todo[r] : \A t \in todo[r] : ~ Precedes(r, t, s)}

WriteBack(r, s) ==
    /\ pc[r] \in {"restore", "script", "done"} /\ s \in Ready(r)
    /\ Write(s, Desired(r)[s])
    /\ todo' = [todo EXCEPT ![r] = @ \ {s}]
    /\ UNCHANGED <<lockVars, diskVars, injected, pc, argVars, left, cap,
                   before, late, out>>

(* The first failing node makes gather raise: the call ends, the tasks of  *)
(* the other nodes do not.                                                 *)
RestoreFails(r, s, v) ==
    /\ "restore" \in Faults
    /\ kind[r] # "golden" /\ pc[r] \in {"restore", "done"} /\ s \in Ready(r)
    /\ Write(s, v)
    /\ todo' = [todo EXCEPT ![r] = {t \in @ : t[1] # s[1]}]
    /\ \E w \in Lingering(s) : late' = [late EXCEPT ![r] = @ \cup w]
    /\ IF pc[r] = "restore" THEN Finish(r, "error")
       ELSE UNCHANGED <<pc, out, lockVars>>
    /\ UNCHANGED <<diskVars, injected, argVars, left, cap, before>>

(* A mutated form does not wait for the tasks.                             *)
NotAwaited(r) == TRUE

TasksOver(r) == todo[r] = {}

RestoreDone(r) ==
    /\ pc[r] = "restore" /\ TasksOver(r)
    /\ FlushRouteCaches
    /\ IF kind[r] = "rollback" THEN Goto(r, "after")
       ELSE Finish(r, "rolled_back")
    /\ UNCHANGED <<twin, diskVars, injected, argVars, left, cap, before, todo,
                   late>>

(* A node's command fails: golden.sh lets the other nodes of the phase     *)
(* finish and then exits 1, before the next phase.                         *)
ScriptFails(r, s, v) ==
    /\ "script" \in Faults
    /\ kind[r] = "golden" /\ pc[r] \in {"script", "done"} /\ s \in Ready(r)
    /\ Write(s, v)
    /\ todo' = [todo EXCEPT ![r] = {t \in @ : t # s /\ t[2] = s[2]}]
    /\ out' = [out EXCEPT ![r] = IF pc[r] = "done" THEN @ ELSE "error"]
    /\ UNCHANGED <<lockVars, diskVars, injected, pc, argVars, left, cap,
                   before, late>>

(* setup.sh of a node ends with a flush of that node's cache, when other   *)
(* nodes may still be written: golden vouches for no cache.                *)
ScriptDone(r) ==
    /\ pc[r] = "script" /\ TasksOver(r)
    /\ IF out[r] = "error" THEN Finish(r, "error") ELSE Goto(r, "after")
    /\ UNCHANGED <<twin, diskVars, injected, unflushed, argVars, left, cap,
                   before, todo, late>>

(* converge.sh, the last thing golden.sh runs, gives up.                   *)
ConvergeFails(r) ==
    /\ "script" \in Faults
    /\ pc[r] = "script" /\ TasksOver(r)
    /\ Finish(r, "error")
    /\ UNCHANGED <<twin, diskVars, injected, unflushed, argVars, left, cap,
                   before, todo, late>>

(* wait_for gives up on the script and leaves it running.                  *)
ScriptTimesOut(r) ==
    /\ "timeout" \in Faults
    /\ pc[r] = "script"
    /\ Finish(r, "error")
    /\ UNCHANGED <<twin, diskVars, injected, unflushed, argVars, left, cap,
                   before, todo, late>>

LateLands(r, e) ==
    /\ e \in late[r]
    /\ Write(e[1], e[2])
    /\ late' = [late EXCEPT ![r] = @ \ {e}]
    /\ UNCHANGED <<lockVars, diskVars, injected, pc, argVars, left, cap,
                   before, todo, out>>

(* Where commands are in flight when the server dies: at one slot for an   *)
(* op list, at one slot of each node for a restore.                        *)
InFlight(r) ==
    IF kind[r] = "golden" THEN {{}}
    ELSE IF pc[r] = "ops" /\ OpsLeft(r) THEN {{}} \cup {{s} : s \in Writable(r)}
    ELSE SUBSET Ready(r)

(* What the containers may yet make of them, whole or in part.             *)
Surviving(r) ==
    UNION {{{<<s, f[s]>> : s \in S} : f \in [S -> Val]} : S \in InFlight(r)}

(* The server dies and is started again: the files stay, the calls, the    *)
(* lock and last_injection are gone, and so are tasks; a script and the    *)
(* commands inside the containers go on.                                   *)
Crash ==
    /\ "crash" \in Faults
    /\ LET live == {r \in Req : pc[r] \notin {"new", "done"}} IN
         /\ live # {}
         /\ pc' = [r \in Req |-> IF r \in live THEN "done" ELSE pc[r]]
         /\ out' = [r \in Req |-> IF r \in live THEN "lost" ELSE out[r]]
    /\ todo' = [r \in Req |-> IF kind[r] = "golden" THEN todo[r] ELSE {}]
    /\ \E w \in [Req -> UNION {Surviving(r) : r \in Req}] :
         /\ \A r \in Req : w[r] \in Surviving(r)
         /\ late' = [r \in Req |-> late[r] \cup w[r]]
    /\ cap' = [r \in Req |-> Empty]
    /\ holder' = NIL /\ waiters' = <<>> /\ injected' = NIL
    /\ UNCHANGED <<twin, diskVars, unflushed, argVars, left, before>>

----------------------------------------------------------------------------
Arrive(r)  == \/ CallApply(r) \/ CallInject(r) \/ CallRollback(r)
              \/ CallSnapshot(r) \/ CallGolden(r)

(* What the event loop and the timeouts see to: a call never stays put.    *)
Progress(r) ==
    \/ Acquire(r)
    \/ \E s \in Slot : ReadSlot(r, s)
    \/ CapturedBefore(r) \/ CapturedUndo(r) \/ CapturedAfter(r)
    \/ CapturedSnapshot(r) \/ CaptureFails(r)
    \/ \E s \in Slot, v \in Val :
         OpOk(r, s, v) \/ OpFails(r, s, v) \/ RestoreFails(r, s, v)
    \/ OpsDone(r)
    \/ \E s \in Slot : WriteBack(r, s)
    \/ RestoreDone(r)
    \/ \E s \in Slot, v \in Val : ScriptFails(r, s, v)
    \/ ScriptDone(r) \/ ConvergeFails(r) \/ ScriptTimesOut(r)

Next ==
    \/ \E r \in Req : Arrive(r) \/ Progress(r)
    \/ \E r \in Req : \E e \in late[r] : LateLands(r, e)
    \/ Crash

Spec == Init /\ [][Next]_vars

FairSpec == Spec /\ \A r \in Req : WF_vars(Progress(r))

----------------------------------------------------------------------------
(* Properties.                                                             *)

(* write_lock is held by the one call that is inside it, and by nobody     *)
(* once that call is over, however it ended (app.py: `async with           *)
(* self.write_lock` around every mutating call).                           *)
LockedByHolder == \A r \in Req : pc[r] \in Locked <=> holder = r

(* "Serialised with every other write to the twin" (TwinLab.rollback): the *)
(* twin changes only by a step of the call that holds write_lock.          *)
OnlyHolderWrites ==
    [][twin' # twin =>
         /\ holder # NIL
         /\ \A r \in Req \ {holder} : /\ todo'[r] = todo[r]
                                      /\ late'[r] = late[r]
                                      /\ left'[r] = left[r]]_vars

(* A recorded change differs from its before snapshot only at the node it  *)
(* names (TwinLab.apply diffs that node alone, so a change elsewhere would *)
(* be recorded and exported without a diff).                               *)
ChangeIsLocal ==
    \A c \in changes : \A s \in Slot : c.before[s] # c.after[s] => s[1] = c.node

(* The after snapshot of a change is the twin as it is when the record is  *)
(* written: nobody moved it between the after capture and the record.      *)
RecordedAfterIsLive == [][\A c \in changes' \ changes : c.after = twin']_vars

(* An apply that answers "rolled back to snapshot" left the twin exactly   *)
(* as its before capture saw it.                                           *)
RolledBackIsUndone ==
    [][\A r \in Req : out'[r] = "rolled_back" /\ out[r] # "rolled_back"
                        => twin' = before[r]]_vars

(* A rollback that answers and does not raise put the twin on its target,  *)
(* and says so (matches_target is true).                                   *)
RollbackReachesTarget ==
    [][\A r \in Req :
         (kind[r] = "rollback" /\ pc[r] = "after" /\ pc'[r] = "done"
            /\ out'[r] \notin {"error", "lost"})
         => out'[r] = "ok" /\ twin' = target[r]]_vars

(* The golden marker only ever names the golden configuration.             *)
GoldenMarkerIsGolden == marker \in {NIL, Golden}

(* As long as no flush command fails unnoticed ("flush" is no fault of the *)
(* run), no apply or rollback succeeds with a route cache filled before    *)
(* the last write (flush_route_caches: "every mutation ends by flushing    *)
(* it"; inject and golden do not).                                         *)
MutationsFlush ==
    [][\A r \in Req :
         (/\ kind[r] \in {"apply", "rollback"}
          /\ pc[r] # "done" /\ pc'[r] = "done"
          /\ out'[r] \in {"ok", "rolled_back"})
         => ~ unflushed']_vars

(* Whatever fails, a call that reported success has nothing still running  *)
(* in a container: no restore task, no script, no timed-out command.       *)
SuccessLeavesNothingRunning ==
    \A r \in Req : out[r] \in {"ok", "mismatch"} => todo[r] = {} /\ late[r] = {}

(* Whatever fails, what the records name can be rolled back to.            *)
RecordedStatesStored ==
    /\ \A c \in changes : c.before \in store /\ c.after \in store
    /\ {marker, injected} \subseteq store \cup {NIL}

(* Every call that is made is answered, or lost with the server: nobody    *)
(* waits for ever on write_lock.                                           *)
Answered == \A r \in Req : pc[r] # "new" ~> pc[r] = "done"

(* The calls behave as if each ran alone.  Seen from outside, an apply or  *)
(* a rollback that holds the lock has not moved the twin yet.              *)
Committed ==
    IF holder # NIL /\ kind[holder] \in {"apply", "rollback"} /\ before[holder] # NIL
    THEN before[holder] ELSE twin

Serial == INSTANCE TwinSerial
            WITH twin <- Committed,
                 admin <- holder # NIL /\ kind[holder] \in {"inject", "golden"}
Serialised == Serial!Spec
============================================================================

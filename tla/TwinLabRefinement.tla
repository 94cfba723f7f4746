------------------------- MODULE TwinLabRefinement -------------------------
(***************************************************************************)
(* Proof that TwinLab implements TwinSerial when no write outlives its     *)
(* call: seen through Committed, every step of every call is one step of a *)
(* server that serves one call at a time, or no step at all.               *)
(***************************************************************************)
EXTENDS TwinLabSerialProofs

(* What Committed rests on: a call has no before snapshot until its before *)
(* capture is over, and what a rollback aims at is on disk.                *)
FreshInv ==
    \A r \in Req : pc[r] \in {"new", "queued", "before"} => before[r] = NIL

TargetsKept == \A r \in Req : kind[r] = "rollback" => target[r] \in store

ViewInv == FreshInv /\ TargetsKept

(* The store only grows, by a snapshot; nothing but a record adds changes. *)
StoreGrows == store \subseteq store'

LEMMA SnapshotsAreKept ==
    ASSUME [Next]_vars
    PROVE  StoreGrows
<1> USE DEF StoreGrows, diskVars
<1>1. CASE UNCHANGED vars
  BY <1>1 DEF vars
<1>2. ASSUME NEW r \in Req, Arrive(r) PROVE StoreGrows
  BY <1>2 DEF Arrive, CallApply, CallInject, CallRollback, CallSnapshot,
              CallGolden, Issue
<1>3. ASSUME NEW r \in Req, NEW label, Captured(r, label) PROVE StoreGrows
  BY <1>3 DEF Captured, Save
<1>4. ASSUME NEW r \in Req, Progress(r) PROVE StoreGrows
  BY <1>3, <1>4
  DEF Progress, Acquire, ReadSlot, CapturedBefore, CapturedUndo,
      CapturedAfter, CapturedSnapshot, CaptureFails, OpOk, OpFails,
      RestoreFails, OpsDone, WriteBack, RestoreDone, ScriptFails, ScriptDone,
      ConvergeFails, ScriptTimesOut
<1>5. ASSUME NEW r \in Req, NEW e \in late[r], LateLands(r, e) PROVE StoreGrows
  BY <1>5 DEF LateLands
<1>6. CASE Crash
  BY <1>6 DEF Crash
<1> QED BY <1>1, <1>2, <1>4, <1>5, <1>6 DEF Next

LEMMA ViewStep ==
    ASSUME TypeInv, ViewInv, [Next]_vars
    PROVE  ViewInv'
<1> USE TwinLabAssumption, SnapshotsAreKept
    DEF TwinLabAssumption, ViewInv, FreshInv, TargetsKept, StoreGrows, TypeInv,
        ControlOK, LocalOK
<1>1. CASE UNCHANGED vars
  BY <1>1 DEF vars, lockVars, diskVars, argVars
<1>2. ASSUME NEW r \in Req, Arrive(r) PROVE ViewInv'
  <2>1. FreshInv'
    BY <1>2, ArriveFrame
  <2>2. kind'[r] = "rollback" => target'[r] \in store
    BY <1>2 DEF Arrive, CallApply, CallInject, CallRollback, CallSnapshot,
                CallGolden, Issue
  <2>3. TargetsKept'
    BY <1>2, <2>2, ArriveFrame DEF diskVars
  <2> QED BY <2>1, <2>3
<1>3. ASSUME NEW r \in Req, Acquire(r) PROVE ViewInv'
  BY <1>3 DEF Acquire, Turn, diskVars, argVars
<1>4. ASSUME NEW r \in Req, NEW s \in Slot, ReadSlot(r, s) PROVE ViewInv'
  BY <1>4 DEF ReadSlot, diskVars, argVars
<1>5. ASSUME NEW r \in Req, CapturedBefore(r) PROVE ViewInv'
  BY <1>5 DEF CapturedBefore, Captured, Goto, argVars
<1>6. ASSUME NEW r \in Req, CapturedUndo(r) PROVE ViewInv'
  BY <1>6 DEF CapturedUndo, Captured, Goto, argVars
<1>7. ASSUME NEW r \in Req, CapturedAfter(r) PROVE ViewInv'
  BY <1>7 DEF CapturedAfter, Captured, Finish, argVars
<1>8. ASSUME NEW r \in Req, CapturedSnapshot(r) PROVE ViewInv'
  BY <1>8 DEF CapturedSnapshot, Captured, Finish, argVars
<1>9. ASSUME NEW r \in Req, CaptureFails(r) PROVE ViewInv'
  BY <1>9 DEF CaptureFails, Finish, diskVars, argVars
<1>10. ASSUME NEW r \in Req, NEW s \in Slot, NEW v \in Val, OpOk(r, s, v)
       PROVE  ViewInv'
  BY <1>10 DEF OpOk, diskVars, argVars
<1>11. ASSUME NEW r \in Req, NEW s \in Slot, NEW v \in Val, OpFails(r, s, v)
       PROVE  ViewInv'
  BY <1>11 DEF OpFails, Goto, Finish, diskVars, argVars
<1>12. ASSUME NEW r \in Req, NEW s \in Slot, NEW v \in Val, RestoreFails(r, s, v)
       PROVE  ViewInv'
  BY <1>12 DEF RestoreFails, Finish, diskVars, argVars
<1>13. ASSUME NEW r \in Req, OpsDone(r) PROVE ViewInv'
  BY <1>13 DEF OpsDone, Goto, diskVars, argVars
<1>14. ASSUME NEW r \in Req, NEW s \in Slot, WriteBack(r, s) PROVE ViewInv'
  BY <1>14 DEF WriteBack, diskVars, argVars
<1>15. ASSUME NEW r \in Req, RestoreDone(r) PROVE ViewInv'
  BY <1>15 DEF RestoreDone, Goto, Finish, diskVars, argVars
<1>16. ASSUME NEW r \in Req, NEW s \in Slot, NEW v \in Val, ScriptFails(r, s, v)
       PROVE  ViewInv'
  BY <1>16 DEF ScriptFails, diskVars, argVars
<1>17. ASSUME NEW r \in Req, ScriptDone(r) PROVE ViewInv'
  BY <1>17 DEF ScriptDone, Goto, Finish, diskVars, argVars
<1>18. ASSUME NEW r \in Req, ConvergeFails(r) PROVE ViewInv'
  BY <1>18 DEF ConvergeFails, Finish, diskVars, argVars
<1>19. ASSUME NEW r \in Req, ScriptTimesOut(r) PROVE ViewInv'
  BY <1>19 DEF ScriptTimesOut, Finish, diskVars, argVars
<1>20. ASSUME NEW r \in Req, NEW e \in late[r], LateLands(r, e)
       PROVE  ViewInv'
  BY <1>20 DEF LateLands, diskVars, argVars
<1>21. CASE Crash
  BY <1>21 DEF Crash, diskVars, argVars
<1> QED BY <1>1, <1>2, <1>3, <1>4, <1>5, <1>6, <1>7, <1>8, <1>9, <1>10,
          <1>11, <1>12, <1>13, <1>14, <1>15, <1>16, <1>17, <1>18, <1>19,
          <1>20, <1>21
    DEF Next, Progress

----------------------------------------------------------------------------
(* The abstract state, and what a step of the abstract server is.          *)

Inv == LiveInv /\ ViewInv /\ NoStrayWrites

(* Who is inside decides what the callers see.                             *)
LEMMA NobodyInside ==
    ASSUME holder = NIL
    PROVE  Committed = twin
BY DEF Committed

LEMMA AdminInside ==
    ASSUME NEW r \in Req, holder = r, kind[r] \in {"inject", "golden"}
    PROVE  Committed = twin /\ holder # NIL
BY TwinLabAssumption DEF TwinLabAssumption, Committed

LEMMA WriterInside ==
    ASSUME NEW r \in Req, holder = r, kind[r] \in {"apply", "rollback"},
           before[r] # NIL
    PROVE  Committed = before[r]
BY TwinLabAssumption DEF TwinLabAssumption, Committed

(* A step that keeps the lock, the kinds and the before snapshots shows    *)
(* nothing but what it does to the twin, and not even that under an apply  *)
(* or a rollback.                                                          *)
LEMMA SameHolder ==
    ASSUME UNCHANGED <<holder, kind, before, twin>>
    PROVE  Committed' = Committed
BY DEF Committed

SerialStep == [Serial!Next]_<<Committed, store, changes>>

LEMMA Stutters ==
    ASSUME UNCHANGED <<Committed, store, changes>>
    PROVE  SerialStep
BY DEF SerialStep

LEMMA Saves ==
    ASSUME NEW s \in State, store' = store \cup {s},
           UNCHANGED <<Committed, changes>>
    PROVE  SerialStep
BY DEF SerialStep, Serial!Next, Serial!Save

LEMMA AdminWrites ==
    ASSUME holder # NIL, kind[holder] \in {"inject", "golden"},
           Committed' \in State, UNCHANGED <<store, changes>>
    PROVE  SerialStep
BY DEF SerialStep, Serial!Next, Serial!AdminWrite

LEMMA Abandons ==
    ASSUME NEW n \in Node, Committed' \in State,
           \A s \in Slot : Committed[s] # Committed'[s] => s[1] = n,
           UNCHANGED <<store, changes>>
    PROVE  SerialStep
BY DEF SerialStep, Serial!Next, Serial!Abandon, Serial!OnlyAt

LEMMA Applies ==
    ASSUME NEW n \in Node, Committed' \in State,
           \A s \in Slot : Committed[s] # Committed'[s] => s[1] = n,
           changes' = changes \cup {[node |-> n, before |-> Committed,
                                     after |-> Committed']},
           store' = store \cup {Committed'}
    PROVE  SerialStep
BY DEF SerialStep, Serial!Next, Serial!Apply, Serial!OnlyAt

LEMMA RollsBack ==
    ASSUME Committed' \in store,
           store' = store \/ store' = store \cup {Committed'},
           UNCHANGED changes
    PROVE  SerialStep
BY DEF SerialStep, Serial!Next, Serial!Rollback

----------------------------------------------------------------------------
(* One lemma per action.                                                   *)

LEMMA ArriveMaps ==
    ASSUME Inv, NEW r \in Req, Arrive(r)
    PROVE  SerialStep
<1> USE DEF Inv, LiveInv, Calm
<1>1. holder # r
  BY ArriveFrame DEF LockedByHolder, Locked
<1>2. UNCHANGED <<holder, before, twin, store, changes>>
  BY ArriveFrame DEF diskVars
<1>3. holder # NIL => kind'[holder] = kind[holder]
  BY <1>1, ArriveFrame DEF TypeInv, ServerOK
<1>4. Committed' = Committed
  BY <1>2, <1>3 DEF Committed
<1> QED BY <1>2, <1>4, Stutters

LEMMA AcquireMaps ==
    ASSUME Inv, NEW r \in Req, Acquire(r)
    PROVE  SerialStep
<1>1. holder = NIL /\ holder' = r /\ before[r] = NIL
  BY DEF Acquire, Turn, Inv, ViewInv, FreshInv
<1>2. UNCHANGED <<twin, before, kind, store, changes>>
  BY DEF Acquire, diskVars, argVars
<1>3. Committed' = Committed
  BY <1>1, <1>2 DEF Committed
<1> QED BY <1>2, <1>3, Stutters

(* The steps that keep lock, kinds and before snapshots and leave twin and *)
(* disk alone.                                                             *)
LEMMA InnerStepMaps ==
    ASSUME UNCHANGED <<holder, kind, before, twin, store, changes>>
    PROVE  SerialStep
BY SameHolder, Stutters

LEMMA CapturedBeforeMaps ==
    ASSUME Inv, NEW r \in Req, CapturedBefore(r)
    PROVE  SerialStep
<1>1. /\ pc[r] = "before" /\ DOMAIN cap[r] = Slot
      /\ store' = store \cup {cap[r]}
      /\ UNCHANGED <<twin, kind, holder, changes>>
      /\ before' = [before EXCEPT ![r] = cap[r]]
  BY DEF CapturedBefore, Captured, Save, Goto, lockVars, argVars
<1>2. cap[r] = twin /\ twin \in State
  BY <1>1, CaptureIsTwin
  DEF Inv, LiveInv, Calm, TypeInv, ServerOK
<1>3. holder = r /\ before[r] = NIL
  BY <1>1 DEF Inv, LiveInv, Calm, LockedByHolder, Locked, ViewInv, FreshInv
<1>4. before'[r] = twin
  BY <1>1, <1>2 DEF Inv, LiveInv, Calm, TypeInv, LocalOK
<1>5. Committed' = Committed
  BY <1>1, <1>3, <1>4 DEF Committed
<1> QED BY <1>1, <1>2, <1>5, Saves

LEMMA CapturedUndoMaps ==
    ASSUME Inv, NEW r \in Req, CapturedUndo(r)
    PROVE  SerialStep
<1>1. cap[r] \in State
  BY CapturedTyped DEF Inv, LiveInv, Calm, CapturedUndo
<1>2. /\ store' = store \cup {cap[r]}
      /\ UNCHANGED <<twin, kind, holder, before, changes>>
  BY DEF CapturedUndo, Captured, Save, Goto, lockVars, argVars
<1> QED BY <1>1, <1>2, SameHolder, Saves

LEMMA CapturedSnapshotMaps ==
    ASSUME Inv, NEW r \in Req, CapturedSnapshot(r)
    PROVE  SerialStep
<1>1. cap[r] \in State
  BY CapturedTyped DEF Inv, LiveInv, Calm, CapturedSnapshot
<1>2. pc[r] = "snapshot" /\ holder # r
  BY DEF CapturedSnapshot, Captured, Inv, LiveInv, Calm, LockedByHolder, Locked
<1>3. /\ store' = store \cup {cap[r]}
      /\ UNCHANGED <<twin, kind, holder, before, changes>>
  BY <1>2 DEF CapturedSnapshot, Captured, Save, Finish, argVars
<1> QED BY <1>1, <1>3, SameHolder, Saves

(* Inside the lock, with a before snapshot: what the callers see is that   *)
(* snapshot, and once the call is over the twin as it was left.            *)
LEMMA LeavesLock ==
    ASSUME holder' = NIL
    PROVE  Committed' = twin'
BY DEF Committed

LEMMA CapturedAfterMaps ==
    ASSUME Inv, NEW r \in Req, CapturedAfter(r)
    PROVE  SerialStep
<1> USE DEF Inv, LiveInv, Calm
<1>1. /\ pc[r] = "after" /\ DOMAIN cap[r] = Slot
      /\ store' = store \cup {cap[r]}
      /\ UNCHANGED <<twin, kind>>
      /\ changes' = IF kind[r] # "apply" THEN changes
                    ELSE changes \cup {[node |-> node[r], before |-> before[r],
                                        after |-> cap[r]]}
  BY DEF CapturedAfter, Captured, Save, argVars
<1>2. cap[r] = twin /\ twin \in State
  BY <1>1, CaptureIsTwin DEF TypeInv, ServerOK
<1>3. holder = r
  BY <1>1 DEF LockedByHolder, Locked
<1>4. Committed' = twin
  BY <1>1, <1>3, LeavesLock DEF CapturedAfter, Finish
<1>5. kind[r] # "golden" => before[r] \in State /\ before[r] # NIL
  BY <1>1, TwinLabAssumption DEF TwinLabAssumption, TypeInv, ArgsOK
<1>6. CASE kind[r] = "apply"
  <2>1. Committed = before[r]
    BY <1>3, <1>5, <1>6, WriterInside
  <2>2. node[r] \in Node
    BY <1>6 DEF TypeInv, ArgsOK
  <2>3. \A s \in Slot : Committed[s] # Committed'[s] => s[1] = node[r]
    BY <1>1, <1>4, <1>6, <2>1 DEF OpsLocal
  <2> QED BY <1>1, <1>2, <1>4, <1>6, <2>1, <2>2, <2>3, Applies
<1>7. CASE kind[r] = "rollback"
  <2>1. twin = target[r] /\ target[r] \in store
    BY <1>1, <1>7 DEF WritesLive, ViewInv, TargetsKept
  <2> QED BY <1>1, <1>2, <1>4, <1>7, <2>1, RollsBack
<1>8. CASE kind[r] \notin {"apply", "rollback"}
  <2>1. Committed = twin
    BY <1>3, <1>8 DEF Committed
  <2> QED BY <1>1, <1>2, <1>4, <1>8, <2>1, Saves
<1> QED BY <1>6, <1>7, <1>8

LEMMA CaptureFailsMaps ==
    ASSUME Inv, NEW r \in Req, CaptureFails(r)
    PROVE  SerialStep
<1> USE DEF Inv, LiveInv, Calm
<1>1. /\ pc[r] \in {"before", "undo", "after", "snapshot"}
      /\ UNCHANGED <<twin, kind, before, store, changes>>
      /\ holder' = IF holder = r THEN NIL ELSE holder
  BY DEF CaptureFails, Capturing, Finish, argVars, diskVars
<1>2. CASE pc[r] = "snapshot"
  <2>1. holder' = holder
    BY <1>1, <1>2 DEF LockedByHolder, Locked
  <2> QED BY <1>1, <2>1, InnerStepMaps
<1>3. CASE pc[r] # "snapshot"
  <2>1. holder = r /\ Committed' = twin /\ twin \in State
    BY <1>1, <1>3, LeavesLock
    DEF LockedByHolder, Locked, TypeInv, ServerOK
  <2>2. CASE pc[r] = "before" \/ kind[r] \notin {"apply", "rollback"}
    <3>1. Committed = twin
      BY <2>1, <2>2 DEF Committed, ViewInv, FreshInv
    <3> QED BY <1>1, <2>1, <3>1, Stutters
  <2>3. CASE pc[r] \in {"undo", "after"} /\ kind[r] = "apply"
    <3>1. before[r] # NIL /\ node[r] \in Node
      BY <2>3, TwinLabAssumption DEF TwinLabAssumption, TypeInv, ArgsOK
    <3>2. Committed = before[r]
      BY <2>1, <2>3, <3>1, WriterInside
    <3>3. \A s \in Slot : Committed[s] # Committed'[s] => s[1] = node[r]
      BY <2>1, <2>3, <3>2 DEF OpsLocal
    <3> QED BY <1>1, <2>1, <3>1, <3>3, Abandons
  <2>4. CASE pc[r] \in {"undo", "after"} /\ kind[r] = "rollback"
    <3>1. twin \in store
      BY <2>4 DEF WritesLive, ViewInv, TargetsKept, IdleInv
    <3> QED BY <1>1, <2>1, <3>1, RollsBack
  <2> QED BY <1>1, <1>3, <2>2, <2>3, <2>4
<1> QED BY <1>2, <1>3

(* A write by a call under the lock: an apply or a rollback hides it, an   *)
(* admin call shows it.                                                    *)
LEMMA WriteMaps ==
    ASSUME Inv, NEW r \in Req, holder = r, twin' \in State,
           kind[r] \in {"inject", "golden"} \/ before[r] # NIL,
           kind[r] \in {"apply", "rollback", "inject", "golden"},
           UNCHANGED <<kind, before, store, changes>>,
           holder' = holder \/ (holder' = NIL /\ kind[r] \in {"inject", "golden"})
    PROVE  SerialStep
<1>1. CASE kind[r] \in {"inject", "golden"}
  <2>1. Committed' = twin'
    BY <1>1, AdminInside, LeavesLock, TwinLabAssumption
    DEF TwinLabAssumption, Committed
  <2> QED BY <1>1, <2>1, AdminWrites, AdminInside
<1>2. CASE kind[r] \in {"apply", "rollback"} /\ before[r] # NIL
  <2>1. holder' = holder
    BY <1>2
  <2>2. Committed' = Committed
    BY <1>2, <2>1, TwinLabAssumption DEF TwinLabAssumption, Committed
  <2> QED BY <2>2, Stutters
<1> QED BY <1>1, <1>2

LEMMA OpOkMaps ==
    ASSUME Inv, NEW r \in Req, NEW s \in Slot, NEW v \in Val, OpOk(r, s, v)
    PROVE  SerialStep
<1> USE DEF Inv, LiveInv, Calm
<1>1. /\ pc[r] = "ops" /\ Write(s, v)
      /\ UNCHANGED <<holder, kind, before, store, changes>>
  BY DEF OpOk, lockVars, diskVars, argVars
<1>2. holder = r /\ kind[r] \in {"apply", "inject"}
  BY <1>1 DEF LockedByHolder, Locked, IdleInv
<1>3. before[r] # NIL
  BY <1>1, TwinLabAssumption DEF TwinLabAssumption, TypeInv, ArgsOK
<1>4. twin' \in State
  BY <1>1, WriteTyped DEF TypeInv
<1> QED BY <1>1, <1>2, <1>3, <1>4, WriteMaps

LEMMA OpFailsMaps ==
    ASSUME Inv, NEW r \in Req, NEW s \in Slot, NEW v \in Val, OpFails(r, s, v)
    PROVE  SerialStep
<1> USE DEF Inv, LiveInv, Calm
<1>1. /\ pc[r] = "ops" /\ Write(s, v)
      /\ UNCHANGED <<kind, before, store, changes>>
  BY DEF OpFails, diskVars, argVars
<1>2. holder = r /\ kind[r] \in {"apply", "inject"}
  BY <1>1 DEF LockedByHolder, Locked, IdleInv
<1>3. before[r] # NIL
  BY <1>1, TwinLabAssumption DEF TwinLabAssumption, TypeInv, ArgsOK
<1>4. twin' \in State
  BY <1>1, WriteTyped DEF TypeInv
<1>5. holder' = holder \/ (holder' = NIL /\ kind[r] = "inject")
  BY <1>2 DEF OpFails, Goto, Finish, lockVars
<1> QED BY <1>1, <1>2, <1>3, <1>4, <1>5, WriteMaps

LEMMA OpsDoneMaps ==
    ASSUME NEW r \in Req, OpsDone(r)
    PROVE  SerialStep
BY InnerStepMaps DEF OpsDone, Goto, lockVars, diskVars, argVars

LEMMA WriteBackMaps ==
    ASSUME Inv, NEW r \in Req, NEW s \in Slot, WriteBack(r, s)
    PROVE  SerialStep
<1> USE DEF Inv, LiveInv, Calm
<1>1. /\ s \in todo[r]
      /\ twin' = [twin EXCEPT ![s] = Desired(r)[s]]
      /\ UNCHANGED <<holder, kind, before, store, changes>>
  BY DEF WriteBack, Write, Ready, lockVars, diskVars, argVars
<1>2. pc[r] \in {"restore", "script"}
  BY <1>1 DEF NoStrayWrites
<1>3. /\ holder = r
      /\ pc[r] = "restore" => kind[r] \in {"apply", "rollback"}
      /\ pc[r] = "script" => kind[r] = "golden"
  BY <1>2 DEF LockedByHolder, Locked, WritesLive, TypeInv, ArgsOK
<1>4. pc[r] = "restore" => before[r] \in State /\ before[r] # NIL
  BY TwinLabAssumption DEF TwinLabAssumption, TypeInv, ArgsOK
<1>5. Desired(r) \in State
  BY <1>2, <1>3, <1>4, TwinLabAssumption
  DEF TwinLabAssumption, Desired, TypeInv, ArgsOK
<1>6. twin' \in State
  BY <1>1, <1>5 DEF State, TypeInv, ServerOK
<1> QED BY <1>1, <1>2, <1>3, <1>4, <1>6, WriteMaps

(* An apply that was undone is as if it had never run.                     *)
LEMMA RestoreDoneMaps ==
    ASSUME Inv, NEW r \in Req, RestoreDone(r)
    PROVE  SerialStep
<1> USE DEF Inv, LiveInv, Calm
<1>1. /\ pc[r] = "restore" /\ todo[r] = {}
      /\ UNCHANGED <<twin, kind, before, store, changes>>
  BY DEF RestoreDone, TasksOver, diskVars, argVars
<1>2. /\ holder = r /\ kind[r] \in {"apply", "rollback"}
      /\ before[r] \in State /\ before[r] # NIL
  BY <1>1, TwinLabAssumption
  DEF TwinLabAssumption, LockedByHolder, Locked, WritesLive, TypeInv, ArgsOK
<1>3. CASE kind[r] = "rollback"
  <2>1. holder' = holder
    BY <1>3 DEF RestoreDone, Goto, lockVars
  <2> QED BY <1>1, <2>1, InnerStepMaps
<1>4. CASE kind[r] = "apply"
  <2>1. \A s \in Slot : twin[s] = before[r][s]
    BY <1>1, <1>4 DEF WritesLive, Desired
  <2>2. twin = before[r]
    BY <1>2, <2>1 DEF TypeInv, ServerOK, State
  <2>3. Committed = before[r]
    BY <1>2, WriterInside
  <2>4. holder' = NIL
    BY <1>2, <1>4 DEF RestoreDone, Finish
  <2> QED BY <1>1, <2>2, <2>3, <2>4, LeavesLock, Stutters
<1> QED BY <1>2, <1>3, <1>4

LEMMA ScriptFailsMaps ==
    ASSUME Inv, NEW r \in Req, NEW s \in Slot, NEW v \in Val, ScriptFails(r, s, v)
    PROVE  SerialStep
<1> USE DEF Inv, LiveInv, Calm
<1>1. /\ s \in todo[r] /\ Write(s, v) /\ kind[r] = "golden"
      /\ UNCHANGED <<holder, kind, before, store, changes>>
  BY DEF ScriptFails, Ready, lockVars, diskVars, argVars
<1>2. pc[r] = "script"
  BY <1>1 DEF ScriptFails, NoStrayWrites
<1>3. holder = r
  BY <1>2 DEF LockedByHolder, Locked
<1>4. twin' \in State
  BY <1>1, WriteTyped DEF TypeInv
<1> QED BY <1>1, <1>3, <1>4, WriteMaps

(* The script's own ends do not write.                                     *)
LEMMA ScriptEndMaps ==
    ASSUME Inv, NEW r \in Req, ScriptDone(r) \/ ConvergeFails(r)
    PROVE  SerialStep
<1> USE DEF Inv, LiveInv, Calm
<1>1. pc[r] = "script" /\ UNCHANGED <<twin, kind, before, store, changes>>
  BY DEF ScriptDone, ConvergeFails, diskVars, argVars
<1>2. holder = r /\ kind[r] = "golden"
  BY <1>1 DEF LockedByHolder, Locked, TypeInv, ArgsOK
<1>3. holder' \in {holder, NIL}
  BY DEF ScriptDone, ConvergeFails, Goto, Finish, lockVars
<1>4. Committed = twin /\ Committed' = twin
  BY <1>1, <1>2, <1>3, AdminInside DEF Committed
<1> QED BY <1>1, <1>4, Stutters

----------------------------------------------------------------------------
LEMMA StepMaps ==
    ASSUME NothingLeftBehind, Inv, [Next]_vars
    PROVE  SerialStep
<1>1. CASE UNCHANGED vars
  BY <1>1, InnerStepMaps DEF vars, lockVars, diskVars, argVars
<1>2. ASSUME NEW r \in Req, NEW s \in Slot, ReadSlot(r, s) PROVE SerialStep
  BY <1>2, InnerStepMaps DEF ReadSlot, lockVars, diskVars, argVars
<1>3. ASSUME NEW r \in Req, Progress(r) PROVE SerialStep
  <2>1. /\ \A s \in Slot, v \in Val : ~ RestoreFails(r, s, v)
        /\ ~ ScriptTimesOut(r)
    BY DEF NothingLeftBehind, RestoreFails, ScriptTimesOut
  <2> QED BY <1>2, <1>3, <2>1, AcquireMaps, CapturedBeforeMaps,
             CapturedUndoMaps, CapturedAfterMaps, CapturedSnapshotMaps,
             CaptureFailsMaps, OpOkMaps, OpFailsMaps, OpsDoneMaps,
             WriteBackMaps, RestoreDoneMaps, ScriptFailsMaps, ScriptEndMaps
      DEF Progress
<1>4. ~ Crash /\ \A r \in Req : \A e \in late[r] : ~ LateLands(r, e)
  BY DEF NothingLeftBehind, Crash, Inv, NoStrayWrites
<1> QED BY <1>1, <1>3, <1>4, ArriveMaps DEF Next

(* Unless a restore fails half way, a command or a script times out, or    *)
(* the server dies, callers cannot tell the server from one that serves    *)
(* one call at a time: an apply moves the twin from its recorded before to *)
(* its recorded after in one step and at one node, a rollback to a stored  *)
(* snapshot in one step, and nothing else moves it but an admin call       *)
(* (Serialised; app.py: `async with self.write_lock`).                     *)
THEOREM CallsAreSerial == NothingLeftBehind => (Spec => Serialised)
<1> SUFFICES ASSUME NothingLeftBehind PROVE Spec => Serialised
  OBVIOUS
<1>1. Init => Serial!Init
  BY TwinLabAssumption DEF TwinLabAssumption, Init, Serial!Init, Committed
<1>2. Init => ViewInv
  BY TwinLabAssumption
  DEF TwinLabAssumption, AllKinds, Init, ViewInv, FreshInv, TargetsKept
<1>3. LiveInv /\ ViewInv /\ [Next]_vars => ViewInv'
  BY ViewStep DEF LiveInv, Calm
<1>4. LiveInv /\ ViewInv /\ NoStrayWrites /\ [Next]_vars
        => [Serial!Next]_<<Committed, store, changes>>
  BY StepMaps DEF Inv, SerialStep
<1>6. Spec => StraysStayApart /\ []NoStrayWrites
  BY NothingLandsLate, NothingStrays
<1> QED BY <1>1, <1>2, <1>3, <1>4, <1>6, LiveInvariant, PTL
    DEF Spec, Serialised, Serial!Spec
============================================================================

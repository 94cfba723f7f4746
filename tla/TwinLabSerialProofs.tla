------------------------- MODULE TwinLabSerialProofs -------------------------
(***************************************************************************)
(* What the calls of TwinLab record and answer, with every fault allowed,  *)
(* as long as a write that nobody waits for does not land while a call is  *)
(* inside the lock; and when no write outlives its call at all.            *)
(***************************************************************************)
EXTENDS TwinLabProofs

(* Who writes.  gather leaving tasks behind, commands or scripts that time *)
(* out and crashes are what lets a write outlive its call; without them    *)
(* nothing but the lock holder moves the twin.                             *)

NothingLeftBehind == Faults \cap {"restore", "timeout", "crash"} = {}

NoStrayWrites ==
    \A r \in Req : /\ pc[r] \notin {"restore", "script"} => todo[r] = {}
                  /\ late[r] = {}

LEMMA NoStrayStep ==
    ASSUME NothingLeftBehind, TypeInv, NoStrayWrites, [Next]_vars
    PROVE  NoStrayWrites'
<1> USE DEF NothingLeftBehind, NoStrayWrites, TypeInv, ControlOK, LocalOK
<1>1. CASE UNCHANGED vars
  BY <1>1 DEF vars, lockVars, diskVars, argVars
<1>2. ASSUME NEW r \in Req, Arrive(r) PROVE NoStrayWrites'
  BY <1>2 DEF Arrive, CallApply, CallInject, CallRollback, CallSnapshot,
              CallGolden, Issue
<1>3. ASSUME NEW r \in Req, Acquire(r) PROVE NoStrayWrites'
  BY <1>3 DEF Acquire, Turn, lockVars, diskVars, argVars
<1>4. ASSUME NEW r \in Req, NEW s \in Slot, ReadSlot(r, s) PROVE NoStrayWrites'
  BY <1>4 DEF ReadSlot, lockVars, diskVars, argVars
<1>5. ASSUME NEW r \in Req, CapturedBefore(r) PROVE NoStrayWrites'
  BY <1>5 DEF CapturedBefore, Captured, Goto, lockVars, diskVars, argVars,
              Capturing
<1>6. ASSUME NEW r \in Req, CapturedUndo(r) PROVE NoStrayWrites'
  BY <1>6 DEF CapturedUndo, Captured, Goto, lockVars, diskVars, argVars,
              Capturing
<1>7. ASSUME NEW r \in Req, CapturedAfter(r) PROVE NoStrayWrites'
  BY <1>7 DEF CapturedAfter, Captured, Finish, lockVars, diskVars, argVars,
              Capturing
<1>8. ASSUME NEW r \in Req, CapturedSnapshot(r) PROVE NoStrayWrites'
  BY <1>8 DEF CapturedSnapshot, Captured, Finish, lockVars, diskVars, argVars,
              Capturing
<1>9. ASSUME NEW r \in Req, CaptureFails(r) PROVE NoStrayWrites'
  BY <1>9 DEF CaptureFails, Finish, lockVars, diskVars, argVars, Capturing
<1>10. ASSUME NEW r \in Req, NEW s \in Slot, NEW v \in Val, OpOk(r, s, v)
       PROVE  NoStrayWrites'
  BY <1>10 DEF OpOk, lockVars, diskVars, argVars
<1>11. ASSUME NEW r \in Req, NEW s \in Slot, NEW v \in Val, OpFails(r, s, v)
       PROVE  NoStrayWrites'
  BY <1>11 DEF OpFails, Goto, Finish, lockVars, diskVars, argVars, Lingering
<1>12. ASSUME NEW r \in Req, NEW s \in Slot, NEW v \in Val, RestoreFails(r, s, v)
       PROVE  NoStrayWrites'
  BY <1>12 DEF RestoreFails, Finish, lockVars, diskVars, argVars, Ready
<1>13. ASSUME NEW r \in Req, OpsDone(r) PROVE NoStrayWrites'
  BY <1>13 DEF OpsDone, Goto, lockVars, diskVars, argVars
<1>14. ASSUME NEW r \in Req, NEW s \in Slot, WriteBack(r, s)
       PROVE  NoStrayWrites'
  BY <1>14 DEF WriteBack, lockVars, diskVars, argVars, Ready
<1>15. ASSUME NEW r \in Req, RestoreDone(r) PROVE NoStrayWrites'
  BY <1>15 DEF RestoreDone, Goto, Finish, lockVars, diskVars, argVars,
               TasksOver
<1>16. ASSUME NEW r \in Req, NEW s \in Slot, NEW v \in Val, ScriptFails(r, s, v)
       PROVE  NoStrayWrites'
  BY <1>16 DEF ScriptFails, lockVars, diskVars, argVars, Ready
<1>17. ASSUME NEW r \in Req, ScriptDone(r) PROVE NoStrayWrites'
  BY <1>17 DEF ScriptDone, Goto, Finish, lockVars, diskVars, argVars, TasksOver
<1>18. ASSUME NEW r \in Req, ConvergeFails(r) PROVE NoStrayWrites'
  BY <1>18 DEF ConvergeFails, Finish, lockVars, diskVars, argVars, TasksOver
<1>19. ASSUME NEW r \in Req, ScriptTimesOut(r) PROVE NoStrayWrites'
  BY <1>19 DEF ScriptTimesOut, Finish, lockVars, diskVars, argVars
<1>20. ASSUME NEW r \in Req, NEW e \in late[r], LateLands(r, e)
       PROVE  NoStrayWrites'
  BY <1>20 DEF LateLands, lockVars, diskVars, argVars
<1>21. CASE Crash
  BY <1>21 DEF Crash
<1> QED BY <1>1, <1>2, <1>3, <1>4, <1>5, <1>6, <1>7, <1>8, <1>9, <1>10,
          <1>11, <1>12, <1>13, <1>14, <1>15, <1>16, <1>17, <1>18, <1>19,
          <1>20, <1>21
    DEF Next, Progress

LEMMA NothingStrays == NothingLeftBehind => (Spec => []NoStrayWrites)
<1> SUFFICES ASSUME NothingLeftBehind PROVE Spec => []NoStrayWrites
  OBVIOUS
<1>1. Init => NoStrayWrites
  BY DEF Init, NoStrayWrites
<1>2. TypeInv /\ NoStrayWrites /\ [Next]_vars => NoStrayWrites'
  BY NoStrayStep
<1> QED BY <1>1, <1>2, TypeInvariant, PTL DEF Spec

HolderStep ==
    twin' # twin =>
      /\ holder # NIL
      /\ \A r \in Req \ {holder} : /\ todo'[r] = todo[r]
                                   /\ late'[r] = late[r]
                                   /\ left'[r] = left[r]

LEMMA HolderWrites ==
    ASSUME TypeInv, LockedByHolder, NoStrayWrites, [Next]_vars
    PROVE  HolderStep
<1> USE TwinLabAssumption
    DEF TwinLabAssumption, NoStrayWrites, LockedByHolder, HolderStep,
        TypeInv, ControlOK, LocalOK
<1>1. CASE UNCHANGED vars
  BY <1>1 DEF vars
<1>2. ASSUME NEW r \in Req, Arrive(r) PROVE HolderStep
  BY <1>2 DEF Arrive, CallApply, CallInject, CallRollback, CallSnapshot,
              CallGolden, Issue
<1>3. ASSUME NEW r \in Req, Acquire(r) PROVE HolderStep
  BY <1>3 DEF Acquire, Turn, lockVars, diskVars, argVars
<1>4. ASSUME NEW r \in Req, NEW s \in Slot, ReadSlot(r, s) PROVE HolderStep
  BY <1>4 DEF ReadSlot, lockVars, diskVars, argVars
<1>5. ASSUME NEW r \in Req, CapturedBefore(r) PROVE HolderStep
  BY <1>5 DEF CapturedBefore, Captured, Goto, lockVars, diskVars, argVars
<1>6. ASSUME NEW r \in Req, CapturedUndo(r) PROVE HolderStep
  BY <1>6 DEF CapturedUndo, Captured, Goto, lockVars, diskVars, argVars
<1>7. ASSUME NEW r \in Req, CapturedAfter(r) PROVE HolderStep
  BY <1>7 DEF CapturedAfter, Captured, Finish, lockVars, diskVars, argVars
<1>8. ASSUME NEW r \in Req, CapturedSnapshot(r) PROVE HolderStep
  BY <1>8 DEF CapturedSnapshot, Captured, Finish, lockVars, diskVars, argVars
<1>9. ASSUME NEW r \in Req, CaptureFails(r) PROVE HolderStep
  BY <1>9 DEF CaptureFails, Finish, lockVars, diskVars, argVars
<1>10. ASSUME NEW r \in Req, NEW s \in Slot, NEW v \in Val, OpOk(r, s, v)
       PROVE  HolderStep
  BY <1>10 DEF OpOk, lockVars, diskVars, argVars, Locked
<1>11. ASSUME NEW r \in Req, NEW s \in Slot, NEW v \in Val, OpFails(r, s, v)
       PROVE  HolderStep
  BY <1>11 DEF OpFails, Goto, Finish, lockVars, diskVars, argVars, Lingering,
               Locked
<1>12. ASSUME NEW r \in Req, NEW s \in Slot, NEW v \in Val, RestoreFails(r, s, v)
       PROVE  HolderStep
  <2>1. pc[r] = "restore" /\ holder = r
    BY <1>12 DEF RestoreFails, Ready, Locked
  <2>2. \A q \in Req \ {r} : todo'[q] = todo[q] /\ late'[q] = late[q] /\ left'[q] = left[q]
    BY <1>12 DEF RestoreFails
  <2> HIDE DEF NoStrayWrites, LockedByHolder, TypeInv
  <2> QED BY <2>1, <2>2
<1>13. ASSUME NEW r \in Req, OpsDone(r) PROVE HolderStep
  BY <1>13 DEF OpsDone, Goto, lockVars, diskVars, argVars
<1>14. ASSUME NEW r \in Req, NEW s \in Slot, WriteBack(r, s) PROVE HolderStep
  BY <1>14 DEF WriteBack, lockVars, diskVars, argVars, Ready, Locked
<1>15. ASSUME NEW r \in Req, RestoreDone(r) PROVE HolderStep
  BY <1>15 DEF RestoreDone, Goto, Finish, lockVars, diskVars, argVars
<1>16. ASSUME NEW r \in Req, NEW s \in Slot, NEW v \in Val, ScriptFails(r, s, v)
       PROVE  HolderStep
  BY <1>16 DEF ScriptFails, lockVars, diskVars, argVars, Ready, Locked
<1>17. ASSUME NEW r \in Req, ScriptDone(r) PROVE HolderStep
  BY <1>17 DEF ScriptDone, Goto, Finish, lockVars, diskVars, argVars
<1>18. ASSUME NEW r \in Req, ConvergeFails(r) PROVE HolderStep
  BY <1>18 DEF ConvergeFails, Finish, lockVars, diskVars, argVars
<1>19. ASSUME NEW r \in Req, ScriptTimesOut(r) PROVE HolderStep
  BY <1>19 DEF ScriptTimesOut, Finish, lockVars, diskVars, argVars
<1>20. ASSUME NEW r \in Req, NEW e \in late[r], LateLands(r, e)
       PROVE  HolderStep
  BY <1>20 DEF LateLands
<1>21. CASE Crash
  BY <1>21 DEF Crash
<1> QED BY <1>1, <1>2, <1>3, <1>4, <1>5, <1>6, <1>7, <1>8, <1>9, <1>10,
          <1>11, <1>12, <1>13, <1>14, <1>15, <1>16, <1>17, <1>18, <1>19,
          <1>20, <1>21
    DEF Next, Progress

(* "Serialised with every other write to the twin" (TwinLab.rollback):     *)
(* unless a restore fails half way, a command or a script times out, or    *)
(* the server dies under a script, the twin moves only by a step of the    *)
(* call that holds write_lock (OnlyHolderWrites).                          *)
THEOREM WritesAreSerialised == NothingLeftBehind => (Spec => OnlyHolderWrites)
<1> SUFFICES ASSUME NothingLeftBehind PROVE Spec => OnlyHolderWrites
  OBVIOUS
<1>1. TypeInv /\ LockedByHolder /\ NoStrayWrites /\ [Next]_vars => [HolderStep]_vars
  BY HolderWrites
<1>2. Spec => [][HolderStep]_vars
  BY <1>1, NothingStrays, TypeInvariant, LockCorrect, PTL DEF Spec
<1> QED BY <1>2 DEF OnlyHolderWrites, HolderStep

(* A write that nobody waits for lands: of a command that timed out, or of *)
(* a task or a script whose call is over.                                  *)
StrayLands ==
    \E r \in Req :
      \/ \E e \in late[r] : LateLands(r, e)
      \/ /\ pc[r] = "done"
         /\ \E s \in Slot : \/ WriteBack(r, s)
                            \/ \E v \in Val : RestoreFails(r, s, v) \/ ScriptFails(r, s, v)

Apart == StrayLands => holder = NIL

StraysStayApart == [][Apart]_vars

----------------------------------------------------------------------------
(* What the lock holder knows of the live twin.                            *)

Calm == TypeInv /\ LockedByHolder /\ IdleInv

(* A capture under the lock has read what the twin still is.               *)
CaptureLive ==
    \A r \in Req :
      /\ pc[r] \notin Capturing => DOMAIN cap[r] = {}
      /\ pc[r] \in {"before", "undo", "after"} =>
           \A s \in DOMAIN cap[r] : cap[r][s] = twin[s]

(* A slot that a restore or the script no longer has to write is as        *)
(* wanted, unless a step of the script failed.                             *)
WritesLive ==
    \A r \in Req :
      /\ pc[r] = "restore" =>
           /\ kind[r] \in {"apply", "rollback"}
           /\ \A s \in Slot \ todo[r] : twin[s] = Desired(r)[s]
      /\ pc[r] = "script" /\ out[r] # "error" =>
           \A s \in Slot \ todo[r] : twin[s] = Golden[s]
      /\ pc[r] = "after" /\ kind[r] = "rollback" => twin = target[r]
      /\ pc[r] = "after" /\ kind[r] = "golden" => twin = Golden

(* The ops of an apply have moved nothing but its node, the one that       *)
(* failed included.                                                        *)
OpsLocal ==
    \A r \in Req :
      kind[r] = "apply" /\ pc[r] \in {"ops", "undo", "after"} =>
        \A s \in Slot : twin[s] # before[r][s] => s[1] = node[r]

(* Past its last write an apply or a rollback has flushed the route caches *)
(* (as far as flushes work).                                               *)
FlushesWork == "flush" \notin Faults

Flushed ==
    \A r \in Req : pc[r] = "after" /\ kind[r] \in {"apply", "rollback"} /\ FlushesWork
                    => ~ unflushed

LEMMA OneInside ==
    ASSUME Calm, NEW r \in Req, pc[r] \in Locked, NEW q \in Req, q # r
    PROVE  pc[q] \notin Locked
BY DEF Calm, LockedByHolder

LEMMA StraysMeetNobody ==
    ASSUME Calm, Apart, StrayLands, NEW r \in Req
    PROVE  pc[r] \notin Locked
BY TwinLabAssumption DEF TwinLabAssumption, Calm, LockedByHolder, Apart

LEMMA StrayFrame ==
    ASSUME Calm, StrayLands
    PROVE  UNCHANGED <<pc, argVars, cap, before, out>>
<1> USE DEF Calm, TypeInv, LocalOK, ControlOK
<1>1. ASSUME NEW r \in Req, NEW e \in late[r], LateLands(r, e)
      PROVE  UNCHANGED <<pc, argVars, cap, before, out>>
  BY <1>1 DEF LateLands
<1>2. ASSUME NEW r \in Req, NEW s \in Slot, pc[r] = "done", WriteBack(r, s)
      PROVE  UNCHANGED <<pc, argVars, cap, before, out>>
  BY <1>2 DEF WriteBack
<1>3. ASSUME NEW r \in Req, NEW s \in Slot, NEW v \in Val, pc[r] = "done",
             RestoreFails(r, s, v)
      PROVE  UNCHANGED <<pc, argVars, cap, before, out>>
  BY <1>3 DEF RestoreFails
<1>4. ASSUME NEW r \in Req, NEW s \in Slot, NEW v \in Val, pc[r] = "done",
             ScriptFails(r, s, v)
      PROVE  UNCHANGED <<pc, argVars, cap, before, out>>
  BY <1>4 DEF ScriptFails
<1> QED BY <1>1, <1>2, <1>3, <1>4 DEF StrayLands

LEMMA Awaited ==
    ASSUME ~ StrayLands, NEW r \in Req
    PROVE  /\ \A e \in late[r] : ~ LateLands(r, e)
           /\ \A s \in Slot : WriteBack(r, s) => pc[r] \in {"restore", "script"}
           /\ \A s \in Slot, v \in Val : RestoreFails(r, s, v) => pc[r] = "restore"
           /\ \A s \in Slot, v \in Val : ScriptFails(r, s, v) => pc[r] = "script"
<1>1. /\ \A s \in Slot : WriteBack(r, s) => pc[r] \in {"restore", "script", "done"}
      /\ \A s \in Slot, v \in Val : RestoreFails(r, s, v) => pc[r] \in {"restore", "done"}
      /\ \A s \in Slot, v \in Val : ScriptFails(r, s, v) => pc[r] \in {"script", "done"}
  BY DEF WriteBack, RestoreFails, ScriptFails
<1> QED BY <1>1 DEF StrayLands

(* A full capture under the lock is the twin.                              *)
LEMMA CaptureIsTwin ==
    ASSUME Calm, CaptureLive, NEW r \in Req, DOMAIN cap[r] = Slot,
           pc[r] \in {"before", "undo", "after"}
    PROVE  cap[r] = twin
<1>1. cap[r] \in State /\ twin \in State
  BY FullCapture DEF Calm, TypeInv, LocalOK, ServerOK
<1>2. \A s \in Slot : cap[r][s] = twin[s]
  BY DEF CaptureLive
<1> QED BY <1>1, <1>2 DEF State

LEMMA CaptureStep ==
    ASSUME Apart, Calm, CaptureLive, [Next]_vars
    PROVE  CaptureLive'
<1> USE DEF Calm, CaptureLive, Capturing, TypeInv, ControlOK, LocalOK
<1>22. CASE StrayLands
  BY <1>22, StraysMeetNobody, StrayFrame DEF Locked, argVars
<1> SUFFICES ASSUME ~ StrayLands PROVE CaptureLive'
  BY <1>22
<1>1. CASE UNCHANGED vars
  BY <1>1 DEF vars, lockVars, diskVars, argVars
<1>2. ASSUME NEW r \in Req, Arrive(r) PROVE CaptureLive'
  BY <1>2, ZenonT(40)
  DEF Arrive, CallApply, CallInject, CallRollback, CallSnapshot, CallGolden, Issue,
      diskVars
<1>3. ASSUME NEW r \in Req, Acquire(r) PROVE CaptureLive'
  BY <1>3 DEF Acquire, Turn, lockVars, diskVars, argVars
<1>4. ASSUME NEW r \in Req, NEW s \in Slot, ReadSlot(r, s) PROVE CaptureLive'
  BY <1>4 DEF ReadSlot, lockVars, diskVars, argVars
<1>5. ASSUME NEW r \in Req, CapturedBefore(r) PROVE CaptureLive'
  BY <1>5, EmptyCapture DEF CapturedBefore, Captured, Goto, lockVars, diskVars,
                            argVars
<1>6. ASSUME NEW r \in Req, CapturedUndo(r) PROVE CaptureLive'
  BY <1>6, EmptyCapture DEF CapturedUndo, Captured, Goto, lockVars, diskVars,
                            argVars
<1>7. ASSUME NEW r \in Req, CapturedAfter(r) PROVE CaptureLive'
  BY <1>7, EmptyCapture DEF CapturedAfter, Captured, Finish, lockVars,
                            diskVars, argVars
<1>8. ASSUME NEW r \in Req, CapturedSnapshot(r) PROVE CaptureLive'
  BY <1>8, EmptyCapture DEF CapturedSnapshot, Captured, Finish, lockVars,
                            diskVars, argVars
<1>9. ASSUME NEW r \in Req, CaptureFails(r) PROVE CaptureLive'
  BY <1>9, EmptyCapture DEF CaptureFails, Finish, lockVars, diskVars, argVars
<1>10. ASSUME NEW r \in Req, NEW s \in Slot, NEW v \in Val, OpOk(r, s, v)
       PROVE  CaptureLive'
  BY <1>10, OneInside DEF OpOk, lockVars, diskVars, argVars, Locked
<1>11. ASSUME NEW r \in Req, NEW s \in Slot, NEW v \in Val, OpFails(r, s, v)
       PROVE  CaptureLive'
  BY <1>11, OneInside DEF OpFails, Goto, Finish, lockVars, diskVars, argVars,
                          Locked, Lingering
<1>12. ASSUME NEW r \in Req, NEW s \in Slot, NEW v \in Val, RestoreFails(r, s, v)
       PROVE  CaptureLive'
  <2>1. pc[r] = "restore" /\ pc[r] \in Locked
    BY <1>12, Awaited DEF Locked
  <2>2. pc' = [pc EXCEPT ![r] = "done"] /\ UNCHANGED <<cap, kind>>
    BY <1>12, <2>1 DEF RestoreFails, Finish, argVars
  <2>3. \A q \in Req : pc'[q] \notin Locked
    BY <2>1, <2>2, OneInside DEF Locked
  <2> QED BY <2>1, <2>2, <2>3 DEF Locked
<1>13. ASSUME NEW r \in Req, OpsDone(r) PROVE CaptureLive'
  BY <1>13 DEF OpsDone, Goto, lockVars, diskVars, argVars
<1>14. ASSUME NEW r \in Req, NEW s \in Slot, WriteBack(r, s) PROVE CaptureLive'
  BY <1>14, Awaited, OneInside DEF WriteBack, lockVars, diskVars, argVars, Locked, Ready
<1>15. ASSUME NEW r \in Req, RestoreDone(r) PROVE CaptureLive'
  BY <1>15 DEF RestoreDone, Goto, Finish, lockVars, diskVars, argVars
<1>16. ASSUME NEW r \in Req, NEW s \in Slot, NEW v \in Val, ScriptFails(r, s, v)
       PROVE  CaptureLive'
  BY <1>16, Awaited, OneInside DEF ScriptFails, lockVars, diskVars, argVars, Locked,
                          Ready
<1>17. ASSUME NEW r \in Req, ScriptDone(r) PROVE CaptureLive'
  BY <1>17 DEF ScriptDone, Goto, Finish, lockVars, diskVars, argVars
<1>18. ASSUME NEW r \in Req, ConvergeFails(r) PROVE CaptureLive'
  BY <1>18 DEF ConvergeFails, Finish, lockVars, diskVars, argVars
<1>19. ASSUME NEW r \in Req, ScriptTimesOut(r) PROVE CaptureLive'
  BY <1>19 DEF ScriptTimesOut, Finish, lockVars, diskVars, argVars
<1>20. ASSUME NEW r \in Req, NEW e \in late[r], LateLands(r, e)
       PROVE  CaptureLive'
  BY <1>20, Awaited
<1>21. CASE Crash
  BY <1>21, EmptyCapture DEF Crash
<1> QED BY <1>1, <1>2, <1>3, <1>4, <1>5, <1>6, <1>7, <1>8, <1>9, <1>10,
          <1>11, <1>12, <1>13, <1>14, <1>15, <1>16, <1>17, <1>18, <1>19,
          <1>20, <1>21
    DEF Next, Progress

LEMMA WritesStep ==
    ASSUME Apart, Calm, CaptureLive, WritesLive, [Next]_vars
    PROVE  WritesLive'
<1> USE TwinLabAssumption
    DEF TwinLabAssumption, Calm, WritesLive, Desired, State, IdleInv,
        TypeInv, ControlOK, LocalOK, ServerOK, ArgsOK
<1>22. CASE StrayLands
  BY <1>22, StraysMeetNobody, StrayFrame DEF Locked, argVars
<1> SUFFICES ASSUME ~ StrayLands PROVE WritesLive'
  BY <1>22
<1>1. CASE UNCHANGED vars
  BY <1>1 DEF vars, lockVars, diskVars, argVars
<1>2. ASSUME NEW r \in Req, Arrive(r) PROVE WritesLive'
  <2>1. \A q \in Req : pc'[q] \in Locked => q # r
    BY <1>2, ArriveFrame DEF Locked
  <2>2. \A q \in Req \ {r} : Desired(q)' = Desired(q)
    BY <1>2, ArriveFrame
  <2>3. \A q \in Req : pc'[q] \in Locked =>
          /\ pc'[q] = pc[q] /\ kind'[q] = kind[q] /\ target'[q] = target[q]
          /\ Desired(q)' = Desired(q)
    BY <1>2, <2>1, <2>2, ArriveFrame
  <2>4. UNCHANGED <<twin, todo, out>>
    BY <1>2, ArriveFrame
  <2> HIDE DEF Desired
  <2> QED BY <2>3, <2>4 DEF Locked
<1>3. ASSUME NEW r \in Req, Acquire(r) PROVE WritesLive'
  BY <1>3 DEF Acquire, Turn, lockVars, diskVars, argVars, Locked
<1>4. ASSUME NEW r \in Req, NEW s \in Slot, ReadSlot(r, s) PROVE WritesLive'
  BY <1>4 DEF ReadSlot, lockVars, diskVars, argVars, Locked
<1>5. ASSUME NEW r \in Req, CapturedBefore(r) PROVE WritesLive'
  BY <1>5, CaptureIsTwin DEF CapturedBefore, Captured, Goto, lockVars,
                             diskVars, argVars, Locked, Differing
<1>6. ASSUME NEW r \in Req, CapturedUndo(r) PROVE WritesLive'
  BY <1>6, CaptureIsTwin DEF CapturedUndo, Captured, Goto, lockVars, diskVars,
                             argVars, Locked, Differing
<1>7. ASSUME NEW r \in Req, CapturedAfter(r) PROVE WritesLive'
  BY <1>7, CaptureIsTwin DEF CapturedAfter, Captured, Finish, lockVars,
                             diskVars, argVars, Locked, Differing
<1>8. ASSUME NEW r \in Req, CapturedSnapshot(r) PROVE WritesLive'
  BY <1>8, CaptureIsTwin DEF CapturedSnapshot, Captured, Finish, lockVars,
                             diskVars, argVars, Locked, Differing
<1>9. ASSUME NEW r \in Req, CaptureFails(r) PROVE WritesLive'
  BY <1>9 DEF CaptureFails, Finish, lockVars, diskVars, argVars, Locked
<1>10. ASSUME NEW r \in Req, NEW s \in Slot, NEW v \in Val, OpOk(r, s, v)
       PROVE  WritesLive'
  BY <1>10, OneInside DEF OpOk, lockVars, diskVars, argVars, Locked
<1>11. ASSUME NEW r \in Req, NEW s \in Slot, NEW v \in Val, OpFails(r, s, v)
       PROVE  WritesLive'
  <2>1. pc[r] \in Locked /\ pc'[r] \notin {"restore", "script", "after"}
    BY <1>11 DEF OpFails, Goto, Finish, Locked
  <2>2. \A q \in Req \ {r} : pc'[q] \notin Locked
    BY <1>11, <2>1, OneInside DEF OpFails, Goto, Finish
  <2> QED BY <2>1, <2>2 DEF Locked
<1>12. ASSUME NEW r \in Req, NEW s \in Slot, NEW v \in Val, RestoreFails(r, s, v)
       PROVE  WritesLive'
  <2>1. pc[r] = "restore" /\ pc[r] \in Locked
    BY <1>12, Awaited DEF Locked
  <2>2. pc' = [pc EXCEPT ![r] = "done"] /\ UNCHANGED <<cap, kind>>
    BY <1>12, <2>1 DEF RestoreFails, Finish, argVars
  <2>3. \A q \in Req : pc'[q] \notin Locked
    BY <2>1, <2>2, OneInside DEF Locked
  <2> QED BY <2>1, <2>2, <2>3 DEF Locked
<1>13. ASSUME NEW r \in Req, OpsDone(r) PROVE WritesLive'
  BY <1>13 DEF OpsDone, Goto, lockVars, diskVars, argVars, Locked
<1>14. ASSUME NEW r \in Req, NEW s \in Slot, WriteBack(r, s) PROVE WritesLive'
  <2>1. pc[r] \in {"restore", "script"} /\ s \in todo[r]
    BY <1>14, Awaited DEF WriteBack, Ready
  <2>2. UNCHANGED <<pc, kind, target, before, out>>
    BY <1>14 DEF WriteBack, argVars
  <2>3. \A q \in Req \ {r} : pc'[q] \notin Locked
    BY <2>1, <2>2, OneInside DEF Locked
  <2>4. Desired(r)' = Desired(r)
    BY <2>2
  <2>5. \A t \in Slot \ todo'[r] : twin'[t] = IF t = s THEN Desired(r)[s] ELSE twin[t]
    BY <1>14 DEF WriteBack, Write
  <2>6. \A t \in Slot \ todo'[r] : t # s => t \notin todo[r]
    BY <1>14 DEF WriteBack
  <2>9. pc[r] = "script" => Desired(r) = Golden
    OBVIOUS
  <2> HIDE DEF Desired, IdleInv, TypeInv, Calm, TwinLabAssumption, State
  <2>7. CASE pc[r] = "restore"
    BY <2>2, <2>3, <2>4, <2>5, <2>6, <2>7 DEF Locked
  <2>8. CASE pc[r] = "script"
    BY <2>2, <2>3, <2>4, <2>5, <2>6, <2>8, <2>9 DEF Locked
  <2> QED BY <2>1, <2>7, <2>8
<1>15. ASSUME NEW r \in Req, RestoreDone(r) PROVE WritesLive'
  BY <1>15 DEF RestoreDone, Goto, Finish, lockVars, diskVars, argVars, Locked,
               TasksOver
<1>16. ASSUME NEW r \in Req, NEW s \in Slot, NEW v \in Val, ScriptFails(r, s, v)
       PROVE  WritesLive'
  <2>1. pc[r] = "script"
    BY <1>16, Awaited
  <2>2. UNCHANGED pc /\ out'[r] = "error"
    BY <1>16, <2>1 DEF ScriptFails
  <2>3. \A q \in Req \ {r} : pc'[q] \notin Locked
    BY <2>1, <2>2, OneInside DEF Locked
  <2> QED BY <2>1, <2>2, <2>3 DEF Locked
<1>17. ASSUME NEW r \in Req, ScriptDone(r) PROVE WritesLive'
  BY <1>17 DEF ScriptDone, Goto, Finish, lockVars, diskVars, argVars, Locked,
               TasksOver
<1>18. ASSUME NEW r \in Req, ConvergeFails(r) PROVE WritesLive'
  BY <1>18 DEF ConvergeFails, Finish, lockVars, diskVars, argVars, Locked,
               TasksOver
<1>19. ASSUME NEW r \in Req, ScriptTimesOut(r) PROVE WritesLive'
  BY <1>19 DEF ScriptTimesOut, Finish, lockVars, diskVars, argVars, Locked
<1>20. ASSUME NEW r \in Req, NEW e \in late[r], LateLands(r, e)
       PROVE  WritesLive'
  BY <1>20, Awaited
<1>21. CASE Crash
  BY <1>21 DEF Crash, argVars
<1> QED BY <1>1, <1>2, <1>3, <1>4, <1>5, <1>6, <1>7, <1>8, <1>9, <1>10,
          <1>11, <1>12, <1>13, <1>14, <1>15, <1>16, <1>17, <1>18, <1>19,
          <1>20, <1>21
    DEF Next, Progress

LEMMA OpsLocalStep ==
    ASSUME Apart, Calm, CaptureLive, OpsLocal, [Next]_vars
    PROVE  OpsLocal'
<1> USE TwinLabAssumption
    DEF TwinLabAssumption, Calm, OpsLocal, IdleInv,
        TypeInv, ControlOK, LocalOK, ArgsOK
<1>22. CASE StrayLands
  BY <1>22, StraysMeetNobody, StrayFrame DEF Locked, argVars
<1> SUFFICES ASSUME ~ StrayLands PROVE OpsLocal'
  BY <1>22
<1>1. CASE UNCHANGED vars
  BY <1>1 DEF vars, lockVars, diskVars, argVars
<1>2. ASSUME NEW r \in Req, Arrive(r) PROVE OpsLocal'
  BY <1>2, ArriveFrame
<1>3. ASSUME NEW r \in Req, Acquire(r) PROVE OpsLocal'
  <2>1. /\ pc'[r] \notin {"ops", "undo", "after"}
        /\ \A q \in Req \ {r} : pc'[q] = pc[q]
        /\ UNCHANGED <<twin, kind, node, before>>
    BY <1>3 DEF Acquire, Turn, argVars
  <2> QED BY <2>1
<1>4. ASSUME NEW r \in Req, NEW s \in Slot, ReadSlot(r, s) PROVE OpsLocal'
  BY <1>4 DEF ReadSlot, lockVars, diskVars, argVars, Locked
<1>5. ASSUME NEW r \in Req, CapturedBefore(r) PROVE OpsLocal'
  BY <1>5, CaptureIsTwin DEF CapturedBefore, Captured, Goto, lockVars,
                             diskVars, argVars, Locked
<1>6. ASSUME NEW r \in Req, CapturedUndo(r) PROVE OpsLocal'
  BY <1>6, CaptureIsTwin DEF CapturedUndo, Captured, Goto, lockVars, diskVars,
                             argVars, Locked
<1>7. ASSUME NEW r \in Req, CapturedAfter(r) PROVE OpsLocal'
  BY <1>7, CaptureIsTwin DEF CapturedAfter, Captured, Finish, lockVars,
                             diskVars, argVars, Locked
<1>8. ASSUME NEW r \in Req, CapturedSnapshot(r) PROVE OpsLocal'
  BY <1>8, CaptureIsTwin DEF CapturedSnapshot, Captured, Finish, lockVars,
                             diskVars, argVars, Locked
<1>9. ASSUME NEW r \in Req, CaptureFails(r) PROVE OpsLocal'
  BY <1>9 DEF CaptureFails, Finish, lockVars, diskVars, argVars, Locked
<1>10. ASSUME NEW r \in Req, NEW s \in Slot, NEW v \in Val, OpOk(r, s, v)
       PROVE  OpsLocal'
  BY <1>10, OneInside DEF OpOk, lockVars, diskVars, argVars, Locked, Write,
                          ServerOK, State, Writable
<1>11. ASSUME NEW r \in Req, NEW s \in Slot, NEW v \in Val, OpFails(r, s, v)
       PROVE  OpsLocal'
  <2>1. pc[r] = "ops" /\ s \in Writable(r) /\ Write(s, v)
    BY <1>11 DEF OpFails
  <2>2. UNCHANGED <<kind, node, before>> /\ pc'[r] \notin {"ops", "after"}
    BY <1>11 DEF OpFails, Goto, Finish, argVars
  <2>3. \A q \in Req \ {r} : pc'[q] \notin Locked
    BY <1>11, <2>1, OneInside DEF OpFails, Goto, Finish, Locked
  <2>4. \A t \in Slot : twin'[t] # twin[t] => t = s
    BY <2>1 DEF Write, ServerOK, State
  <2>5. kind[r] = "apply" => s[1] = node[r]
    BY <2>1 DEF Writable
  <2>6. kind[r] = "apply" =>
          \A t \in Slot : twin'[t] # before[r][t] => t[1] = node[r]
    BY <2>1, <2>4, <2>5
  <2> QED BY <2>2, <2>3, <2>6 DEF Locked
<1>12. ASSUME NEW r \in Req, NEW s \in Slot, NEW v \in Val, RestoreFails(r, s, v)
       PROVE  OpsLocal'
  <2>1. pc[r] = "restore" /\ pc[r] \in Locked
    BY <1>12, Awaited DEF Locked
  <2>2. pc' = [pc EXCEPT ![r] = "done"] /\ UNCHANGED <<cap, kind>>
    BY <1>12, <2>1 DEF RestoreFails, Finish, argVars
  <2>3. \A q \in Req : pc'[q] \notin Locked
    BY <2>1, <2>2, OneInside DEF Locked
  <2> QED BY <2>1, <2>2, <2>3 DEF Locked
<1>13. ASSUME NEW r \in Req, OpsDone(r) PROVE OpsLocal'
  BY <1>13 DEF OpsDone, Goto, lockVars, diskVars, argVars, Locked
<1>14. ASSUME NEW r \in Req, NEW s \in Slot, WriteBack(r, s) PROVE OpsLocal'
  BY <1>14, Awaited, OneInside, ZenonT(40)
  DEF WriteBack, lockVars, diskVars, argVars, Locked,
      Write, ServerOK, State, Ready
<1>15. ASSUME NEW r \in Req, RestoreDone(r) PROVE OpsLocal'
  BY <1>15 DEF RestoreDone, Goto, Finish, lockVars, diskVars, argVars, Locked
<1>16. ASSUME NEW r \in Req, NEW s \in Slot, NEW v \in Val, ScriptFails(r, s, v)
       PROVE  OpsLocal'
  <2>1. pc[r] = "script"
    BY <1>16, Awaited
  <2>2. UNCHANGED <<pc, kind, node, before>>
    BY <1>16 DEF ScriptFails, argVars
  <2>3. \A q \in Req \ {r} : pc'[q] \notin Locked
    BY <2>1, <2>2, OneInside DEF Locked
  <2> HIDE DEF IdleInv, TypeInv, Calm, TwinLabAssumption
  <2> QED BY <2>1, <2>2, <2>3 DEF Locked
<1>17. ASSUME NEW r \in Req, ScriptDone(r) PROVE OpsLocal'
  BY <1>17 DEF ScriptDone, Goto, Finish, lockVars, diskVars, argVars, Locked
<1>18. ASSUME NEW r \in Req, ConvergeFails(r) PROVE OpsLocal'
  BY <1>18 DEF ConvergeFails, Finish, lockVars, diskVars, argVars, Locked
<1>19. ASSUME NEW r \in Req, ScriptTimesOut(r) PROVE OpsLocal'
  BY <1>19 DEF ScriptTimesOut, Finish, lockVars, diskVars, argVars, Locked
<1>20. ASSUME NEW r \in Req, NEW e \in late[r], LateLands(r, e) PROVE OpsLocal'
  BY <1>20, Awaited
<1>21. CASE Crash
  BY <1>21 DEF Crash, argVars
<1> QED BY <1>1, <1>2, <1>3, <1>4, <1>5, <1>6, <1>7, <1>8, <1>9, <1>10,
          <1>11, <1>12, <1>13, <1>14, <1>15, <1>16, <1>17, <1>18, <1>19,
          <1>20, <1>21
    DEF Next, Progress

LEMMA FlushedStep ==
    ASSUME Apart, Calm, Flushed, [Next]_vars
    PROVE  Flushed'
<1> USE DEF Calm, Flushed, IdleInv, TypeInv, ControlOK, LocalOK
<1>22. CASE StrayLands
  BY <1>22, StraysMeetNobody, StrayFrame DEF Locked, argVars
<1> SUFFICES ASSUME ~ StrayLands PROVE Flushed'
  BY <1>22
<1>1. CASE UNCHANGED vars
  BY <1>1 DEF vars, lockVars, diskVars, argVars
<1>2. ASSUME NEW r \in Req, Arrive(r) PROVE Flushed'
  BY <1>2, ZenonT(40)
  DEF Arrive, CallApply, CallInject, CallRollback, CallSnapshot, CallGolden, Issue,
      diskVars
<1>3. ASSUME NEW r \in Req, Acquire(r) PROVE Flushed'
  BY <1>3, ZenonT(40) DEF Acquire, Turn, lockVars, diskVars, argVars, Locked
<1>4. ASSUME NEW r \in Req, NEW s \in Slot, ReadSlot(r, s) PROVE Flushed'
  BY <1>4 DEF ReadSlot, lockVars, diskVars, argVars, Locked
<1>5. ASSUME NEW r \in Req, CapturedBefore(r) PROVE Flushed'
  BY <1>5 DEF CapturedBefore, Captured, Goto, lockVars, diskVars, argVars,
              Locked
<1>6. ASSUME NEW r \in Req, CapturedUndo(r) PROVE Flushed'
  BY <1>6 DEF CapturedUndo, Captured, Goto, lockVars, diskVars, argVars, Locked
<1>7. ASSUME NEW r \in Req, CapturedAfter(r) PROVE Flushed'
  BY <1>7 DEF CapturedAfter, Captured, Finish, lockVars, diskVars, argVars,
              Locked
<1>8. ASSUME NEW r \in Req, CapturedSnapshot(r) PROVE Flushed'
  BY <1>8 DEF CapturedSnapshot, Captured, Finish, lockVars, diskVars, argVars,
              Locked
<1>9. ASSUME NEW r \in Req, CaptureFails(r) PROVE Flushed'
  BY <1>9 DEF CaptureFails, Finish, lockVars, diskVars, argVars, Locked
<1>10. ASSUME NEW r \in Req, NEW s \in Slot, NEW v \in Val, OpOk(r, s, v)
       PROVE  Flushed'
  BY <1>10, OneInside DEF OpOk, lockVars, diskVars, argVars, Locked, Write
<1>11. ASSUME NEW r \in Req, NEW s \in Slot, NEW v \in Val, OpFails(r, s, v)
       PROVE  Flushed'
  BY <1>11, OneInside DEF OpFails, Goto, Finish, lockVars, diskVars, argVars,
                          Locked, Write, Lingering
<1>12. ASSUME NEW r \in Req, NEW s \in Slot, NEW v \in Val, RestoreFails(r, s, v)
       PROVE  Flushed'
  <2>1. pc[r] = "restore" /\ pc[r] \in Locked
    BY <1>12, Awaited DEF Locked
  <2>2. pc' = [pc EXCEPT ![r] = "done"] /\ UNCHANGED <<cap, kind>>
    BY <1>12, <2>1 DEF RestoreFails, Finish, argVars
  <2>3. \A q \in Req : pc'[q] \notin Locked
    BY <2>1, <2>2, OneInside DEF Locked
  <2> QED BY <2>1, <2>2, <2>3 DEF Locked
<1>13. ASSUME NEW r \in Req, OpsDone(r) PROVE Flushed'
  BY <1>13, OneInside DEF OpsDone, Goto, lockVars, diskVars, argVars, Locked,
                          FlushAfterOps, FlushRouteCaches, FlushesWork, IdleInv
<1>14. ASSUME NEW r \in Req, NEW s \in Slot, WriteBack(r, s) PROVE Flushed'
  BY <1>14, Awaited, OneInside DEF WriteBack, lockVars, diskVars, argVars, Locked,
                          Write, Ready
<1>15. ASSUME NEW r \in Req, RestoreDone(r) PROVE Flushed'
  BY <1>15, OneInside DEF RestoreDone, Goto, Finish, lockVars, diskVars,
                          argVars, Locked, FlushRouteCaches, FlushesWork
<1>16. ASSUME NEW r \in Req, NEW s \in Slot, NEW v \in Val, ScriptFails(r, s, v)
       PROVE  Flushed'
  <2>1. pc[r] = "script" /\ UNCHANGED <<pc, kind>>
    BY <1>16, Awaited DEF ScriptFails, argVars
  <2>2. \A q \in Req : pc'[q] # "after"
    BY <2>1, OneInside DEF Locked
  <2> QED BY <2>2
<1>17. ASSUME NEW r \in Req, ScriptDone(r) PROVE Flushed'
  <2>1. pc[r] = "script" /\ kind'[r] = "golden" /\ UNCHANGED unflushed
    BY <1>17 DEF ScriptDone, argVars, ArgsOK
  <2>2. ASSUME NEW q \in Req, q # r PROVE pc'[q] # "after"
    BY <1>17, <2>1, <2>2, OneInside DEF ScriptDone, Goto, Finish, Locked
  <2> QED BY <2>1, <2>2
<1>18. ASSUME NEW r \in Req, ConvergeFails(r) PROVE Flushed'
  BY <1>18 DEF ConvergeFails, Finish, lockVars, diskVars, argVars, Locked
<1>19. ASSUME NEW r \in Req, ScriptTimesOut(r) PROVE Flushed'
  BY <1>19 DEF ScriptTimesOut, Finish, lockVars, diskVars, argVars, Locked
<1>20. ASSUME NEW r \in Req, NEW e \in late[r], LateLands(r, e) PROVE Flushed'
  BY <1>20, Awaited
<1>21. CASE Crash
  BY <1>21 DEF Crash, argVars
<1> QED BY <1>1, <1>2, <1>3, <1>4, <1>5, <1>6, <1>7, <1>8, <1>9, <1>10,
          <1>11, <1>12, <1>13, <1>14, <1>15, <1>16, <1>17, <1>18, <1>19,
          <1>20, <1>21
    DEF Next, Progress

----------------------------------------------------------------------------
(* The invariant of a server without stray writes.                         *)

LiveInv == Calm /\ CaptureLive /\ WritesLive /\ OpsLocal /\ Flushed

LEMMA LiveInit == Init => LiveInv
<1> SUFFICES ASSUME Init PROVE LiveInv
  OBVIOUS
<1>1. Calm
  BY TypeInit, TwinLabAssumption
  DEF TwinLabAssumption, Init, Calm, LockedByHolder, Locked, IdleInv, Outcome
<1>2. CaptureLive /\ WritesLive /\ OpsLocal /\ Flushed
  BY EmptyCapture DEF Init, CaptureLive, WritesLive, OpsLocal, Flushed
<1> QED BY <1>1, <1>2 DEF LiveInv

LEMMA LiveStep ==
    ASSUME LiveInv, [Next]_vars, [Apart]_vars
    PROVE  LiveInv'
<1>1. CASE UNCHANGED vars
  <2>1. Calm'
    BY <1>1, TypeStep, LockStep, IdleStep DEF LiveInv, Calm
  <2>2. /\ UNCHANGED <<pc, kind, node, target, cap, before, todo, out>>
        /\ UNCHANGED <<twin, unflushed>>
    BY <1>1 DEF vars, argVars
  <2>3. CaptureLive' /\ WritesLive' /\ OpsLocal' /\ Flushed'
    BY <2>2 DEF LiveInv, CaptureLive, WritesLive, OpsLocal, Flushed, Desired
  <2> QED BY <2>1, <2>3 DEF LiveInv
<1>2. CASE Apart
  <2>1. Calm'
    BY TypeStep, LockStep, IdleStep DEF LiveInv, Calm
  <2> QED BY <1>2, <2>1, CaptureStep, WritesStep, OpsLocalStep, FlushedStep DEF LiveInv
<1> QED BY <1>1, <1>2

LEMMA LiveInvariant == Spec /\ StraysStayApart => []LiveInv
<1>1. LiveInv /\ [Next]_vars /\ [Apart]_vars => LiveInv'
  BY LiveStep
<1> QED BY <1>1, LiveInit, PTL DEF Spec, StraysStayApart

(* Where nothing is left behind, there is nothing to stay apart.           *)
THEOREM NothingLandsLate == NothingLeftBehind => (Spec => StraysStayApart)
<1> SUFFICES ASSUME NothingLeftBehind PROVE Spec => StraysStayApart
  OBVIOUS
<1>1. NoStrayWrites => Apart
  BY DEF NoStrayWrites, Apart, StrayLands, WriteBack, RestoreFails, ScriptFails, Ready
<1>2. Spec => [][Apart]_vars
  BY <1>1, NothingStrays, PTL DEF Spec
<1> QED BY <1>2 DEF StraysStayApart

(* How a call can end, and which step writes the records.                  *)
EndsWell(q) == CapturedAfter(q) \/ CapturedSnapshot(q) \/ RestoreDone(q)

EndStep ==
    /\ \A q \in Req :
         out'[q] # out[q] \/ (pc[q] # "done" /\ pc'[q] = "done")
           => EndsWell(q) \/ out'[q] \in {"error", "lost"}
    /\ changes' # changes \/ marker' # marker => \E q \in Req : CapturedAfter(q)

LEMMA HowCallsEnd ==
    ASSUME Calm, [Next]_vars
    PROVE  EndStep
<1> USE DEF Calm, EndStep, TypeInv, ControlOK, LocalOK
<1>1. CASE UNCHANGED vars
  BY <1>1 DEF vars, lockVars, diskVars
<1>2. ASSUME NEW r \in Req, Arrive(r) PROVE EndStep
  BY <1>2 DEF Arrive, CallApply, CallInject, CallRollback, CallSnapshot,
              CallGolden, Issue, diskVars
<1>3. ASSUME NEW r \in Req, Acquire(r) PROVE EndStep
  BY <1>3 DEF Acquire, Turn, lockVars, diskVars, argVars
<1>4. ASSUME NEW r \in Req, NEW s \in Slot, ReadSlot(r, s) PROVE EndStep
  BY <1>4 DEF ReadSlot, lockVars, diskVars, argVars
<1>5. ASSUME NEW r \in Req, CapturedBefore(r) PROVE EndStep
  BY <1>5 DEF CapturedBefore, Captured, Goto, lockVars, diskVars, argVars
<1>6. ASSUME NEW r \in Req, CapturedUndo(r) PROVE EndStep
  BY <1>6 DEF CapturedUndo, Captured, Goto, lockVars, diskVars, argVars
<1>7. ASSUME NEW r \in Req, CapturedAfter(r) PROVE EndStep
  BY <1>7 DEF CapturedAfter, Captured, Finish, lockVars, diskVars, argVars,
              EndsWell
<1>8. ASSUME NEW r \in Req, CapturedSnapshot(r) PROVE EndStep
  BY <1>8 DEF CapturedSnapshot, Captured, Finish, lockVars, diskVars, argVars,
              EndsWell
<1>9. ASSUME NEW r \in Req, CaptureFails(r) PROVE EndStep
  BY <1>9 DEF CaptureFails, Finish, lockVars, diskVars, argVars
<1>10. ASSUME NEW r \in Req, NEW s \in Slot, NEW v \in Val, OpOk(r, s, v)
       PROVE  EndStep
  BY <1>10 DEF OpOk, lockVars, diskVars, argVars
<1>11. ASSUME NEW r \in Req, NEW s \in Slot, NEW v \in Val, OpFails(r, s, v)
       PROVE  EndStep
  BY <1>11 DEF OpFails, Goto, Finish, lockVars, diskVars, argVars
<1>12. ASSUME NEW r \in Req, NEW s \in Slot, NEW v \in Val, RestoreFails(r, s, v)
       PROVE  EndStep
  BY <1>12 DEF RestoreFails, Finish, lockVars, diskVars, argVars
<1>13. ASSUME NEW r \in Req, OpsDone(r) PROVE EndStep
  BY <1>13 DEF OpsDone, Goto, lockVars, diskVars, argVars
<1>14. ASSUME NEW r \in Req, NEW s \in Slot, WriteBack(r, s) PROVE EndStep
  BY <1>14 DEF WriteBack, lockVars, diskVars, argVars
<1>15. ASSUME NEW r \in Req, RestoreDone(r) PROVE EndStep
  BY <1>15 DEF RestoreDone, Goto, Finish, lockVars, diskVars, argVars, EndsWell
<1>16. ASSUME NEW r \in Req, NEW s \in Slot, NEW v \in Val, ScriptFails(r, s, v)
       PROVE  EndStep
  BY <1>16 DEF ScriptFails, lockVars, diskVars, argVars
<1>17. ASSUME NEW r \in Req, ScriptDone(r) PROVE EndStep
  BY <1>17 DEF ScriptDone, Goto, Finish, lockVars, diskVars, argVars
<1>18. ASSUME NEW r \in Req, ConvergeFails(r) PROVE EndStep
  BY <1>18 DEF ConvergeFails, Finish, lockVars, diskVars, argVars
<1>19. ASSUME NEW r \in Req, ScriptTimesOut(r) PROVE EndStep
  BY <1>19 DEF ScriptTimesOut, Finish, lockVars, diskVars, argVars
<1>20. ASSUME NEW r \in Req, NEW e \in late[r], LateLands(r, e) PROVE EndStep
  BY <1>20 DEF LateLands, lockVars, diskVars
<1>21. CASE Crash
  <2>1. UNCHANGED <<changes, marker>>
    BY <1>21 DEF Crash, diskVars
  <2>2. ASSUME NEW q \in Req PROVE (out'[q] = out[q] /\ pc'[q] = pc[q]) \/ out'[q] = "lost"
    BY <1>21 DEF Crash
  <2> HIDE DEF Calm, TypeInv, ControlOK, LocalOK
  <2> QED BY <2>1, <2>2
<1> QED BY <1>1, <1>2, <1>3, <1>4, <1>5, <1>6, <1>7, <1>8, <1>9, <1>10,
          <1>11, <1>12, <1>13, <1>14, <1>15, <1>16, <1>17, <1>18, <1>19,
          <1>20, <1>21
    DEF Next, Progress

----------------------------------------------------------------------------
(* What a call that ends well may rely on.                                 *)

RecordStep == \A c \in changes' \ changes : c.after = twin'

(* The after snapshot of a change record is the twin at the moment the     *)
(* record is written (RecordedAfterIsLive).                                *)
THEOREM RecordsAreLive == Spec /\ StraysStayApart => RecordedAfterIsLive
<1>1. ASSUME LiveInv, [Next]_vars PROVE [RecordStep]_vars
  <2>1. EndStep
    BY <1>1, HowCallsEnd DEF LiveInv
  <2>2. ASSUME NEW q \in Req, CapturedAfter(q) PROVE RecordStep
    <3>1. cap[q] = twin /\ twin' = twin
      BY <1>1, <2>2, CaptureIsTwin DEF LiveInv, CapturedAfter, Captured
    <3> QED BY <2>2, <3>1 DEF RecordStep, CapturedAfter
  <2>3. changes' = changes => RecordStep
    BY DEF RecordStep
  <2> QED BY <2>1, <2>2, <2>3 DEF EndStep
<1>2. Spec /\ StraysStayApart => [][RecordStep]_vars
  BY <1>1, LiveInvariant, PTL DEF Spec
<1> QED BY <1>2 DEF RecordedAfterIsLive, RecordStep

UndoStep ==
    \A r \in Req : out'[r] = "rolled_back" /\ out[r] # "rolled_back"
                     => twin' = before[r]

(* An apply that answers that it was rolled back left the twin as its      *)
(* before capture saw it, whatever ops had run (RolledBackIsUndone).       *)
THEOREM UndoIsComplete == Spec /\ StraysStayApart => RolledBackIsUndone
<1>1. ASSUME LiveInv, [Next]_vars PROVE UndoStep
  <2> SUFFICES ASSUME NEW r \in Req, out'[r] = "rolled_back", out[r] # "rolled_back"
               PROVE  twin' = before[r]
    BY DEF UndoStep
  <2>1. EndsWell(r)
    BY <1>1, HowCallsEnd DEF LiveInv, EndStep
  <2>2. ~ CapturedAfter(r) /\ ~ CapturedSnapshot(r)
    BY <1>1 DEF LiveInv, Calm, TypeInv, LocalOK, CapturedAfter,
                CapturedSnapshot, Finish
  <2>3. RestoreDone(r)
    BY <2>1, <2>2 DEF EndsWell
  <2>4. pc[r] = "restore" /\ todo[r] = {} /\ twin' = twin /\ kind[r] # "rollback"
    BY <1>1, <2>3 DEF LiveInv, Calm, TypeInv, LocalOK, RestoreDone, TasksOver,
                      Goto
  <2>5. \A s \in Slot : twin[s] = before[r][s]
    BY <1>1, <2>4 DEF LiveInv, WritesLive, Desired
  <2>6. twin \in State /\ before[r] \in State
    BY <1>1, <2>4 DEF LiveInv, Calm, TypeInv, ServerOK, ArgsOK
  <2> QED BY <2>4, <2>5, <2>6 DEF State
<1>2. Spec /\ StraysStayApart => [][UndoStep]_vars
  BY <1>1, LiveInvariant, PTL DEF Spec
<1> QED BY <1>2 DEF RolledBackIsUndone, UndoStep

ReachStep ==
    \A r \in Req :
      (kind[r] = "rollback" /\ pc[r] = "after" /\ pc'[r] = "done"
         /\ out'[r] \notin {"error", "lost"})
      => out'[r] = "ok" /\ twin' = target[r]

(* A rollback that does not raise answers matches_target, and the twin is  *)
(* the snapshot asked for (RollbackReachesTarget).                         *)
THEOREM RollbackIsExact == Spec /\ StraysStayApart => RollbackReachesTarget
<1>1. ASSUME LiveInv, [Next]_vars PROVE ReachStep
  <2> SUFFICES ASSUME NEW r \in Req, kind[r] = "rollback", pc[r] = "after",
                      pc'[r] = "done", out'[r] \notin {"error", "lost"}
               PROVE  out'[r] = "ok" /\ twin' = target[r]
    BY DEF ReachStep
  <2>1. CapturedAfter(r)
    BY <1>1, HowCallsEnd
    DEF LiveInv, EndStep, EndsWell, CapturedSnapshot, Captured, RestoreDone
  <2>2. cap[r] = twin /\ twin' = twin
    BY <1>1, <2>1, CaptureIsTwin DEF LiveInv, CapturedAfter, Captured
  <2>3. twin = target[r]
    BY <1>1 DEF LiveInv, WritesLive
  <2> QED BY <1>1, <2>1, <2>2, <2>3
          DEF LiveInv, Calm, TypeInv, LocalOK, CapturedAfter, Finish
<1>2. Spec /\ StraysStayApart => [][ReachStep]_vars
  BY <1>1, LiveInvariant, PTL DEF Spec
<1> QED BY <1>2 DEF RollbackReachesTarget, ReachStep

FlushStep ==
    \A r \in Req :
      (/\ kind[r] \in {"apply", "rollback"}
       /\ pc[r] # "done" /\ pc'[r] = "done"
       /\ out'[r] \in {"ok", "rolled_back"})
      => ~ unflushed'

(* "every mutation ends by flushing it" (flush_route_caches), apply and    *)
(* rollback at least, and as far as the flush commands, whose results      *)
(* nobody reads, work: neither succeeds with route caches older than its   *)
(* last write (MutationsFlush).                                            *)
THEOREM MutationsDoFlush ==
    FlushesWork => (Spec /\ StraysStayApart => MutationsFlush)
<1> SUFFICES ASSUME FlushesWork PROVE Spec /\ StraysStayApart => MutationsFlush
  OBVIOUS
<1>1. ASSUME LiveInv, [Next]_vars PROVE FlushStep
  <2> SUFFICES ASSUME NEW r \in Req, kind[r] \in {"apply", "rollback"},
                      pc[r] # "done", pc'[r] = "done",
                      out'[r] \in {"ok", "rolled_back"}
               PROVE  ~ unflushed'
    BY DEF FlushStep
  <2>1. EndsWell(r)
    BY <1>1, HowCallsEnd DEF LiveInv, EndStep
  <2>2. CASE CapturedAfter(r)
    BY <1>1, <2>2 DEF LiveInv, Flushed, CapturedAfter, Captured
  <2>3. CASE RestoreDone(r)
    BY <2>3 DEF RestoreDone, FlushRouteCaches, FlushesWork
  <2>4. ~ CapturedSnapshot(r)
    BY <1>1 DEF LiveInv, Calm, IdleInv, CapturedSnapshot, Captured
  <2> QED BY <2>1, <2>2, <2>3, <2>4 DEF EndsWell
<1>2. Spec /\ StraysStayApart => [][FlushStep]_vars
  BY <1>1, LiveInvariant, PTL DEF Spec
<1> QED BY <1>2 DEF MutationsFlush, FlushStep

(* Both facts about what the last step of a call writes down; the marker   *)
(* and the change records are written by no other step.                    *)
LEMMA RecordsAreRight ==
    Spec /\ StraysStayApart => []ChangeIsLocal /\ []GoldenMarkerIsGolden
<1>1. Init => ChangeIsLocal /\ GoldenMarkerIsGolden
  BY DEF Init, ChangeIsLocal, GoldenMarkerIsGolden
<1>2. ASSUME LiveInv, ChangeIsLocal, GoldenMarkerIsGolden, [Next]_vars
      PROVE  (ChangeIsLocal /\ GoldenMarkerIsGolden)'
  <2>1. EndStep
    BY <1>2, HowCallsEnd DEF LiveInv
  <2>2. ASSUME NEW q \in Req, CapturedAfter(q)
        PROVE  (ChangeIsLocal /\ GoldenMarkerIsGolden)'
    <3>1. cap[q] = twin /\ pc[q] = "after"
      BY <1>2, <2>2, CaptureIsTwin DEF LiveInv, CapturedAfter, Captured
    <3>2. ChangeIsLocal'
      BY <1>2, <2>2, <3>1 DEF LiveInv, OpsLocal, ChangeIsLocal, CapturedAfter
    <3>3. GoldenMarkerIsGolden'
      BY <1>2, <2>2, <3>1 DEF LiveInv, WritesLive, GoldenMarkerIsGolden,
         CapturedAfter
    <3> QED BY <3>2, <3>3
  <2>3. CASE changes' = changes /\ marker' = marker
    BY <1>2, <2>3 DEF ChangeIsLocal, GoldenMarkerIsGolden
  <2> QED BY <2>1, <2>2, <2>3 DEF EndStep
<1> QED BY <1>1, <1>2, LiveInvariant, PTL DEF Spec

(* A change record differs from its before snapshot only at the node it    *)
(* names, so the diff of that node which TwinLab.apply records and the     *)
(* export gate exports is the whole change (ChangeIsLocal).                *)
THEOREM ChangesAreLocal == Spec /\ StraysStayApart => []ChangeIsLocal
BY RecordsAreRight, PTL

(* The golden marker only ever names the golden configuration, whatever    *)
(* part of golden.sh failed (GoldenMarkerIsGolden).                        *)
THEOREM MarkerIsGolden == Spec /\ StraysStayApart => []GoldenMarkerIsGolden
BY RecordsAreRight, PTL
============================================================================

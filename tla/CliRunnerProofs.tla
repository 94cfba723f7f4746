-------------------------- MODULE CliRunnerProofs --------------------------
(***************************************************************************)
(* Proofs about CliRunner, for any number of runs, edits, bundles and      *)
(* events, whether or not a CLI lingers.  The proofs about a batch open    *)
(* Verdicts only to see that an agent that used a tool is not taken for an *)
(* unavailable CLI; then what is read of a stream, and that a run is never *)
(* stuck and never goes back.                                              *)
(***************************************************************************)
EXTENDS CliRunner, WellFoundedInduction, TLAPS

(* Types, and that a run is on its way wherever there is one to speak of.  *)
TypeInv == TypeOK /\ (phase # "idle" => run \in Run)

(* The batch starts well typed.                                            *)
LEMMA InitTypes == Init => TypeInv
<1> SUFFICES ASSUME Init PROVE TypeInv
  OBVIOUS
<1>1. MaxRuns \in Nat
  BY CliAssumption
<1>2. exports \in Seq(Run) /\ saved \in Seq(Nat) /\ Len(saved) = Len(exports)
  BY DEF Init
<1>3. twin \in Seq(Run) /\ left \in Seq(Run)
  BY DEF Init
<1>4. run \in 0..MaxRuns
  BY <1>1 DEF Init
<1>5. /\ piped \subseteq alive /\ alive \subseteq Process /\ late \subseteq Run
      /\ approved \subseteq DOMAIN exports /\ loose \subseteq Run
  BY DEF Init
<1>6. output.export = NIL /\ output.from = NIL
  BY DEF Init, Nothing
<1>7. rc \in {0, -1} /\ clock \in Nat /\ seen \subseteq DOMAIN exports
  BY DEF Init
<1>8. /\ runner \in {"claude", "manual"} /\ bench \in BOOLEAN
      /\ phase = "idle" /\ phase \in Rest /\ said \in BOOLEAN /\ error = NIL
      /\ touched \in BOOLEAN /\ pick = NIL
  BY DEF Init, Rest
<1> QED
  BY <1>1, <1>2, <1>3, <1>4, <1>5, <1>6, <1>7, <1>8 DEF TypeInv, TypeOK

(* A call of an agent, in time or late.                                    *)
StoreTypes ==
    /\ twin \in Seq(Run) /\ exports \in Seq(Run) /\ approved \subseteq DOMAIN exports
    /\ saved \in Seq(Nat) /\ Len(saved) = Len(exports) /\ clock \in Nat

LEMMA CallTypes == ASSUME TypeInv, NEW r \in Run, Edit(r) \/ Export(r)
                   PROVE  StoreTypes' /\ DOMAIN exports \subseteq DOMAIN exports'
<1>1. CASE Edit(r)
  BY <1>1 DEF TypeInv, TypeOK, Edit, storeVars, StoreTypes
<1>2. CASE Export(r)
  BY <1>2 DEF TypeInv, TypeOK, Export, Save, Saved, StoreTypes
<1> QED
  BY <1>1, <1>2

(* The bundles and the twin may change as they will: the rest is as typed  *)
(* as before, for no bundle goes away.                                     *)
LEMMA SameRest ==
    ASSUME TypeInv, StoreTypes', DOMAIN exports \subseteq DOMAIN exports',
           UNCHANGED <<runner, bench, phase, run, alive, piped, seen, pick, rc, said,
                       output, error, loose, left>>,
           touched' \in BOOLEAN, late' \subseteq Run
    PROVE  TypeInv'
<1>1. /\ seen' \subseteq DOMAIN exports' /\ pick' \in {NIL} \cup DOMAIN exports'
      /\ output'.export \in {NIL} \cup DOMAIN exports'
  BY DEF TypeInv, TypeOK
<1>2. (phase # "idle" => run \in Run)'
  BY DEF TypeInv
<1> QED
  BY <1>1, <1>2, SMTT(30) DEF TypeInv, TypeOK, StoreTypes

(* So it is when processes come and go.                                    *)
LEMMA SameStores ==
    ASSUME TypeInv, phase # "idle", phase' \in {"waiting", "grace", "dead"},
           UNCHANGED <<configVars, run, storeVars, twin, runVars, oneVars, left>>,
           piped' \subseteq alive', alive' \subseteq Process, late' \subseteq Run,
           touched' \in BOOLEAN, loose' \subseteq Run
    PROVE  TypeInv'
<1>1. phase' \in Rest \cup {"starting", "spawning", "waiting", "exiting", "grace",
                            "judging", "listing", "reading", "polling", "deciding",
                            "probing", "checking", "recording", "cleaning", "bailing"}
  BY DEF Rest
<1>2. UNCHANGED <<runner, bench, run, exports, saved, clock, approved, twin, seen,
                  pick, rc, said, output, error, left>>
  BY DEF configVars, storeVars, runVars, oneVars
<1>3. StoreTypes'
  BY <1>2 DEF StoreTypes, TypeInv, TypeOK
<1> QED
  BY <1>1, <1>2, <1>3 DEF TypeInv, TypeOK, StoreTypes

(* Every action keeps the types.                                           *)
LEMMA StepTypes == TypeInv /\ [Next]_vars => TypeInv'
<1> SUFFICES ASSUME TypeInv, [Next]_vars PROVE TypeInv'
  OBVIOUS
<1> USE CliAssumption
<1>1. CASE AgentCalls
  <2>1. PICK p \in alive : /\ Edit(p[1]) \/ Export(p[1])
                          /\ touched' = (touched \/ p[1] = run)
    BY <1>1 DEF AgentCalls
  <2>2. p[1] \in Run /\ touched' \in BOOLEAN
    BY <2>1 DEF TypeInv, TypeOK, Process
  <2>3. UNCHANGED <<configVars, phase, run, procVars, runVars, oneVars, loose, left>>
    BY <1>1 DEF AgentCalls
  <2>4. StoreTypes'
    BY <2>1, <2>2, CallTypes
  <2>5. DOMAIN exports \subseteq DOMAIN exports'
    BY <2>1, <2>2, CallTypes
  <2>6. /\ UNCHANGED <<runner, bench, phase, run, alive, piped, seen, pick, rc, said,
                     output, error, loose, left>>
        /\ late' \subseteq Run
    BY <2>3 DEF configVars, procVars, runVars, oneVars, TypeInv, TypeOK
  <2> QED
    BY <2>2, <2>4, <2>5, <2>6, SameRest
<1>2. CASE LateCall
  <2>1. PICK r \in late : (Edit(r) \/ Export(r)) /\ late' = late \ {r}
    BY <1>2 DEF LateCall
  <2>2. r \in Run /\ late' \subseteq Run
    BY <2>1 DEF TypeInv, TypeOK
  <2>3. UNCHANGED <<configVars, phase, run, alive, piped, runVars, oneVars, history, left>>
    BY <1>2 DEF LateCall
  <2>4. StoreTypes'
    BY <2>1, <2>2, CallTypes
  <2>5. DOMAIN exports \subseteq DOMAIN exports'
    BY <2>1, <2>2, CallTypes
  <2>6. /\ UNCHANGED <<runner, bench, phase, run, alive, piped, seen, pick, rc, said,
                     output, error, loose, left>>
        /\ touched' \in BOOLEAN
    BY <2>3 DEF configVars, runVars, oneVars, history, TypeInv, TypeOK
  <2> QED
    BY <2>2, <2>4, <2>5, <2>6, SameRest
<1>3. CASE Approve
  <2>1. PICK i \in DOMAIN exports : approved' = approved \cup {i} /\ Save(i)
    BY <1>3 DEF Approve
  <2>2. clock' \in Nat /\ saved' \in Seq(Nat) /\ Len(saved') = Len(exports)
    BY <2>1 DEF Save, Saved, TypeInv, TypeOK
  <2>3. /\ UNCHANGED <<runner, bench, phase, run, alive, piped, late, seen, pick, rc, said,
                     output, error, loose, left, exports, twin, touched>>
    BY <1>3 DEF Approve, configVars, procVars, runVars, oneVars, history
  <2>4. StoreTypes' /\ touched' \in BOOLEAN /\ late' \subseteq Run
    BY <2>1, <2>2, <2>3 DEF StoreTypes, TypeInv, TypeOK
  <2> QED
    BY <2>3, <2>4, SameRest
<1>4. CASE SpawnChild
  BY <1>4, SMTT(30)
  DEF SpawnChild, Cli, Process, TypeInv, TypeOK, configVars, storeVars, runVars,
      oneVars, history
<1>5. CASE LeavePipe
  <2>1. PICK p \in piped : /\ piped' = piped \ {p}
                          /\ loose' = IF p[2] = "child" THEN loose \cup {p[1]} ELSE loose
    BY <1>5 DEF LeavePipe
  <2>2. p[1] \in Run
    BY DEF TypeInv, TypeOK, Process
  <2>3. piped' \subseteq alive /\ loose' \subseteq Run
    BY <2>1, <2>2 DEF TypeInv, TypeOK
  <2> QED
    BY <1>5, <2>3
    DEF LeavePipe, TypeInv, TypeOK, configVars, storeVars, runVars, oneVars
<1>6. CASE Exit
  <2>1. PICK p \in alive :
          /\ alive' = alive \ {p} /\ piped' = piped \ {p}
          /\ IF p[2] = "cli" THEN CallsBehind(p[1]) ELSE UNCHANGED <<late, touched>>
          /\ loose' = IF late' = late THEN loose ELSE loose \cup {p[1]}
    BY <1>6 DEF Exit
  <2>2. p[1] \in Run
    BY DEF TypeInv, TypeOK, Process
  <2>3. late' \subseteq Run /\ touched' \in BOOLEAN
    BY <2>1, <2>2 DEF CallsBehind, TypeInv, TypeOK
  <2>4. piped' \subseteq alive' /\ alive' \subseteq Process /\ loose' \subseteq Run
    BY <2>1, <2>2 DEF TypeInv, TypeOK
  <2> QED
    BY <1>6, <2>3, <2>4
    DEF Exit, TypeInv, TypeOK, configVars, storeVars, runVars, oneVars
<1>7. CASE StartSession
  BY <1>7, SMTT(30)
  DEF StartSession, Process, TypeInv, TypeOK, configVars, storeVars, runVars, oneVars
<1>8. CASE SpawnCli
  BY <1>8, SMTT(30)
  DEF SpawnCli, Cli, Process, TypeInv, TypeOK, configVars, storeVars, runVars,
      oneVars, history
<1>9. CASE SpawnFails
  BY <1>9
  DEF SpawnFails, Return, Nothing, TypeInv, TypeOK, configVars, procVars, storeVars,
      history
<1>10. CASE WorkDone
  BY <1>10, SMTT(30)
  DEF WorkDone, PipeClosed, Goto, TypeInv, TypeOK, configVars, procVars, storeVars,
      runVars, oneVars, history
<1>11. CASE Exited
  BY <1>11, SMTT(30)
  DEF Exited, Goto, TypeInv, TypeOK, configVars, procVars, storeVars, oneVars,
      history
<1>12. CASE DrainFails
  BY <1>12
  DEF DrainFails, Return, Nothing, TypeInv, TypeOK, configVars, procVars, storeVars
<1>13. CASE KillTree
  <2>1. run \in Run /\ phase = "waiting" /\ phase' = "grace"
    BY <1>13 DEF KillTree, TypeInv
  <2>2. alive' \subseteq alive /\ piped' \subseteq alive' /\ CallsBehind(run)
    BY <1>13 DEF KillTree
  <2>3. alive' \subseteq Process /\ late' \subseteq Run /\ touched' \in BOOLEAN
    BY <2>1, <2>2 DEF CallsBehind, TypeInv, TypeOK
  <2>4. loose' \subseteq Run
    BY <1>13, <2>1 DEF KillTree, TypeInv, TypeOK
  <2>5. UNCHANGED <<configVars, run, storeVars, twin, runVars, oneVars, left>>
    BY <1>13 DEF KillTree
  <2> QED
    BY <2>1, <2>2, <2>3, <2>4, <2>5, SameStores
<1>14. CASE KillGroup
  <2>1. run \in Run /\ phase = "waiting" /\ phase' = "dead"
    BY <1>14 DEF KillGroup, TypeInv
  <2>2. alive' = {} /\ piped' = {} /\ CallsBehind(run)
    BY <1>14 DEF KillGroup
  <2>3. late' \subseteq Run /\ touched' \in BOOLEAN
    BY <2>1, <2>2 DEF CallsBehind, TypeInv, TypeOK
  <2>4. loose' \subseteq Run
    BY <1>14 DEF KillGroup, TypeInv, TypeOK
  <2>5. UNCHANGED <<configVars, run, storeVars, twin, runVars, oneVars, left>>
    BY <1>14 DEF KillGroup
  <2> QED
    BY <2>1, <2>2, <2>3, <2>4, <2>5, SameStores
<1>15. CASE GraceOver
  BY <1>15, SMTT(30)
  DEF GraceOver, Abandons, Goto, TypeInv, TypeOK, configVars, procVars, storeVars,
      oneVars, history
<1>16. CASE Judge
  <2>1. PICK v \in Verdicts :
          \/ v.unavailable /\ Goto("bailing") /\ UNCHANGED runVars
          \/ ~ v.unavailable /\ Return(Nothing, "timeout")
          \/ Goto("listing") /\ said' = v.report /\ UNCHANGED <<seen, pick, rc>>
    BY <1>16 DEF Judge
  <2>2. v.report \in BOOLEAN
    <3>1. PICK s \in {ParseStream(lines) : lines \in Streams}, saysSo \in BOOLEAN :
            v = [used |-> s.used, unavailable |-> Unavailable(s, saysSo),
                 report |-> s.final = "report"]
      BY SMT DEF Verdicts
    <3>2. v.report = (s.final = "report")
      BY <3>1
    <3> QED
      BY <3>2
  <2>3. UNCHANGED <<procVars, history>>
    BY <1>16 DEF Judge
  <2>4. CASE v.unavailable /\ Goto("bailing") /\ UNCHANGED runVars
    BY <1>16, <2>3, <2>4
    DEF Judge, Goto, TypeInv, TypeOK, configVars, procVars, storeVars, runVars,
        oneVars, history
  <2>5. CASE ~ v.unavailable /\ Return(Nothing, "timeout")
    BY <1>16, <2>3, <2>5
    DEF Judge, Return, Nothing, TypeInv, TypeOK, configVars, procVars, storeVars,
        history
  <2>6. CASE Goto("listing") /\ said' = v.report /\ UNCHANGED <<seen, pick, rc>>
    BY <1>16, <2>2, <2>3, <2>6
    DEF Judge, Goto, TypeInv, TypeOK, configVars, procVars, storeVars, oneVars,
        history
  <2> QED
    BY <2>1, <2>4, <2>5, <2>6
<1>17. CASE NoneNew
  BY <1>17
  DEF NoneNew, Return, Nothing, TypeInv, TypeOK, configVars, procVars, storeVars,
      history
<1>18. CASE ListNew
  BY <1>18, SMTT(30)
  DEF ListNew, PickNewest, New, Goto, TypeInv, TypeOK, configVars, procVars,
      storeVars, oneVars, history
<1>19. CASE ReadBundle
  BY <1>19
  DEF ReadBundle, Return, Bundle, TypeInv, TypeOK, configVars, procVars, storeVars,
      history
<1>20. CASE Poll
  BY <1>20, SMTT(30)
  DEF Poll, PickNewest, New, Goto, TypeInv, TypeOK, configVars, procVars, storeVars,
      oneVars, history
<1>21. CASE GiveUp
  BY <1>21
  DEF GiveUp, Return, Nothing, TypeInv, TypeOK, configVars, procVars, storeVars,
      history
<1>22. CASE Decided
  BY <1>22
  DEF Decided, Return, Bundle, TypeInv, TypeOK, configVars, procVars, storeVars,
      history
<1>23. CASE Prepare
  <2>1. <<>> \in Seq(Run)
    OBVIOUS
  <2>2. twin' \in Seq(Run)
    BY <1>23, <2>1 DEF Prepare, TypeInv, TypeOK
  <2>3. run' \in 0..MaxRuns /\ (phase' # "idle" => run' \in Run)
    BY <1>23, CliAssumption
    DEF Prepare, TypeInv, TypeOK, Run, vars, configVars, storeVars, procVars,
        runVars, oneVars, history
  <2>4. UNCHANGED <<runner, bench, alive, piped, late, exports, saved, clock, approved,
                    seen, pick, rc, said, output, error, loose, left>>
    BY <1>23 DEF Prepare, configVars, procVars, storeVars, runVars, oneVars
  <2>5. phase' \in {"idle", "starting"} /\ touched' \in BOOLEAN
    BY <1>23 DEF Prepare
  <2>6. StoreTypes'
    BY <2>2, <2>4 DEF StoreTypes, TypeInv, TypeOK
  <2>7. /\ phase' \in Rest \cup {"starting", "spawning", "waiting", "exiting", "grace",
                               "judging", "listing", "reading", "polling", "deciding",
                               "probing", "checking", "recording", "cleaning", "bailing"}
        /\ touched' \in BOOLEAN
    BY <2>5 DEF Rest
  <2> HIDE <1>23
  <2> QED
    BY <2>3, <2>4, <2>6, <2>7 DEF TypeInv, TypeOK, StoreTypes
<1>24. CASE ReadSeen
  BY <1>24, SMTT(30)
  DEF ReadSeen, Goto, TypeInv, TypeOK, configVars, procVars, storeVars, oneVars,
      history
<1>25. CASE AdminFails
  BY <1>25
  DEF AdminFails, Return, Nothing, TypeInv, TypeOK, configVars, procVars, storeVars,
      history
<1>26. CASE Probe
  BY <1>26, SMTT(30)
  DEF Probe, Answers, NotAsked, TypeInv, TypeOK, configVars, procVars, storeVars,
      runVars, history
<1>27. CASE Check
  BY <1>27, SMTT(30)
  DEF Check, Answers, NotAsked, TypeInv, TypeOK, configVars, procVars, storeVars,
      runVars, history
<1>28. CASE Record
  BY <1>28, SMTT(30)
  DEF Record, Nothing, NotAsked, TypeInv, TypeOK, configVars, procVars, storeVars,
      runVars, history
<1>29. CASE LookupFails
  BY <1>29, SMTT(30)
  DEF LookupFails, Goto, Rest, TypeInv, TypeOK, configVars, procVars, storeVars,
      runVars, oneVars, history
<1>30. CASE CleanUp
  <2>1. <<>> \in Seq(Run)
    OBVIOUS
  <2>2. twin' \in Seq(Run)
    BY <1>30, <2>1 DEF CleanUp, TypeInv, TypeOK
  <2>3. run' \in 0..MaxRuns /\ (phase' # "idle" => run' \in Run)
    BY <1>30, CliAssumption
    DEF CleanUp, TypeInv, TypeOK, Run, vars, configVars, storeVars, procVars,
        runVars, oneVars, history
  <2> QED
    BY <1>30, <2>2, <2>3, SMTT(20)
    DEF CleanUp, TypeInv, TypeOK, Rest, configVars, procVars, storeVars, runVars,
        oneVars, history, vars
<1>31. CASE Bail
  <2>1. <<>> \in Seq(Run)
    OBVIOUS
  <2>2. twin' \in Seq(Run)
    BY <1>31, <2>1 DEF Bail, TypeInv, TypeOK
  <2>3. run' \in 0..MaxRuns /\ (phase' # "idle" => run' \in Run)
    BY <1>31, CliAssumption
    DEF Bail, TypeInv, TypeOK, Run, vars, configVars, storeVars, procVars, runVars,
        oneVars, history
  <2> QED
    BY <1>31, <2>2, <2>3, SMTT(30)
    DEF Bail, TypeInv, TypeOK, Rest, configVars, procVars, storeVars, runVars,
        oneVars, history, vars
<1>32. CASE UNCHANGED vars
  BY <1>32
  DEF TypeInv, TypeOK, configVars, procVars, storeVars, runVars, oneVars, history,
      vars
<1> QED
  BY <1>1, <1>2, <1>3, <1>4, <1>5, <1>6, <1>7, <1>8, <1>9, <1>10, <1>11, <1>12,
     <1>13, <1>14, <1>15, <1>16, <1>17, <1>18, <1>19, <1>20, <1>21, <1>22, <1>23,
     <1>24, <1>25, <1>26, <1>27, <1>28, <1>29, <1>30, <1>31, <1>32
  DEF Next, World, Claude, Manual, RunOne

----------------------------------------------------------------------------
(* What runs is something that was let go on, or belongs to a run whose    *)
(* pipe is still watched; once the pipe is closed only the CLI is left.    *)
ProcInv ==
    /\ loose \subseteq 1..run
    /\ phase # "dead" => late \subseteq loose
    /\ \A p \in alive :
         /\ p[1] \in loose \/ (p[1] = run /\ phase \in {"waiting", "exiting"})
         /\ p[2] = "session" \/ (p[2] = "child" /\ p \notin piped) => p[1] \in loose
         /\ phase = "exiting" => p[1] \in loose \/ p[2] = "cli"

(* While nothing was let go on, only the run edits the twin, and nobody    *)
(* does once its runner has returned.                                      *)
Judging == {"probing", "checking", "recording", "cleaning"}

Agrees(a) == a.answer = "given" => a.twin = twin

LeftInv ==
    /\ record # NIL => phase = "cleaning"
    /\ loose = {} /\ phase \notin Rest =>
         /\ ToSet(twin) \subseteq {run}
         /\ phase \in Judging => left = twin
         /\ phase \in {"checking", "recording"} => Agrees(probed)
         /\ phase = "recording" => Agrees(checked)
         /\ phase = "cleaning" => Agrees(record.probed) /\ Agrees(record.checked)

(* A folder is older than that of a later bundle unless the operator       *)
(* approved it, which in bench mode is never left to be done.              *)
StoreInv ==
    /\ \A i \in DOMAIN saved : saved[i] <= clock
    /\ bench => DOMAIN exports \subseteq approved
    /\ \A i, j \in DOMAIN saved : i < j => saved[i] < saved[j] \/ (i \in approved /\ ~ bench)

(* The bundles that are new to a runner, and the one that it picks.        *)
Looking == {"spawning", "waiting", "exiting", "grace", "judging", "listing", "reading",
            "polling", "deciding"}

Own(e) ==
    /\ exports[e] = run \/ exports[e] \in loose
    /\ \A later \in DOMAIN exports :
         later > e /\ exports[later] = run /\ exports[e] = run =>
           run \in loose \/ (~ bench /\ e \in approved)

PickInv ==
    /\ phase \in Looking =>
         /\ \A i \in New : exports[i] = run \/ exports[i] \in loose
         /\ \A i \in seen, j \in DOMAIN exports : j < i => j \in seen
    /\ phase \in {"reading", "deciding"} => pick \in DOMAIN exports /\ Own(pick)
    /\ phase \in Judging \ {"cleaning"} /\ output.export # NIL =>
         output.export \in DOMAIN exports /\ Own(output.export)
    /\ phase = "cleaning" /\ record.output.export # NIL =>
         record.output.export \in DOMAIN exports /\ Own(record.output.export)

(* What failed, and what the record may then say.                          *)
FailInv ==
    /\ phase = "bailing" => rc = -1 \/ run \in loose \/ ~ touched
    /\ phase \in Judging \ {"cleaning"} /\ output.from # NIL => error \in {NIL, "unchecked"}
    /\ phase = "recording" /\ error = NIL => "none" \notin {probed.answer, checked.answer}
    /\ phase = "cleaning" =>
         /\ record.error = NIL =>
              "none" \notin {record.probed.answer, record.checked.answer}
         /\ record.output.from # NIL => record.error \in {NIL, "unchecked"}

(* A step may leave a process behind only by letting go of its run.        *)
LEMMA StepProc == TypeInv /\ ProcInv /\ [Next]_vars => ProcInv'
<1> SUFFICES ASSUME TypeInv, ProcInv, [Next]_vars PROVE ProcInv'
  OBVIOUS
<1>1. CASE AgentCalls
  BY <1>1 DEF AgentCalls, Edit, ProcInv, procVars
<1>2. CASE LateCall
  BY <1>2 DEF LateCall, Edit, ProcInv, history
<1>3. CASE Approve
  BY <1>3 DEF Approve, Save, Saved, ProcInv, procVars, history
<1>4. CASE SpawnChild
  BY <1>4 DEF SpawnChild, ProcInv, history
<1>5. CASE LeavePipe
  <2>1. PICK p \in piped : /\ piped' = piped \ {p}
                          /\ loose' = IF p[2] = "child" THEN loose \cup {p[1]} ELSE loose
    BY <1>5 DEF LeavePipe
  <2>0. p \in alive /\ p[1] \in Run
    BY DEF TypeInv, TypeOK, Process
  <2>5. p[1] \in 1..run
    BY <2>0, CliAssumption DEF ProcInv, TypeInv, TypeOK, Run
  <2>2. p[1] \in 1..run /\ loose \subseteq loose' /\ loose' \subseteq 1..run
    BY <2>1, <2>5 DEF ProcInv
  <2>3. UNCHANGED <<phase, run, alive, late>>
    BY <1>5 DEF LeavePipe
  <2>4. ASSUME NEW q \in alive, q[2] = "child", q \notin piped'
        PROVE  q[1] \in loose'
    BY <2>1, <2>2, <2>4 DEF ProcInv
  <2> QED
    BY <2>2, <2>3, <2>4 DEF ProcInv
<1>6. CASE Exit
  <2>1. PICK p \in alive :
          /\ alive' = alive \ {p} /\ piped' = piped \ {p}
          /\ IF p[2] = "cli" THEN CallsBehind(p[1]) ELSE UNCHANGED <<late, touched>>
          /\ loose' = IF late' = late THEN loose ELSE loose \cup {p[1]}
    BY <1>6 DEF Exit
  <2>2. UNCHANGED <<phase, run>>
    BY <1>6 DEF Exit
  <2>0. p[1] \in Run
    BY DEF TypeInv, TypeOK, Process
  <2>3. p[1] \in 1..run
    BY <2>0, CliAssumption DEF ProcInv, TypeInv, TypeOK, Run
  <2>4. late' = late \/ late' = late \cup {p[1]}
    BY <2>1 DEF CallsBehind
  <2>5. loose \subseteq loose' /\ loose' \subseteq 1..run /\ (phase # "dead" => late' \subseteq loose')
    BY <2>1, <2>3, <2>4 DEF ProcInv
  <2> QED
    BY <2>1, <2>2, <2>5 DEF ProcInv
<1>7. CASE StartSession
  BY <1>7 DEF StartSession, Process, ProcInv, TypeInv, TypeOK, Run
<1>8. CASE SpawnCli
  BY <1>8 DEF SpawnCli, Cli, ProcInv, history
<1>9. CASE SpawnFails
  BY <1>9 DEF SpawnFails, Return, Nothing, ProcInv, procVars, history
<1>10. CASE WorkDone
  <2>1. /\ PipeClosed /\ phase = "waiting" /\ phase' = "exiting"
        /\ UNCHANGED <<run, alive, piped, late, loose>>
    BY <1>10 DEF WorkDone, Goto, procVars, history
  <2>2. ASSUME NEW p \in alive, p[1] \notin loose
        PROVE  p[2] = "cli"
    <3>1. p \notin piped
      BY <2>1, <2>2 DEF PipeClosed, ProcInv
    <3>2. p[2] \in {"cli", "child", "session"}
      BY DEF TypeInv, TypeOK, Process
    <3> QED
      BY <2>2, <3>1, <3>2 DEF ProcInv
  <2> QED
    BY <2>1, <2>2 DEF ProcInv
<1>11. CASE Exited
  <2>1. /\ phase = "exiting" /\ phase' = "judging" /\ Cli \notin alive
        /\ UNCHANGED <<run, alive, piped, late, loose>>
    BY <1>11 DEF Exited, Goto, procVars, history
  <2>2. ASSUME NEW p \in alive
        PROVE  p[1] \in loose
    <3>1. p = <<p[1], p[2]>> /\ p # Cli
      BY <2>1 DEF TypeInv, TypeOK, Process
    <3> QED
      BY <2>1, <3>1 DEF ProcInv, Cli
  <2> QED
    BY <2>1, <2>2 DEF ProcInv
<1>12. CASE DrainFails
  BY <1>12 DEF DrainFails, Return, Nothing, ProcInv, TypeInv, TypeOK, Run, procVars
<1>13. CASE KillTree
  <2>1. /\ phase = "waiting" /\ phase' = "grace" /\ run' = run
        /\ alive' = IF Cli \in alive THEN {p \in alive : p[1] # run} ELSE alive
        /\ piped' = piped \cap alive'
        /\ late' = late \/ late' = late \cup {run}
        /\ loose' = IF Cli \in alive /\ late' = late THEN loose ELSE loose \cup {run}
    BY <1>13 DEF KillTree, CallsBehind
  <2>2. run \in 1..run
    BY <2>1 DEF TypeInv, TypeOK, Rest, Run
  <2>3. loose \subseteq loose' /\ loose' \subseteq 1..run /\ late' \subseteq loose'
    BY <2>1, <2>2 DEF ProcInv
  <2>4. ASSUME NEW p \in alive'
        PROVE  p \in alive /\ p[1] \in loose'
    BY <2>1, <2>4 DEF ProcInv
  <2>5. ASSUME NEW p \in alive', p \notin piped'
        PROVE  p \in alive /\ p \notin piped
    BY <2>1, <2>5
  <2> QED
    BY <2>1, <2>3, <2>4, <2>5 DEF ProcInv
<1>14. CASE KillGroup
  BY <1>14 DEF KillGroup, CallsBehind, ProcInv
<1>15. CASE GraceOver
  BY <1>15 DEF GraceOver, Abandons, Goto, ProcInv, procVars, history
<1>16. CASE Judge
  BY <1>16 DEF Judge, Return, Goto, Nothing, ProcInv, procVars, history
<1>17. CASE NoneNew
  BY <1>17 DEF NoneNew, Return, Nothing, ProcInv, procVars, history
<1>18. CASE ListNew
  BY <1>18 DEF ListNew, PickNewest, Goto, ProcInv, procVars, history
<1>19. CASE ReadBundle
  BY <1>19 DEF ReadBundle, Return, Bundle, ProcInv, procVars, history
<1>20. CASE Poll
  BY <1>20 DEF Poll, PickNewest, Goto, ProcInv, procVars, history
<1>21. CASE GiveUp
  BY <1>21 DEF GiveUp, Return, Nothing, ProcInv, procVars, history
<1>22. CASE Decided
  BY <1>22 DEF Decided, Return, Bundle, ProcInv, procVars, history
<1>23. CASE Prepare
  BY <1>23 DEF Prepare, ProcInv, TypeInv, TypeOK, procVars
<1>24. CASE ReadSeen
  BY <1>24 DEF ReadSeen, Goto, ProcInv, procVars, history
<1>25. CASE AdminFails
  BY <1>25 DEF AdminFails, Return, Nothing, ProcInv, procVars, history
<1>26. CASE Probe
  BY <1>26 DEF Probe, Answers, NotAsked, ProcInv, procVars, history
<1>27. CASE Check
  BY <1>27 DEF Check, Answers, NotAsked, ProcInv, procVars, history
<1>28. CASE Record
  BY <1>28 DEF Record, Nothing, NotAsked, ProcInv, procVars, history
<1>29. CASE LookupFails
  BY <1>29 DEF LookupFails, Goto, ProcInv, procVars, history
<1>30. CASE CleanUp
  BY <1>30 DEF CleanUp, ProcInv, procVars, history
<1>31. CASE Bail
  BY <1>31 DEF Bail, ProcInv, procVars, history
<1>32. CASE UNCHANGED vars
  BY <1>32 DEF ProcInv, procVars, history, vars
<1> QED
  BY <1>1, <1>2, <1>3, <1>4, <1>5, <1>6, <1>7, <1>8, <1>9, <1>10, <1>11, <1>12,
     <1>13, <1>14, <1>15, <1>16, <1>17, <1>18, <1>19, <1>20, <1>21, <1>22, <1>23,
     <1>24, <1>25, <1>26, <1>27, <1>28, <1>29, <1>30, <1>31, <1>32
  DEF Next, World, Claude, Manual, RunOne

(* A call keeps the order of the store.                                    *)
LEMMA CallStores == ASSUME TypeInv, StoreInv, UNCHANGED configVars, NEW r, Edit(r) \/ Export(r)
                    PROVE  StoreInv'
<1>1. CASE Edit(r)
  BY <1>1 DEF Edit, StoreInv, configVars, storeVars
<1>2. CASE Export(r)
  <2>1. clock \in Nat /\ saved \in Seq(Nat) /\ Len(saved) = Len(exports) /\ exports \in Seq(Run)
    BY DEF TypeInv, TypeOK
  <2>2. /\ exports' = Append(exports, r) /\ clock' = clock + 1
        /\ saved' = Append(saved, clock + 1)
    BY <1>2, <2>1 DEF Export, Save, Saved
  <2> QED
    BY <1>2, <2>1, <2>2, SMTT(20) DEF Export, StoreInv, TypeInv, TypeOK, configVars
<1> QED
  BY <1>1, <1>2

(* Saving takes the time of a folder forward.                              *)
LEMMA StepStore == TypeInv /\ StoreInv /\ [Next]_vars => StoreInv'
<1> SUFFICES ASSUME TypeInv, StoreInv, [Next]_vars PROVE StoreInv'
  OBVIOUS
<1>1. CASE AgentCalls
  <2>1. UNCHANGED configVars
    BY <1>1 DEF AgentCalls
  <2>2. PICK r : Edit(r) \/ Export(r)
    BY <1>1 DEF AgentCalls
  <2> QED
    BY <2>1, <2>2, CallStores
<1>2. CASE LateCall
  <2>1. UNCHANGED configVars
    BY <1>2 DEF LateCall
  <2>2. PICK r : Edit(r) \/ Export(r)
    BY <1>2 DEF LateCall
  <2> QED
    BY <2>1, <2>2, CallStores
<1>3. CASE Approve
  BY <1>3, SMTT(20) DEF Approve, Save, Saved, StoreInv, TypeInv, TypeOK, configVars
<1>4. CASE SpawnChild
  BY <1>4 DEF SpawnChild, StoreInv, configVars, storeVars
<1>5. CASE LeavePipe
  BY <1>5 DEF LeavePipe, StoreInv, configVars, storeVars
<1>6. CASE Exit
  BY <1>6 DEF Exit, CallsBehind, StoreInv, configVars, storeVars
<1>7. CASE StartSession
  BY <1>7 DEF StartSession, StoreInv, configVars, storeVars
<1>8. CASE SpawnCli
  BY <1>8 DEF SpawnCli, StoreInv, configVars, storeVars
<1>9. CASE SpawnFails
  BY <1>9 DEF SpawnFails, Return, Nothing, StoreInv, configVars, storeVars
<1>10. CASE WorkDone
  BY <1>10 DEF WorkDone, PipeClosed, Goto, StoreInv, configVars, storeVars
<1>11. CASE Exited
  BY <1>11 DEF Exited, Goto, StoreInv, configVars, storeVars
<1>12. CASE DrainFails
  BY <1>12 DEF DrainFails, Return, Nothing, StoreInv, configVars, storeVars
<1>13. CASE KillTree
  BY <1>13 DEF KillTree, PipeClosed, CallsBehind, StoreInv, configVars, storeVars
<1>14. CASE KillGroup
  BY <1>14 DEF KillGroup, CallsBehind, StoreInv, configVars, storeVars
<1>15. CASE GraceOver
  BY <1>15 DEF GraceOver, Abandons, Goto, StoreInv, configVars, storeVars
<1>16. CASE Judge
  <2>1. UNCHANGED <<configVars, storeVars>>
    BY <1>16 DEF Judge, Return, Goto
  <2> QED
    BY <2>1 DEF StoreInv, configVars, storeVars
<1>17. CASE NoneNew
  BY <1>17 DEF NoneNew, Return, Nothing, StoreInv, configVars, storeVars
<1>18. CASE ListNew
  BY <1>18 DEF ListNew, PickNewest, Goto, StoreInv, configVars, storeVars
<1>19. CASE ReadBundle
  BY <1>19 DEF ReadBundle, Return, Bundle, StoreInv, configVars, storeVars
<1>20. CASE Poll
  BY <1>20 DEF Poll, PickNewest, Goto, StoreInv, configVars, storeVars
<1>21. CASE GiveUp
  BY <1>21 DEF GiveUp, Return, Nothing, StoreInv, configVars, storeVars
<1>22. CASE Decided
  BY <1>22 DEF Decided, Return, Bundle, StoreInv, configVars, storeVars
<1>23. CASE Prepare
  BY <1>23 DEF Prepare, StoreInv, configVars, storeVars
<1>24. CASE ReadSeen
  BY <1>24 DEF ReadSeen, Goto, StoreInv, configVars, storeVars
<1>25. CASE AdminFails
  BY <1>25 DEF AdminFails, Return, Nothing, StoreInv, configVars, storeVars
<1>26. CASE Probe
  BY <1>26 DEF Probe, Answers, NotAsked, StoreInv, configVars, storeVars
<1>27. CASE Check
  BY <1>27 DEF Check, Answers, NotAsked, StoreInv, configVars, storeVars
<1>28. CASE Record
  BY <1>28 DEF Record, Nothing, NotAsked, StoreInv, configVars, storeVars
<1>29. CASE LookupFails
  BY <1>29 DEF LookupFails, Goto, StoreInv, configVars, storeVars
<1>30. CASE CleanUp
  BY <1>30 DEF CleanUp, StoreInv, configVars, storeVars
<1>31. CASE Bail
  BY <1>31 DEF Bail, StoreInv, configVars, storeVars
<1>32. CASE UNCHANGED vars
  BY <1>32 DEF StoreInv, configVars, storeVars, vars
<1> QED
  BY <1>1, <1>2, <1>3, <1>4, <1>5, <1>6, <1>7, <1>8, <1>9, <1>10, <1>11, <1>12,
     <1>13, <1>14, <1>15, <1>16, <1>17, <1>18, <1>19, <1>20, <1>21, <1>22, <1>23,
     <1>24, <1>25, <1>26, <1>27, <1>28, <1>29, <1>30, <1>31, <1>32
  DEF Next, World, Claude, Manual, RunOne

(* From the runner's return on, nobody is left to edit the twin.           *)
LEMMA StepLeft == TypeInv /\ ProcInv /\ LeftInv /\ [Next]_vars => LeftInv'
<1> SUFFICES ASSUME TypeInv, ProcInv, LeftInv, [Next]_vars PROVE LeftInv'
  OBVIOUS
<1>1. CASE AgentCalls
  <2>1. PICK p \in alive : Edit(p[1]) \/ Export(p[1])
    BY <1>1 DEF AgentCalls
  <2>2. UNCHANGED <<configVars, phase, run, procVars, runVars, oneVars, loose, left>>
    BY <1>1 DEF AgentCalls
  <2>3. CASE loose # {}
    BY <2>2, <2>3 DEF LeftInv, oneVars
  <2>4. CASE loose = {} /\ phase \notin Rest
    <3>1. p[1] = run /\ phase \notin Judging
      BY <2>4 DEF ProcInv, Judging
    <3>2. twin' = Append(twin, run) \/ twin' = twin
      BY <2>1, <3>1 DEF Edit, Export
    <3>3. ToSet(twin) \subseteq {run} /\ twin \in Seq(Run)
      BY <2>4 DEF LeftInv, TypeInv, TypeOK
    <3>4. ToSet(twin') \subseteq {run}
      BY <3>2, <3>3 DEF ToSet
    <3> QED
      BY <2>2, <3>1, <3>4 DEF LeftInv, Judging, oneVars
  <2>5. CASE phase \in Rest
    BY <2>2, <2>5 DEF LeftInv, oneVars
  <2> QED
    BY <2>3, <2>4, <2>5
<1>2. CASE LateCall
  BY <1>2 DEF LateCall, Edit, LeftInv, Agrees, ProcInv, Rest, oneVars, history
<1>3. CASE Approve
  BY <1>3 DEF Approve, Save, Saved, LeftInv, Agrees, Rest, oneVars, history
<1>4. CASE SpawnChild
  BY <1>4 DEF SpawnChild, LeftInv, oneVars, history
<1>5. CASE LeavePipe
  BY <1>5 DEF LeavePipe, LeftInv, Agrees, Rest, oneVars
<1>6. CASE Exit
  BY <1>6 DEF Exit, CallsBehind, LeftInv, Agrees, Rest, oneVars
<1>7. CASE StartSession
  BY <1>7 DEF StartSession, LeftInv, oneVars
<1>8. CASE SpawnCli
  BY <1>8 DEF SpawnCli, Cli, LeftInv, Judging, Agrees, Rest, oneVars, history
<1>9. CASE SpawnFails
  BY <1>9 DEF SpawnFails, Return, Nothing, LeftInv, Agrees, Rest, history
<1>10. CASE WorkDone
  BY <1>10
  DEF WorkDone, PipeClosed, Goto, LeftInv, Judging, Agrees, Rest, oneVars, history
<1>11. CASE Exited
  BY <1>11 DEF Exited, Cli, Goto, LeftInv, Judging, Agrees, Rest, oneVars, history
<1>12. CASE DrainFails
  BY <1>12 DEF DrainFails, Return, Nothing, LeftInv
<1>13. CASE KillTree
  BY <1>13
  DEF KillTree, PipeClosed, Cli, CallsBehind, LeftInv, Judging, Agrees, Rest, oneVars
<1>14. CASE KillGroup
  BY <1>14 DEF KillGroup, CallsBehind, Rest, LeftInv, Agrees, Rest, oneVars
<1>15. CASE GraceOver
  BY <1>15
  DEF GraceOver, Abandons, Goto, LeftInv, Judging, Agrees, Rest, oneVars, history
<1>16. CASE Judge
  BY <1>16
  DEF Judge, Return, Goto, Nothing, LeftInv, Judging, Agrees, Rest, oneVars, history
<1>17. CASE NoneNew
  BY <1>17 DEF NoneNew, Return, Nothing, LeftInv, Agrees, Rest, history
<1>18. CASE ListNew
  BY <1>18
  DEF ListNew, PickNewest, New, Goto, LeftInv, Judging, Agrees, Rest, oneVars,
      history
<1>19. CASE ReadBundle
  BY <1>19 DEF ReadBundle, Return, Bundle, LeftInv, Agrees, Rest, history
<1>20. CASE Poll
  BY <1>20
  DEF Poll, PickNewest, New, Goto, LeftInv, Judging, Agrees, Rest, oneVars, history
<1>21. CASE GiveUp
  BY <1>21 DEF GiveUp, Return, Nothing, LeftInv, Agrees, Rest, history
<1>22. CASE Decided
  BY <1>22 DEF Decided, Return, Bundle, LeftInv, Agrees, Rest, history
<1>23. CASE Prepare
  <2>1. ToSet(<<>>) \subseteq {run'}
    BY DEF ToSet
  <2> QED
    BY <1>23, <2>1 DEF Prepare, LeftInv, Judging, Rest, oneVars
<1>24. CASE ReadSeen
  BY <1>24 DEF ReadSeen, Goto, LeftInv, Judging, Agrees, Rest, oneVars, history
<1>25. CASE AdminFails
  BY <1>25 DEF AdminFails, Return, Nothing, LeftInv, Agrees, Rest, history
<1>26. CASE Probe
  BY <1>26 DEF Probe, Answers, NotAsked, LeftInv, Judging, Agrees, Rest, history
<1>27. CASE Check
  BY <1>27 DEF Check, Answers, NotAsked, LeftInv, Judging, Agrees, Rest, history
<1>28. CASE Record
  BY <1>28 DEF Record, Nothing, NotAsked, LeftInv, Judging, Agrees, Rest, history
<1>29. CASE LookupFails
  BY <1>29 DEF LookupFails, Goto, Rest, LeftInv, Agrees, Rest, oneVars
<1>30. CASE CleanUp
  BY <1>30 DEF CleanUp, Rest, LeftInv, Agrees, Rest
<1>31. CASE Bail
  BY <1>31 DEF Bail, Rest, LeftInv, Agrees, Rest, oneVars
<1>32. CASE UNCHANGED vars
  BY <1>32 DEF LeftInv, Agrees, Rest, oneVars, history, vars
<1> QED
  BY <1>1, <1>2, <1>3, <1>4, <1>5, <1>6, <1>7, <1>8, <1>9, <1>10, <1>11, <1>12,
     <1>13, <1>14, <1>15, <1>16, <1>17, <1>18, <1>19, <1>20, <1>21, <1>22, <1>23,
     <1>24, <1>25, <1>26, <1>27, <1>28, <1>29, <1>30, <1>31, <1>32
  DEF Next, World, Claude, Manual, RunOne

(* The newest of the new bundles is the last one of its agent, unless an   *)
(* approval made it the newest.                                            *)
LEMMA NewestIsOwn == ASSUME TypeInv, StoreInv, PickInv, phase \in Looking,
                            NEW i \in New, \A j \in New : saved[j] <= saved[i]
                     PROVE  Own(i)
<1>1. i \in DOMAIN exports /\ DOMAIN exports = DOMAIN saved /\ DOMAIN exports = 1..Len(exports)
  BY DEF New, TypeInv, TypeOK
<1>2. ASSUME NEW later \in DOMAIN exports, later > i
      PROVE  ~ bench /\ i \in approved
  <2>1. later \in New
    BY <1>1, <1>2 DEF PickInv, New
  <2>2. saved[later] <= saved[i] /\ saved[later] \in Nat /\ saved[i] \in Nat
    BY <1>1, <2>1 DEF TypeInv, TypeOK
  <2> QED
    BY <1>1, <1>2, <2>2 DEF StoreInv
<1> QED
  BY <1>1, <1>2 DEF PickInv, Own

(* A call of an agent that was let go on, or of one that is still watched, *)
(* does no harm.                                                           *)
LEMMA CallPicks ==
    ASSUME TypeInv, PickInv, UNCHANGED <<configVars, phase, run, runVars, oneVars, loose>>,
           NEW r, Edit(r) \/ Export(r),
           r \in loose \/ (r = run /\ phase \in {"waiting", "exiting"})
    PROVE  PickInv'
<1>1. CASE Edit(r)
  BY <1>1 DEF Edit, PickInv, Own, New, storeVars, configVars, runVars, oneVars
<1>2. CASE Export(r)
  <2>1. /\ exports' = Append(exports, r) /\ approved \subseteq approved'
        /\ exports \in Seq(Run) /\ seen \subseteq DOMAIN exports
    BY <1>2 DEF Export, TypeInv, TypeOK
  <2>2. /\ UNCHANGED <<bench, phase, run, seen, pick, output, record, loose>>
    BY DEF configVars, runVars, oneVars
  <2>3. ASSUME NEW e \in DOMAIN exports, Own(e), phase \notin {"waiting", "exiting"}
        PROVE  e \in DOMAIN exports' /\ Own(e)'
    BY <2>1, <2>2, <2>3 DEF Own
  <2>4. ASSUME phase \in Looking
        PROVE  /\ \A i \in New' : exports'[i] = run \/ exports'[i] \in loose
               /\ \A i \in seen, j \in DOMAIN exports' : j < i => j \in seen
    BY <2>1, <2>2, <2>4 DEF PickInv, New
  <2> QED
    BY <2>2, <2>3, <2>4 DEF PickInv, Judging
<1> QED
  BY <1>1, <1>2

(* What is picked stays the run's own until it is recorded.                *)
LEMMA StepPick == TypeInv /\ ProcInv /\ StoreInv /\ PickInv /\ [Next]_vars => PickInv'
<1> SUFFICES ASSUME TypeInv, ProcInv, StoreInv, PickInv, [Next]_vars PROVE PickInv'
  OBVIOUS
<1>1. CASE AgentCalls
  <2>1. PICK p \in alive : Edit(p[1]) \/ Export(p[1])
    BY <1>1 DEF AgentCalls
  <2>2. UNCHANGED <<configVars, phase, run, runVars, oneVars, loose>>
    BY <1>1 DEF AgentCalls
  <2>3. p[1] \in loose \/ (p[1] = run /\ phase \in {"waiting", "exiting"})
    BY DEF ProcInv
  <2> QED
    BY <2>1, <2>2, <2>3, CallPicks
<1>2. CASE LateCall
  <2>1. PICK r \in late : Edit(r) \/ Export(r)
    BY <1>2 DEF LateCall
  <2>2. UNCHANGED <<configVars, phase, run, runVars, oneVars, loose>>
    BY <1>2 DEF LateCall, history
  <2>3. phase = "dead" \/ r \in loose
    BY DEF ProcInv
  <2>4. CASE phase = "dead"
    BY <2>2, <2>4 DEF PickInv, Looking, Judging
  <2> QED
    BY <2>1, <2>2, <2>3, <2>4, CallPicks
<1>3. CASE Approve
  BY <1>3
  DEF Approve, Save, Saved, PickInv, Looking, Own, New, configVars, runVars, oneVars,
      history
<1>4. CASE SpawnChild
  BY <1>4
  DEF SpawnChild, PickInv, Looking, Own, New, configVars, storeVars, runVars,
      oneVars, history
<1>5. CASE LeavePipe
  BY <1>5
  DEF LeavePipe, PickInv, Looking, Own, New, configVars, storeVars, runVars, oneVars
<1>6. CASE Exit
  BY <1>6
  DEF Exit, CallsBehind, PickInv, Looking, Own, New, configVars, storeVars, runVars,
      oneVars
<1>7. CASE StartSession
  BY <1>7 DEF StartSession, PickInv, Looking, Own, New, storeVars, runVars, oneVars
<1>8. CASE SpawnCli
  BY <1>8
  DEF SpawnCli, Cli, PickInv, Looking, Judging, Own, New, storeVars, runVars,
      oneVars, history
<1>9. CASE SpawnFails
  BY <1>9 DEF SpawnFails, Return, Nothing, PickInv, Looking, Own, New
<1>10. CASE WorkDone
  BY <1>10
  DEF WorkDone, PipeClosed, Goto, PickInv, Looking, Judging, Own, New, storeVars,
      runVars, oneVars, history
<1>11. CASE Exited
  BY <1>11
  DEF Exited, Cli, Goto, PickInv, Looking, Judging, Own, New, storeVars, oneVars,
      history
<1>12. CASE DrainFails
  BY <1>12 DEF DrainFails, Return, Nothing, PickInv, Looking, Own, New
<1>13. CASE KillTree
  BY <1>13
  DEF KillTree, PipeClosed, Cli, CallsBehind, PickInv, Looking, Judging, Own, New,
      storeVars, runVars, oneVars
<1>14. CASE KillGroup
  BY <1>14 DEF KillGroup, CallsBehind, Rest, PickInv, Looking, Judging, Own, New
<1>15. CASE GraceOver
  BY <1>15
  DEF GraceOver, Abandons, Goto, PickInv, Looking, Judging, Own, New, storeVars,
      oneVars, history
<1>16. CASE Judge
  <2>1. UNCHANGED <<configVars, run, procVars, storeVars, history>>
    BY <1>16 DEF Judge, Return, Goto
  <2>2. CASE Return(Nothing, "timeout")
    BY <2>1, <2>2 DEF Return, Nothing, PickInv, Looking, Judging
  <2>3. CASE Goto("bailing")
    BY <2>1, <2>3 DEF Goto, PickInv, Looking, Judging
  <2>4. CASE Goto("listing") /\ seen' = seen
    BY <1>16, <2>1, <2>4
    DEF Judge, Goto, PickInv, Looking, Judging, New, configVars, storeVars, history
  <2> QED
    BY <1>16, <2>2, <2>3, <2>4 DEF Judge
<1>17. CASE NoneNew
  BY <1>17 DEF NoneNew, Return, Nothing, PickInv, Looking, Own, New
<1>18. CASE ListNew
  <2>1. PICK i \in New : (\A j \in New : saved[j] <= saved[i]) /\ pick' = i
    BY <1>18 DEF ListNew, PickNewest
  <2>2. /\ phase \in Looking /\ phase' = "reading"
        /\ UNCHANGED <<run, bench, exports, approved, loose, seen>>
    BY <1>18 DEF ListNew, PickNewest, Goto, Looking, configVars, storeVars, history
  <2>3. Own(i)
    BY <2>1, <2>2, NewestIsOwn
  <2> QED
    BY <2>1, <2>2, <2>3 DEF PickInv, Looking, Judging, Own, New
<1>19. CASE ReadBundle
  BY <1>19
  DEF ReadBundle, Return, Bundle, PickInv, Looking, Own, New, configVars, storeVars,
      history
<1>20. CASE Poll
  <2>1. PICK i \in New : (\A j \in New : saved[j] <= saved[i]) /\ pick' = i
    BY <1>20 DEF Poll, PickNewest
  <2>2. /\ phase \in Looking /\ phase' = "deciding"
        /\ UNCHANGED <<run, bench, exports, approved, loose, seen>>
    BY <1>20 DEF Poll, PickNewest, Goto, Looking, configVars, storeVars, history
  <2>3. Own(i)
    BY <2>1, <2>2, NewestIsOwn
  <2> QED
    BY <2>1, <2>2, <2>3 DEF PickInv, Looking, Judging, Own, New
<1>21. CASE GiveUp
  BY <1>21 DEF GiveUp, Return, Nothing, PickInv, Looking, Own, New
<1>22. CASE Decided
  BY <1>22
  DEF Decided, Return, Bundle, PickInv, Looking, Own, New, configVars, storeVars,
      history
<1>23. CASE Prepare
  BY <1>23 DEF Prepare, PickInv, Looking, Judging, Own, New
<1>24. CASE ReadSeen
  BY <1>24 DEF ReadSeen, Goto, PickInv, Looking, Judging, Own, New, storeVars, oneVars
<1>25. CASE AdminFails
  BY <1>25 DEF AdminFails, Return, Nothing, PickInv, Looking, Own, New
<1>26. CASE Probe
  BY <1>26
  DEF Probe, Answers, NotAsked, PickInv, Looking, Judging, Own, New, configVars,
      storeVars, history
<1>27. CASE Check
  BY <1>27
  DEF Check, Answers, NotAsked, PickInv, Looking, Judging, Own, New, configVars,
      storeVars, history
<1>28. CASE Record
  BY <1>28
  DEF Record, Nothing, NotAsked, PickInv, Looking, Judging, Own, New, configVars,
      storeVars, history
<1>29. CASE LookupFails
  BY <1>29 DEF LookupFails, Goto, Rest, PickInv, Looking, Judging, Own, New
<1>30. CASE CleanUp
  BY <1>30 DEF CleanUp, Rest, PickInv, Looking, Judging, Own, New
<1>31. CASE Bail
  BY <1>31 DEF Bail, Rest, PickInv, Looking, Judging, Own, New
<1>32. CASE UNCHANGED vars
  BY <1>32
  DEF PickInv, Looking, Own, New, configVars, storeVars, runVars, oneVars, history,
      vars
<1> QED
  BY <1>1, <1>2, <1>3, <1>4, <1>5, <1>6, <1>7, <1>8, <1>9, <1>10, <1>11, <1>12,
     <1>13, <1>14, <1>15, <1>16, <1>17, <1>18, <1>19, <1>20, <1>21, <1>22, <1>23,
     <1>24, <1>25, <1>26, <1>27, <1>28, <1>29, <1>30, <1>31, <1>32
  DEF Next, World, Claude, Manual, RunOne

(* What failed stays with the run until it is recorded.                    *)
LEMMA StepFail == TypeInv /\ ProcInv /\ FailInv /\ [Next]_vars => FailInv'
<1> SUFFICES ASSUME TypeInv, ProcInv, FailInv, [Next]_vars PROVE FailInv'
  OBVIOUS
<1>1. CASE AgentCalls
  BY <1>1 DEF AgentCalls, Edit, FailInv, ProcInv, runVars, oneVars
<1>2. CASE LateCall
  BY <1>2 DEF LateCall, Edit, FailInv, runVars, oneVars, history
<1>3. CASE Approve
  BY <1>3 DEF Approve, Save, Saved, FailInv, runVars, oneVars, history
<1>4. CASE SpawnChild
  BY <1>4 DEF SpawnChild, FailInv, oneVars
<1>5. CASE LeavePipe
  BY <1>5 DEF LeavePipe, FailInv, runVars, oneVars
<1>6. CASE Exit
  BY <1>6 DEF Exit, CallsBehind, FailInv, ProcInv, runVars, oneVars
<1>7. CASE StartSession
  BY <1>7 DEF StartSession, FailInv, oneVars
<1>8. CASE SpawnCli
  BY <1>8 DEF SpawnCli, Cli, FailInv, Judging
<1>9. CASE SpawnFails
  BY <1>9 DEF SpawnFails, Return, Nothing, FailInv
<1>10. CASE WorkDone
  BY <1>10 DEF WorkDone, PipeClosed, Goto, FailInv, Judging
<1>11. CASE Exited
  BY <1>11 DEF Exited, Cli, Goto, FailInv, Judging
<1>12. CASE DrainFails
  BY <1>12 DEF DrainFails, Return, Nothing, FailInv
<1>13. CASE KillTree
  BY <1>13 DEF KillTree, PipeClosed, Cli, CallsBehind, FailInv, Judging
<1>14. CASE KillGroup
  BY <1>14 DEF KillGroup, CallsBehind, FailInv, Judging
<1>15. CASE GraceOver
  BY <1>15 DEF GraceOver, Abandons, Goto, FailInv, Judging
<1>16. CASE Judge
  <2>1. PICK v \in Verdicts :
          /\ rc = 0 /\ touched => v.used
          /\ \/ v.unavailable /\ Goto("bailing") /\ UNCHANGED runVars
             \/ Return(Nothing, "timeout")
             \/ Goto("listing")
    BY <1>16 DEF Judge
  <2>2. v.unavailable => ~ v.used
    <3>1. PICK s \in {ParseStream(lines) : lines \in Streams}, saysSo \in BOOLEAN :
            v = [used |-> s.used, unavailable |-> Unavailable(s, saysSo),
                 report |-> s.final = "report"]
      BY SMT DEF Verdicts
    <3> QED
      BY <3>1 DEF Unavailable
  <2>3. UNCHANGED <<procVars, history>>
    BY <1>16 DEF Judge
  <2>4. CASE v.unavailable /\ Goto("bailing") /\ UNCHANGED runVars
    BY <2>1, <2>2, <2>3, <2>4
    DEF Goto, FailInv, Judging, TypeInv, TypeOK, runVars, history
  <2>5. CASE Return(Nothing, "timeout")
    BY <2>5 DEF Return, Nothing, FailInv, Judging
  <2>6. CASE Goto("listing")
    BY <2>6 DEF Goto, FailInv, Judging
  <2> QED
    BY <2>1, <2>4, <2>5, <2>6
<1>17. CASE NoneNew
  BY <1>17 DEF NoneNew, Return, Nothing, FailInv
<1>18. CASE ListNew
  BY <1>18 DEF ListNew, PickNewest, Goto, FailInv, Judging
<1>19. CASE ReadBundle
  BY <1>19 DEF ReadBundle, Return, Bundle, FailInv
<1>20. CASE Poll
  BY <1>20 DEF Poll, PickNewest, Goto, FailInv, Judging
<1>21. CASE GiveUp
  BY <1>21 DEF GiveUp, Return, Nothing, FailInv
<1>22. CASE Decided
  BY <1>22 DEF Decided, Return, Bundle, FailInv
<1>23. CASE Prepare
  BY <1>23 DEF Prepare, FailInv, Judging
<1>24. CASE ReadSeen
  BY <1>24 DEF ReadSeen, Goto, FailInv, Judging
<1>25. CASE AdminFails
  BY <1>25 DEF AdminFails, Return, Nothing, FailInv
<1>26. CASE Probe
  BY <1>26 DEF Probe, Answers, NotAsked, FailInv, Judging
<1>27. CASE Check
  <2>1. /\ phase = "checking" /\ phase' = "recording"
        /\ error' = IF "none" \in {probed.answer, checked'.answer} /\ error = NIL
                    THEN "unchecked" ELSE error
        /\ UNCHANGED <<output, probed, record>>
    BY <1>27 DEF Check
  <2>2. error' = NIL => "none" \notin {probed.answer, checked'.answer}
    BY <2>1, CliAssumption
  <2>3. output.from # NIL => error' \in {NIL, "unchecked"}
    BY <2>1 DEF FailInv, Judging
  <2> QED
    BY <2>1, <2>2, <2>3 DEF FailInv, Judging
<1>28. CASE Record
  BY <1>28 DEF Record, Nothing, NotAsked, FailInv, Judging
<1>29. CASE LookupFails
  BY <1>29 DEF LookupFails, Goto, FailInv, Judging
<1>30. CASE CleanUp
  BY <1>30 DEF CleanUp, FailInv, Judging
<1>31. CASE Bail
  BY <1>31 DEF Bail, FailInv, Judging
<1>32. CASE UNCHANGED vars
  BY <1>32 DEF FailInv, runVars, oneVars, history, vars
<1> QED
  BY <1>1, <1>2, <1>3, <1>4, <1>5, <1>6, <1>7, <1>8, <1>9, <1>10, <1>11, <1>12,
     <1>13, <1>14, <1>15, <1>16, <1>17, <1>18, <1>19, <1>20, <1>21, <1>22, <1>23,
     <1>24, <1>25, <1>26, <1>27, <1>28, <1>29, <1>30, <1>31, <1>32
  DEF Next, World, Claude, Manual, RunOne

(* They hold before the first run.                                         *)
LEMMA InitInvs == Init => ProcInv /\ LeftInv /\ StoreInv /\ PickInv /\ FailInv
<1> SUFFICES ASSUME Init PROVE ProcInv /\ LeftInv /\ StoreInv /\ PickInv /\ FailInv
  OBVIOUS
<1>1. ProcInv
  BY DEF Init, ProcInv
<1>2. LeftInv
  BY DEF Init, LeftInv, Rest
<1>3. StoreInv
  BY DEF Init, StoreInv
<1>4. PickInv
  BY DEF Init, PickInv, Looking, Judging
<1>5. FailInv
  BY DEF Init, FailInv
<1> QED
  BY <1>1, <1>2, <1>3, <1>4, <1>5

(* The whole inductive invariant.                                          *)
CliInv == TypeInv /\ ProcInv /\ LeftInv /\ StoreInv /\ PickInv /\ FailInv

(* Each step lemma rests on the parts before it.                           *)
LEMMA CliInvHolds == Spec => []CliInv
<1>1. Init => CliInv
  BY InitTypes, InitInvs DEF CliInv
<1>2. CliInv /\ [Next]_vars => CliInv'
  BY StepTypes, StepProc, StepLeft, StepStore, StepPick, StepFail DEF CliInv
<1> QED
  BY <1>1, <1>2, PTL DEF Spec

(* Whatever the agents, the operator and the CLI do and however their      *)
(* steps interleave with those of run_one, every variable keeps its type.  *)
THEOREM TypeCorrect == Spec => []TypeOK
<1>1. CliInv => TypeOK
  BY DEF CliInv, TypeInv
<1> QED
  BY <1>1, CliInvHolds, PTL

(* However many runs, bundles and approvals there are, and in whatever     *)
(* order: the bundle that _newest takes is the run's own, or that of an    *)
(* agent of which something was let go on, and no later one of the run     *)
(* was passed over for it unless the operator approved it.                 *)
THEOREM ScoredByItsOwn == Spec => []OwnExport
<1>1. CliInv => OwnExport
  <2> SUFFICES ASSUME CliInv, record # NIL, record.output.export # NIL
               PROVE  Own(record.output.export)
    BY DEF OwnExport, Own
  <2>1. phase = "cleaning"
    BY DEF CliInv, LeftInv
  <2> QED
    BY <2>1 DEF CliInv, PickInv
<1> QED
  BY <1>1, CliInvHolds, PTL

(* For any number of runs and edits: while nothing of the batch was let go *)
(* on, the twin that run_one has checked is the one that the run's agent   *)
(* left, and holds that agent's edits only.                                *)
THEOREM JudgedAsItWasLeft == Spec => []JudgedAsLeft
<1>1. CliInv => JudgedAsLeft
  <2> SUFFICES ASSUME CliInv, record # NIL, loose = {}
               PROVE  /\ \A a \in {record.probed, record.checked} :
                           a.answer = "given" => a.twin = left
                      /\ ToSet(left) \subseteq {run}
    BY DEF JudgedAsLeft
  <2>1. phase = "cleaning" /\ phase \in Judging /\ phase \notin Rest
    BY DEF CliInv, LeftInv, Judging, Rest
  <2>2. left = twin /\ ToSet(twin) \subseteq {run}
    BY <2>1 DEF CliInv, LeftInv
  <2>3. Agrees(record.probed) /\ Agrees(record.checked)
    BY <2>1 DEF CliInv, LeftInv
  <2> QED
    BY <2>2, <2>3 DEF Agrees
<1> QED
  BY <1>1, CliInvHolds, PTL

(* For any stream and any order of failures: a run that ran out of time,   *)
(* crashed, or was not judged is recorded as that and not as a wrong       *)
(* answer, and the matrix stops only for an agent that could not start.    *)
THEOREM FailuresDoDiffer == Spec => []FailuresAreToldApart
<1>1. CliInv => FailuresAreToldApart
  <2> SUFFICES ASSUME CliInv PROVE FailuresAreToldApart
    OBVIOUS
  <2>1. record # NIL => phase = "cleaning"
    BY DEF CliInv, LeftInv
  <2> QED
    BY <2>1 DEF CliInv, FailInv, FailuresAreToldApart
<1> QED
  BY <1>1, CliInvHolds, PTL

----------------------------------------------------------------------------
(* Induction: a set of numbers has a least one, so of the lines at which   *)
(* something is wrong there is a first.                                    *)
Below == OpToRel(<, Nat)
LEMMA LeastNumber ==
  ASSUME NEW T, T \subseteq Nat, T # {}
  PROVE  \E m \in T : \A k \in T : m <= k
<1>1. IsWellFoundedOn(Below, Nat)
  BY NatLessThanWellFounded DEF Below
<1>2. PICK m \in T : \A k \in T : <<k, m>> \notin Below
  BY <1>1, WFMin
<1>3. Below = {ss \in Nat \X Nat : ss[1] < ss[2]}
  BY DEF Below, OpToRel
<1>4. ASSUME NEW k \in T PROVE m <= k
  <2>1. k \in Nat /\ m \in Nat
    OBVIOUS
  <2>2. <<k, m>> \in Nat \X Nat /\ <<k, m>>[1] = k /\ <<k, m>>[2] = m
    BY <2>1
  <2>3. <<k, m>> \notin Below
    BY <1>2
  <2>4. ~(k < m)
    BY <1>3, <2>2, <2>3
  <2> QED
    BY <2>1, <2>4
<1> QED
  BY <1>4

(* parse_stream goes through the lines once: f holds a summary after each  *)
(* of the first n.  As Summaries is defined by recursion, that there is    *)
(* such an f for every n has to be shown.                                  *)
Follows(f, lines, n) ==
  f = [i \in 0..n |-> IF i = 0 THEN Unread ELSE ReadLine(f[i - 1], lines[i])]

LEMMA SummariesExist ==
  ASSUME NEW lines \in Seq(Event), NEW n \in 0..Len(lines)
  PROVE  \E f : Follows(f, lines, n)
<1> DEFINE Bad == {m \in Nat : ~ \E f : Follows(f, lines, m)}
<1>1. SUFFICES ASSUME Bad # {} PROVE FALSE
  <2>1. Bad = {} /\ n \in Nat
    BY <1>1
  <2> QED
    BY <2>1
<1>2. PICK m \in Bad : \A k \in Bad : m <= k
  BY <1>1, LeastNumber
<1>3. m # 0
  <2>1. Follows([i \in 0..0 |-> Unread], lines, 0)
    BY DEF Follows
  <2> QED
    BY <2>1
<1>4. m \in Nat /\ m - 1 \in Nat /\ m - 1 \notin Bad
  BY <1>2, <1>3
<1>5. PICK g : Follows(g, lines, m - 1)
  BY <1>4
<1>6. DEFINE h == [i \in 0..m |-> IF i = m THEN ReadLine(g[m - 1], lines[m]) ELSE g[i]]
<1>7. \A i \in 0..(m - 1) : g[i] = IF i = 0 THEN Unread ELSE ReadLine(g[i - 1], lines[i])
  BY <1>5 DEF Follows
<1>8. ASSUME NEW i \in 0..m
      PROVE  h[i] = IF i = 0 THEN Unread ELSE ReadLine(h[i - 1], lines[i])
  <2>1. CASE i = m
    BY <2>1, <1>3, <1>4
  <2>2. CASE i # m
    <3>1. i \in 0..(m - 1)
      BY <2>2, <1>4
    <3>2. h[i] = g[i]
      BY <2>2
    <3>3. i # 0 => i - 1 \in 0..m /\ i - 1 # m
      BY <3>1, <1>4
    <3>4. i # 0 => h[i - 1] = g[i - 1]
      BY <3>3
    <3> HIDE DEF h
    <3> QED
      BY <3>1, <3>2, <3>4, <1>7
  <2> QED
    BY <2>1, <2>2
<1>9. h = [i \in 0..m |-> h[i]]
  OBVIOUS
<1>10. Follows(h, lines, m)
  <2> HIDE DEF h
  <2> QED
    BY <1>8, <1>9 DEF Follows
<1> QED
  BY <1>10, <1>2

(* Each line changes the summary by ReadLine.                              *)
LEMMA SummariesFollow ==
  ASSUME NEW lines \in Seq(Event)
  PROVE  /\ Summaries(lines)[0] = Unread
         /\ \A n \in 1..Len(lines) :
              Summaries(lines)[n] = ReadLine(Summaries(lines)[n - 1], lines[n])
<1>1. Len(lines) \in 0..Len(lines)
  OBVIOUS
<1>2. \E f : Follows(f, lines, Len(lines))
  BY <1>1, SummariesExist
<1>3. Summaries(lines) = CHOOSE f : Follows(f, lines, Len(lines))
  BY DEF Summaries, Follows
<1>4. Follows(Summaries(lines), lines, Len(lines))
  BY <1>2, <1>3
<1> HIDE DEF Summaries
<1> QED
  BY <1>4 DEF Follows

(* What one line does to a summary, field by field.                        *)
Texts == {"prose", "report"}
Errors == {"apiError", "mainError"}
Results == MainResult \cup SubResult
Summary == [line : Nat, used : BOOLEAN, isError : BOOLEAN, final : {NIL} \cup Texts,
            mainText : BOOLEAN, usage : Nat, results : Nat]

LEMMA ReadLineType ==
  ASSUME NEW s \in Summary, NEW event \in Event
  PROVE  ReadLine(s, event) \in Summary
<1> DEFINE t == [s EXCEPT !.line = @ + 1]
<1>1. t \in Summary
  BY DEF Summary
<1>2. CASE event = "noise"
  BY <1>1, <1>2 DEF ReadLine
<1>3. CASE event \in {"use", "apiError", "prose", "report"}
  BY <1>1, <1>3 DEF ReadLine, Summary, Texts
<1>4. CASE event \in Results
  <2>1. TakeResult(t, event) \in Summary
    BY <1>1 DEF TakeResult, Summary, Texts
  <2>2. PICK u \in Summary : ReadLine(s, event) = [u EXCEPT !.results = @ + 1]
    BY <1>1, <1>4, <2>1 DEF ReadLine, Results, MainResult, SubResult
  <2> QED
    BY <2>2 DEF Summary
<1> QED
  BY <1>2, <1>3, <1>4 DEF Event, Results

LEMMA ReadLineCounts ==
  ASSUME NEW s \in Summary, NEW event \in Event
  PROVE  /\ ReadLine(s, event).line = s.line + 1
         /\ ReadLine(s, event).results = IF event \in Results THEN s.results + 1 ELSE s.results
  BY DEF ReadLine, Summary, Event, Texts, MainResult, SubResult, TakeResult, Results

LEMMA ReadLineTexts ==
  ASSUME NEW s \in Summary, NEW event \in Event
  PROVE  /\ ReadLine(s, event).mainText <=> s.mainText \/ event \in Texts
         /\ event \in Texts => ReadLine(s, event).final = event
         /\ event \notin Texts /\ s.mainText => ReadLine(s, event).final = s.final
  BY DEF ReadLine, Summary, Event, Texts, MainResult, SubResult, TakeResult

LEMMA ReadLineUsage ==
  ASSUME NEW s \in Summary, NEW event \in Event
  PROVE  /\ event \in MainResult => ReadLine(s, event).usage = s.line + 1
         /\ event \notin Results => ReadLine(s, event).usage = s.usage
         /\ event \in SubResult /\ s.results # 0 => ReadLine(s, event).usage = s.usage
  BY DEF ReadLine, Summary, Event, Texts, MainResult, SubResult, TakeResult, Results, Keeps

LEMMA ReadLineErrors ==
  ASSUME NEW s \in Summary, NEW event \in Event
  PROVE  /\ event \in Errors => ReadLine(s, event).isError
         /\ event \notin Errors \cup SubResult => (ReadLine(s, event).isError <=> s.isError)
         /\ event \in SubResult /\ s.results # 0 => (ReadLine(s, event).isError <=> s.isError)
  BY DEF ReadLine, Summary, Event, Texts, MainResult, SubResult, TakeResult, Errors, Keeps
(* What the summary says after the first n lines.                          *)
AsRead(lines, n, s) ==
  /\ s \in Summary /\ s.line = n
  /\ s.results = 0 <=> \A i \in 1..n : lines[i] \notin Results
  /\ s.mainText <=> \E i \in 1..n : lines[i] \in Texts
  /\ \A i \in 1..n : lines[i] \in MainResult =>
       s.usage \in i..n /\ lines[s.usage] \in MainResult
  /\ \A i \in 1..n : lines[i] \in Texts =>
       s.final = lines[i] \/ \E j \in (i + 1)..n : lines[j] \in Texts
  /\ (\A i \in 1..n : lines[i] \in SubResult => \E j \in 1..(i - 1) : lines[j] \in MainResult)
       => (s.isError <=> \E i \in 1..n : lines[i] \in Errors)

LEMMA UnreadAsRead ==
  ASSUME NEW lines
  PROVE  AsRead(lines, 0, Unread)
  BY DEF AsRead, Unread, Summary

(* One more line keeps it so, whatever it is: a result of a subagent that  *)
(* comes when there is a result already changes nothing.                   *)
LEMMA OneMoreLine ==
  ASSUME NEW lines \in Seq(Event), NEW n \in 1..Len(lines), NEW s, AsRead(lines, n - 1, s)
  PROVE  AsRead(lines, n, ReadLine(s, lines[n]))
<1> DEFINE event == lines[n]
           t == ReadLine(s, event)
<1>1. event \in Event /\ s \in Summary /\ s.line = n - 1 /\ n \in Nat
  BY DEF AsRead
<1>2. t \in Summary /\ t.line = n
  BY <1>1, ReadLineType, ReadLineCounts
<1>3. 1..n = 1..(n - 1) \cup {n} /\ n \notin 1..(n - 1)
  BY <1>1
<1>4. t.results = 0 <=> \A i \in 1..n : lines[i] \notin Results
  <2>1. s.results \in Nat
    BY <1>1 DEF Summary
  <2>2. t.results = IF event \in Results THEN s.results + 1 ELSE s.results
    BY <1>1, ReadLineCounts
  <2>3. s.results = 0 <=> \A i \in 1..(n - 1) : lines[i] \notin Results
    BY DEF AsRead
  <2> HIDE DEF t
  <2> QED
    BY <1>3, <2>1, <2>2, <2>3
<1>5. t.mainText <=> \E i \in 1..n : lines[i] \in Texts
  <2>1. t.mainText <=> s.mainText \/ event \in Texts
    BY <1>1, ReadLineTexts
  <2>2. s.mainText <=> \E i \in 1..(n - 1) : lines[i] \in Texts
    BY DEF AsRead
  <2> HIDE DEF t
  <2> QED
    BY <1>3, <2>1, <2>2
<1>6. ASSUME NEW i \in 1..n, lines[i] \in MainResult
      PROVE  t.usage \in i..n /\ lines[t.usage] \in MainResult
  <2>1. CASE event \in MainResult
    <3>1. t.usage = n
      BY <1>1, <2>1, ReadLineUsage
    <3> HIDE DEF t
    <3> QED
      BY <1>1, <2>1, <3>1
  <2>2. CASE event \notin MainResult
    <3>1. i \in 1..(n - 1)
      BY <1>3, <1>6, <2>2
    <3>2. s.usage \in i..(n - 1) /\ lines[s.usage] \in MainResult
      BY <1>6, <3>1 DEF AsRead
    <3>3. s.results # 0
      BY <1>6, <3>1 DEF AsRead, Results
    <3>4. t.usage = s.usage
      BY <1>1, <2>2, <3>3, ReadLineUsage DEF Results
    <3> HIDE DEF t
    <3> QED
      BY <1>1, <3>1, <3>2, <3>4
  <2> QED
    BY <2>1, <2>2
<1>7. ASSUME NEW i \in 1..n, lines[i] \in Texts
      PROVE  t.final = lines[i] \/ \E j \in (i + 1)..n : lines[j] \in Texts
  <2>1. CASE event \in Texts
    <3>1. t.final = event
      BY <1>1, <2>1, ReadLineTexts
    <3> HIDE DEF t
    <3> QED
      BY <1>1, <2>1, <3>1
  <2>2. CASE event \notin Texts
    <3>1. i \in 1..(n - 1)
      BY <1>3, <1>7, <2>2
    <3>2. s.final = lines[i] \/ \E j \in (i + 1)..(n - 1) : lines[j] \in Texts
      BY <1>7, <3>1 DEF AsRead
    <3>3. s.mainText
      BY <1>7, <3>1 DEF AsRead
    <3>4. t.final = s.final
      BY <1>1, <2>2, <3>3, ReadLineTexts
    <3> HIDE DEF t
    <3> QED
      BY <1>1, <3>1, <3>2, <3>4
  <2> QED
    BY <2>1, <2>2
<1>8. ASSUME \A i \in 1..n : lines[i] \in SubResult =>
                              \E j \in 1..(i - 1) : lines[j] \in MainResult
      PROVE  t.isError <=> \E i \in 1..n : lines[i] \in Errors
  <2>1. s.isError <=> \E i \in 1..(n - 1) : lines[i] \in Errors
    BY <1>3, <1>8 DEF AsRead
  <2>2. CASE event \in Errors
    BY <1>1, <1>3, <2>2, ReadLineErrors
  <2>3. CASE event \notin Errors
    <3>1. event \in SubResult => s.results # 0
      BY <1>1, <1>8 DEF AsRead, Results
    <3>2. t.isError <=> s.isError
      BY <1>1, <2>3, <3>1, ReadLineErrors
    <3> HIDE DEF t
    <3> QED
      BY <1>3, <2>1, <2>3, <3>2
  <2> QED
    BY <2>2, <2>3
<1> HIDE DEF t
<1>9. AsRead(lines, n, t)
  BY <1>2, <1>4, <1>5, <1>6, <1>7, <1>8 DEF AsRead
<1> QED
  BY <1>9 DEF t

(* The first line after which it does not hold would follow one where it   *)
(* does.                                                                   *)
LEMMA SummariesAsRead ==
  ASSUME NEW lines \in Seq(Event), NEW n \in 0..Len(lines)
  PROVE  AsRead(lines, n, Summaries(lines)[n])
<1> DEFINE Bad == {m \in 0..Len(lines) : ~ AsRead(lines, m, Summaries(lines)[m])}
<1>1. SUFFICES ASSUME Bad # {} PROVE FALSE
  OBVIOUS
<1>2. Bad \subseteq Nat
  OBVIOUS
<1>3. PICK m \in Bad : \A k \in Bad : m <= k
  BY <1>1, <1>2, LeastNumber
<1>4. m # 0
  BY <1>3, UnreadAsRead, SummariesFollow
<1>5. m \in 1..Len(lines) /\ m - 1 \in 0..Len(lines) /\ m - 1 \notin Bad
  BY <1>2, <1>3, <1>4
<1>6. AsRead(lines, m - 1, Summaries(lines)[m - 1])
  BY <1>5
<1>7. AsRead(lines, m, ReadLine(Summaries(lines)[m - 1], lines[m]))
  BY <1>5, <1>6, OneMoreLine
<1>8. AsRead(lines, m, Summaries(lines)[m])
  BY <1>5, <1>7, SummariesFollow
<1> QED
  BY <1>3, <1>8

(* For streams of any length and order: the usage is that of the last      *)
(* result of the main thread, the final text its last message, and with    *)
(* the main thread's result first no error in a subagent's result counts   *)
(* (parse_stream: "Keep the main one").                                    *)
THEOREM StreamsAreRead == Spec => []StreamIsRead
<1>1. StreamIsRead
  <2> SUFFICES ASSUME NEW lines \in Streams
               PROVE  LET s == ParseStream(lines)
                          At(kinds) == {i \in DOMAIN lines : lines[i] \in kinds}
                          mains == At(MainResult)
                          texts == At({"prose", "report"})
                      IN /\ mains # {} => s.usage \in mains /\ \A i \in mains : i <= s.usage
                         /\ \A i \in texts : (\A j \in texts : j <= i) => s.final = lines[i]
                         /\ (\A i \in At(SubResult) : \E j \in mains : j < i)
                              => (s.isError <=> At({"apiError", "mainError"}) # {})
    BY DEF StreamIsRead
  <2>1. lines \in Seq(Event) /\ DOMAIN lines = 1..Len(lines) /\ Len(lines) \in Nat
    BY CliAssumption DEF Streams, SeqOf
  <2> DEFINE s == ParseStream(lines)
             mains == {i \in DOMAIN lines : lines[i] \in MainResult}
             texts == {i \in DOMAIN lines : lines[i] \in Texts}
             subs == {i \in DOMAIN lines : lines[i] \in SubResult}
             errors == {i \in DOMAIN lines : lines[i] \in Errors}
  <2>2. AsRead(lines, Len(lines), s)
    BY <2>1, SummariesAsRead DEF ParseStream
  <2> HIDE DEF s
  <2>3. mains # {} => s.usage \in mains /\ \A i \in mains : i <= s.usage
    BY <2>1, <2>2 DEF AsRead
  <2>4. \A i \in texts : (\A j \in texts : j <= i) => s.final = lines[i]
    BY <2>1, <2>2 DEF AsRead
  <2>5. (\A i \in subs : \E j \in mains : j < i) => (s.isError <=> errors # {})
    <3>1. SUFFICES ASSUME \A i \in subs : \E j \in mains : j < i
                   PROVE  s.isError <=> errors # {}
      OBVIOUS
    <3>2. ASSUME NEW i \in 1..Len(lines), lines[i] \in SubResult
          PROVE  \E j \in 1..(i - 1) : lines[j] \in MainResult
      BY <2>1, <3>1, <3>2
    <3> QED
      BY <2>1, <2>2, <3>2 DEF AsRead
  <2> QED
    BY <2>3, <2>4, <2>5 DEF s, Texts, Errors
<1> QED
  BY <1>1, PTL

----------------------------------------------------------------------------
(* A run never has to stop waiting and never goes back: what BatchGoesOn   *)
(* rests on, however the agents, the operator and the pipe behave.         *)

(* What lets a run go on, no fault being needed: one line per guard.       *)
RunMayGoOn ==
    \/ phase \in {"starting", "spawning", "reading", "deciding", "probing", "checking",
                  "recording", "cleaning", "bailing"}
    \/ phase = "waiting"  \* for the end of the pipe, or for the time-out
    \/ phase = "exiting" /\ Cli \notin alive
    \/ phase = "grace" /\ Abandons
    \/ phase = "judging" /\ \E v \in Verdicts : rc = 0 /\ touched => v.used
    \/ phase \in {"listing", "polling"} /\ New = {}
    \/ phase \in {"listing", "polling"} /\
         \E i \in New : \A j \in New : saved[j] <= saved[i]

(* Only a CLI that closes its pipe and does not exit keeps its runner      *)
(* waiting, for that wait has no time-out.                                 *)
NeverStuck ==
    phase \notin Rest => RunMayGoOn \/ (Lingers /\ phase = "exiting" /\ Cli \in alive)

(* Once the pipe is closed no process of the run gets hold of it again,    *)
(* and a CLI that does not linger has it until it goes.                    *)
PipeInv ==
    /\ phase = "exiting" => PipeClosed
    /\ ~ Lingers => \A p \in alive : p[2] = "cli" => p \in piped

LEMMA StepPipe == TypeInv /\ PipeInv /\ [Next]_vars => PipeInv'
<1> SUFFICES ASSUME TypeInv, PipeInv, [Next]_vars PROVE PipeInv'
  OBVIOUS
<1> USE DEF PipeInv, PipeClosed
<1>1. CASE AgentCalls \/ LateCall \/ Approve \/ StartSession
  BY <1>1 DEF AgentCalls, LateCall, Approve, StartSession, procVars
<1>2. CASE SpawnChild
  BY <1>2 DEF SpawnChild
<1>3. CASE LeavePipe
  BY <1>3 DEF LeavePipe
<1>4. CASE Exit
  BY <1>4 DEF Exit
<1>5. CASE SpawnCli
  BY <1>5 DEF SpawnCli
<1>6. CASE KillTree
  <2>1. alive' \subseteq alive /\ piped' = piped \cap alive' /\ phase' = "grace"
    BY <1>6 DEF KillTree
  <2> QED
    BY <2>1
<1>7. CASE KillGroup
  BY <1>7 DEF KillGroup
<1>8. CASE WorkDone
  BY <1>8 DEF WorkDone, Goto, procVars
<1>9. CASE SpawnFails \/ DrainFails \/ NoneNew \/ ReadBundle \/ GiveUp \/ Decided
           \/ AdminFails
  BY <1>9 DEF SpawnFails, DrainFails, NoneNew, ReadBundle, GiveUp, Decided, AdminFails,
              Return, procVars
<1>10. CASE Judge
  BY <1>10 DEF Judge, Return, Goto, procVars
<1>11. CASE Exited \/ GraceOver \/ ListNew \/ Poll \/ ReadSeen \/ LookupFails
  BY <1>11 DEF Exited, GraceOver, ListNew, Poll, ReadSeen, LookupFails, Goto, procVars
<1>12. CASE Prepare
  BY <1>12 DEF Prepare, procVars
<1>13. CASE Probe \/ Check \/ Record \/ CleanUp \/ Bail
  BY <1>13 DEF Probe, Check, Record, CleanUp, Bail, procVars
<1>14. CASE UNCHANGED vars
  BY <1>14 DEF vars, procVars
<1> QED
  BY <1>1, <1>2, <1>3, <1>4, <1>5, <1>6, <1>7, <1>8, <1>9, <1>10, <1>11, <1>12, <1>13,
     <1>14 DEF Next, World, Claude, Manual, RunOne

(* Of the new bundles one is the newest.                                   *)
LEMMA NewestExists ==
    ASSUME TypeInv, StoreInv, New # {}
    PROVE  \E i \in New : \A j \in New : saved[j] <= saved[i]
<1>1. /\ New \subseteq DOMAIN saved /\ clock \in Nat
      /\ \A i \in New : saved[i] \in Nat /\ saved[i] <= clock
  BY DEF TypeInv, TypeOK, StoreInv, New
<1> DEFINE Ages == {clock - saved[i] : i \in New}
<1>2. Ages \subseteq Nat /\ Ages # {}
  BY <1>1
<1>3. PICK m \in Ages : \A k \in Ages : m <= k
  BY <1>2, LeastNumber
<1>4. PICK i \in New : m = clock - saved[i]
  BY <1>3
<1>5. ASSUME NEW j \in New PROVE saved[j] <= saved[i]
  <2>1. clock - saved[i] <= clock - saved[j]
    BY <1>3, <1>4
  <2> QED
    BY <1>1, <2>1
<1> QED
  BY <1>5

(* Some stream shows that the agent used a tool.                           *)
LEMMA UseIsSeen ==
    ASSUME MaxLines > 0
    PROVE  \E v \in Verdicts : v.used
<1> DEFINE lines == <<"use">>
<1>1. lines \in Seq(Event) /\ Len(lines) = 1 /\ lines[1] = "use"
  BY DEF Event
<1>2. lines \in Streams
  <2>1. 1 \in 0..MaxLines /\ lines \in [1..1 -> Event]
    BY <1>1, CliAssumption
  <2> QED
    BY <2>1 DEF Streams, SeqOf
<1> HIDE DEF lines
<1>3. 1 \in 1..Len(lines)
  BY <1>1
<1>4. Summaries(lines)[1] = ReadLine(Summaries(lines)[0], lines[1])
      /\ Summaries(lines)[0] = Unread
  BY <1>1, <1>3, SummariesFollow
<1>5. ParseStream(lines) = ReadLine(Unread, "use")
  BY <1>1, <1>4 DEF ParseStream
<1>6. ReadLine(Unread, "use").used
  BY DEF ReadLine, Unread
<1> DEFINE Said == {ParseStream(l) : l \in Streams}
           Of(s, saysSo) == [used |-> s.used, unavailable |-> Unavailable(s, saysSo),
                             report |-> s.final = "report"]
           mute == FALSE
<1>7. Verdicts = {Of(s, saysSo) : s \in Said, saysSo \in BOOLEAN}
  BY DEF Verdicts
<1>8. ParseStream(lines) \in Said /\ mute \in BOOLEAN
  BY <1>2
<1>9. Of(ParseStream(lines), mute).used
  BY <1>5, <1>6
<1> HIDE DEF Said, Of, mute
<1> QED
  BY <1>7, <1>8, <1>9

(* With streams of a line at least, a run may always go on by itself, or   *)
(* waits for a CLI to exit that has closed its pipe; without such CLIs it  *)
(* always may (NeverStuck).                                                *)
THEOREM RunsAreNeverStuck == MaxLines > 0 => (Spec => []NeverStuck)
<1> SUFFICES ASSUME MaxLines > 0 PROVE Spec => []NeverStuck
  OBVIOUS
<1>1. Init => PipeInv
  BY DEF Init, PipeInv, PipeClosed
<1>2. TypeInv /\ PipeInv /\ [Next]_vars => PipeInv'
  BY StepPipe
<1>3. CliInv /\ PipeInv => NeverStuck
  <2> SUFFICES ASSUME CliInv, PipeInv, phase \notin Rest
               PROVE  RunMayGoOn \/ (Lingers /\ phase = "exiting" /\ Cli \in alive)
    BY DEF NeverStuck
  <2>1. TypeInv /\ StoreInv
    BY DEF CliInv
  <2>2. CASE phase = "judging"
    BY <2>2, UseIsSeen DEF RunMayGoOn
  <2>3. CASE phase \in {"listing", "polling"}
    BY <2>1, <2>3, NewestExists DEF RunMayGoOn
  <2>4. CASE phase = "exiting"
    <3>1. Cli \notin piped /\ Cli[2] = "cli"
      BY <2>4 DEF PipeInv, PipeClosed, Cli
    <3>2. ~ Lingers => Cli \notin alive
      BY <3>1 DEF PipeInv
    <3> QED
      BY <2>4, <3>2, CliAssumption DEF RunMayGoOn
  <2>5. phase \in {"starting", "spawning", "waiting", "exiting", "grace", "judging",
                   "listing", "reading", "polling", "deciding", "probing", "checking",
                   "recording", "cleaning", "bailing"}
    BY <2>1 DEF TypeInv, TypeOK
  <2> QED
    BY <2>2, <2>3, <2>4, <2>5 DEF RunMayGoOn, Abandons
<1>4. Spec => []TypeInv
  BY CliInvHolds, PTL DEF CliInv
<1> QED
  BY <1>1, <1>2, <1>3, <1>4, CliInvHolds, PTL DEF Spec

(* The order in which a run goes through its phases.                       *)
Stage == [starting |-> 0, spawning |-> 1, polling |-> 1, waiting |-> 2, exiting |-> 3,
          grace |-> 3, judging |-> 4, listing |-> 5, reading |-> 6, deciding |-> 6,
          bailing |-> 6, probing |-> 7, checking |-> 8, recording |-> 9, cleaning |-> 10,
          idle |-> 11, stopped |-> 11, dead |-> 11]

(* A step of a run takes it to a later phase; nothing else moves it.       *)
RunsGoForward ==
    [][phase \notin Rest =>
         /\ Claude \/ Manual \/ RunOne => Stage[phase] < Stage[phase']
         /\ Stage[phase] < Stage[phase'] \/ UNCHANGED phase]_vars

LEMMA Stages ==
    /\ \A label \in {"starting", "spawning", "polling", "waiting", "judging", "listing",
                     "reading", "deciding"} : Stage[label] < Stage["probing"]
    /\ Stage["starting"] < Stage["spawning"] /\ Stage["starting"] < Stage["polling"]
    /\ Stage["spawning"] < Stage["waiting"] /\ Stage["waiting"] < Stage["exiting"]
    /\ Stage["waiting"] < Stage["grace"] /\ Stage["waiting"] < Stage["dead"]
    /\ Stage["exiting"] < Stage["judging"] /\ Stage["grace"] < Stage["judging"]
    /\ Stage["judging"] < Stage["bailing"] /\ Stage["judging"] < Stage["listing"]
    /\ Stage["listing"] < Stage["reading"] /\ Stage["polling"] < Stage["deciding"]
    /\ Stage["probing"] < Stage["checking"] /\ Stage["checking"] < Stage["recording"]
    /\ Stage["recording"] < Stage["cleaning"] /\ Stage["recording"] < Stage["stopped"]
    /\ Stage["cleaning"] < Stage["idle"] /\ Stage["bailing"] < Stage["stopped"]
  BY DEF Stage

LEMMA OwnStepsGoForward ==
    ASSUME phase \notin Rest, Claude \/ Manual \/ RunOne
    PROVE  Stage[phase] < Stage[phase']
<1> USE Stages
<1>1. CASE SpawnCli \/ KillTree \/ KillGroup
  BY <1>1 DEF SpawnCli, KillTree, KillGroup
<1>2. CASE SpawnFails \/ DrainFails \/ NoneNew \/ ReadBundle \/ GiveUp \/ Decided
           \/ AdminFails
  BY <1>2 DEF SpawnFails, DrainFails, NoneNew, ReadBundle, GiveUp, Decided, AdminFails,
              Return
<1>3. CASE WorkDone \/ Exited \/ GraceOver \/ ListNew \/ Poll \/ LookupFails
  BY <1>3 DEF WorkDone, Exited, GraceOver, Abandons, ListNew, Poll, LookupFails, Goto
<1>4. CASE Judge
  <2>1. phase = "judging" /\ phase' \in {"bailing", "probing", "listing"}
    BY <1>4 DEF Judge, Return, Goto
  <2> QED
    BY <2>1
<1>5. CASE ReadSeen
  <2>1. phase = "starting" /\ phase' \in {"spawning", "polling"}
    BY <1>5 DEF ReadSeen, Goto
  <2> QED
    BY <2>1
<1>6. CASE Probe \/ Check \/ Record \/ CleanUp \/ Bail
  BY <1>6 DEF Probe, Check, Record, CleanUp, Bail
<1>7. ~ Prepare
  BY DEF Prepare, Rest
<1> QED
  BY <1>1, <1>2, <1>3, <1>4, <1>5, <1>6, <1>7 DEF Claude, Manual, RunOne

(* Each step of a run takes it to a later one of its eleven phases, and    *)
(* neither an agent nor the operator takes it back: a run that goes on     *)
(* ends (RunsGoForward).                                                   *)
THEOREM RunsDoGoForward == Spec => RunsGoForward
<1> DEFINE Forward ==
      phase \notin Rest =>
        /\ Claude \/ Manual \/ RunOne => Stage[phase] < Stage[phase']
        /\ Stage[phase] < Stage[phase'] \/ UNCHANGED phase
<1>1. ASSUME [Next]_vars PROVE Forward
  <2> SUFFICES ASSUME phase \notin Rest
               PROVE  /\ Claude \/ Manual \/ RunOne => Stage[phase] < Stage[phase']
                      /\ Stage[phase] < Stage[phase'] \/ UNCHANGED phase
    OBVIOUS
  <2>1. Claude \/ Manual \/ RunOne => Stage[phase] < Stage[phase']
    BY OwnStepsGoForward
  <2>2. World \/ UNCHANGED vars => UNCHANGED phase
    BY DEF World, AgentCalls, LateCall, Approve, SpawnChild, LeavePipe, Exit,
           StartSession, vars
  <2> QED
    BY <1>1, <2>1, <2>2 DEF Next
<1>2. [Next]_vars => [Forward]_vars
  BY <1>1
<1> QED
  BY <1>2, PTL DEF Spec, RunsGoForward

============================================================================

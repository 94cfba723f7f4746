----------------------------- MODULE CliRunner -----------------------------
(***************************************************************************)
(* Runs whose agent is a process of its own.  The Claude runner starts the *)
(* CLI, reads its stream, and kills it when it stalls; the manual runner   *)
(* waits for what a person exports.  Both take the outcome from the first  *)
(* export bundles that were not there before, so an agent of an earlier    *)
(* run that is still at work matters.  The agents, the operator and the    *)
(* servers are external.                                                   *)
(***************************************************************************)
EXTENDS Integers, Sequences, FiniteSets, SequencesExt

CONSTANTS MaxRuns,
          MaxEdits,    \* edits of the twin between two resets
          MaxExports,  \* export bundles
          MaxLines,    \* length of the streams
          Lingers,     \* a CLI may close its pipe and not exit
          NIL

ASSUME CliAssumption ==
    /\ {MaxRuns, MaxEdits, MaxExports, MaxLines} \subseteq Nat
    /\ Lingers \in BOOLEAN
    /\ NIL \notin {"timeout", "crash", "unchecked", "words", "bundle"}

VARIABLES runner, bench,   \* the configuration of the batch
          phase, run,
          alive, piped,     \* processes; those that hold the stdout of their CLI
          late,             \* runs with a call in flight whose caller is gone
          exports,          \* whose bundle each is, by creation
          saved, clock,     \* the times of their folders, and the last of them
          approved,         \* ids of the bundles that were approved
          twin,             \* the runs that edited it since the last reset, in order
          seen, pick, rc, said,   \* locals of run
          output, error, probed, checked,   \* locals of run_one
          record,           \* the last record, until the next run
          touched, loose, left   \* history, see below

configVars == <<runner, bench>>
procVars == <<alive, piped, late>>
storeVars == <<exports, saved, clock, approved>>
runVars == <<seen, pick, rc, said>>
oneVars == <<output, error, probed, checked, record>>
history == <<touched, loose>>
vars == <<configVars, phase, run, procVars, storeVars, twin, runVars, oneVars,
          history, left>>

Run == 1..MaxRuns
Cli == <<run, "cli">>
Process == Run \X {"cli", "child", "session"}
Rest == {"idle", "stopped", "dead"}
Nothing == [export |-> NIL, from |-> NIL]

TypeOK ==
    /\ runner \in {"claude", "manual"} /\ bench \in BOOLEAN
    /\ phase \in Rest \cup {"starting", "spawning", "waiting", "exiting", "grace",
                            "judging", "listing", "reading", "polling", "deciding",
                            "probing", "checking", "recording", "cleaning", "bailing"}
    /\ run \in 0..MaxRuns
    /\ piped \subseteq alive /\ alive \subseteq Process /\ late \subseteq Run
    /\ exports \in Seq(Run) /\ approved \subseteq DOMAIN exports
    /\ saved \in Seq(Nat) /\ Len(saved) = Len(exports) /\ clock \in Nat
    /\ twin \in Seq(Run) /\ left \in Seq(Run)
    /\ seen \subseteq DOMAIN exports /\ pick \in {NIL} \cup DOMAIN exports
    /\ rc \in {0, -1} /\ said \in BOOLEAN
    /\ output.export \in {NIL} \cup DOMAIN exports
    /\ output.from \in {NIL, "bundle", "words"}
    /\ error \in {NIL, "timeout", "crash", "unchecked"}
    /\ touched \in BOOLEAN /\ loose \subseteq Run

NotAsked == [answer |-> "none", twin |-> <<>>]

Init ==
    /\ runner \in {"claude", "manual"} /\ bench \in BOOLEAN
    /\ phase = "idle" /\ run = 0
    /\ alive = {} /\ piped = {} /\ late = {}
    /\ exports = <<>> /\ saved = <<>> /\ clock = 0 /\ approved = {} /\ twin = <<>>
    /\ seen = {} /\ pick = NIL /\ rc = 0 /\ said = FALSE
    /\ output = Nothing /\ error = NIL /\ probed = NotAsked /\ checked = NotAsked
    /\ record = NIL
    /\ touched = FALSE /\ loose = {} /\ left = <<>>

----------------------------------------------------------------------------
(* The stream, line by line (parse_stream).  A result is the main thread's *)
(* or a subagent's, and may report an error.  An "apiError" is an assistant *)
(* line with one, which parse_stream counts whoever's it is.               *)
MainResult == {"main", "mainError"}
SubResult  == {"sub", "subError"}
Event == {"noise", "use", "prose", "report", "apiError"} \cup MainResult \cup SubResult

Unread == [line |-> 0, used |-> FALSE, isError |-> FALSE, final |-> NIL,
           mainText |-> FALSE, usage |-> 0, results |-> 0]

(* The first result counts and every one of the main thread.  Mutated: any *)
KeepsAny(s, event) == TRUE

Keeps(s, event) == s.results = 0 \/ event \in MainResult

TakeResult(s, event) ==
    [s EXCEPT !.usage = s.line,
              !.isError = @ \/ event \in {"mainError", "subError"},
              !.final = IF s.mainText THEN @ ELSE "prose"]

ReadLine(summary, event) ==
    LET s == [summary EXCEPT !.line = @ + 1] IN
    CASE event = "noise"    -> s
      [] event = "use"      -> [s EXCEPT !.used = TRUE]
      [] event = "apiError" -> [s EXCEPT !.isError = TRUE]
      [] event \in {"prose", "report"} -> [s EXCEPT !.final = event, !.mainText = TRUE]
      [] OTHER -> [IF Keeps(s, event) THEN TakeResult(s, event) ELSE s
                     EXCEPT !.results = @ + 1]

(* The summary after each of the lines; parse_stream returns the last.     *)
Summaries(lines) ==
    LET summary[n \in 0..Len(lines)] ==
          IF n = 0 THEN Unread ELSE ReadLine(summary[n - 1], lines[n])
    IN summary

ParseStream(lines) == Summaries(lines)[Len(lines)]

Streams == SeqOf(Event, MaxLines)

(* The CLI is unavailable if it failed before the agent used a tool, and   *)
(* its words say so.  A mutated form goes by its words.                    *)
UnavailableBy(s, saysSo) == s.isError /\ saysSo

Unavailable(s, saysSo) == s.isError /\ ~ s.used /\ saysSo

(* All that run asks of a summary.                                         *)
Verdicts == {[used |-> s.used, unavailable |-> Unavailable(s, saysSo),
              report |-> s.final = "report"] :
                s \in {ParseStream(lines) : lines \in Streams}, saysSo \in BOOLEAN}

----------------------------------------------------------------------------
(* Processes and people.                                                   *)
Edit(r) ==
    /\ Len(twin) < MaxEdits
    /\ twin' = Append(twin, r)
    /\ UNCHANGED storeVars

(* Saving makes a folder the newest.  A mutated form files a bundle that   *)
(* is saved again as another one.                                          *)
SavedAnew(i) == Append(saved, clock')

Saved(i) == IF i \in DOMAIN saved THEN [saved EXCEPT ![i] = clock'] ELSE Append(saved, clock')

Save(i) == clock' = clock + 1 /\ saved' = Saved(i)

(* export_change: the gate (ExportGate) is not looked into.                *)
Export(r) ==
    /\ Len(exports) < MaxExports
    /\ exports' = Append(exports, r)
    /\ Save(Len(exports'))
    /\ approved' = IF bench THEN approved \cup {Len(exports')} ELSE approved
    /\ UNCHANGED twin

AgentCalls ==
    /\ \E p \in alive : (Edit(p[1]) \/ Export(p[1])) /\ touched' = (touched \/ p[1] = run)
    /\ UNCHANGED <<configVars, phase, run, procVars, runVars, oneVars, loose, left>>

LateCall ==
    /\ \E r \in late : (Edit(r) \/ Export(r)) /\ late' = late \ {r}
    /\ UNCHANGED <<configVars, phase, run, alive, piped, runVars, oneVars, history, left>>

(* Nothing that is modelled here tells a declined bundle from a pending    *)
(* one, which changes no file of it but the status.                        *)
Approve ==
    /\ \E i \in DOMAIN exports \ approved :
         approved' = approved \cup {i} /\ Save(i)
    /\ UNCHANGED <<configVars, phase, run, procVars, exports, twin, runVars, oneVars,
                   history, left>>

(* What an agent does to the twin through a child of an earlier run's CLI  *)
(* it can do itself.                                                       *)
SpawnChild ==
    /\ phase = "waiting" /\ Cli \in alive
    /\ alive' = alive \cup {<<run, "child">>} /\ piped' = piped \cup {<<run, "child">>}
    /\ UNCHANGED <<configVars, phase, run, late, storeVars, twin, runVars, oneVars,
                   history, left>>

LeavePipe ==
    /\ \E p \in piped :
         /\ p[2] = "child" \/ Lingers
         /\ piped' = piped \ {p}
         /\ loose' = IF p[2] = "child" THEN loose \cup {p[1]} ELSE loose
    /\ UNCHANGED <<configVars, phase, run, alive, late, storeVars, twin, runVars,
                   oneVars, touched, left>>

(* A CLI may go with a call in flight, which is served later or not.  (A   *)
(* child that does is like one that leaves the pipe and goes after it.)    *)
CallsBehind(r) ==
    \/ UNCHANGED late /\ UNCHANGED touched
    \/ late' = late \cup {r} /\ touched' = (touched \/ r = run)

Exit ==
    /\ \E p \in alive :
         /\ alive' = alive \ {p} /\ piped' = piped \ {p}
         /\ IF p[2] = "cli" THEN CallsBehind(p[1]) ELSE UNCHANGED <<late, touched>>
         /\ loose' = IF late' = late THEN loose ELSE loose \cup {p[1]}
    /\ UNCHANGED <<configVars, phase, run, storeVars, twin, runVars, oneVars, left>>

(* A person takes up the symptom, in a session that nobody ends for them.  *)
StartSession ==
    /\ phase = "polling" /\ <<run, "session">> \notin alive
    /\ alive' = alive \cup {<<run, "session">>} /\ loose' = loose \cup {run}
    /\ UNCHANGED <<configVars, phase, run, piped, late, storeVars, twin, runVars,
                   oneVars, touched, left>>

----------------------------------------------------------------------------
(* run_one up to the runner, and how a runner returns to it.               *)
Prepare ==
    /\ phase = "idle" /\ run < MaxRuns
    /\ run' = run + 1
    /\ \/ phase' = "starting" /\ twin' = <<>>
       \/ UNCHANGED <<phase, twin>>
    /\ touched' = FALSE
    /\ UNCHANGED <<configVars, procVars, storeVars, runVars, oneVars, loose, left>>

Return(result, failure) ==
    /\ phase' = "probing"
    /\ output' = result /\ error' = failure
    /\ left' = twin
    /\ seen' = {} /\ pick' = NIL /\ rc' = 0 /\ said' = FALSE
    /\ UNCHANGED <<configVars, run, storeVars, twin, probed, checked, record>>

Goto(label) ==
    /\ phase' = label
    /\ UNCHANGED <<configVars, run, procVars, storeVars, twin, oneVars, history, left>>

ReadSeen ==
    /\ phase = "starting"
    /\ seen' = DOMAIN exports
    /\ Goto(IF runner = "claude" THEN "spawning" ELSE "polling")
    /\ UNCHANGED <<pick, rc, said>>

(* The admin route does not answer, or refuses: "runner crashed".          *)
AdminFails ==
    /\ phase \in {"starting", "listing", "reading", "polling", "deciding"}
    /\ Return(Nothing, "crash")
    /\ UNCHANGED <<procVars, history>>

----------------------------------------------------------------------------
(* The Claude runner (ClaudeCliRunner.run, spawn_cli, kill_tree).          *)
SpawnCli ==
    /\ phase = "spawning" /\ phase' = "waiting"
    /\ alive' = alive \cup {Cli} /\ piped' = piped \cup {Cli}
    /\ UNCHANGED <<configVars, run, late, storeVars, twin, runVars, oneVars, history,
                   left>>

SpawnFails ==
    /\ phase = "spawning"
    /\ Return(Nothing, "crash")
    /\ UNCHANGED <<procVars, history>>

(* End of file: every process of the run has let go of the pipe.  A        *)
(* mutated form looks at the CLI alone.                                    *)
CliGone == Cli \notin alive

PipeClosed == \A p \in piped : p[1] # run

WorkDone == phase = "waiting" /\ PipeClosed /\ Goto("exiting") /\ UNCHANGED runVars

Exited ==
    /\ phase = "exiting" /\ Cli \notin alive
    /\ Goto("judging") /\ rc' = 0
    /\ UNCHANGED <<seen, pick, said>>

(* A line over the limit, or a CLI that does not read its prompt: the      *)
(* exception leaves spawn_cli, and the processes run on.                   *)
DrainFails ==
    /\ phase = "waiting"
    /\ Return(Nothing, "crash")
    /\ loose' = loose \cup {run}
    /\ UNCHANGED <<procVars, touched>>

(* On Windows, taskkill ends the tree below the CLI; a CLI that is gone    *)
(* leads to nobody.                                                        *)
KillTree ==
    /\ phase = "waiting" /\ ~ PipeClosed /\ phase' = "grace"
    /\ alive' = IF Cli \in alive THEN {p \in alive : p[1] # run} ELSE alive
    /\ piped' = piped \cap alive'
    /\ CallsBehind(run)
    /\ loose' = IF Cli \in alive /\ late' = late THEN loose ELSE loose \cup {run}
    /\ UNCHANGED <<configVars, run, storeVars, twin, runVars, oneVars, left>>

(* On POSIX, killpg ends the group of the CLI, which is the harness's own. *)
KillGroup ==
    /\ phase = "waiting" /\ ~ PipeClosed /\ Cli \in alive
    /\ phase' = "dead" /\ alive' = {} /\ piped' = {}
    /\ CallsBehind(run)
    /\ UNCHANGED <<configVars, run, storeVars, twin, runVars, oneVars, loose, left>>

(* What was read is returned even if a straggler holds the pipe.  A        *)
(* mutated form waits for the drains.                                      *)
Drained == phase = "grace" /\ PipeClosed

Abandons == phase = "grace"

GraceOver ==
    /\ Abandons
    /\ Goto("judging") /\ rc' = -1
    /\ UNCHANGED <<seen, pick, said>>

(* A CLI that ended by itself has written down the tools that it used.     *)
Judge ==
    /\ phase = "judging"
    /\ \E v \in Verdicts :
         /\ rc = 0 /\ touched => v.used
         /\ \/ v.unavailable /\ Goto("bailing") /\ UNCHANGED runVars
            \/ /\ ~ v.unavailable /\ rc = -1
               /\ Return(Nothing, "timeout")
            \/ /\ ~ v.unavailable /\ rc = 0
               /\ Goto("listing") /\ said' = v.report
               /\ UNCHANGED <<seen, pick, rc>>
    /\ UNCHANGED <<procVars, history>>

(* The bundles that were not there before, of which the newest counts.  A  *)
(* mutated form takes all.                                                 *)
AllListed == DOMAIN exports

New == DOMAIN exports \ seen

PickNewest ==
    /\ \E i \in New : (\A j \in New : saved[j] <= saved[i]) /\ pick' = i
    /\ UNCHANGED <<seen, rc, said>>

Bundle == [export |-> pick, from |-> "bundle"]

NoneNew ==
    /\ phase = "listing" /\ New = {}
    /\ Return([Nothing EXCEPT !.from = IF said THEN "words" ELSE NIL], NIL)
    /\ UNCHANGED <<procVars, history>>

ListNew == phase = "listing" /\ PickNewest /\ Goto("reading")

ReadBundle ==
    /\ phase = "reading"
    /\ Return(Bundle, NIL)
    /\ UNCHANGED <<procVars, history>>

----------------------------------------------------------------------------
(* The manual runner: polls until a bundle appears, then until it is       *)
(* decided, each up to a deadline.                                         *)
Poll == phase = "polling" /\ PickNewest /\ Goto("deciding")

GiveUp ==
    /\ phase = "polling" /\ New = {}
    /\ Return(Nothing, NIL)
    /\ UNCHANGED <<procVars, history>>

Decided ==
    /\ phase = "deciding"
    /\ Return(Bundle, NIL)
    /\ UNCHANGED <<procVars, history>>

----------------------------------------------------------------------------
(* The rest of run_one.  A check is answered (or refused, which run_one    *)
(* takes for an answer), or twice not.                                     *)
Answers == {NotAsked, [answer |-> "given", twin |-> twin]}

Probe ==
    /\ phase = "probing" /\ phase' = "checking"
    /\ probed' \in Answers
    /\ UNCHANGED <<configVars, run, procVars, storeVars, twin, runVars, output, error,
                   checked, record, history, left>>

Check ==
    /\ phase = "checking" /\ phase' = "recording"
    /\ checked' \in Answers
    /\ error' = IF "none" \in {probed.answer, checked'.answer} /\ error = NIL
                THEN "unchecked" ELSE error
    /\ UNCHANGED <<configVars, run, procVars, storeVars, twin, runVars, output, probed,
                   record, history, left>>

Record ==
    /\ phase = "recording" /\ phase' = "cleaning"
    /\ record' = [run |-> run, output |-> output, error |-> error,
                  probed |-> probed, checked |-> checked]
    /\ output' = Nothing /\ error' = NIL /\ probed' = NotAsked /\ checked' = NotAsked
    /\ UNCHANGED <<configVars, run, procVars, storeVars, twin, runVars, history, left>>

(* Looking up the changes of the output is not guarded.                    *)
LookupFails ==
    /\ phase = "recording" /\ output.from # NIL
    /\ Goto("stopped") /\ UNCHANGED runVars

CleanUp ==
    /\ phase = "cleaning" /\ phase' = "idle"
    /\ twin' \in {<<>>, twin}
    /\ record' = NIL /\ left' = <<>>
    /\ UNCHANGED <<configVars, run, procVars, storeVars, runVars, output, error, probed,
                   checked, history>>

Bail ==
    /\ phase = "bailing" /\ phase' = "stopped"
    /\ twin' \in {<<>>, twin}
    /\ UNCHANGED <<configVars, run, procVars, storeVars, runVars, oneVars, history, left>>

----------------------------------------------------------------------------
World == AgentCalls \/ LateCall \/ Approve \/ SpawnChild \/ LeavePipe \/ Exit \/ StartSession

Claude == SpawnCli \/ SpawnFails \/ WorkDone \/ Exited \/ DrainFails
            \/ KillTree \/ KillGroup \/ GraceOver \/ Judge \/ NoneNew \/ ListNew
            \/ ReadBundle

Manual == Poll \/ GiveUp \/ Decided

RunOne == Prepare \/ ReadSeen \/ AdminFails \/ Probe \/ Check \/ Record \/ LookupFails
            \/ CleanUp \/ Bail

Next == World \/ Claude \/ Manual \/ RunOne

Spec == Init /\ [][Next]_vars

(* The harness and its time-outs go on; agents and people need not.        *)
FairSpec == Spec /\ WF_vars(Claude \/ Manual \/ RunOne)

----------------------------------------------------------------------------
(* Whatever the order of a stream's events, the usage is that of the main  *)
(* thread's last result, the final text is its last message, and with the  *)
(* main thread's result first no error in a subagent's result counts, only *)
(* those of assistant lines and of main results (parse_stream: "Keep the   *)
(* main one").                                                             *)
StreamIsRead ==
    phase = "idle" /\ run = 0 =>
      \A lines \in Streams :
        LET s == ParseStream(lines)
            At(kinds) == {i \in DOMAIN lines : lines[i] \in kinds}
            mains == At(MainResult)
            texts == At({"prose", "report"})
        IN /\ mains # {} => s.usage \in mains /\ \A i \in mains : i <= s.usage
           /\ \A i \in texts : (\A j \in texts : j <= i) => s.final = lines[i]
           /\ (\A i \in At(SubResult) : \E j \in mains : j < i)
                => (s.isError <=> At({"apiError", "mainError"}) # {})

(* The bundle that a run is scored by was exported by the run's own agent, *)
(* or by one of which the batch had let something go on; and it is the     *)
(* last of that agent's unless the operator approved it after that.        *)
OwnExport ==
    record # NIL /\ record.output.export # NIL =>
      LET e == record.output.export
          owner == exports[e]
      IN /\ owner = run \/ owner \in loose
         /\ \A later \in DOMAIN exports :
              later > e /\ exports[later] = run /\ owner = run =>
                run \in loose \/ (~ bench /\ e \in approved)

(* As long as nothing was let go on, a run is judged as its agent left the *)
(* twin: both checks see the same, and nobody else's edits (run_one).      *)
JudgedAsLeft ==
    record # NIL /\ loose = {} =>
      /\ \A a \in {record.probed, record.checked} : a.answer = "given" => a.twin = left
      /\ ToSet(left) \subseteq {run}

(* A record without an error had both of its checks answered; one with a   *)
(* runner's error claims nothing; and the matrix stops for an unavailable  *)
(* CLI only where its agent had done nothing, was killed, or had something *)
(* go on (RunTimeout, RunnerUnavailable, "runner crashed").                *)
FailuresAreToldApart ==
    /\ record # NIL /\ record.error = NIL =>
         "none" \notin {record.probed.answer, record.checked.answer}
    /\ phase = "bailing" => rc = -1 \/ run \in loose \/ ~ touched
    /\ record # NIL /\ record.output.from # NIL => record.error \in {NIL, "unchecked"}

(* A run that was started ends, however its agent stalls and whoever holds *)
(* the pipe (spawn_cli, ManualRunner.run).                                 *)
BatchGoesOn == phase \notin Rest ~> phase \in Rest
============================================================================

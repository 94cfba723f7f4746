------------------------------ MODULE Harness ------------------------------
(***************************************************************************)
(* The NetBench loop: baseline, then for every run reset, inject, let the  *)
(* agent work, judge, append a record, reset.  It is a client of twinlab   *)
(* over HTTP: a call may be served late, fail, or go unanswered, and a     *)
(* call given up on still stands in the queue of the server's write_lock.  *)
(* A call that failed may leave commands that write later, without the     *)
(* lock (TwinLab), and an agent's process may outlive its run and go on    *)
(* sending calls (CliRunner).                                              *)
(* The process may die anywhere and be invoked again on the same results.  *)
(*                                                                         *)
(* A configuration of the twin is the set of its deviations from golden.   *)
(* Runs are numbered in the order of run_matrix's two loops.               *)
(***************************************************************************)
EXTENDS Naturals, Sequences

CONSTANTS Scenario,   \* faults that can be planted
          Edit,       \* deviations an agent may introduce
          Loud,       \* faults that keep the twin from converging
          Plan,       \* the scenario of each run of the matrix
          MaxStarts,  \* invocations
          MaxEdits,   \* writing calls an agent makes in one run
          MaxStrays,  \* late writes of failed calls, and calls of agents left behind
          NIL

State == SUBSET (Scenario \cup Edit)
Run   == DOMAIN Plan

ASSUME HarnessAssumption ==
    /\ Plan \in Seq(Scenario) /\ Plan # <<>> /\ Loud \subseteq Scenario
    /\ MaxStarts \in Nat /\ MaxEdits \in Nat /\ MaxStrays \in Nat
    /\ \A s \in State : s # NIL
    /\ NIL \notin {"ok", "fail"}

VARIABLES
    twin,      \* configuration of the twin
    queue,     \* calls that wait for the write_lock, oldest first
    file,      \* runs.jsonl
    pc, run,   \* where run_matrix is, and at which run
    sent,      \* the writing call last sent
    tries,     \* tries of it
    reply,     \* answer to it, or NIL
    session,   \* of the client: open, or being opened again
    left,      \* late writes to come from calls that failed
    loose,     \* calls to come from agents left behind
    strays,    \* how many of either there were, of MaxStrays
    meddled,   \* history: one came since the reset of this run was sent
    golden,    \* golden_snapshot, or NIL
    done,      \* runs that were recorded when the process started
    skipped, fresh, limit,   \* runs skipped, runs recorded, max_runs
    edits,     \* writing calls of the agent in this run
    starts     \* invocations so far

loopVars == <<golden, done, skipped, fresh, limit, starts>>
callVars == <<queue, sent, tries, reply, session>>
strayVars == <<left, loose, strays, meddled>>
vars == <<twin, file, pc, run, edits, callVars, loopVars, strayVars>>

Call   == [do : {"rollback", "inject", "edit"}, arg : State]
Edits  == [do |-> "edit", arg |-> {}]   \* an agent's: a change, or the way back from it
Record == [run : Run, golden : State]

Waiting   == {"resetting", "planting", "calling", "cleaning", "bailing"}
Resetting == {"resetting", "cleaning", "bailing"}

(* Where it waits for an answer that changes nothing.                      *)
Reading == {"baseline", "capture", "settle", "judge", "append"}

At(label) == pc = label /\ session = "open"

TypeOK ==
    /\ twin \in State /\ file \in Seq(Record)
    /\ queue \in Seq(Call \X BOOLEAN)     \* TRUE: somebody waits for the answer
    /\ pc \in {"off", "pick", "baseline", "capture", "reset", "plant", "settle",
               "agent", "judge", "append", "clean"} \cup Waiting
    /\ run \in 1..Len(Plan) + 1
    /\ sent \in {NIL} \cup Call /\ tries \in 0..2 /\ reply \in {"ok", "fail", NIL}
    /\ session \in {"open", "opening"}
    /\ left \in 0..MaxStrays /\ loose \in 0..MaxStrays /\ strays \in 0..MaxStrays
    /\ meddled \in BOOLEAN
    /\ golden \in {NIL} \cup State
    /\ done \subseteq Run /\ skipped \subseteq Run
    /\ fresh \in 0..Len(Plan) /\ limit \in Run
    /\ edits \in 0..MaxEdits
    /\ starts \in 0..MaxStarts

Recorded == {file[i].run : i \in DOMAIN file}
Known    == {file[i].golden : i \in DOMAIN file}

Init ==
    /\ twin = {} /\ file = <<>> /\ queue = <<>>
    /\ pc = "off" /\ run = 1
    /\ sent = NIL /\ tries = 0 /\ reply = NIL /\ session = "open"
    /\ left = 0 /\ loose = 0 /\ strays = 0 /\ meddled = FALSE
    /\ golden = NIL /\ done = {} /\ skipped = {} /\ fresh = 0 /\ limit = Len(Plan)
    /\ edits = 0 /\ starts = 0

----------------------------------------------------------------------------
(* The server: writing calls are served one at a time in the order in      *)
(* which they came (TwinSerial); an answer may get lost on its way.  One   *)
(* that fails has written any part, and of it commands may be left that    *)
(* write when others hold the lock, or nobody: the restores of other nodes *)
(* (gather, snapshot.py), a command or a script that timed out.            *)
Effects(c) == CASE c.do = "rollback" -> {c.arg}
                [] c.do = "inject"   -> {twin \cup c.arg}
                [] c.do = "edit"     -> State

Partly(c) == {(twin \ part) \cup (whole \cap part) : whole \in Effects(c), part \in State}

Serve(states, answer) ==
    /\ queue # <<>> /\ queue' = Tail(queue)
    /\ twin' \in states
    /\ reply' \in IF Head(queue)[2] THEN {answer, NIL} ELSE {reply}
    /\ UNCHANGED <<file, pc, run, edits, sent, tries, session, loopVars>>

ServeOk ==
    /\ queue # <<>> /\ Serve(Effects(Head(queue)[1]), "ok")
    /\ UNCHANGED strayVars

ServeFails ==
    /\ queue # <<>> /\ Serve(Partly(Head(queue)[1]), "fail")
    /\ \E n \in 0..MaxStrays - strays : left' = left + n /\ strays' = strays + n
    /\ UNCHANGED <<loose, meddled>>

(* What is written late may be any change: a node put back, a command of   *)
(* an edit.                                                                *)
Preparing == pc \in {"resetting", "plant", "planting", "settle"}

LateWrites ==
    /\ left > 0 /\ left' = left - 1
    /\ twin' \in State
    /\ meddled' = Preparing
    /\ UNCHANGED <<file, pc, run, edits, callVars, loopVars, loose, strays>>

(* Nobody here waits for the answer to such a call.                        *)
StrayCalls ==
    /\ loose > 0 /\ loose' = loose - 1
    /\ queue' = Append(queue, <<Edits, FALSE>>)
    /\ meddled' = Preparing
    /\ UNCHANGED <<twin, file, pc, run, edits, sent, tries, reply, session,
                   loopVars, left, strays>>

(* A person runs `make -C lab golden` between two invocations.             *)
OperatorGolden ==
    /\ pc = "off" /\ queue = <<>> /\ twin # {} /\ twin' = {}
    /\ UNCHANGED <<file, pc, run, edits, callVars, loopVars, strayVars>>

----------------------------------------------------------------------------
(* Calls.  HttpToolClient makes a call that timed out once more, over a    *)
(* session that it opens first, which may fail, or take for ever: connect  *)
(* awaits it without a time-out.  The admin client, which injects, does    *)
(* not.  A read that goes on over its new session is a read like any       *)
(* other: of reads only the session that never opens is told.              *)
Abandoned == [i \in DOMAIN queue |-> <<queue[i][1], FALSE>>]

Send(c, label) ==
    /\ queue' = Append(queue, <<c, TRUE>>)
    /\ sent' = c /\ tries' = 1 /\ reply' = NIL
    /\ pc' = label
    /\ UNCHANGED session

Rollback(s) == [do |-> "rollback", arg |-> s]

(* A mutated form tries it again and again.                                *)
AnyTry == tries > 0

FirstTry == tries = 1

(* A mutated form takes an error for an answer like any other.             *)
Answered == reply # NIL

Succeeded == reply = "ok"

Reconnect ==
    /\ session = "open"
    /\ \/ pc \in Waiting \ {"planting"} /\ reply = NIL /\ FirstTry
       \/ pc \in Reading
       \/ pc \in Resetting /\ Succeeded    \* wait_converged, after the rollback
    /\ session' = "opening" /\ queue' = Abandoned
    /\ UNCHANGED <<twin, file, pc, run, edits, sent, tries, reply, loopVars,
                   strayVars>>

Again(calls, answer) ==
    /\ session = "opening" /\ session' = "open" /\ pc \in Waiting /\ reply = NIL
    /\ tries' = tries + 1
    /\ queue' = calls /\ reply' = answer
    /\ UNCHANGED <<twin, file, pc, run, edits, sent, loopVars, strayVars>>

Resend          == Again(Append(queue, <<sent, TRUE>>), NIL)
CannotReconnect == Again(queue, "fail")


Failed == reply = "fail" \/ (reply = NIL /\ (pc = "planting" \/ tries = 2))

(* The call in progress is over, with an answer or without.                *)
HangUp ==
    /\ queue' = Abandoned /\ reply' = NIL
    /\ sent' = NIL /\ tries' = 0 /\ session' = "open"

----------------------------------------------------------------------------
(* run_matrix.  A mutated form does not look at what is on record.         *)
StartsAfresh == {}

ExistingRunIds == Recorded

Start ==
    /\ pc = "off" /\ starts < MaxStarts
    /\ starts' = starts + 1
    /\ done' = ExistingRunIds
    /\ limit' \in Run
    /\ golden' = NIL /\ skipped' = {} /\ fresh' = 0 /\ run' = 1
    /\ pc' = "pick"
    /\ UNCHANGED <<twin, file, edits, callVars, strayVars>>

Goto(label) ==
    /\ pc' = label
    /\ UNCHANGED <<twin, file, run, edits, callVars, loopVars, strayVars>>

Pick ==
    /\ pc = "pick" /\ fresh < limit /\ run \in Run
    /\ IF run \in done
       THEN run' = run + 1 /\ UNCHANGED pc
       ELSE pc' = (IF golden = NIL THEN "baseline" ELSE "reset") /\ UNCHANGED run
    /\ UNCHANGED <<twin, file, edits, callVars, loopVars, strayVars>>

Return ==
    /\ pc = "pick" /\ (fresh >= limit \/ run \notin Run)
    /\ Goto("off")

(* HarnessStepFailed: nothing was scored, the next invocation tries again. *)
Skip ==
    /\ skipped' = skipped \cup {run} /\ run' = run + 1
    /\ pc' = "pick"
    /\ UNCHANGED <<twin, file, edits, golden, done, fresh, limit, starts,
                   strayVars>>

(* baseline: any exception here ends the batch.                            *)
Converged ==
    /\ At("baseline") /\ twin \cap Loud = {}
    /\ Goto("capture")

BaselineFails ==
    /\ At("baseline") \/ At("capture")
    /\ Goto("off")

(* A mutated form takes any state for golden.                              *)
AnyGolden(s) == TRUE

Trusted(s) == Known = {} \/ s \in Known

Baseline ==
    /\ At("capture")
    /\ golden' = twin
    /\ pc' = IF Trusted(twin) THEN "reset" ELSE "off"
    /\ UNCHANGED <<twin, file, run, edits, callVars, done, skipped, fresh,
                   limit, starts, strayVars>>

Reset ==
    /\ pc = "reset" /\ Send(Rollback(golden), "resetting")
    /\ meddled' = FALSE
    /\ UNCHANGED <<twin, file, run, edits, loopVars, left, loose, strays>>

ResetDone ==
    /\ At("resetting") /\ Succeeded
    /\ pc' = "plant" /\ HangUp
    /\ UNCHANGED <<twin, file, run, edits, loopVars, strayVars>>

Inject ==
    /\ pc = "plant"
    /\ Send([do |-> "inject", arg |-> {Plan[run]}], "planting")
    /\ UNCHANGED <<twin, file, run, edits, loopVars, strayVars>>

Injected ==
    /\ pc = "planting" /\ reply = "ok"
    /\ pc' = "settle" /\ HangUp
    /\ UNCHANGED <<twin, file, run, edits, loopVars, strayVars>>

PrepareFails ==
    /\ pc \in {"resetting", "planting"} /\ Failed
    /\ Skip /\ HangUp

SettleFails == At("settle") /\ Skip /\ UNCHANGED callVars

Settled ==
    /\ At("settle")
    /\ pc' = "agent" /\ edits' = 0
    /\ UNCHANGED <<twin, file, run, callVars, loopVars, strayVars>>

(* The agent edits the twin and rolls it back; its loop goes on with an    *)
(* error when a call fails.                                                *)
AgentCalls ==
    /\ pc = "agent" /\ edits < MaxEdits
    /\ Send(Edits, "calling")
    /\ edits' = edits + 1
    /\ UNCHANGED <<twin, file, run, loopVars, strayVars>>

AgentGoesOn ==
    /\ pc = "calling" /\ (Succeeded \/ Failed)
    /\ pc' = "agent" /\ HangUp
    /\ UNCHANGED <<twin, file, run, edits, loopVars, strayVars>>

(* It answers, crashes, or is killed, be it in the middle of a call, or is *)
(* believed to be: then it goes on calling.                                *)
MayLeaveAgent ==
    /\ \E n \in 0..MaxStrays - strays :
        /\ n > 0 => pc \in {"agent", "calling"}
        /\ loose' = loose + n /\ strays' = strays + n
    /\ UNCHANGED <<left, meddled>>

AgentEnds ==
    /\ At("agent") \/ At("calling")
    /\ pc' = "judge" /\ HangUp
    /\ MayLeaveAgent
    /\ UNCHANGED <<twin, file, run, edits, loopVars>>

(* RunnerUnavailable: reset, and the batch ends with nothing recorded.     *)
AgentUnavailable ==
    /\ pc = "agent" /\ Send(Rollback(golden), "bailing")
    /\ UNCHANGED <<twin, file, run, edits, loopVars, strayVars>>

Bailed ==
    /\ At("bailing") /\ (Succeeded \/ Failed)
    /\ pc' = "off" /\ HangUp
    /\ UNCHANGED <<twin, file, run, edits, loopVars, strayVars>>

Judge ==
    /\ At("judge")
    /\ Goto("append")

(* get_change may fail for good, and takes the batch with it.              *)
LookupFails == At("append") /\ Goto("off")

AppendRecord ==
    /\ At("append")
    /\ file' = Append(file, [run |-> run, golden |-> golden])
    /\ fresh' = fresh + 1
    /\ pc' = "clean"
    /\ UNCHANGED <<twin, run, edits, callVars, golden, done, skipped, limit,
                   starts, strayVars>>

CleanUp ==
    /\ pc = "clean" /\ Send(Rollback(golden), "cleaning")
    /\ UNCHANGED <<twin, file, run, edits, loopVars, strayVars>>

CleanedUp ==
    /\ At("cleaning") /\ (Succeeded \/ Failed)
    /\ pc' = "pick" /\ run' = run + 1 /\ HangUp
    /\ UNCHANGED <<twin, file, edits, loopVars, strayVars>>

(* The process dies; what it had sent is still served, and its agent may   *)
(* outlive it.                                                             *)
Crash ==
    /\ pc # "off"
    /\ pc' = "off" /\ HangUp
    /\ MayLeaveAgent
    /\ UNCHANGED <<twin, file, run, edits, loopVars>>

----------------------------------------------------------------------------
Process ==
    \/ Pick \/ Return \/ Converged \/ BaselineFails \/ Baseline
    \/ Reset \/ ResetDone \/ Inject \/ Injected \/ PrepareFails
    \/ SettleFails \/ Settled
    \/ AgentCalls \/ AgentGoesOn \/ AgentEnds \/ AgentUnavailable \/ Bailed
    \/ Judge \/ LookupFails \/ AppendRecord \/ CleanUp \/ CleanedUp \/ Reconnect

Reconnected == Resend \/ CannotReconnect

Server == ServeOk \/ ServeFails \/ LateWrites \/ StrayCalls

Next == Start \/ Process \/ Reconnected \/ Server \/ OperatorGolden \/ Crash

Spec == Init /\ [][Next]_vars

(* Every call is under a time-out (anyio.fail_after, clients.py).  Opening *)
(* a session is not, nor is anything asked of the server.                  *)
FairSpec == Spec /\ WF_vars(Process)

----------------------------------------------------------------------------
(* "Resumable, one JSONL line per run": whatever fails, dies and is        *)
(* invoked again, no run is recorded twice.                                *)
RecordedOnce == \A i, j \in DOMAIN file : file[i].run = file[j].run => i = j

(* All the records of a matrix were scored against one golden state        *)
(* (baseline refuses a twin "a previous run probably left" planted).       *)
OneGolden == \A i, j \in DOMAIN file : file[i].golden = file[j].golden

(* An agent starts on the golden twin with its scenario's fault and no     *)
(* other, and nothing that the harness gave up on can still write: the     *)
(* reset of a run comes behind every call abandoned before it.  What an    *)
(* agent left behind or a command left under way does after that reset was *)
(* sent, nothing in the harness keeps out, nor notices.                    *)
StartsPlanted ==
    [][pc # "agent" /\ pc # "calling" /\ pc' = "agent" =>
         meddled \/ (twin' = golden \cup {Plan[run]} /\ queue' = <<>>)]_vars

(* A batch accounts for every run it has passed: on record or skipped, and *)
(* never both, so the skipped are what the next invocation will try.       *)
Accounted ==
    /\ pc # "off" => \A r \in Run : r < run => r \in Recorded \cup skipped
    /\ pc # "off" => skipped \cap Recorded = {}


(* "a planted twin must stop the matrix" (run_one, at the call of          *)
(* baseline).                                                              *)
PlantedTwinStops == pc \in {"reset", "resetting"} => golden = {}
============================================================================

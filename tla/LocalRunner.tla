---------------------------- MODULE LocalRunner ----------------------------
(***************************************************************************)
(* The local runner: a chat loop gives a model the tools of both servers,  *)
(* runs what it asks for, and pushes back on unfinished answers; in team   *)
(* mode a tool of the main loop runs a nested loop with the tools of one   *)
(* role.  Runs follow one another on one chat object and one pair of       *)
(* clients.  The model and the servers are external: a model answers       *)
(* anything, a call may be served late, or its answer be lost.             *)
(***************************************************************************)
EXTENDS Naturals, Sequences, FiniteSets, SequencesExt

CONSTANTS Tool,       \* READ_TOPOLOGY and the MCP tools
          Verifier,   \* those of netverify
          Commander,  \* COMMANDER_TOOLS
          Role, Listed(_), Disallowed(_), RoleTurns(_),   \* the role files
          MaxTurns, MaxNudges,
          MaxRuns,    \* runs of the batch
          MaxAsked,   \* tool calls that the model asks for in all of them
          NIL

Topology == "read_topology"
Apply == "apply_config"
Export == "export_change"

ASSUME LocalRunnerAssumption ==
    /\ {Topology, Apply, Export} \subseteq Tool \ Verifier
    /\ Verifier \cup Commander \subseteq Tool
    /\ Role \cap (Tool \cup {"main", NIL}) = {} /\ NIL \notin Tool
    /\ \A r \in Role : Listed(r) \subseteq Tool /\ RoleTurns(r) \in Nat
    /\ MaxTurns \in Nat /\ MaxNudges \in Nat /\ MaxRuns \in Nat /\ MaxAsked \in Nat

VARIABLES team, verifier,   \* the configuration of the batch
          phase, run,
          loops,      \* the main loop and, above it, a nested one
          wait,       \* for the servers' "list"s of tools, for a session to "open"
          attempt,    \* 1, or 2 when the call at hand is sent again
          tokens, think,    \* of the chat object; whether it sends the field
          before,     \* its tokens when the run began
          calls,      \* CallResults that the clients have recorded
          output,     \* what the last run came to
          served, made, lost, late,   \* the servers, see below
          spent, asked      \* tokens of this run; calls asked for so far

configVars == <<team, verifier>>
chatVars == <<tokens, think, spent>>
serverVars == <<served, made, lost, late>>
vars == <<configVars, phase, run, loops, wait, attempt, chatVars, before, calls, output,
          serverVars, asked>>

Agent == {"main"} \cup Role
Name == Tool \cup Role \cup {NIL}   \* a role: launch_agent; NIL: no such tool, bad arguments
Request == [tool : Tool, by : Agent, run : 1..MaxRuns]
Text == {"report", "prose", "empty"}   \* "report": it has a "root_cause"

Budget(by) == IF by \in Role /\ RoleTurns(by) > 0 THEN RoleTurns(by) ELSE MaxTurns

TypeOK ==
    /\ team \in BOOLEAN /\ verifier \in BOOLEAN
    /\ phase \in {"idle", "running", "stopped"} /\ run \in 0..MaxRuns
    /\ Len(loops) <= 2 /\ (phase = "running" <=> loops # <<>>)
    /\ \A i \in DOMAIN loops :
         /\ loops[i].by \in Agent /\ (loops[i].by = "main" <=> i = 1)
         /\ loops[i].turns \in 0..Budget(loops[i].by)
         /\ loops[i].nudges \in 0..MaxNudges
         /\ loops[i].todo \in Seq(Name)
    /\ wait \in {"none", "list", "open"} /\ (wait # "none" => phase = "running")
    /\ attempt \in {1, 2} /\ think \in BOOLEAN
    /\ tokens \in Nat /\ before \in Nat /\ spent \in Nat /\ asked \in 0..MaxAsked
    /\ calls \in Seq([tool : Tool, ok : BOOLEAN, id : Nat])
    /\ served \subseteq Tool \X Agent /\ late \subseteq Request
    /\ made \in Seq(1..MaxRuns) /\ lost \subseteq DOMAIN made

Init ==
    /\ team \in BOOLEAN /\ verifier \in BOOLEAN
    /\ phase = "idle" /\ run = 0 /\ loops = <<>> /\ wait = "none" /\ attempt = 1
    /\ tokens = 0 /\ think = TRUE /\ spent = 0 /\ before = 0
    /\ calls = <<>> /\ output = NIL
    /\ served = {} /\ made = <<>> /\ lost = {} /\ late = {} /\ asked = 0

Top == Last(loops)
Loop(by) == [by |-> by, turns |-> 0, nudges |-> 0, todo |-> <<>>]
Active == phase = "running" /\ wait = "none"
Busy == Active /\ Top.todo # <<>>
Called == Head(Top.todo)

----------------------------------------------------------------------------
(* Tools.  A mutated form gives a role what its file lists, whatever the   *)
(* configuration offers.                                                   *)

Available == IF verifier THEN Tool ELSE Tool \ (Verifier \cup {Export})

ToolsAsListed(by) ==
    IF by \in Role THEN Listed(by) \ Disallowed(by)
    ELSE IF team THEN Available \cap Commander ELSE Available

Toolset(by) ==
    IF by \in Role THEN (Listed(by) \ Disallowed(by)) \cap Available
    ELSE IF team THEN Available \cap Commander ELSE Available

Launches(name) ==
    /\ name \in Role /\ team /\ Top.by = "main"
    /\ verifier \/ Listed(name) \cap Verifier = {}

----------------------------------------------------------------------------
(* The runs of a batch: run_one clears the clients' records, and the       *)
(* runner asks both servers for their tools.  A mutated form keeps the     *)
(* records.                                                                *)
KeepCalls == calls

FreshCalls == <<>>

StartRun ==
    /\ phase = "idle" /\ run < MaxRuns
    /\ phase' = "running" /\ run' = run + 1
    /\ calls' = FreshCalls
    /\ before' = tokens /\ spent' = 0
    /\ loops' = <<Loop("main")>> /\ wait' = "list"
    /\ output' = NIL
    /\ UNCHANGED <<configVars, attempt, tokens, think, serverVars, asked>>

(* An exception on the way ends the run: a scored failure with nothing in  *)
(* its output, or, if there is no model at all, the batch.                 *)
Raise(to) ==
    /\ phase' = to /\ loops' = <<>> /\ wait' = "none" /\ attempt' = 1
    /\ output' = NIL
    /\ UNCHANGED <<configVars, run, chatVars, before, calls, asked>>

(* The lists are awaited without a limit of time, and not asked for again. *)
ToolsListed ==
    /\ wait = "list" /\ wait' = "none"
    /\ UNCHANGED <<configVars, phase, run, loops, attempt, chatVars, before, calls, output,
                   serverVars, asked>>

ListFails ==
    /\ wait = "list"
    /\ Raise("idle")
    /\ UNCHANGED serverVars

----------------------------------------------------------------------------
(* What the scorer reads: the last text (NIL if the turns ran out), the    *)
(* changes of the apply_config calls that succeeded, each at the place of  *)
(* its call, and the run's tokens.  A mutated form reports the tokens of   *)
(* the chat object.                                                        *)
AllTokens == tokens'

OwnTokens == tokens' - before

Applied == {i \in 1..Len(calls) : calls[i].tool = Apply /\ calls[i].ok}

Output(text) ==
    [text |-> text,
     changes |-> [i \in Applied |-> calls[i].id],
     tokens |-> OwnTokens]

(* A loop returns: the main one to the harness, a nested one as the result *)
(* of the launch.                                                          *)
Return(text) ==
    IF Len(loops) = 1
    THEN /\ phase' = "idle" /\ loops' = <<>>
         /\ output' = Output(text)
    ELSE /\ loops' = <<[loops[1] EXCEPT !.todo = Tail(@)]>>
         /\ UNCHANGED <<phase, output>>

(* A mutated form takes one turn too many.                                 *)
OneMoreTurn(loop) == loop.turns <= Budget(loop.by)

TurnsLeft(loop) == loop.turns < Budget(loop.by)

OutOfTurns ==
    /\ Active /\ Top.todo = <<>> /\ ~ TurnsLeft(Top)
    /\ UNCHANGED <<configVars, run, wait, attempt, chatVars, before, calls, serverVars, asked>>
    /\ Return(NIL)

MayChat == Active /\ Top.todo = <<>> /\ TurnsLeft(Top)

ChatUses ==
    /\ tokens' = tokens + 1 /\ spent' = spent + 1
    /\ UNCHANGED <<configVars, think, run, wait, attempt, before, calls, serverVars>>

(* MaxAsked bounds the calls; only its turns keep a model from asking over *)
(* and over for what there is not.                                         *)
ReplyCalls ==
    /\ MayChat
    /\ \E names \in SeqOf(Name, 2) \ {<<>>} :
         /\ \/ names = <<NIL>> /\ asked' = asked
            \/ asked' = asked + Len(names) /\ asked' <= MaxAsked
         /\ loops' = [loops EXCEPT ![Len(loops)] =
                        [Top EXCEPT !.turns = @ + 1, !.todo = names]]
    /\ ChatUses
    /\ UNCHANGED <<phase, output>>

(* Only the main loop must end in a report.                                *)
Unfinished(loop, text) == text = "empty" \/ (loop.by = "main" /\ text # "report")

(* A nudge uses up a turn.                                                 *)
Nudged(loop) == [loop EXCEPT !.turns = @ + 1, !.nudges = @ + 1]

ReplyText ==
    /\ MayChat /\ ChatUses
    /\ \E text \in Text :
         IF Top.nudges < MaxNudges /\ Unfinished(Top, text)
         THEN /\ loops' = [loops EXCEPT ![Len(loops)] = Nudged(@)]
              /\ UNCHANGED <<phase, output>>
         ELSE Return(text)
    /\ UNCHANGED asked

(* A server that does not know the field is asked again without it, now    *)
(* and from here on.                                                       *)
ThinkRejected ==
    /\ MayChat /\ think
    /\ think' = FALSE
    /\ UNCHANGED <<configVars, phase, run, loops, wait, attempt, tokens, spent, before, calls,
                   output, serverVars, asked>>

(* Timed out, or dropped: this run has failed.  Unreachable, no such       *)
(* model, not JSON, HTTP error: there will be no runs.                     *)
ChatFails ==
    /\ MayChat
    /\ \E to \in {"idle", "stopped"} : Raise(to)
    /\ UNCHANGED serverVars

----------------------------------------------------------------------------
(* Calls.  `served`: which tool has been served to whom; `made`: the run   *)
(* of each change made; `lost`: changes whose answer nobody got; `late`:   *)
(* requests given up on that the server may still serve.                   *)

(* A call that cannot be dispatched is answered with an error.  In a       *)
(* mutated form it stays to be dispatched.                                 *)
StillToDo(loop) == loop

Told(loop) == [loop EXCEPT !.todo = Tail(@)]

Refused ==
    /\ Busy
    /\ IF Called \in Tool THEN Called \notin Toolset(Top.by) ELSE ~ Launches(Called)
    /\ loops' = [loops EXCEPT ![Len(loops)] = Told(@)]
    /\ UNCHANGED <<configVars, phase, run, wait, attempt, chatVars, before, calls, output,
                   serverVars, asked>>

Launch ==
    /\ Busy /\ Launches(Called)
    /\ loops' = Append(loops, Loop(Called))
    /\ UNCHANGED <<configVars, phase, run, wait, attempt, chatVars, before, calls, output,
                   serverVars, asked>>

Calling == Busy /\ Called \in Toolset(Top.by)
This == [tool |-> Called, by |-> Top.by, run |-> run]

Serve(req) ==
    /\ served' = served \cup {<<req.tool, req.by>>}
    /\ made' = IF req.tool = Apply THEN Append(made, req.run) ELSE made

Unseen(req) == lost' = IF req.tool = Apply THEN lost \cup {Len(made) + 1} ELSE lost

(* The answer arrives and is recorded, also when it says "error".          *)
Answered ==
    /\ Calling /\ Called # Topology
    /\ \E ok \in BOOLEAN :
         /\ IF ok THEN Serve(This) ELSE UNCHANGED <<served, made>>
         /\ calls' = Append(calls, [tool |-> Called, ok |-> ok, id |-> Len(made')])
    /\ loops' = [loops EXCEPT ![Len(loops)] = Told(@)]
    /\ attempt' = 1
    /\ UNCHANGED <<configVars, phase, run, wait, chatVars, before, output, lost, late, asked>>

(* No answer in time, or the protocol's error: once more over a fresh      *)
(* session.  A second failure is the caller's, and an error of any other   *)
(* kind at once.                                                           *)
Again == attempt = 1

NoAnswer ==
    /\ Calling /\ Called # Topology
    /\ \/ Serve(This) /\ Unseen(This) /\ UNCHANGED late
       \/ late' = late \cup {This} /\ UNCHANGED <<served, made, lost>>
       \/ UNCHANGED serverVars
    /\ \/ /\ Again /\ wait' = "open"
          /\ UNCHANGED <<configVars, phase, run, loops, attempt, chatVars, before, calls,
                         output, asked>>
       \/ Raise("idle")

(* reconnect() waits for the session without a limit of time, or raises.   *)
Reopened ==
    /\ wait = "open" /\ wait' = "none" /\ attempt' = 2
    /\ UNCHANGED <<configVars, phase, run, loops, chatVars, before, calls, output,
                   serverVars, asked>>

CannotReopen ==
    /\ wait = "open"
    /\ Raise("idle")
    /\ UNCHANGED serverVars

(* read_topology is a resource read: not recorded, not sent again, and not *)
(* under a time-out.                                                       *)
TopologyRead ==
    /\ Calling /\ Called = Topology
    /\ loops' = [loops EXCEPT ![Len(loops)] = Told(@)]
    /\ served' = served \cup {<<Called, Top.by>>}
    /\ UNCHANGED <<configVars, phase, run, wait, attempt, chatVars, before, calls, output,
                   made, lost, late, asked>>

TopologyFails ==
    /\ Calling /\ Called = Topology
    /\ Raise("idle")
    /\ UNCHANGED serverVars

ServeLate ==
    /\ \E req \in late : Serve(req) /\ Unseen(req) /\ late' = late \ {req}
    /\ UNCHANGED <<configVars, phase, run, loops, wait, attempt, chatVars, before, calls,
                   output, asked>>

----------------------------------------------------------------------------
Chat == OutOfTurns \/ ReplyCalls \/ ReplyText \/ ThinkRejected \/ ChatFails
Dispatch == Refused \/ Launch \/ Answered \/ NoAnswer
Resource == TopologyRead \/ TopologyFails
Session == ToolsListed \/ ListFails \/ Reopened \/ CannotReopen

Next == StartRun \/ Chat \/ Dispatch \/ Resource \/ Session \/ ServeLate

Spec == Init /\ [][Next]_vars

(* A model call and a tool call end by their time-outs, if by nothing      *)
(* else.  Nothing bounds a list of tools, a session's opening or the read  *)
(* of a resource.                                                          *)
FairSpec == Spec /\ WF_vars(Chat \/ Dispatch)

----------------------------------------------------------------------------
(* A server serves an agent only what its role file, the commander's list  *)
(* and the ablation leave it, through launches and retries alike           *)
(* ("enforced by the harness rather than trusted to the model").           *)
OnlyAllowedServed ==
    \A tool \in Tool, by \in Agent : <<tool, by>> \in served =>
      /\ by \in Role => tool \in Listed(by) \ Disallowed(by)
      /\ by = "main" /\ team => tool \in Commander
      /\ ~ verifier => tool \notin Verifier \cup {Export}

(* The changes of an output were made by that very run, each is listed     *)
(* once and in the order in which they were made, and none that was        *)
(* answered is missing: only a change whose answer got lost goes           *)
(* unreported (LocalRunner.output, HttpToolClient.call).                   *)
ReportedChangesAreOwn ==
    output # NIL =>
      LET listed == output.changes
      IN /\ {listed[i] : i \in DOMAIN listed} =
              {k \in DOMAIN made : made[k] = run /\ k \notin lost}
         /\ \A i, j \in DOMAIN listed : i < j => listed[i] < listed[j]

(* A run is charged for its own model calls, nested loops included, and    *)
(* not for those of runs that failed before it.                            *)
ChargedForItself == output # NIL => output.tokens = spent

(* A run ends, whatever the model says and however often calls are lost,   *)
(* or is held for ever by a server in one of the three waits that have no  *)
(* time-out (HttpToolClient.call, ToolLoop.run).                           *)
Held == wait # "none" \/ (Calling /\ Called = Topology)

RunEnds == (phase = "running") ~> (phase # "running" \/ []Held)
============================================================================

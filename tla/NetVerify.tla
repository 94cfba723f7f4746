----------------------------- MODULE NetVerify -----------------------------
(***************************************************************************)
(* netverify.intent_check: load the policy, wait for convergence, capture  *)
(* the twin, probe, evaluate the rules, and sign an attestation when all   *)
(* passed.  netverify is a process of its own and takes no lock.           *)
(*                                                                         *)
(* The twin's configuration is one value; `rib` is the configuration the   *)
(* routers have caught up with, which is what probes, session states and   *)
(* routing tables show; nothing bounds how long they stay behind.  The     *)
(* rules of a policy are split by what becomes of them when their command  *)
(* fails or times out: sessions and paths that must exist are then judged  *)
(* broken, paths and routes that must not exist are judged absent.         *)
(***************************************************************************)
EXTENDS Naturals

CONSTANTS State,
          Policy,      \* versions of the policy file
          Sessions(_), \* states with the policy's ospf_full, bgp_established up
          Reaches(_),  \* states in which its allow and path_mtu probes get through
          Denies(_),   \* states in which its deny probes do not
          NoLeak(_),   \* states that break no no_route_leak rule
          Check,       \* calls of intent_check: each element serves one
          MaxPolls,    \* polls before wait_converged times out
          Quiet,       \* nobody writes the twin or the policy during a check
          Failures,    \* commands that may fail, see Command
          Blank,       \* a reading of the tables whose commands failed
          NIL

(* "tables" are the readings of the routing tables, "closed" the commands  *)
(* of session, allow and path_mtu rules, "open" those of every deny or     *)
(* no_route_leak rule that is broken (fewer of them failing hide nothing). *)
Command == {"tables", "closed", "open"}

ASSUME NetVerifyAssumption ==
    /\ MaxPolls \in Nat \ {0, 1}
    /\ Quiet \in BOOLEAN /\ Failures \subseteq Command
    /\ NIL \notin State \cup Policy \cup {Blank} /\ Blank \notin State

VARIABLES twin, rib, policy,
          check,      \* the calls of intent_check
          reports     \* verification reports handed to the agent

verifyVars == <<twin, rib, policy, check, reports>>

MustBe(p) == Sessions(p) \cap Reaches(p)
MustNotBe(p) == Denies(p) \cap NoLeak(p)
Satisfies(s, p) == s \in MustBe(p) \cap MustNotBe(p)

(* `missed` and `paused` record what befell the check: commands that       *)
(* failed, and tables that stood still over a whole poll interval while    *)
(* the routers were behind.  The code knows of neither.                    *)
NoCheck == [pc |-> "new", rules |-> NIL, sha |-> NIL, seen |-> NIL, polls |-> 0,
            conv |-> FALSE, snap |-> NIL, ok |-> FALSE, missed |-> {}, paused |-> FALSE]

CheckRecord ==
    [pc : {"new", "sha", "poll", "capture", "probe", "rules", "report", "done"},
     rules : Policy \cup {NIL}, sha : Policy \cup {NIL},
     seen : State \cup {Blank, NIL}, polls : 0..MaxPolls, conv : BOOLEAN,
     snap : State \cup {NIL}, ok : BOOLEAN, missed : SUBSET Command, paused : BOOLEAN]

(* An attestation signs snapshot and sha; a report that failed has none.   *)
(* `conv` is the rule "converged", the first of a report whose wait ended  *)
(* at the deadline.                                                        *)
Report == [passed : BOOLEAN, conv : BOOLEAN, snap : State, sha : Policy,
           missed : SUBSET Command, paused : BOOLEAN]

VerifyTypeOK ==
    /\ twin \in State /\ rib \in State /\ policy \in Policy
    /\ check \in [Check -> CheckRecord]
    /\ reports \subseteq Report

VerifyInit ==
    /\ twin \in State /\ rib = twin /\ policy \in Policy
    /\ check = [c \in Check |-> NoCheck]
    /\ reports = {}

Active == {c \in Check : check[c].pc \notin {"new", "done"}}

Goes(c, pc, upd) == check' = [check EXCEPT ![c] = [upd EXCEPT !.pc = pc]]

----------------------------------------------------------------------------
(* The world around a check.                                               *)

Disturbs == Quiet => Active = {}

TwinBecomes(s) == Disturbs /\ twin' = s /\ UNCHANGED <<rib, policy, check, reports>>

EditPolicy ==
    /\ Disturbs
    /\ \E p \in Policy \ {policy} : policy' = p
    /\ UNCHANGED <<twin, rib, check, reports>>

Settle == rib # twin /\ rib' = twin /\ UNCHANGED <<twin, policy, check, reports>>

----------------------------------------------------------------------------
(* The file is parsed and then read again for its hash.                    *)
LoadPolicy(c) ==
    /\ check[c].pc = "new"
    /\ Goes(c, "sha", [check[c] EXCEPT !.rules = policy])
    /\ UNCHANGED <<twin, rib, policy, reports>>

HashPolicy(c) ==
    /\ check[c].pc = "sha"
    /\ Goes(c, "poll", [check[c] EXCEPT !.sha = policy])
    /\ UNCHANGED <<twin, rib, policy, reports>>

(* The tables are those of the previous poll: two readings that failed     *)
(* are alike.  A mutated form does not compare.                            *)
AnyReading(c, reading) == TRUE

Unchanged(c, reading) == check[c].seen = reading

(* A mutated form polls on for ever.                                       *)
NoDeadline(c) == TRUE

TimeLeft(c) == check[c].polls + 1 < MaxPolls

(* One poll: sessions and tables are read; all up and unchanged ends the   *)
(* wait, and so does the deadline, at any poll.  A session whose command   *)
(* fails is down.                                                          *)
Readings == {rib} \cup (IF "tables" \in Failures THEN {Blank} ELSE {})

Ups(c) == {u \in BOOLEAN : /\ u => rib \in Sessions(check[c].rules)
                           /\ "closed" \notin Failures =>
                                (u <=> rib \in Sessions(check[c].rules))}

Polled(c, reading) ==
    [check[c] EXCEPT
        !.seen = reading, !.polls = @ + 1,
        !.missed = IF reading = Blank THEN @ \cup {"tables"} ELSE @,
        !.paused = @ \/ (rib # twin /\ check[c].seen = rib)]

Poll(c) ==
    /\ check[c].pc = "poll"
    /\ \E reading \in Readings, up \in Ups(c) :
         IF up /\ Unchanged(c, reading)
         THEN Goes(c, "capture", [Polled(c, reading) EXCEPT !.conv = TRUE])
         ELSE \/ TimeLeft(c) /\ Goes(c, "poll", Polled(c, reading))
              \/ Goes(c, "capture", Polled(c, reading))
    /\ UNCHANGED <<twin, rib, policy, reports>>

Capture(c) ==
    /\ check[c].pc = "capture"
    /\ Goes(c, "probe", [check[c] EXCEPT !.snap = twin])
    /\ UNCHANGED <<twin, rib, policy, reports>>

(* A probe that fails or times out is "unreachable".  A mutated form lets  *)
(* such a probe pass whatever its rule expects.                            *)
ProbesForgiven(c, fail) ==
    /\ rib \in Reaches(check[c].rules) \/ "closed" \in fail
    /\ rib \in Denies(check[c].rules) \/ "open" \in fail

ProbesPass(c, fail) ==
    /\ rib \in Reaches(check[c].rules) /\ "closed" \notin fail
    /\ rib \in Denies(check[c].rules) \/ "open" \in fail

Failing == SUBSET (Failures \cap {"closed", "open"})

RunProbes(c) ==
    /\ check[c].pc = "probe"
    /\ \E fail \in Failing :
         Goes(c, "rules", [check[c] EXCEPT !.ok = ProbesPass(c, fail),
                                           !.missed = @ \cup fail])
    /\ UNCHANGED <<twin, rib, policy, reports>>

RulesHold(c, fail) ==
    /\ check[c].ok
    /\ rib \in Sessions(check[c].rules) /\ "closed" \notin fail
    /\ rib \in NoLeak(check[c].rules) \/ "open" \in fail

Evaluate(c) ==
    /\ check[c].pc = "rules"
    /\ \E fail \in Failing :
         Goes(c, "report", [check[c] EXCEPT !.ok = RulesHold(c, fail),
                                            !.missed = @ \cup fail])
    /\ UNCHANGED <<twin, rib, policy, reports>>

Answer(c) ==
    /\ check[c].pc = "report"
    /\ reports' = reports \cup
         {[passed |-> check[c].ok /\ check[c].conv, conv |-> check[c].conv,
           snap |-> check[c].snap, sha |-> check[c].sha, missed |-> check[c].missed, paused |-> check[c].paused]}
    /\ Goes(c, "done", NoCheck)
    /\ UNCHANGED <<twin, rib, policy>>

(* The policy does not load, the tables do not parse, or a node cannot be  *)
(* captured: the tool call fails and there is no report.                   *)
Raises(c) ==
    /\ check[c].pc \in {"new", "sha", "poll", "capture"}
    /\ Goes(c, "done", NoCheck)
    /\ UNCHANGED <<twin, rib, policy, reports>>

IntentCheck(c) ==
    \/ LoadPolicy(c) \/ HashPolicy(c) \/ Poll(c) \/ Capture(c)
    \/ RunProbes(c) \/ Evaluate(c) \/ Answer(c) \/ Raises(c)

----------------------------------------------------------------------------
(* What a check saw of the routers was theirs: no reading of the tables    *)
(* failed, and they never stood still over a poll interval while behind.   *)
SawRouters(r) == ~ r.paused /\ "tables" \notin r.missed

(* "netverify's signed statement that a snapshot satisfied a policy"       *)
(* (models.Attestation), as far as the code goes: if the check saw the     *)
(* routers as they were, a state with a passed report has everything the   *)
(* policy demands, whatever other command failed; and nothing the policy   *)
(* forbids, unless the very command that would have shown it failed.       *)
Attests(r, s, p) ==
    SawRouters(r) => /\ s \in MustBe(p)
                     /\ "open" \notin r.missed => s \in MustNotBe(p)

AttestationTrue == \A r \in reports : r.passed => Attests(r, r.snap, r.sha)

(* And a good twin is not rejected: a check that converged, saw the        *)
(* routers as they were and lost no command of a session, allow or MTU     *)
(* rule passes a state that satisfies the policy.                          *)
GoodTwinPasses ==
    \A r \in reports :
      r.conv /\ SawRouters(r) /\ "closed" \notin r.missed /\ Satisfies(r.snap, r.sha)
        => r.passed
============================================================================

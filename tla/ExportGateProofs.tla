-------------------------- MODULE ExportGateProofs --------------------------
(***************************************************************************)
(* Proofs about NetVerify and ExportGate, for any states, policies, rules, *)
(* checks, exports and bounds.  Types, decisions and answers need nothing  *)
(* of the world around a check.  What an attestation is worth needs a twin *)
(* and a policy that keep still during a check (Quiet); commands fail and  *)
(* routers lag behind as they like, and the statements say what that does. *)
(***************************************************************************)
EXTENDS ExportGate, TLAPS

----------------------------------------------------------------------------
(* Types.  A report is made of what the check before it has put in place,  *)
(* and a check that polls has a poll left.                                 *)
Staged(x) ==
    /\ x.pc \notin {"new", "done"} => x.rules \in Policy
    /\ x.pc \notin {"new", "sha", "done"} => x.sha \in Policy
    /\ x.pc \notin {"new", "sha", "poll", "capture", "done"} => x.snap \in State
    /\ x.pc \in {"new", "sha", "poll"} => x.polls < MaxPolls

VerifyInv == VerifyTypeOK /\ \A c \in Check : Staged(check[c])

(* The world around a check (Apply, Rollback, EditPolicy, Settle).         *)
Around == (\E s \in State : TwinBecomes(s)) \/ EditPolicy \/ Settle

LEMMA AroundTyped == ASSUME VerifyInv, Around PROVE VerifyInv'
  BY DEF VerifyInv, VerifyTypeOK, Around, TwinBecomes, EditPolicy, Settle

LEMMA GoesOn ==
    ASSUME check \in [Check -> CheckRecord], NEW c \in Check, NEW pc, NEW upd,
           Goes(c, pc, upd)
    PROVE  /\ check'[c] = [upd EXCEPT !.pc = pc]
           /\ \A d \in Check \ {c} : check'[d] = check[d]
           /\ [upd EXCEPT !.pc = pc] \in CheckRecord => check' \in [Check -> CheckRecord]
  BY DEF Goes

LEMMA NoCheckTyped == NoCheck \in CheckRecord /\ Staged(NoCheck)
  BY NetVerifyAssumption DEF NoCheck, CheckRecord, Staged

LEMMA NoCheckDone ==
    /\ [NoCheck EXCEPT !.pc = "done"] \in CheckRecord
    /\ Staged([NoCheck EXCEPT !.pc = "done"])
    /\ [NoCheck EXCEPT !.pc = "done"].pc = "done"
    /\ [NoCheck EXCEPT !.pc = "done"].conv = FALSE
<1> DEFINE n == [NoCheck EXCEPT !.pc = "done"]
<1>1. n \in CheckRecord
  BY NoCheckTyped DEF CheckRecord
<1>2. n.pc = "done" /\ n.conv = FALSE
  BY DEF NoCheck
<1> QED
  BY <1>1, <1>2 DEF Staged

(* What a check leaves alone.                                              *)
LEMMA IntentCheckFrame ==
    ASSUME NEW c \in Check, IntentCheck(c)
    PROVE  UNCHANGED <<twin, rib, policy>> /\ (~ Answer(c) => reports' = reports)
  BY DEF IntentCheck, LoadPolicy, HashPolicy, Poll, Capture, RunProbes, Evaluate, Answer,
         Raises

(* The record of a poll, field by field.                                   *)
LEMMA PolledFields ==
    ASSUME NEW c \in Check, check[c] \in CheckRecord, NEW reading \in Readings,
           check[c].polls < MaxPolls, rib \in State
    PROVE  /\ Polled(c, reading) \in CheckRecord
           /\ \A f \in {"pc", "rules", "sha", "conv", "snap", "ok"} :
                Polled(c, reading)[f] = check[c][f]
           /\ Polled(c, reading).seen = reading
           /\ Polled(c, reading).polls = check[c].polls + 1
           /\ Polled(c, reading).missed =
                IF reading = Blank THEN check[c].missed \cup {"tables"} ELSE check[c].missed
           /\ Polled(c, reading).paused <=>
                check[c].paused \/ (rib # twin /\ check[c].seen = rib)
<1> DEFINE x == check[c]
           m == IF reading = Blank THEN x.missed \cup {"tables"} ELSE x.missed
           b == x.paused \/ (rib # twin /\ x.seen = rib)
<1>1. m \in SUBSET Command
  BY DEF CheckRecord, Command
<1>2. b \in BOOLEAN
  BY DEF CheckRecord
<1>3. reading \in State \cup {Blank, NIL}
  BY DEF Readings
<1>4. x.polls + 1 \in 0..MaxPolls
  BY NetVerifyAssumption DEF CheckRecord
<1>5. Polled(c, reading) =
        [x EXCEPT !.seen = reading, !.polls = x.polls + 1, !.missed = m, !.paused = b]
  BY DEF Polled
<1> HIDE DEF m, b
<1>6. [x EXCEPT !.seen = reading, !.polls = x.polls + 1, !.missed = m, !.paused = b]
        \in CheckRecord
  BY <1>1, <1>2, <1>3, <1>4 DEF CheckRecord
<1>7. /\ Polled(c, reading).seen = reading
      /\ Polled(c, reading).polls = x.polls + 1
      /\ Polled(c, reading).missed = m
      /\ Polled(c, reading).paused = b
      /\ \A f \in {"pc", "rules", "sha", "conv", "snap", "ok"} :
           Polled(c, reading)[f] = x[f]
  BY <1>5 DEF CheckRecord
<1> QED
  BY <1>5, <1>6, <1>7 DEF m, b

(* The three ways a poll can go.                                           *)
LEMMA PollGoes ==
    ASSUME check \in [Check -> CheckRecord], NEW c \in Check, Poll(c)
    PROVE  \E reading \in Readings :
             \/ /\ Unchanged(c, reading)
                /\ check'[c] = [[Polled(c, reading) EXCEPT !.conv = TRUE]
                                  EXCEPT !.pc = "capture"]
             \/ /\ TimeLeft(c)
                /\ check'[c] = [Polled(c, reading) EXCEPT !.pc = "poll"]
             \/ check'[c] = [Polled(c, reading) EXCEPT !.pc = "capture"]
<1>1. PICK reading \in Readings, up \in Ups(c) :
        IF up /\ Unchanged(c, reading)
        THEN Goes(c, "capture", [Polled(c, reading) EXCEPT !.conv = TRUE])
        ELSE \/ TimeLeft(c) /\ Goes(c, "poll", Polled(c, reading))
             \/ Goes(c, "capture", Polled(c, reading))
  BY DEF Poll
<1>2. CASE up /\ Unchanged(c, reading)
  BY <1>1, <1>2 DEF Goes
<1>3. CASE ~ (up /\ Unchanged(c, reading))
  <2>1. CASE TimeLeft(c) /\ Goes(c, "poll", Polled(c, reading))
    <3>1. check'[c] = [Polled(c, reading) EXCEPT !.pc = "poll"]
      BY <2>1, GoesOn
    <3> QED
      BY <2>1, <3>1
  <2>2. CASE Goes(c, "capture", Polled(c, reading))
    <3>1. check'[c] = [Polled(c, reading) EXCEPT !.pc = "capture"]
      BY <2>2, GoesOn
    <3> QED
      BY <3>1
  <2> QED
    BY <1>1, <1>3, <2>1, <2>2
<1> QED
  BY <1>2, <1>3

(* What each step of a check makes of its record.                          *)
LEMMA CheckStepTyped ==
    ASSUME VerifyInv, NEW c \in Check, IntentCheck(c)
    PROVE  check'[c] \in CheckRecord /\ Staged(check'[c])
<1> DEFINE x == check[c]
           y == check'[c]
<1>1. /\ x \in CheckRecord /\ Staged(x)
      /\ twin \in State /\ rib \in State /\ policy \in Policy
      /\ check \in [Check -> CheckRecord]
  BY DEF VerifyInv, VerifyTypeOK
<1>2. CASE LoadPolicy(c)
  <2>1. y = [[x EXCEPT !.rules = policy] EXCEPT !.pc = "sha"] /\ x.pc = "new"
    BY <1>1, <1>2, GoesOn DEF LoadPolicy
  <2> QED
    BY <1>1, <2>1 DEF CheckRecord, Staged
<1>3. CASE HashPolicy(c)
  <2>1. y = [[x EXCEPT !.sha = policy] EXCEPT !.pc = "poll"] /\ x.pc = "sha"
    BY <1>1, <1>3, GoesOn DEF HashPolicy
  <2> QED
    BY <1>1, <2>1 DEF CheckRecord, Staged
<1>4. CASE Poll(c)
  <2>1. x.pc = "poll" /\ x.polls < MaxPolls
    BY <1>1, <1>4 DEF Poll, Staged
  <2>2. PICK reading \in Readings :
             \/ y = [[Polled(c, reading) EXCEPT !.conv = TRUE] EXCEPT !.pc = "capture"]
             \/ TimeLeft(c) /\ y = [Polled(c, reading) EXCEPT !.pc = "poll"]
             \/ y = [Polled(c, reading) EXCEPT !.pc = "capture"]
    BY <1>1, <1>4, PollGoes
  <2> DEFINE q == Polled(c, reading)
  <2>3. q \in CheckRecord /\ q.rules = x.rules /\ q.sha = x.sha /\ q.polls = x.polls + 1
    BY <1>1, <2>1, PolledFields
  <2> HIDE DEF q
  <2>4. TimeLeft(c) => q.polls < MaxPolls
    BY <2>3 DEF TimeLeft
  <2>5. y \in CheckRecord
    BY <2>2, <2>3 DEF q, CheckRecord
  <2>6. y.rules = x.rules /\ y.sha = x.sha /\ y.polls = q.polls
    BY <2>2, <2>3 DEF q, CheckRecord
  <2>7. y.pc = "capture" \/ (y.pc = "poll" /\ TimeLeft(c))
    BY <2>2, <2>3 DEF q, CheckRecord
  <2> QED
    BY <1>1, <2>1, <2>4, <2>5, <2>6, <2>7 DEF Staged
<1>5. CASE Capture(c)
  <2>1. y = [[x EXCEPT !.snap = twin] EXCEPT !.pc = "probe"] /\ x.pc = "capture"
    BY <1>1, <1>5, GoesOn DEF Capture
  <2> QED
    BY <1>1, <2>1 DEF CheckRecord, Staged
<1>6. ASSUME NEW fail \in Failing, NEW b \in BOOLEAN, NEW pc \in {"rules", "report"},
             x.pc \in {"probe", "rules"},
             y = [[x EXCEPT !.ok = b, !.missed = @ \cup fail] EXCEPT !.pc = pc]
      PROVE  y \in CheckRecord /\ Staged(y)
  <2> DEFINE m == x.missed \cup fail
  <2>1. m \in SUBSET Command
    BY <1>1 DEF CheckRecord, Failing, Command
  <2>2. y = [[x EXCEPT !.ok = b, !.missed = m] EXCEPT !.pc = pc]
    BY <1>6
  <2> HIDE DEF m
  <2> QED
    BY <1>1, <1>6, <2>1, <2>2 DEF CheckRecord, Staged
<1>7. CASE RunProbes(c)
  <2>1. PICK fail \in Failing :
          Goes(c, "rules", [x EXCEPT !.ok = ProbesPass(c, fail), !.missed = @ \cup fail])
    BY <1>7 DEF RunProbes
  <2>2. y = [[x EXCEPT !.ok = ProbesPass(c, fail), !.missed = @ \cup fail]
               EXCEPT !.pc = "rules"]
    BY <1>1, <2>1 DEF Goes
  <2>3. ProbesPass(c, fail) \in BOOLEAN
    BY DEF ProbesPass
  <2> QED
    BY <1>6, <1>7, <2>2, <2>3 DEF RunProbes
<1>8. CASE Evaluate(c)
  <2>1. PICK fail \in Failing :
          Goes(c, "report", [x EXCEPT !.ok = RulesHold(c, fail), !.missed = @ \cup fail])
    BY <1>8 DEF Evaluate
  <2>2. y = [[x EXCEPT !.ok = RulesHold(c, fail), !.missed = @ \cup fail]
               EXCEPT !.pc = "report"]
    BY <1>1, <2>1 DEF Goes
  <2>3. RulesHold(c, fail) \in BOOLEAN
    BY DEF RulesHold
  <2> QED
    BY <1>6, <1>8, <2>2, <2>3 DEF Evaluate
<1>9. CASE Answer(c) \/ Raises(c)
  <2>1. y = [NoCheck EXCEPT !.pc = "done"]
    BY <1>1, <1>9, GoesOn DEF Answer, Raises
  <2> QED
    BY <2>1, NoCheckDone
<1> QED
  BY <1>2, <1>3, <1>4, <1>5, <1>7, <1>8, <1>9 DEF IntentCheck

LEMMA IntentCheckLocal ==
    ASSUME VerifyInv, NEW c \in Check, IntentCheck(c)
    PROVE  \A d \in Check \ {c} : check'[d] = check[d]
<1>1. check \in [Check -> CheckRecord]
  BY DEF VerifyInv, VerifyTypeOK
<1>2. \E pc, upd : Goes(c, pc, upd)
  BY DEF IntentCheck, LoadPolicy, HashPolicy, Poll, Capture, RunProbes, Evaluate, Answer,
         Raises
<1> QED
  BY <1>1, <1>2, GoesOn

(* The report of a check that ends.                                        *)
Reported(x) == [passed |-> x.ok /\ x.conv, conv |-> x.conv, snap |-> x.snap,
                sha |-> x.sha, missed |-> x.missed, paused |-> x.paused]

LEMMA ReportFields ==
    ASSUME NEW x \in CheckRecord
    PROVE  /\ Reported(x).passed <=> x.ok /\ x.conv
           /\ Reported(x).conv = x.conv /\ Reported(x).snap = x.snap
           /\ Reported(x).sha = x.sha /\ Reported(x).missed = x.missed
           /\ Reported(x).paused = x.paused
           /\ x.snap \in State /\ x.sha \in Policy => Reported(x) \in Report
<1> DEFINE b == x.ok /\ x.conv
<1>1. b \in BOOLEAN /\ x.conv \in BOOLEAN /\ x.missed \in SUBSET Command
      /\ x.paused \in BOOLEAN
  BY DEF CheckRecord
<1>2. Reported(x) = [passed |-> b, conv |-> x.conv, snap |-> x.snap, sha |-> x.sha,
                     missed |-> x.missed, paused |-> x.paused]
  BY DEF Reported
<1> HIDE DEF b
<1>3. /\ Reported(x).passed = b
      /\ Reported(x).conv = x.conv /\ Reported(x).snap = x.snap
      /\ Reported(x).sha = x.sha /\ Reported(x).missed = x.missed
      /\ Reported(x).paused = x.paused
  BY <1>2
<1>4. x.snap \in State /\ x.sha \in Policy => Reported(x) \in Report
  BY <1>1, <1>2 DEF Report
<1> QED
  BY <1>3, <1>4 DEF b

LEMMA AnswerReports ==
    ASSUME VerifyInv, NEW c \in Check, Answer(c)
    PROVE  reports' = reports \cup {Reported(check[c])} /\ Reported(check[c]) \in Report
<1>1. check[c] \in CheckRecord /\ Staged(check[c]) /\ check[c].pc = "report"
  BY DEF VerifyInv, VerifyTypeOK, Answer
<1> QED
  BY <1>1, ReportFields DEF Answer, Reported, Staged

LEMMA IntentCheckTyped ==
    ASSUME VerifyInv, NEW c \in Check, IntentCheck(c)
    PROVE  VerifyInv'
<1>1. /\ twin \in State /\ rib \in State /\ policy \in Policy /\ reports \subseteq Report
      /\ check \in [Check -> CheckRecord] /\ \A d \in Check : Staged(check[d])
  BY DEF VerifyInv, VerifyTypeOK
<1>2. check'[c] \in CheckRecord /\ Staged(check'[c])
  BY CheckStepTyped
<1>3. check' \in [Check -> CheckRecord]
  BY <1>1, <1>2, GoesOn DEF IntentCheck, LoadPolicy, HashPolicy, Poll, Capture, RunProbes,
                            Evaluate, Answer, Raises, Goes
<1>4. \A d \in Check : Staged(check'[d])
  BY <1>1, <1>2, IntentCheckLocal
<1>5. reports' \subseteq Report
  BY <1>1, AnswerReports, IntentCheckFrame
<1> QED
  BY <1>1, <1>3, <1>4, <1>5, IntentCheckFrame DEF VerifyInv, VerifyTypeOK

----------------------------------------------------------------------------
(* Truth.  While nothing moves, a check holds the policy in force; once it *)
(* has converged, having seen the routers as they were, they show the      *)
(* twin's configuration, and what the check has made of the rules so far   *)
(* is right but for the commands it lost.                                  *)
ProbedRight(x) ==
    /\ x.ok => /\ twin \in Reaches(policy)
               /\ "open" \notin x.missed => twin \in Denies(policy)
    /\ "closed" \notin x.missed /\ twin \in Reaches(policy) \cap Denies(policy) => x.ok

JudgedRight(x) ==
    /\ x.ok => Attests(x, twin, policy)
    /\ "closed" \notin x.missed /\ Satisfies(twin, policy) => x.ok

Truthful(x) ==
    /\ x.pc \notin {"new", "done"} => x.rules = policy
    /\ x.pc \notin {"new", "sha", "done"} => x.sha = policy
    /\ x.pc \in {"new", "sha", "poll"} => ~ x.conv
    /\ x.conv /\ SawRouters(x) =>
         /\ x.pc # "done" /\ rib = twin
         /\ x.pc \in {"probe", "rules", "report"} => x.snap = twin
         /\ x.pc = "rules" => ProbedRight(x)
         /\ x.pc = "report" => JudgedRight(x)

TruthInv == AttestationTrue /\ GoodTwinPasses /\ \A c \in Check : Truthful(check[c])

(* What reports say is of states and policies, not of the present.         *)
LEMMA ReportsStay ==
    ASSUME reports' = reports
    PROVE  (AttestationTrue => AttestationTrue') /\ (GoodTwinPasses => GoodTwinPasses')
  BY DEF AttestationTrue, GoodTwinPasses, Attests, SawRouters, Satisfies, MustBe, MustNotBe

LEMMA AroundTrue ==
    ASSUME Quiet, VerifyInv, TruthInv, Around
    PROVE  TruthInv'
<1>1. reports' = reports /\ check' = check
  BY DEF Around, TwinBecomes, EditPolicy, Settle
<1> SUFFICES ASSUME NEW c \in Check PROVE Truthful(check[c])'
  BY <1>1, ReportsStay DEF TruthInv
<1>2. Truthful(check[c])
  BY DEF TruthInv
<1>3. CASE Active = {}
  <2>1. check[c].pc \in {"new", "done"}
    BY <1>3 DEF Active
  <2> QED
    BY <1>1, <1>2, <2>1 DEF Truthful
<1>4. CASE Active # {}
  <2>1. Settle
    BY <1>4 DEF Around, TwinBecomes, EditPolicy, Disturbs
  <2>2. ProbedRight(check[c]) <=> ProbedRight(check[c])'
    BY <1>1, <2>1 DEF Settle, ProbedRight
  <2>3. JudgedRight(check[c]) <=> JudgedRight(check[c])'
    BY <1>1, <2>1 DEF Settle, JudgedRight, Attests, SawRouters, Satisfies, MustBe, MustNotBe
  <2>4. SawRouters(check[c]) <=> SawRouters(check[c])'
    BY <1>1 DEF SawRouters
  <2> QED
    BY <1>1, <1>2, <2>1, <2>2, <2>3, <2>4 DEF Settle, Truthful
<1> QED
  BY <1>3, <1>4

(* A poll that ends the wait saw two equal readings.  Had the routers been *)
(* behind, they would have stood still in between, or neither reading was  *)
(* of them.                                                                *)
LEMMA PollTrue ==
    ASSUME VerifyInv, NEW c \in Check, Truthful(check[c]), Poll(c),
           UNCHANGED <<twin, rib, policy>>
    PROVE  Truthful(check'[c])
<1> DEFINE x == check[c]
           y == check'[c]
<1>1. /\ x \in CheckRecord /\ Staged(x) /\ x.pc = "poll" /\ rib \in State
      /\ check \in [Check -> CheckRecord] /\ y \in CheckRecord
  BY CheckStepTyped DEF VerifyInv, VerifyTypeOK, Poll, IntentCheck
<1>2. x.polls < MaxPolls /\ ~ x.conv /\ x.rules = policy /\ x.sha = policy
  BY <1>1 DEF Staged, Truthful
<1>3. PICK reading \in Readings :
        \/ /\ Unchanged(c, reading)
           /\ y = [[Polled(c, reading) EXCEPT !.conv = TRUE] EXCEPT !.pc = "capture"]
        \/ /\ TimeLeft(c)
           /\ y = [Polled(c, reading) EXCEPT !.pc = "poll"]
        \/ y = [Polled(c, reading) EXCEPT !.pc = "capture"]
  BY <1>1, PollGoes
<1> DEFINE q == Polled(c, reading)
<1>4. /\ q \in CheckRecord /\ q.rules = x.rules /\ q.sha = x.sha /\ q.conv = x.conv
      /\ q.missed = IF reading = Blank THEN x.missed \cup {"tables"} ELSE x.missed
      /\ q.paused <=> x.paused \/ (rib # twin /\ x.seen = rib)
  BY <1>1, <1>2, PolledFields
<1> HIDE DEF q
<1>5. y.rules = policy /\ y.sha = policy /\ y.missed = q.missed /\ y.paused = q.paused
  BY <1>2, <1>3, <1>4 DEF q, CheckRecord
<1>6. CASE y = [[q EXCEPT !.conv = TRUE] EXCEPT !.pc = "capture"] /\ Unchanged(c, reading)
  <2>1. y.pc = "capture"
    BY <1>4, <1>6 DEF CheckRecord
  <2>2. SawRouters(y) => rib = twin
    BY <1>4, <1>5, <1>6 DEF SawRouters, Readings, Unchanged
  <2> QED
    BY <1>5, <2>1, <2>2 DEF Truthful
<1>7. CASE y \in {[q EXCEPT !.pc = "poll"], [q EXCEPT !.pc = "capture"]}
  <2>1. y.pc \in {"poll", "capture"} /\ ~ y.conv
    BY <1>2, <1>4, <1>7 DEF CheckRecord
  <2> QED
    BY <1>5, <2>1 DEF Truthful
<1> QED
  BY <1>3, <1>6, <1>7 DEF q

LEMMA CheckStepTrue ==
    ASSUME VerifyInv, NEW c \in Check, Truthful(check[c]), IntentCheck(c)
    PROVE  Truthful(check'[c])
<1> DEFINE x == check[c]
           y == check'[c]
<1>1. x \in CheckRecord /\ check \in [Check -> CheckRecord]
  BY DEF VerifyInv, VerifyTypeOK
<1>2. UNCHANGED <<twin, rib, policy>>
  BY IntentCheckFrame
<1>3. CASE LoadPolicy(c)
  <2>1. y = [[x EXCEPT !.rules = policy] EXCEPT !.pc = "sha"] /\ x.pc = "new"
    BY <1>1, <1>3, GoesOn DEF LoadPolicy
  <2>2. y.pc = "sha" /\ y.rules = policy /\ y.conv = x.conv
    BY <1>1, <2>1 DEF CheckRecord
  <2> QED
    BY <2>1, <2>2 DEF Truthful
<1>4. CASE HashPolicy(c)
  <2>1. y = [[x EXCEPT !.sha = policy] EXCEPT !.pc = "poll"] /\ x.pc = "sha"
    BY <1>1, <1>4, GoesOn DEF HashPolicy
  <2>2. y.pc = "poll" /\ y.sha = policy /\ y.rules = x.rules /\ y.conv = x.conv
    BY <1>1, <2>1 DEF CheckRecord
  <2> QED
    BY <2>1, <2>2 DEF Truthful
<1>5. CASE Poll(c)
  BY <1>2, <1>5, PollTrue
<1>6. CASE Capture(c)
  <2>1. y = [[x EXCEPT !.snap = twin] EXCEPT !.pc = "probe"] /\ x.pc = "capture"
    BY <1>1, <1>6, GoesOn DEF Capture
  <2>2. /\ y.pc = "probe" /\ y.snap = twin /\ y.rules = x.rules /\ y.sha = x.sha
        /\ y.conv = x.conv /\ y.missed = x.missed /\ y.paused = x.paused
    BY <1>1, <2>1 DEF CheckRecord
  <2> QED
    BY <2>1, <2>2 DEF Truthful, SawRouters
<1>7. CASE RunProbes(c)
  <2>1. PICK fail \in Failing :
          Goes(c, "rules", [x EXCEPT !.ok = ProbesPass(c, fail), !.missed = @ \cup fail])
    BY <1>7 DEF RunProbes
  <2> DEFINE b == ProbesPass(c, fail)
             m == x.missed \cup fail
  <2>2. y = [[x EXCEPT !.ok = b, !.missed = m] EXCEPT !.pc = "rules"]
    <3>1. y = [[x EXCEPT !.ok = b, !.missed = @ \cup fail] EXCEPT !.pc = "rules"]
      BY <1>1, <2>1 DEF Goes
    <3> QED
      BY <3>1
  <2>3. b \in BOOLEAN
    BY DEF ProbesPass
  <2>4. x.pc = "probe" /\ x.rules = policy
    BY <1>7 DEF RunProbes, Truthful
  <2>5. rib = twin => /\ b => /\ twin \in Reaches(policy)
                              /\ "open" \notin fail => twin \in Denies(policy)
                      /\ "closed" \notin fail /\ twin \in Reaches(policy) \cap Denies(policy)
                           => b
    BY <2>4 DEF ProbesPass
  <2> HIDE DEF b
  <2>6. /\ y.pc = "rules" /\ y.ok = b /\ y.missed = x.missed \cup fail
        /\ y.conv = x.conv /\ y.snap = x.snap /\ y.rules = x.rules /\ y.sha = x.sha
        /\ SawRouters(y) <=> SawRouters(x)
    <3>1. "tables" \notin fail
      BY DEF Failing
    <3> HIDE DEF m
    <3>2. /\ y.pc = "rules" /\ y.ok = b /\ y.missed = m
          /\ y.conv = x.conv /\ y.snap = x.snap /\ y.rules = x.rules /\ y.sha = x.sha
          /\ y.paused = x.paused
      BY <1>1, <2>2, <2>3 DEF CheckRecord
    <3> QED
      BY <3>1, <3>2 DEF m, SawRouters
  <2>7. rib = twin => ProbedRight(y)
    BY <2>5, <2>6 DEF ProbedRight
  <2> QED
    BY <2>4, <2>6, <2>7 DEF Truthful
<1>8. CASE Evaluate(c)
  <2>1. PICK fail \in Failing :
          Goes(c, "report", [x EXCEPT !.ok = RulesHold(c, fail), !.missed = @ \cup fail])
    BY <1>8 DEF Evaluate
  <2> DEFINE b == RulesHold(c, fail)
             m == x.missed \cup fail
  <2>2. y = [[x EXCEPT !.ok = b, !.missed = m] EXCEPT !.pc = "report"]
    <3>1. y = [[x EXCEPT !.ok = b, !.missed = @ \cup fail] EXCEPT !.pc = "report"]
      BY <1>1, <2>1 DEF Goes
    <3> QED
      BY <3>1
  <2>3. b \in BOOLEAN
    BY DEF RulesHold
  <2>4. x.pc = "rules" /\ x.rules = policy
    BY <1>8 DEF Evaluate, Truthful
  <2>5. rib = twin =>
          /\ b => /\ x.ok /\ twin \in Sessions(policy)
                  /\ "open" \notin fail => twin \in NoLeak(policy)
          /\ x.ok /\ "closed" \notin fail /\ twin \in Sessions(policy) \cap NoLeak(policy)
               => b
    BY <2>4 DEF RulesHold
  <2> HIDE DEF b
  <2>6. /\ y.pc = "report" /\ y.ok = b /\ y.missed = x.missed \cup fail
        /\ y.conv = x.conv /\ y.snap = x.snap /\ y.rules = x.rules /\ y.sha = x.sha
        /\ SawRouters(y) <=> SawRouters(x)
    <3>1. "tables" \notin fail
      BY DEF Failing
    <3> HIDE DEF m
    <3>2. /\ y.pc = "report" /\ y.ok = b /\ y.missed = m
          /\ y.conv = x.conv /\ y.snap = x.snap /\ y.rules = x.rules /\ y.sha = x.sha
          /\ y.paused = x.paused
      BY <1>1, <2>2, <2>3 DEF CheckRecord
    <3> QED
      BY <3>1, <3>2 DEF m, SawRouters
  <2>7. rib = twin /\ ProbedRight(x) => JudgedRight(y)
    BY <2>5, <2>6 DEF ProbedRight, JudgedRight, Attests, Satisfies, MustBe, MustNotBe
  <2> QED
    BY <2>4, <2>6, <2>7 DEF Truthful
<1>9. CASE Answer(c) \/ Raises(c)
  <2>1. y = [NoCheck EXCEPT !.pc = "done"]
    BY <1>1, <1>9, GoesOn DEF Answer, Raises
  <2>2. y.pc = "done" /\ ~ y.conv
    BY <2>1, NoCheckDone
  <2> QED
    BY <2>2 DEF Truthful
<1> QED
  BY <1>3, <1>4, <1>5, <1>6, <1>7, <1>8, <1>9 DEF IntentCheck

(* The report of a check that is truthful.                                 *)
LEMMA ReportTrue ==
    ASSUME VerifyInv, NEW c \in Check, Truthful(check[c]), Answer(c),
           NEW r, r = Reported(check[c])
    PROVE  /\ r.passed => Attests(r, r.snap, r.sha)
           /\ r.conv /\ SawRouters(r) /\ "closed" \notin r.missed /\ Satisfies(r.snap, r.sha)
                => r.passed
<1> DEFINE x == check[c]
<1>1. x \in CheckRecord /\ x.pc = "report"
  BY DEF VerifyInv, VerifyTypeOK, Answer
<1>2. /\ r.passed <=> x.ok /\ x.conv
      /\ r.conv = x.conv /\ r.snap = x.snap /\ r.sha = x.sha /\ r.missed = x.missed
      /\ r.paused = x.paused
  BY <1>1, ReportFields
<1>3. SawRouters(r) <=> SawRouters(x)
  BY <1>2 DEF SawRouters
<1>4. x.conv /\ SawRouters(x) => x.snap = twin /\ x.sha = policy /\ JudgedRight(x)
  BY <1>1 DEF Truthful
<1>5. Attests(r, r.snap, r.sha) <=> Attests(x, x.snap, x.sha)
  BY <1>2, <1>3 DEF Attests
<1> QED
  BY <1>2, <1>3, <1>4, <1>5 DEF JudgedRight, Attests

LEMMA IntentCheckTrue ==
    ASSUME VerifyInv, TruthInv, NEW c \in Check, IntentCheck(c)
    PROVE  TruthInv'
<1>1. UNCHANGED <<twin, rib, policy>>
  BY IntentCheckFrame
<1>2. \A d \in Check : Truthful(check[d])
  BY DEF TruthInv
<1>3. \A d \in Check : Truthful(check'[d])
  BY <1>2, CheckStepTrue, IntentCheckLocal
<1>4. \A d \in Check : Truthful(check[d])'
  BY <1>1, <1>3 DEF Truthful, ProbedRight, JudgedRight, Attests, SawRouters, Satisfies,
                    MustBe, MustNotBe
<1>5. AttestationTrue' /\ GoodTwinPasses'
  <2>1. CASE Answer(c)
    <3>1. reports' = reports \cup {Reported(check[c])}
      BY <2>1, AnswerReports
    <3>2. AttestationTrue /\ GoodTwinPasses
      BY DEF TruthInv
    <3>3. \A r \in reports' :
            /\ r.passed => Attests(r, r.snap, r.sha)
            /\ r.conv /\ SawRouters(r) /\ "closed" \notin r.missed /\ Satisfies(r.snap, r.sha)
                 => r.passed
      BY <1>2, <2>1, <3>1, <3>2, ReportTrue DEF AttestationTrue, GoodTwinPasses
    <3> QED
      BY <3>3 DEF AttestationTrue, GoodTwinPasses, Attests, SawRouters, Satisfies, MustBe,
                  MustNotBe
  <2>2. CASE ~ Answer(c)
    BY <2>2, IntentCheckFrame, ReportsStay DEF TruthInv
  <2> QED
    BY <2>1, <2>2
<1> QED
  BY <1>4, <1>5 DEF TruthInv

----------------------------------------------------------------------------
(* Types of the gate.  A bundle names a change that is recorded.           *)
TypeInv ==
    /\ VerifyInv
    /\ TypeOK
    /\ \A e \in Export : bundle[e] # NIL => bundle[e].last \in DOMAIN changes

LEMMA InitTyped == ASSUME Init PROVE TypeInv
<1>1. VerifyInv
  BY NoCheckTyped DEF Init, VerifyInit, VerifyInv, VerifyTypeOK
<1> QED
  BY <1>1, ExportGateAssumption DEF Init, VerifyInv, TypeInv, TypeOK

(* What the calls do to the verifier's half of the state.                  *)
LEMMA VerifierSide ==
    ASSUME Next, TypeInv
    PROVE  Around \/ (\E c \in Check : IntentCheck(c)) \/ UNCHANGED verifyVars
<1>1. CASE Apply
  BY <1>1 DEF Apply, Around
<1>2. CASE Rollback
  <2>1. PICK i \in DOMAIN changes : TwinBecomes(changes[i].before)
    BY <1>2 DEF Rollback
  <2> DEFINE CR == [before : State, after : State]
  <2> HIDE DEF CR
  <2>2. changes \in Seq(CR)
    BY DEF TypeInv, TypeOK, CR
  <2>3. changes[i] \in CR
    BY <2>1, <2>2
  <2>4. changes[i].before \in State
    BY <2>3 DEF CR
  <2> QED
    BY <2>1, <2>4 DEF Around
<1>3. CASE World
  BY <1>3 DEF World, Around
<1>4. CASE \E c \in Check : Verify(c)
  BY <1>4 DEF Verify
<1>5. CASE Crash
  BY <1>5 DEF Crash
<1>6. ASSUME NEW e \in Export,
             \/ ExportChange(e) \/ ExportUnasked(e)
             \/ CannotElicit(e) \/ AdminApproves(e) \/ CrashInSave(e)
             \/ \E a \in BOOLEAN : OperatorAnswers(e, a)
      PROVE  UNCHANGED verifyVars
  BY <1>6 DEF ExportChange, ExportUnasked, Prepare, CannotElicit, AdminApproves,
              CrashInSave, OperatorAnswers, verifyVars
<1> QED
  BY <1>1, <1>2, <1>3, <1>4, <1>5, <1>6 DEF Next

LEMMA VerifierTyped ==
    ASSUME TypeInv, [Next]_vars PROVE VerifyInv'
<1>1. VerifyInv
  BY DEF TypeInv
<1>2. CASE UNCHANGED verifyVars
  BY <1>1, <1>2 DEF verifyVars, VerifyInv, VerifyTypeOK
<1> QED
  BY <1>1, <1>2, VerifierSide, AroundTyped, IntentCheckTyped DEF vars

(* A bundle that Prepare writes and a bundle that is decided.              *)
LEMMA Prepared ==
    ASSUME TypeInv, NEW e \in Export, NEW st \in Status,
           NEW by \in {NIL, "operator", "cli", "bench-auto"}, Prepare(e, st, by)
    PROVE  \E i \in DOMAIN changes, r \in reports :
             LET b == [status |-> st, last |-> i, report |-> r, by |-> by]
             IN  Valid(r, i) /\ Save(e, b) /\ b \in Bundle
<1>1. PICK i \in DOMAIN changes, r \in reports :
        /\ Valid(r, i)
        /\ Save(e, [status |-> st, last |-> i, report |-> r, by |-> by])
  BY DEF Prepare
<1>2. i \in 1..MaxChanges /\ r \in Report
  BY <1>1, ExportGateAssumption DEF TypeInv, TypeOK, VerifyTypeOK
<1>3. [status |-> st, last |-> i, report |-> r, by |-> by] \in Bundle
  BY <1>2 DEF Bundle
<1> QED
  BY <1>1, <1>3

LEMMA DecidedTyped ==
    ASSUME TypeInv, NEW e \in Export, bundle[e] # NIL, NEW a \in BOOLEAN,
           NEW by \in {NIL, "operator", "cli", "bench-auto"}
    PROVE  /\ Decided(e, a, by) \in Bundle
           /\ Decided(e, a, by).last = bundle[e].last
           /\ Decided(e, a, by).report = bundle[e].report
           /\ Decided(e, a, by).by = by
           /\ Decided(e, a, by).status = IF a THEN "approved" ELSE "declined"
  BY DEF TypeInv, TypeOK, Bundle, Status, Decided

GateTyped ==
    /\ changes \in Seq([before : State, after : State])
    /\ Len(changes) <= MaxChanges
    /\ bundle \in [Export -> Bundle \cup {NIL}]
    /\ artefacts \subseteq Export /\ asking \subseteq Export
    /\ told \in [Export -> Status \cup {"error", NIL}]
    /\ inForce \in [Export -> Policy \cup {NIL}]
    /\ \A e \in Export : bundle[e] # NIL => bundle[e].last \in DOMAIN changes

LEMMA TypeInvParts == TypeInv <=> VerifyInv /\ GateTyped
  BY DEF TypeInv, TypeOK, GateTyped, VerifyInv

(* What Save makes of a well-typed bundle.                                 *)
LEMMA SaveTyped ==
    ASSUME TypeInv, NEW e \in Export, NEW b \in Bundle, b.last \in DOMAIN changes,
           Save(e, b)
    PROVE  /\ bundle' \in [Export -> Bundle \cup {NIL}]
           /\ bundle'[e] = b /\ \A f \in Export \ {e} : bundle'[f] = bundle[f]
           /\ artefacts' \subseteq Export
           /\ \A f \in Export : bundle'[f] # NIL => bundle'[f].last \in DOMAIN changes
<1>1. GateTyped
  BY TypeInvParts
<1>2. /\ bundle' \in [Export -> Bundle \cup {NIL}]
      /\ bundle'[e] = b /\ \A f \in Export \ {e} : bundle'[f] = bundle[f]
  BY <1>1 DEF GateTyped, Save
<1>3. artefacts' \subseteq Export
  BY <1>1 DEF GateTyped, Save
<1> QED
  BY <1>1, <1>2, <1>3 DEF GateTyped

LEMMA PrepareTyped ==
    ASSUME TypeInv, NEW e \in Export, NEW st \in Status,
           NEW by \in {NIL, "operator", "cli", "bench-auto"}, Prepare(e, st, by),
           asking' \subseteq Export, told' \in [Export -> Status \cup {"error", NIL}]
    PROVE  GateTyped'
<1>1. PICK i \in DOMAIN changes, r \in reports :
        LET b == [status |-> st, last |-> i, report |-> r, by |-> by]
        IN  Valid(r, i) /\ Save(e, b) /\ b \in Bundle
  BY Prepared
<1> DEFINE b == [status |-> st, last |-> i, report |-> r, by |-> by]
<1>2. b \in Bundle /\ b.last \in DOMAIN changes /\ Save(e, b)
  BY <1>1
<1> HIDE DEF b
<1>3. changes' = changes /\ inForce' = [inForce EXCEPT ![e] = policy]
  BY DEF Prepare
<1>4. GateTyped /\ policy \in Policy
  BY TypeInvParts DEF VerifyInv, VerifyTypeOK
<1>5. inForce' \in [Export -> Policy \cup {NIL}]
  BY <1>3, <1>4 DEF GateTyped
<1> QED
  BY <1>2, <1>3, <1>4, <1>5, SaveTyped DEF GateTyped

LEMMA DecideTyped ==
    ASSUME TypeInv, NEW e \in Export, Open(e), NEW a \in BOOLEAN,
           NEW by \in {NIL, "operator", "cli", "bench-auto"},
           \/ Save(e, Decided(e, a, by))
           \/ bundle' = [bundle EXCEPT ![e] = Decided(e, a, by)] /\ artefacts' = artefacts,
           asking' \subseteq Export, told' \in [Export -> Status \cup {"error", NIL}],
           UNCHANGED <<changes, inForce>>
    PROVE  GateTyped'
<1>1. GateTyped
  BY TypeInvParts
<1> DEFINE b == Decided(e, a, by)
<1>2. b \in Bundle /\ b.last \in DOMAIN changes
  BY <1>1, DecidedTyped DEF Open, GateTyped
<1> HIDE DEF b
<1>3. CASE Save(e, b)
  BY <1>1, <1>2, <1>3, SaveTyped DEF GateTyped
<1>4. CASE bundle' = [bundle EXCEPT ![e] = b] /\ artefacts' = artefacts
  BY <1>1, <1>2, <1>4 DEF GateTyped
<1> QED
  BY <1>3, <1>4 DEF b

LEMMA NextTyped == ASSUME TypeInv, [Next]_vars PROVE TypeInv'
<1> SUFFICES GateTyped'
  BY VerifierTyped DEF TypeInv, TypeOK, GateTyped, VerifyInv
<1>1. GateTyped /\ VerifyInv
  BY TypeInvParts
<1>2. ASSUME UNCHANGED <<changes, bundle, artefacts, asking, told, inForce>>
      PROVE  GateTyped'
  BY <1>1, <1>2 DEF GateTyped
<1>3. ASSUME NEW e \in Export PROVE asking \cup {e} \subseteq Export
                                   /\ asking \ {e} \subseteq Export
  BY <1>1 DEF GateTyped
<1>4. ASSUME NEW e \in Export, NEW w \in Status \cup {"error", NIL}
      PROVE  [told EXCEPT ![e] = w] \in [Export -> Status \cup {"error", NIL}]
  BY <1>1 DEF GateTyped
<1>5. CASE Apply
  <2>1. PICK s \in State : changes' = Append(changes, [before |-> twin, after |-> s])
    BY <1>5 DEF Apply
  <2>2. [before |-> twin, after |-> s] \in [before : State, after : State]
    BY <1>1 DEF VerifyInv, VerifyTypeOK
  <2> DEFINE r  == [before |-> twin, after |-> s]
             CR == [before : State, after : State]
  <2> HIDE DEF r, CR
  <2>3. /\ changes' \in Seq(CR) /\ Len(changes') = Len(changes) + 1
        /\ DOMAIN changes \subseteq DOMAIN changes'
    BY <1>1, <2>1, <2>2 DEF GateTyped, r, CR
  <2>4. Len(changes') <= MaxChanges
    BY <1>1, <1>5, <2>3, ExportGateAssumption DEF Apply, GateTyped
  <2>5. UNCHANGED <<bundle, artefacts, asking, told, inForce>>
    BY <1>5 DEF Apply
  <2> USE DEF CR
  <2> QED
    BY <1>1, <2>3, <2>4, <2>5 DEF GateTyped
<1>6. CASE Rollback
  BY <1>2, <1>6 DEF Rollback, gateVars
<1>7. CASE World \/ \E c \in Check : Verify(c)
  BY <1>2, <1>7 DEF World, Verify, gateVars
<1>8. ASSUME NEW e \in Export, ExportChange(e) PROVE GateTyped'
  <2>1. told' = told /\ asking' = asking \cup {e} /\ Prepare(e, "pending", NIL)
    BY <1>8 DEF ExportChange
  <2> QED
    BY <1>1, <1>3, <2>1, PrepareTyped DEF GateTyped, Status
<1>9. ASSUME NEW e \in Export, ExportUnasked(e) PROVE GateTyped'
  <2>1. /\ asking' = asking /\ told' = [told EXCEPT ![e] = "approved"]
        /\ Prepare(e, "approved", "bench-auto")
    BY <1>9 DEF ExportUnasked
  <2>2. told' \in [Export -> Status \cup {"error", NIL}]
    BY <1>4, <2>1 DEF Status
  <2> QED
    BY <1>1, <2>1, <2>2, PrepareTyped DEF GateTyped, Status
<1>10. ASSUME NEW e \in Export, NEW a \in BOOLEAN, OperatorAnswers(e, a)
       PROVE  GateTyped'
  <2>1. asking' \subseteq Export /\ UNCHANGED <<changes, inForce>>
    BY <1>3, <1>10 DEF OperatorAnswers
  <2>2. CASE Open(e)
    <3>1. told' \in [Export -> Status \cup {"error", NIL}]
      BY <1>4, <1>10, <2>2 DEF OperatorAnswers, Status
    <3>2. Save(e, Decided(e, a, "operator"))
      BY <1>10, <2>2 DEF OperatorAnswers
    <3> QED
      BY <2>1, <2>2, <3>1, <3>2, DecideTyped
  <2>3. CASE ~ Open(e)
    <3>1. told' \in [Export -> Status \cup {"error", NIL}]
      BY <1>4, <1>10, <2>3 DEF OperatorAnswers
    <3>2. UNCHANGED <<bundle, artefacts>>
      BY <1>10, <2>3 DEF OperatorAnswers
    <3> QED
      BY <1>1, <2>1, <3>1, <3>2 DEF GateTyped
  <2> QED
    BY <2>2, <2>3
<1>11. ASSUME NEW e \in Export, CannotElicit(e) PROVE GateTyped'
  <2>1. told' \in [Export -> Status \cup {"error", NIL}]
    BY <1>4, <1>11 DEF CannotElicit, Status
  <2> QED
    BY <1>1, <1>3, <1>11, <2>1 DEF CannotElicit, GateTyped
<1>12. ASSUME NEW e \in Export, AdminApproves(e) PROVE GateTyped'
  BY <1>1, <1>12, DecideTyped DEF AdminApproves, GateTyped
<1>13. CASE Crash
  BY <1>1, <1>13 DEF Crash, GateTyped
<1>14. ASSUME NEW e \in Export, CrashInSave(e) PROVE GateTyped'
  <2>1. PICK by \in {"operator", "cli"} :
          bundle' = [bundle EXCEPT ![e] = Decided(e, TRUE, by)]
    BY <1>14 DEF CrashInSave
  <2> QED
    BY <1>1, <1>14, <2>1, DecideTyped DEF CrashInSave, GateTyped
<1>15. CASE UNCHANGED vars
  BY <1>2, <1>15 DEF vars, gateVars
<1> QED
  BY <1>5, <1>6, <1>7, <1>8, <1>9, <1>10, <1>11, <1>12, <1>13, <1>14, <1>15 DEF Next

----------------------------------------------------------------------------
(* Truth, offers and answers.                                              *)
LEMMA InitTrue == ASSUME Init PROVE TruthInv
<1>1. Truthful(NoCheck)
  BY DEF NoCheck, Truthful
<1> QED
  BY <1>1 DEF Init, VerifyInit, TruthInv, AttestationTrue, GoodTwinPasses

LEMMA NextTrue ==
    ASSUME Quiet, TypeInv, TruthInv, [Next]_vars PROVE TruthInv'
<1>1. VerifyInv
  BY DEF TypeInv
<1>2. CASE UNCHANGED verifyVars
  <2>1. \A c \in Check : Truthful(check[c])'
    BY <1>2 DEF verifyVars, TruthInv, Truthful, ProbedRight, JudgedRight, Attests,
                SawRouters, Satisfies, MustBe, MustNotBe
  <2> QED
    BY <1>2, <2>1, ReportsStay DEF verifyVars, TruthInv
<1> QED
  BY <1>1, <1>2, VerifierSide, AroundTrue, IntentCheckTrue DEF vars

(* A bundle's change, report and policy never move, so what the report     *)
(* attested when the bundle was prepared, it attests for good.             *)
Offers(e) ==
    /\ bundle[e].last \in DOMAIN changes
    /\ bundle[e].report.passed
    /\ Attests(bundle[e].report, changes[bundle[e].last].after, inForce[e])

OfferInv == \A e \in Export : bundle[e] # NIL => Offers(e)

(* What a step may do to one export's bundle: write it, decide it, or      *)
(* leave it alone.                                                         *)
Writes(e) ==
    /\ bundle[e] = NIL
    /\ \E i \in DOMAIN changes, r \in reports :
         Valid(r, i) /\ bundle'[e].last = i /\ bundle'[e].report = r
    /\ inForce'[e] = policy

Decides(e) ==
    /\ Open(e)
    /\ bundle'[e] # NIL /\ bundle'[e].last = bundle[e].last
    /\ bundle'[e].report = bundle[e].report
    /\ inForce'[e] = inForce[e]

Keeps(e) == bundle'[e] = bundle[e] /\ inForce'[e] = inForce[e]

LEMMA SaveIsLocal ==
    ASSUME TypeInv, NEW e \in Export, NEW b, Save(e, b)
    PROVE  bundle'[e] = b /\ \A f \in Export \ {e} : bundle'[f] = bundle[f]
  BY DEF TypeInv, TypeOK, Save

LEMMA PrepareBundle ==
    ASSUME TypeInv, NEW e \in Export, NEW st \in Status,
           NEW by \in {NIL, "operator", "cli", "bench-auto"}, Prepare(e, st, by)
    PROVE  /\ Writes(e) /\ bundle'[e] # NIL /\ bundle'[e].status = st
           /\ \A f \in Export \ {e} : Keeps(f)
           /\ artefacts' = IF st = "approved" THEN artefacts \cup {e} ELSE artefacts
<1>1. PICK i \in DOMAIN changes, r \in reports :
        LET b == [status |-> st, last |-> i, report |-> r, by |-> by]
        IN  Valid(r, i) /\ Save(e, b) /\ b \in Bundle
  BY Prepared
<1> DEFINE b == [status |-> st, last |-> i, report |-> r, by |-> by]
<1>2. b.last = i /\ b.report = r /\ b.status = st /\ b # NIL /\ Save(e, b)
  BY <1>1, ExportGateAssumption
<1> HIDE DEF b
<1>3. inForce' = [inForce EXCEPT ![e] = policy] /\ bundle[e] = NIL
  BY DEF Prepare
<1>4. inForce'[e] = policy /\ \A f \in Export \ {e} : inForce'[f] = inForce[f]
  BY <1>3 DEF TypeInv, TypeOK
<1>5. bundle'[e] = b /\ \A f \in Export \ {e} : bundle'[f] = bundle[f]
  BY <1>2, SaveIsLocal
<1>6. Writes(e)
  BY <1>1, <1>2, <1>3, <1>4, <1>5 DEF Writes
<1>7. artefacts' = IF st = "approved" THEN artefacts \cup {e} ELSE artefacts
  BY <1>2 DEF Save
<1> QED
  BY <1>2, <1>4, <1>5, <1>6, <1>7 DEF Keeps

LEMMA DecideBundle ==
    ASSUME TypeInv, NEW e \in Export, Open(e), NEW a \in BOOLEAN,
           NEW by \in {NIL, "operator", "cli", "bench-auto"},
           bundle' = [bundle EXCEPT ![e] = Decided(e, a, by)], inForce' = inForce
    PROVE  /\ Decides(e) /\ bundle'[e].status = IF a THEN "approved" ELSE "declined"
           /\ bundle'[e].by = by
           /\ \A f \in Export \ {e} : Keeps(f)
<1> DEFINE b == Decided(e, a, by)
<1>1. /\ b \in Bundle /\ b.last = bundle[e].last /\ b.report = bundle[e].report
      /\ b.by = by /\ b.status = IF a THEN "approved" ELSE "declined"
  BY DecidedTyped DEF Open
<1> HIDE DEF b
<1>2. bundle'[e] = b /\ \A f \in Export \ {e} : bundle'[f] = bundle[f]
  BY DEF TypeInv, TypeOK, b
<1> QED
  BY <1>1, <1>2, ExportGateAssumption DEF Decides, Keeps

LEMMA BundleSteps ==
    ASSUME TypeInv, [Next]_vars, NEW e \in Export
    PROVE  Writes(e) \/ Decides(e) \/ Keeps(e)
<1>1. CASE Apply \/ Rollback \/ World \/ (\E c \in Check : Verify(c)) \/ Crash
  BY <1>1 DEF Apply, Rollback, World, Verify, Crash, Keeps, gateVars
<1>2. CASE UNCHANGED vars
  BY <1>2 DEF vars, gateVars, Keeps
<1>3. ASSUME NEW f \in Export, ExportChange(f) \/ ExportUnasked(f)
      PROVE  Writes(e) \/ Keeps(e)
  <2>1. Prepare(f, "pending", NIL) \/ Prepare(f, "approved", "bench-auto")
    BY <1>3 DEF ExportChange, ExportUnasked
  <2> QED
    BY <2>1, PrepareBundle DEF Status
<1>4. ASSUME NEW f \in Export, CannotElicit(f) PROVE Keeps(e)
  BY <1>4 DEF CannotElicit, Keeps
<1>5. ASSUME NEW f \in Export, AdminApproves(f) PROVE Decides(e) \/ Keeps(e)
  BY <1>5, DecideBundle DEF AdminApproves, Save
<1>6. ASSUME NEW f \in Export, CrashInSave(f) PROVE Decides(e) \/ Keeps(e)
  <2>1. PICK by \in {"operator", "cli"} :
          bundle' = [bundle EXCEPT ![f] = Decided(f, TRUE, by)]
    BY <1>6 DEF CrashInSave
  <2> QED
    BY <1>6, <2>1, DecideBundle DEF CrashInSave
<1>7. ASSUME NEW f \in Export, NEW a \in BOOLEAN, OperatorAnswers(f, a)
      PROVE  Decides(e) \/ Keeps(e)
  <2>1. CASE Open(f)
    <3>1. /\ bundle' = [bundle EXCEPT ![f] = Decided(f, a, "operator")]
          /\ inForce' = inForce
      BY <1>7, <2>1 DEF OperatorAnswers, Save
    <3> QED
      BY <2>1, <3>1, DecideBundle
  <2>2. CASE ~ Open(f)
    BY <1>7, <2>2 DEF OperatorAnswers, Keeps
  <2> QED
    BY <2>1, <2>2
<1> QED
  BY <1>1, <1>2, <1>3, <1>4, <1>5, <1>6, <1>7 DEF Next

(* Recorded changes stay.                                                  *)
LEMMA ChangesStay ==
    ASSUME TypeInv, [Next]_vars, NEW i \in DOMAIN changes
    PROVE  i \in DOMAIN changes' /\ changes'[i] = changes[i]
<1>1. CASE Apply
  <2> DEFINE CR == [before : State, after : State]
  <2>1. PICK s \in State : changes' = Append(changes, [before |-> twin, after |-> s])
    BY <1>1 DEF Apply
  <2>2. [before |-> twin, after |-> s] \in CR
    BY DEF TypeInv, TypeOK, VerifyTypeOK
  <2>3. changes \in Seq(CR)
    BY DEF TypeInv, TypeOK
  <2> HIDE DEF CR
  <2> QED
    BY <2>1, <2>2, <2>3
<1>2. CASE ~ Apply
  <2>1. changes' = changes
    BY <1>2 DEF Next, Rollback, World, Verify, Crash, ExportChange, ExportUnasked, Prepare,
                CannotElicit, AdminApproves, CrashInSave, OperatorAnswers, vars, gateVars
  <2> QED
    BY <2>1
<1> QED
  BY <1>1, <1>2

LEMMA NextOffered ==
    ASSUME TypeInv, TruthInv, OfferInv, [Next]_vars PROVE OfferInv'
<1> SUFFICES ASSUME NEW e \in Export, bundle'[e] # NIL
             PROVE  /\ bundle'[e].last \in DOMAIN changes'
                    /\ bundle'[e].report.passed
                    /\ Attests(bundle'[e].report, changes'[bundle'[e].last].after,
                               inForce'[e])
  BY DEF OfferInv, Offers, Attests, SawRouters, MustBe, MustNotBe
<1>1. CASE Writes(e)
  <2>1. PICK i \in DOMAIN changes, r \in reports :
          Valid(r, i) /\ bundle'[e].last = i /\ bundle'[e].report = r
    BY <1>1 DEF Writes
  <2>2. r.passed /\ Attests(r, changes[i].after, policy)
    BY <2>1 DEF TruthInv, AttestationTrue, Valid
  <2> QED
    BY <1>1, <2>1, <2>2, ChangesStay DEF Writes
<1>2. CASE Decides(e)
  <2>1. Offers(e)
    BY <1>2 DEF Decides, Open, OfferInv
  <2> QED
    BY <1>2, <2>1, ChangesStay DEF Decides, Offers
<1>3. CASE Keeps(e)
  <2>1. Offers(e)
    BY <1>3 DEF Keeps, OfferInv
  <2> QED
    BY <1>3, <2>1, ChangesStay DEF Keeps, Offers
<1> QED
  BY <1>1, <1>2, <1>3, BundleSteps

(* A bundle that the admin route alone has decided, if anybody has.        *)
AdminOnly(e) ==
    /\ bundle[e] # NIL
    /\ \/ bundle[e].status = "pending"
       \/ bundle[e].status = "approved" /\ bundle[e].by = "cli"

(* An answer to the agent is of a bundle that is there and decided so.     *)
(* While export_change waits for the operator, and for good once it has    *)
(* given up waiting, only the admin route can decide.                      *)
AnswerInv ==
    \A e \in Export :
      /\ told[e] \in {"approved", "declined"} =>
           bundle[e] # NIL /\ bundle[e].status = told[e]
      /\ told[e] = "approved" => e \in artefacts
      /\ e \in asking \/ told[e] = "pending" => AdminOnly(e)
      /\ told[e] = "pending" => e \notin asking
      /\ told[e] = "error" => bundle[e] # NIL /\ bundle[e].status # "pending"

(* Who may ask, and who may decide what nobody asks about.                 *)
LEMMA AskingSteps ==
    ASSUME TypeInv, [Next]_vars, NEW e \in Export
    PROVE  /\ e \in asking' => e \in asking \/ (bundle[e] = NIL /\ bundle'[e] # NIL
                                               /\ bundle'[e].status = "pending")
           /\ AdminOnly(e) /\ (e \in asking => e \in asking') => AdminOnly(e)'
           /\ told'[e] = "pending" => told[e] = "pending" \/ (e \in asking
                /\ e \notin asking' /\ bundle'[e] = bundle[e])
<1> DEFINE A == e \in asking' => e \in asking \/ (bundle[e] = NIL /\ bundle'[e] # NIL
                                               /\ bundle'[e].status = "pending")
           B == AdminOnly(e) /\ (e \in asking => e \in asking') =>
                  /\ bundle'[e] # NIL
                  /\ \/ bundle'[e].status = "pending"
                     \/ bundle'[e].status = "approved" /\ bundle'[e].by = "cli"
           C == told'[e] = "pending" => told[e] = "pending" \/ (e \in asking
                  /\ e \notin asking' /\ bundle'[e] = bundle[e])
<1> SUFFICES A /\ B /\ C
  BY DEF AdminOnly
<1>1. told \in [Export -> Status \cup {"error", NIL}]
  BY DEF TypeInv, TypeOK
<1>2. CASE UNCHANGED <<bundle, told>> /\ asking' \in {asking, {}}
  BY <1>2 DEF AdminOnly
<1>3. CASE Apply \/ Rollback \/ World \/ (\E c \in Check : Verify(c)) \/ Crash
  BY <1>2, <1>3 DEF Apply, Rollback, World, Verify, Crash, gateVars
<1>4. CASE UNCHANGED vars
  BY <1>2, <1>4 DEF vars, gateVars
<1>5. ASSUME NEW f \in Export, ExportChange(f) PROVE A /\ B /\ C
  <2>1. Prepare(f, "pending", NIL) /\ told' = told /\ asking' = asking \cup {f}
    BY <1>5 DEF ExportChange
  <2>2. /\ Writes(f) /\ bundle'[f] # NIL /\ bundle'[f].status = "pending"
        /\ \A d \in Export \ {f} : Keeps(d)
    BY <2>1, PrepareBundle DEF Status
  <2> QED
    BY <2>1, <2>2 DEF Writes, Keeps, AdminOnly
<1>6. ASSUME NEW f \in Export, ExportUnasked(f) PROVE A /\ B /\ C
  <2>1. /\ Prepare(f, "approved", "bench-auto")
        /\ told' = [told EXCEPT ![f] = "approved"] /\ asking' = asking
    BY <1>6 DEF ExportUnasked
  <2>2. Writes(f) /\ \A d \in Export \ {f} : Keeps(d)
    BY <2>1, PrepareBundle DEF Status
  <2>3. told'[f] = "approved" /\ \A d \in Export \ {f} : told'[d] = told[d]
    BY <1>1, <2>1
  <2> QED
    BY <2>1, <2>2, <2>3 DEF Writes, Keeps, AdminOnly
<1>7. ASSUME NEW f \in Export, CannotElicit(f) PROVE A /\ B /\ C
  BY <1>1, <1>7 DEF CannotElicit, AdminOnly
<1>8. ASSUME NEW f \in Export, AdminApproves(f) PROVE A /\ B /\ C
  <2>1. Open(f) /\ asking' = asking /\ told' = told
    BY <1>8 DEF AdminApproves
  <2>2. bundle' = [bundle EXCEPT ![f] = Decided(f, TRUE, "cli")] /\ inForce' = inForce
    BY <1>8 DEF AdminApproves, Save
  <2>3. /\ Decides(f) /\ bundle'[f].status = "approved" /\ bundle'[f].by = "cli"
        /\ \A d \in Export \ {f} : Keeps(d)
    BY <2>1, <2>2, DecideBundle
  <2> QED
    BY <2>1, <2>3 DEF Decides, Keeps, AdminOnly
<1>9. ASSUME NEW f \in Export, CrashInSave(f) PROVE A /\ B /\ C
  <2> DEFINE by == IF f \in asking THEN "operator" ELSE "cli"
  <2>1. /\ Open(f) /\ asking' = {} /\ told' = told /\ inForce' = inForce
        /\ bundle' = [bundle EXCEPT ![f] = Decided(f, TRUE, by)]
        /\ by \in {NIL, "operator", "cli", "bench-auto"}
    BY <1>9 DEF CrashInSave
  <2>2. f \notin asking => by = "cli"
    OBVIOUS
  <2> HIDE DEF by
  <2>3. /\ Decides(f) /\ bundle'[f].status = "approved" /\ bundle'[f].by = by
        /\ \A d \in Export \ {f} : Keeps(d)
    BY <2>1, DecideBundle
  <2> QED
    BY <2>1, <2>2, <2>3 DEF Decides, Keeps, AdminOnly
<1>10. ASSUME NEW f \in Export, NEW a \in BOOLEAN, OperatorAnswers(f, a)
       PROVE  A /\ B /\ C
  <2>1. /\ f \in asking /\ asking' = asking \ {f}
        /\ \A d \in Export \ {f} : told'[d] = told[d]
        /\ told'[f] # "pending"
    BY <1>1, <1>10 DEF OperatorAnswers
  <2>2. \A d \in Export \ {f} : bundle'[d] = bundle[d]
    <3>1. CASE Open(f)
      <4>1. Save(f, Decided(f, a, "operator"))
        BY <1>10, <3>1 DEF OperatorAnswers
      <4> QED
        BY <4>1, SaveIsLocal
    <3>2. CASE ~ Open(f)
      BY <1>10, <3>2 DEF OperatorAnswers
    <3> QED
      BY <3>1, <3>2
  <2> QED
    BY <2>1, <2>2 DEF AdminOnly
<1> QED
  BY <1>3, <1>4, <1>5, <1>6, <1>7, <1>8, <1>9, <1>10 DEF Next

(* A step may answer one call; it never takes an artefact away.            *)
LEMMA ToldSteps ==
    ASSUME TypeInv, [Next]_vars, NEW e \in Export
    PROVE  /\ artefacts \subseteq artefacts'
           /\ \/ told'[e] = told[e]
              \/ told'[e] = "pending"
              \/ told'[e] = "error" /\ e \in asking /\ ~ Open(e) /\ Keeps(e)
              \/ /\ bundle'[e] # NIL /\ bundle'[e].status = told'[e]
                 /\ told'[e] = "approved" => e \in artefacts'
<1>1. told \in [Export -> Status \cup {"error", NIL}]
  BY DEF TypeInv, TypeOK
<1>2. CASE Apply \/ Rollback \/ World \/ (\E c \in Check : Verify(c)) \/ Crash
  BY <1>2 DEF Apply, Rollback, World, Verify, Crash, gateVars
<1>3. CASE UNCHANGED vars
  BY <1>3 DEF vars, gateVars
<1>4. CASE \E f \in Export : ExportChange(f) \/ AdminApproves(f) \/ CrashInSave(f)
  BY <1>4 DEF ExportChange, Prepare, AdminApproves, CrashInSave, Save
<1>5. ASSUME NEW f \in Export, ExportUnasked(f)
      PROVE  /\ artefacts' = artefacts \cup {f}
             /\ bundle'[f] # NIL /\ bundle'[f].status = "approved"
             /\ told'[f] = "approved"
             /\ \A d \in Export \ {f} : told'[d] = told[d]
  <2>1. Prepare(f, "approved", "bench-auto") /\ told' = [told EXCEPT ![f] = "approved"]
    BY <1>5 DEF ExportUnasked
  <2> QED
    BY <1>1, <2>1, PrepareBundle DEF Status
<1>6. ASSUME NEW f \in Export, CannotElicit(f)
      PROVE  artefacts' = artefacts /\ told'[f] = "pending"
             /\ \A d \in Export \ {f} : told'[d] = told[d]
  BY <1>1, <1>6 DEF CannotElicit
<1>7. ASSUME NEW f \in Export, NEW a \in BOOLEAN, OperatorAnswers(f, a), Open(f)
      PROVE  /\ artefacts' = IF a THEN artefacts \cup {f} ELSE artefacts
             /\ told'[f] = IF a THEN "approved" ELSE "declined"
             /\ bundle'[f] # NIL /\ bundle'[f].status = told'[f]
             /\ \A d \in Export \ {f} : told'[d] = told[d]
  <2>1. /\ Save(f, Decided(f, a, "operator")) /\ inForce' = inForce
        /\ told' = [told EXCEPT ![f] = IF a THEN "approved" ELSE "declined"]
    BY <1>7 DEF OperatorAnswers
  <2>2. Decides(f) /\ bundle'[f].status = IF a THEN "approved" ELSE "declined"
    BY <1>7, <2>1, DecideBundle DEF Save
  <2>3. Decided(f, a, "operator").status = IF a THEN "approved" ELSE "declined"
    BY <1>7, DecidedTyped DEF Open
  <2> QED
    BY <1>1, <2>1, <2>2, <2>3 DEF Save, Decides
<1>8. ASSUME NEW f \in Export, NEW a \in BOOLEAN, OperatorAnswers(f, a), ~ Open(f)
      PROVE  /\ artefacts' = artefacts /\ told'[f] = "error"
             /\ f \in asking /\ ~ Open(f) /\ Keeps(f)
             /\ \A d \in Export \ {f} : told'[d] = told[d]
  BY <1>1, <1>8 DEF OperatorAnswers, Keeps
<1> QED
  BY <1>2, <1>3, <1>4, <1>5, <1>6, <1>7, <1>8 DEF Next

LEMMA NextAnswered == ASSUME TypeInv, AnswerInv, [Next]_vars PROVE AnswerInv'
<1> SUFFICES ASSUME NEW e \in Export
             PROVE  /\ told'[e] \in {"approved", "declined"} =>
                         bundle'[e] # NIL /\ bundle'[e].status = told'[e]
                    /\ told'[e] = "approved" => e \in artefacts'
                    /\ e \in asking' \/ told'[e] = "pending" => AdminOnly(e)'
                    /\ told'[e] = "pending" => e \notin asking'
                    /\ told'[e] = "error" => bundle'[e] # NIL /\ bundle'[e].status # "pending"
  BY DEF AnswerInv
<1>1. /\ told[e] \in {"approved", "declined"} =>
           bundle[e] # NIL /\ bundle[e].status = told[e]
      /\ told[e] = "approved" => e \in artefacts
      /\ e \in asking \/ told[e] = "pending" => AdminOnly(e)
      /\ told[e] = "pending" => e \notin asking
      /\ told[e] = "error" => bundle[e] # NIL /\ bundle[e].status # "pending"
  BY DEF AnswerInv
<1>2. told[e] \in {"approved", "declined", "error"} => Keeps(e)
  BY <1>1, BundleSteps DEF Writes, Decides, Open
<1>3. told'[e] \in {"approved", "declined"} =>
        bundle'[e] # NIL /\ bundle'[e].status = told'[e]
  BY <1>1, <1>2, ToldSteps DEF Keeps
<1>4. told'[e] = "approved" => e \in artefacts'
  BY <1>1, ToldSteps
<1>5. e \in asking' => AdminOnly(e)'
  <2>1. CASE e \in asking /\ e \in asking'
    BY <1>1, <2>1, AskingSteps
  <2>2. CASE e \notin asking /\ e \in asking'
    BY <2>2, AskingSteps DEF AdminOnly
  <2> QED
    BY <2>1, <2>2
<1>6. told'[e] = "pending" => AdminOnly(e)' /\ e \notin asking'
  <2>1. CASE told[e] = "pending"
    BY <1>1, <2>1, AskingSteps DEF AdminOnly
  <2>2. CASE told[e] # "pending"
    BY <1>1, <2>2, AskingSteps DEF AdminOnly
  <2> QED
    BY <2>1, <2>2
<1>7. told'[e] = "error" => bundle'[e] # NIL /\ bundle'[e].status # "pending"
  BY <1>1, <1>2, ToldSteps DEF Keeps, Open, AdminOnly
<1> QED
  BY <1>3, <1>4, <1>5, <1>6, <1>7

----------------------------------------------------------------------------
(* Every variable of the verifier and of the gate keeps its type: each     *)
(* report an agent holds is complete, each bundle on disk is of a change   *)
(* that was recorded.                                                      *)
THEOREM TypeCorrect == Spec => []TypeOK
<1>1. Init => TypeInv
  BY InitTyped
<1>2. TypeInv /\ [Next]_vars => TypeInv'
  BY NextTyped
<1>3. TypeInv => TypeOK
  BY DEF TypeInv
<1> QED
  BY <1>1, <1>2, <1>3, PTL DEF Spec

LEMMA TruthHolds == ASSUME Quiet PROVE Spec => [](TypeInv /\ TruthInv)
<1>1. Init => TypeInv /\ TruthInv
  BY InitTyped, InitTrue
<1>2. TypeInv /\ TruthInv /\ [Next]_vars => TypeInv' /\ TruthInv'
  BY NextTyped, NextTrue
<1> QED
  BY <1>1, <1>2, PTL DEF Spec

(* What an attestation is worth, while twin and policy keep still during a *)
(* check: if the tables answered and did not stand still over a poll while *)
(* the routers were behind, the attested state has all that the policy     *)
(* demands, whatever other commands failed or timed out; and nothing that  *)
(* it forbids, unless the command that would have shown it failed          *)
(* (netverify.app.intent_check, rules.evaluate).                           *)
THEOREM AttestationsAreTrue == Quiet => (Spec => []AttestationTrue)
<1> SUFFICES ASSUME Quiet PROVE Spec => []AttestationTrue
  OBVIOUS
<1>1. TruthInv => AttestationTrue
  BY DEF TruthInv
<1> QED
  BY <1>1, TruthHolds, PTL

(* And it is given when it is due: a check that converged, saw the routers *)
(* as they were and lost no command of a session, allow or MTU rule passes *)
(* a state that satisfies the policy, even if deny probes and leak         *)
(* readings failed.                                                        *)
THEOREM GoodTwinsPass == Quiet => (Spec => []GoodTwinPasses)
<1> SUFFICES ASSUME Quiet PROVE Spec => []GoodTwinPasses
  OBVIOUS
<1>1. TruthInv => GoodTwinPasses
  BY DEF TruthInv
<1> QED
  BY <1>1, TruthHolds, PTL

(* Only a verified change is offered: the state after the change of every  *)
(* bundle is one that a report passed under the policy in force when it    *)
(* was prepared, with what that report attests, whatever the twin, the     *)
(* policy and the server have gone through since (twinlab.export.validate, *)
(* prepare).                                                               *)
THEOREM OffersAreVerified == Quiet => (Spec => []OfferedIsVerified)
<1> SUFFICES ASSUME Quiet PROVE Spec => []OfferedIsVerified
  OBVIOUS
<1>1. Init => OfferInv
  BY DEF Init, OfferInv
<1>2. TypeInv /\ TruthInv /\ OfferInv /\ [Next]_vars => OfferInv'
  BY NextOffered
<1>3. OfferInv => OfferedIsVerified
  BY DEF OfferInv, Offers, OfferedIsVerified
<1> QED
  BY <1>1, <1>2, <1>3, TruthHolds, PTL DEF Spec

(* What export_change has answered stays true of bundle.json, through      *)
(* crashes, restarts and operators who decide the same export twice: after *)
(* "approved" the artefacts are there, after "pending" nobody but the      *)
(* admin has decided, after an error somebody had.                         *)
THEOREM AnswersAreTrue == Spec => []AnswerIsTrue
<1>1. Init => TypeInv /\ AnswerInv
  <2>1. NIL # "approved" /\ NIL # "declined" /\ NIL # "pending" /\ NIL # "error"
    BY ExportGateAssumption DEF Status
  <2> QED
    BY <2>1, InitTyped DEF Init, AnswerInv
<1>2. TypeInv /\ AnswerInv /\ [Next]_vars => TypeInv' /\ AnswerInv'
  BY NextTyped, NextAnswered
<1>3. AnswerInv => AnswerIsTrue
  BY DEF AnswerInv, AnswerIsTrue, AdminOnly
<1> QED
  BY <1>1, <1>2, <1>3, PTL DEF Spec

(* An export is decided once (twinlab.export.decide_export): no step of    *)
(* anybody rewrites a bundle that is approved or declined.                 *)
THEOREM DecisionsAreFinal == Spec => DecisionIsFinal
<1>1. Init => TypeInv
  BY InitTyped
<1>2. TypeInv /\ [Next]_vars => TypeInv'
  BY NextTyped
<1>3. TypeInv /\ [Next]_vars =>
        [\A e \in Export : bundle[e] # NIL /\ bundle[e].status # "pending"
                             => bundle'[e] = bundle[e]]_vars
  BY BundleSteps DEF Writes, Decides, Keeps, Open
<1> QED
  BY <1>1, <1>2, <1>3, PTL DEF Spec, DecisionIsFinal


=============================================================================

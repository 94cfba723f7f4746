--------------------------- MODULE HarnessProofs ---------------------------
(***************************************************************************)
(* Proofs about Harness, for any matrix, faults, edits and bounds, and     *)
(* whatever the server and the process do: calls that fail, go unanswered  *)
(* or are served after they were given up, deaths anywhere, invocations    *)
(* on what the last one left, writes and calls from outside; and that a    *)
(* batch is stuck at most in opening a session, and never goes back.       *)
(***************************************************************************)
EXTENDS Harness, SequenceTheorems, TLAPS

----------------------------------------------------------------------------
(* The queue as a sequence: what it is made of, who waits in it.           *)
Entry == Call \X BOOLEAN

LEMMA EmptyAbandoned == ASSUME queue = <<>> PROVE Abandoned = <<>>
<1>1. Abandoned = [i \in {} |-> <<queue[i][1], FALSE>>]
  BY DEF Abandoned
<1> QED
  BY <1>1

LEMMA AbandonedQueue ==
    ASSUME queue \in Seq(Entry)
    PROVE  /\ Abandoned \in Seq(Entry) /\ Len(Abandoned) = Len(queue)
           /\ \A i \in 1..Len(queue) : Abandoned[i] = <<queue[i][1], FALSE>>
<1>1. Len(queue) \in Nat /\ DOMAIN queue = 1..Len(queue)
  OBVIOUS
<1>2. \A i \in 1..Len(queue) : queue[i] \in Entry
  OBVIOUS
<1>3. \A i \in 1..Len(queue) : <<queue[i][1], FALSE>> \in Entry
  BY <1>2 DEF Entry
<1>4. Abandoned \in [1..Len(queue) -> Entry]
  BY <1>1, <1>3 DEF Abandoned
<1>5. Abandoned \in Seq(Entry)
  BY <1>1, <1>4, SeqDef
<1>6. DOMAIN Abandoned = 1..Len(Abandoned) /\ Len(Abandoned) \in Nat
  BY <1>5
<1>7. \A m, n \in Nat : 1..m = 1..n => m = n
  <2> SUFFICES ASSUME NEW m \in Nat, NEW n \in Nat, 1..m = 1..n, m < n PROVE FALSE
    OBVIOUS
  <2>1. m + 1 \in 1..n /\ m + 1 \notin 1..m
    OBVIOUS
  <2> QED
    BY <2>1
<1>8. Len(Abandoned) = Len(queue)
  BY <1>1, <1>4, <1>6, <1>7
<1>9. \A i \in 1..Len(queue) : Abandoned[i] = <<queue[i][1], FALSE>>
  BY <1>1 DEF Abandoned
<1> QED
  BY <1>5, <1>8, <1>9

LEMMA Appended ==
    ASSUME NEW S, NEW q \in Seq(S), NEW x \in S
    PROVE  /\ Append(q, x) \in Seq(S) /\ Append(q, x) # <<>>
           /\ Len(Append(q, x)) = Len(q) + 1
           /\ Append(q, x)[Len(q) + 1] = x
           /\ \A i \in 1..Len(q) : Append(q, x)[i] = q[i]
  OBVIOUS

LEMMA Served ==
    ASSUME NEW S, NEW q \in Seq(S), q # <<>>
    PROVE  /\ Head(q) = q[1] /\ q[1] \in S /\ Tail(q) \in Seq(S)
           /\ Len(Tail(q)) = Len(q) - 1 /\ Len(q) \in Nat \ {0}
           /\ \A i \in 1..Len(Tail(q)) : Tail(q)[i] = q[i + 1]
           /\ Len(q) = 1 => Tail(q) = <<>>
<1>1. Tail(q) \in Seq(S) /\ Len(Tail(q)) = Len(q) - 1
      /\ \A i \in 1..Len(Tail(q)) : Tail(q)[i] = q[i + 1]
  BY HeadTailProperties
<1>2. Len(q) \in Nat \ {0}
  BY EmptySeq
<1>3. Head(q) = q[1] /\ q[1] \in S
  BY <1>2
<1>4. Len(q) = 1 => Tail(q) = <<>>
  <2>1. Tail(q) # <<>> => Len(Tail(q)) \in Nat \ {0}
    BY <1>1, EmptySeq
  <2> QED
    BY <1>1, <1>2, <2>1
<1> QED
  BY <1>1, <1>2, <1>3, <1>4

(* The calls that the harness and the agents send.                         *)
LEMMA CallsSent ==
    /\ \A s \in State : Rollback(s) \in Call
    /\ \A r \in Run : [do |-> "inject", arg |-> {Plan[r]}] \in Call
    /\ Edits \in Call
    /\ \A r \in Run : {Plan[r]} \in State
<1>1. \A r \in Run : Plan[r] \in Scenario
  BY HarnessAssumption DEF Run
<1> QED
  BY <1>1 DEF Rollback, Edits, Call, State

LEMMA EffectsTyped ==
    ASSUME twin \in State, NEW c \in Call
    PROVE  Effects(c) \subseteq State /\ Partly(c) \subseteq State
<1>1. c.do \in {"rollback", "inject", "edit"} /\ c.arg \in State
  BY DEF Call
<1>2. Effects(c) \subseteq State
  <2>1. CASE c.do = "rollback"
    BY <1>1, <2>1 DEF Effects
  <2>2. CASE c.do = "inject"
    BY <1>1, <2>2 DEF Effects, State
  <2>3. CASE c.do = "edit"
    BY <1>1, <2>3 DEF Effects
  <2> QED
    BY <1>1, <2>1, <2>2, <2>3
<1>3. \A whole, part \in State : (twin \ part) \cup (whole \cap part) \in State
  BY DEF State
<1> QED
  BY <1>2, <1>3 DEF Partly

----------------------------------------------------------------------------
(* The invariants.  Only the call last sent has somebody waiting for its   *)
(* answer.  While a run is prepared and nobody meddles, it is the last of  *)
(* the queue, so once it is answered the queue is empty.                   *)
Undisturbed == Preparing /\ ~ meddled

QueueInv ==
    /\ IF pc \in Waiting THEN sent \in Call ELSE reply = NIL
    /\ \A i \in 1..Len(queue) : queue[i][2] =>
         queue[i][1] = sent /\ pc \in Waiting /\ reply = NIL /\ session = "open"
    /\ \A i, j \in 1..Len(queue) : queue[i][2] /\ queue[j][2] => i = j
    /\ Undisturbed =>
         /\ \A i \in 1..Len(queue) : queue[i][2] => i = Len(queue)
         /\ reply = "ok" => queue = <<>>

(* A session is opened again before a second try, or for a read.           *)
SessionInv ==
    session = "opening" =>
      \/ pc \in Waiting \ {"planting"} /\ reply = NIL /\ tries = 1
      \/ pc \in Reading
      \/ pc \in Resetting /\ reply = "ok"

(* So the reset of a run is behind every call abandoned before it, and     *)
(* between its answer and the agent's start nothing else writes.           *)
StageInv ==
    /\ pc = "resetting" =>
         sent = Rollback(golden) /\ (Undisturbed /\ reply = "ok" => twin = golden)
    /\ pc = "plant" /\ Undisturbed => queue = <<>> /\ twin = golden
    /\ pc = "planting" =>
         /\ sent = [do |-> "inject", arg |-> {Plan[run]}]
         /\ Undisturbed /\ queue # <<>> => Len(queue) = 1 /\ twin = golden
         /\ Undisturbed /\ reply = "ok" => twin = golden \cup {Plan[run]}
    /\ pc = "settle" /\ Undisturbed => queue = <<>> /\ twin = golden \cup {Plan[run]}

(* What a batch that is going on knows of the file.  A run it is in is not *)
(* on record until it is appended; what is on record ahead of it was there *)
(* when the batch started, and will be passed over.                        *)
BookInv ==
    /\ pc \notin {"off", "pick"} => run \in Run
    /\ pc \notin {"off", "pick", "clean", "cleaning"} =>
         run \notin Recorded /\ fresh < limit
    /\ pc \in {"clean", "cleaning"} => run \in Recorded
    /\ pc # "off" =>
         /\ \A r \in Recorded : r > run \/ (pc = "pick" /\ r = run) => r \in done
         /\ done \subseteq Recorded
         /\ \A r \in Run : r < run => r \in Recorded \cup skipped
         /\ \A r \in skipped : r < run /\ r \notin Recorded

(* Every golden state on record is the one of the batch that is going on.  *)
GoldenInv ==
    /\ \A g, h \in Known : g = h
    /\ pc # "off" /\ golden # NIL => \A g \in Known : g = golden
    /\ pc \notin {"off", "pick", "baseline", "capture"} => golden \in State

(* What is left and what is to come is of the MaxStrays.                   *)
StrayInv == left + loose <= strays

IInv == TypeOK /\ StrayInv /\ QueueInv /\ SessionInv /\ StageInv /\ BookInv /\ GoldenInv

(* What a step does to the calls: nothing, and nobody waits; a call is     *)
(* sent; it is hung up; its session is opened, and it is tried again; the  *)
(* server serves one; something is written or called from outside.         *)
Quietly ==
    /\ UNCHANGED callVars /\ pc \notin Waiting /\ pc' \notin Waiting
    /\ session = "open" \/ UNCHANGED pc
Sends   == pc \notin Waiting /\ session = "open" /\ \E c \in Call, l \in Waiting : Send(c, l)
Ends    == HangUp /\ pc' \notin Waiting
Serves  == ServeOk \/ ServeFails
Strays  == LateWrites \/ StrayCalls

LEMMA CallKinds ==
    ASSUME IInv, [Next]_vars
    PROVE  \/ Quietly \/ Sends \/ Ends \/ Reconnect \/ Reconnected
           \/ Serves \/ Strays \/ UNCHANGED vars
<1>1. pc \notin Waiting \cup Reading => session = "open"
  BY DEF IInv, TypeOK, SessionInv, Waiting, Resetting
<1>2. CASE Start \/ Pick \/ Return
  <2>1. pc \in {"off", "pick"} /\ pc' \in {"off", "pick", "baseline", "reset"}
        /\ UNCHANGED callVars
    BY <1>2 DEF Start, Pick, Return, Goto
  <2> QED
    BY <1>1, <2>1 DEF Quietly, Waiting, Reading
<1>3. CASE Converged \/ BaselineFails \/ Baseline \/ SettleFails \/ Settled \/ Judge
           \/ LookupFails \/ AppendRecord
  <2>1. /\ session = "open" /\ pc \in Reading /\ UNCHANGED callVars
        /\ pc' \in {"off", "pick", "capture", "reset", "agent", "append", "clean"}
    BY <1>3 DEF Converged, BaselineFails, Baseline, SettleFails, Settled, Judge,
                LookupFails, AppendRecord, At, Goto, Skip, Reading
  <2> QED
    BY <2>1 DEF Quietly, Waiting, Reading
<1>4. CASE OperatorGolden
  BY <1>4 DEF OperatorGolden, Quietly, Waiting
<1>5. CASE ResetDone \/ Injected \/ PrepareFails \/ AgentGoesOn \/ AgentEnds \/ Bailed
           \/ CleanedUp \/ Crash
  BY <1>5 DEF Ends, Waiting, Skip, ResetDone, Injected, PrepareFails, AgentGoesOn,
              AgentEnds, Bailed, CleanedUp, Crash
<1>6. CASE Reset \/ AgentUnavailable \/ CleanUp
  <2>1. Rollback(golden) \in Call
    BY <1>6, CallsSent DEF IInv, GoldenInv, Reset, AgentUnavailable, CleanUp
  <2> QED
    BY <1>1, <1>6, <2>1 DEF Sends, Waiting, Reading, Reset, AgentUnavailable, CleanUp
<1>7. CASE Inject
  <2>1. run \in Run /\ pc = "plant"
    BY <1>7 DEF IInv, BookInv, Inject
  <2> QED
    BY <1>1, <1>7, <2>1, CallsSent DEF Sends, Waiting, Reading, Inject
<1>8. CASE AgentCalls
  BY <1>1, <1>8, CallsSent DEF Sends, Waiting, Reading, AgentCalls
<1> QED
  BY <1>2, <1>3, <1>4, <1>5, <1>6, <1>7, <1>8
  DEF Next, Process, Server, Serves, Strays

(* The server's step, seen from the call at the head of the queue.         *)
LEMMA ServeSteps ==
    ASSUME IInv, Serves
    PROVE  /\ queue # <<>> /\ queue' = Tail(queue) /\ queue[1] \in Entry
           /\ twin' \in State
           /\ ~ queue[1][2] => reply' = reply
           /\ queue[1][2] => reply' \in {"ok", "fail", NIL}
           /\ reply' = "ok" /\ queue[1][2] => twin' \in Effects(queue[1][1])
           /\ UNCHANGED <<file, pc, run, edits, sent, tries, session, loopVars, loose,
                          meddled>>
<1>1. queue \in Seq(Entry) /\ twin \in State
  BY DEF IInv, TypeOK, Entry
<1>2. queue # <<>> /\ queue' = Tail(queue)
  BY DEF Serves, ServeOk, ServeFails, Serve
<1>3. Head(queue) = queue[1] /\ queue[1] \in Entry
  BY <1>1, <1>2, Served
<1> DEFINE c == queue[1][1]
<1>4. c \in Call /\ queue[1][2] \in BOOLEAN
  BY <1>3 DEF Entry
<1>5. Effects(c) \subseteq State /\ Partly(c) \subseteq State
  BY <1>1, <1>4, EffectsTyped
<1>6. UNCHANGED <<file, pc, run, edits, sent, tries, session, loopVars, loose, meddled>>
  BY DEF Serves, ServeOk, ServeFails, Serve, strayVars
<1>7. CASE ServeOk
  <2>1. /\ twin' \in Effects(c)
        /\ reply' \in IF queue[1][2] THEN {"ok", NIL} ELSE {reply}
    BY <1>3, <1>7 DEF ServeOk, Serve
  <2> QED
    BY <1>2, <1>3, <1>4, <1>5, <1>6, <2>1
<1>8. CASE ServeFails
  <2>1. /\ twin' \in Partly(c)
        /\ reply' \in IF queue[1][2] THEN {"fail", NIL} ELSE {reply}
    BY <1>3, <1>8 DEF ServeFails, Serve
  <2> QED
    BY <1>2, <1>3, <1>4, <1>5, <1>6, <2>1, HarnessAssumption
<1> QED
  BY <1>7, <1>8 DEF Serves

(* What comes from outside leaves the calls of the batch as they are.      *)
LEMMA StraySteps ==
    ASSUME IInv, Strays
    PROVE  /\ twin' \in State
           /\ queue' = queue \/ queue' = Append(queue, <<Edits, FALSE>>)
           /\ meddled' = Preparing
           /\ UNCHANGED <<file, pc, run, edits, sent, tries, reply, session, loopVars>>
  BY DEF Strays, LateWrites, StrayCalls, callVars, IInv, TypeOK

CallTyped ==
    /\ queue \in Seq(Entry)
    /\ sent \in {NIL} \cup Call /\ tries \in 0..2 /\ reply \in {"ok", "fail", NIL}
    /\ session \in {"open", "opening"}

LEMMA NextCallTyped ==
    ASSUME IInv, [Next]_vars PROVE CallTyped' /\ QueueInv' /\ SessionInv'
<1>1. CallTyped /\ QueueInv /\ SessionInv
  BY DEF IInv, TypeOK, CallTyped, Entry
<1>2. Len(queue) \in Nat
  BY <1>1 DEF CallTyped
<1>3. CASE Quietly
  <2>1. /\ UNCHANGED callVars /\ pc \notin Waiting /\ pc' \notin Waiting
        /\ session = "open" \/ UNCHANGED pc
    BY <1>3 DEF Quietly
  <2>2. \A i \in 1..Len(queue) : ~ queue[i][2]
    BY <1>1, <2>1 DEF QueueInv
  <2>3. reply = NIL
    BY <1>1, <2>1 DEF QueueInv
  <2> QED
    BY <1>1, <2>1, <2>2, <2>3, HarnessAssumption
    DEF callVars, CallTyped, QueueInv, SessionInv
<1>4. CASE UNCHANGED vars
  BY <1>1, <1>4
  DEF vars, callVars, strayVars, CallTyped, QueueInv, SessionInv, Undisturbed, Preparing
<1>5. CASE Sends
  <2>1. PICK c \in Call, l \in Waiting : Send(c, l)
    BY <1>5 DEF Sends
  <2> DEFINE x == <<c, TRUE>>
  <2>2. x \in Entry
    BY DEF Entry
  <2>a. queue \in Seq(Entry) /\ queue' = Append(queue, x)
    BY <1>1, <2>1 DEF Send, CallTyped
  <2> HIDE DEF x
  <2>3. /\ queue' \in Seq(Entry) /\ Len(queue') = Len(queue) + 1
        /\ queue'[Len(queue) + 1] = x
        /\ \A i \in 1..Len(queue) : queue'[i] = queue[i]
    BY <2>2, <2>a, Appended
  <2>4. /\ sent' = c /\ tries' = 1 /\ reply' = NIL /\ pc' \in Waiting
        /\ session = "open" /\ session' = "open"
    BY <1>5, <2>1 DEF Send, Sends
  <2>5. \A i \in 1..Len(queue) : ~ queue[i][2]
    BY <1>1, <1>5 DEF Sends, QueueInv
  <2>6. \A i \in 1..Len(queue') : queue'[i][2] =>
          i = Len(queue') /\ queue'[i][1] = sent'
    <3> SUFFICES ASSUME NEW i \in 1..Len(queue'), queue'[i][2]
                 PROVE  i = Len(queue') /\ queue'[i][1] = sent'
      OBVIOUS
    <3>1. i = Len(queue) + 1
      BY <1>2, <2>3, <2>5
    <3> QED
      BY <2>3, <2>4, <3>1 DEF x
  <2>7. QueueInv'
    BY <2>3, <2>4, <2>6, HarnessAssumption DEF QueueInv
  <2> QED
    BY <2>3, <2>4, <2>7 DEF CallTyped, SessionInv
<1>6. CASE Ends
  <2>1. /\ queue' \in Seq(Entry) /\ Len(queue') = Len(queue)
        /\ \A i \in 1..Len(queue) : queue'[i] = <<queue[i][1], FALSE>>
    BY <1>1, <1>6, AbandonedQueue DEF Ends, HangUp, CallTyped
  <2>2. reply' = NIL /\ sent' = NIL /\ tries' = 0 /\ session' = "open" /\ pc' \notin Waiting
    BY <1>6 DEF Ends, HangUp
  <2>3. ASSUME NEW i \in 1..Len(queue') PROVE ~ queue'[i][2]
    <3>1. queue'[i] = <<queue[i][1], FALSE>>
      BY <2>1
    <3> QED
      BY <3>1
  <2> QED
    BY <2>1, <2>2, <2>3, HarnessAssumption DEF CallTyped, QueueInv, SessionInv
<1>7. CASE Reconnect
  <2>1. /\ session' = "opening" /\ queue' = Abandoned
        /\ UNCHANGED <<pc, sent, tries, reply, meddled>>
        /\ \/ pc \in Waiting \ {"planting"} /\ reply = NIL /\ tries = 1
           \/ pc \in Reading
           \/ pc \in Resetting /\ reply = "ok"
    BY <1>7 DEF Reconnect, FirstTry, Succeeded, strayVars
  <2>2. /\ queue' \in Seq(Entry) /\ Len(queue') = Len(queue)
        /\ \A i \in 1..Len(queue) : queue'[i] = <<queue[i][1], FALSE>>
    BY <1>1, <2>1, AbandonedQueue DEF CallTyped
  <2>3. ASSUME NEW i \in 1..Len(queue') PROVE ~ queue'[i][2]
    <3>1. queue'[i] = <<queue[i][1], FALSE>>
      BY <2>2
    <3> QED
      BY <3>1
  <2>4. SessionInv'
    BY <2>1 DEF SessionInv
  <2>5. Undisturbed' = Undisturbed
    BY <2>1 DEF Undisturbed, Preparing
  <2>6. queue = <<>> => queue' = <<>>
    BY <2>1, EmptyAbandoned
  <2>7. QueueInv'
    BY <1>1, <2>1, <2>3, <2>5, <2>6 DEF QueueInv
  <2> QED
    BY <1>1, <2>1, <2>2, <2>4, <2>7 DEF CallTyped
<1>8. CASE Reconnected
  <2>1. /\ session = "opening" /\ session' = "open" /\ pc \in Waiting /\ reply = NIL
        /\ UNCHANGED <<pc, sent, meddled>> /\ tries' = tries + 1
    BY <1>8 DEF Reconnected, Resend, CannotReconnect, Again, strayVars
  <2>2. tries = 1
    BY <1>1, <2>1, HarnessAssumption DEF SessionInv, Waiting, Reading
  <2>3. \A i \in 1..Len(queue) : ~ queue[i][2]
    BY <1>1, <2>1 DEF QueueInv
  <2>4. sent \in Call
    BY <1>1, <2>1 DEF QueueInv
  <2>5. CASE Resend
    <3> DEFINE x == <<sent, TRUE>>
    <3>1. x \in Entry
      BY <2>4 DEF Entry
    <3>2. queue \in Seq(Entry) /\ queue' = Append(queue, x) /\ reply' = NIL
      BY <1>1, <2>5 DEF Resend, Again, CallTyped
    <3> HIDE DEF x
    <3>3. /\ queue' \in Seq(Entry) /\ Len(queue') = Len(queue) + 1
          /\ queue'[Len(queue) + 1] = x
          /\ \A i \in 1..Len(queue) : queue'[i] = queue[i]
      BY <3>1, <3>2, Appended
    <3>4. ASSUME NEW i \in 1..Len(queue'), queue'[i][2]
          PROVE  i = Len(queue') /\ queue'[i][1] = sent'
      <4>1. i = Len(queue) + 1
        BY <1>2, <2>3, <3>3, <3>4
      <4> QED
        BY <2>1, <3>3, <4>1 DEF x
    <3>5. QueueInv'
      BY <2>1, <2>4, <3>2, <3>3, <3>4, HarnessAssumption DEF QueueInv
    <3> QED
      BY <1>1, <2>1, <2>2, <3>2, <3>3, <3>5 DEF CallTyped, SessionInv
  <2>6. CASE CannotReconnect
    <3>1. queue' = queue /\ reply' = "fail"
      BY <2>6 DEF CannotReconnect, Again
    <3>2. QueueInv'
      BY <2>1, <2>3, <2>4, <3>1 DEF QueueInv
    <3> QED
      BY <1>1, <2>1, <2>2, <3>1, <3>2 DEF CallTyped, SessionInv
  <2> QED
    BY <1>8, <2>5, <2>6 DEF Reconnected
<1>9. CASE Serves
  <2>1. /\ queue # <<>> /\ queue' = Tail(queue)
        /\ ~ queue[1][2] => reply' = reply
        /\ queue[1][2] => reply' \in {"ok", "fail", NIL}
        /\ UNCHANGED <<sent, tries, pc, session, meddled>>
    BY <1>9, ServeSteps
  <2>2. /\ queue' \in Seq(Entry) /\ Len(queue') = Len(queue) - 1
        /\ Len(queue) \in Nat \ {0}
        /\ \A i \in 1..Len(queue') : queue'[i] = queue[i + 1]
        /\ Len(queue) = 1 => queue' = <<>>
    BY <1>1, <2>1, Served DEF CallTyped
  <2>3. CallTyped'
    BY <1>1, <2>1, <2>2 DEF CallTyped
  <2>4. \A i \in 1..Len(queue') : i + 1 \in 1..Len(queue)
    BY <2>2
  <2>5. Undisturbed' = Undisturbed
    BY <2>1 DEF Undisturbed, Preparing
  <2>6. /\ \A i, j \in 1..Len(queue') : queue'[i][2] /\ queue'[j][2] => i = j
        /\ Undisturbed' => \A i \in 1..Len(queue') : queue'[i][2] => i = Len(queue')
    <3>1. ASSUME NEW i \in 1..Len(queue'), NEW j \in 1..Len(queue'),
                 queue'[i][2], queue'[j][2]
          PROVE  i = j
      <4>1. queue[i + 1][2] /\ queue[j + 1][2]
        BY <2>2, <3>1
      <4>2. i + 1 = j + 1
        BY <1>1, <2>4, <4>1 DEF QueueInv
      <4> QED
        BY <4>2
    <3>2. ASSUME Undisturbed', NEW i \in 1..Len(queue'), queue'[i][2]
          PROVE  i = Len(queue')
      <4>1. queue[i + 1][2]
        BY <2>2, <3>2
      <4>2. i + 1 = Len(queue)
        BY <1>1, <2>4, <2>5, <3>2, <4>1 DEF QueueInv
      <4> QED
        BY <2>2, <4>2
    <3> QED
      BY <3>1, <3>2
  <2>7. CASE queue[1][2]
    <3>1. \A i \in 1..Len(queue') : ~ queue'[i][2]
      <4> SUFFICES ASSUME NEW i \in 1..Len(queue'), queue'[i][2] PROVE FALSE
        OBVIOUS
      <4>1. queue[i + 1][2] /\ i + 1 \in 1..Len(queue) /\ 1 \in 1..Len(queue)
        BY <2>2, <2>4
      <4>2. i + 1 = 1
        BY <1>1, <2>7, <4>1 DEF QueueInv
      <4> QED
        BY <4>2
    <3>2. Undisturbed' => queue' = <<>>
      <4>1. 1 \in 1..Len(queue)
        BY <2>2
      <4>2. Undisturbed => 1 = Len(queue)
        BY <1>1, <2>7, <4>1 DEF QueueInv
      <4> QED
        BY <2>2, <2>5, <4>2
    <3>3. pc \in Waiting /\ reply = NIL /\ session = "open"
      <4>1. 1 \in 1..Len(queue)
        BY <2>2
      <4> QED
        BY <1>1, <2>7, <4>1 DEF QueueInv
    <3>4. QueueInv'
      BY <1>1, <2>1, <3>1, <3>2, <3>3 DEF QueueInv
    <3> QED
      BY <2>1, <2>3, <3>3, <3>4 DEF SessionInv
  <2>8. CASE ~ queue[1][2]
    <3>1. reply' = reply
      BY <2>1, <2>8
    <3>2. ASSUME NEW i \in 1..Len(queue'), queue'[i][2]
          PROVE  /\ queue'[i][1] = sent' /\ pc' \in Waiting /\ reply' = NIL
                 /\ session' = "open"
      <4>1. queue[i + 1][2] /\ queue'[i][1] = queue[i + 1][1]
        BY <2>2, <3>2
      <4>2. queue[i + 1][1] = sent /\ pc \in Waiting /\ reply = NIL /\ session = "open"
        BY <1>1, <2>4, <4>1 DEF QueueInv
      <4> QED
        BY <2>1, <3>1, <4>1, <4>2
    <3>3. Undisturbed' => reply' # "ok"
      BY <1>1, <2>1, <2>5, <3>1 DEF QueueInv
    <3>4. QueueInv'
      BY <1>1, <2>1, <2>6, <3>1, <3>2, <3>3 DEF QueueInv
    <3> QED
      BY <1>1, <2>1, <2>3, <3>1, <3>4 DEF SessionInv
  <2> QED
    BY <2>7, <2>8
<1>10. CASE Strays
  <2>1. /\ queue' = queue \/ queue' = Append(queue, <<Edits, FALSE>>)
        /\ meddled' = Preparing
        /\ UNCHANGED <<pc, sent, tries, reply, session>>
    BY <1>10, StraySteps
  <2>2. ~ Undisturbed'
    BY <2>1 DEF Undisturbed, Preparing
  <2>3. SessionInv'
    BY <1>1, <2>1 DEF SessionInv
  <2>4. CASE queue' = queue
    <3>1. QueueInv'
      BY <1>1, <2>1, <2>2, <2>4 DEF QueueInv
    <3> QED
      BY <1>1, <2>1, <2>3, <2>4, <3>1 DEF CallTyped
  <2>5. CASE queue' = Append(queue, <<Edits, FALSE>>)
    <3> DEFINE x == <<Edits, FALSE>>
    <3>1. x \in Entry /\ ~ x[2]
      BY CallsSent DEF Entry
    <3>2. queue \in Seq(Entry) /\ queue' = Append(queue, x)
      BY <1>1, <2>5 DEF CallTyped
    <3> HIDE DEF x
    <3>3. /\ queue' \in Seq(Entry) /\ Len(queue') = Len(queue) + 1
          /\ queue'[Len(queue) + 1] = x
          /\ \A i \in 1..Len(queue) : queue'[i] = queue[i]
      BY <3>1, <3>2, Appended
    <3>4. ASSUME NEW i \in 1..Len(queue'), queue'[i][2]
          PROVE  i \in 1..Len(queue) /\ queue'[i] = queue[i]
      <4>1. i # Len(queue) + 1
        BY <3>1, <3>3, <3>4
      <4>2. i \in 1..Len(queue)
        BY <1>2, <3>3, <4>1
      <4> QED
        BY <3>3, <4>2
    <3>5. QueueInv'
      BY <1>1, <2>1, <2>2, <3>4 DEF QueueInv
    <3> QED
      BY <1>1, <2>1, <2>3, <3>3, <3>5 DEF CallTyped
  <2> QED
    BY <2>1, <2>4, <2>5
<1> QED
  BY <1>3, <1>4, <1>5, <1>6, <1>7, <1>8, <1>9, <1>10, CallKinds

StrayTyped ==
    /\ left \in 0..MaxStrays /\ loose \in 0..MaxStrays /\ strays \in 0..MaxStrays
    /\ meddled \in BOOLEAN
    /\ left + loose <= strays

LEMMA NextStrayTyped == ASSUME IInv, [Next]_vars PROVE StrayTyped'
<1>1. StrayTyped /\ MaxStrays \in Nat
  BY HarnessAssumption DEF IInv, TypeOK, StrayInv, StrayTyped
<1>2. CASE UNCHANGED strayVars
  BY <1>1, <1>2 DEF strayVars, StrayTyped
<1>3. CASE MayLeaveAgent
  <2>1. PICK n \in 0..MaxStrays - strays : loose' = loose + n /\ strays' = strays + n
    BY <1>3 DEF MayLeaveAgent
  <2> QED
    BY <1>1, <1>3, <2>1 DEF MayLeaveAgent, StrayTyped
<1>4. CASE ServeFails
  <2>1. PICK n \in 0..MaxStrays - strays : left' = left + n /\ strays' = strays + n
    BY <1>4 DEF ServeFails
  <2> QED
    BY <1>1, <1>4, <2>1 DEF ServeFails, StrayTyped
<1>5. CASE Strays
  <2>1. meddled' \in BOOLEAN /\ strays' = strays
    <3>1. Preparing \in BOOLEAN
      BY DEF Preparing
    <3>2. meddled' = Preparing /\ strays' = strays
      BY <1>5 DEF Strays, LateWrites, StrayCalls
    <3> QED
      BY <3>1, <3>2
  <2>2. \/ left > 0 /\ left' = left - 1 /\ loose' = loose
        \/ loose > 0 /\ loose' = loose - 1 /\ left' = left
    BY <1>5 DEF Strays, LateWrites, StrayCalls
  <2> QED
    BY <1>1, <2>1, <2>2 DEF StrayTyped
<1>6. CASE Reset
  BY <1>1, <1>6 DEF Reset, StrayTyped
<1>7. \/ UNCHANGED strayVars \/ MayLeaveAgent \/ ServeFails \/ Strays \/ Reset
  BY DEF Next, Process, Reconnected, Server, vars, Goto, Skip, Start, Pick, Return,
         Converged, BaselineFails, Baseline, ResetDone, Inject, Injected, PrepareFails,
         SettleFails, Settled, AgentCalls, AgentGoesOn, AgentEnds, AgentUnavailable,
         Bailed, Judge, LookupFails, AppendRecord, CleanUp, CleanedUp, Reconnect, Resend,
         CannotReconnect, Again, ServeOk, OperatorGolden, Crash, Strays
<1> QED
  BY <1>2, <1>3, <1>4, <1>5, <1>6, <1>7

(* The rest of the state: the twin, the file, and the loop's own.          *)
LoopTyped ==
    /\ twin \in State /\ file \in Seq(Record)
    /\ pc \in {"off", "pick", "baseline", "capture", "reset", "plant", "settle",
               "agent", "judge", "append", "clean"} \cup Waiting
    /\ run \in 1..Len(Plan) + 1
    /\ golden \in {NIL} \cup State
    /\ done \subseteq Run /\ skipped \subseteq Run
    /\ fresh \in 0..Len(Plan) /\ limit \in Run
    /\ edits \in 0..MaxEdits
    /\ starts \in 0..MaxStarts

LEMMA PlanRuns == Len(Plan) \in Nat \ {0} /\ Run = 1..Len(Plan)
<1>1. Len(Plan) \in Nat \ {0}
  BY HarnessAssumption, EmptySeq
<1> QED
  BY <1>1, HarnessAssumption DEF Run

LEMMA RecordedRuns == ASSUME file \in Seq(Record) PROVE Recorded \subseteq Run
<1>1. \A i \in DOMAIN file : file[i] \in Record
  OBVIOUS
<1> QED
  BY <1>1 DEF Recorded, Record

(* What appending a record adds to the file.                               *)
LEMMA FileGrows ==
    ASSUME TypeOK, run \in Run, golden \in State, AppendRecord
    PROVE  /\ file' \in Seq(Record)
           /\ Len(file) \in Nat
           /\ DOMAIN file = 1..Len(file) /\ DOMAIN file' = 1..Len(file) + 1
           /\ file'[Len(file) + 1].run = run /\ file'[Len(file) + 1].golden = golden
           /\ \A i \in 1..Len(file) : file'[i] = file[i]
<1> DEFINE r == [run |-> run, golden |-> golden]
<1>1. r \in Record
  BY DEF Record, TypeOK
<1>2. file \in Seq(Record) /\ file' = Append(file, r)
  BY DEF TypeOK, AppendRecord
<1>3. r.run = run /\ r.golden = golden
  OBVIOUS
<1> HIDE DEF r
<1>4. /\ file' \in Seq(Record) /\ Len(file') = Len(file) + 1
      /\ file'[Len(file) + 1] = r
      /\ \A i \in 1..Len(file) : file'[i] = file[i]
  BY <1>1, <1>2, Appended
<1>5. Len(file) \in Nat /\ DOMAIN file = 1..Len(file) /\ DOMAIN file' = 1..Len(file')
  BY <1>2, <1>4
<1> QED
  BY <1>3, <1>4, <1>5

LEMMA RecordsGrow ==
    ASSUME TypeOK, run \in Run, golden \in State, AppendRecord
    PROVE  Recorded' = Recorded \cup {run} /\ Known' = Known \cup {golden}
<1>1. /\ DOMAIN file = 1..Len(file) /\ DOMAIN file' = (1..Len(file)) \cup {Len(file) + 1}
      /\ \A i \in 1..Len(file) : file'[i] = file[i]
      /\ file'[Len(file) + 1].run = run /\ file'[Len(file) + 1].golden = golden
  BY FileGrows
<1>2. Recorded' = Recorded \cup {run}
  BY <1>1 DEF Recorded
<1>3. Known' = Known \cup {golden}
  BY <1>1 DEF Known
<1> QED
  BY <1>2, <1>3

LEMMA FileSteps ==
    ASSUME [Next]_vars, ~ AppendRecord
    PROVE  file' = file /\ Recorded' = Recorded /\ Known' = Known
<1>1. file' = file
  BY DEF Next, Process, Reconnected, Server, vars, Goto, Skip, Start, Pick, Return,
         Converged, BaselineFails, Baseline, Reset, ResetDone, Inject, Injected,
         PrepareFails, SettleFails, Settled, AgentCalls, AgentGoesOn, AgentEnds,
         AgentUnavailable, Bailed, Judge, LookupFails, CleanUp, CleanedUp, Reconnect,
         Resend, CannotReconnect, Again, Serve, ServeOk, ServeFails, LateWrites,
         StrayCalls, OperatorGolden, Crash
<1> QED
  BY <1>1 DEF Recorded, Known

LEMMA NextLoopTyped == ASSUME IInv, [Next]_vars PROVE LoopTyped'
<1>1. LoopTyped /\ BookInv /\ GoldenInv /\ TypeOK
  BY DEF IInv, TypeOK, LoopTyped
<1>2. CASE UNCHANGED vars
  BY <1>1, <1>2 DEF vars, loopVars, LoopTyped, Waiting
<1>3. CASE Start
  <2>1. Recorded \subseteq Run
    BY <1>1, RecordedRuns DEF LoopTyped
  <2> QED
    BY <1>1, <1>3, <2>1, PlanRuns, HarnessAssumption
    DEF Start, LoopTyped, ExistingRunIds, Waiting
<1>a. CASE Pick
  <2>1. run \in Run /\ run + 1 \in 1..Len(Plan) + 1
    BY <1>a, PlanRuns DEF Pick
  <2>2. run' \in 1..Len(Plan) + 1 /\ pc' \in {"pick", "baseline", "reset"}
    BY <1>1, <1>a, <2>1 DEF Pick, LoopTyped
  <2> QED
    BY <1>1, <1>a, <2>2 DEF Pick, LoopTyped, Waiting, loopVars
<1>4. CASE Return \/ Converged \/ BaselineFails \/ LookupFails
  BY <1>1, <1>4
  DEF Return, Converged, BaselineFails, LookupFails, Goto, LoopTyped, Waiting, loopVars
<1>5. CASE Baseline
  BY <1>1, <1>5 DEF Baseline, LoopTyped, Waiting
<1>6. CASE Reset \/ Inject \/ AgentUnavailable \/ CleanUp
  BY <1>1, <1>6
  DEF Reset, Inject, AgentUnavailable, CleanUp, Send, LoopTyped, Waiting, loopVars
<1>7. CASE ResetDone \/ Injected \/ AgentGoesOn \/ AgentEnds \/ Bailed \/ Crash
  BY <1>1, <1>7
  DEF ResetDone, Injected, AgentGoesOn, AgentEnds, Bailed, Crash, LoopTyped, Waiting,
      loopVars
<1>b. CASE Reconnect \/ Reconnected
  BY <1>1, <1>b
  DEF Reconnect, Reconnected, Resend, CannotReconnect, Again, LoopTyped, Waiting, loopVars
<1>8. CASE PrepareFails \/ SettleFails
  <2>1. run \in Run
    BY <1>1, <1>8 DEF BookInv, PrepareFails, SettleFails, At
  <2>2. run + 1 \in 1..Len(Plan) + 1
    BY <2>1, PlanRuns
  <2>3. /\ run' = run + 1 /\ skipped' = skipped \cup {run} /\ pc' = "pick"
        /\ UNCHANGED <<twin, file, edits, golden, done, fresh, limit, starts>>
    BY <1>8 DEF PrepareFails, SettleFails, Skip
  <2> QED
    BY <1>1, <2>1, <2>2, <2>3 DEF LoopTyped
<1>9. CASE Settled
  BY <1>1, <1>9, HarnessAssumption DEF Settled, LoopTyped, Waiting, loopVars
<1>10. CASE AgentCalls
  <2>1. /\ edits' = edits + 1 /\ edits < MaxEdits /\ pc' = "calling"
        /\ UNCHANGED <<twin, file, run, loopVars>>
    BY <1>10 DEF AgentCalls, Send
  <2> QED
    BY <1>1, <2>1, HarnessAssumption DEF LoopTyped, Waiting, loopVars
<1>11. CASE Judge
  BY <1>1, <1>11 DEF Judge, Goto, LoopTyped, Waiting, loopVars
<1>12. CASE AppendRecord
  <2>1. run \in Run /\ golden \in State /\ fresh < limit
    BY <1>1, <1>12 DEF BookInv, GoldenInv, AppendRecord, At
  <2>2. file' \in Seq(Record)
    BY <1>1, <1>12, <2>1, FileGrows
  <2> QED
    BY <1>1, <1>12, <2>1, <2>2, PlanRuns DEF AppendRecord, LoopTyped, Waiting
<1>13. CASE CleanedUp
  <2>1. run \in Run
    BY <1>1, <1>13 DEF BookInv, CleanedUp, At
  <2> QED
    BY <1>1, <1>13, <2>1, PlanRuns DEF CleanedUp, LoopTyped, Waiting, loopVars
<1>14. CASE Serves \/ Strays
  BY <1>1, <1>14, ServeSteps, StraySteps DEF LoopTyped, Waiting, loopVars
<1>15. CASE OperatorGolden
  BY <1>1, <1>15 DEF OperatorGolden, LoopTyped, Waiting, loopVars, State
<1> QED
  BY <1>2, <1>3, <1>a, <1>4, <1>5, <1>6, <1>7, <1>b, <1>8, <1>9, <1>10, <1>11, <1>12,
     <1>13, <1>14, <1>15 DEF Next, Process, Server, Serves, Strays

LEMMA NextGolden == ASSUME IInv, [Next]_vars PROVE GoldenInv'
<1>1. TypeOK /\ BookInv /\ GoldenInv
  BY DEF IInv
<1>2. CASE AppendRecord
  <2>1. run \in Run /\ golden \in State /\ pc = "append" /\ golden' = golden
    BY <1>1, <1>2 DEF BookInv, GoldenInv, AppendRecord, At
  <2>2. Known' = Known \cup {golden}
    BY <1>1, <1>2, <2>1, RecordsGrow
  <2>3. golden # NIL
    BY <2>1, HarnessAssumption
  <2> QED
    BY <1>1, <2>1, <2>2, <2>3 DEF GoldenInv, State
<1>3. CASE Baseline
  <2>1. Known' = Known
    BY <1>3, FileSteps DEF Baseline, AppendRecord, At
  <2>2. golden' = twin /\ twin \in State
    BY <1>1, <1>3 DEF Baseline, TypeOK
  <2> QED
    BY <1>1, <1>3, <2>1, <2>2 DEF Baseline, GoldenInv, Trusted, State
<1>4. CASE ~ AppendRecord /\ ~ Baseline
  <2>1. Known' = Known
    BY <1>4, FileSteps
  <2> DEFINE Early == {"off", "pick", "baseline", "capture"}
  <2>2. \/ golden' = NIL /\ pc' = "pick"
        \/ /\ golden' = golden /\ (pc = "off" => pc' = "off")
           /\ pc \in Early /\ pc' \notin Early => golden # NIL
    <3>1. CASE Start
      BY <3>1 DEF Start
    <3>2. CASE Pick
      BY <3>2 DEF Pick, loopVars
    <3>3. CASE ~ Start /\ ~ Pick /\ ~ Serves /\ ~ Strays
      BY <1>4, <3>3 DEF Next, Process, Reconnected, Server, vars, At, Goto, Skip, Return,
           Converged, BaselineFails, Reset, ResetDone, Inject, Injected, PrepareFails,
           SettleFails, Settled, AgentCalls, AgentGoesOn, AgentEnds, AgentUnavailable,
           Bailed, Judge, LookupFails, CleanUp, CleanedUp, Reconnect, Resend,
           CannotReconnect, Again, OperatorGolden, Crash, loopVars, Send, Serves, Strays
    <3>4. CASE Serves \/ Strays
      BY <3>4, ServeSteps, StraySteps DEF loopVars
    <3> QED
      BY <3>1, <3>2, <3>3, <3>4
  <2> QED
    BY <1>1, <2>1, <2>2 DEF GoldenInv, TypeOK, State
<1> QED
  BY <1>2, <1>3, <1>4

(* What a step does to the batch: it starts one, ends it, goes on in the   *)
(* run it is in, or passes to the next one.                                *)
Early == {"off", "pick"}
Late  == {"clean", "cleaning"}

GoesOnWithRun ==
    /\ UNCHANGED <<run, done, skipped, fresh, limit>>
    /\ pc \notin Early /\ pc' \notin Early
    /\ pc \in Late <=> pc' \in Late

PassesToNext ==
    /\ run' = run + 1 /\ pc' = "pick" /\ pc \notin Early
    /\ UNCHANGED <<done, fresh, limit>>
    /\ \/ pc \in Late /\ skipped' = skipped
       \/ pc \notin Late /\ skipped' = skipped \cup {run}

LEMMA BatchSteps ==
    ASSUME IInv, [Next]_vars
    PROVE  \/ Start \/ Pick \/ AppendRecord \/ pc' = "off"
           \/ GoesOnWithRun \/ PassesToNext
           \/ UNCHANGED <<pc, run, done, skipped, fresh, limit>>
<1>1. CASE Start \/ Pick \/ AppendRecord
  BY <1>1
<1>2. CASE Return \/ BaselineFails \/ Bailed \/ LookupFails \/ Crash
  BY <1>2 DEF Return, BaselineFails, Bailed, LookupFails, Crash, Goto
<1>3. CASE Converged \/ Settled \/ AgentEnds \/ Judge \/ AgentGoesOn
  BY <1>3
  DEF Converged, Settled, AgentEnds, Judge, AgentGoesOn, At, Goto, loopVars,
      GoesOnWithRun, Early, Late
<1>4. CASE Baseline
  BY <1>4 DEF Baseline, At, GoesOnWithRun, Early, Late
<1>5. CASE Reset \/ Inject \/ AgentUnavailable \/ CleanUp \/ ResetDone \/ Injected
  BY <1>5 DEF Reset, Inject, AgentUnavailable, CleanUp, ResetDone, Injected, At, Send,
              loopVars, GoesOnWithRun, Early, Late
<1>6. CASE PrepareFails \/ SettleFails
  BY <1>6 DEF PrepareFails, SettleFails, At, Skip, PassesToNext, Early, Late
<1>7. CASE AgentCalls
  BY <1>7 DEF AgentCalls, Send, loopVars, GoesOnWithRun, Early, Late
<1>8. CASE CleanedUp
  BY <1>8 DEF CleanedUp, At, loopVars, PassesToNext, Early, Late
<1>9. CASE Reconnect \/ Reconnected
  BY <1>9 DEF Reconnect, Reconnected, Resend, CannotReconnect, Again, loopVars
<1>10. CASE Serves \/ Strays
  BY <1>10, ServeSteps, StraySteps DEF loopVars
<1>11. CASE OperatorGolden \/ UNCHANGED vars
  BY <1>11 DEF OperatorGolden, vars, loopVars
<1> QED
  BY <1>1, <1>2, <1>3, <1>4, <1>5, <1>6, <1>7, <1>8, <1>9, <1>10, <1>11
  DEF Next, Process, Server, Serves, Strays

LEMMA NextBook ==
    ASSUME IInv, RecordedOnce, [Next]_vars PROVE BookInv' /\ RecordedOnce'
<1>1. /\ TypeOK /\ BookInv /\ GoldenInv /\ run \in Nat
      /\ Recorded \subseteq Run /\ Run = 1..Len(Plan) /\ Len(Plan) \in Nat
  BY RecordedRuns, PlanRuns DEF IInv, TypeOK
<1>2. CASE AppendRecord
  <2>1. run \in Run /\ golden \in State /\ run \notin Recorded
    BY <1>1, <1>2 DEF BookInv, GoldenInv, AppendRecord, At
  <2>2. Recorded' = Recorded \cup {run}
    BY <1>1, <1>2, <2>1, RecordsGrow
  <2>3. BookInv'
    BY <1>1, <1>2, <2>1, <2>2 DEF BookInv, AppendRecord, At
  <2>4. /\ Len(file) \in Nat
        /\ DOMAIN file = 1..Len(file) /\ DOMAIN file' = 1..Len(file) + 1
        /\ file'[Len(file) + 1].run = run
        /\ \A i \in 1..Len(file) : file'[i] = file[i]
    BY <1>1, <1>2, <2>1, FileGrows
  <2>5. \A i \in 1..Len(file) : file[i].run # run
    BY <2>1, <2>4 DEF Recorded
  <2>6. ASSUME NEW i \in DOMAIN file', NEW j \in DOMAIN file', file'[i].run = file'[j].run
        PROVE  i = j
    BY <2>4, <2>5, <2>6 DEF RecordedOnce
  <2> QED
    BY <2>3, <2>6 DEF RecordedOnce
<1>3. CASE ~ AppendRecord
  <2>1. file' = file /\ Recorded' = Recorded
    BY <1>3, FileSteps
  <2>2. RecordedOnce'
    BY <2>1 DEF RecordedOnce
  <2>3. CASE Start
    BY <1>1, <2>1, <2>2, <2>3 DEF Start, ExistingRunIds, BookInv
  <2>4. CASE Pick
    <3>1. CASE run \in done
      <4>1. run' = run + 1 /\ UNCHANGED <<pc, done, skipped, fresh, limit>>
            /\ pc = "pick" /\ run \in Recorded
        BY <1>1, <2>4, <3>1 DEF Pick, loopVars, BookInv
      <4>2. \A r \in Run : r < run' => r < run \/ r = run
        BY <1>1, <4>1
      <4>3. \A r \in Recorded : r > run' \/ r = run' => r > run
        BY <1>1, <4>1
      <4>4. \A r \in skipped : r < run'
        BY <1>1, <4>1 DEF BookInv, TypeOK
      <4> QED
        BY <1>1, <2>1, <2>2, <4>1, <4>2, <4>3, <4>4 DEF BookInv
    <3>2. CASE run \notin done
      <4>1. run \in Run /\ run \notin Recorded /\ fresh < limit
        BY <1>1, <2>4, <3>2 DEF Pick, BookInv
      <4>2. UNCHANGED <<run, done, skipped, fresh, limit>>
            /\ pc = "pick" /\ pc' \in {"baseline", "reset"}
        BY <2>4, <3>2 DEF Pick, loopVars
      <4> QED
        BY <1>1, <2>1, <2>2, <4>1, <4>2 DEF BookInv
    <3> QED
      BY <3>1, <3>2
  <2>5. CASE pc' = "off"
    BY <2>2, <2>5 DEF BookInv
  <2>6. CASE GoesOnWithRun
    BY <1>1, <2>1, <2>2, <2>6 DEF GoesOnWithRun, Early, Late, BookInv
  <2>7. CASE PassesToNext
    <3>1. /\ run' = run + 1 /\ pc' = "pick" /\ pc # "off"
          /\ done' = done /\ run \in Run
      BY <1>1, <2>7 DEF PassesToNext, Early, BookInv
    <3>2. /\ skipped \subseteq skipped' /\ skipped' \subseteq skipped \cup {run}
          /\ run \in Recorded \/ run \in skipped'
          /\ run \in skipped' => run \notin Recorded
      BY <1>1, <2>7 DEF PassesToNext, Early, Late, BookInv
    <3>3. \A r \in Run : r < run' => r < run \/ r = run
      BY <1>1, <3>1
    <3>4. \A r \in Recorded : r > run' \/ r = run' => r > run
      BY <1>1, <3>1
    <3>5. \A r \in skipped' : r < run' /\ r \notin Recorded
      <4> SUFFICES ASSUME NEW r \in skipped' PROVE r < run' /\ r \notin Recorded
        OBVIOUS
      <4>1. CASE r = run
        BY <1>1, <3>1, <3>2, <4>1
      <4>2. CASE r \in skipped
        <5>1. r < run /\ r \notin Recorded /\ r \in Nat
          BY <1>1, <3>1, <4>2 DEF BookInv, TypeOK
        <5> QED
          BY <1>1, <3>1, <5>1
      <4> QED
        BY <3>2, <4>1, <4>2
    <3> QED
      BY <1>1, <2>1, <2>2, <3>1, <3>2, <3>3, <3>4, <3>5 DEF BookInv
  <2>8. CASE UNCHANGED <<pc, run, done, skipped, fresh, limit>>
    BY <1>1, <2>1, <2>2, <2>8 DEF BookInv
  <2> QED
    BY <1>3, <2>3, <2>4, <2>5, <2>6, <2>7, <2>8, BatchSteps
<1> QED
  BY <1>2, <1>3

LEMMA NextStage == ASSUME IInv, [Next]_vars PROVE StageInv'
<1>1. TypeOK /\ QueueInv /\ SessionInv /\ StageInv /\ queue \in Seq(Entry)
  BY DEF IInv, TypeOK, Entry
<1>2. CASE UNCHANGED vars
  BY <1>1, <1>2
  DEF vars, callVars, loopVars, strayVars, StageInv, Undisturbed, Preparing
<1>3. CASE Reset
  BY <1>3, HarnessAssumption DEF Reset, Send, loopVars, StageInv
<1>4. CASE ResetDone
  <2>1. pc = "resetting" /\ reply = "ok" /\ pc' = "plant" /\ queue' = Abandoned
        /\ UNCHANGED <<twin, golden, meddled>>
    BY <1>4 DEF ResetDone, At, Succeeded, HangUp, loopVars, strayVars
  <2>2. Undisturbed' => Undisturbed
    BY <2>1 DEF Undisturbed, Preparing
  <2>3. Undisturbed => queue = <<>> /\ twin = golden
    BY <1>1, <2>1 DEF QueueInv, StageInv
  <2>4. Undisturbed' => queue' = <<>> /\ twin' = golden'
    BY <2>1, <2>2, <2>3, EmptyAbandoned
  <2> QED
    BY <2>1, <2>4 DEF StageInv
<1>5. CASE Inject
  <2> DEFINE c == [do |-> "inject", arg |-> {Plan[run]}]
             x == <<c, TRUE>>
  <2>1. pc = "plant" /\ queue' = Append(queue, x) /\ sent' = c
        /\ reply' = NIL /\ pc' = "planting" /\ UNCHANGED <<twin, run, golden, meddled>>
    BY <1>5 DEF Inject, Send, loopVars, strayVars
  <2>2. x \in Entry
    <3>1. run \in Run
      BY <1>5 DEF Inject, IInv, BookInv
    <3> QED
      BY <3>1, CallsSent DEF Entry
  <2>3. Undisturbed' => queue = <<>> /\ twin = golden
    <3>1. Undisturbed' => Undisturbed
      BY <2>1 DEF Undisturbed, Preparing
    <3> QED
      BY <1>1, <2>1, <3>1 DEF StageInv
  <2> HIDE DEF x
  <2>4. Len(queue') = Len(queue) + 1
    BY <1>1, <2>1, <2>2, Appended
  <2>5. Undisturbed' => Len(queue') = 1 /\ twin' = golden'
    BY <2>1, <2>3, <2>4
  <2> QED
    BY <2>1, <2>5, HarnessAssumption DEF StageInv
<1>6. CASE Injected
  <2>1. pc = "planting" /\ reply = "ok" /\ pc' = "settle" /\ queue' = Abandoned
        /\ UNCHANGED <<twin, golden, run, meddled>>
    BY <1>6 DEF Injected, HangUp, loopVars, strayVars
  <2>2. Undisturbed' => Undisturbed
    BY <2>1 DEF Undisturbed, Preparing
  <2>3. Undisturbed => queue = <<>> /\ twin = golden \cup {Plan[run]}
    BY <1>1, <2>1 DEF QueueInv, StageInv
  <2>4. Undisturbed' => queue' = <<>> /\ twin' = golden' \cup {Plan[run']}
    BY <2>1, <2>2, <2>3, EmptyAbandoned
  <2> QED
    BY <2>1, <2>4 DEF StageInv
<1>7. CASE Reconnect
  <2>1. /\ queue' = Abandoned /\ pc # "planting" /\ pc # "plant"
        /\ UNCHANGED <<twin, pc, run, sent, reply, golden, meddled>>
    BY <1>7 DEF Reconnect, loopVars, strayVars, Reading, Waiting, Resetting
  <2>2. Undisturbed' = Undisturbed
    BY <2>1 DEF Undisturbed, Preparing
  <2>3. queue = <<>> => queue' = <<>>
    BY <2>1, EmptyAbandoned
  <2> QED
    BY <1>1, <2>1, <2>2, <2>3 DEF StageInv
<1>8. CASE Reconnected
  <2>1. /\ pc \in Waiting /\ pc # "planting" /\ reply' # "ok"
        /\ UNCHANGED <<pc, sent, golden>>
    <3>1. session = "opening" /\ pc \in Waiting /\ reply' # "ok"
          /\ UNCHANGED <<pc, sent, golden>>
      BY <1>8, HarnessAssumption
      DEF Reconnected, Resend, CannotReconnect, Again, loopVars
    <3> QED
      BY <1>1, <3>1 DEF SessionInv, Waiting, Reading, Resetting
  <2> QED
    BY <1>1, <2>1 DEF StageInv, Waiting
<1>9. CASE Serves
  <2>1. /\ queue # <<>> /\ queue' = Tail(queue)
        /\ ~ queue[1][2] => reply' = reply
        /\ reply' = "ok" /\ queue[1][2] => twin' \in Effects(queue[1][1])
        /\ UNCHANGED <<pc, run, sent, golden, meddled>>
    BY <1>9, ServeSteps DEF loopVars
  <2>2. Len(queue) \in Nat \ {0} /\ (Len(queue) = 1 => queue' = <<>>)
    BY <1>1, <2>1, Served
  <2>3. Undisturbed' = Undisturbed
    BY <2>1 DEF Undisturbed, Preparing
  <2>4. Undisturbed /\ reply' = "ok" => twin' \in Effects(sent)
    <3> SUFFICES ASSUME Undisturbed, reply' = "ok" PROVE twin' \in Effects(sent)
      OBVIOUS
    <3>1. reply # "ok"
      BY <1>1, <2>1 DEF QueueInv
    <3>2. queue[1][2]
      BY <2>1, <3>1
    <3>3. queue[1][1] = sent
      <4>1. 1 \in 1..Len(queue)
        BY <2>2
      <4> QED
        BY <1>1, <3>2, <4>1 DEF QueueInv
    <3> QED
      BY <2>1, <3>2, <3>3
  <2>5. CASE pc = "resetting"
    <3>1. sent = Rollback(golden)
      BY <1>1, <2>5 DEF StageInv
    <3>2. Effects(sent) = {golden}
      BY <3>1 DEF Effects, Rollback
    <3>3. Undisturbed' /\ reply' = "ok" => twin' = golden'
      BY <2>1, <2>3, <2>4, <3>2
    <3>4. sent' = Rollback(golden)'
      BY <2>1, <3>1 DEF Rollback
    <3> QED
      BY <2>1, <2>5, <3>3, <3>4 DEF StageInv
  <2>6. CASE pc = "planting"
    <3>1. sent = [do |-> "inject", arg |-> {Plan[run]}]
      BY <1>1, <2>6 DEF StageInv
    <3>2. Undisturbed => Len(queue) = 1 /\ twin = golden
      BY <1>1, <2>1, <2>6 DEF StageInv
    <3>3. Effects(sent) = {twin \cup {Plan[run]}}
      BY <3>1 DEF Effects
    <3>4. Undisturbed' /\ reply' = "ok" => twin' = golden' \cup {Plan[run']}
      BY <2>1, <2>3, <2>4, <3>2, <3>3
    <3>5. Undisturbed' => queue' = <<>>
      BY <2>2, <2>3, <3>2
    <3>6. sent' = [do |-> "inject", arg |-> {Plan[run']}]
      BY <2>1, <3>1
    <3> QED
      BY <2>1, <2>6, <3>4, <3>5, <3>6 DEF StageInv
  <2>7. CASE pc \notin {"resetting", "planting"}
    BY <1>1, <2>1, <2>3, <2>7 DEF StageInv
  <2> QED
    BY <2>5, <2>6, <2>7
<1>10. CASE Strays
  <2>1. meddled' = Preparing /\ UNCHANGED <<pc, run, sent, golden>>
    BY <1>10, StraySteps DEF loopVars
  <2>2. ~ Undisturbed'
    BY <2>1 DEF Undisturbed, Preparing
  <2> QED
    BY <1>1, <2>1, <2>2 DEF StageInv, Rollback
<1>11. CASE pc' \notin {"resetting", "plant", "planting", "settle"}
  BY <1>11 DEF StageInv
<1>12. CASE \/ Start \/ Pick \/ Return \/ Converged \/ BaselineFails \/ Baseline
            \/ PrepareFails \/ SettleFails \/ Settled \/ AgentCalls \/ AgentGoesOn
            \/ AgentEnds \/ AgentUnavailable \/ Bailed \/ Judge \/ LookupFails
            \/ AppendRecord \/ CleanUp \/ CleanedUp \/ Crash \/ OperatorGolden
  <2>1. pc' \notin {"resetting", "plant", "planting", "settle"}
    BY <1>12 DEF Start, Pick, Return, Converged, BaselineFails, Baseline, PrepareFails,
         SettleFails, Settled, AgentCalls, AgentGoesOn, AgentEnds, AgentUnavailable,
         Bailed, Judge, LookupFails, AppendRecord, CleanUp, CleanedUp, Crash,
         OperatorGolden, At, Goto, Skip, Send
  <2> QED
    BY <1>11, <2>1
<1> QED
  BY <1>2, <1>3, <1>4, <1>5, <1>6, <1>7, <1>8, <1>9, <1>10, <1>12
  DEF Next, Process, Server, Serves, Strays

----------------------------------------------------------------------------
LEMMA InitInv == ASSUME Init PROVE IInv /\ RecordedOnce
<1>1. Recorded = {} /\ Known = {}
  BY DEF Init, Recorded, Known
<1>2. TypeOK
  <2>1. {} \in State /\ <<>> \in Seq(Record) /\ <<>> \in Seq(Call \X BOOLEAN)
    BY DEF State
  <2>2. 1 \in 1..Len(Plan) + 1 /\ 0 \in 0..Len(Plan) /\ Len(Plan) \in Run
    BY PlanRuns
  <2>3. 0 \in 0..MaxEdits /\ 0 \in 0..MaxStarts /\ 0 \in 0..MaxStrays
    BY HarnessAssumption
  <2>4. /\ twin \in State /\ file \in Seq(Record) /\ queue \in Seq(Call \X BOOLEAN)
        /\ sent \in {NIL} \cup Call /\ tries \in 0..2 /\ reply \in {"ok", "fail", NIL}
        /\ session \in {"open", "opening"}
    BY <2>1 DEF Init
  <2>6. meddled \in BOOLEAN
    BY DEF Init
  <2>7. left \in 0..MaxStrays /\ loose \in 0..MaxStrays /\ strays \in 0..MaxStrays
    BY <2>3 DEF Init
  <2>5. /\ pc = "off" /\ run \in 1..Len(Plan) + 1 /\ golden \in {NIL} \cup State
        /\ done \subseteq Run /\ skipped \subseteq Run
        /\ fresh \in 0..Len(Plan) /\ limit \in Run
        /\ edits \in 0..MaxEdits /\ starts \in 0..MaxStarts
    BY <2>2, <2>3 DEF Init
  <2> QED
    BY <2>4, <2>5, <2>6, <2>7 DEF TypeOK
<1>3. QueueInv /\ SessionInv /\ StageInv /\ StrayInv
  BY DEF Init, QueueInv, SessionInv, StageInv, StrayInv, Undisturbed, Preparing, Waiting
<1>4. BookInv /\ GoldenInv
  BY <1>1 DEF Init, BookInv, GoldenInv
<1>5. RecordedOnce
  BY DEF Init, RecordedOnce
<1> QED
  BY <1>2, <1>3, <1>4, <1>5 DEF IInv

LEMMA NextInv ==
    ASSUME IInv, RecordedOnce, [Next]_vars PROVE IInv' /\ RecordedOnce'
<1>1. CallTyped' /\ QueueInv' /\ SessionInv' /\ StrayTyped' /\ LoopTyped' /\ GoldenInv'
      /\ StageInv' /\ BookInv' /\ RecordedOnce'
  BY NextCallTyped, NextStrayTyped, NextLoopTyped, NextGolden, NextStage, NextBook
<1> QED
  BY <1>1 DEF IInv, TypeOK, CallTyped, StrayTyped, StrayInv, LoopTyped, Entry

LEMMA InvHolds == Spec => [](IInv /\ RecordedOnce)
<1>1. Init => IInv /\ RecordedOnce
  BY InitInv
<1>2. IInv /\ RecordedOnce /\ [Next]_vars => IInv' /\ RecordedOnce'
  BY NextInv
<1> QED
  BY <1>1, <1>2, PTL DEF Spec

(* Every variable of the loop keeps its type: each call in the queue of    *)
(* the server and each record of runs.jsonl is complete.                   *)
THEOREM TypeCorrect == Spec => []TypeOK
<1>1. IInv => TypeOK
  BY DEF IInv
<1> QED
  BY <1>1, InvHolds, PTL

(* run_matrix appends one line per run, in however many invocations and    *)
(* wherever they die (existing_run_ids, append_record).                    *)
THEOREM RunsAreRecordedOnce == Spec => []RecordedOnce
  BY InvHolds, PTL

(* All the runs on record were reset to and judged against one golden      *)
(* state (baseline).                                                       *)
THEOREM GoldenIsOne == Spec => []OneGolden
<1>1. IInv => OneGolden
  BY DEF IInv, GoldenInv, OneGolden, Known
<1> QED
  BY <1>1, InvHolds, PTL

(* What a batch has passed is on record or skipped, not both (run_matrix:  *)
(* the report of what was skipped is right).                               *)
THEOREM BatchesAccount == Spec => []Accounted
<1>1. IInv => Accounted
  BY DEF IInv, BookInv, Accounted
<1> QED
  BY <1>1, InvHolds, PTL

(* An agent starts on golden and its scenario's fault, and no call given   *)
(* up on is left that could still write, unless an agent left behind or a  *)
(* command left under way meddled since its reset was sent (run_one:       *)
(* reset, then inject).                                                    *)
THEOREM AgentsStartPlanted == Spec => StartsPlanted
<1>1. IInv /\ [Next]_vars =>
        [pc # "agent" /\ pc # "calling" /\ pc' = "agent" =>
           meddled \/ (twin' = golden \cup {Plan[run]} /\ queue' = <<>>)]_vars
  <2> SUFFICES ASSUME IInv, [Next]_vars, pc # "agent", pc # "calling", pc' = "agent",
                      ~ meddled
               PROVE  twin' = golden \cup {Plan[run]} /\ queue' = <<>>
    OBVIOUS
  <2>1. Settled
    <3>1. ~ UNCHANGED vars /\ ~ Serves /\ ~ Strays
      BY ServeSteps, StraySteps DEF vars
    <3> QED
      BY <3>1 DEF Next, Process, Reconnected, Server, Serves, Strays, Goto, Skip, Start,
         Pick, Return, Converged, BaselineFails, Baseline, Reset, ResetDone, Inject,
         Injected, PrepareFails, SettleFails, AgentCalls, AgentGoesOn, AgentEnds,
         AgentUnavailable, Bailed, Judge, LookupFails, AppendRecord, CleanUp, CleanedUp,
         Reconnect, Resend, CannotReconnect, Again, OperatorGolden, Crash, Send
  <2> QED
    BY <2>1 DEF Settled, At, callVars, IInv, StageInv, Undisturbed, Preparing
<1> QED
  BY <1>1, InvHolds, PTL DEF Spec, StartsPlanted

----------------------------------------------------------------------------
(* A batch waits in vain at most for a session to open, and never goes     *)
(* round in circles: what BatchEnds rests on, for any matrix, and whatever *)
(* the server does.                                                        *)

(* What lets a batch go on without the server: one line per guard.         *)
BatchMayGoOn ==
    \/ pc = "pick" /\ fresh < limit /\ run \in Run
    \/ pc = "pick" /\ (fresh >= limit \/ run \notin Run)
    \/ pc \in {"baseline", "capture", "reset", "plant", "settle", "agent", "judge",
               "append", "clean"}
    \/ pc \in Waiting \ {"planting"} /\ reply = NIL /\ FirstTry
    \/ pc \in Waiting /\ (Succeeded \/ Failed)

NeverStuck == pc # "off" /\ session = "open" => BatchMayGoOn

(* A call that is waited for was sent once or twice.                       *)
TriesInv == pc \in Waiting => tries \in {1, 2}

LEMMA OpeningTries == ASSUME IInv, Reconnected PROVE tries = 1
<1>1. session = "opening" /\ pc \in Waiting /\ reply = NIL
  BY DEF Reconnected, Resend, CannotReconnect, Again
<1> QED
  BY <1>1, HarnessAssumption DEF IInv, SessionInv, Waiting, Reading

LEMMA NextTries ==
    ASSUME IInv, TriesInv, [Next]_vars PROVE TriesInv'
<1>1. CASE Quietly
  BY <1>1 DEF Quietly, TriesInv
<1>2. CASE Sends
  BY <1>2 DEF Sends, Send, TriesInv
<1>3. CASE Ends
  BY <1>3 DEF Ends, TriesInv
<1>4. CASE Reconnect
  BY <1>4 DEF Reconnect, TriesInv
<1>a. CASE Reconnected
  <2>1. tries = 1 /\ tries' = tries + 1
    BY <1>a, OpeningTries DEF Reconnected, Resend, CannotReconnect, Again
  <2> QED
    BY <2>1 DEF TriesInv
<1>5. CASE Serves \/ Strays
  BY <1>5, ServeSteps, StraySteps DEF TriesInv
<1>6. CASE UNCHANGED vars
  BY <1>6 DEF vars, callVars, TriesInv
<1> QED
  BY <1>1, <1>2, <1>3, <1>4, <1>a, <1>5, <1>6, CallKinds

LEMMA Labels ==
    ASSUME IInv
    PROVE  pc \in Waiting \cup {"off", "pick", "baseline", "capture", "reset", "plant",
                                "settle", "agent", "judge", "append", "clean"}
<1>1. TypeOK
  BY DEF IInv
<1> QED
  BY <1>1 DEF TypeOK, Waiting

(* Wherever a batch is and whatever became of its calls, a step of its own *)
(* is possible, unless a session is being opened again: that is the one    *)
(* thing it may wait for in vain (NeverStuck).                             *)
THEOREM BatchesAreNeverStuck == Spec => []NeverStuck
<1>1. Init => TriesInv
  BY DEF Init, TriesInv, Waiting
<1>2. IInv /\ TriesInv /\ [Next]_vars => TriesInv'
  BY NextTries
<1>3. IInv /\ TriesInv => NeverStuck
  <2> SUFFICES ASSUME IInv, TriesInv, pc # "off" PROVE BatchMayGoOn
    BY DEF NeverStuck
  <2>1. CASE pc \in Waiting
    <3>1. reply \in {"ok", "fail", NIL}
      BY DEF IInv, TypeOK
    <3> QED
      BY <2>1, <3>1 DEF BatchMayGoOn, TriesInv, FirstTry, Failed, Succeeded
  <2>2. CASE pc = "pick"
    <3>1. fresh \in Nat /\ limit \in Nat
      BY PlanRuns DEF IInv, TypeOK
    <3> QED
      BY <2>2, <3>1 DEF BatchMayGoOn
  <2> QED
    BY <2>1, <2>2, Labels DEF BatchMayGoOn
<1> QED
  BY <1>1, <1>2, <1>3, InvHolds, PTL DEF Spec

(* The stages of one run, the reset that a missing agent asks for included.*)
Stage == [pick |-> 0, baseline |-> 1, capture |-> 2, reset |-> 3, resetting |-> 4,
          plant |-> 5, planting |-> 6, settle |-> 7, agent |-> 8, calling |-> 8,
          judge |-> 9, append |-> 10, clean |-> 11, cleaning |-> 12,
          bailing |-> 12, off |-> 13]

(* The next run, a later stage of this one, one more of the agent's calls  *)
(* or the end of it, the second try of a call, or the session for it.      *)
BatchGetsOn ==
    \/ run < run'
    \/ run' = run /\ Stage[pc] < Stage[pc']
    \/ run' = run /\ pc = "agent" /\ pc' = "calling" /\ edits < edits'
    \/ run' = run /\ pc = "calling" /\ pc' = "agent" /\ edits' = edits
    \/ run' = run /\ pc' = pc /\ edits' = edits /\ tries < tries'
    \/ /\ run' = run /\ pc' = pc /\ edits' = edits /\ tries' = tries
       /\ session = "open" /\ session' = "opening"

(* Each step of a batch gets it on; nobody else's takes it back.           *)
BatchesGetOn ==
    [][pc # "off" =>
         /\ Process => BatchGetsOn
         /\ BatchGetsOn \/ UNCHANGED <<run, pc, edits, tries, session>>]_vars

LEMMA Stages ==
    /\ Stage["pick"] < Stage["baseline"] /\ Stage["pick"] < Stage["reset"]
    /\ Stage["baseline"] < Stage["capture"] /\ Stage["capture"] < Stage["reset"]
    /\ Stage["reset"] < Stage["resetting"] /\ Stage["resetting"] < Stage["plant"]
    /\ Stage["plant"] < Stage["planting"] /\ Stage["planting"] < Stage["settle"]
    /\ Stage["settle"] < Stage["agent"] /\ Stage["agent"] < Stage["judge"]
    /\ Stage["calling"] < Stage["judge"] /\ Stage["agent"] < Stage["bailing"]
    /\ Stage["judge"] < Stage["append"] /\ Stage["append"] < Stage["clean"]
    /\ Stage["clean"] < Stage["cleaning"]
    /\ \A label \in Waiting \cup {"pick", "baseline", "capture", "reset", "plant",
                                  "settle", "agent", "judge", "append", "clean"} :
         Stage[label] < Stage["off"]
  BY DEF Stage, Waiting

LEMMA ProcessGetsOn ==
    ASSUME IInv, Process PROVE BatchGetsOn
<1> USE Stages DEF BatchGetsOn
<1>1. run \in Nat /\ edits \in Nat
  BY PlanRuns DEF IInv, TypeOK
<1>2. CASE Pick
  BY <1>1, <1>2 DEF Pick
<1>3. CASE Return \/ BaselineFails \/ Bailed \/ LookupFails
  BY <1>3 DEF Return, BaselineFails, Bailed, LookupFails, At, Goto, Waiting
<1>4. CASE Converged \/ Baseline \/ Settled \/ Judge
  BY <1>4 DEF Converged, Baseline, Settled, Judge, At, Goto
<1>5. CASE AppendRecord
  BY <1>5 DEF AppendRecord, At
<1>6. CASE Reset \/ Inject \/ AgentUnavailable \/ CleanUp
  BY <1>6 DEF Reset, Inject, AgentUnavailable, CleanUp, Send
<1>7. CASE ResetDone \/ Injected \/ AgentEnds
  BY <1>7 DEF ResetDone, Injected, AgentEnds, At
<1>8. CASE PrepareFails \/ SettleFails \/ CleanedUp
  BY <1>1, <1>8 DEF PrepareFails, SettleFails, CleanedUp, At, Skip
<1>9. CASE AgentCalls
  <2>1. pc = "agent" /\ pc' = "calling" /\ run' = run /\ edits' = edits + 1
    BY <1>9 DEF AgentCalls, Send, loopVars
  <2> QED
    BY <1>1, <2>1
<1>10. CASE AgentGoesOn
  BY <1>10 DEF AgentGoesOn
<1>11. CASE Reconnect
  BY <1>11 DEF Reconnect
<1> QED
  BY <1>2, <1>3, <1>4, <1>5, <1>6, <1>7, <1>8, <1>9, <1>10, <1>11 DEF Process

(* Every step of a batch passes a run, a stage of the run it is in, a call *)
(* of the agent or a try of a call, of each of which there are as many as  *)
(* TypeOK allows; what the server serves takes none of it back, and a      *)
(* crash ends it (BatchesGetOn).                                           *)
THEOREM BatchesDoGetOn == Spec => BatchesGetOn
<1> DEFINE GetsOn ==
      pc # "off" =>
        /\ Process => BatchGetsOn
        /\ BatchGetsOn \/ UNCHANGED <<run, pc, edits, tries, session>>
<1>1. ASSUME IInv, [Next]_vars PROVE GetsOn
  <2> SUFFICES ASSUME pc # "off"
               PROVE  /\ Process => BatchGetsOn
                      /\ BatchGetsOn \/ UNCHANGED <<run, pc, edits, tries, session>>
    OBVIOUS
  <2>1. Process => BatchGetsOn
    BY <1>1, ProcessGetsOn
  <2>2. ~ Start /\ ~ OperatorGolden
    BY DEF Start, OperatorGolden
  <2>3. Serves \/ Strays => UNCHANGED <<run, pc, edits, tries, session>>
    BY <1>1, ServeSteps, StraySteps
  <2>a. Reconnected => BatchGetsOn
    <3> SUFFICES ASSUME Reconnected PROVE BatchGetsOn
      OBVIOUS
    <3>1. UNCHANGED <<run, pc, edits>> /\ tries' = tries + 1 /\ tries = 1
      BY <1>1, OpeningTries DEF Reconnected, Resend, CannotReconnect, Again, loopVars
    <3> QED
      BY <3>1 DEF BatchGetsOn
  <2>4. UNCHANGED vars => UNCHANGED <<run, pc, edits, tries, session>>
    BY DEF vars, callVars
  <2>5. Crash => BatchGetsOn
    <3>1. pc # "off" /\ Stage[pc] < Stage["off"]
      BY <1>1, Labels, Stages
    <3> QED
      BY <3>1 DEF Crash, BatchGetsOn
  <2> QED
    BY <1>1, <2>1, <2>2, <2>3, <2>a, <2>4, <2>5 DEF Next, Server, Serves, Strays
<1>2. IInv /\ [Next]_vars => [GetsOn]_vars
  BY <1>1
<1> QED
  BY <1>2, InvHolds, PTL DEF Spec, BatchesGetOn

=============================================================================

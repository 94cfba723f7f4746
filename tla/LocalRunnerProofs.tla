------------------------- MODULE LocalRunnerProofs -------------------------
(***************************************************************************)
(* What agents are served, for every set of tools and roles and whatever   *)
(* the role files list; the types of the loops and of the servers; what a  *)
(* run is charged; which changes the records of a run are of; and that     *)
(* every step of a run brings its end nearer.                              *)
(***************************************************************************)
EXTENDS LocalRunner, SequenceTheorems, TLAPS

Allowed(tool, by) ==
    /\ by \in Role => tool \in Listed(by) \ Disallowed(by)
    /\ by = "main" /\ team => tool \in Commander
    /\ ~ verifier => tool \notin Verifier \cup {Export}

(* What was served was allowed, and so is what may yet be served late.     *)
AllowedInv ==
    /\ \A tool, by : <<tool, by>> \in served => Allowed(tool, by)
    /\ \A req \in late : Allowed(req.tool, req.by)

(* The tools given to a loop are allowed to its agent: the filters of role *)
(* files and of the ablation compose (role_tools, without_verifier).       *)
LEMMA ToolsetAllowed ==
    ASSUME NEW by, NEW tool \in Toolset(by)
    PROVE  Allowed(tool, by)
  BY LocalRunnerAssumption DEF Toolset, Available, Allowed

(* A step that serves at most an allowed request, or puts one off, keeps   *)
(* the invariant.                                                          *)
LEMMA ServeKeeps ==
    ASSUME AllowedInv, UNCHANGED configVars,
           NEW tool, NEW by, Allowed(tool, by),
           \/ served' = served
           \/ served' = served \cup {<<tool, by>>},
           \A req \in late' : req \in late \/ (req.tool = tool /\ req.by = by)
    PROVE  AllowedInv'
  BY DEF AllowedInv, Allowed, configVars

LEMMA QuietKeeps ==
    ASSUME AllowedInv, UNCHANGED configVars, UNCHANGED serverVars
    PROVE  AllowedInv'
  BY DEF AllowedInv, Allowed, configVars, serverVars

LEMMA AllowedStep == AllowedInv /\ [Next]_vars => AllowedInv'
<1> SUFFICES ASSUME AllowedInv, [Next]_vars PROVE AllowedInv'
  OBVIOUS
<1>1. CASE StartRun
  BY <1>1, QuietKeeps DEF StartRun
<1>2. CASE Chat
  <2>1. CASE OutOfTurns
    BY <2>1, QuietKeeps DEF OutOfTurns
  <2>2. CASE ReplyCalls
    BY <2>2, QuietKeeps DEF ReplyCalls, ChatUses
  <2>3. CASE ReplyText
    BY <2>3, QuietKeeps DEF ReplyText, ChatUses
  <2>4. CASE ThinkRejected
    BY <2>4, QuietKeeps DEF ThinkRejected
  <2>5. CASE ChatFails
    BY <2>5, QuietKeeps DEF ChatFails, Raise
  <2> QED
    BY <1>2, <2>1, <2>2, <2>3, <2>4, <2>5 DEF Chat
<1>3. CASE Refused \/ Launch
  BY <1>3, QuietKeeps DEF Refused, Launch
<1>4. ASSUME Calling PROVE Allowed(Called, Top.by)
  BY <1>4, ToolsetAllowed DEF Calling
<1>5. CASE Answered
  <2>1. Calling /\ UNCHANGED <<configVars, late>>
    BY <1>5 DEF Answered
  <2>2. served' = served \/ served' = served \cup {<<Called, Top.by>>}
    BY <1>5 DEF Answered, Serve, This
  <2> QED
    BY <1>4, <2>1, <2>2, ServeKeeps
<1>6. CASE NoAnswer
  <2>1. Calling /\ UNCHANGED configVars
    BY <1>6 DEF NoAnswer, Raise
  <2>2. served' = served \/ served' = served \cup {<<Called, Top.by>>}
    BY <1>6 DEF NoAnswer, Serve, This, serverVars
  <2>3. late' = late \/ late' = late \cup {This}
    BY <1>6 DEF NoAnswer, serverVars
  <2>4. This.tool = Called /\ This.by = Top.by
    BY DEF This
  <2>5. \A req \in late' : req \in late \/ (req.tool = Called /\ req.by = Top.by)
    BY <2>3, <2>4
  <2> QED
    BY <1>4, <2>1, <2>2, <2>5, ServeKeeps
<1>7. CASE TopologyRead
  <2>1. Calling /\ UNCHANGED <<configVars, late>>
    BY <1>7 DEF TopologyRead
  <2>2. served' = served \cup {<<Called, Top.by>>}
    BY <1>7 DEF TopologyRead
  <2> QED
    BY <1>4, <2>1, <2>2, ServeKeeps
<1>8. CASE TopologyFails
  BY <1>8, QuietKeeps DEF TopologyFails, Raise
<1>a. CASE Session
  BY <1>a, QuietKeeps DEF Session, ToolsListed, ListFails, Reopened, CannotReopen, Raise
<1>9. CASE ServeLate
  <2>1. PICK req \in late : Serve(req) /\ late' = late \ {req}
    BY <1>9 DEF ServeLate
  <2>2. Allowed(req.tool, req.by)
    BY <2>1 DEF AllowedInv
  <2>3. UNCHANGED configVars
    BY <1>9 DEF ServeLate
  <2>4. served' = served \cup {<<req.tool, req.by>>}
    BY <2>1 DEF Serve
  <2> QED
    BY <2>1, <2>2, <2>3, <2>4, ServeKeeps
<1>10. CASE UNCHANGED vars
  BY <1>10, QuietKeeps DEF vars
<1> QED
  BY <1>1, <1>2, <1>3, <1>5, <1>6, <1>7, <1>8, <1>a, <1>9, <1>10
  DEF Next, Dispatch, Resource

(* No agent is ever served a tool that its role file, the commander's list *)
(* or the ablation withholds (LocalRunner.run, launch_tool).               *)
THEOREM AgentsKeepToTheirTools == Spec => []OnlyAllowedServed
<1>1. Init => AllowedInv
  BY DEF Init, AllowedInv
<1>2. AllowedInv => OnlyAllowedServed
  BY DEF AllowedInv, Allowed, OnlyAllowedServed
<1> QED
  BY <1>1, <1>2, AllowedStep, PTL DEF Spec

----------------------------------------------------------------------------
(* Types.  A loop that waits for a nested one has the launch still to do:  *)
(* its result is what the nested loop returns.                             *)
LoopRecord == [by : Agent, turns : Nat, nudges : Nat, todo : Seq(Name)]

LoopAt(l, i) ==
    /\ l \in LoopRecord /\ (l.by = "main" <=> i = 1)
    /\ l.turns \in 0..Budget(l.by) /\ l.nudges \in 0..MaxNudges

LoopsTyped(ls) ==
    /\ ls \in Seq(LoopRecord) /\ Len(ls) <= 2
    /\ \A i \in 1..Len(ls) : LoopAt(ls[i], i)
    /\ Len(ls) = 2 => ls[1].todo # <<>>

RestTyped ==
    /\ team \in BOOLEAN /\ verifier \in BOOLEAN
    /\ phase \in {"idle", "running", "stopped"} /\ run \in 0..MaxRuns
    /\ phase = "running" <=> loops # <<>>
    /\ phase = "running" => run \in 1..MaxRuns
    /\ wait \in {"none", "list", "open"} /\ (wait # "none" => phase = "running")
    /\ wait = "open" => attempt = 1
    /\ attempt \in {1, 2} /\ think \in BOOLEAN
    /\ tokens \in Nat /\ before \in Nat /\ spent \in Nat /\ asked \in 0..MaxAsked

ServersTyped ==
    /\ calls \in Seq([tool : Tool, ok : BOOLEAN, id : Nat])
    /\ served \subseteq Tool \X Agent /\ late \subseteq Request
    /\ made \in Seq(1..MaxRuns) /\ lost \subseteq DOMAIN made

TypeInv == LoopsTyped(loops) /\ RestTyped /\ ServersTyped

LEMMA BudgetTyped == \A by \in Agent : Budget(by) \in Nat
  BY LocalRunnerAssumption DEF Budget, Agent

LEMMA NewLoop ==
    ASSUME NEW by \in Agent, NEW i, by = "main" <=> i = 1
    PROVE  LoopAt(Loop(by), i)
  BY BudgetTyped, LocalRunnerAssumption DEF LoopAt, Loop, LoopRecord

LEMMA TopTyped ==
    ASSUME TypeInv, phase = "running"
    PROVE  /\ Len(loops) \in {1, 2} /\ Top = loops[Len(loops)]
           /\ LoopAt(Top, Len(loops)) /\ Top.by \in Agent /\ Top.todo \in Seq(Name)
<1>1. loops # <<>> /\ loops \in Seq(LoopRecord)
  BY DEF TypeInv, RestTyped, LoopsTyped
<1>2. Len(loops) \in Nat \ {0} /\ Len(loops) <= 2
  BY <1>1, EmptySeq DEF TypeInv, LoopsTyped
<1>3. Top = loops[Len(loops)]
  BY DEF Top, Last
<1>4. LoopAt(Top, Len(loops))
  BY <1>2, <1>3 DEF TypeInv, LoopsTyped
<1>5. Len(loops) \in {1, 2}
  <2>1. \A n \in Nat \ {0} : n <= 2 => n \in {1, 2}
    OBVIOUS
  <2> QED
    BY <1>2, <2>1
<1> QED
  BY <1>3, <1>4, <1>5 DEF LoopAt, LoopRecord

(* A step of the loop on top.                                              *)
LEMMA TopSteps ==
    ASSUME TypeInv, phase = "running",
           NEW l, LoopAt(l, Len(loops)), loops' = [loops EXCEPT ![Len(loops)] = l]
    PROVE  LoopsTyped(loops') /\ loops' # <<>>
<1>1. /\ loops \in Seq(LoopRecord)
      /\ \A i \in 1..Len(loops) : LoopAt(loops[i], i)
      /\ Len(loops) = 2 => loops[1].todo # <<>>
  BY DEF TypeInv, LoopsTyped
<1>a. Len(loops) \in {1, 2}
  BY TopTyped
<1>2. l \in LoopRecord
  BY DEF LoopAt
<1>3. /\ loops' \in Seq(LoopRecord) /\ Len(loops') = Len(loops)
      /\ \A i \in 1..Len(loops) : loops'[i] = IF i = Len(loops) THEN l ELSE loops[i]
  <2>1. Len(loops) \in 1..Len(loops)
    BY <1>a
  <2> QED
    BY <1>1, <1>2, <2>1, ExceptSeq
<1>4. loops' # <<>>
  BY <1>1, <1>a, <1>3, EmptySeq
<1>5. \A i \in 1..Len(loops') : LoopAt(loops'[i], i)
  BY <1>1, <1>3
<1>6. Len(loops') = 2 => loops'[1].todo # <<>>
  BY <1>1, <1>a, <1>3
<1>7. Len(loops') <= 2
  BY <1>a, <1>3
<1> QED
  BY <1>3, <1>4, <1>5, <1>6, <1>7 DEF LoopsTyped

LEMMA ToldTyped ==
    ASSUME NEW l, NEW i, LoopAt(l, i), l.todo # <<>> PROVE LoopAt(Told(l), i)
<1>1. Tail(l.todo) \in Seq(Name)
  BY HeadTailProperties DEF LoopAt, LoopRecord
<1> QED
  BY <1>1 DEF LoopAt, LoopRecord, Told

(* A loop that returns leaves the one below it with its launch answered.   *)
LEMMA ReturnTyped ==
    ASSUME TypeInv, phase = "running", NEW text, Return(text)
    PROVE  /\ LoopsTyped(loops')
           /\ \/ loops' = <<>> /\ phase' = "idle"
              \/ loops' # <<>> /\ phase' = "running"
<1>1. CASE Len(loops) = 1
  <2>1. loops' = <<>> /\ phase' = "idle"
    BY <1>1 DEF Return
  <2>2. <<>> \in Seq(LoopRecord) /\ Len(<<>>) = 0
    BY EmptySeq
  <2>3. LoopsTyped(<<>>)
    BY <2>2 DEF LoopsTyped
  <2>4. LoopsTyped(loops')
    BY <2>1, <2>3, Zenon
  <2> QED
    BY <2>1, <2>4
<1>2. CASE Len(loops) # 1
  <2>1. Len(loops) = 2 /\ loops[1].todo # <<>> /\ LoopAt(loops[1], 1)
    BY <1>2, TopTyped DEF TypeInv, LoopsTyped
  <2>2. loops' = <<Told(loops[1])>> /\ phase' = "running"
    BY <1>2 DEF Return, Told
  <2> DEFINE l == Told(loops[1])
  <2>3. LoopAt(l, 1)
    BY <2>1, ToldTyped
  <2> HIDE DEF l
  <2>4. <<l>> \in Seq(LoopRecord) /\ Len(<<l>>) = 1 /\ <<l>>[1] = l /\ <<l>> # <<>>
    BY <2>3 DEF LoopAt
  <2>5. loops' = <<l>>
    BY <2>2 DEF l
  <2>6. LoopsTyped(<<l>>)
    BY <2>3, <2>4 DEF LoopsTyped
  <2> QED
    BY <2>2, <2>4, <2>5, <2>6
<1> QED
  BY <1>1, <1>2

LEMMA InitTyped == ASSUME Init PROVE TypeInv
<1>1. LoopsTyped(<<>>)
  BY EmptySeq DEF LoopsTyped
<1>2. ServersTyped
  BY DEF Init, ServersTyped
<1>3. RestTyped
  BY LocalRunnerAssumption DEF Init, RestTyped
<1>4. loops = <<>>
  BY DEF Init
<1> QED
  BY <1>1, <1>2, <1>3, <1>4 DEF TypeInv

LEMMA ServeTyped ==
    ASSUME ServersTyped, NEW req \in Request, Serve(req),
           lost' = lost \/ Unseen(req)
    PROVE  /\ served' \subseteq Tool \X Agent
           /\ made' \in Seq(1..MaxRuns) /\ lost' \subseteq DOMAIN made'
           /\ Len(made') \in Nat
<1>1. req.tool \in Tool /\ req.by \in Agent /\ req.run \in 1..MaxRuns
  BY DEF Request
<1>2. served' \subseteq Tool \X Agent
  BY <1>1 DEF ServersTyped, Serve
<1>3. CASE req.tool = Apply
  <2>1. made' = Append(made, req.run)
    BY <1>3 DEF Serve
  <2>2. made' \in Seq(1..MaxRuns) /\ Len(made') = Len(made) + 1 /\ Len(made) \in Nat
        /\ DOMAIN made = 1..Len(made) /\ DOMAIN made' = 1..Len(made')
    BY <1>1, <2>1 DEF ServersTyped
  <2>3. lost' \subseteq lost \cup {Len(made) + 1}
    BY <1>3 DEF Unseen
  <2> QED
    BY <1>2, <2>2, <2>3 DEF ServersTyped
<1>4. CASE req.tool # Apply
  BY <1>2, <1>4 DEF ServersTyped, Serve, Unseen
<1> QED
  BY <1>3, <1>4

(* The request of the call at hand.                                        *)
LEMMA ThisTyped ==
    ASSUME TypeInv, Calling
    PROVE  /\ phase = "running" /\ Top.todo # <<>> /\ This \in Request
           /\ Called \in Tool /\ This.run = run /\ This.tool = Called
<1>1. phase = "running" /\ Top.todo # <<>> /\ Called \in Toolset(Top.by)
  BY DEF Calling, Busy, Active
<1>2. Toolset(Top.by) \subseteq Tool
  BY DEF Toolset, Available
<1>3. Top.by \in Agent /\ run \in 1..MaxRuns
  BY <1>1, TopTyped DEF TypeInv, RestTyped
<1> QED
  BY <1>1, <1>2, <1>3 DEF This, Request

LEMMA RaiseTyped ==
    ASSUME TypeInv, NEW to \in {"idle", "stopped"}, Raise(to)
    PROVE  LoopsTyped(loops') /\ RestTyped'
<1>1. LoopsTyped(<<>>)
  BY EmptySeq DEF LoopsTyped
<1>2. loops' = <<>> /\ phase' = to
  BY DEF Raise
<1>3. RestTyped'
  BY <1>2 DEF TypeInv, RestTyped, Raise, configVars, chatVars
<1> QED
  BY <1>1, <1>2, <1>3

LEMMA SameServers ==
    ASSUME TypeInv, UNCHANGED <<calls, serverVars>> PROVE ServersTyped'
  BY DEF TypeInv, ServersTyped, serverVars

LEMMA TurnTyped ==
    ASSUME NEW l, NEW i, LoopAt(l, i), l.turns + 1 \in 0..Budget(l.by)
    PROVE  /\ \A names \in Seq(Name) :
                LoopAt([l EXCEPT !.turns = @ + 1, !.todo = names], i)
           /\ l.nudges < MaxNudges => LoopAt(Nudged(l), i)
<1>1. /\ l \in LoopRecord /\ (l.by = "main" <=> i = 1)
      /\ l.turns + 1 \in Nat /\ l.nudges \in 0..MaxNudges
  BY DEF LoopAt, LoopRecord
<1>2. ASSUME NEW names \in Seq(Name)
      PROVE  LoopAt([l EXCEPT !.turns = @ + 1, !.todo = names], i)
  <2> DEFINE u == [l EXCEPT !.turns = @ + 1, !.todo = names]
  <2>1. u \in LoopRecord
    BY <1>1 DEF LoopRecord
  <2>2. u.by = l.by /\ u.turns = l.turns + 1 /\ u.nudges = l.nudges
    BY <1>1 DEF LoopRecord
  <2> HIDE DEF u
  <2>3. LoopAt(u, i)
    BY <1>1, <2>1, <2>2 DEF LoopAt
  <2> QED
    BY <2>3 DEF u
<1>3. ASSUME l.nudges < MaxNudges PROVE LoopAt(Nudged(l), i)
  <2> DEFINE u == Nudged(l)
  <2>1. l.nudges + 1 \in 0..MaxNudges /\ l.nudges + 1 \in Nat
    BY <1>1, <1>3, LocalRunnerAssumption
  <2>2. u \in LoopRecord
    BY <1>1, <2>1 DEF LoopRecord, Nudged
  <2>3. u.by = l.by /\ u.turns = l.turns + 1 /\ u.nudges = l.nudges + 1
    BY <1>1 DEF LoopRecord, Nudged
  <2> HIDE DEF u
  <2>4. LoopAt(u, i)
    BY <1>1, <2>1, <2>2, <2>3 DEF LoopAt
  <2> QED
    BY <2>4 DEF u
<1> QED
  BY <1>2, <1>3

LEMMA ChatTyped == ASSUME TypeInv, Chat PROVE TypeInv'
<1>1. phase = "running" /\ LoopsTyped(loops) /\ RestTyped /\ LoopAt(Top, Len(loops))
  <2>1. phase = "running"
    BY DEF Chat, OutOfTurns, ReplyCalls, ReplyText, ThinkRejected, ChatFails, MayChat,
           Active
  <2> QED
    BY <2>1, TopTyped DEF TypeInv
<1>2. ServersTyped'
  BY SameServers DEF Chat, OutOfTurns, ReplyCalls, ReplyText, ThinkRejected, ChatFails,
                     ChatUses, Raise
<1>3. CASE OutOfTurns
  <2>1. LoopsTyped(loops') /\ (\/ loops' = <<>> /\ phase' = "idle"
                               \/ loops' # <<>> /\ phase' = "running")
    BY <1>1, <1>3, ReturnTyped DEF OutOfTurns
  <2>2. RestTyped'
    BY <1>1, <1>3, <2>1 DEF OutOfTurns, Active, RestTyped, configVars, chatVars
  <2> QED
    BY <1>2, <2>1, <2>2 DEF TypeInv
<1>a. TurnsLeft(Top) => Top.turns + 1 \in 0..Budget(Top.by)
  <2>1. Budget(Top.by) \in Nat
    BY <1>1, BudgetTyped DEF LoopAt, LoopRecord
  <2> QED
    BY <1>1, <2>1 DEF TurnsLeft, LoopAt
<1>4. CASE ReplyCalls
  <2>1. PICK names \in SeqOf(Name, 2) \ {<<>>} :
          /\ \/ asked' = asked
             \/ asked' = asked + Len(names) /\ asked' <= MaxAsked
          /\ loops' = [loops EXCEPT ![Len(loops)] =
                         [Top EXCEPT !.turns = @ + 1, !.todo = names]]
    BY <1>4 DEF ReplyCalls
  <2>2. names \in Seq(Name)
    <3>1. PICK n \in 0..2 : names \in [1..n -> Name]
      BY DEF SeqOf
    <3>2. n \in Nat
      OBVIOUS
    <3> QED
      BY <3>1, <3>2, SeqDef
  <2> DEFINE l == [Top EXCEPT !.turns = @ + 1, !.todo = names]
  <2>3. LoopAt(l, Len(loops))
    BY <1>1, <1>a, <1>4, <2>2, TurnTyped DEF ReplyCalls, MayChat
  <2>4. loops' = [loops EXCEPT ![Len(loops)] = l]
    BY <2>1
  <2> HIDE DEF l
  <2>5. LoopsTyped(loops') /\ loops' # <<>>
    BY <1>1, <2>3, <2>4, TopSteps
  <2>6. asked' \in 0..MaxAsked
    <3>1. Len(names) \in Nat
      BY <2>2
    <3> QED
      BY <1>1, <2>1, <3>1, LocalRunnerAssumption DEF RestTyped
  <2>7. RestTyped'
    BY <1>1, <1>4, <2>5, <2>6 DEF ReplyCalls, ChatUses, RestTyped, configVars
  <2> QED
    BY <1>2, <2>5, <2>7 DEF TypeInv
<1>5. CASE ReplyText
  <2>1. PICK text \in Text :
          IF Top.nudges < MaxNudges /\ Unfinished(Top, text)
          THEN /\ loops' = [loops EXCEPT ![Len(loops)] = Nudged(@)]
               /\ UNCHANGED <<phase, output>>
          ELSE Return(text)
    BY <1>5 DEF ReplyText
  <2>2. LoopsTyped(loops') /\ (\/ loops' = <<>> /\ phase' = "idle"
                               \/ loops' # <<>> /\ phase' = "running")
    <3>1. CASE Top.nudges < MaxNudges /\ Unfinished(Top, text)
      <4>1. /\ loops' = [loops EXCEPT ![Len(loops)] = Nudged(Top)] /\ phase' = "running"
        BY <1>1, <2>1, <3>1, TopTyped
      <4>2. LoopAt(Nudged(Top), Len(loops))
        BY <1>1, <1>a, <1>5, <3>1, TurnTyped DEF ReplyText, MayChat
      <4> QED
        BY <1>1, <4>1, <4>2, TopSteps
    <3>2. CASE ~ (Top.nudges < MaxNudges /\ Unfinished(Top, text))
      BY <1>1, <2>1, <3>2, ReturnTyped
    <3> QED
      BY <3>1, <3>2
  <2>3. RestTyped'
    BY <1>1, <1>5, <2>2 DEF ReplyText, MayChat, Active, ChatUses, RestTyped, configVars
  <2> QED
    BY <1>2, <2>2, <2>3 DEF TypeInv
<1>6. CASE ThinkRejected
  <2>1. RestTyped'
    BY <1>1, <1>6 DEF ThinkRejected, RestTyped, configVars
  <2> QED
    BY <1>1, <1>2, <1>6, <2>1 DEF ThinkRejected, TypeInv
<1>7. CASE ChatFails
  BY <1>2, <1>7, RaiseTyped DEF ChatFails, TypeInv
<1> QED
  BY <1>3, <1>4, <1>5, <1>6, <1>7 DEF Chat

LEMMA Appended ==
    ASSUME NEW S, NEW q \in Seq(S), NEW x \in S
    PROVE  /\ Append(q, x) \in Seq(S)
           /\ Len(Append(q, x)) = Len(q) + 1 /\ Len(q) \in Nat
           /\ Append(q, x)[Len(q) + 1] = x
           /\ \A i \in 1..Len(q) : Append(q, x)[i] = q[i]
  OBVIOUS

LEMMA DispatchTyped == ASSUME TypeInv, Dispatch \/ Resource PROVE TypeInv'
<1>1. phase = "running" /\ wait = "none" /\ LoopsTyped(loops) /\ RestTyped /\ ServersTyped
      /\ LoopAt(Top, Len(loops)) /\ Top.todo # <<>>
  <2>1. phase = "running" /\ wait = "none" /\ Top.todo # <<>>
    BY DEF Dispatch, Resource, Refused, Launch, Answered, NoAnswer, TopologyRead,
           TopologyFails, Calling, Busy, Active
  <2> QED
    BY <2>1, TopTyped DEF TypeInv
(* The loop on top is told how its call went, and goes on.                 *)
<1>2. ASSUME loops' = [loops EXCEPT ![Len(loops)] = Told(@)],
             UNCHANGED <<configVars, phase, run, wait, chatVars, before, asked>>,
             attempt' \in {1, 2}
      PROVE  LoopsTyped(loops') /\ RestTyped'
  <2>1. loops' = [loops EXCEPT ![Len(loops)] = Told(Top)]
    BY <1>1, <1>2, TopTyped
  <2>2. LoopsTyped(loops') /\ loops' # <<>>
    BY <1>1, <2>1, ToldTyped, TopSteps
  <2> QED
    BY <1>1, <1>2, <2>2 DEF RestTyped, configVars, chatVars
<1>3. CASE Refused
  <2>1. ServersTyped'
    BY <1>3, SameServers DEF Refused
  <2>2. attempt' \in {1, 2}
    BY <1>1, <1>3 DEF Refused, RestTyped
  <2> QED
    BY <1>2, <1>3, <2>1, <2>2 DEF Refused, TypeInv
<1>4. CASE Launch
  <2>1. ServersTyped' /\ Called \in Role /\ Top.by = "main"
    BY <1>4, SameServers DEF Launch, Launches
  <2>2. loops \in Seq(LoopRecord) /\ Len(loops) = 1 /\ LoopAt(loops[1], 1)
        /\ loops[1].todo # <<>>
    BY <1>1, <2>1, TopTyped DEF LoopsTyped, LoopAt
  <2> DEFINE l == Loop(Called)
  <2>3. LoopAt(l, 2)
    <3>1. Called \in Agent /\ Called # "main"
      BY <2>1, LocalRunnerAssumption DEF Agent
    <3>2. Called = "main" <=> 2 = 1
      BY <3>1
    <3> QED
      BY <3>1, <3>2, NewLoop
  <2>4. loops' = Append(loops, l)
    BY <1>4 DEF Launch
  <2> HIDE DEF l
  <2>5. l \in LoopRecord
    BY <2>3 DEF LoopAt
  <2>6. /\ loops' \in Seq(LoopRecord) /\ Len(loops') = 2 /\ loops' # <<>>
        /\ loops'[1] = loops[1] /\ loops'[2] = l
    <3> DEFINE q == Append(loops, l)
    <3>a. /\ q \in Seq(LoopRecord) /\ Len(q) = Len(loops) + 1
          /\ q[Len(loops) + 1] = l
          /\ \A i \in 1..Len(loops) : q[i] = loops[i]
      <4>1. loops \in Seq(LoopRecord) /\ l \in LoopRecord
        BY <2>2, <2>5
      <4> QED
        BY <4>1, Appended
    <3> HIDE DEF q
    <3>1. /\ loops' \in Seq(LoopRecord) /\ Len(loops') = Len(loops) + 1
          /\ loops'[Len(loops) + 1] = l
          /\ \A i \in 1..Len(loops) : loops'[i] = loops[i]
      BY <2>4, <3>a DEF q
    <3>2. 1 \in 1..Len(loops)
      BY <2>2
    <3> QED
      BY <2>2, <3>1, <3>2, EmptySeq
  <2>7. \A i \in 1..Len(loops') : LoopAt(loops'[i], i)
    <3> SUFFICES ASSUME NEW i \in 1..2 PROVE LoopAt(loops'[i], i)
      BY <2>6
    <3>1. i = 1 \/ i = 2
      OBVIOUS
    <3> QED
      BY <2>2, <2>3, <2>6, <3>1
  <2>8. LoopsTyped(loops')
    BY <2>2, <2>6, <2>7 DEF LoopsTyped
  <2>9. RestTyped'
    BY <1>1, <1>4, <2>6 DEF Launch, RestTyped, configVars, chatVars
  <2> QED
    BY <2>1, <2>8, <2>9 DEF TypeInv
<1>5. CASE Answered
  <2>1. This \in Request /\ Called \in Tool
    BY <1>5, ThisTyped DEF Answered
  <2>2. PICK ok \in BOOLEAN :
          /\ IF ok THEN Serve(This) ELSE UNCHANGED <<served, made>>
          /\ calls' = Append(calls, [tool |-> Called, ok |-> ok, id |-> Len(made')])
    BY <1>5 DEF Answered
  <2>3. /\ served' \subseteq Tool \X Agent /\ made' \in Seq(1..MaxRuns)
        /\ lost' \subseteq DOMAIN made' /\ Len(made') \in Nat
    <3>1. CASE ok
      BY <1>1, <1>5, <2>1, <2>2, <3>1, ServeTyped DEF Answered
    <3>2. CASE ~ ok
      BY <1>1, <1>5, <2>2, <3>2 DEF Answered, ServersTyped
    <3> QED
      BY <3>1, <3>2
  <2> DEFINE CR == [tool : Tool, ok : BOOLEAN, id : Nat]
             c  == [tool |-> Called, ok |-> ok, id |-> Len(made')]
  <2>4. c \in CR
    BY <2>1, <2>3
  <2>5. calls \in Seq(CR) /\ calls' = Append(calls, c)
    BY <1>1, <2>2 DEF ServersTyped
  <2> HIDE DEF c, CR
  <2>6. calls' \in Seq(CR)
    BY <2>4, <2>5
  <2>7. ServersTyped'
    BY <1>1, <1>5, <2>3, <2>6 DEF Answered, ServersTyped, CR
  <2> QED
    BY <1>2, <1>5, <2>7 DEF Answered, TypeInv
<1>6. CASE NoAnswer
  <2>1. This \in Request
    BY <1>6, ThisTyped DEF NoAnswer
  <2>2. calls' = calls
    BY <1>6 DEF NoAnswer, Raise
  <2>3. ServersTyped'
    <3>1. CASE Serve(This) /\ Unseen(This) /\ UNCHANGED late
      BY <1>1, <2>1, <2>2, <3>1, ServeTyped DEF ServersTyped
    <3>2. CASE late' = late \cup {This} /\ UNCHANGED <<served, made, lost>>
      BY <1>1, <2>1, <2>2, <3>2 DEF ServersTyped
    <3>3. CASE UNCHANGED serverVars
      BY <2>2, <3>3, SameServers
    <3> QED
      BY <1>6, <3>1, <3>2, <3>3 DEF NoAnswer
  <2>4. CASE /\ Again /\ wait' = "open"
             /\ UNCHANGED <<configVars, phase, run, loops, attempt, chatVars, before, asked>>
    <3>1. LoopsTyped(loops')
      BY <1>1, <2>4
    <3>2. RestTyped'
      BY <1>1, <2>4 DEF RestTyped, Again, configVars, chatVars
    <3> QED
      BY <2>3, <3>1, <3>2 DEF TypeInv
  <2>5. CASE Raise("idle")
    BY <2>3, <2>5, RaiseTyped DEF TypeInv
  <2> QED
    BY <1>6, <2>4, <2>5 DEF NoAnswer
<1>7. CASE TopologyRead
  <2>1. This \in Request /\ Called \in Tool
    BY <1>7, ThisTyped DEF TopologyRead
  <2>2. ServersTyped'
    BY <1>1, <1>7, <2>1 DEF TopologyRead, ServersTyped, This, Request
  <2>3. attempt' \in {1, 2}
    BY <1>1, <1>7 DEF TopologyRead, RestTyped
  <2> QED
    BY <1>2, <1>7, <2>2, <2>3 DEF TopologyRead, TypeInv
<1>8. CASE TopologyFails
  <2>1. ServersTyped'
    BY <1>8, SameServers DEF TopologyFails, Raise
  <2> QED
    BY <1>8, <2>1, RaiseTyped DEF TopologyFails, TypeInv
<1> QED
  BY <1>3, <1>4, <1>5, <1>6, <1>7, <1>8 DEF Dispatch, Resource

LEMMA SessionTyped == ASSUME TypeInv, Session PROVE TypeInv'
<1>1. ServersTyped'
  BY SameServers DEF Session, ToolsListed, ListFails, Reopened, CannotReopen, Raise
<1>2. CASE ToolsListed \/ Reopened
  <2>1. LoopsTyped(loops')
    BY <1>2 DEF ToolsListed, Reopened, TypeInv
  <2>2. /\ wait' = "none" /\ attempt' \in {1, 2}
        /\ UNCHANGED <<configVars, phase, run, loops, chatVars, before, asked>>
    BY <1>2 DEF ToolsListed, Reopened, TypeInv, RestTyped
  <2>3. RestTyped'
    BY <2>2 DEF TypeInv, RestTyped, configVars, chatVars
  <2> QED
    BY <1>1, <2>1, <2>3 DEF TypeInv
<1>3. CASE ListFails \/ CannotReopen
  BY <1>1, <1>3, RaiseTyped DEF ListFails, CannotReopen, TypeInv
<1> QED
  BY <1>2, <1>3 DEF Session

LEMMA NextTyped == ASSUME TypeInv, [Next]_vars PROVE TypeInv'
<1>1. CASE StartRun
  <2> DEFINE l == Loop("main")
  <2>1. LoopAt(l, 1)
    BY NewLoop DEF Agent
  <2> HIDE DEF l
  <2>2. <<l>> \in Seq(LoopRecord) /\ Len(<<l>>) = 1 /\ <<l>>[1] = l /\ <<l>> # <<>>
    BY <2>1 DEF LoopAt
  <2>3. LoopsTyped(<<l>>)
    BY <2>1, <2>2 DEF LoopsTyped
  <2>4. loops' = <<l>>
    BY <1>1 DEF StartRun, l
  <2>5. RestTyped'
    BY <1>1, <2>2, <2>4, LocalRunnerAssumption
    DEF StartRun, TypeInv, RestTyped, configVars
  <2>6. ServersTyped'
    BY <1>1 DEF StartRun, TypeInv, ServersTyped, serverVars, FreshCalls
  <2> QED
    BY <2>3, <2>4, <2>5, <2>6 DEF TypeInv
<1>2. CASE Chat \/ Dispatch \/ Resource \/ Session
  BY <1>2, ChatTyped, DispatchTyped, SessionTyped
<1>3. CASE ServeLate
  <2>1. PICK req \in late : Serve(req) /\ Unseen(req) /\ late' = late \ {req}
    BY <1>3 DEF ServeLate
  <2>2. req \in Request /\ ServersTyped
    BY DEF TypeInv, ServersTyped
  <2>3. ServersTyped'
    BY <1>3, <2>1, <2>2, ServeTyped DEF ServeLate, ServersTyped
  <2>4. LoopsTyped(loops') /\ RestTyped'
    BY <1>3 DEF ServeLate, TypeInv, RestTyped, configVars, chatVars
  <2> QED
    BY <2>3, <2>4 DEF TypeInv
<1>4. CASE UNCHANGED vars
  BY <1>4 DEF vars, configVars, chatVars, serverVars, TypeInv, RestTyped, ServersTyped
<1> QED
  BY <1>1, <1>2, <1>3, <1>4 DEF Next

----------------------------------------------------------------------------
(* What a run is charged: while it goes on, the tokens of the chat object  *)
(* are those it began with and its own.                                    *)
ChargeInv ==
    /\ phase = "running" => tokens = before + spent /\ output = NIL
    /\ ChargedForItself

LEMMA OutputTokens == ASSUME NEW text PROVE Output(text).tokens = tokens' - before
  BY DEF Output, OwnTokens

LEMMA ReturnCharges ==
    ASSUME TypeInv, NEW text, Return(text), phase = "running",
           tokens' = before + spent', before' = before, spent' \in Nat, output = NIL
    PROVE  ChargeInv'
<1>1. before \in Nat
  BY DEF TypeInv, RestTyped
<1>2. CASE Len(loops) = 1
  <2>1. phase' = "idle" /\ output' = Output(text)
    BY <1>2 DEF Return
  <2>2. Output(text).tokens = spent'
    BY <1>1, OutputTokens
  <2> QED
    BY <2>1, <2>2 DEF ChargeInv, ChargedForItself
<1>3. CASE Len(loops) # 1
  BY <1>3 DEF Return, ChargeInv, ChargedForItself
<1> QED
  BY <1>2, <1>3

LEMMA NextCharges == ASSUME TypeInv, ChargeInv, [Next]_vars PROVE ChargeInv'
<1>1. tokens \in Nat /\ before \in Nat /\ spent \in Nat
  BY DEF TypeInv, RestTyped
<1>2. CASE UNCHANGED <<phase, tokens, before, spent, output>>
  BY <1>2 DEF ChargeInv, ChargedForItself
<1>3. CASE StartRun
  BY <1>1, <1>3 DEF StartRun, ChargeInv, ChargedForItself
<1>4. CASE OutOfTurns
  BY <1>1, <1>4, ReturnCharges DEF OutOfTurns, Active, ChargeInv, chatVars
<1>5. CASE ReplyCalls
  BY <1>1, <1>5 DEF ReplyCalls, MayChat, Active, ChatUses, ChargeInv, ChargedForItself
<1>6. CASE ReplyText
  <2>1. /\ tokens' = before + spent' /\ before' = before /\ spent' \in Nat
        /\ phase = "running" /\ output = NIL
    BY <1>1, <1>6 DEF ReplyText, MayChat, Active, ChatUses, ChargeInv
  <2>2. PICK text \in Text : UNCHANGED <<phase, output>> \/ Return(text)
    BY <1>6 DEF ReplyText
  <2>3. CASE UNCHANGED <<phase, output>>
    BY <2>1, <2>3 DEF ChargeInv, ChargedForItself
  <2>4. CASE Return(text)
    BY <2>1, <2>4, ReturnCharges
  <2> QED
    BY <2>2, <2>3, <2>4
<1>7. ASSUME NEW to \in {"idle", "stopped"}, Raise(to) PROVE ChargeInv'
  BY <1>7 DEF Raise, ChargeInv, ChargedForItself
<1>8. CASE \/ ThinkRejected \/ Refused \/ Launch \/ Answered \/ TopologyRead
           \/ ToolsListed \/ Reopened \/ ServeLate
  BY <1>2, <1>8
  DEF ThinkRejected, Refused, Launch, Answered, TopologyRead, ToolsListed, Reopened,
      ServeLate, chatVars
<1>9. CASE ChatFails \/ TopologyFails \/ ListFails \/ CannotReopen
  BY <1>7, <1>9 DEF ChatFails, TopologyFails, ListFails, CannotReopen
<1>10. CASE NoAnswer
  BY <1>2, <1>7, <1>10 DEF NoAnswer, chatVars
<1>11. CASE UNCHANGED vars
  BY <1>2, <1>11 DEF vars, chatVars
<1> QED
  BY <1>3, <1>4, <1>5, <1>6, <1>8, <1>9, <1>10, <1>11
  DEF Next, Chat, Dispatch, Resource, Session

----------------------------------------------------------------------------
(* The records that output() filters.  Their applied changes were made by  *)
(* this run, in this order, and only a change whose answer nobody got is   *)
(* missing.                                                                *)
CallsAreOwn ==
    /\ \A i \in Applied : /\ calls[i].id \in 1..Len(made) /\ calls[i].id \notin lost
                          /\ made[calls[i].id] = run
    /\ \A i, j \in Applied : i < j => calls[i].id < calls[j].id
    /\ \A k \in 1..Len(made) : made[k] = run /\ k \notin lost =>
         \E i \in Applied : calls[i].id = k

(* Nothing on the servers is of a run to come.                             *)
PastInv ==
    /\ \A k \in 1..Len(made) : made[k] <= run
    /\ \A req \in late : req.run <= run

(* A change that is made and whose answer is lost, or that is put off.     *)
LEMMA LostKeeps ==
    ASSUME TypeInv, PastInv, CallsAreOwn, NEW req \in Request, req.run <= run,
           Serve(req) /\ Unseen(req), late' \subseteq late, UNCHANGED <<calls, run>>
    PROVE  PastInv' /\ CallsAreOwn'
<1>1. /\ made \in Seq(1..MaxRuns) /\ Len(made) \in Nat /\ lost \subseteq 1..Len(made)
      /\ Applied' = Applied
  BY DEF TypeInv, ServersTyped, Applied
<1>2. CASE req.tool = Apply
  <2>1. req.run \in 1..MaxRuns
    BY DEF Request
  <2>2. made' = Append(made, req.run) /\ lost' = lost \cup {Len(made) + 1}
    BY <1>2 DEF Serve, Unseen
  <2>3. /\ Len(made') = Len(made) + 1 /\ made'[Len(made) + 1] = req.run
        /\ \A k \in 1..Len(made) : made'[k] = made[k]
    BY <1>1, <2>1, <2>2, Appended
  <2>4. \A k \in 1..Len(made') : k \in 1..Len(made) \/ k = Len(made) + 1
    BY <1>1, <2>3
  <2>5. PastInv'
    BY <2>3, <2>4 DEF PastInv
  <2>6. ASSUME NEW i \in Applied
        PROVE  /\ calls[i].id \in 1..Len(made') /\ calls[i].id \notin lost'
               /\ made'[calls[i].id] = run
    <3>1. /\ calls[i].id \in 1..Len(made) /\ calls[i].id \notin lost
          /\ made[calls[i].id] = run
      BY DEF CallsAreOwn
    <3> QED
      BY <1>1, <2>2, <2>3, <3>1
  <2>7. \A k \in 1..Len(made') : made'[k] = run /\ k \notin lost' =>
          \E i \in Applied : calls[i].id = k
    BY <2>2, <2>3, <2>4 DEF CallsAreOwn
  <2> QED
    BY <1>1, <2>5, <2>6, <2>7 DEF CallsAreOwn
<1>3. CASE req.tool # Apply
  <2>1. UNCHANGED <<made, lost>>
    BY <1>3 DEF Serve, Unseen
  <2> QED
    BY <1>1, <2>1 DEF PastInv, CallsAreOwn
<1> QED
  BY <1>2, <1>3

LEMMA AnsweredKeeps ==
    ASSUME TypeInv, PastInv, CallsAreOwn, Answered
    PROVE  PastInv' /\ CallsAreOwn'
<1>1. /\ made \in Seq(1..MaxRuns) /\ Len(made) \in Nat /\ lost \subseteq 1..Len(made)
      /\ run \in 1..MaxRuns
  BY ThisTyped DEF TypeInv, ServersTyped, RestTyped, Answered
<1>2. PICK ok \in BOOLEAN :
        /\ IF ok THEN Serve(This) ELSE UNCHANGED <<served, made>>
        /\ calls' = Append(calls, [tool |-> Called, ok |-> ok, id |-> Len(made')])
  BY DEF Answered
<1>3. UNCHANGED <<run, lost, late>> /\ This.tool = Called /\ This.run = run /\ Called \in Tool
  BY ThisTyped DEF Answered
<1> DEFINE CR == [tool : Tool, ok : BOOLEAN, id : Nat]
           c  == [tool |-> Called, ok |-> ok, id |-> Len(made')]
           own == ok /\ Called = Apply
<1>4. made' = (IF own THEN Append(made, run) ELSE made)
  BY <1>2, <1>3 DEF Serve
<1>5. /\ Len(made') = (IF own THEN Len(made) + 1 ELSE Len(made))
      /\ own => made'[Len(made) + 1] = run
      /\ \A k \in 1..Len(made) : made'[k] = made[k]
  BY <1>1, <1>4, Appended
<1>6. c \in CR /\ c.id = Len(made') /\ (c.tool = Apply /\ c.ok <=> own)
  BY <1>1, <1>3, <1>5
<1>7. calls \in Seq(CR) /\ calls' = Append(calls, c)
  BY <1>2 DEF TypeInv, ServersTyped
<1> HIDE DEF c, CR, own
<1>8. /\ Len(calls') = Len(calls) + 1 /\ Len(calls) \in Nat /\ calls'[Len(calls) + 1] = c
      /\ \A i \in 1..Len(calls) : calls'[i] = calls[i]
  BY <1>6, <1>7, Appended
<1>9. Applied' = IF own THEN Applied \cup {Len(calls) + 1} ELSE Applied
  BY <1>6, <1>8 DEF Applied
<1>10. \A i \in Applied : calls'[i] = calls[i] /\ i \in 1..Len(calls)
  BY <1>8 DEF Applied
<1>11. PastInv'
  BY <1>1, <1>3, <1>5 DEF PastInv
<1>12. CASE own
  <2>1. /\ Applied' = Applied \cup {Len(calls) + 1}
        /\ calls'[Len(calls) + 1].id = Len(made) + 1
        /\ Len(made') = Len(made) + 1 /\ made'[Len(made) + 1] = run
    BY <1>5, <1>6, <1>8, <1>9, <1>12
  <2>2. \A i \in Applied' :
          /\ calls'[i].id \in 1..Len(made') /\ calls'[i].id \notin lost'
          /\ made'[calls'[i].id] = run'
    BY <1>1, <1>3, <1>5, <1>10, <2>1 DEF CallsAreOwn
  <2>3. \A i, j \in Applied' : i < j => calls'[i].id < calls'[j].id
    <3> SUFFICES ASSUME NEW i \in Applied', NEW j \in Applied', i < j
                 PROVE  calls'[i].id < calls'[j].id
      OBVIOUS
    <3>1. CASE j = Len(calls) + 1
      <4>1. i \in Applied
        BY <2>1, <3>1
      <4>2. calls[i].id \in 1..Len(made)
        BY <4>1 DEF CallsAreOwn
      <4> QED
        BY <1>1, <1>10, <2>1, <3>1, <4>1, <4>2
    <3>2. CASE j # Len(calls) + 1
      <4>1. j \in Applied /\ j \in 1..Len(calls)
        BY <1>10, <2>1, <3>2
      <4>2. i \in Applied
        BY <1>8, <2>1, <4>1
      <4> QED
        BY <1>10, <4>1, <4>2 DEF CallsAreOwn
    <3> QED
      BY <3>1, <3>2
  <2>4. \A k \in 1..Len(made') : made'[k] = run' /\ k \notin lost' =>
          \E i \in Applied' : calls'[i].id = k
    <3> SUFFICES ASSUME NEW k \in 1..Len(made'), made'[k] = run', k \notin lost'
                 PROVE  \E i \in Applied' : calls'[i].id = k
      OBVIOUS
    <3>1. CASE k = Len(made) + 1
      BY <2>1, <3>1
    <3>2. CASE k \in 1..Len(made)
      BY <1>3, <1>5, <1>10, <2>1, <3>2 DEF CallsAreOwn
    <3> QED
      BY <1>1, <2>1, <3>1, <3>2
  <2> QED
    BY <1>11, <2>2, <2>3, <2>4 DEF CallsAreOwn
<1>13. CASE ~ own
  <2>1. Applied' = Applied /\ Len(made') = Len(made)
    BY <1>5, <1>9, <1>13
  <2> QED
    BY <1>3, <1>5, <1>10, <1>11, <2>1 DEF CallsAreOwn
<1> QED
  BY <1>12, <1>13

LEMMA NextCalls ==
    ASSUME TypeInv, PastInv, CallsAreOwn, [Next]_vars PROVE PastInv' /\ CallsAreOwn'
<1>1. run \in 0..MaxRuns /\ made \in Seq(1..MaxRuns)
  BY DEF TypeInv, RestTyped, ServersTyped
<1>2. CASE UNCHANGED <<calls, run, made, lost>> /\ late' \subseteq late
  BY <1>2 DEF PastInv, CallsAreOwn, Applied
<1>3. CASE StartRun
  <2>1. calls' = <<>> /\ run' = run + 1 /\ UNCHANGED <<made, lost, late>>
    BY <1>3 DEF StartRun, FreshCalls, serverVars
  <2>2. Applied' = {}
    BY <2>1 DEF Applied
  <2>3. ASSUME NEW k \in 1..Len(made) PROVE made[k] \in Nat /\ made[k] # run + 1
    <3>1. made[k] \in 1..MaxRuns
      BY <1>1, ElementOfSeq
    <3>2. made[k] <= run
      BY DEF PastInv
    <3> QED
      BY <1>1, <3>1, <3>2
  <2>4. \A req \in late : req.run \in Nat
    BY DEF TypeInv, ServersTyped, Request
  <2> QED
    BY <1>1, <2>1, <2>2, <2>3, <2>4 DEF PastInv, CallsAreOwn
<1>a. CASE Session
  BY <1>2, <1>a
  DEF Session, ToolsListed, ListFails, Reopened, CannotReopen, Raise, serverVars
<1>4. CASE Chat \/ Refused \/ Launch \/ TopologyRead \/ TopologyFails \/ UNCHANGED vars
  BY <1>2, <1>4
  DEF Chat, OutOfTurns, ReplyCalls, ReplyText, ThinkRejected, ChatFails, ChatUses, Raise,
      Refused, Launch, TopologyRead, TopologyFails, serverVars, vars
<1>5. CASE Answered
  BY <1>5, AnsweredKeeps
<1>6. CASE NoAnswer
  <2>1. This \in Request /\ This.run = run /\ UNCHANGED <<calls, run>>
    BY <1>6, ThisTyped DEF NoAnswer, Raise
  <2>2. CASE Serve(This) /\ Unseen(This) /\ UNCHANGED late
    BY <1>1, <2>1, <2>2, LostKeeps
  <2>3. CASE late' = late \cup {This} /\ UNCHANGED <<served, made, lost>>
    BY <1>1, <2>1, <2>3 DEF PastInv, CallsAreOwn, Applied
  <2>4. CASE UNCHANGED serverVars
    BY <1>2, <2>1, <2>4 DEF serverVars
  <2> QED
    BY <1>6, <2>2, <2>3, <2>4 DEF NoAnswer
<1>7. CASE ServeLate
  <2>1. PICK req \in late : Serve(req) /\ Unseen(req) /\ late' = late \ {req}
    BY <1>7 DEF ServeLate
  <2>2. req \in Request /\ req.run <= run /\ UNCHANGED <<calls, run>>
    BY <1>7 DEF TypeInv, ServersTyped, PastInv, ServeLate
  <2> QED
    BY <2>1, <2>2, LostKeeps
<1> QED
  BY <1>3, <1>a, <1>4, <1>5, <1>6, <1>7 DEF Next, Dispatch, Resource

----------------------------------------------------------------------------
LEMMA TypeHolds == Spec => []TypeInv
<1>1. Init => TypeInv
  BY InitTyped
<1>2. TypeInv /\ [Next]_vars => TypeInv'
  BY NextTyped
<1> QED
  BY <1>1, <1>2, PTL DEF Spec

(* Every variable of the runner keeps its type: turns and nudges within    *)
(* their budgets, one loop above the main one at most (launch_tool).       *)
THEOREM TypeCorrect == Spec => []TypeOK
<1>1. TypeInv => TypeOK
  <2> SUFFICES ASSUME TypeInv PROVE TypeOK
    OBVIOUS
  <2>1. DOMAIN loops = 1..Len(loops)
    BY DEF TypeInv, LoopsTyped
  <2>2. \A i \in DOMAIN loops :
          /\ loops[i].by \in Agent /\ (loops[i].by = "main" <=> i = 1)
          /\ loops[i].turns \in 0..Budget(loops[i].by)
          /\ loops[i].nudges \in 0..MaxNudges
          /\ loops[i].todo \in Seq(Name)
    BY <2>1 DEF TypeInv, LoopsTyped, LoopAt, LoopRecord
  <2> QED
    BY <2>2 DEF TypeInv, LoopsTyped, RestTyped, ServersTyped, TypeOK
<1> QED
  BY <1>1, TypeHolds, PTL

(* The tokens of an output are those of the run's own model calls, nested  *)
(* loops included, whatever failed before it on the same chat object       *)
(* (LocalRunner.output).                                                   *)
THEOREM RunsAreChargedForThemselves == Spec => []ChargedForItself
<1>1. Init => ChargeInv
  BY DEF Init, ChargeInv, ChargedForItself
<1>2. TypeInv /\ ChargeInv /\ [Next]_vars => ChargeInv'
  BY NextCharges
<1>3. ChargeInv => ChargedForItself
  BY DEF ChargeInv
<1> QED
  BY <1>1, <1>2, <1>3, TypeHolds, PTL DEF Spec

(* What an output lists stays what the record of calls says: nobody calls  *)
(* until the next run clears both.                                         *)
ListInv ==
    /\ phase = "running" => output = NIL
    /\ output # NIL => output.changes = [i \in Applied |-> calls[i].id]

LEMMA NextLists == ListInv /\ [Next]_vars => ListInv'
<1> SUFFICES ASSUME ListInv, [Next]_vars PROVE ListInv'
  OBVIOUS
<1>1. CASE UNCHANGED <<phase, output, calls>>
  BY <1>1 DEF ListInv, Applied
<1>2. CASE output' = NIL
  BY <1>2 DEF ListInv
<1>3. ASSUME NEW text, Return(text), UNCHANGED calls, phase = "running"
      PROVE  ListInv'
  <2>1. CASE Len(loops) = 1
    <3>1. phase' = "idle" /\ output' = Output(text) /\ Applied' = Applied
      BY <1>3, <2>1 DEF Return, Applied
    <3>2. output'.changes = [i \in Applied |-> calls[i].id]
      BY <3>1 DEF Output
    <3> QED
      BY <1>3, <3>1, <3>2 DEF ListInv
  <2> QED
    BY <1>1, <1>3, <2>1 DEF Return
<1>4. CASE phase = "running" /\ phase' = "running" /\ UNCHANGED output
  BY <1>4 DEF ListInv
<1>5. CASE Chat
  <2>1. CASE OutOfTurns
    BY <1>3, <2>1 DEF OutOfTurns, Active
  <2>2. CASE ReplyText
    <3>1. UNCHANGED calls /\ phase = "running"
      BY <2>2 DEF ReplyText, ChatUses, MayChat, Active
    <3>2. PICK text \in Text : UNCHANGED <<phase, output>> \/ Return(text)
      BY <2>2 DEF ReplyText
    <3> QED
      BY <1>1, <1>3, <3>1, <3>2
  <2>3. CASE ReplyCalls \/ ThinkRejected \/ ChatFails
    BY <1>1, <1>2, <2>3 DEF ReplyCalls, ThinkRejected, ChatFails, ChatUses, Raise
  <2> QED
    BY <1>5, <2>1, <2>2, <2>3 DEF Chat
<1>6. CASE Dispatch
  BY <1>2, <1>4, <1>6
  DEF Dispatch, Refused, Launch, Answered, NoAnswer, Calling, Busy, Active, Raise
<1>7. CASE Resource
  BY <1>1, <1>2, <1>7 DEF Resource, TopologyRead, TopologyFails, Raise
<1>8. CASE Session
  BY <1>1, <1>2, <1>8
  DEF Session, ToolsListed, ListFails, Reopened, CannotReopen, Raise
<1>9. CASE StartRun \/ ServeLate \/ UNCHANGED vars
  BY <1>1, <1>2, <1>9 DEF StartRun, ServeLate, vars, chatVars
<1> QED
  BY <1>5, <1>6, <1>7, <1>8, <1>9 DEF Next

(* The changes that a run reports are those it made and had an answer for, *)
(* no more and in this order (output(), HttpToolClient.call).              *)
THEOREM RunsReportTheirOwn == Spec => []ReportedChangesAreOwn
<1>1. Init => PastInv /\ CallsAreOwn /\ ListInv
  BY DEF Init, PastInv, CallsAreOwn, Applied, ListInv
<1>2. TypeInv /\ PastInv /\ CallsAreOwn /\ [Next]_vars => PastInv' /\ CallsAreOwn'
  BY NextCalls
<1>3. ListInv /\ [Next]_vars => ListInv'
  BY NextLists
<1>4. TypeInv /\ CallsAreOwn /\ ListInv => ReportedChangesAreOwn
  <2> SUFFICES ASSUME TypeInv, CallsAreOwn, ListInv, output # NIL
               PROVE  ReportedChangesAreOwn
    BY DEF ReportedChangesAreOwn
  <2> DEFINE listed == output.changes
  <2>1. DOMAIN listed = Applied /\ \A i \in Applied : listed[i] = calls[i].id
    BY DEF ListInv
  <2>2. DOMAIN made = 1..Len(made)
    BY DEF TypeInv, ServersTyped
  <2> HIDE DEF listed
  <2>3. {listed[i] : i \in DOMAIN listed} =
          {k \in DOMAIN made : made[k] = run /\ k \notin lost}
    BY <2>1, <2>2 DEF CallsAreOwn
  <2>4. \A i, j \in DOMAIN listed : i < j => listed[i] < listed[j]
    BY <2>1 DEF CallsAreOwn
  <2> QED
    BY <2>3, <2>4 DEF ReportedChangesAreOwn, listed
<1> QED
  BY <1>1, <1>2, <1>3, <1>4, TypeHolds, PTL DEF Spec
----------------------------------------------------------------------------
(* No run goes round in circles: what RunEnds rests on, for any model, any *)
(* budgets and any number of lost calls.                                   *)

(* One loop is further on than another: a turn more, or fewer calls left.  *)
Further(l, m) ==
    \/ m.turns < l.turns
    \/ l.turns = m.turns /\ Len(l.todo) < Len(m.todo)

(* The main loop gets on, or starts a nested one, or waits while that one  *)
(* gets on; or the tools are listed; or the call at hand comes to its      *)
(* second try, over a session that is opened first, or the chat to its     *)
(* second form.                                                            *)
RunGetsOn ==
    \/ loops' # <<>> /\ Further(loops'[1], loops[1])
    \/ Len(loops) = 1 /\ Len(loops') = 2 /\ loops'[1] = loops[1]
    \/ /\ Len(loops) = 2 /\ Len(loops') = 2
       /\ loops'[1] = loops[1] /\ Further(loops'[2], loops[2])
    \/ loops' = loops /\ attempt' = attempt /\ wait = "list" /\ wait' = "none"
    \/ loops' = loops /\ attempt = 1 /\ attempt' = 1 /\ wait = "none" /\ wait' = "open"
    \/ loops' = loops /\ attempt = 1 /\ attempt' = 2
    \/ loops' = loops /\ attempt' = attempt /\ wait' = wait /\ think /\ ~ think'

(* As long as a run lasts, each step of it gets it on, and nothing that is *)
(* served late takes it back.                                              *)
RunsGetOn ==
    [][phase = "running" /\ phase' = "running" =>
         /\ Chat \/ Dispatch \/ Resource \/ Session => RunGetsOn
         /\ RunGetsOn \/ UNCHANGED <<loops, wait, attempt, think>>]_vars

LEMMA ToldIsFurther ==
    ASSUME NEW l \in LoopRecord, l.todo # <<>>
    PROVE  Further(Told(l), l)
<1>1. l.todo \in Seq(Name) /\ l.turns \in Nat
  BY DEF LoopRecord
<1>2. Len(Tail(l.todo)) < Len(l.todo)
  BY <1>1
<1>3. Told(l).turns = l.turns /\ Told(l).todo = Tail(l.todo)
  BY DEF Told, LoopRecord
<1> QED
  BY <1>2, <1>3 DEF Further

(* The loop on top gets on.                                                *)
LEMMA TopGetsOn ==
    ASSUME TypeInv, phase = "running",
           NEW l, LoopAt(l, Len(loops)), Further(l, Top),
           loops' = [loops EXCEPT ![Len(loops)] = l]
    PROVE  RunGetsOn
<1>1. loops \in Seq(LoopRecord)
  BY DEF TypeInv, LoopsTyped
<1>2. Len(loops) \in {1, 2} /\ Top = loops[Len(loops)]
  BY TopTyped
<1>3. l \in LoopRecord
  BY DEF LoopAt
<1>4. /\ Len(loops') = Len(loops)
      /\ \A i \in 1..Len(loops) : loops'[i] = IF i = Len(loops) THEN l ELSE loops[i]
  <2>1. Len(loops) \in 1..Len(loops)
    BY <1>2
  <2> QED
    BY <1>1, <1>3, <2>1, ExceptSeq
<1>5. loops' # <<>>
  BY TopSteps
<1>6. CASE Len(loops) = 1
  BY <1>2, <1>4, <1>5, <1>6 DEF RunGetsOn
<1>7. CASE Len(loops) = 2
  <2>1. loops'[1] = loops[1] /\ loops'[2] = l
    BY <1>4, <1>7
  <2> QED
    BY <1>2, <1>4, <1>7, <2>1 DEF RunGetsOn
<1> QED
  BY <1>2, <1>6, <1>7

(* A nested loop that returns lets the main one get on.                    *)
LEMMA ReturnGetsOn ==
    ASSUME TypeInv, phase = "running", NEW text, Return(text), phase' = "running"
    PROVE  RunGetsOn
<1>1. Len(loops) = 2 /\ loops[1].todo # <<>> /\ LoopAt(loops[1], 1)
  <2>1. Len(loops) # 1
    BY DEF Return
  <2> QED
    BY <2>1, TopTyped DEF TypeInv, LoopsTyped
<1> DEFINE l == Told(loops[1])
<1>2. Further(l, loops[1])
  BY <1>1, ToldIsFurther DEF LoopAt
<1>3. loops' = <<l>>
  BY <1>1 DEF Return, Told
<1> HIDE DEF l
<1>4. <<l>> # <<>> /\ <<l>>[1] = l
  OBVIOUS
<1> QED
  BY <1>2, <1>3, <1>4 DEF RunGetsOn

LEMMA OwnStepsGetOn ==
    ASSUME TypeInv, Chat \/ Dispatch \/ Resource \/ Session,
           phase = "running", phase' = "running"
    PROVE  RunGetsOn
<1>1. LoopAt(Top, Len(loops)) /\ Top \in LoopRecord /\ Top = loops[Len(loops)]
  BY TopTyped DEF LoopAt
<1>2. ~ \E to \in {"idle", "stopped"} : Raise(to)
  BY DEF Raise
<1>3. CASE OutOfTurns
  BY <1>3, ReturnGetsOn DEF OutOfTurns
<1>4. TurnsLeft(Top) => Top.turns + 1 \in 0..Budget(Top.by)
  <2>1. Budget(Top.by) \in Nat
    BY <1>1, BudgetTyped DEF LoopAt, LoopRecord
  <2> QED
    BY <1>1, <2>1 DEF TurnsLeft, LoopAt
<1>5. Top.turns \in Nat /\ Top.todo \in Seq(Name)
  BY <1>1 DEF LoopRecord
<1>6. CASE ReplyCalls
  <2>1. PICK names \in SeqOf(Name, 2) \ {<<>>} :
          loops' = [loops EXCEPT ![Len(loops)] =
                      [Top EXCEPT !.turns = @ + 1, !.todo = names]]
    BY <1>6 DEF ReplyCalls
  <2>2. names \in Seq(Name)
    <3>1. PICK n \in 0..2 : names \in [1..n -> Name]
      BY DEF SeqOf
    <3>2. n \in Nat
      OBVIOUS
    <3> QED
      BY <3>1, <3>2, SeqDef
  <2> DEFINE l == [Top EXCEPT !.turns = @ + 1, !.todo = names]
  <2>3. LoopAt(l, Len(loops))
    BY <1>1, <1>4, <1>6, <2>2, TurnTyped DEF ReplyCalls, MayChat
  <2>4. l.turns = Top.turns + 1
    BY <1>1 DEF LoopRecord
  <2>5. loops' = [loops EXCEPT ![Len(loops)] = l]
    BY <2>1
  <2> HIDE DEF l
  <2>6. Further(l, Top)
    BY <1>5, <2>4 DEF Further
  <2> QED
    BY <2>3, <2>5, <2>6, TopGetsOn
<1>7. CASE ReplyText
  <2>1. PICK text \in Text :
          IF Top.nudges < MaxNudges /\ Unfinished(Top, text)
          THEN loops' = [loops EXCEPT ![Len(loops)] = Nudged(@)]
          ELSE Return(text)
    BY <1>7 DEF ReplyText
  <2>2. CASE Top.nudges < MaxNudges /\ Unfinished(Top, text)
    <3>1. loops' = [loops EXCEPT ![Len(loops)] = Nudged(Top)]
      BY <1>1, <2>1, <2>2
    <3>2. LoopAt(Nudged(Top), Len(loops))
      BY <1>1, <1>4, <1>7, <2>2, TurnTyped DEF ReplyText, MayChat
    <3>3. Nudged(Top).turns = Top.turns + 1
      BY <1>1 DEF LoopRecord, Nudged
    <3>4. Further(Nudged(Top), Top)
      BY <1>5, <3>3 DEF Further
    <3> QED
      BY <3>1, <3>2, <3>4, TopGetsOn
  <2>3. CASE ~ (Top.nudges < MaxNudges /\ Unfinished(Top, text))
    BY <2>1, <2>3, ReturnGetsOn
  <2> QED
    BY <2>2, <2>3
<1>8. CASE ThinkRejected
  BY <1>8 DEF ThinkRejected, RunGetsOn
<1>9. CASE ChatFails
  BY <1>2, <1>9 DEF ChatFails
(* The loop on top is told how its call went.                              *)
<1>10. ASSUME loops' = [loops EXCEPT ![Len(loops)] = Told(@)], Top.todo # <<>>
       PROVE  RunGetsOn
  <2>1. loops' = [loops EXCEPT ![Len(loops)] = Told(Top)]
    BY <1>1, <1>10
  <2>2. LoopAt(Told(Top), Len(loops)) /\ Further(Told(Top), Top)
    BY <1>1, <1>10, ToldTyped, ToldIsFurther
  <2> QED
    BY <2>1, <2>2, TopGetsOn
<1>11. CASE Refused
  BY <1>10, <1>11 DEF Refused, Busy
<1>12. CASE Launch
  <2>1. Top.by = "main" /\ loops' = Append(loops, Loop(Called))
    BY <1>12 DEF Launch, Launches
  <2>2. loops \in Seq(LoopRecord) /\ Len(loops) = 1
    BY <1>1, <2>1, TopTyped DEF LoopAt, TypeInv, LoopsTyped
  <2> DEFINE l == Loop(Called)
  <2> HIDE DEF l
  <2>3. Len(Append(loops, l)) = 2 /\ Append(loops, l)[1] = loops[1]
    <3> DEFINE S == LoopRecord \cup {l}
    <3>1. loops \in Seq(S) /\ l \in S
      BY <2>2
    <3> HIDE DEF S
    <3>2. /\ Len(Append(loops, l)) = Len(loops) + 1
          /\ \A i \in 1..Len(loops) : Append(loops, l)[i] = loops[i]
      BY <3>1, Appended
    <3>3. 1 \in 1..Len(loops) /\ Len(loops) + 1 = 2
      BY <2>2
    <3> QED
      BY <3>2, <3>3
  <2>4. loops' = Append(loops, l)
    BY <2>1 DEF l
  <2> QED
    BY <2>2, <2>3, <2>4 DEF RunGetsOn
<1>13. CASE Answered
  BY <1>10, <1>13 DEF Answered, Calling, Busy
<1>14. CASE NoAnswer
  <2>1. Again /\ wait' = "open" /\ attempt' = attempt /\ loops' = loops
    BY <1>2, <1>14 DEF NoAnswer
  <2>2. wait = "none"
    BY <1>14 DEF NoAnswer, Calling, Busy, Active
  <2> QED
    BY <2>1, <2>2 DEF Again, RunGetsOn
<1>15. CASE TopologyRead
  BY <1>10, <1>15 DEF TopologyRead, Calling, Busy
<1>16. CASE TopologyFails
  BY <1>2, <1>16 DEF TopologyFails
<1>17. CASE ToolsListed
  BY <1>17 DEF ToolsListed, RunGetsOn
<1>18. CASE Reopened
  <2>1. attempt = 1
    BY <1>18 DEF Reopened, TypeInv, RestTyped
  <2> QED
    BY <1>18, <2>1 DEF Reopened, RunGetsOn
<1>19. CASE ListFails \/ CannotReopen
  BY <1>2, <1>19 DEF ListFails, CannotReopen
<1> QED
  BY <1>3, <1>6, <1>7, <1>8, <1>9, <1>11, <1>12, <1>13, <1>14, <1>15, <1>16, <1>17,
     <1>18, <1>19
  DEF Chat, Dispatch, Resource, Session

(* Whatever the model says and whatever becomes of its calls, each step of *)
(* a run uses up a turn, a call that was asked for, the one repetition of  *)
(* a call and the session opened for it, the list of tools, or the one     *)
(* fall-back of the chat: turns are bounded by their budgets               *)
(* (TypeCorrect), so no run loops for ever (RunsGetOn).                    *)
THEOREM RunsDoGetOn == Spec => RunsGetOn
<1> DEFINE GetsOn ==
      phase = "running" /\ phase' = "running" =>
        /\ Chat \/ Dispatch \/ Resource \/ Session => RunGetsOn
        /\ RunGetsOn \/ UNCHANGED <<loops, wait, attempt, think>>
<1>1. ASSUME TypeInv, [Next]_vars PROVE GetsOn
  <2> SUFFICES ASSUME phase = "running", phase' = "running"
               PROVE  /\ Chat \/ Dispatch \/ Resource \/ Session => RunGetsOn
                      /\ RunGetsOn \/ UNCHANGED <<loops, wait, attempt, think>>
    OBVIOUS
  <2>1. Chat \/ Dispatch \/ Resource \/ Session => RunGetsOn
    BY <1>1, OwnStepsGetOn
  <2>2. StartRun \/ ServeLate \/ UNCHANGED vars => UNCHANGED <<loops, wait, attempt, think>>
    BY DEF StartRun, ServeLate, vars, chatVars
  <2> QED
    BY <1>1, <2>1, <2>2 DEF Next
<1>2. TypeInv /\ [Next]_vars => [GetsOn]_vars
  BY <1>1
<1> QED
  BY <1>2, TypeHolds, PTL DEF Spec, RunsGetOn
============================================================================

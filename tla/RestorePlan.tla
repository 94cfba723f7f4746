---------------------------- MODULE RestorePlan ----------------------------
(***************************************************************************)
(* One node: the typed ops that change its kernel state, the capture of    *)
(* that state, and the restore that plans and runs the commands which      *)
(* bring it back.  The kernel's side of each command is external, modelled *)
(* from how the code uses it (iproute2, bridge and nft semantics).         *)
(*                                                                         *)
(* Links and addresses are numbers, ordered as the code sorts their names. *)
(* A VLAN link's name need not sort after its parent's, its parent may be  *)
(* a VLAN link, and DelVlan deletes any link: the ops accept any name.     *)
(* The addresses are of one subnet: the first on a link is the primary.    *)
(***************************************************************************)
EXTENDS Naturals

CONSTANTS Phys,       \* physical links
          Port,       \* the one that is a port of the node's bridge
          VName,      \* names a VLAN link may be given
          Vid, Mtu, Addr, Nft,
          MaxOps,     \* ops before the snapshot, and again after it
          MaxTries,   \* rollbacks to that snapshot
          NIL

ASSUME RestorePlanAssumption ==
    /\ Phys \cup VName \cup Vid \cup Mtu \cup Addr \subseteq Nat
    /\ Phys \cap VName = {} /\ Port \in Phys
    /\ \E m \in Mtu : \A x \in Mtu : x <= m
    /\ MaxOps \in Nat /\ MaxTries \in Nat

Name   == Phys \cup VName
Triple == Vid \X BOOLEAN \X BOOLEAN     \* vid, PVID, Egress Untagged
Info   == Addr \X BOOLEAN               \* address, secondary

PartialTo(S, T) == UNION {[D -> T] : D \in SUBSET S}

(* What a snapshot has of a node.                                          *)
Config == [vlan : PartialTo(VName, Name \X Vid), mtu : PartialTo(Name, Mtu),
           addr : PartialTo(Name, SUBSET Info), bv : SUBSET Triple, nft : Nft]

(* What the node has: also a host's static default route.                  *)
Kernel == [vlan : PartialTo(VName, Name \X Vid), mtu : PartialTo(Name, Mtu),
           addr : PartialTo(Name, SUBSET Info), bv : SUBSET Triple, nft : Nft,
           route : BOOLEAN]

VARIABLES k,       \* kernel state of the node
          snap,    \* stored snapshot of it, or NIL
          routed,  \* k.route when the restore began
          start,   \* what the restore captured as `current`
          plan,    \* commands it has yet to run
          phase, ops, tries

vars == <<k, snap, routed, start, plan, phase, ops, tries>>

Links(s) == DOMAIN s.mtu
Bare(infos) == {e[1] : e \in infos}

(* What the kernel sees to: a VLAN link is on another link that is there,  *)
(* does not exceed its MTU and is not there twice; a link has an address   *)
(* once, and one primary; a port has one entry per VLAN and one PVID, and  *)
(* none when the link is gone.                                             *)
AddrsSound(infos) ==
    /\ \A e, f \in infos : e[1] = f[1] \/ ~ (e[2] \/ f[2]) => e = f
    /\ infos # {} => \E e \in infos : ~ e[2]

PortSound(bv) == \A t, u \in bv : t[1] = u[1] \/ (t[2] /\ u[2]) => t = u

Sound(s) ==
    /\ DOMAIN s.addr = Links(s) /\ DOMAIN s.vlan = Links(s) \cap VName
    /\ \A l \in DOMAIN s.vlan :
         LET p == s.vlan[l][1] IN p \in Links(s) \ {l} /\ s.mtu[l] <= s.mtu[p]
    /\ \A l, m \in DOMAIN s.vlan : s.vlan[l] = s.vlan[m] => l = m
    /\ \A l \in Links(s) : AddrsSound(s.addr[l])
    /\ PortSound(s.bv) /\ (s.bv # {} => Port \in Links(s))

----------------------------------------------------------------------------
(* Commands.  Run(c, s) is the state after c; CanRun(c, s) says whether c  *)
(* exits 0 (a command that fails changes nothing).                         *)

LinkAdd(l, spec) == [do |-> "link add", link |-> l, spec |-> spec]
LinkDel(l)       == [do |-> "link del", link |-> l]
MtuSet(l, m)     == [do |-> "set mtu", link |-> l, mtu |-> m]
Flush(l)         == [do |-> "flush", link |-> l]
AddrAdd(l, a)    == [do |-> "addr add", link |-> l, addr |-> a]
VlanDel(t)       == [do |-> "bv del", vlan |-> t]
VlanAdd(t)       == [do |-> "bv add", vlan |-> t]
NftLoad(n)       == [do |-> "nft", rules |-> n]

Command ==
    {LinkAdd(l, <<p, v>>) : l \in VName, p \in Name, v \in Vid}
    \cup {LinkDel(l) : l \in Name}
    \cup {MtuSet(l, m) : l \in Name, m \in Mtu}
    \cup {Flush(l) : l \in Name} \cup {AddrAdd(l, a) : l \in Name, a \in Addr}
    \cup {VlanDel(t) : t \in Triple} \cup {VlanAdd(t) : t \in Triple}
    \cup {NftLoad(n) : n \in Nft}

Extended(f, l, v) == [x \in DOMAIN f \cup {l} |-> IF x = l THEN v ELSE f[x]]
Without(f, S) == [x \in DOMAIN f \ S |-> f[x]]

CanRun(c, s) ==
    CASE c.do = "link add" -> /\ c.link \notin Links(s) /\ c.spec[1] \in Links(s)
                              /\ \A l \in DOMAIN s.vlan : s.vlan[l] # c.spec
      [] c.do = "link del" -> c.link \in Links(s)
      [] c.do = "set mtu"  -> /\ c.link \in Links(s)
                              /\ c.link \in DOMAIN s.vlan =>
                                   c.mtu <= s.mtu[s.vlan[c.link][1]]
      [] c.do = "flush"    -> c.link \in Links(s)
      [] c.do = "addr add" -> c.link \in Links(s) /\ c.addr \notin Bare(s.addr[c.link])
      [] c.do \in {"bv del", "bv add"} -> Port \in Links(s)
      [] OTHER             -> TRUE

(* The VLAN links on l, those on them, and so on.                          *)
IsUpOn(s, l, S) == \A x \in DOMAIN s.vlan : s.vlan[x][1] \in {l} \cup S => x \in S
Upper(s, l) == {x \in DOMAIN s.vlan : \A S \in SUBSET DOMAIN s.vlan :
                                          IsUpOn(s, l, S) => x \in S}

(* Lowering a link clamps the VLAN links on it; in the mutated form it     *)
(* does not.                                                               *)
SetMtuAlone(s, l, m) == [s EXCEPT !.mtu[l] = m]

Clamped(s, l, m) == {x \in Upper(s, l) : s.mtu[x] > m}

SetMtu(s, l, m) ==
    [s EXCEPT !.mtu = [x \in Links(s) |-> IF x \in {l} \cup Clamped(s, l, m)
                                          THEN m ELSE s.mtu[x]]]

Demoted(t) == <<t[1], FALSE, t[3]>>

Run(c, s) ==
    CASE c.do = "link add" ->
           [s EXCEPT !.vlan = Extended(s.vlan, c.link, c.spec),
                     !.mtu = Extended(s.mtu, c.link, s.mtu[c.spec[1]]),
                     !.addr = Extended(s.addr, c.link, {})]
      [] c.do = "link del" ->   \* all that is on the link goes with it
           LET gone == {c.link} \cup Upper(s, c.link) IN
           [s EXCEPT !.vlan = Without(s.vlan, gone),
                     !.mtu = Without(s.mtu, gone),
                     !.addr = Without(s.addr, gone),
                     !.bv = IF c.link = Port THEN {} ELSE @,
                     !.route = @ /\ c.link \notin Phys]
      [] c.do = "set mtu"  -> SetMtu(s, c.link, c.mtu)
      [] c.do = "flush"    ->   \* the last address takes the routes with it
           [s EXCEPT !.addr[c.link] = {},
                     !.route = @ /\ (c.link \in Phys => s.addr[c.link] = {})]
      [] c.do = "addr add" -> [s EXCEPT !.addr[c.link] = @ \cup {<<c.addr, @ # {}>>}]
      [] c.do = "bv del"   -> [s EXCEPT !.bv = {t \in s.bv : t[1] # c.vlan[1]}]
      [] c.do = "bv add"   ->   \* a port has one PVID
           [s EXCEPT !.bv = {c.vlan} \cup
               {IF c.vlan[2] THEN Demoted(t) ELSE t :
                  t \in {x \in s.bv : x[1] # c.vlan[1]}}]
      [] c.do = "nft"      -> [s EXCEPT !.nft = c.rules]

----------------------------------------------------------------------------
TypeOK ==
    /\ k \in Kernel /\ Sound(k)
    /\ snap # NIL => snap \in Config /\ Sound(snap)
    /\ plan \subseteq Command
    /\ phase \in {"drift", "restoring", "done", "failed"}
    /\ ops \in 0..MaxOps /\ tries \in 0..MaxTries

Top == CHOOSE m \in Mtu : \A x \in Mtu : x <= m

Init ==
    /\ \E i \in {{}} \cup {{<<a, FALSE>>} : a \in Addr}, n \in Nft :
         k = [vlan |-> [l \in {} |-> NIL], mtu |-> [l \in Phys |-> Top],
              addr |-> [l \in Phys |-> i], bv |-> {}, nft |-> n,
              route |-> i # {}]
    /\ snap = NIL /\ routed = NIL /\ start = NIL /\ plan = {}
    /\ phase = "drift" /\ ops = 0 /\ tries = 0

(* Ops: what apply_config lets an agent run, rendered to one command, or   *)
(* to two of which the second is not run if the first fails.               *)
Ran(c, s) == IF CanRun(c, s) THEN Run(c, s) ELSE s
RanBoth(c, d, s) == IF CanRun(c, s) THEN Ran(d, Run(c, s)) ELSE s

Apply(state) ==
    /\ phase = "drift" /\ ops < MaxOps
    /\ k' = state
    /\ ops' = ops + 1
    /\ UNCHANGED <<snap, routed, start, plan, phase, tries>>

Op ==
    \/ \E l \in Links(k), m \in Mtu : Apply(Ran(MtuSet(l, m), k))
    \/ \E l \in Links(k), a \in Addr :
         \/ Apply(Ran(AddrAdd(l, a), k))
         \/ Apply(RanBoth(Flush(l), AddrAdd(l, a), k))
    \/ \E l \in VName, p \in Links(k), v \in Vid : Apply(Ran(LinkAdd(l, <<p, v>>), k))
    \/ \E l \in Links(k) : Apply(Ran(LinkDel(l), k))
    \/ \E t \in Triple : Apply(Ran(VlanAdd(t), k))
    \/ \E t \in k.bv : Apply(Ran(VlanDel(t), k))
    \/ \E n \in Nft : Apply(Ran(NftLoad(n), k))

----------------------------------------------------------------------------
(* Snapshot and plan.  Routes are captured but neither compared nor        *)
(* restored, so a snapshot is the rest.  Its id is a hash of all of it,    *)
(* but the plan compares addresses without their flags.                    *)

Captured(s) == [vlan |-> s.vlan, mtu |-> s.mtu, addr |-> s.addr, bv |-> s.bv,
                nft |-> s.nft]

TakeSnapshot ==
    /\ phase = "drift" /\ snap = NIL
    /\ snap' = Captured(k)
    /\ ops' = 0
    /\ UNCHANGED <<k, routed, start, plan, phase, tries>>

(* VLAN links that are there with another parent or id, or not wanted, go; *)
(* those that are missing, or gone by now, come back.                      *)
Stale(cur, tgt) == {l \in DOMAIN cur.vlan :
                      l \notin DOMAIN tgt.vlan \/ tgt.vlan[l] # cur.vlan[l]}
Recreated(cur, tgt) == {l \in DOMAIN tgt.vlan :
                      l \notin DOMAIN cur.vlan \/ tgt.vlan[l] # cur.vlan[l]}

VlanPlan(cur, tgt) ==
    {LinkDel(l) : l \in Stale(cur, tgt)}
    \cup {LinkAdd(l, tgt.vlan[l]) : l \in Recreated(cur, tgt)}

(* Mutated form: a link that is not there yet is left at its parent's MTU. *)
ResizedTrusting(cur, tgt) ==
    {l \in DOMAIN tgt.mtu : l \in DOMAIN cur.mtu /\ cur.mtu[l] # tgt.mtu[l]}

Resized(cur, tgt) ==
    {l \in DOMAIN tgt.mtu : \/ l \in Recreated(cur, tgt)
                            \/ l \notin DOMAIN cur.mtu
                            \/ cur.mtu[l] # tgt.mtu[l]}

MtuPlan(cur, tgt) == {MtuSet(l, tgt.mtu[l]) : l \in Resized(cur, tgt)}

AddrsOf(s, l) == IF l \in DOMAIN s.addr THEN Bare(s.addr[l]) ELSE {}

(* What a link still has of its addresses when its turn comes.             *)
Have(cur, tgt, l) == IF l \in Recreated(cur, tgt) THEN {} ELSE AddrsOf(cur, l)

(* Mutated form: links are reset whether or not they differ.               *)
ReaddressedAll(cur, tgt) == DOMAIN tgt.addr

Readdressed(cur, tgt) ==
    {l \in DOMAIN cur.addr \cup DOMAIN tgt.addr : Have(cur, tgt, l) # AddrsOf(tgt, l)}

AddrPlan(cur, tgt) ==
    {Flush(l) : l \in {x \in Readdressed(cur, tgt) : Have(cur, tgt, x) # {}}}
    \cup UNION {{AddrAdd(l, a) : a \in AddrsOf(tgt, l)} : l \in Readdressed(cur, tgt)}

BridgePlan(cur, tgt) ==
    {VlanDel(t) : t \in cur.bv \ tgt.bv} \cup {VlanAdd(t) : t \in tgt.bv \ cur.bv}

NftPlan(cur, tgt) == IF cur.nft # tgt.nft THEN {NftLoad(tgt.nft)} ELSE {}

Plan(cur, tgt) == VlanPlan(cur, tgt) \cup MtuPlan(cur, tgt) \cup AddrPlan(cur, tgt)
                  \cup BridgePlan(cur, tgt) \cup NftPlan(cur, tgt)

(* The order of the plan: family after family, in each family by name or   *)
(* vid, and at one link the flush first, then the addresses in order.  In  *)
(* a mutated form links are added before the stale ones are deleted.       *)
StageAddFirst(c) ==
    CASE c.do = "link add" -> 0 [] c.do = "link del" -> 1 [] c.do = "set mtu" -> 3
      [] c.do \in {"flush", "addr add"} -> 4
      [] c.do = "bv del" -> 5 [] c.do = "bv add" -> 6 [] c.do = "nft" -> 7

Stage(c) ==
    CASE c.do = "link del" -> 1 [] c.do = "link add" -> 2 [] c.do = "set mtu" -> 3
      [] c.do \in {"flush", "addr add"} -> 4
      [] c.do = "bv del" -> 5 [] c.do = "bv add" -> 6 [] c.do = "nft" -> 7

Key(c) == IF Stage(c) \in {5, 6} THEN c.vlan[1]
          ELSE IF c.do = "nft" THEN 0 ELSE c.link

Before(c, d) ==
    \/ Stage(c) < Stage(d)
    \/ Stage(c) = Stage(d) /\ Key(c) < Key(d)
    \/ /\ Stage(c) = Stage(d) /\ Key(c) = Key(d) /\ d.do = "addr add"
       /\ c.do = "addr add" => c.addr < d.addr

Due == {c \in plan : \A d \in plan : ~ Before(d, c)}

Rollback ==
    /\ phase \in {"drift", "failed"} /\ snap # NIL /\ tries < MaxTries
    /\ start' = Captured(k) /\ routed' = k.route
    /\ plan' = Plan(Captured(k), snap)
    /\ phase' = "restoring" /\ tries' = tries + 1
    /\ UNCHANGED <<k, snap, ops>>

RunCommand ==
    /\ phase = "restoring"
    /\ \E c \in Due : CanRun(c, k) /\ k' = Run(c, k) /\ plan' = plan \ {c}
    /\ UNCHANGED <<snap, routed, start, phase, ops, tries>>

CommandFails ==
    /\ phase = "restoring"
    /\ \E c \in Due : ~ CanRun(c, k)
    /\ phase' = "failed" /\ plan' = {}
    /\ UNCHANGED <<k, snap, routed, start, ops, tries>>

Restored ==
    /\ phase = "restoring" /\ plan = {}
    /\ phase' = "done"
    /\ UNCHANGED <<k, snap, routed, start, plan, ops, tries>>

Next == Op \/ TakeSnapshot \/ Rollback \/ RunCommand \/ CommandFails \/ Restored

Spec == Init /\ [][Next]_vars

----------------------------------------------------------------------------
(* A VLAN link sits on one that the plan deletes, and goes with it: the    *)
(* plan's own deletion of it is then refused, or, when the snapshot has it *)
(* as it was, nothing in the plan brings it back (plan_kernel_restore      *)
(* looks at each link by itself).                                          *)
Sweeps(cur, tgt) ==
    \E l \in DOMAIN cur.vlan : cur.vlan[l][1] \in Stale(cur, tgt)

(* What plan_kernel_restore compares: all but which address is secondary.  *)
Compared(s) ==
    [vlan |-> s.vlan, mtu |-> s.mtu, bv |-> s.bv, nft |-> s.nft,
     addr |-> [l \in DOMAIN s.addr |-> Bare(s.addr[l])]]

(* Unless it swept a VLAN link away, a restore that runs to its end leaves *)
(* the node in the snapshot's state, secondary flags apart, whatever the   *)
(* ops did: order of commands, clamped MTUs, links on links and the one    *)
(* PVID of a port included (plan_kernel_restore).                          *)
CompletedRestoreMatches ==
    phase = "done" /\ ~ Sweeps(start, snap) => Compared(k) = Compared(snap)

(* "Diffs current state against the snapshot and applies only what         *)
(* differs" (the rollback tool): what the snapshot and the node agree on   *)
(* keeps its value all through a restore, side effects included, unless    *)
(* the restore sweeps a VLAN link away.                                    *)
AgreedIsUntouched ==
    phase \in {"restoring", "done"} /\ ~ Sweeps(start, snap) =>
      /\ \A l \in DOMAIN snap.vlan \cap DOMAIN start.vlan :
           snap.vlan[l] = start.vlan[l] => l \in DOMAIN k.vlan /\ k.vlan[l] = snap.vlan[l]
      /\ \A l \in (Links(snap) \cap Links(start)) \ Recreated(start, snap) :
           /\ snap.mtu[l] = start.mtu[l] => k.mtu[l] = snap.mtu[l]
           /\ AddrsOf(snap, l) = AddrsOf(start, l) => AddrsOf(k, l) = AddrsOf(snap, l)
      /\ snap.bv \cap start.bv \subseteq k.bv

(* The known causes of a refusal.  A physical link of the snapshot is      *)
(* gone, and no plan brings one back; a VLAN link's name sorts before that *)
(* of the link it is on, which is not there yet, or not high enough yet; a *)
(* deleted VLAN link had addresses, which the plan flushes all the same.   *)
Vanished == (Links(snap) \cap Phys) \ Links(k) # {}

Early ==
    \E l \in DOMAIN snap.vlan :
      LET p == snap.vlan[l][1] IN
      l < p /\ (p \in Links(k) => k.mtu[p] < snap.mtu[l])

FlushesDeleted ==
    \E l \in Stale(start, snap) : l \notin DOMAIN snap.vlan /\ start.addr[l] # {}

(* Unless it swept a VLAN link away, a restore that failed did so for one  *)
(* of these three causes, whatever the ops did and however often it was    *)
(* tried; and it has deleted what was stale, so that the last of the three *)
(* is not there at the next try (plan_kernel_restore; restore).            *)
FailsForCause ==
    phase = "failed" /\ ~ Sweeps(start, snap) =>
      /\ Vanished \/ Early \/ FlushesDeleted
      /\ Stale(Captured(k), snap) = {}

(* "Bring every node from `current` to `target`" (restore): no command of  *)
(* the plan is one the kernel refuses, unless a physical link is gone.     *)
RestoreNeverFails == phase = "failed" => Vanished

(* Routes are left out of a snapshot's id as "derived from the network     *)
(* rather than configured on it" (models.Snapshot): a restore that ran to  *)
(* its end has not taken from the node the static route it found there.    *)
RouteComesBack == phase = "done" /\ routed => k.route
============================================================================

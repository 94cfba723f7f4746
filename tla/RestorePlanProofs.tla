------------------------- MODULE RestorePlanProofs -------------------------
(***************************************************************************)
(* A restore brings a node back, whatever the links, VLANs, MTUs and       *)
(* addresses: what the runs of RestorePlan check on one physical link.     *)
(*                                                                         *)
(* The invariant (SoFar) says where the node stands when part of the plan  *)
(* has run: of links, MTUs, addresses, bridge VLANs and rules, what is not *)
(* among the commands to come is as the snapshot has it.  It holds when    *)
(* the plan is made (AtTheStart), and each kind of command keeps it        *)
(* (...OnWay), because the commands that must come first have run.         *)
(***************************************************************************)
EXTENDS RestorePlan, TLAPS

----------------------------------------------------------------------------
(* The invariant.  cur is what the restore captured, tgt the snapshot, s   *)
(* the node now and todo the commands the restore has yet to run.          *)

(* The commands run are a prefix of the plan.                              *)
Suffix(cur, tgt, todo) ==
    /\ todo \subseteq Plan(cur, tgt)
    /\ \A c \in todo, d \in Plan(cur, tgt) : Before(c, d) => d \in todo

(* Physical links are those that were there, all of them the snapshot's;   *)
(* for one that is missing there is a command to come that must fail.      *)
PhysSoFar(s, cur, tgt, todo) ==
    /\ Links(s) \cap Phys = Links(cur) \cap Phys
    /\ Links(cur) \cap Phys \subseteq Links(tgt)
    /\ \A l \in (Links(tgt) \cap Phys) \ Links(cur) : MtuSet(l, tgt.mtu[l]) \in todo

(* A VLAN link is there if it was and its deletion is to come, or it       *)
(* stays, or it has been added.                                            *)
Added(cur, tgt, todo) ==
    {l \in Recreated(cur, tgt) : LinkAdd(l, tgt.vlan[l]) \notin todo}
Kept(cur, tgt, todo) ==
    {l \in DOMAIN cur.vlan : l \in Stale(cur, tgt) => LinkDel(l) \in todo}

VlanSoFar(s, cur, tgt, todo) ==
    /\ DOMAIN s.vlan = Kept(cur, tgt, todo) \cup Added(cur, tgt, todo)
    /\ \A l \in Added(cur, tgt, todo) : s.vlan[l] = tgt.vlan[l]
    /\ \A l \in Kept(cur, tgt, todo) \ Added(cur, tgt, todo) : s.vlan[l] = cur.vlan[l]

(* What is not to come for a link has come, or was not needed.             *)
Standing(cur, tgt, todo) ==
    {l \in Links(tgt) : /\ l \in Recreated(cur, tgt) => LinkAdd(l, tgt.vlan[l]) \notin todo
                        /\ l \in Phys => l \in Links(cur)}

MtuSoFar(s, cur, tgt, todo) ==
    \A l \in Standing(cur, tgt, todo) :
       MtuSet(l, tgt.mtu[l]) \notin todo => s.mtu[l] = tgt.mtu[l]

AddrSoFar(s, cur, tgt, todo) ==
    \A l \in Standing(cur, tgt, todo) :
       Flush(l) \notin todo =>
          Bare(s.addr[l]) = {a \in Bare(tgt.addr[l]) : AddrAdd(l, a) \notin todo}

BridgeSoFar(s, cur, tgt, todo) ==
    s.bv = {t \in cur.bv : t \in tgt.bv \/ VlanDel(t) \in todo}
           \cup {t \in tgt.bv \ cur.bv : VlanAdd(t) \notin todo}

NftSoFar(s, tgt, todo) == NftLoad(tgt.nft) \notin todo => s.nft = tgt.nft

SoFar(s, cur, tgt, todo) ==
    /\ Suffix(cur, tgt, todo)
    /\ PhysSoFar(s, cur, tgt, todo)
    /\ VlanSoFar(s, cur, tgt, todo)
    /\ MtuSoFar(s, cur, tgt, todo)
    /\ AddrSoFar(s, cur, tgt, todo)
    /\ BridgeSoFar(s, cur, tgt, todo)
    /\ NftSoFar(s, tgt, todo)

UnderWay(s, cur, tgt, todo) ==
    /\ s \in Kernel /\ Sound(s)
    /\ cur \in Config /\ Sound(cur) /\ tgt \in Config /\ Sound(tgt)
    /\ ~ Sweeps(cur, tgt)
    /\ SoFar(s, cur, tgt, todo)

(* No command brings a physical link, so the node has none the snapshot    *)
(* does not have.                                                          *)
RestoreInv ==
    /\ snap # NIL => Links(k) \cap Phys \subseteq Links(snap)
    /\ phase # "drift" => snap # NIL
    /\ phase = "done" => plan = {}
    /\ phase \in {"restoring", "done"} /\ ~ Sweeps(start, snap) =>
         UnderWay(k, start, snap, plan)

----------------------------------------------------------------------------
(* Commands: where each stands in the order of a plan, and when the kernel *)
(* takes it.                                                               *)

LEMMA Places ==
  ASSUME NEW l, NEW x
  PROVE  /\ Stage(LinkDel(l)) = 1 /\ Key(LinkDel(l)) = l
         /\ Stage(LinkAdd(l, x)) = 2 /\ Key(LinkAdd(l, x)) = l
         /\ Stage(MtuSet(l, x)) = 3 /\ Key(MtuSet(l, x)) = l
         /\ Stage(Flush(l)) = 4 /\ Key(Flush(l)) = l
         /\ Stage(AddrAdd(l, x)) = 4 /\ Key(AddrAdd(l, x)) = l
         /\ Stage(VlanDel(x)) = 5 /\ Stage(VlanAdd(x)) = 6
         /\ Stage(NftLoad(x)) = 7
<1>1. Stage(LinkDel(l)) = 1 /\ Stage(LinkAdd(l, x)) = 2 /\ Stage(MtuSet(l, x)) = 3
  BY DEF Stage, LinkAdd, LinkDel, MtuSet, Flush, AddrAdd, VlanDel, VlanAdd, NftLoad
<1>2. Stage(Flush(l)) = 4 /\ Stage(AddrAdd(l, x)) = 4
  BY DEF Stage, LinkAdd, LinkDel, MtuSet, Flush, AddrAdd, VlanDel, VlanAdd, NftLoad
<1>3. Stage(VlanDel(x)) = 5 /\ Stage(VlanAdd(x)) = 6 /\ Stage(NftLoad(x)) = 7
  BY DEF Stage, LinkAdd, LinkDel, MtuSet, Flush, AddrAdd, VlanDel, VlanAdd, NftLoad
<1>4. Key(LinkDel(l)) = l /\ Key(LinkAdd(l, x)) = l /\ Key(MtuSet(l, x)) = l
  BY DEF Key, Stage, LinkAdd, LinkDel, MtuSet, Flush, AddrAdd, VlanDel, VlanAdd, NftLoad
<1>5. Key(Flush(l)) = l /\ Key(AddrAdd(l, x)) = l
  BY DEF Key, Stage, LinkAdd, LinkDel, MtuSet, Flush, AddrAdd, VlanDel, VlanAdd, NftLoad
<1> QED BY <1>1, <1>2, <1>3, <1>4, <1>5

LEMMA Orders ==
  ASSUME NEW l, NEW m, NEW x, NEW y
  PROVE  /\ Before(LinkDel(l), LinkAdd(m, y)) /\ Before(LinkDel(l), MtuSet(m, y))
         /\ Before(LinkDel(l), Flush(m)) /\ Before(LinkDel(l), AddrAdd(m, y))
         /\ Before(LinkAdd(l, x), MtuSet(m, y)) /\ Before(LinkAdd(l, x), Flush(m))
         /\ Before(LinkAdd(l, x), AddrAdd(m, y))
         /\ Before(Flush(l), AddrAdd(l, y))
         /\ l < m => Before(MtuSet(l, x), MtuSet(m, y))
         /\ Before(VlanDel(x), VlanAdd(y))
<1>1. /\ Before(LinkDel(l), LinkAdd(m, y)) /\ Before(LinkDel(l), MtuSet(m, y))
      /\ Before(LinkDel(l), Flush(m)) /\ Before(LinkDel(l), AddrAdd(m, y))
  BY DEF Before, Stage, LinkDel, LinkAdd, MtuSet, Flush, AddrAdd
<1>2. /\ Before(LinkAdd(l, x), MtuSet(m, y)) /\ Before(LinkAdd(l, x), Flush(m))
      /\ Before(LinkAdd(l, x), AddrAdd(m, y))
  BY DEF Before, Stage, LinkAdd, MtuSet, Flush, AddrAdd
<1>3. Before(Flush(l), AddrAdd(l, y))
  BY DEF Before, Stage, Key, Flush, AddrAdd
<1>4. l < m => Before(MtuSet(l, x), MtuSet(m, y))
  BY Places DEF Before
<1>5. Before(VlanDel(x), VlanAdd(y))
  BY DEF Before, Stage, VlanDel, VlanAdd
<1> QED BY <1>1, <1>2, <1>3, <1>4, <1>5

LEMMA Takes ==
  ASSUME NEW s
  PROVE  /\ \A l, x : CanRun(LinkAdd(l, x), s) <=>
                         /\ l \notin Links(s) /\ x[1] \in Links(s)
                         /\ \A m \in DOMAIN s.vlan : s.vlan[m] # x
         /\ \A l : CanRun(LinkDel(l), s) <=> l \in Links(s)
         /\ \A l, x : CanRun(MtuSet(l, x), s) <=>
                         /\ l \in Links(s)
                         /\ l \in DOMAIN s.vlan => x <= s.mtu[s.vlan[l][1]]
         /\ \A l : CanRun(Flush(l), s) <=> l \in Links(s)
         /\ \A l, x : CanRun(AddrAdd(l, x), s) <=>
                         l \in Links(s) /\ x \notin Bare(s.addr[l])
         /\ \A x : CanRun(VlanDel(x), s) <=> Port \in Links(s)
         /\ \A x : CanRun(VlanAdd(x), s) <=> Port \in Links(s)
         /\ \A x : CanRun(NftLoad(x), s)
<1> USE DEF CanRun, LinkAdd, LinkDel, MtuSet, Flush, AddrAdd, VlanDel, VlanAdd, NftLoad
<1>1. \A l, x : CanRun(LinkAdd(l, x), s) <=>
                   /\ l \notin Links(s) /\ x[1] \in Links(s)
                   /\ \A m \in DOMAIN s.vlan : s.vlan[m] # x
  OBVIOUS
<1>2. \A l : CanRun(LinkDel(l), s) <=> l \in Links(s)
  OBVIOUS
<1>3. \A l, x : CanRun(MtuSet(l, x), s) <=>
                   /\ l \in Links(s)
                   /\ l \in DOMAIN s.vlan => x <= s.mtu[s.vlan[l][1]]
  OBVIOUS
<1>4. \A l : CanRun(Flush(l), s) <=> l \in Links(s)
  OBVIOUS
<1>5. \A l, x : CanRun(AddrAdd(l, x), s) <=> l \in Links(s) /\ x \notin Bare(s.addr[l])
  OBVIOUS
<1>6. \A x : CanRun(VlanDel(x), s) <=> Port \in Links(s)
  OBVIOUS
<1>7. \A x : CanRun(VlanAdd(x), s) <=> Port \in Links(s)
  OBVIOUS
<1>8. \A x : CanRun(NftLoad(x), s)
  OBVIOUS
<1> HIDE DEF CanRun, LinkAdd, LinkDel, MtuSet, Flush, AddrAdd, VlanDel, VlanAdd, NftLoad
<1> QED BY <1>1, <1>2, <1>3, <1>4, <1>5, <1>6, <1>7, <1>8

(* Every command is one of the eight.                                      *)
LEMMA EachKind ==
  ASSUME NEW c \in Command
  PROVE  \/ \E l \in VName, p \in Name, v \in Vid : c = LinkAdd(l, <<p, v>>)
         \/ \E l \in Name : c = LinkDel(l)
         \/ \E l \in Name, m \in Mtu : c = MtuSet(l, m)
         \/ \E l \in Name : c = Flush(l)
         \/ \E l \in Name, a \in Addr : c = AddrAdd(l, a)
         \/ \E t \in Triple : c = VlanDel(t) \/ c = VlanAdd(t)
         \/ \E n \in Nft : c = NftLoad(n)
BY DEF Command

LEMMA Distinct ==
  /\ \A l, m, x : LinkDel(l) # LinkAdd(m, x) /\ LinkDel(l) # MtuSet(m, x)
                  /\ LinkDel(l) # Flush(m) /\ LinkDel(l) # AddrAdd(m, x)
                  /\ LinkDel(l) # VlanDel(x) /\ LinkDel(l) # VlanAdd(x)
                  /\ LinkDel(l) # NftLoad(x)
  /\ \A l, m, x, y : LinkAdd(l, x) # MtuSet(m, y) /\ LinkAdd(l, x) # Flush(m)
                     /\ LinkAdd(l, x) # AddrAdd(m, y) /\ LinkAdd(l, x) # VlanDel(y)
                     /\ LinkAdd(l, x) # VlanAdd(y) /\ LinkAdd(l, x) # NftLoad(y)
  /\ \A l, m, x, y : MtuSet(l, x) # Flush(m) /\ MtuSet(l, x) # AddrAdd(m, y)
                     /\ MtuSet(l, x) # VlanDel(y) /\ MtuSet(l, x) # VlanAdd(y)
                     /\ MtuSet(l, x) # NftLoad(y)
  /\ \A l, m, y : Flush(l) # AddrAdd(m, y) /\ Flush(l) # VlanDel(y)
                  /\ Flush(l) # VlanAdd(y) /\ Flush(l) # NftLoad(y)
  /\ \A l, x, y : AddrAdd(l, x) # VlanDel(y) /\ AddrAdd(l, x) # VlanAdd(y)
                  /\ AddrAdd(l, x) # NftLoad(y)
  /\ \A x, y : VlanDel(x) # VlanAdd(y) /\ VlanDel(x) # NftLoad(y)
               /\ VlanAdd(x) # NftLoad(y)
BY DEF LinkAdd, LinkDel, MtuSet, Flush, AddrAdd, VlanDel, VlanAdd, NftLoad

LEMMA Same ==
  /\ \A l, m : LinkDel(l) = LinkDel(m) => l = m
  /\ \A l, m : Flush(l) = Flush(m) => l = m
  /\ \A l, m, x, y : LinkAdd(l, x) = LinkAdd(m, y) => l = m /\ x = y
  /\ \A l, m, x, y : MtuSet(l, x) = MtuSet(m, y) => l = m /\ x = y
  /\ \A l, m, x, y : AddrAdd(l, x) = AddrAdd(m, y) => l = m /\ x = y
  /\ \A x, y : VlanDel(x) = VlanDel(y) => x = y
  /\ \A x, y : VlanAdd(x) = VlanAdd(y) => x = y
  /\ \A x, y : NftLoad(x) = NftLoad(y) => x = y
BY DEF LinkAdd, LinkDel, MtuSet, Flush, AddrAdd, VlanDel, VlanAdd, NftLoad

----------------------------------------------------------------------------
(* The kernel's promises hold after every command it takes.                *)

Fits(s) ==
    /\ DOMAIN s.vlan \subseteq VName /\ s.vlan \in [DOMAIN s.vlan -> Name \X Vid]
    /\ Links(s) \subseteq Name /\ DOMAIN s.vlan = Links(s) \cap VName
    /\ s.mtu \in [Links(s) -> Mtu] /\ s.addr \in [Links(s) -> SUBSET Info]
    /\ s.bv \subseteq Triple /\ s.nft \in Nft

LEMMA Partial ==
  ASSUME NEW S, NEW T, NEW f
  PROVE  f \in PartialTo(S, T) <=> DOMAIN f \subseteq S /\ f \in [DOMAIN f -> T]
BY DEF PartialTo

LEMMA Fitting ==
  ASSUME NEW s, s \in Config \/ s \in Kernel, Sound(s)
  PROVE  Fits(s)
<1>1. /\ s.vlan \in PartialTo(VName, Name \X Vid)
      /\ s.mtu \in PartialTo(Name, Mtu) /\ s.addr \in PartialTo(Name, SUBSET Info)
      /\ s.bv \in SUBSET Triple /\ s.nft \in Nft
  BY DEF Config, Kernel
<1>2. DOMAIN s.vlan \subseteq VName /\ s.vlan \in [DOMAIN s.vlan -> Name \X Vid]
  BY <1>1, Partial
<1>3. s.mtu \in [DOMAIN s.mtu -> Mtu] /\ DOMAIN s.mtu \subseteq Name
  BY <1>1, Partial
<1>4. s.addr \in [DOMAIN s.addr -> SUBSET Info]
  BY <1>1, Partial
<1>5. DOMAIN s.addr = Links(s) /\ DOMAIN s.vlan = Links(s) \cap VName
  BY DEF Sound
<1>6. DOMAIN s.mtu = Links(s)
  BY DEF Links
<1> QED BY <1>1, <1>2, <1>3, <1>4, <1>5, <1>6 DEF Fits

(* A state with the fields of Fits is one the kernel can have.             *)
LEMMA FitsIsTyped ==
  ASSUME NEW s, Fits(s)
  PROVE  /\ s.vlan \in PartialTo(VName, Name \X Vid)
         /\ s.mtu \in PartialTo(Name, Mtu) /\ s.addr \in PartialTo(Name, SUBSET Info)
         /\ s.bv \in SUBSET Triple /\ s.nft \in Nft
<1>1. s.vlan \in PartialTo(VName, Name \X Vid)
  BY Partial DEF Fits
<1>2. DOMAIN s.mtu = Links(s) /\ DOMAIN s.addr = Links(s) /\ Links(s) \subseteq Name
  BY DEF Fits
<1>3. s.mtu \in PartialTo(Name, Mtu)
  BY <1>2, Partial DEF Fits
<1>4. s.addr \in PartialTo(Name, SUBSET Info)
  BY <1>2, Partial DEF Fits
<1> QED BY <1>1, <1>3, <1>4 DEF Fits

LEMMA CaptureOf ==
  ASSUME NEW s \in Kernel, Sound(s)
  PROVE  /\ Captured(s) \in Config /\ Sound(Captured(s))
         /\ Links(Captured(s)) = Links(s)
<1>1. Fits(s)
  BY Fitting
<1>2. /\ s.vlan \in PartialTo(VName, Name \X Vid)
      /\ s.mtu \in PartialTo(Name, Mtu) /\ s.addr \in PartialTo(Name, SUBSET Info)
      /\ s.bv \in SUBSET Triple /\ s.nft \in Nft
  BY <1>1, FitsIsTyped
<1>3. Captured(s) \in Config
  BY <1>2 DEF Captured, Config
<1>4. /\ Captured(s).vlan = s.vlan /\ Captured(s).mtu = s.mtu
      /\ Captured(s).addr = s.addr /\ Captured(s).bv = s.bv
  BY DEF Captured
<1>5. Sound(Captured(s)) /\ Links(Captured(s)) = Links(s)
  BY <1>4 DEF Sound, Links
<1> QED BY <1>3, <1>5

(* A VLAN link on l, or on one of those above l, is one of those above l.  *)
LEMMA UpperIsClosed ==
  ASSUME NEW s, NEW l, NEW y \in DOMAIN s.vlan, s.vlan[y][1] \in {l} \cup Upper(s, l)
  PROVE  y \in Upper(s, l)
<1>1. ASSUME NEW S \in SUBSET DOMAIN s.vlan, IsUpOn(s, l, S)
      PROVE  y \in S
  <2>1. Upper(s, l) \subseteq S
    BY <1>1 DEF Upper
  <2> QED BY <1>1, <2>1 DEF IsUpOn
<1> QED BY <1>1 DEF Upper

LEMMA UpperIsWithin ==
  ASSUME NEW s, NEW l, NEW S \in SUBSET DOMAIN s.vlan, IsUpOn(s, l, S)
  PROVE  Upper(s, l) \subseteq S
BY DEF Upper

LEMMA UpperAreLinks ==
  ASSUME NEW s, NEW l
  PROVE  Upper(s, l) \subseteq DOMAIN s.vlan
BY DEF Upper

(* A sound kernel from sound parts.                                        *)
LEMMA SoundParts ==
  ASSUME NEW r,
         DOMAIN r.addr = Links(r), DOMAIN r.vlan = Links(r) \cap VName,
         \A l \in DOMAIN r.vlan : r.vlan[l][1] \in Links(r) \ {l},
         \A l \in DOMAIN r.vlan : r.mtu[l] <= r.mtu[r.vlan[l][1]],
         \A l, m \in DOMAIN r.vlan : r.vlan[l] = r.vlan[m] => l = m,
         \A l \in Links(r) : AddrsSound(r.addr[l]),
         PortSound(r.bv), r.bv # {} => Port \in Links(r)
  PROVE  Sound(r)
BY DEF Sound

LEMMA PartsOfSound ==
  ASSUME NEW r, Sound(r)
  PROVE  /\ DOMAIN r.addr = Links(r) /\ DOMAIN r.vlan = Links(r) \cap VName
         /\ \A l \in DOMAIN r.vlan : /\ r.vlan[l][1] \in Links(r) /\ r.vlan[l][1] # l
                                     /\ r.mtu[l] <= r.mtu[r.vlan[l][1]]
         /\ \A l, m \in DOMAIN r.vlan : r.vlan[l] = r.vlan[m] => l = m
         /\ \A l \in Links(r) : AddrsSound(r.addr[l])
         /\ PortSound(r.bv) /\ (r.bv # {} => Port \in Links(r))
BY DEF Sound

(* What each command does, field by field.                                 *)
LEMMA LinkAddDoes ==
  ASSUME NEW s \in Kernel, Sound(s), NEW l \in VName, NEW x \in Name \X Vid,
         CanRun(LinkAdd(l, x), s), NEW r, r = Run(LinkAdd(l, x), s)
  PROVE  /\ r \in Kernel /\ Sound(r) /\ Links(r) = Links(s) \cup {l}
         /\ DOMAIN r.vlan = DOMAIN s.vlan \cup {l} /\ r.vlan[l] = x
         /\ \A m \in DOMAIN s.vlan : r.vlan[m] = s.vlan[m]
         /\ \A m \in Links(s) : r.mtu[m] = s.mtu[m] /\ r.addr[m] = s.addr[m]
         /\ r.addr[l] = {} /\ r.bv = s.bv /\ r.nft = s.nft
<1> DEFINE v == Extended(s.vlan, l, x)
           m == Extended(s.mtu, l, s.mtu[x[1]])
           a == Extended(s.addr, l, {})
<1>1. Fits(s) /\ l \in Name
  BY Fitting DEF Name
<1>2. l \notin Links(s) /\ x[1] \in Links(s) /\ \A y \in DOMAIN s.vlan : s.vlan[y] # x
  BY Takes
<1>3. /\ DOMAIN v = DOMAIN s.vlan \cup {l} /\ v[l] = x
      /\ \A y \in DOMAIN s.vlan : v[y] = s.vlan[y]
      /\ v \in [DOMAIN v -> Name \X Vid] /\ DOMAIN v \subseteq VName
  <2>1. s.vlan \in [DOMAIN s.vlan -> Name \X Vid] /\ DOMAIN s.vlan \subseteq VName
    BY <1>1 DEF Fits
  <2>2. l \notin DOMAIN s.vlan
    BY <1>1, <1>2 DEF Fits
  <2> QED BY <2>1, <2>2 DEF Extended
<1>4. s.mtu[x[1]] \in Mtu
  BY <1>1, <1>2 DEF Fits
<1>5. /\ DOMAIN m = Links(s) \cup {l} /\ m[l] = s.mtu[x[1]]
      /\ \A y \in Links(s) : m[y] = s.mtu[y]
      /\ m \in [Links(s) \cup {l} -> Mtu]
  <2>1. s.mtu \in [Links(s) -> Mtu]
    BY <1>1 DEF Fits
  <2> QED BY <2>1, <1>2, <1>4 DEF Extended
<1>6. /\ DOMAIN a = Links(s) \cup {l} /\ a[l] = {}
      /\ \A y \in Links(s) : a[y] = s.addr[y]
      /\ a \in [Links(s) \cup {l} -> SUBSET Info]
  <2>1. s.addr \in [Links(s) -> SUBSET Info] /\ {} \in SUBSET Info
    BY <1>1 DEF Fits
  <2> QED BY <2>1, <1>2 DEF Extended
<1>7. Links(s) \cup {l} \subseteq Name
  BY <1>1 DEF Fits
<1>8. v \in PartialTo(VName, Name \X Vid)
  BY <1>3, Partial
<1>9. m \in PartialTo(Name, Mtu)
  BY <1>5, <1>7, Partial
<1>10. a \in PartialTo(Name, SUBSET Info)
  BY <1>6, <1>7, Partial
<1>11. r = [s EXCEPT !.vlan = v, !.mtu = m, !.addr = a]
  BY DEF Run, LinkAdd
<1> HIDE DEF v, m, a
<1>12. /\ r \in Kernel /\ r.vlan = v /\ r.mtu = m /\ r.addr = a
       /\ r.bv = s.bv /\ r.nft = s.nft
  BY <1>8, <1>9, <1>10, <1>11 DEF Kernel
<1>13. Links(r) = Links(s) \cup {l}
  BY <1>12, <1>5 DEF Links
<1>14. ASSUME NEW y \in DOMAIN r.vlan
       PROVE  r.vlan[y][1] \in Links(r) \ {y} /\ r.mtu[y] <= r.mtu[r.vlan[y][1]]
  <2>1. CASE y = l
    <3>1. r.vlan[y] = x /\ r.mtu[y] = s.mtu[x[1]] /\ r.mtu[x[1]] = s.mtu[x[1]]
      BY <2>1, <1>12, <1>3, <1>2, <1>5
    <3>2. s.mtu[x[1]] \in Nat
      BY <1>4, RestorePlanAssumption
    <3> QED BY <3>1, <3>2, <2>1, <1>2, <1>13
  <2>2. CASE y # l
    <3>1. y \in DOMAIN s.vlan /\ y \in Links(s) /\ r.vlan[y] = s.vlan[y]
      BY <2>2, <1>12, <1>3, <1>1 DEF Fits
    <3>2. s.vlan[y][1] \in Links(s) \ {y} /\ s.mtu[y] <= s.mtu[s.vlan[y][1]]
      BY <3>1, PartsOfSound
    <3>3. r.mtu[y] = s.mtu[y] /\ r.mtu[s.vlan[y][1]] = s.mtu[s.vlan[y][1]]
      BY <3>1, <3>2, <1>5, <1>12
    <3> QED BY <3>1, <3>2, <3>3, <1>13
  <2> QED BY <2>1, <2>2
<1>15. \A y, z \in DOMAIN r.vlan : r.vlan[y] = r.vlan[z] => y = z
  BY <1>12, <1>3, <1>2, PartsOfSound
<1>16. DOMAIN r.addr = Links(r) /\ DOMAIN r.vlan = Links(r) \cap VName
  BY <1>12, <1>13, <1>1, <1>3, <1>6 DEF Fits
<1>17. \A y \in Links(r) : AddrsSound(r.addr[y])
  <2>1. \A y \in Links(s) : AddrsSound(r.addr[y])
    BY <1>12, <1>6, PartsOfSound
  <2>2. AddrsSound(r.addr[l])
    BY <1>12, <1>6 DEF AddrsSound
  <2> QED BY <2>1, <2>2, <1>13
<1>18. PortSound(r.bv) /\ (r.bv # {} => Port \in Links(r))
  BY <1>12, <1>13, PartsOfSound
<1>19. Sound(r)
  BY <1>14, <1>15, <1>16, <1>17, <1>18, SoundParts
<1> QED BY <1>12, <1>13, <1>19, <1>3, <1>5, <1>6

LEMMA LinkDelDoes ==
  ASSUME NEW s \in Kernel, Sound(s), NEW l \in Links(s),
         NEW r, r = Run(LinkDel(l), s)
  PROVE  LET gone == {l} \cup Upper(s, l) IN
         /\ r \in Kernel /\ Sound(r) /\ Links(r) = Links(s) \ gone
         /\ DOMAIN r.vlan = DOMAIN s.vlan \ gone
         /\ \A m \in DOMAIN r.vlan : r.vlan[m] = s.vlan[m]
         /\ \A m \in Links(r) : r.mtu[m] = s.mtu[m] /\ r.addr[m] = s.addr[m]
         /\ (l # Port => r.bv = s.bv) /\ r.nft = s.nft
<1> DEFINE gone == {l} \cup Upper(s, l)
           v == Without(s.vlan, gone)
           m == Without(s.mtu, gone)
           a == Without(s.addr, gone)
           b == IF l = Port THEN {} ELSE s.bv
           d == s.route /\ l \notin Phys
<1>0. gone \subseteq Links(s)
  BY UpperAreLinks, PartsOfSound
<1>1. Fits(s)
  BY Fitting
<1>2. r = [s EXCEPT !.vlan = v, !.mtu = m, !.addr = a, !.bv = b, !.route = d]
  BY DEF Run, LinkDel, Kernel
<1> SUFFICES /\ r \in Kernel /\ Sound(r) /\ Links(r) = Links(s) \ gone
             /\ DOMAIN r.vlan = DOMAIN s.vlan \ gone
             /\ \A y \in DOMAIN r.vlan : r.vlan[y] = s.vlan[y]
             /\ \A y \in Links(r) : r.mtu[y] = s.mtu[y] /\ r.addr[y] = s.addr[y]
             /\ (l # Port => r.bv = s.bv) /\ r.nft = s.nft
  OBVIOUS
<1>3. l \in gone /\ \A y \in DOMAIN s.vlan : s.vlan[y][1] \in gone => y \in gone
  BY UpperIsClosed
<1> HIDE DEF gone
<1>4. /\ DOMAIN v = DOMAIN s.vlan \ gone
      /\ \A y \in DOMAIN v : v[y] = s.vlan[y]
      /\ v \in [DOMAIN v -> Name \X Vid] /\ DOMAIN v \subseteq VName
  <2>1. s.vlan \in [DOMAIN s.vlan -> Name \X Vid] /\ DOMAIN s.vlan \subseteq VName
    BY <1>1 DEF Fits
  <2> QED BY <2>1 DEF Without
<1>5. /\ DOMAIN m = Links(s) \ gone /\ m \in [Links(s) \ gone -> Mtu]
      /\ \A y \in Links(s) \ gone : m[y] = s.mtu[y]
  <2>1. s.mtu \in [Links(s) -> Mtu]
    BY <1>1 DEF Fits
  <2> QED BY <2>1 DEF Without
<1>6. /\ DOMAIN a = Links(s) \ gone /\ a \in [Links(s) \ gone -> SUBSET Info]
      /\ \A y \in Links(s) \ gone : a[y] = s.addr[y]
  <2>1. s.addr \in [Links(s) -> SUBSET Info]
    BY <1>1 DEF Fits
  <2> QED BY <2>1 DEF Without
<1>7. Links(s) \ gone \subseteq Name /\ b \in SUBSET Triple
  BY <1>1 DEF Fits
<1>8. d \in BOOLEAN
  OBVIOUS
<1>9. v \in PartialTo(VName, Name \X Vid)
  BY <1>4, Partial
<1>10. m \in PartialTo(Name, Mtu)
  BY <1>5, <1>7, Partial
<1>11. a \in PartialTo(Name, SUBSET Info)
  BY <1>6, <1>7, Partial
<1>12. (l # Port => b = s.bv) /\ (l = Port => b = {}) /\ PortSound(b)
  BY PartsOfSound DEF PortSound
<1> HIDE DEF v, m, a, b, d
<1>13. /\ r \in Kernel /\ r.vlan = v /\ r.mtu = m /\ r.addr = a
       /\ r.bv = b /\ r.nft = s.nft
  BY <1>2, <1>7, <1>8, <1>9, <1>10, <1>11 DEF Kernel
<1>14. Links(r) = Links(s) \ gone
  BY <1>13, <1>5 DEF Links
<1>15. ASSUME NEW y \in DOMAIN r.vlan
       PROVE  r.vlan[y][1] \in Links(r) \ {y} /\ r.mtu[y] <= r.mtu[r.vlan[y][1]]
  <2>1. y \in DOMAIN s.vlan /\ y \notin gone /\ r.vlan[y] = s.vlan[y] /\ y \in Links(s)
    BY <1>13, <1>4, PartsOfSound
  <2>2. /\ s.vlan[y][1] \in Links(s) \ {y} /\ s.vlan[y][1] \notin gone
        /\ s.mtu[y] <= s.mtu[s.vlan[y][1]]
    BY <2>1, <1>3, PartsOfSound
  <2>3. r.mtu[y] = s.mtu[y] /\ r.mtu[s.vlan[y][1]] = s.mtu[s.vlan[y][1]]
    BY <2>1, <2>2, <1>5, <1>13
  <2> QED BY <2>1, <2>2, <2>3, <1>14
<1>16. \A y, z \in DOMAIN r.vlan : r.vlan[y] = r.vlan[z] => y = z
  BY <1>13, <1>4, PartsOfSound
<1>17. DOMAIN r.addr = Links(r) /\ DOMAIN r.vlan = Links(r) \cap VName
  <2>1. DOMAIN s.vlan = Links(s) \cap VName
    BY PartsOfSound
  <2> QED BY <2>1, <1>13, <1>14, <1>4, <1>6
<1>18. \A y \in Links(r) : AddrsSound(r.addr[y])
  BY <1>13, <1>14, <1>6, PartsOfSound
<1>19. r.bv # {} => Port \in Links(r)
  <2>1. ASSUME r.bv # {}
        PROVE  Port \in Links(s) /\ Port # l
    BY <2>1, <1>12, <1>13, PartsOfSound
  <2>2. Port \notin DOMAIN s.vlan
    BY <1>1, RestorePlanAssumption DEF Fits
  <2>3. Port # l => Port \notin gone
    BY <2>2, UpperAreLinks DEF gone
  <2> QED BY <2>1, <2>3, <1>14
<1>20. Sound(r)
  BY <1>12, <1>13, <1>15, <1>16, <1>17, <1>18, <1>19, SoundParts
<1> QED BY <1>12, <1>13, <1>14, <1>20, <1>4, <1>5, <1>6

LEMMA MtuSetDoes ==
  ASSUME NEW s \in Kernel, Sound(s), NEW l \in Links(s), NEW x \in Mtu,
         CanRun(MtuSet(l, x), s), NEW r, r = Run(MtuSet(l, x), s)
  PROVE  /\ r \in Kernel /\ Sound(r) /\ Links(r) = Links(s)
         /\ \A m \in Links(s) :
              r.mtu[m] = IF m \in {l} \cup Clamped(s, l, x) THEN x ELSE s.mtu[m]
         /\ r.vlan = s.vlan /\ r.addr = s.addr /\ r.bv = s.bv /\ r.nft = s.nft
<1> DEFINE m == [y \in Links(s) |-> IF y \in {l} \cup Clamped(s, l, x)
                                    THEN x ELSE s.mtu[y]]
<1>1. Fits(s)
  BY Fitting
<1>2. m \in [Links(s) -> Mtu] /\ DOMAIN m = Links(s)
  BY <1>1 DEF Fits
<1>3. Links(s) \subseteq Name
  BY <1>1 DEF Fits
<1>4. m \in PartialTo(Name, Mtu)
  BY <1>2, <1>3, Partial
<1>5. r = [s EXCEPT !.mtu = m]
  BY DEF Run, MtuSet, SetMtu
<1>6. \A y \in Links(s) : m[y] = IF y \in {l} \cup Clamped(s, l, x)
                                 THEN x ELSE s.mtu[y]
  OBVIOUS
<1> HIDE DEF m
<1>7. /\ r \in Kernel /\ r.mtu = m /\ r.vlan = s.vlan /\ r.addr = s.addr
      /\ r.bv = s.bv /\ r.nft = s.nft
  BY <1>4, <1>5 DEF Kernel
<1>8. Links(r) = Links(s)
  BY <1>7, <1>2 DEF Links
<1>9. ASSUME NEW y \in DOMAIN s.vlan
      PROVE  m[y] <= m[s.vlan[y][1]]
  <2> DEFINE p == s.vlan[y][1]
  <2>1. p \in Links(s) /\ y \in Links(s) /\ y # p /\ s.mtu[y] <= s.mtu[p]
    BY PartsOfSound
  <2>2. s.mtu[y] \in Nat /\ s.mtu[p] \in Nat /\ x \in Nat
    BY <2>1, <1>1, RestorePlanAssumption DEF Fits
  <2>3. y = l => x <= s.mtu[p]
    BY Takes
  <2>4. p \in {l} \cup Upper(s, l) => y \in Upper(s, l)
    BY UpperIsClosed
  <2> HIDE DEF p
  <2>5. /\ m[y] = IF y = l \/ (y \in Upper(s, l) /\ s.mtu[y] > x) THEN x ELSE s.mtu[y]
        /\ m[p] = IF p = l \/ (p \in Upper(s, l) /\ s.mtu[p] > x) THEN x ELSE s.mtu[p]
    BY <2>1, <1>6, UpperAreLinks DEF Clamped
  <2> QED BY <2>1, <2>2, <2>3, <2>4, <2>5 DEF p
<1>10. \A y \in DOMAIN r.vlan : r.vlan[y][1] \in Links(r) \ {y}
  BY <1>7, <1>8, PartsOfSound
<1>11. Sound(r)
  <2>1. \A y \in DOMAIN r.vlan : r.mtu[y] <= r.mtu[r.vlan[y][1]]
    BY <1>7, <1>9
  <2> QED BY <2>1, <1>7, <1>8, <1>10, PartsOfSound, SoundParts
<1> QED BY <1>7, <1>8, <1>11, <1>6

LEMMA FlushDoes ==
  ASSUME NEW s \in Kernel, Sound(s), NEW l \in Links(s), NEW r, r = Run(Flush(l), s)
  PROVE  /\ r \in Kernel /\ Sound(r) /\ Links(r) = Links(s)
         /\ r.addr[l] = {} /\ \A m \in Links(s) \ {l} : r.addr[m] = s.addr[m]
         /\ r.vlan = s.vlan /\ r.mtu = s.mtu /\ r.bv = s.bv /\ r.nft = s.nft
<1> DEFINE a == [s.addr EXCEPT ![l] = {}]
           b == s.route /\ (l \in Phys => s.addr[l] = {})
<1>1. Fits(s) /\ Links(s) \subseteq Name
  BY Fitting DEF Fits
<1>2. /\ DOMAIN a = Links(s) /\ a \in [Links(s) -> SUBSET Info]
      /\ a[l] = {} /\ \A m \in Links(s) \ {l} : a[m] = s.addr[m]
  BY <1>1 DEF Fits
<1>3. a \in PartialTo(Name, SUBSET Info)
  BY <1>1, <1>2, Partial
<1>4. b \in BOOLEAN
  OBVIOUS
<1>5. r = [s EXCEPT !.addr = a, !.route = b]
  BY DEF Run, Flush, Kernel
<1> HIDE DEF a, b
<1>6. /\ r \in Kernel /\ r.addr = a /\ r.vlan = s.vlan /\ r.mtu = s.mtu
      /\ r.bv = s.bv /\ r.nft = s.nft
  BY <1>3, <1>4, <1>5 DEF Kernel
<1>7. Links(r) = Links(s)
  BY <1>6 DEF Links
<1>8. \A m \in Links(r) : AddrsSound(r.addr[m])
  <2>1. AddrsSound(a[l])
    BY <1>2 DEF AddrsSound
  <2>2. \A m \in Links(s) \ {l} : AddrsSound(a[m])
    BY <1>2, PartsOfSound
  <2> QED BY <2>1, <2>2, <1>6, <1>7
<1>9. \A y \in DOMAIN r.vlan : /\ r.vlan[y][1] \in Links(r) \ {y}
                               /\ r.mtu[y] <= r.mtu[r.vlan[y][1]]
  BY <1>6, <1>7, PartsOfSound
<1>10. Sound(r)
  BY <1>6, <1>7, <1>8, <1>9, <1>2, PartsOfSound, SoundParts
<1> QED BY <1>6, <1>7, <1>10, <1>2

LEMMA AddrAddDoes ==
  ASSUME NEW s \in Kernel, Sound(s), NEW l \in Links(s), NEW x \in Addr,
         x \notin Bare(s.addr[l]), NEW r, r = Run(AddrAdd(l, x), s)
  PROVE  /\ r \in Kernel /\ Sound(r) /\ Links(r) = Links(s)
         /\ Bare(r.addr[l]) = Bare(s.addr[l]) \cup {x}
         /\ \A m \in Links(s) \ {l} : r.addr[m] = s.addr[m]
         /\ r.vlan = s.vlan /\ r.mtu = s.mtu /\ r.bv = s.bv /\ r.nft = s.nft
<1> DEFINE old == s.addr[l]
           q == (old # {})
           e == <<x, q>>
           a == [s.addr EXCEPT ![l] = old \cup {e}]
<1>1. Fits(s) /\ Links(s) \subseteq Name /\ old \in SUBSET Info
  BY Fitting DEF Fits
<1>2. e \in Info /\ e[1] = x /\ (e[2] <=> old # {})
  <2>1. q \in BOOLEAN
    OBVIOUS
  <2> QED BY <2>1 DEF Info
<1>3. /\ DOMAIN a = Links(s) /\ a \in [Links(s) -> SUBSET Info]
      /\ a[l] = old \cup {e} /\ \A m \in Links(s) \ {l} : a[m] = s.addr[m]
  BY <1>1, <1>2 DEF Fits
<1>4. a \in PartialTo(Name, SUBSET Info)
  BY <1>1, <1>3, Partial
<1>5. r = [s EXCEPT !.addr = a]
  BY DEF Run, AddrAdd, Kernel
<1>6. x \notin Bare(old) /\ AddrsSound(old)
  BY PartsOfSound
<1>7. Bare(old) = Bare(s.addr[l])
  OBVIOUS
<1> HIDE DEF a, e, q, old
<1>8. /\ r \in Kernel /\ r.addr = a /\ r.vlan = s.vlan /\ r.mtu = s.mtu
      /\ r.bv = s.bv /\ r.nft = s.nft
  BY <1>4, <1>5 DEF Kernel
<1>9. Links(r) = Links(s)
  BY <1>8 DEF Links
<1>10. AddrsSound(old \cup {e})
  <2>1. ASSUME NEW f \in old
        PROVE  f[1] # e[1] /\ e[2]
    BY <2>1, <1>2, <1>6 DEF Bare
  <2>2. \A f, g \in old : f[1] = g[1] \/ ~ (f[2] \/ g[2]) => f = g
    BY <1>6 DEF AddrsSound
  <2>3. \E f \in old \cup {e} : ~ f[2]
    BY <1>2, <1>6 DEF AddrsSound
  <2> QED BY <2>1, <2>2, <2>3 DEF AddrsSound
<1>11. \A m \in Links(r) : AddrsSound(r.addr[m])
  BY <1>3, <1>8, <1>9, <1>10, PartsOfSound
<1>12. \A y \in DOMAIN r.vlan : /\ r.vlan[y][1] \in Links(r) \ {y}
                                /\ r.mtu[y] <= r.mtu[r.vlan[y][1]]
  BY <1>8, <1>9, PartsOfSound
<1>13. Sound(r)
  BY <1>8, <1>9, <1>11, <1>12, <1>3, PartsOfSound, SoundParts
<1>14. Bare(old \cup {e}) = Bare(old) \cup {x}
  BY <1>2 DEF Bare
<1> QED BY <1>3, <1>7, <1>8, <1>9, <1>13, <1>14

LEMMA VlanDelDoes ==
  ASSUME NEW s \in Kernel, Sound(s), NEW x \in Triple, NEW r, r = Run(VlanDel(x), s)
  PROVE  /\ r \in Kernel /\ Sound(r) /\ Links(r) = Links(s)
         /\ r.bv = {t \in s.bv : t[1] # x[1]}
         /\ r.vlan = s.vlan /\ r.mtu = s.mtu /\ r.addr = s.addr /\ r.nft = s.nft
<1> DEFINE b == {t \in s.bv : t[1] # x[1]}
<1>1. b \subseteq s.bv /\ b \subseteq Triple
  BY DEF Kernel
<1>2. r = [s EXCEPT !.bv = b]
  BY DEF Run, VlanDel
<1> SUFFICES r \in Kernel /\ Sound(r) /\ Links(r) = Links(s) /\ r.bv = b
             /\ r.vlan = s.vlan /\ r.mtu = s.mtu /\ r.addr = s.addr /\ r.nft = s.nft
  OBVIOUS
<1> HIDE DEF b
<1>3. /\ r \in Kernel /\ r.bv = b /\ r.vlan = s.vlan /\ r.mtu = s.mtu
      /\ r.addr = s.addr /\ r.nft = s.nft
  BY <1>1, <1>2 DEF Kernel
<1>4. Links(r) = Links(s)
  BY <1>3 DEF Links
<1>5. PortSound(r.bv) /\ (r.bv # {} => Port \in Links(r))
  BY <1>1, <1>3, <1>4, PartsOfSound DEF PortSound
<1>6. \A y \in DOMAIN r.vlan : /\ r.vlan[y][1] \in Links(r) \ {y}
                               /\ r.mtu[y] <= r.mtu[r.vlan[y][1]]
  BY <1>3, <1>4, PartsOfSound
<1>7. Sound(r)
  BY <1>3, <1>4, <1>5, <1>6, PartsOfSound, SoundParts
<1> QED BY <1>3, <1>4, <1>7

LEMMA VlanAddDoes ==
  ASSUME NEW s \in Kernel, Sound(s), NEW x \in Triple, Port \in Links(s),
         NEW r, r = Run(VlanAdd(x), s)
  PROVE  /\ r \in Kernel /\ Sound(r) /\ Links(r) = Links(s)
         /\ r.bv = {x} \cup {IF x[2] THEN Demoted(t) ELSE t :
                               t \in {u \in s.bv : u[1] # x[1]}}
         /\ r.vlan = s.vlan /\ r.mtu = s.mtu /\ r.addr = s.addr /\ r.nft = s.nft
<1> DEFINE e(t) == IF x[2] THEN Demoted(t) ELSE t
           b == {x} \cup {e(t) : t \in {u \in s.bv : u[1] # x[1]}}
<1>1. s.bv \subseteq Triple
  BY DEF Kernel
<1>2. \A t \in Triple : Demoted(t) \in Triple /\ Demoted(t)[1] = t[1] /\ Demoted(t)[2] = FALSE
  BY DEF Triple, Demoted
<1>3. \A t \in Triple : e(t) \in Triple /\ e(t)[1] = t[1] /\ (x[2] => ~ e(t)[2])
                        /\ (~ x[2] => e(t) = t)
  BY <1>2
<1>4. \A y \in b : y = x \/ \E t \in s.bv : t[1] # x[1] /\ y = e(t)
  OBVIOUS
<1>5. r = [s EXCEPT !.bv = b]
  BY DEF Run, VlanAdd
<1> SUFFICES r \in Kernel /\ Sound(r) /\ Links(r) = Links(s) /\ r.bv = b
             /\ r.vlan = s.vlan /\ r.mtu = s.mtu /\ r.addr = s.addr /\ r.nft = s.nft
  OBVIOUS
<1> HIDE DEF b, e
<1>6. b \subseteq Triple
  BY <1>1, <1>3, <1>4
<1>7. /\ r \in Kernel /\ r.bv = b /\ r.vlan = s.vlan /\ r.mtu = s.mtu
      /\ r.addr = s.addr /\ r.nft = s.nft
  BY <1>6, <1>5 DEF Kernel
<1>8. Links(r) = Links(s) /\ PortSound(s.bv)
  BY <1>7, PartsOfSound DEF Links
<1>9. ASSUME NEW y \in b, NEW z \in b, y[1] = z[1] \/ (y[2] /\ z[2])
      PROVE  y = z
  <2>1. CASE y = x /\ z = x
    BY <2>1
  <2>2. CASE y = x /\ z # x
    <3>1. PICK t \in s.bv : t[1] # x[1] /\ z = e(t)
      BY <2>2, <1>4
    <3>2. z[1] # x[1] /\ (x[2] => ~ z[2])
      BY <3>1, <1>1, <1>3
    <3> QED BY <3>2, <2>2, <1>9
  <2>3. CASE y # x /\ z = x
    <3>1. PICK t \in s.bv : t[1] # x[1] /\ y = e(t)
      BY <2>3, <1>4
    <3>2. y[1] # x[1] /\ (x[2] => ~ y[2])
      BY <3>1, <1>1, <1>3
    <3> QED BY <3>2, <2>3, <1>9
  <2>4. CASE y # x /\ z # x
    <3>1. PICK t \in s.bv : t[1] # x[1] /\ y = e(t)
      BY <2>4, <1>4
    <3>2. PICK u \in s.bv : u[1] # x[1] /\ z = e(u)
      BY <2>4, <1>4
    <3>3. y[1] = t[1] /\ z[1] = u[1] /\ (x[2] => ~ y[2]) /\ (~ x[2] => y = t /\ z = u)
      BY <3>1, <3>2, <1>1, <1>3
    <3>4. t[1] = u[1] \/ (t[2] /\ u[2])
      BY <3>3, <1>9
    <3>5. t = u
      BY <3>4, <1>8 DEF PortSound
    <3> QED BY <3>1, <3>2, <3>5
  <2> QED BY <2>1, <2>2, <2>3, <2>4
<1>10. PortSound(r.bv)
  BY <1>7, <1>9 DEF PortSound
<1>11. \A y \in DOMAIN r.vlan : /\ r.vlan[y][1] \in Links(r) \ {y}
                                /\ r.mtu[y] <= r.mtu[r.vlan[y][1]]
  BY <1>7, <1>8, PartsOfSound
<1>12. Sound(r)
  BY <1>7, <1>8, <1>10, <1>11, PartsOfSound, SoundParts
<1> QED BY <1>7, <1>8, <1>12

LEMMA NftLoadDoes ==
  ASSUME NEW s \in Kernel, Sound(s), NEW x \in Nft, NEW r, r = Run(NftLoad(x), s)
  PROVE  /\ r \in Kernel /\ Sound(r) /\ Links(r) = Links(s) /\ r.nft = x
         /\ r.vlan = s.vlan /\ r.mtu = s.mtu /\ r.addr = s.addr /\ r.bv = s.bv
<1>1. r = [s EXCEPT !.nft = x]
  BY DEF Run, NftLoad
<1>2. /\ r \in Kernel /\ r.nft = x /\ r.vlan = s.vlan /\ r.mtu = s.mtu
      /\ r.addr = s.addr /\ r.bv = s.bv
  BY <1>1 DEF Kernel
<1>3. Sound(r) /\ Links(r) = Links(s)
  BY <1>2 DEF Sound, Links
<1> QED BY <1>2, <1>3

(* Together: a command the kernel takes leaves a state it can be in, and   *)
(* no physical link that was not there.                                    *)
LEMMA RunIsSound ==
  ASSUME NEW s \in Kernel, Sound(s), NEW c \in Command, CanRun(c, s)
  PROVE  /\ Run(c, s) \in Kernel /\ Sound(Run(c, s))
         /\ Links(Run(c, s)) \cap Phys \subseteq Links(s)
<1> DEFINE Good == /\ Run(c, s) \in Kernel /\ Sound(Run(c, s))
                   /\ Links(Run(c, s)) \cap Phys \subseteq Links(s)
<1>1. ASSUME NEW l \in VName, NEW p \in Name, NEW v \in Vid, c = LinkAdd(l, <<p, v>>)
      PROVE  Good
  <2>1. <<p, v>> \in Name \X Vid /\ l \notin Phys
    BY RestorePlanAssumption
  <2>2. /\ Run(c, s) \in Kernel /\ Sound(Run(c, s))
        /\ Links(Run(c, s)) = Links(s) \cup {l}
    BY <1>1, <2>1, LinkAddDoes
  <2> QED BY <2>1, <2>2
<1>2. ASSUME NEW l \in Name, c = LinkDel(l)
      PROVE  Good
  BY <1>2, Takes, LinkDelDoes
<1>3. ASSUME NEW l \in Name, NEW m \in Mtu, c = MtuSet(l, m)
      PROVE  Good
  BY <1>3, Takes, MtuSetDoes
<1>4. ASSUME NEW l \in Name, c = Flush(l)
      PROVE  Good
  BY <1>4, Takes, FlushDoes
<1>5. ASSUME NEW l \in Name, NEW a \in Addr, c = AddrAdd(l, a)
      PROVE  Good
  BY <1>5, Takes, AddrAddDoes
<1>6. ASSUME NEW t \in Triple, c = VlanDel(t) \/ c = VlanAdd(t)
      PROVE  Good
  BY <1>6, Takes, VlanDelDoes, VlanAddDoes
<1>7. ASSUME NEW n \in Nft, c = NftLoad(n)
      PROVE  Good
  BY <1>7, NftLoadDoes
<1> HIDE DEF Good
<1>8. Good
  BY <1>1, <1>2, <1>3, <1>4, <1>5, <1>6, <1>7, EachKind
<1> QED BY <1>8 DEF Good

----------------------------------------------------------------------------
(* What is in a plan.                                                      *)

LEMMA InPlan ==
  ASSUME NEW cur, NEW tgt
  PROVE  /\ \A l : LinkDel(l) \in Plan(cur, tgt) <=> l \in Stale(cur, tgt)
         /\ \A l, x : LinkAdd(l, x) \in Plan(cur, tgt) <=>
                         l \in Recreated(cur, tgt) /\ x = tgt.vlan[l]
         /\ \A l, x : MtuSet(l, x) \in Plan(cur, tgt) <=>
                         l \in Resized(cur, tgt) /\ x = tgt.mtu[l]
         /\ \A l : Flush(l) \in Plan(cur, tgt) <=>
                         l \in Readdressed(cur, tgt) /\ Have(cur, tgt, l) # {}
         /\ \A l, x : AddrAdd(l, x) \in Plan(cur, tgt) <=>
                         l \in Readdressed(cur, tgt) /\ x \in AddrsOf(tgt, l)
         /\ \A x : VlanDel(x) \in Plan(cur, tgt) <=> x \in cur.bv \ tgt.bv
         /\ \A x : VlanAdd(x) \in Plan(cur, tgt) <=> x \in tgt.bv \ cur.bv
         /\ \A x : NftLoad(x) \in Plan(cur, tgt) <=> cur.nft # tgt.nft /\ x = tgt.nft
<1> USE Distinct, Same
        DEF Plan, VlanPlan, MtuPlan, AddrPlan, BridgePlan, NftPlan
<1>1. \A l : LinkDel(l) \in Plan(cur, tgt) <=> l \in Stale(cur, tgt)
  OBVIOUS
<1>2. \A l, x : LinkAdd(l, x) \in Plan(cur, tgt) <=>
                   l \in Recreated(cur, tgt) /\ x = tgt.vlan[l]
  OBVIOUS
<1>3. \A l, x : MtuSet(l, x) \in Plan(cur, tgt) <=>
                   l \in Resized(cur, tgt) /\ x = tgt.mtu[l]
  OBVIOUS
<1>4. \A l : Flush(l) \in Plan(cur, tgt) <=>
                   l \in Readdressed(cur, tgt) /\ Have(cur, tgt, l) # {}
  OBVIOUS
<1>5. \A l, x : AddrAdd(l, x) \in Plan(cur, tgt) <=>
                   l \in Readdressed(cur, tgt) /\ x \in AddrsOf(tgt, l)
  OBVIOUS
<1>6. \A x : VlanDel(x) \in Plan(cur, tgt) <=> x \in cur.bv \ tgt.bv
  OBVIOUS
<1>7. \A x : VlanAdd(x) \in Plan(cur, tgt) <=> x \in tgt.bv \ cur.bv
  OBVIOUS
<1>8. \A x : NftLoad(x) \in Plan(cur, tgt) <=> cur.nft # tgt.nft /\ x = tgt.nft
  OBVIOUS
<1> HIDE Distinct, Same
         DEF Plan, VlanPlan, MtuPlan, AddrPlan, BridgePlan, NftPlan
<1> QED BY <1>1, <1>2, <1>3, <1>4, <1>5, <1>6, <1>7, <1>8

LEMMA PlanIsCommands ==
  ASSUME NEW cur, cur \in Config, Sound(cur), NEW tgt, tgt \in Config, Sound(tgt)
  PROVE  Plan(cur, tgt) \subseteq Command
<1>1. Fits(cur) /\ Fits(tgt)
  BY Fitting
<1>2. VlanPlan(cur, tgt) \subseteq Command
  <2>1. \A l \in Stale(cur, tgt) : LinkDel(l) \in Command
    BY <1>1 DEF Stale, Fits, Command, Name
  <2>2. \A l \in Recreated(cur, tgt) : LinkAdd(l, tgt.vlan[l]) \in Command
    <3> SUFFICES ASSUME NEW l \in Recreated(cur, tgt)
                 PROVE  LinkAdd(l, tgt.vlan[l]) \in Command
      OBVIOUS
    <3>1. l \in VName /\ tgt.vlan[l] \in Name \X Vid
      BY <1>1 DEF Recreated, Fits
    <3>2. PICK p \in Name, v \in Vid : tgt.vlan[l] = <<p, v>>
      BY <3>1
    <3> QED BY <3>1, <3>2 DEF Command
  <2> QED BY <2>1, <2>2 DEF VlanPlan
<1>3. MtuPlan(cur, tgt) \subseteq Command
  <2>1. \A l \in DOMAIN tgt.mtu : l \in Name /\ tgt.mtu[l] \in Mtu
    BY <1>1 DEF Fits, Links
  <2>2. \A l \in Resized(cur, tgt) : MtuSet(l, tgt.mtu[l]) \in Command
    BY <2>1 DEF Resized, Command
  <2> QED BY <2>2 DEF MtuPlan
<1>4. AddrPlan(cur, tgt) \subseteq Command
  <2>1. \A l : l \in DOMAIN cur.addr \cup DOMAIN tgt.addr => l \in Name
    BY <1>1 DEF Fits
  <2>2. \A l : AddrsOf(tgt, l) \subseteq Addr
    <3>1. \A l \in Links(tgt) : tgt.addr[l] \subseteq Info /\ DOMAIN tgt.addr = Links(tgt)
      BY <1>1 DEF Fits
    <3>2. \A e \in Info : e[1] \in Addr
      BY DEF Info
    <3> QED BY <1>1, <3>1, <3>2 DEF Fits, AddrsOf, Bare
  <2>3. \A l \in Readdressed(cur, tgt) : Flush(l) \in Command
    BY <2>1 DEF Readdressed, Command
  <2>4. \A l \in Readdressed(cur, tgt) : \A a \in AddrsOf(tgt, l) : AddrAdd(l, a) \in Command
    BY <2>1, <2>2 DEF Readdressed, Command
  <2> QED BY <2>3, <2>4 DEF AddrPlan
<1>5. BridgePlan(cur, tgt) \subseteq Command
  BY <1>1 DEF Fits, BridgePlan, Command
<1>6. NftPlan(cur, tgt) \subseteq Command
  BY <1>1 DEF Fits, NftPlan, Command
<1> QED BY <1>2, <1>3, <1>4, <1>5, <1>6 DEF Plan

----------------------------------------------------------------------------
(* Types: whatever is run, by an op or by a restore, leaves states a       *)
(* kernel can be in.                                                       *)

LEMMA RanIsSound ==
  ASSUME NEW s \in Kernel, Sound(s), NEW c \in Command
  PROVE  /\ Ran(c, s) \in Kernel /\ Sound(Ran(c, s))
         /\ Links(Ran(c, s)) \cap Phys \subseteq Links(s)
BY RunIsSound DEF Ran

LEMMA RanBothIsSound ==
  ASSUME NEW s \in Kernel, Sound(s), NEW c \in Command, NEW d \in Command
  PROVE  /\ RanBoth(c, d, s) \in Kernel /\ Sound(RanBoth(c, d, s))
         /\ Links(RanBoth(c, d, s)) \cap Phys \subseteq Links(s)
<1>1. CASE CanRun(c, s)
  <2>1. /\ Run(c, s) \in Kernel /\ Sound(Run(c, s))
        /\ Links(Run(c, s)) \cap Phys \subseteq Links(s)
    BY <1>1, RunIsSound
  <2>2. /\ Ran(d, Run(c, s)) \in Kernel /\ Sound(Ran(d, Run(c, s)))
        /\ Links(Ran(d, Run(c, s))) \cap Phys \subseteq Links(Run(c, s))
    BY <2>1, RanIsSound
  <2>3. RanBoth(c, d, s) = Ran(d, Run(c, s))
    BY <1>1 DEF RanBoth
  <2> QED BY <2>1, <2>2, <2>3
<1>2. CASE ~ CanRun(c, s)
  BY <1>2 DEF RanBoth
<1> QED BY <1>1, <1>2

LEMMA OpIsSound ==
  ASSUME k \in Kernel, Sound(k), Op
  PROVE  k' \in Kernel /\ Sound(k') /\ Links(k') \cap Phys \subseteq Links(k)
<1>1. Fits(k) /\ Links(k) \subseteq Name
  BY Fitting DEF Fits
<1>2. \A l \in Links(k), m \in Mtu : MtuSet(l, m) \in Command
  BY <1>1 DEF Command
<1>3. \A l \in Links(k), a \in Addr : AddrAdd(l, a) \in Command /\ Flush(l) \in Command
  BY <1>1 DEF Command
<1>4. \A l \in VName, p \in Links(k), v \in Vid : LinkAdd(l, <<p, v>>) \in Command
  BY <1>1 DEF Command
<1>5. \A l \in Links(k) : LinkDel(l) \in Command
  BY <1>1 DEF Command
<1>6. \A t \in Triple : VlanAdd(t) \in Command /\ VlanDel(t) \in Command
  BY DEF Command
<1>7. \A n \in Nft : NftLoad(n) \in Command
  BY DEF Command
<1>8. \/ \E c \in Command : k' = Ran(c, k)
      \/ \E c, d \in Command : k' = RanBoth(c, d, k)
  <2>1. \A t \in k.bv : t \in Triple
    BY <1>1 DEF Fits
  <2> QED BY <1>2, <1>3, <1>4, <1>5, <1>6, <1>7, <2>1 DEF Op, Apply
<1> QED BY <1>8, RanIsSound, RanBothIsSound

LEMMA TopIsMtu == Top \in Mtu /\ \A x \in Mtu : x <= Top
BY RestorePlanAssumption DEF Top

LEMMA InitTypes == Init => TypeOK
<1> SUFFICES ASSUME Init PROVE TypeOK
  OBVIOUS
<1>0. PICK a \in {{}} \cup {{<<x, FALSE>>} : x \in Addr}, n \in Nft :
         k = [vlan |-> [l \in {} |-> NIL], mtu |-> [l \in Phys |-> Top],
              addr |-> [l \in Phys |-> a], bv |-> {}, nft |-> n, route |-> a # {}]
  BY DEF Init
<1>1. a \in SUBSET Info /\ AddrsSound(a)
  <2>1. CASE a = {}
    BY <2>1 DEF AddrsSound
  <2>2. CASE a # {}
    <3>1. PICK x \in Addr : a = {<<x, FALSE>>}
      BY <2>2
    <3>2. <<x, FALSE>> \in Info /\ <<x, FALSE>>[2] = FALSE
      BY DEF Info
    <3> QED BY <3>1, <3>2 DEF AddrsSound
  <2> QED BY <2>1, <2>2
<1> DEFINE v == [l \in {} |-> NIL]
           m == [l \in Phys |-> Top]
           d == [l \in Phys |-> a]
           b == (a # {})
<1>2. DOMAIN v = {} /\ v \in PartialTo(VName, Name \X Vid)
  BY Partial
<1>3. DOMAIN m = Phys /\ m \in PartialTo(Name, Mtu)
  BY Partial, TopIsMtu DEF Name
<1>4. /\ DOMAIN d = Phys /\ d \in PartialTo(Name, SUBSET Info)
      /\ \A l \in Phys : d[l] = a
  BY <1>1, Partial DEF Name
<1>5. b \in BOOLEAN
  OBVIOUS
<1>6. k = [vlan |-> v, mtu |-> m, addr |-> d, bv |-> {}, nft |-> n, route |-> b]
  BY <1>0
<1> HIDE DEF v, m, d, b
<1>7. /\ k \in Kernel /\ k.vlan = v /\ k.mtu = m /\ k.addr = d /\ k.bv = {}
  BY <1>2, <1>3, <1>4, <1>5, <1>6 DEF Kernel
<1>8. Sound(k)
  <2>1. Links(k) = Phys
    BY <1>7, <1>3 DEF Links
  <2>2. DOMAIN k.addr = Links(k) /\ DOMAIN k.vlan = Links(k) \cap VName
    BY <1>7, <1>2, <1>4, <2>1, RestorePlanAssumption
  <2>3. \A l \in Links(k) : AddrsSound(k.addr[l])
    BY <1>1, <1>4, <1>7, <2>1
  <2>4. PortSound(k.bv) /\ k.bv = {} /\ DOMAIN k.vlan = {}
    BY <1>2, <1>7 DEF PortSound
  <2> QED BY <2>2, <2>3, <2>4 DEF Sound
<1>9. snap = NIL /\ plan = {} /\ phase = "drift" /\ ops = 0 /\ tries = 0
  BY DEF Init
<1> QED BY <1>7, <1>8, <1>9, RestorePlanAssumption DEF TypeOK

LEMMA NextTypes ==
  ASSUME TypeOK, [Next]_vars
  PROVE  TypeOK'
<1> USE DEF TypeOK
<1>1. CASE Op
  <2>1. k' \in Kernel /\ Sound(k')
    BY <1>1, OpIsSound
  <2>2. /\ ops < MaxOps /\ ops' = ops + 1
        /\ UNCHANGED <<snap, routed, start, plan, phase, tries>>
    BY <1>1 DEF Op, Apply
  <2>3. ops' \in 0..MaxOps
    BY <2>2, RestorePlanAssumption
  <2>4. snap' # NIL => snap' \in Config /\ Sound(snap')
    BY <2>2
  <2>5. Sound(k)'
    BY <2>1 DEF Sound, Links
  <2>6. (snap # NIL => snap \in Config /\ Sound(snap))'
    BY <2>2 DEF Sound, Links
  <2> QED BY <2>1, <2>2, <2>3, <2>5, <2>6
<1>2. CASE TakeSnapshot
  <2>1. Captured(k) \in Config /\ Sound(Captured(k))
    BY CaptureOf
  <2> QED BY <1>2, <2>1, RestorePlanAssumption DEF TakeSnapshot, Sound, Links
<1>3. CASE Rollback
  <2>1. Captured(k) \in Config /\ Sound(Captured(k))
    BY CaptureOf
  <2>2. Plan(Captured(k), snap) \subseteq Command
    BY <1>3, <2>1, PlanIsCommands DEF Rollback
  <2>3. tries' \in 0..MaxTries
    BY <1>3, RestorePlanAssumption DEF Rollback
  <2> QED BY <1>3, <2>2, <2>3 DEF Rollback, Sound, Links
<1>4. CASE RunCommand
  <2>1. PICK c \in Due : CanRun(c, k) /\ k' = Run(c, k) /\ plan' = plan \ {c}
    BY <1>4 DEF RunCommand
  <2>2. c \in Command
    BY <2>1 DEF Due
  <2>3. k' \in Kernel /\ Sound(Run(c, k))
    BY <2>1, <2>2, RunIsSound
  <2>4. Sound(k)'
    BY <2>1, <2>3 DEF Sound, Links
  <2> QED BY <1>4, <2>1, <2>3, <2>4 DEF RunCommand, Sound, Links
<1>5. CASE CommandFails
  BY <1>5 DEF CommandFails, Sound, Links
<1>6. CASE Restored
  BY <1>6 DEF Restored, Sound, Links
<1>7. CASE UNCHANGED vars
  BY <1>7 DEF vars, Sound, Links
<1> QED BY <1>1, <1>2, <1>3, <1>4, <1>5, <1>6, <1>7 DEF Next

(* Whatever the ops and the commands of a restore do, the node is in a     *)
(* state the kernel can be in: an MTU within its parent's, one primary     *)
(* address at a link, one entry for a VLAN and one PVID at a port          *)
(* (apply_ops, restore).                                                   *)
THEOREM TypeCorrect == Spec => []TypeOK
<1>1. Init => TypeOK
  BY InitTypes
<1>2. TypeOK /\ [Next]_vars => TypeOK'
  BY NextTypes
<1> QED BY <1>1, <1>2, PTL DEF Spec

----------------------------------------------------------------------------
(* A restore under way.                                                    *)

IsDue(c, todo) == c \in todo /\ \A d \in todo : ~ Before(d, c)

LEMMA UnderWayFits ==
  ASSUME NEW s, NEW cur, NEW tgt, NEW todo, UnderWay(s, cur, tgt, todo)
  PROVE  Fits(s) /\ Fits(cur) /\ Fits(tgt)
BY Fitting DEF UnderWay

(* A link is a physical one or has a parent and an id.                     *)
LEMMA LinksAre ==
  ASSUME NEW s, Fits(s)
  PROVE  Links(s) = (Links(s) \cap Phys) \cup DOMAIN s.vlan /\ DOMAIN s.vlan \cap Phys = {}
BY RestorePlanAssumption DEF Fits, Name

(* A link the snapshot has, whose addition is not to come and which is not *)
(* a physical one that is missing, is there.                               *)
LEMMA StandingAreThere ==
  ASSUME NEW s, NEW cur, NEW tgt, NEW todo, UnderWay(s, cur, tgt, todo)
  PROVE  Standing(cur, tgt, todo) \subseteq Links(s)
<1> SUFFICES ASSUME NEW l \in Standing(cur, tgt, todo)
             PROVE  l \in Links(s)
  OBVIOUS
<1>1. Fits(s) /\ Fits(tgt)
  BY UnderWayFits
<1>2. CASE l \in Phys
  BY <1>2 DEF Standing, UnderWay, SoFar, PhysSoFar
<1>3. CASE l \notin Phys
  <2>1. l \in DOMAIN tgt.vlan
    BY <1>1, <1>3, LinksAre DEF Standing
  <2>2. CASE l \in Recreated(cur, tgt)
    <3>1. l \in Added(cur, tgt, todo)
      BY <2>2 DEF Standing, Added
    <3> QED BY <3>1, <1>1, LinksAre DEF UnderWay, SoFar, VlanSoFar
  <2>3. CASE l \notin Recreated(cur, tgt)
    <3>1. l \in DOMAIN cur.vlan /\ l \notin Stale(cur, tgt)
      BY <2>1, <2>3 DEF Recreated, Stale
    <3>2. l \in Kept(cur, tgt, todo)
      BY <3>1 DEF Kept
    <3> QED BY <3>2, <1>1, LinksAre DEF UnderWay, SoFar, VlanSoFar
  <2> QED BY <2>2, <2>3
<1> QED BY <1>2, <1>3

(* When no link is to be deleted or added any more, the VLAN links are as  *)
(* they were, and nothing is there that was not.                           *)
LEMMA LinksAreBack ==
  ASSUME NEW s, NEW cur, NEW tgt, NEW todo, UnderWay(s, cur, tgt, todo),
         \A l : LinkDel(l) \notin todo, \A l, x : LinkAdd(l, x) \notin todo
  PROVE  /\ s.vlan = tgt.vlan /\ Links(s) \subseteq Links(tgt)
         /\ Standing(cur, tgt, todo) = Links(s)
<1>1. Fits(s) /\ Fits(tgt)
  BY UnderWayFits
<1>2. Added(cur, tgt, todo) = Recreated(cur, tgt)
  BY DEF Added
<1>3. Kept(cur, tgt, todo) = DOMAIN cur.vlan \ Stale(cur, tgt)
  BY DEF Kept
<1>4. VlanSoFar(s, cur, tgt, todo) /\ PhysSoFar(s, cur, tgt, todo)
  BY DEF UnderWay, SoFar
<1>5. DOMAIN s.vlan = DOMAIN tgt.vlan
  BY <1>2, <1>3, <1>4 DEF VlanSoFar, Recreated, Stale
<1>6. \A l \in DOMAIN tgt.vlan : s.vlan[l] = tgt.vlan[l]
  BY <1>2, <1>3, <1>4, <1>5 DEF VlanSoFar, Recreated, Stale
<1>7. s.vlan = tgt.vlan
  <2>1. /\ s.vlan \in [DOMAIN tgt.vlan -> Name \X Vid]
        /\ tgt.vlan \in [DOMAIN tgt.vlan -> Name \X Vid]
    BY <1>1, <1>5 DEF Fits
  <2> QED BY <2>1, <1>6
<1>8. Links(s) \subseteq Links(tgt)
  BY <1>1, <1>4, <1>7, LinksAre DEF PhysSoFar
<1>9. Standing(cur, tgt, todo) = Links(s)
  <2>1. Standing(cur, tgt, todo) \subseteq Links(s)
    BY StandingAreThere
  <2>2. Links(s) \subseteq Standing(cur, tgt, todo)
    BY <1>4, <1>8 DEF Standing, PhysSoFar
  <2> QED BY <2>1, <2>2
<1> QED BY <1>7, <1>8, <1>9

(* Past the MTUs, all links are there.                                     *)
LEMMA AllAreBack ==
  ASSUME NEW s, NEW cur, NEW tgt, NEW todo, UnderWay(s, cur, tgt, todo),
         \A l : LinkDel(l) \notin todo, \A l, x : LinkAdd(l, x) \notin todo,
         \A l, x : MtuSet(l, x) \notin todo
  PROVE  Links(s) = Links(tgt)
<1>1. Fits(s) /\ Fits(tgt)
  BY UnderWayFits
<1>2. s.vlan = tgt.vlan /\ Links(s) \subseteq Links(tgt)
  BY LinksAreBack
<1>3. Links(tgt) \cap Phys \subseteq Links(s)
  BY DEF UnderWay, SoFar, PhysSoFar
<1> QED BY <1>1, <1>2, <1>3, LinksAre

(* At the start everything is to come.                                     *)
LEMMA AtTheStart ==
  ASSUME NEW s \in Kernel, Sound(s), NEW cur, cur = Captured(s),
         NEW tgt \in Config, Sound(tgt), Links(s) \cap Phys \subseteq Links(tgt),
         ~ Sweeps(cur, tgt)
  PROVE  UnderWay(s, cur, tgt, Plan(cur, tgt))
<1> DEFINE todo == Plan(cur, tgt)
<1>1. cur \in Config /\ Sound(cur) /\ Links(cur) = Links(s)
  BY CaptureOf
<1>2. /\ cur.vlan = s.vlan /\ cur.mtu = s.mtu /\ cur.addr = s.addr /\ cur.bv = s.bv
      /\ cur.nft = s.nft
  BY DEF Captured
<1>3. Fits(s) /\ Fits(cur) /\ Fits(tgt)
  BY <1>1, Fitting
<1>4. Suffix(cur, tgt, todo)
  BY DEF Suffix
<1>5. \A l : l \in Recreated(cur, tgt) => LinkAdd(l, tgt.vlan[l]) \in todo
  BY InPlan
<1>6. \A l : l \in Stale(cur, tgt) => LinkDel(l) \in todo
  BY InPlan
<1>7. PhysSoFar(s, cur, tgt, todo)
  <2>1. ASSUME NEW l \in (Links(tgt) \cap Phys) \ Links(cur)
        PROVE  MtuSet(l, tgt.mtu[l]) \in todo
    <3>1. l \in Resized(cur, tgt)
      BY DEF Resized, Links
    <3> QED BY <3>1, InPlan
  <2> QED BY <2>1, <1>1 DEF PhysSoFar
<1> HIDE DEF todo
<1>8. Added(cur, tgt, todo) = {} /\ Kept(cur, tgt, todo) = DOMAIN cur.vlan
  BY <1>5, <1>6 DEF Added, Kept
<1>9. VlanSoFar(s, cur, tgt, todo)
  BY <1>8, <1>2 DEF VlanSoFar
<1>10. ASSUME NEW l \in Standing(cur, tgt, todo)
       PROVE  l \notin Recreated(cur, tgt) /\ l \in Links(cur) /\ l \in Links(tgt)
  <2>1. l \notin Recreated(cur, tgt) /\ l \in Links(tgt) /\ (l \in Phys => l \in Links(cur))
    BY <1>5 DEF Standing
  <2>2. l \notin Phys => l \in DOMAIN tgt.vlan
    BY <2>1, <1>3, LinksAre
  <2>3. l \in DOMAIN tgt.vlan => l \in DOMAIN cur.vlan
    BY <2>1 DEF Recreated
  <2> QED BY <2>1, <2>2, <2>3, <1>3, LinksAre
<1>11. MtuSoFar(s, cur, tgt, todo)
  <2> SUFFICES ASSUME NEW l \in Standing(cur, tgt, todo),
                      MtuSet(l, tgt.mtu[l]) \notin todo
               PROVE  s.mtu[l] = tgt.mtu[l]
    BY DEF MtuSoFar
  <2>1. l \notin Resized(cur, tgt)
    BY InPlan DEF todo
  <2>2. l \in DOMAIN tgt.mtu
    BY <1>10, <1>3 DEF Fits
  <2> QED BY <2>1, <2>2, <1>2 DEF Resized
<1>12. AddrSoFar(s, cur, tgt, todo)
  <2> SUFFICES ASSUME NEW l \in Standing(cur, tgt, todo), Flush(l) \notin todo
               PROVE  Bare(s.addr[l]) = {a \in Bare(tgt.addr[l]) : AddrAdd(l, a) \notin todo}
    BY DEF AddrSoFar
  <2>1. l \in DOMAIN cur.addr /\ l \in DOMAIN tgt.addr
    BY <1>10, <1>3 DEF Fits
  <2>2. Have(cur, tgt, l) = Bare(s.addr[l]) /\ AddrsOf(tgt, l) = Bare(tgt.addr[l])
    BY <1>10, <2>1, <1>2 DEF Have, AddrsOf
  <2>3. \A a : AddrAdd(l, a) \in todo <=>
                 l \in Readdressed(cur, tgt) /\ a \in Bare(tgt.addr[l])
    BY <2>2, InPlan DEF todo
  <2>4. l \in Readdressed(cur, tgt) => Bare(s.addr[l]) = {}
    BY <2>2, InPlan DEF todo
  <2>5. l \notin Readdressed(cur, tgt) => Bare(s.addr[l]) = Bare(tgt.addr[l])
    BY <2>1, <2>2 DEF Readdressed
  <2> QED BY <2>3, <2>4, <2>5
<1>13. BridgeSoFar(s, cur, tgt, todo)
  <2>1. \A t : (VlanDel(t) \in todo <=> t \in cur.bv \ tgt.bv)
               /\ (VlanAdd(t) \in todo <=> t \in tgt.bv \ cur.bv)
    BY InPlan DEF todo
  <2> QED BY <2>1, <1>2 DEF BridgeSoFar
<1>14. NftSoFar(s, tgt, todo)
  <2>1. NftLoad(tgt.nft) \notin todo => cur.nft = tgt.nft
    BY InPlan DEF todo
  <2> QED BY <2>1, <1>2 DEF NftSoFar
<1>15. SoFar(s, cur, tgt, todo)
  BY <1>4, <1>7, <1>9, <1>11, <1>12, <1>13, <1>14 DEF SoFar
<1>16. UnderWay(s, cur, tgt, todo)
  BY <1>1, <1>15 DEF UnderWay
<1> QED BY <1>16 DEF todo

----------------------------------------------------------------------------
(* Every command the kernel takes keeps the restore on its way: one lemma  *)
(* per command.                                                            *)

LEMMA SuffixStays ==
  ASSUME NEW cur, NEW tgt, NEW todo, NEW c, Suffix(cur, tgt, todo), IsDue(c, todo)
  PROVE  Suffix(cur, tgt, todo \ {c})
BY DEF Suffix, IsDue

LEMMA PhysStays ==
  ASSUME NEW s, NEW r, NEW cur, NEW tgt, NEW todo, NEW c,
         PhysSoFar(s, cur, tgt, todo), Links(r) \cap Phys = Links(s) \cap Phys,
         \A l, x : c = MtuSet(l, x) => l \in Links(s)
  PROVE  PhysSoFar(r, cur, tgt, todo \ {c})
BY DEF PhysSoFar

(* A command that is no link's leaves the links as they are.               *)
LEMMA VlanStays ==
  ASSUME NEW s, NEW r, NEW cur, NEW tgt, NEW todo, NEW c,
         VlanSoFar(s, cur, tgt, todo), r.vlan = s.vlan,
         \A m : c # LinkDel(m), \A m, y : c # LinkAdd(m, y)
  PROVE  VlanSoFar(r, cur, tgt, todo \ {c})
<1>1. Added(cur, tgt, todo \ {c}) = Added(cur, tgt, todo)
  BY DEF Added
<1>2. Kept(cur, tgt, todo \ {c}) = Kept(cur, tgt, todo)
  BY DEF Kept
<1> QED BY <1>1, <1>2 DEF VlanSoFar

LEMMA MtuStays ==
  ASSUME NEW s, NEW r, NEW cur, NEW tgt, NEW todo, NEW c,
         MtuSoFar(s, cur, tgt, todo), \A l, x : c # MtuSet(l, x),
         \A l \in Standing(cur, tgt, todo \ {c}) :
            /\ MtuSet(l, tgt.mtu[l]) \notin todo => l \in Standing(cur, tgt, todo)
            /\ l \in Standing(cur, tgt, todo) => r.mtu[l] = s.mtu[l]
  PROVE  MtuSoFar(r, cur, tgt, todo \ {c})
BY DEF MtuSoFar

LEMMA AddrStays ==
  ASSUME NEW s, NEW r, NEW cur, NEW tgt, NEW todo, NEW c,
         AddrSoFar(s, cur, tgt, todo),
         \A l : c # Flush(l), \A l, x : c # AddrAdd(l, x),
         Standing(cur, tgt, todo \ {c}) \subseteq Standing(cur, tgt, todo),
         \A l \in Standing(cur, tgt, todo) : r.addr[l] = s.addr[l]
  PROVE  AddrSoFar(r, cur, tgt, todo \ {c})
<1> SUFFICES ASSUME NEW l \in Standing(cur, tgt, todo \ {c}), Flush(l) \notin todo \ {c}
             PROVE  Bare(r.addr[l]) = {a \in Bare(tgt.addr[l]) : AddrAdd(l, a) \notin todo \ {c}}
  BY DEF AddrSoFar
<1>1. Flush(l) \notin todo /\ l \in Standing(cur, tgt, todo)
  OBVIOUS
<1>2. Bare(s.addr[l]) = {a \in Bare(tgt.addr[l]) : AddrAdd(l, a) \notin todo}
  BY <1>1 DEF AddrSoFar
<1>3. \A a : AddrAdd(l, a) \in todo \ {c} <=> AddrAdd(l, a) \in todo
  OBVIOUS
<1> QED BY <1>1, <1>2, <1>3

LEMMA BridgeStays ==
  ASSUME NEW s, NEW r, NEW cur, NEW tgt, NEW todo, NEW c,
         BridgeSoFar(s, cur, tgt, todo), r.bv = s.bv,
         \A t : c # VlanDel(t) /\ c # VlanAdd(t)
  PROVE  BridgeSoFar(r, cur, tgt, todo \ {c})
<1>1. \A t : /\ VlanDel(t) \in todo \ {c} <=> VlanDel(t) \in todo
             /\ VlanAdd(t) \in todo \ {c} <=> VlanAdd(t) \in todo
  OBVIOUS
<1> QED BY <1>1 DEF BridgeSoFar

LEMMA NftStays ==
  ASSUME NEW s, NEW r, NEW tgt, NEW todo, NEW c,
         NftSoFar(s, tgt, todo), r.nft = s.nft, \A n : c # NftLoad(n)
  PROVE  NftSoFar(r, tgt, todo \ {c})
BY DEF NftSoFar

LEMMA LinkDelOnWay ==
  ASSUME NEW s, NEW cur, NEW tgt, NEW todo, UnderWay(s, cur, tgt, todo),
         NEW l, NEW c, c = LinkDel(l), IsDue(c, todo), NEW r, r = Run(c, s)
  PROVE  CanRun(c, s) /\ UnderWay(r, cur, tgt, todo \ {c})
<1> DEFINE next == todo \ {c}
<1>1. Fits(s) /\ Fits(cur) /\ Fits(tgt)
  BY UnderWayFits
<1>2. l \in Stale(cur, tgt) /\ c \in todo
  BY InPlan DEF UnderWay, SoFar, Suffix, IsDue
<1>3. ASSUME NEW m \in Recreated(cur, tgt)
      PROVE  LinkAdd(m, tgt.vlan[m]) \in todo
  <2>1. LinkAdd(m, tgt.vlan[m]) \in Plan(cur, tgt)
    BY InPlan
  <2> QED BY <2>1, <1>2, Orders DEF UnderWay, SoFar, Suffix
<1>4. Added(cur, tgt, todo) = {} /\ Added(cur, tgt, next) = {}
  BY <1>3, Distinct DEF Added
<1>5. l \in Kept(cur, tgt, todo) /\ Kept(cur, tgt, next) = Kept(cur, tgt, todo) \ {l}
  BY <1>2, Same DEF Kept, Stale
<1>6. /\ l \in DOMAIN s.vlan /\ DOMAIN s.vlan = Kept(cur, tgt, todo)
      /\ \A m \in DOMAIN s.vlan : s.vlan[m] = cur.vlan[m] /\ m \in DOMAIN cur.vlan
  BY <1>4, <1>5 DEF UnderWay, SoFar, VlanSoFar, Kept
<1>7. CanRun(c, s) /\ l \in Links(s) /\ l \notin Phys /\ l # Port
  BY <1>1, <1>6, Takes, LinksAre, RestorePlanAssumption
<1>7a. Upper(s, l) = {}
  <2>1. \A m \in DOMAIN s.vlan : s.vlan[m][1] # l
    BY <1>2, <1>6 DEF UnderWay, Sweeps
  <2>2. IsUpOn(s, l, {})
    BY <2>1 DEF IsUpOn
  <2> QED BY <2>2, UpperIsWithin
<1>8. /\ r \in Kernel /\ Sound(r) /\ Links(r) = Links(s) \ {l}
      /\ DOMAIN r.vlan = DOMAIN s.vlan \ {l}
      /\ \A m \in DOMAIN r.vlan : r.vlan[m] = s.vlan[m]
      /\ \A m \in Links(s) \ {l} : r.mtu[m] = s.mtu[m] /\ r.addr[m] = s.addr[m]
      /\ r.bv = s.bv /\ r.nft = s.nft
  BY <1>7, <1>7a, LinkDelDoes DEF UnderWay
<1>9. VlanSoFar(r, cur, tgt, next)
  <2>1. \A m \in Kept(cur, tgt, todo) : s.vlan[m] = cur.vlan[m]
    BY <1>4 DEF UnderWay, SoFar, VlanSoFar
  <2> QED BY <2>1, <1>4, <1>5, <1>6, <1>8, SMTT(30) DEF VlanSoFar
<1>10. Standing(cur, tgt, next) = Standing(cur, tgt, todo)
  BY Distinct DEF Standing
<1>11. ASSUME NEW m \in Standing(cur, tgt, todo)
       PROVE  r.mtu[m] = s.mtu[m] /\ r.addr[m] = s.addr[m]
  <2>1. m \in Links(tgt) /\ m \notin Recreated(cur, tgt)
    BY <1>3 DEF Standing
  <2>2. m # l
    BY <2>1, <1>1, <1>2, <1>7, LinksAre DEF Stale, Recreated
  <2> QED BY <2>2, <1>8, StandingAreThere
<1>12. MtuSoFar(r, cur, tgt, next)
  BY <1>10, <1>11, Distinct, MtuStays DEF UnderWay, SoFar
<1>13. AddrSoFar(r, cur, tgt, next)
  BY <1>10, <1>11, Distinct, AddrStays DEF UnderWay, SoFar
<1>14. BridgeSoFar(r, cur, tgt, next)
  BY <1>8, Distinct, BridgeStays DEF UnderWay, SoFar
<1>15. NftSoFar(r, tgt, next)
  BY <1>8, Distinct, NftStays DEF UnderWay, SoFar
<1>16. Suffix(cur, tgt, next)
  BY SuffixStays DEF UnderWay, SoFar
<1>17. PhysSoFar(r, cur, tgt, next)
  <2>1. Links(r) \cap Phys = Links(s) \cap Phys
    BY <1>7, <1>8
  <2>2. \A m, y : c # MtuSet(m, y)
    BY Distinct
  <2> QED BY <2>1, <2>2, PhysStays DEF UnderWay, SoFar
<1> QED BY <1>7, <1>8, <1>9, <1>12, <1>13, <1>14, <1>15, <1>16, <1>17 DEF UnderWay, SoFar

LEMMA LinkAddOnWay ==
  ASSUME NEW s, NEW cur, NEW tgt, NEW todo, UnderWay(s, cur, tgt, todo),
         NEW l, NEW x, NEW c, c = LinkAdd(l, x), IsDue(c, todo),
         NEW r, r = Run(c, s)
  PROVE  /\ CanRun(c, s) => UnderWay(r, cur, tgt, todo \ {c})
         /\ x[1] \in Links(s) => CanRun(c, s)
<1> DEFINE next == todo \ {c}
<1>0. /\ \A m : c # LinkDel(m)
      /\ \A m, y : c # MtuSet(m, y)
      /\ \A m : c # Flush(m)
      /\ \A m, y : c # AddrAdd(m, y)
      /\ \A y : c # VlanDel(y) /\ c # VlanAdd(y)
      /\ \A y : c # NftLoad(y)
  BY DEF LinkAdd, LinkDel, MtuSet, Flush, AddrAdd, VlanDel,
         VlanAdd, NftLoad
<1>1. Fits(s) /\ Fits(cur) /\ Fits(tgt)
  BY UnderWayFits
<1>2. l \in Recreated(cur, tgt) /\ x = tgt.vlan[l] /\ c \in todo
  BY InPlan DEF UnderWay, SoFar, Suffix, IsDue
<1>3. \A m : LinkDel(m) \notin todo
  BY Orders DEF IsDue
<1>4. /\ Kept(cur, tgt, todo) = DOMAIN cur.vlan \ Stale(cur, tgt)
      /\ Kept(cur, tgt, next) = Kept(cur, tgt, todo)
  BY <1>3 DEF Kept
<1>5. l \notin Kept(cur, tgt, todo) /\ l \notin Added(cur, tgt, todo)
  BY <1>2, <1>4 DEF Recreated, Stale, Added
<1>6. Added(cur, tgt, next) = Added(cur, tgt, todo) \cup {l}
  BY <1>2, Same DEF Added
<1>7. VlanSoFar(s, cur, tgt, todo)
  BY DEF UnderWay, SoFar
<1>8. l \in DOMAIN tgt.vlan /\ l \in VName /\ x \in Name \X Vid /\ l \notin Phys
  BY <1>1, <1>2, RestorePlanAssumption DEF Recreated, Fits
<1>9. x[1] \in Links(s) => CanRun(c, s)
  <2>1. l \notin Links(s)
    BY <1>1, <1>5, <1>7, <1>8, LinksAre DEF VlanSoFar
  <2>2. ASSUME NEW m \in DOMAIN s.vlan
        PROVE  m \in DOMAIN tgt.vlan /\ s.vlan[m] = tgt.vlan[m]
    BY <1>4, <1>7 DEF VlanSoFar, Added, Recreated, Stale
  <2>3. \A m \in DOMAIN s.vlan : s.vlan[m] # x
    <3>1. \A m \in DOMAIN s.vlan : m # l
      BY <2>1, <1>1 DEF Fits
    <3> QED BY <3>1, <2>2, <1>2, <1>8, PartsOfSound DEF UnderWay
  <2> QED BY <2>1, <2>3, Takes
<1> SUFFICES ASSUME CanRun(c, s)
             PROVE  UnderWay(r, cur, tgt, next)
  BY <1>9
<1>10. /\ r \in Kernel /\ Sound(r) /\ Links(r) = Links(s) \cup {l}
       /\ DOMAIN r.vlan = DOMAIN s.vlan \cup {l} /\ r.vlan[l] = x
       /\ \A m \in DOMAIN s.vlan : r.vlan[m] = s.vlan[m]
       /\ \A m \in Links(s) : r.mtu[m] = s.mtu[m] /\ r.addr[m] = s.addr[m]
       /\ r.addr[l] = {} /\ r.bv = s.bv /\ r.nft = s.nft
  BY <1>8, LinkAddDoes DEF UnderWay
<1>11. VlanSoFar(r, cur, tgt, next)
  <2>1. DOMAIN r.vlan = Kept(cur, tgt, next) \cup Added(cur, tgt, next)
    BY <1>4, <1>6, <1>7, <1>10 DEF VlanSoFar
  <2>2. ASSUME NEW m \in Added(cur, tgt, next)
        PROVE  r.vlan[m] = tgt.vlan[m]
    <3>1. CASE m = l
      BY <3>1, <1>2, <1>10
    <3>2. CASE m # l
      <4>1. m \in Added(cur, tgt, todo) /\ m \in DOMAIN s.vlan
        BY <3>2, <1>6, <1>7 DEF VlanSoFar
      <4> QED BY <4>1, <1>7, <1>10 DEF VlanSoFar
    <3> QED BY <3>1, <3>2
  <2>3. ASSUME NEW m \in Kept(cur, tgt, next) \ Added(cur, tgt, next)
        PROVE  r.vlan[m] = cur.vlan[m]
    <3>1. m \in Kept(cur, tgt, todo) \ Added(cur, tgt, todo) /\ m \in DOMAIN s.vlan
      BY <1>4, <1>6, <1>7 DEF VlanSoFar
    <3> QED BY <3>1, <1>7, <1>10 DEF VlanSoFar
  <2> QED BY <2>1, <2>2, <2>3 DEF VlanSoFar
<1>12. Standing(cur, tgt, next) = Standing(cur, tgt, todo) \cup {l}
  BY <1>1, <1>2, <1>8, Same DEF Standing, Fits
<1>13. \A m \in Standing(cur, tgt, todo) : r.mtu[m] = s.mtu[m] /\ r.addr[m] = s.addr[m]
  BY <1>10, StandingAreThere
<1>14. MtuSet(l, tgt.mtu[l]) \in todo
  <2>1. l \in Resized(cur, tgt)
    BY <1>1, <1>2, <1>8 DEF Resized, Fits, Links
  <2>2. MtuSet(l, tgt.mtu[l]) \in Plan(cur, tgt)
    BY <2>1, InPlan
  <2> QED BY <2>2, <1>2, Orders DEF UnderWay, SoFar, Suffix
<1>15. MtuSoFar(r, cur, tgt, next)
  BY <1>12, <1>13, <1>14, <1>0, MtuStays DEF UnderWay, SoFar
<1>16. AddrSoFar(r, cur, tgt, next)
  <2> SUFFICES ASSUME NEW m \in Standing(cur, tgt, next), Flush(m) \notin next
               PROVE  Bare(r.addr[m]) = {a \in Bare(tgt.addr[m]) : AddrAdd(m, a) \notin next}
    BY DEF AddrSoFar
  <2>1. \A a : AddrAdd(m, a) \in next <=> AddrAdd(m, a) \in todo
    BY Distinct
  <2>2. CASE m \in Standing(cur, tgt, todo)
    <3>1. Bare(s.addr[m]) = {a \in Bare(tgt.addr[m]) : AddrAdd(m, a) \notin todo}
      BY <2>2, Distinct DEF UnderWay, SoFar, AddrSoFar
    <3> QED BY <3>1, <2>1, <2>2, <1>13
  <2>3. CASE m \notin Standing(cur, tgt, todo)
    <3>1. m = l
      BY <2>3, <1>12
    <3>2. /\ AddrsOf(tgt, l) = Bare(tgt.addr[l]) /\ l \in DOMAIN tgt.addr
          /\ Have(cur, tgt, l) = {}
      BY <1>1, <1>2, <1>8 DEF AddrsOf, Fits, Links, Have
    <3>3. ASSUME NEW a \in Bare(tgt.addr[l])
          PROVE  AddrAdd(l, a) \in todo
      <4>1. l \in Readdressed(cur, tgt)
        BY <3>2 DEF Readdressed
      <4>2. AddrAdd(l, a) \in Plan(cur, tgt)
        BY <4>1, <3>2, InPlan
      <4> QED BY <4>2, <1>2, Orders DEF UnderWay, SoFar, Suffix
    <3>4. Bare(r.addr[l]) = {}
      BY <1>10 DEF Bare
    <3> QED BY <3>1, <3>3, <3>4, <2>1
  <2> QED BY <2>2, <2>3
<1>17. BridgeSoFar(r, cur, tgt, next)
  BY <1>0, <1>10, BridgeStays DEF UnderWay, SoFar
<1>18. NftSoFar(r, tgt, next)
  BY <1>0, <1>10, NftStays DEF UnderWay, SoFar
<1>19. Suffix(cur, tgt, next)
  BY SuffixStays DEF UnderWay, SoFar
<1>20. PhysSoFar(r, cur, tgt, next)
  <2>1. Links(r) \cap Phys = Links(s) \cap Phys
    BY <1>8, <1>10
  <2> QED BY <2>1, <1>0, PhysStays DEF UnderWay, SoFar
<1> QED BY <1>10, <1>11, <1>15, <1>16, <1>17, <1>18, <1>19, <1>20 DEF UnderWay, SoFar

(* From the MTUs on the VLAN links are those of the snapshot, and after    *)
(* them all links are.                                                     *)
LEMMA LinksFirst ==
  ASSUME NEW s, NEW cur, NEW tgt, NEW todo, UnderWay(s, cur, tgt, todo),
         NEW c, IsDue(c, todo), \A l : c # LinkDel(l), \A l, x : c # LinkAdd(l, x)
  PROVE  /\ s.vlan = tgt.vlan /\ Links(s) \subseteq Links(tgt)
         /\ Standing(cur, tgt, todo) = Links(s)
         /\ \A l : LinkDel(l) \notin todo
         /\ (\A l, x : c # MtuSet(l, x)) => Links(s) = Links(tgt)
<1>1. c \in Plan(cur, tgt)
  BY DEF IsDue, UnderWay, SoFar, Suffix
<1>2. \/ \E l, x : c = MtuSet(l, x) \/ c = AddrAdd(l, x)
      \/ \E l : c = Flush(l)
      \/ \E t : c = VlanDel(t) \/ c = VlanAdd(t) \/ c = NftLoad(t)
  BY <1>1 DEF Plan, VlanPlan, MtuPlan, AddrPlan, BridgePlan, NftPlan
<1>3. Stage(c) \in 3..7
  BY <1>2, Places
<1>4. ASSUME NEW l PROVE LinkDel(l) \notin todo
  <2>1. Stage(LinkDel(l)) = 1
    BY Places
  <2>2. \A n \in 3..7 : n > 2
    OBVIOUS
  <2>3. Stage(LinkDel(l)) < Stage(c)
    BY <2>1, <2>2, <1>3
  <2>4. Before(LinkDel(l), c)
    BY <2>3 DEF Before
  <2> QED BY <2>4 DEF IsDue
<1>5. ASSUME NEW l, NEW x PROVE LinkAdd(l, x) \notin todo
  <2>1. Stage(LinkAdd(l, x)) = 2
    BY Places
  <2>2. \A n \in 3..7 : n > 2
    OBVIOUS
  <2>3. Stage(LinkAdd(l, x)) < Stage(c)
    BY <2>1, <2>2, <1>3
  <2>4. Before(LinkAdd(l, x), c)
    BY <2>3 DEF Before
  <2> QED BY <2>4 DEF IsDue
<1>6. ASSUME \A l, x : c # MtuSet(l, x)
      PROVE  \A l, x : MtuSet(l, x) \notin todo
  <2>1. Stage(c) \in 4..7
    BY <1>2, <1>6, Places
  <2>2. \A n \in 4..7 : 3 < n
    OBVIOUS
  <2>3. \A l, x : Stage(MtuSet(l, x)) < Stage(c)
    BY <2>1, <2>2, Places
  <2>4. \A l, x : Before(MtuSet(l, x), c)
    BY <2>3 DEF Before
  <2> QED BY <2>4 DEF IsDue
<1> QED BY <1>4, <1>5, <1>6, LinksAreBack, AllAreBack

LEMMA MtuSetOnWay ==
  ASSUME NEW s, NEW cur, NEW tgt, NEW todo, UnderWay(s, cur, tgt, todo),
         NEW l, NEW x, NEW c, c = MtuSet(l, x), IsDue(c, todo), CanRun(c, s),
         NEW r, r = Run(c, s)
  PROVE  UnderWay(r, cur, tgt, todo \ {c})
<1> DEFINE next == todo \ {c}
<1>0. /\ \A m : c # LinkDel(m)
      /\ \A m, y : c # LinkAdd(m, y)
      /\ \A m : c # Flush(m)
      /\ \A m, y : c # AddrAdd(m, y)
      /\ \A y : c # VlanDel(y) /\ c # VlanAdd(y)
      /\ \A y : c # NftLoad(y)
  BY DEF LinkAdd, LinkDel, MtuSet, Flush, AddrAdd, VlanDel,
         VlanAdd, NftLoad
<1>1. Fits(s) /\ Fits(cur) /\ Fits(tgt)
  BY UnderWayFits
<1>2. l \in Resized(cur, tgt) /\ x = tgt.mtu[l] /\ c \in todo
  BY InPlan DEF UnderWay, SoFar, Suffix, IsDue
<1>3. /\ s.vlan = tgt.vlan /\ Links(s) \subseteq Links(tgt)
      /\ Standing(cur, tgt, todo) = Links(s)
  BY <1>0, LinksFirst
<1>4. l \in Links(s) /\ l \in Links(tgt) /\ x \in Mtu
  BY <1>1, <1>2, <1>3, Takes DEF Fits
<1>5. /\ r \in Kernel /\ Sound(r) /\ Links(r) = Links(s)
      /\ \A m \in Links(s) :
           r.mtu[m] = IF m \in {l} \cup Clamped(s, l, x) THEN x ELSE s.mtu[m]
      /\ r.vlan = s.vlan /\ r.addr = s.addr /\ r.bv = s.bv /\ r.nft = s.nft
  BY <1>3, <1>4, MtuSetDoes DEF UnderWay
<1>6. /\ VlanSoFar(r, cur, tgt, next)
      /\ Standing(cur, tgt, next) = Standing(cur, tgt, todo)
  <2>1. VlanSoFar(s, cur, tgt, todo) /\ r.vlan = s.vlan
    BY <1>5 DEF UnderWay, SoFar
  <2>2. VlanSoFar(r, cur, tgt, next)
    BY <2>1, <1>0, VlanStays
  <2>3. Standing(cur, tgt, next) = Standing(cur, tgt, todo)
    BY <1>0 DEF Standing
  <2> QED BY <2>2, <2>3
<1>7. MtuSoFar(r, cur, tgt, next)
  <2> SUFFICES ASSUME NEW m \in Links(s), MtuSet(m, tgt.mtu[m]) \notin next
               PROVE  r.mtu[m] = tgt.mtu[m]
    BY <1>3, <1>6 DEF MtuSoFar
  <2>1. CASE m = l
    BY <2>1, <1>2, <1>3, <1>5
  <2>2. CASE m # l
    <3>1. s.mtu[m] = tgt.mtu[m]
      BY <2>2, <1>3, Same DEF UnderWay, SoFar, MtuSoFar
    <3>2. m \notin Clamped(s, l, x)
      <4> SUFFICES ASSUME m \in Upper(s, l)
                   PROVE  ~ s.mtu[m] > x
        BY DEF Clamped
      <4> DEFINE S == {y \in DOMAIN s.vlan : tgt.mtu[y] <= x}
      <4>1. ASSUME NEW y \in Links(tgt)
            PROVE  tgt.mtu[y] \in Nat
        BY <1>1, RestorePlanAssumption DEF Fits
      <4>2. x \in Nat /\ x = tgt.mtu[l]
        BY <1>2, <1>4, <4>1
      <4>3. ASSUME NEW y \in DOMAIN s.vlan, s.vlan[y][1] \in {l} \cup S
            PROVE  y \in S
        <5> DEFINE p == s.vlan[y][1]
        <5>1. tgt.mtu[y] <= tgt.mtu[p] /\ y \in Links(tgt) /\ p \in Links(tgt)
          BY <1>3, PartsOfSound DEF UnderWay
        <5>2. tgt.mtu[p] <= x
          BY <4>2, <4>3
        <5> QED BY <5>1, <5>2, <4>1, <4>2
      <4>4. IsUpOn(s, l, S)
        BY <4>3 DEF IsUpOn
      <4>5. m \in S
        BY <4>4, UpperIsWithin
      <4> QED BY <4>1, <4>2, <4>5, <3>1, <1>3
    <3> QED BY <3>1, <3>2, <2>2, <1>3, <1>5
  <2> QED BY <2>1, <2>2
<1>8. AddrSoFar(r, cur, tgt, next)
  BY <1>5, <1>6, <1>0, AddrStays DEF UnderWay, SoFar
<1>9. BridgeSoFar(r, cur, tgt, next)
  BY <1>5, <1>0, BridgeStays DEF UnderWay, SoFar
<1>10. NftSoFar(r, tgt, next)
  BY <1>5, <1>0, NftStays DEF UnderWay, SoFar
<1>11. Suffix(cur, tgt, next)
  BY SuffixStays DEF UnderWay, SoFar
<1>12. PhysSoFar(r, cur, tgt, next)
  <2>1. \A m, y : c = MtuSet(m, y) => m \in Links(s)
    BY <1>4, Same
  <2>2. Links(r) \cap Phys = Links(s) \cap Phys
    BY <1>5
  <2> QED BY <2>1, <2>2, PhysStays DEF UnderWay, SoFar
<1> QED BY <1>5, <1>6, <1>7, <1>8, <1>9, <1>10, <1>11, <1>12 DEF UnderWay, SoFar

LEMMA FlushOnWay ==
  ASSUME NEW s, NEW cur, NEW tgt, NEW todo, UnderWay(s, cur, tgt, todo),
         NEW l, NEW c, c = Flush(l), IsDue(c, todo), CanRun(c, s),
         NEW r, r = Run(c, s)
  PROVE  UnderWay(r, cur, tgt, todo \ {c})
<1> DEFINE next == todo \ {c}
<1>0. /\ \A m : c # LinkDel(m)
      /\ \A m, y : c # LinkAdd(m, y)
      /\ \A m, y : c # MtuSet(m, y)
      /\ \A m, y : c # AddrAdd(m, y)
      /\ \A y : c # VlanDel(y) /\ c # VlanAdd(y)
      /\ \A y : c # NftLoad(y)
  BY DEF LinkAdd, LinkDel, MtuSet, Flush, AddrAdd, VlanDel,
         VlanAdd, NftLoad
<1>1. Fits(s) /\ Fits(cur) /\ Fits(tgt)
  BY UnderWayFits
<1>2. /\ s.vlan = tgt.vlan /\ Links(s) = Links(tgt)
      /\ Standing(cur, tgt, todo) = Links(tgt)
  BY <1>0, LinksFirst
<1>3. l \in Links(s) /\ l \in Readdressed(cur, tgt) /\ c \in Plan(cur, tgt)
  BY Takes, InPlan DEF UnderWay, SoFar, Suffix, IsDue
<1>4. /\ r \in Kernel /\ Sound(r) /\ Links(r) = Links(s)
      /\ r.addr[l] = {} /\ \A m \in Links(s) \ {l} : r.addr[m] = s.addr[m]
      /\ r.vlan = s.vlan /\ r.mtu = s.mtu /\ r.bv = s.bv /\ r.nft = s.nft
  BY <1>3, FlushDoes DEF UnderWay
<1>5. VlanSoFar(r, cur, tgt, next) /\ Standing(cur, tgt, next) = Standing(cur, tgt, todo)
  <2>1. VlanSoFar(s, cur, tgt, todo) /\ r.vlan = s.vlan
    BY <1>4 DEF UnderWay, SoFar
  <2>2. VlanSoFar(r, cur, tgt, next)
    BY <2>1, <1>0, VlanStays
  <2>3. Standing(cur, tgt, next) = Standing(cur, tgt, todo)
    BY <1>0 DEF Standing
  <2> QED BY <2>2, <2>3
<1>6. AddrSoFar(r, cur, tgt, next)
  <2> SUFFICES ASSUME NEW m \in Links(tgt), Flush(m) \notin next
               PROVE  Bare(r.addr[m]) = {a \in Bare(tgt.addr[m]) : AddrAdd(m, a) \notin next}
    BY <1>2, <1>5 DEF AddrSoFar
  <2>1. \A a : AddrAdd(m, a) \in next <=> AddrAdd(m, a) \in todo
    BY <1>0
  <2>2. CASE m = l
    <3>1. AddrsOf(tgt, l) = Bare(tgt.addr[l])
      BY <1>1, <1>2, <1>3 DEF AddrsOf, Fits
    <3>2. ASSUME NEW a \in Bare(tgt.addr[l])
          PROVE  AddrAdd(l, a) \in todo
      <4>1. AddrAdd(l, a) \in Plan(cur, tgt)
        BY <3>1, <1>3, InPlan
      <4>2. Before(Flush(l), AddrAdd(l, a))
        BY Orders
      <4> QED BY <4>1, <4>2 DEF UnderWay, SoFar, Suffix, IsDue
    <3>3. Bare(r.addr[l]) = {}
      BY <1>4 DEF Bare
    <3> QED BY <2>1, <2>2, <3>2, <3>3
  <2>3. CASE m # l
    <3>1. Flush(m) \notin todo
      BY <2>3, Same
    <3>2. Bare(s.addr[m]) = {a \in Bare(tgt.addr[m]) : AddrAdd(m, a) \notin todo}
      BY <3>1, <1>2 DEF UnderWay, SoFar, AddrSoFar
    <3> QED BY <2>1, <2>3, <3>2, <1>2, <1>4
  <2> QED BY <2>2, <2>3
<1>7. MtuSoFar(r, cur, tgt, next)
  BY <1>4, <1>5, <1>0, MtuStays DEF UnderWay, SoFar
<1>8. BridgeSoFar(r, cur, tgt, next)
  BY <1>4, <1>0, BridgeStays DEF UnderWay, SoFar
<1>9. NftSoFar(r, tgt, next)
  BY <1>4, <1>0, NftStays DEF UnderWay, SoFar
<1>10. Suffix(cur, tgt, next)
  BY SuffixStays DEF UnderWay, SoFar
<1>11. PhysSoFar(r, cur, tgt, next)
  BY <1>0, <1>4, PhysStays DEF UnderWay, SoFar
<1> QED BY <1>4, <1>5, <1>6, <1>7, <1>8, <1>9, <1>10, <1>11 DEF UnderWay, SoFar

LEMMA AddrAddOnWay ==
  ASSUME NEW s, NEW cur, NEW tgt, NEW todo, UnderWay(s, cur, tgt, todo),
         NEW l, NEW x, NEW c, c = AddrAdd(l, x), IsDue(c, todo),
         NEW r, r = Run(c, s)
  PROVE  CanRun(c, s) /\ UnderWay(r, cur, tgt, todo \ {c})
<1> DEFINE next == todo \ {c}
<1>0. /\ \A m : c # LinkDel(m)
      /\ \A m, y : c # LinkAdd(m, y)
      /\ \A m, y : c # MtuSet(m, y)
      /\ \A m : c # Flush(m)
      /\ \A y : c # VlanDel(y) /\ c # VlanAdd(y)
      /\ \A y : c # NftLoad(y)
  BY DEF LinkAdd, LinkDel, MtuSet, Flush, AddrAdd, VlanDel,
         VlanAdd, NftLoad
<1>1. Fits(s) /\ Fits(cur) /\ Fits(tgt)
  BY UnderWayFits
<1>2. /\ s.vlan = tgt.vlan /\ Links(s) = Links(tgt)
      /\ Standing(cur, tgt, todo) = Links(tgt)
  BY <1>0, LinksFirst
<1>3. /\ l \in Readdressed(cur, tgt) /\ x \in AddrsOf(tgt, l)
      /\ c \in Plan(cur, tgt) /\ c \in todo
  BY InPlan DEF UnderWay, SoFar, Suffix, IsDue
<1>4. l \in Links(tgt) /\ x \in Bare(tgt.addr[l]) /\ x \in Addr
  <2>1. l \in Links(tgt) /\ x \in Bare(tgt.addr[l]) /\ tgt.addr[l] \subseteq Info
    BY <1>1, <1>3 DEF AddrsOf, Fits
  <2> QED BY <2>1 DEF Bare, Info
<1>5. Flush(l) \notin todo
  <2>1. Before(Flush(l), c)
    BY Orders
  <2> QED BY <2>1 DEF IsDue
<1>6. Bare(s.addr[l]) = {a \in Bare(tgt.addr[l]) : AddrAdd(l, a) \notin todo}
  BY <1>2, <1>4, <1>5 DEF UnderWay, SoFar, AddrSoFar
<1>7. CanRun(c, s) /\ x \notin Bare(s.addr[l])
  BY <1>2, <1>3, <1>4, <1>6, Takes
<1>8. /\ r \in Kernel /\ Sound(r) /\ Links(r) = Links(s)
      /\ Bare(r.addr[l]) = Bare(s.addr[l]) \cup {x}
      /\ \A m \in Links(s) \ {l} : r.addr[m] = s.addr[m]
      /\ r.vlan = s.vlan /\ r.mtu = s.mtu /\ r.bv = s.bv /\ r.nft = s.nft
  BY <1>2, <1>4, <1>7, AddrAddDoes DEF UnderWay
<1>9. VlanSoFar(r, cur, tgt, next) /\ Standing(cur, tgt, next) = Standing(cur, tgt, todo)
  <2>1. VlanSoFar(s, cur, tgt, todo) /\ r.vlan = s.vlan
    BY <1>8 DEF UnderWay, SoFar
  <2>2. VlanSoFar(r, cur, tgt, next)
    BY <2>1, <1>0, VlanStays
  <2>3. Standing(cur, tgt, next) = Standing(cur, tgt, todo)
    BY <1>0 DEF Standing
  <2> QED BY <2>2, <2>3
<1>10. AddrSoFar(r, cur, tgt, next)
  <2> SUFFICES ASSUME NEW m \in Links(tgt), Flush(m) \notin next
               PROVE  Bare(r.addr[m]) = {a \in Bare(tgt.addr[m]) : AddrAdd(m, a) \notin next}
    BY <1>2, <1>9 DEF AddrSoFar
  <2>1. Bare(s.addr[m]) = {a \in Bare(tgt.addr[m]) : AddrAdd(m, a) \notin todo}
    BY <1>0, <1>2 DEF UnderWay, SoFar, AddrSoFar
  <2>2. CASE m = l
    <3>1. \A a : AddrAdd(l, a) \notin next <=> AddrAdd(l, a) \notin todo \/ a = x
      BY Same
    <3> QED BY <2>1, <2>2, <3>1, <1>4, <1>8
  <2>3. CASE m # l
    <3>1. \A a : AddrAdd(m, a) \in next <=> AddrAdd(m, a) \in todo
      BY <2>3, Same
    <3> QED BY <2>1, <2>3, <3>1, <1>2, <1>8
  <2> QED BY <2>2, <2>3
<1>11. MtuSoFar(r, cur, tgt, next)
  BY <1>8, <1>9, <1>0, MtuStays DEF UnderWay, SoFar
<1>12. BridgeSoFar(r, cur, tgt, next)
  BY <1>8, <1>0, BridgeStays DEF UnderWay, SoFar
<1>13. NftSoFar(r, tgt, next)
  BY <1>8, <1>0, NftStays DEF UnderWay, SoFar
<1>14. Suffix(cur, tgt, next)
  BY SuffixStays DEF UnderWay, SoFar
<1>15. PhysSoFar(r, cur, tgt, next)
  BY <1>0, <1>8, PhysStays DEF UnderWay, SoFar
<1> QED BY <1>7, <1>8, <1>9, <1>10, <1>11, <1>12, <1>13, <1>14, <1>15 DEF UnderWay, SoFar

LEMMA VlanDelOnWay ==
  ASSUME NEW s, NEW cur, NEW tgt, NEW todo, UnderWay(s, cur, tgt, todo),
         NEW x, NEW c, c = VlanDel(x), IsDue(c, todo),
         NEW r, r = Run(c, s)
  PROVE  UnderWay(r, cur, tgt, todo \ {c})
<1> DEFINE next == todo \ {c}
<1>0. /\ \A m : c # LinkDel(m)
      /\ \A m, y : c # LinkAdd(m, y)
      /\ \A m, y : c # MtuSet(m, y)
      /\ \A m : c # Flush(m)
      /\ \A m, y : c # AddrAdd(m, y)
      /\ \A y : c # NftLoad(y)
      /\ \A y : c # VlanAdd(y)
  BY DEF LinkAdd, LinkDel, MtuSet, Flush, AddrAdd, VlanDel,
         VlanAdd, NftLoad
<1>1. Fits(s) /\ Fits(cur) /\ Fits(tgt)
  BY UnderWayFits
<1>2. x \in cur.bv /\ x \notin tgt.bv /\ c \in Plan(cur, tgt) /\ c \in todo /\ x \in Triple
  BY <1>1, InPlan DEF UnderWay, SoFar, Suffix, IsDue, Fits
<1>3. /\ r \in Kernel /\ Sound(r) /\ Links(r) = Links(s)
      /\ r.bv = {t \in s.bv : t[1] # x[1]}
      /\ r.vlan = s.vlan /\ r.mtu = s.mtu /\ r.addr = s.addr /\ r.nft = s.nft
  BY <1>2, VlanDelDoes DEF UnderWay
<1>4. ASSUME NEW t \in tgt.bv \ cur.bv
      PROVE  VlanAdd(t) \in todo
  <2>1. VlanAdd(t) \in Plan(cur, tgt)
    BY InPlan
  <2>2. Before(c, VlanAdd(t))
    BY Orders
  <2> QED BY <1>2, <2>1, <2>2 DEF UnderWay, SoFar, Suffix
<1>5. s.bv = {t \in cur.bv : t \in tgt.bv \/ VlanDel(t) \in todo}
  BY <1>4 DEF UnderWay, SoFar, BridgeSoFar
<1>6. r.bv = s.bv \ {x}
  BY <1>2, <1>3, <1>5 DEF UnderWay, Sound, PortSound
<1>7. BridgeSoFar(r, cur, tgt, next)
  <2>1. \A t : VlanDel(t) \in next <=> VlanDel(t) \in todo /\ t # x
    BY Same
  <2>2. \A t \in tgt.bv \ cur.bv : VlanAdd(t) \in next
    BY <1>4, <1>0
  <2> QED BY <2>1, <2>2, <1>2, <1>5, <1>6 DEF BridgeSoFar
<1>8. VlanSoFar(r, cur, tgt, next) /\ Standing(cur, tgt, next) = Standing(cur, tgt, todo)
  <2>1. VlanSoFar(s, cur, tgt, todo) /\ r.vlan = s.vlan
    BY <1>3 DEF UnderWay, SoFar
  <2>2. VlanSoFar(r, cur, tgt, next)
    BY <2>1, <1>0, VlanStays
  <2>3. Standing(cur, tgt, next) = Standing(cur, tgt, todo)
    BY <1>0 DEF Standing
  <2> QED BY <2>2, <2>3
<1>9. MtuSoFar(r, cur, tgt, next)
  BY <1>3, <1>8, <1>0, MtuStays DEF UnderWay, SoFar
<1>10. AddrSoFar(r, cur, tgt, next)
  BY <1>3, <1>8, <1>0, AddrStays DEF UnderWay, SoFar
<1>11. NftSoFar(r, tgt, next)
  BY <1>3, <1>0, NftStays DEF UnderWay, SoFar
<1>12. Suffix(cur, tgt, next)
  BY SuffixStays DEF UnderWay, SoFar
<1>13. PhysSoFar(r, cur, tgt, next)
  BY <1>0, <1>3, PhysStays DEF UnderWay, SoFar
<1> QED BY <1>3, <1>7, <1>8, <1>9, <1>10, <1>11, <1>12, <1>13 DEF UnderWay, SoFar

LEMMA VlanAddOnWay ==
  ASSUME NEW s, NEW cur, NEW tgt, NEW todo, UnderWay(s, cur, tgt, todo),
         NEW x, NEW c, c = VlanAdd(x), IsDue(c, todo), CanRun(c, s),
         NEW r, r = Run(c, s)
  PROVE  UnderWay(r, cur, tgt, todo \ {c})
<1> DEFINE next == todo \ {c}
<1>0. /\ \A m : c # LinkDel(m)
      /\ \A m, y : c # LinkAdd(m, y)
      /\ \A m, y : c # MtuSet(m, y)
      /\ \A m : c # Flush(m)
      /\ \A m, y : c # AddrAdd(m, y)
      /\ \A y : c # NftLoad(y)
      /\ \A y : c # VlanDel(y)
  BY DEF LinkAdd, LinkDel, MtuSet, Flush, AddrAdd, VlanDel,
         VlanAdd, NftLoad
<1>1. Fits(s) /\ Fits(cur) /\ Fits(tgt)
  BY UnderWayFits
<1>2. x \in tgt.bv /\ x \notin cur.bv /\ c \in todo /\ x \in Triple
  BY <1>1, InPlan DEF UnderWay, SoFar, Suffix, IsDue, Fits
<1>3. /\ r \in Kernel /\ Sound(r) /\ Links(r) = Links(s)
      /\ r.bv = {x} \cup {IF x[2] THEN Demoted(t) ELSE t :
                            t \in {u \in s.bv : u[1] # x[1]}}
      /\ r.vlan = s.vlan /\ r.mtu = s.mtu /\ r.addr = s.addr /\ r.nft = s.nft
  BY <1>2, Takes, VlanAddDoes DEF UnderWay
<1>4. ASSUME NEW t
      PROVE  VlanDel(t) \notin todo
  <2>1. Before(VlanDel(t), c)
    BY Orders
  <2> QED BY <2>1 DEF IsDue
<1>5. s.bv = (cur.bv \cap tgt.bv) \cup {t \in tgt.bv \ cur.bv : VlanAdd(t) \notin todo}
  BY <1>4 DEF UnderWay, SoFar, BridgeSoFar
<1>6. ASSUME NEW t \in s.bv
      PROVE  t[1] # x[1] /\ (IF x[2] THEN Demoted(t) ELSE t) = t
  <2>1. t \in tgt.bv /\ t # x /\ t \in Triple
    BY <1>1, <1>2, <1>5 DEF Fits
  <2>2. t[1] # x[1] /\ (x[2] => ~ t[2])
    BY <2>1, <1>2 DEF UnderWay, Sound, PortSound
  <2>3. ~ t[2] => Demoted(t) = t
    <3>1. PICK v \in Vid, b \in BOOLEAN, d \in BOOLEAN : t = <<v, b, d>>
      BY <2>1 DEF Triple
    <3>2. t[1] = v /\ t[2] = b /\ t[3] = d
      BY <3>1
    <3>3. ~ b => b = FALSE
      OBVIOUS
    <3> QED BY <3>1, <3>2, <3>3 DEF Demoted
  <2> QED BY <2>2, <2>3
<1>7. r.bv = s.bv \cup {x}
  BY <1>3, <1>6
<1>8. BridgeSoFar(r, cur, tgt, next)
  <2>1. \A t : VlanAdd(t) \notin next <=> VlanAdd(t) \notin todo \/ t = x
    BY Same
  <2>2. \A t : VlanDel(t) \notin next
    BY <1>4
  <2> QED BY <2>1, <2>2, <1>2, <1>5, <1>7 DEF BridgeSoFar
<1>9. VlanSoFar(r, cur, tgt, next) /\ Standing(cur, tgt, next) = Standing(cur, tgt, todo)
  <2>1. VlanSoFar(s, cur, tgt, todo) /\ r.vlan = s.vlan
    BY <1>3 DEF UnderWay, SoFar
  <2>2. VlanSoFar(r, cur, tgt, next)
    BY <2>1, <1>0, VlanStays
  <2>3. Standing(cur, tgt, next) = Standing(cur, tgt, todo)
    BY <1>0 DEF Standing
  <2> QED BY <2>2, <2>3
<1>10. MtuSoFar(r, cur, tgt, next)
  BY <1>3, <1>9, <1>0, MtuStays DEF UnderWay, SoFar
<1>11. AddrSoFar(r, cur, tgt, next)
  BY <1>3, <1>9, <1>0, AddrStays DEF UnderWay, SoFar
<1>12. NftSoFar(r, tgt, next)
  BY <1>3, <1>0, NftStays DEF UnderWay, SoFar
<1>13. Suffix(cur, tgt, next)
  BY SuffixStays DEF UnderWay, SoFar
<1>14. PhysSoFar(r, cur, tgt, next)
  BY <1>0, <1>3, PhysStays DEF UnderWay, SoFar
<1> QED BY <1>3, <1>8, <1>9, <1>10, <1>11, <1>12, <1>13, <1>14 DEF UnderWay, SoFar

LEMMA NftLoadOnWay ==
  ASSUME NEW s, NEW cur, NEW tgt, NEW todo, UnderWay(s, cur, tgt, todo),
         NEW x, NEW c, c = NftLoad(x), IsDue(c, todo),
         NEW r, r = Run(c, s)
  PROVE  UnderWay(r, cur, tgt, todo \ {c})
<1> DEFINE next == todo \ {c}
<1>0. /\ \A m : c # LinkDel(m)
      /\ \A m, y : c # LinkAdd(m, y)
      /\ \A m, y : c # MtuSet(m, y)
      /\ \A m : c # Flush(m)
      /\ \A m, y : c # AddrAdd(m, y)
      /\ \A y : c # VlanDel(y) /\ c # VlanAdd(y)
  BY DEF LinkAdd, LinkDel, MtuSet, Flush, AddrAdd, VlanDel,
         VlanAdd, NftLoad
<1>1. Fits(s) /\ Fits(cur) /\ Fits(tgt)
  BY UnderWayFits
<1>2. x = tgt.nft /\ x \in Nft
  <2>1. NftLoad(x) \in Plan(cur, tgt)
    BY DEF UnderWay, SoFar, Suffix, IsDue
  <2>2. x = tgt.nft
    BY <2>1, InPlan
  <2> QED BY <2>2, <1>1 DEF Fits
<1>3. /\ r \in Kernel /\ Sound(r) /\ Links(r) = Links(s) /\ r.nft = x
      /\ r.vlan = s.vlan /\ r.mtu = s.mtu /\ r.addr = s.addr /\ r.bv = s.bv
  BY <1>2, NftLoadDoes DEF UnderWay
<1>4. NftSoFar(r, tgt, next)
  BY <1>2, <1>3 DEF NftSoFar
<1>5. VlanSoFar(r, cur, tgt, next) /\ Standing(cur, tgt, next) = Standing(cur, tgt, todo)
  <2>1. VlanSoFar(s, cur, tgt, todo) /\ r.vlan = s.vlan
    BY <1>3 DEF UnderWay, SoFar
  <2>2. VlanSoFar(r, cur, tgt, next)
    BY <2>1, <1>0, VlanStays
  <2>3. Standing(cur, tgt, next) = Standing(cur, tgt, todo)
    BY <1>0 DEF Standing
  <2> QED BY <2>2, <2>3
<1>6. MtuSoFar(r, cur, tgt, next)
  BY <1>3, <1>5, <1>0, MtuStays DEF UnderWay, SoFar
<1>7. AddrSoFar(r, cur, tgt, next)
  BY <1>3, <1>5, <1>0, AddrStays DEF UnderWay, SoFar
<1>8. BridgeSoFar(r, cur, tgt, next)
  BY <1>3, <1>0, BridgeStays DEF UnderWay, SoFar
<1>9. Suffix(cur, tgt, next)
  BY SuffixStays DEF UnderWay, SoFar
<1>10. PhysSoFar(r, cur, tgt, next)
  BY <1>0, <1>3, PhysStays DEF UnderWay, SoFar
<1> QED BY <1>3, <1>4, <1>5, <1>6, <1>7, <1>8, <1>9, <1>10 DEF UnderWay, SoFar

LEMMA InAPlan ==
  ASSUME NEW cur, NEW tgt, NEW c \in Plan(cur, tgt)
  PROVE  \/ \E l : c = LinkDel(l) \/ c = Flush(l)
         \/ \E l, x : c = LinkAdd(l, x) \/ c = MtuSet(l, x) \/ c = AddrAdd(l, x)
         \/ \E x : c = VlanDel(x) \/ c = VlanAdd(x) \/ c = NftLoad(x)
BY DEF Plan, VlanPlan, MtuPlan, AddrPlan, BridgePlan, NftPlan

LEMMA CommandOnWay ==
  ASSUME NEW s, NEW cur, NEW tgt, NEW todo, UnderWay(s, cur, tgt, todo),
         NEW c, IsDue(c, todo), CanRun(c, s)
  PROVE  UnderWay(Run(c, s), cur, tgt, todo \ {c})
<1>1. c \in Plan(cur, tgt)
  BY DEF UnderWay, SoFar, Suffix, IsDue
<1>2. ASSUME NEW l, c = LinkDel(l) \/ c = Flush(l)
      PROVE  UnderWay(Run(c, s), cur, tgt, todo \ {c})
  BY <1>2, LinkDelOnWay, FlushOnWay
<1>3. ASSUME NEW l, NEW x, c = LinkAdd(l, x) \/ c = MtuSet(l, x) \/ c = AddrAdd(l, x)
      PROVE  UnderWay(Run(c, s), cur, tgt, todo \ {c})
  BY <1>3, LinkAddOnWay, MtuSetOnWay, AddrAddOnWay
<1>4. ASSUME NEW x, c = VlanDel(x) \/ c = VlanAdd(x) \/ c = NftLoad(x)
      PROVE  UnderWay(Run(c, s), cur, tgt, todo \ {c})
  BY <1>4, VlanDelOnWay, VlanAddOnWay, NftLoadOnWay
<1> QED BY <1>1, <1>2, <1>3, <1>4, InAPlan

(* What the kernel can refuse once nothing is swept away: the known causes *)
(* are all there are, and the stale links are gone by then.                *)
LEMMA Refused ==
  ASSUME NEW s, NEW cur, NEW tgt, NEW todo, UnderWay(s, cur, tgt, todo),
         NEW c, IsDue(c, todo), ~ CanRun(c, s)
  PROVE  /\ \/ (Links(tgt) \cap Phys) \ Links(s) # {}
            \/ \E l \in DOMAIN tgt.vlan :
                 /\ l < tgt.vlan[l][1]
                 /\ tgt.vlan[l][1] \in Links(s) => s.mtu[tgt.vlan[l][1]] < tgt.mtu[l]
            \/ \E l \in Stale(cur, tgt) : l \notin DOMAIN tgt.vlan /\ cur.addr[l] # {}
         /\ \A l \in DOMAIN s.vlan : l \in DOMAIN tgt.vlan /\ s.vlan[l] = tgt.vlan[l]
<1> DEFINE Gone == (Links(tgt) \cap Phys) \ Links(s) # {}
           Soon(l) == /\ l < tgt.vlan[l][1]
                      /\ tgt.vlan[l][1] \in Links(s) => s.mtu[tgt.vlan[l][1]] < tgt.mtu[l]
           Dead == \E l \in Stale(cur, tgt) : l \notin DOMAIN tgt.vlan /\ cur.addr[l] # {}
           Back == \A l \in DOMAIN s.vlan : l \in DOMAIN tgt.vlan /\ s.vlan[l] = tgt.vlan[l]
<1>1. c \in Plan(cur, tgt) /\ c \in todo
  BY DEF UnderWay, SoFar, Suffix, IsDue
<1>2. Fits(s) /\ Fits(cur) /\ Fits(tgt)
  BY UnderWayFits
<1>3. \A l : c # LinkDel(l)
  BY LinkDelOnWay
<1>4. ASSUME \A l, x : c # LinkAdd(l, x)
      PROVE  /\ s.vlan = tgt.vlan /\ Links(s) \subseteq Links(tgt)
             /\ Standing(cur, tgt, todo) = Links(s)
             /\ (\A l, x : c # MtuSet(l, x)) => Links(s) = Links(tgt)
  BY <1>3, <1>4, LinksFirst
<1>5. ASSUME NEW l, NEW x, c = LinkAdd(l, x)
      PROVE  (Gone \/ \E m \in DOMAIN tgt.vlan : Soon(m)) /\ Back
  <2>1. l \in Recreated(cur, tgt) /\ x = tgt.vlan[l] /\ l \in DOMAIN tgt.vlan
    BY <1>1, <1>5, InPlan DEF Recreated
  <2> DEFINE p == x[1]
  <2>2. p \notin Links(s)
    BY <1>5, LinkAddOnWay
  <2>3. p \in Links(tgt) /\ p # l /\ l \in VName /\ p \in Name
    BY <2>1, <1>2, PartsOfSound DEF UnderWay, Fits
  <2>4. \A m : LinkDel(m) \notin todo
    BY <1>5, Orders DEF IsDue
  <2>5. Back
    <3>1. VlanSoFar(s, cur, tgt, todo)
      BY DEF UnderWay, SoFar
    <3> QED BY <2>4, <3>1 DEF VlanSoFar, Kept, Added, Stale, Recreated
  <2>6. CASE p \in Phys
    BY <2>2, <2>3, <2>5, <2>6
  <2>7. CASE p \notin Phys
    <3>1. p \in DOMAIN tgt.vlan
      BY <2>3, <2>7, <1>2, LinksAre
    <3>2. p \notin Standing(cur, tgt, todo)
      BY <2>2, StandingAreThere
    <3>3. LinkAdd(p, tgt.vlan[p]) \in todo
      BY <2>3, <2>7, <3>2 DEF Standing
    <3>4. ~ (p < l)
      <4>1. p < l => Before(LinkAdd(p, tgt.vlan[p]), LinkAdd(l, x))
        BY Places DEF Before
      <4> QED BY <4>1, <3>3, <1>5 DEF IsDue
    <3>5. l < p
      <4>1. l \in Nat /\ p \in Nat
        BY <2>3, RestorePlanAssumption DEF Name
      <4> QED BY <4>1, <3>4, <2>3
    <3>6. Soon(l)
      BY <2>1, <2>2, <3>5
    <3> QED BY <2>1, <2>5, <3>6
  <2> QED BY <2>6, <2>7
<1>6. ASSUME NEW l, NEW x, c = MtuSet(l, x)
      PROVE  (Gone \/ \E m \in DOMAIN tgt.vlan : Soon(m)) /\ Back
  <2>1. /\ s.vlan = tgt.vlan /\ Links(s) \subseteq Links(tgt)
        /\ Standing(cur, tgt, todo) = Links(s)
    BY <1>4, <1>6, Distinct
  <2>2. l \in Links(tgt) /\ x = tgt.mtu[l]
    BY <1>1, <1>2, <1>6, InPlan DEF Resized, Fits
  <2>3. CASE l \notin Links(s)
    <3>1. l \in Phys
      BY <2>1, <2>2, <2>3, <1>2, LinksAre
    <3> QED BY <3>1, <2>1, <2>2, <2>3
  <2>4. CASE l \in Links(s)
    <3> DEFINE p == tgt.vlan[l][1]
    <3>1. l \in DOMAIN tgt.vlan /\ ~ (x <= s.mtu[p])
      BY <2>1, <2>4, <1>6, Takes
    <3>2. /\ p \in Links(s) /\ p \in Links(tgt) /\ p # l /\ tgt.mtu[l] <= tgt.mtu[p]
      BY <3>1, <2>1, PartsOfSound DEF UnderWay
    <3>3. /\ p \in Nat /\ l \in Nat /\ s.mtu[p] \in Nat /\ tgt.mtu[p] \in Nat
          /\ tgt.mtu[l] \in Nat
      BY <3>2, <2>2, <1>2, RestorePlanAssumption DEF Fits, Name
    <3>4. MtuSet(p, tgt.mtu[p]) \in todo
      <4>1. s.mtu[p] # tgt.mtu[p]
        BY <2>2, <3>1, <3>2, <3>3
      <4> QED BY <4>1, <3>2, <2>1 DEF UnderWay, SoFar, MtuSoFar
    <3>5. ~ (p < l)
      <4>1. p < l => Before(MtuSet(p, tgt.mtu[p]), MtuSet(l, x))
        BY Orders
      <4> QED BY <4>1, <3>4, <1>6 DEF IsDue
    <3>6. l < p /\ s.mtu[p] < tgt.mtu[l]
      BY <2>2, <3>1, <3>2, <3>3, <3>5
    <3> QED BY <2>1, <3>1, <3>6
  <2> QED BY <2>3, <2>4
<1>7. ASSUME NEW l, c = Flush(l)
      PROVE  Dead /\ Back
  <2>1. s.vlan = tgt.vlan /\ Links(s) = Links(tgt)
    BY <1>4, <1>7, Distinct
  <2>2. Have(cur, tgt, l) # {}
    BY <1>1, <1>7, InPlan
  <2>3. l \in Links(cur) /\ cur.addr[l] # {}
    BY <2>2, <1>2 DEF Have, AddrsOf, Bare, Fits
  <2>4. l \notin Links(tgt)
    BY <2>1, <1>7, Takes
  <2>5. l \notin Phys
    BY <2>3, <2>4 DEF UnderWay, SoFar, PhysSoFar
  <2>6. l \in DOMAIN cur.vlan /\ l \notin DOMAIN tgt.vlan
    BY <2>3, <2>4, <2>5, <1>2, LinksAre
  <2>7. l \in Stale(cur, tgt)
    BY <2>6 DEF Stale
  <2> QED BY <2>1, <2>3, <2>6, <2>7
<1>8. \A l, x : c # AddrAdd(l, x)
  BY AddrAddOnWay
<1>9. ASSUME NEW x
      PROVE  c # VlanDel(x) /\ c # VlanAdd(x) /\ c # NftLoad(x)
  <2>1. SUFFICES ASSUME c = VlanDel(x) \/ c = VlanAdd(x)
                 PROVE  Port \in Links(s)
    BY Takes
  <2>2. Links(s) = Links(tgt)
    BY <2>1, <1>4, Distinct
  <2>3. x \in cur.bv \/ x \in tgt.bv
    BY <2>1, <1>1, InPlan
  <2>4. x \in cur.bv => Port \in Links(cur) \cap Phys
    BY RestorePlanAssumption, PartsOfSound DEF UnderWay
  <2>5. x \in tgt.bv => Port \in Links(tgt)
    BY PartsOfSound DEF UnderWay
  <2>6. Links(cur) \cap Phys \subseteq Links(tgt)
    BY DEF UnderWay, SoFar, PhysSoFar
  <2> QED BY <2>2, <2>3, <2>4, <2>5, <2>6
<1>10. (Gone \/ (\E m \in DOMAIN tgt.vlan : Soon(m)) \/ Dead) /\ Back
  <2> HIDE DEF Gone, Soon, Dead, Back
  <2> QED BY <1>1, <1>3, <1>5, <1>6, <1>7, <1>8, <1>9, InAPlan
<1> QED BY <1>10

----------------------------------------------------------------------------
(* The invariant of the specification.                                     *)

PlanInv == TypeOK /\ RestoreInv

LEMMA InitPlans == Init => PlanInv
<1> SUFFICES ASSUME Init PROVE PlanInv
  OBVIOUS
<1>1. TypeOK
  BY InitTypes
<1>2. phase = "drift" /\ snap = NIL
  BY DEF Init
<1> QED BY <1>1, <1>2 DEF PlanInv, RestoreInv

LEMMA RunCommandPlans ==
  ASSUME PlanInv, RunCommand
  PROVE  RestoreInv'
<1>1. PICK c \in Due : CanRun(c, k) /\ k' = Run(c, k) /\ plan' = plan \ {c}
  BY DEF RunCommand
<1>2. IsDue(c, plan) /\ c \in Command
  BY DEF Due, IsDue, PlanInv, TypeOK
<1>3. phase = "restoring" /\ snap # NIL /\ Links(k) \cap Phys \subseteq Links(snap)
  BY DEF PlanInv, RestoreInv, RunCommand
<1>4. UNCHANGED <<snap, routed, start, phase, ops, tries>>
  BY DEF RunCommand
<1>5. Links(k') \cap Phys \subseteq Links(snap')
  <2>1. Links(Run(c, k)) \cap Phys \subseteq Links(k)
    BY <1>1, <1>2, RunIsSound DEF PlanInv, TypeOK
  <2> QED BY <2>1, <1>1, <1>3, <1>4
<1>6. ASSUME ~ Sweeps(start, snap)
      PROVE  UnderWay(k', start', snap', plan')
  <2>1. UnderWay(k, start, snap, plan)
    BY <1>3, <1>6 DEF PlanInv, RestoreInv
  <2>2. UnderWay(Run(c, k), start, snap, plan \ {c})
    BY <1>1, <1>2, <2>1, CommandOnWay
  <2> QED BY <2>2, <1>1, <1>4
<1>7. (~ Sweeps(start, snap))' => ~ Sweeps(start, snap)
  BY <1>4 DEF Sweeps, Stale
<1>8. (~ Sweeps(start, snap) => UnderWay(k, start, snap, plan))'
  BY <1>6, <1>7 DEF UnderWay, Sound, Links, SoFar, Suffix, PhysSoFar, VlanSoFar,
                    MtuSoFar, AddrSoFar, BridgeSoFar, NftSoFar, Sweeps, Stale
<1>9. (Links(k) \cap Phys \subseteq Links(snap))'
  BY <1>5 DEF Links
<1> QED BY <1>3, <1>4, <1>8, <1>9 DEF RestoreInv

LEMMA NextPlans ==
  ASSUME PlanInv, [Next]_vars
  PROVE  PlanInv'
<1>1. TypeOK'
  BY NextTypes DEF PlanInv
<1>2. ASSUME UNCHANGED <<k, snap, start, plan, phase>>
      PROVE  RestoreInv'
  BY <1>2 DEF PlanInv, RestoreInv
<1>3. CASE Op
  <2>1. phase = "drift" /\ UNCHANGED <<phase, snap>>
    BY <1>3 DEF Op, Apply
  <2>2. Links(k') \cap Phys \subseteq Links(k)
    BY <1>3, OpIsSound DEF PlanInv, TypeOK
  <2>3. (snap # NIL => Links(k) \cap Phys \subseteq Links(snap))'
    BY <2>1, <2>2 DEF PlanInv, RestoreInv, Links
  <2> QED BY <1>1, <2>1, <2>3 DEF PlanInv, RestoreInv
<1>4. CASE TakeSnapshot
  <2>1. phase = "drift" /\ UNCHANGED <<phase, k>> /\ snap' = Captured(k)
    BY <1>4 DEF TakeSnapshot
  <2>2. Links(Captured(k)) = Links(k)
    BY CaptureOf DEF PlanInv, TypeOK
  <2>3. (snap # NIL => Links(k) \cap Phys \subseteq Links(snap))'
    BY <2>1, <2>2 DEF Links
  <2> QED BY <1>1, <2>1, <2>3 DEF PlanInv, RestoreInv
<1>5. CASE Rollback
  <2>1. /\ snap # NIL /\ phase \in {"drift", "failed"}
        /\ start' = Captured(k) /\ plan' = Plan(Captured(k), snap)
        /\ phase' = "restoring" /\ UNCHANGED <<k, snap>>
    BY <1>5 DEF Rollback
  <2>2. Links(k) \cap Phys \subseteq Links(snap)
    BY <2>1 DEF PlanInv, RestoreInv
  <2>3. ASSUME ~ Sweeps(Captured(k), snap)
        PROVE  UnderWay(k, Captured(k), snap, Plan(Captured(k), snap))
    BY <2>1, <2>2, <2>3, AtTheStart DEF PlanInv, TypeOK
  <2>4. (~ Sweeps(start, snap))' => ~ Sweeps(Captured(k), snap)
    BY <2>1 DEF Sweeps, Stale
  <2>5. (~ Sweeps(start, snap))' => UnderWay(k', start', snap', plan')
    BY <2>1, <2>3, <2>4
  <2>6. (~ Sweeps(start, snap) => UnderWay(k, start, snap, plan))'
    BY <2>5 DEF UnderWay, Sound, Links, SoFar, Suffix, PhysSoFar, VlanSoFar,
                MtuSoFar, AddrSoFar, BridgeSoFar, NftSoFar, Sweeps, Stale
  <2>7. (Links(k) \cap Phys \subseteq Links(snap))'
    BY <2>1, <2>2 DEF Links
  <2> QED BY <1>1, <2>1, <2>6, <2>7 DEF PlanInv, RestoreInv
<1>6. CASE RunCommand
  BY <1>1, <1>6, RunCommandPlans DEF PlanInv
<1>7. CASE CommandFails
  <2>1. phase = "restoring" /\ phase' = "failed" /\ UNCHANGED <<k, snap>>
    BY <1>7 DEF CommandFails
  <2>2. (snap # NIL => Links(k) \cap Phys \subseteq Links(snap))'
    BY <2>1 DEF PlanInv, RestoreInv, Links
  <2> QED BY <1>1, <2>1, <2>2 DEF PlanInv, RestoreInv
<1>8. CASE Restored
  <2>1. /\ phase = "restoring" /\ plan = {} /\ phase' = "done"
        /\ UNCHANGED <<k, snap, start, plan>>
    BY <1>8 DEF Restored
  <2>2. (snap # NIL => Links(k) \cap Phys \subseteq Links(snap))'
    BY <2>1 DEF PlanInv, RestoreInv, Links
  <2>3. ~ Sweeps(start, snap) => UnderWay(k, start, snap, plan)
    BY <2>1 DEF PlanInv, RestoreInv
  <2>4. (~ Sweeps(start, snap) => UnderWay(k, start, snap, plan))'
    BY <2>1, <2>3
  <2> QED BY <1>1, <2>1, <2>2, <2>4 DEF PlanInv, RestoreInv
<1>9. CASE UNCHANGED vars
  BY <1>1, <1>2, <1>9 DEF vars, PlanInv
<1> QED BY <1>3, <1>4, <1>5, <1>6, <1>7, <1>8, <1>9 DEF Next

LEMMA PlanInvAlways == Spec => []PlanInv
<1>1. Init => PlanInv
  BY InitPlans
<1>2. PlanInv /\ [Next]_vars => PlanInv'
  BY NextPlans
<1> QED BY <1>1, <1>2, PTL DEF Spec

(* Nothing to come: the node is as the snapshot has it.                    *)
LEMMA NothingToCome ==
  ASSUME NEW s, NEW cur, NEW tgt, UnderWay(s, cur, tgt, {})
  PROVE  Compared(s) = Compared(tgt)
<1>1. Fits(s) /\ Fits(tgt)
  BY UnderWayFits
<1>2. s.vlan = tgt.vlan /\ Standing(cur, tgt, {}) = Links(s)
  BY LinksAreBack
<1>3. Links(s) = Links(tgt)
  BY AllAreBack
<1>4. s.mtu = tgt.mtu
  <2>1. \A l \in Links(tgt) : s.mtu[l] = tgt.mtu[l]
    BY <1>2, <1>3 DEF UnderWay, SoFar, MtuSoFar
  <2>2. s.mtu \in [Links(tgt) -> Mtu] /\ tgt.mtu \in [Links(tgt) -> Mtu]
    BY <1>1, <1>3 DEF Fits
  <2> QED BY <2>1, <2>2
<1>5. /\ DOMAIN s.addr = Links(tgt) /\ DOMAIN tgt.addr = Links(tgt)
      /\ \A l \in Links(tgt) : Bare(s.addr[l]) = Bare(tgt.addr[l])
  <2>1. \A l \in Links(tgt) : Bare(s.addr[l]) = {a \in Bare(tgt.addr[l]) : TRUE}
    BY <1>2, <1>3 DEF UnderWay, SoFar, AddrSoFar
  <2>2. \A l \in Links(tgt) : {a \in Bare(tgt.addr[l]) : TRUE} = Bare(tgt.addr[l])
    OBVIOUS
  <2> QED BY <2>1, <2>2, <1>1, <1>3 DEF Fits
<1>6. [l \in DOMAIN s.addr |-> Bare(s.addr[l])] = [l \in DOMAIN tgt.addr |-> Bare(tgt.addr[l])]
  BY <1>5
<1>7. s.bv = tgt.bv
  BY DEF UnderWay, SoFar, BridgeSoFar
<1>8. s.nft = tgt.nft
  BY DEF UnderWay, SoFar, NftSoFar
<1> QED BY <1>2, <1>4, <1>6, <1>7, <1>8 DEF Compared

(* A restore that runs to its end leaves the node in the snapshot's state, *)
(* secondary flags apart, whatever the links, VLANs, MTUs and addresses,   *)
(* and whatever was done to them since, unless it sweeps a VLAN link away  *)
(* (plan_kernel_restore).                                                  *)
THEOREM RestoresMatch == Spec => []CompletedRestoreMatches
<1>1. PlanInv => CompletedRestoreMatches
  BY NothingToCome DEF PlanInv, RestoreInv, CompletedRestoreMatches
<1> QED BY <1>1, PlanInvAlways, PTL

LEMMA AgreedStays ==
  ASSUME NEW s, NEW cur, NEW tgt, NEW todo, UnderWay(s, cur, tgt, todo)
  PROVE  /\ \A l \in DOMAIN tgt.vlan \cap DOMAIN cur.vlan :
              tgt.vlan[l] = cur.vlan[l] =>
                l \in DOMAIN s.vlan /\ s.vlan[l] = tgt.vlan[l]
         /\ \A l \in (Links(tgt) \cap Links(cur)) \ Recreated(cur, tgt) :
              /\ tgt.mtu[l] = cur.mtu[l] => s.mtu[l] = tgt.mtu[l]
              /\ AddrsOf(tgt, l) = AddrsOf(cur, l) => AddrsOf(s, l) = AddrsOf(tgt, l)
         /\ tgt.bv \cap cur.bv \subseteq s.bv
<1>1. Fits(s) /\ Fits(cur) /\ Fits(tgt)
  BY UnderWayFits
<1>2. todo \subseteq Plan(cur, tgt)
  BY DEF UnderWay, SoFar, Suffix
<1>3. ASSUME NEW l \in DOMAIN tgt.vlan \cap DOMAIN cur.vlan, tgt.vlan[l] = cur.vlan[l]
      PROVE  l \in DOMAIN s.vlan /\ s.vlan[l] = tgt.vlan[l]
  <2>1. l \in Kept(cur, tgt, todo) /\ l \notin Added(cur, tgt, todo)
    BY <1>3 DEF Kept, Added, Stale, Recreated
  <2> QED BY <2>1, <1>3 DEF UnderWay, SoFar, VlanSoFar
<1>4. ASSUME NEW l \in (Links(tgt) \cap Links(cur)) \ Recreated(cur, tgt)
      PROVE  /\ tgt.mtu[l] = cur.mtu[l] => s.mtu[l] = tgt.mtu[l]
             /\ AddrsOf(tgt, l) = AddrsOf(cur, l) => AddrsOf(s, l) = AddrsOf(tgt, l)
  <2>1. l \in Standing(cur, tgt, todo)
    BY DEF Standing
  <2>2. /\ l \in DOMAIN cur.mtu /\ l \in DOMAIN tgt.mtu
        /\ l \in DOMAIN cur.addr /\ l \in DOMAIN tgt.addr
    BY <1>1 DEF Fits
  <2>3. ASSUME tgt.mtu[l] = cur.mtu[l]
        PROVE  s.mtu[l] = tgt.mtu[l]
    <3>1. l \notin Resized(cur, tgt)
      BY <2>2, <2>3 DEF Resized
    <3>2. MtuSet(l, tgt.mtu[l]) \notin todo
      BY <3>1, <1>2, InPlan
    <3> QED BY <3>2, <2>1 DEF UnderWay, SoFar, MtuSoFar
  <2>4. ASSUME AddrsOf(tgt, l) = AddrsOf(cur, l)
        PROVE  AddrsOf(s, l) = AddrsOf(tgt, l)
    <3>1. l \notin Readdressed(cur, tgt)
      BY <2>2, <2>4 DEF Readdressed, Have
    <3>2. Flush(l) \notin todo /\ \A a : AddrAdd(l, a) \notin todo
      BY <3>1, <1>2, InPlan
    <3>3. Bare(s.addr[l]) = Bare(tgt.addr[l])
      BY <3>2, <2>1 DEF UnderWay, SoFar, AddrSoFar
    <3>4. l \in DOMAIN s.addr
      BY <1>1, <2>1, StandingAreThere DEF Fits
    <3> QED BY <3>3, <3>4, <2>2 DEF AddrsOf
  <2> QED BY <2>3, <2>4
<1>5. tgt.bv \cap cur.bv \subseteq s.bv
  BY DEF UnderWay, SoFar, BridgeSoFar
<1> QED BY <1>3, <1>4, <1>5

(* A restore leaves alone what node and snapshot agree on: no clamped MTU, *)
(* lost PVID or flushed address on the way, unless it sweeps a VLAN link   *)
(* away ("applies only what differs").                                     *)
THEOREM RestoresAreMinimal == Spec => []AgreedIsUntouched
<1>1. PlanInv => AgreedIsUntouched
  BY AgreedStays DEF PlanInv, RestoreInv, AgreedIsUntouched
<1> QED BY <1>1, PlanInvAlways, PTL

LEMMA NextFailsForCause ==
  ASSUME PlanInv, FailsForCause, [Next]_vars
  PROVE  FailsForCause'
<1>1. ASSUME UNCHANGED <<k, snap, start, phase>>
      PROVE  FailsForCause'
  BY <1>1 DEF FailsForCause, Vanished, Early, FlushesDeleted, Sweeps, Stale, Links, Captured
<1>2. CASE Op \/ TakeSnapshot
  BY <1>2 DEF Op, Apply, TakeSnapshot, FailsForCause
<1>3. CASE Rollback \/ RunCommand \/ Restored
  BY <1>3 DEF Rollback, RunCommand, Restored, FailsForCause
<1>4. CASE CommandFails
  <2>1. PICK c \in Due : ~ CanRun(c, k)
    BY <1>4 DEF CommandFails
  <2>2. UNCHANGED <<k, snap, start>> /\ phase = "restoring" /\ IsDue(c, plan)
    BY <1>4 DEF CommandFails, Due, IsDue
  <2>3. ASSUME ~ Sweeps(start, snap)
        PROVE  /\ Vanished \/ Early \/ FlushesDeleted
               /\ Stale(Captured(k), snap) = {}
    <3>1. UnderWay(k, start, snap, plan)
      BY <2>2, <2>3 DEF PlanInv, RestoreInv
    <3>2. Vanished \/ Early \/ FlushesDeleted
      BY <2>1, <2>2, <3>1, Refused DEF Vanished, Early, FlushesDeleted
    <3>3. \A l \in DOMAIN k.vlan : l \in DOMAIN snap.vlan /\ k.vlan[l] = snap.vlan[l]
      BY <2>1, <2>2, <3>1, Refused
    <3>4. Captured(k).vlan = k.vlan
      BY DEF Captured
    <3> QED BY <3>2, <3>3, <3>4 DEF Stale
  <2>4. ~ Sweeps(start, snap) =>
          /\ Vanished \/ Early \/ FlushesDeleted
          /\ Stale(Captured(k), snap) = {}
    BY <2>3
  <2> QED BY <2>2, <2>4
       DEF FailsForCause, Vanished, Early, FlushesDeleted, Sweeps, Stale, Links, Captured
<1>5. CASE UNCHANGED vars
  BY <1>1, <1>5 DEF vars
<1> QED BY <1>2, <1>3, <1>4, <1>5 DEF Next

(* A restore that failed without sweeping a VLAN link away failed for one  *)
(* of the known causes, whatever the ops did before: a physical link that  *)
(* is gone, a VLAN link named before the one it is on, a deleted link that *)
(* had addresses; and it left nothing stale behind, so that the last of    *)
(* them does not meet the next try (plan_kernel_restore, restore).         *)
THEOREM FailuresHaveCauses == Spec => []FailsForCause
<1>1. Init => FailsForCause
  BY DEF Init, FailsForCause
<1>2. PlanInv /\ FailsForCause /\ [Next]_vars => FailsForCause'
  BY NextFailsForCause
<1> QED BY <1>1, <1>2, PlanInvAlways, PTL DEF Spec
=============================================================================

-------------------------- MODULE LinkLoop_proofs --------------------------
(***************************************************************************)
(* Proofs about the loop between link status, kernel and netlink, for any  *)
(* set of ports, any flags and any number of disturbances.                 *)
(***************************************************************************)
EXTENDS LinkLoop, WellFoundedInduction, TLAPS

(***************************************************************************)
(* Ports on the chip                                                       *)
(***************************************************************************)
LEMMA BlockAndLane ==
  ASSUME NEW p \in SwitchPorts
  PROVE  BlockOf(p) \in XlBlocks /\ LaneOf(p) \in Lanes
<1> DEFINE xe == p - 1
<1>1. xe \in 0 .. 51 BY DEF SwitchPorts
<1>2. xe % 4 \in 0 .. 3 /\ (xe <= 47 => xe \div 4 \in 0 .. 11) BY <1>1
<1>3. permute_20_23[xe % 4] \in 0 .. 3 BY <1>2 DEF permute_20_23, Lanes
<1> QED BY <1>1, <1>2, <1>3 DEF BlockOf, LaneOf, XlBlocks, Lanes

\* No two ports share a lane of a block, the exchanged lanes of ports 21 to
\* 28 included: a bit of PORT_ENABLE belongs to one port.
LEMMA LanesApart ==
  ASSUME NEW p \in SwitchPorts, NEW q \in SwitchPorts,
         BlockOf(p) = BlockOf(q), LaneOf(p) = LaneOf(q)
  PROVE  p = q
<1>1. PICK x \in 0 .. 51, y \in 0 .. 51 : x = p - 1 /\ y = q - 1
  BY DEF SwitchPorts
<1>2. /\ x \in Nat /\ y \in Nat
      /\ x = 4 * (x \div 4) + (x % 4) /\ y = 4 * (y \div 4) + (y % 4)
      /\ x % 4 \in 0 .. 3 /\ y % 4 \in 0 .. 3
  OBVIOUS
<1>3. /\ BlockOf(p) = IF x <= 47 THEN x \div 4 ELSE x - 36
      /\ BlockOf(q) = IF y <= 47 THEN y \div 4 ELSE y - 36
  BY <1>1 DEF BlockOf
<1>4. /\ LaneOf(p) = IF x \in 20 .. 27 THEN permute_20_23[x % 4] ELSE IF x >= 48 THEN 0 ELSE x % 4
      /\ LaneOf(q) = IF y \in 20 .. 27 THEN permute_20_23[y % 4] ELSE IF y >= 48 THEN 0 ELSE y % 4
  BY <1>1 DEF LaneOf
<1>5. /\ permute_20_23[0] = 1 /\ permute_20_23[1] = 0
      /\ permute_20_23[2] = 3 /\ permute_20_23[3] = 2
  BY DEF permute_20_23, Lanes
<1>6. x \in Int /\ y \in Int /\ 0 <= x /\ 0 <= y /\ x <= 51 /\ y <= 51 OBVIOUS
<1>7. x = y
  <2>1. CASE x <= 47 /\ y <= 47
    <3>1. x \div 4 = y \div 4 BY <1>3, <2>1
    <3>2. x \in 20 .. 27 <=> y \in 20 .. 27
      <4>1. \A z \in 0 .. 51 : z \in 20 .. 27 <=> z \div 4 \in 5 .. 6 OBVIOUS
      <4> QED BY <3>1, <4>1
    <3>3. x % 4 = y % 4
      <4>1. CASE x \in 20 .. 27
        <5>1. permute_20_23[x % 4] = permute_20_23[y % 4] BY <1>4, <3>2, <4>1
        <5> QED BY <1>2, <1>5, <5>1
      <4>2. CASE x \notin 20 .. 27
        <5>1. ~(x >= 48) /\ ~(y >= 48) BY <1>6, <2>1
        <5>2. LaneOf(p) = x % 4 /\ LaneOf(q) = y % 4 BY <1>4, <3>2, <4>2, <5>1
        <5> QED BY <5>2
      <4> QED BY <4>1, <4>2
    <3> QED BY <1>2, <3>1, <3>3
  <2>2. CASE x > 47 /\ y > 47
    <3>1. ~(x <= 47) /\ ~(y <= 47) BY <1>6, <2>2
    <3>2. x - 36 = y - 36 BY <1>3, <3>1
    <3> QED BY <1>6, <3>2
  <2>3. CASE (x <= 47 /\ y > 47) \/ (x > 47 /\ y <= 47)
    <3>1. \A z \in 0 .. 47 : z \div 4 # 12 /\ z \div 4 # 13 /\ z \div 4 # 14 /\ z \div 4 # 15 OBVIOUS
    <3>2. \A z \in 48 .. 51 : z - 36 \in {12, 13, 14, 15} OBVIOUS
    <3>3. CASE x <= 47 /\ y > 47
      <4>1. x \in 0 .. 47 /\ y \in 48 .. 51 /\ ~(y <= 47) BY <1>6, <3>3
      <4>2. x \div 4 = y - 36 BY <1>3, <4>1, <3>3
      <4> QED BY <3>1, <3>2, <4>1, <4>2
    <3>4. CASE x > 47 /\ y <= 47
      <4>1. y \in 0 .. 47 /\ x \in 48 .. 51 /\ ~(x <= 47) BY <1>6, <3>4
      <4>2. y \div 4 = x - 36 BY <1>3, <4>1, <3>4
      <4> QED BY <3>1, <3>2, <4>1, <4>2
    <3> QED BY <2>3, <3>3, <3>4
  <2> QED BY <1>6, <2>1, <2>2, <2>3
<1> QED BY <1>1, <1>7 DEF SwitchPorts

\* port_enable_set() keeps the types, however its write ends.
LEMMA PortSetType ==
  ASSUME PortTypeOK, NEW p \in SwitchPorts, NEW e \in BOOLEAN, NEW o,
         port_enable_set(p, e, o)
  PROVE  PortTypeOK'
<1>1. BlockOf(p) \in XlBlocks /\ LaneOf(p) \in Lanes BY BlockAndLane
<1> DEFINE b   == BlockOf(p)
           val == IF e THEN xlport_enable_shadow[b] \cup {LaneOf(p)}
                  ELSE xlport_enable_shadow[b] \ {LaneOf(p)}
<1>2. val \in SUBSET Lanes BY <1>1 DEF PortTypeOK
<1>3. /\ xlport_enable_shadow' = [xlport_enable_shadow EXCEPT ![b] = val]
      /\ port_enable' = port_enable \/ port_enable' = [port_enable EXCEPT ![b] = val]
      /\ serdes_called' = serdes_called \/ serdes_called' = serdes_called \cup {p}
  BY DEF port_enable_set, sbus_mem_write
<1> HIDE DEF val, b
<1> QED BY <1>2, <1>3 DEF PortTypeOK

\* ... and, when it succeeds, changes what the hardware says of that port and
\* of no other.
Mirrored == port_enable = xlport_enable_shadow

LEMMA PortSetEffect ==
  ASSUME PortTypeOK, Mirrored, NEW p \in SwitchPorts, NEW e \in BOOLEAN,
         port_enable_set(p, e, "ok")
  PROVE  /\ Mirrored'
         /\ HwEnabled(p)' <=> e
         /\ \A q \in SwitchPorts : q # p => (HwEnabled(q)' <=> HwEnabled(q))
<1>1. \A q \in SwitchPorts : BlockOf(q) \in XlBlocks /\ LaneOf(q) \in Lanes BY BlockAndLane
<1> DEFINE b   == BlockOf(p)
           val == IF e THEN xlport_enable_shadow[b] \cup {LaneOf(p)}
                  ELSE xlport_enable_shadow[b] \ {LaneOf(p)}
<1>2. /\ xlport_enable_shadow' = [xlport_enable_shadow EXCEPT ![b] = val]
      /\ port_enable' = [port_enable EXCEPT ![b] = val]
  BY DEF port_enable_set, sbus_mem_write
<1>3. Mirrored' BY <1>2 DEF Mirrored
<1>4. b \in XlBlocks /\ b \in DOMAIN port_enable BY <1>1 DEF PortTypeOK
<1>5. port_enable'[b] = val BY <1>2, <1>4
<1>6. HwEnabled(p)' <=> e BY <1>5 DEF HwEnabled
<1>7. ASSUME NEW q \in SwitchPorts, q # p
      PROVE  HwEnabled(q)' <=> HwEnabled(q)
  <2>1. CASE BlockOf(q) = b
    <3>1. LaneOf(q) # LaneOf(p) BY <1>7, <2>1, LanesApart
    <3>2. LaneOf(q) \in val <=> LaneOf(q) \in port_enable[b] BY <3>1 DEF Mirrored
    <3> QED BY <1>5, <2>1, <3>2 DEF HwEnabled
  <2>2. CASE BlockOf(q) # b
    <3>1. port_enable'[BlockOf(q)] = port_enable[BlockOf(q)] BY <1>1, <1>2, <2>2 DEF PortTypeOK
    <3> QED BY <3>1 DEF HwEnabled
  <2> QED BY <2>1, <2>2
<1> QED BY <1>3, <1>6, <1>7

(***************************************************************************)
(* The order of the loop                                                   *)
(***************************************************************************)
LEMMA Least ==
  ASSUME NEW T \in SUBSET Nat, T # {}
  PROVE  \E m \in T : \A k \in T : m <= k
<1>1. PICK m \in T : \A k \in T : ~(<<k, m>> \in OpToRel(<, Nat))
  BY NatLessThanWellFounded, WFMin, Zenon
<1>2. ASSUME NEW k \in T PROVE m <= k
  <2>1. k \in Nat /\ m \in Nat OBVIOUS
  <2>2. ~(k < m) BY <1>1, <2>1 DEF OpToRel
  <2> QED BY <2>1, <2>2
<1> QED BY <1>2

LEMMA FirstPort == First \in Ports
BY LinkLoopAssumption, AsicAssumption, Least DEF First

LEMMA NextIsPort == NextPort \in Ports
<1> DEFINE later == {p \in Ports : p > cur}
<1>1. later \in SUBSET Nat BY AsicAssumption
<1>2. CASE later = {} BY <1>2, FirstPort DEF NextPort
<1>3. CASE later # {}
  <2> HIDE DEF later
  <2>1. \E p \in later : \A q \in later : p <= q BY <1>1, <1>3, Least
  <2>2. (CHOOSE p \in later : \A q \in later : p <= q) \in later BY <2>1
  <2> QED BY <1>3, <2>2 DEF later, NextPort
<1> QED BY <1>2, <1>3

(***************************************************************************)
(* Types                                                                   *)
(***************************************************************************)
LEMMA PortsAreSwitchPorts == \A p \in Ports : p \in SwitchPorts
BY LinkLoopAssumption

LEMMA EnabledType == EnabledLanes(Ports) \in [XlBlocks -> SUBSET Lanes]
BY BlockAndLane, PortsAreSwitchPorts DEF EnabledLanes

LEMMA TypeInit == Init => TypeOK
<1> SUFFICES ASSUME Init PROVE TypeOK OBVIOUS
<1>1. PortTypeOK BY EnabledType, LinkLoopAssumption DEF Init, PortTypeOK
<1>2. budget \in [Kinds -> Nat]
  BY LinkLoopAssumption DEF Init, Kinds
<1>3. cur \in Ports BY FirstPort DEF Init
<1> QED BY <1>1, <1>2, <1>3 DEF Init, TypeOK

LEMMA ReadingType ==
  ASSUME TypeOK, NEW up \in BOOLEAN, Reading(up)
  PROVE  lpc' \in {"poll", "get", "set"} /\ cur' \in Ports /\ last_up' \in [Ports -> {Never, Up, Down}]
BY NextIsPort DEF TypeOK, Reading, GoOn

LEMMA SpendType == ASSUME TypeOK, NEW k \in Kinds, Spend(k) PROVE budget' \in [Kinds -> Nat]
BY DEF TypeOK, Spend

LEMMA SetFlagsType ==
  ASSUME TypeOK, NEW p \in Ports, NEW new \in SUBSET Flags, SetFlags(p, new)
  PROVE  flags' \in [Ports -> SUBSET Flags] /\ nlq' \in Seq([port : Ports, up : BOOLEAN])
<1>1. [port |-> p, up |-> "UP" \in new] \in [port : Ports, up : BOOLEAN] OBVIOUS
<1>2. nlq \in Seq([port : Ports, up : BOOLEAN]) BY DEF TypeOK
<1>3. Append(nlq, [port |-> p, up |-> "UP" \in new]) \in Seq([port : Ports, up : BOOLEAN])
  BY <1>1, <1>2
<1> QED BY <1>2, <1>3 DEF TypeOK, SetFlags

LEMMA TypeStep == TypeOK /\ [Next]_vars => TypeOK'
<1> SUFFICES ASSUME TypeOK, [Next]_vars PROVE TypeOK' OBVIOUS
<1> USE DEF threadVars
<1>0. {"flap", "admin", "read", "tun"} = Kinds BY DEF Kinds
<1>1. CASE ReadLink
  <2>1. line[LinkSource(cur)] \in BOOLEAN BY DEF TypeOK, Lines
  <2>2. lpc' \in {"poll", "get", "set"} /\ cur' \in Ports /\ last_up' \in [Ports -> {Never, Up, Down}]
    BY <1>1, <2>1, ReadingType DEF ReadLink
  <2> QED BY <1>1, <2>2 DEF ReadLink, TypeOK, PortTypeOK, portVars
<1>2. CASE ReadLinkFails
  <2>1. lpc' \in {"poll", "get", "set"} /\ cur' \in Ports /\ last_up' \in [Ports -> {Never, Up, Down}]
    <3>1. CASE cur >= 49 BY <1>2, <3>1, NextIsPort DEF ReadLinkFails, GoOn, TypeOK
    <3>2. CASE ~(cur >= 49)
      <4>1. (LaneOf(cur) \in xlport_enable_shadow[BlockOf(cur)]) \in BOOLEAN OBVIOUS
      <4>2. Reading(LaneOf(cur) \in xlport_enable_shadow[BlockOf(cur)])
        BY <1>2, <3>2 DEF ReadLinkFails
      <4> QED BY <4>1, <4>2, ReadingType
    <3> QED BY <3>1, <3>2
  <2>2. budget' \in [Kinds -> Nat] BY <1>0, <1>2, SpendType DEF ReadLinkFails
  <2> QED BY <1>2, <2>1, <2>2 DEF ReadLinkFails, TypeOK, PortTypeOK, portVars
<1>3. CASE GetFlags BY <1>3 DEF GetFlags, TypeOK, PortTypeOK, portVars
<1>4. CASE WriteFlags
  <2> DEFINE new == IF last_up[cur] = Up THEN ifr \cup {"UP"} ELSE ifr \ {"UP"}
  <2>1. new \in SUBSET Flags /\ cur \in Ports BY DEF TypeOK, Flags
  <2>2. SetFlags(cur, new) BY <1>4 DEF WriteFlags
  <2>3. flags' \in [Ports -> SUBSET Flags] /\ nlq' \in Seq([port : Ports, up : BOOLEAN])
    BY <2>1, <2>2, SetFlagsType
  <2> QED BY <1>4, <2>3, NextIsPort DEF WriteFlags, GoOn, TypeOK, PortTypeOK, portVars
<1>5. CASE TunFails
  <2>1. budget' \in [Kinds -> Nat] BY <1>0, <1>5, SpendType DEF TunFails
  <2> QED BY <1>5, <2>1, NextIsPort DEF TunFails, GoOn, TypeOK, PortTypeOK, portVars
<1>6. CASE handle_link
  <2> DEFINE Msgs == [port : Ports, up : BOOLEAN]
  <2>1. nlq \in Seq(Msgs) /\ nlq # << >> BY <1>6 DEF handle_link, TypeOK
  <2> HIDE DEF Msgs
  <2>a. Head(nlq) \in Msgs /\ Tail(nlq) \in Seq(Msgs) BY <2>1
  <2>2. Head(nlq).port \in Ports /\ Head(nlq).up \in BOOLEAN /\ Tail(nlq) \in Seq([port : Ports, up : BOOLEAN])
    BY <2>a DEF Msgs
  <2>3. PICK o \in Outcomes : port_enable_set(Head(nlq).port, Head(nlq).up, o)
    BY <1>6 DEF handle_link
  <2>4. PortTypeOK' BY <2>2, <2>3, PortSetType, PortsAreSwitchPorts DEF TypeOK
  <2> QED BY <1>6, <2>2, <2>4 DEF handle_link, TypeOK
<1>7. CASE \E l \in Lines : Flap(l)
  <2>1. PICK l \in Lines : Flap(l) BY <1>7
  <2>2. budget' \in [Kinds -> Nat] BY <1>0, <2>1, SpendType DEF Flap
  <2> QED BY <2>1, <2>2 DEF Flap, TypeOK, PortTypeOK, portVars
<1>8. CASE \E p \in Ports, f \in Flags : Admin(p, f)
  <2>1. PICK p \in Ports, f \in Flags : Admin(p, f) BY <1>8
  <2> DEFINE new == IF f \in flags[p] THEN flags[p] \ {f} ELSE flags[p] \cup {f}
  <2>2. new \in SUBSET Flags BY DEF TypeOK
  <2>3. SetFlags(p, new) BY <2>1 DEF Admin
  <2>4. flags' \in [Ports -> SUBSET Flags] /\ nlq' \in Seq([port : Ports, up : BOOLEAN])
    BY <2>2, <2>3, SetFlagsType
  <2>5. budget' \in [Kinds -> Nat] BY <1>0, <2>1, SpendType DEF Admin
  <2> QED BY <2>1, <2>4, <2>5 DEF Admin, TypeOK, PortTypeOK, portVars
<1>9. CASE UNCHANGED vars BY <1>9 DEF vars, TypeOK, PortTypeOK, portVars
<1> QED
  BY <1>1, <1>2, <1>3, <1>4, <1>5, <1>6, <1>7, <1>8, <1>9
  DEF Next, link_state_thread, Faults, Environment

\* Types are right, however writes to the chip and calls of the kernel end.
THEOREM TypeCorrect == Spec => []TypeOK
BY TypeInit, TypeStep, PTL DEF Spec

(***************************************************************************)
(* The chip follows the kernel, through the queue                          *)
(***************************************************************************)
\* n is the place of the last unread message for port p.
LastFor(p, n) ==
  /\ n \in 1 .. Len(nlq) /\ nlq[n].port = p
  /\ \A m \in 1 .. Len(nlq) : nlq[m].port = p => m <= n

NoneFor(p) == \A n \in 1 .. Len(nlq) : nlq[n].port # p

Follows(p) ==
  /\ NoneFor(p) /\ p \in announced => (HwEnabled(p) <=> "UP" \in flags[p])
  /\ \A n \in 1 .. Len(nlq) : LastFor(p, n) => (nlq[n].up <=> "UP" \in flags[p])

FollowInv == TypeOK /\ Mirrored /\ \A p \in Ports : Follows(p)

LEMMA FollowInit == Init => FollowInv
<1> SUFFICES ASSUME Init PROVE FollowInv OBVIOUS
<1>1. Mirrored BY DEF Init, Mirrored
<1>2. nlq = << >> /\ announced = {} BY DEF Init
<1>3. \A p \in Ports : Follows(p) BY <1>2 DEF Follows
<1> QED BY <1>1, <1>3, TypeInit DEF FollowInv

\* A step that touches neither the queue, nor the flags, nor the chip.
LEMMA FollowFrame ==
  FollowInv /\ TypeOK' /\ UNCHANGED <<portVars, flags, nlq, announced>> => FollowInv'
BY DEF FollowInv, Mirrored, Follows, NoneFor, LastFor, HwEnabled, portVars

\* The kernel changes flags and says so: the new message is the last one.
LEMMA FollowSetFlags ==
  ASSUME FollowInv, TypeOK', NEW p \in Ports, NEW new \in SUBSET Flags, SetFlags(p, new),
         UNCHANGED <<portVars, announced>>
  PROVE  FollowInv'
<1>1. CASE new = flags[p]
  <2>1. UNCHANGED <<flags, nlq>> BY <1>1 DEF SetFlags, FollowInv, TypeOK
  <2> QED BY <2>1, FollowFrame
<1>2. CASE new # flags[p]
  <2> DEFINE msg == [port |-> p, up |-> "UP" \in new]
  <2>1. nlq' = Append(nlq, msg) /\ flags' = [flags EXCEPT ![p] = new]
    BY <1>2 DEF SetFlags
  <2>2. /\ Len(nlq) \in Nat /\ Len(nlq') = Len(nlq) + 1
        /\ nlq'[Len(nlq) + 1] = msg /\ \A n \in 1 .. Len(nlq) : nlq'[n] = nlq[n]
    <3> HIDE DEF msg
    <3>1. nlq \in Seq([port : Ports, up : BOOLEAN]) BY DEF FollowInv, TypeOK
    <3> QED BY <2>1, <3>1
  <2>3. msg.port = p /\ (msg.up <=> "UP" \in new) OBVIOUS
  <2>4. flags'[p] = new /\ \A q \in Ports : q # p => flags'[q] = flags[q]
    BY <2>1 DEF FollowInv, TypeOK
  <2>5. Mirrored' BY DEF FollowInv, Mirrored, portVars
  <2>6. \A q \in Ports : HwEnabled(q)' <=> HwEnabled(q) BY DEF HwEnabled, portVars
  <2> HIDE DEF msg
  <2>7. Follows(p)'
    <3>1. ~NoneFor(p)' BY <2>2, <2>3 DEF NoneFor
    <3>2. ASSUME NEW n \in 1 .. Len(nlq)', LastFor(p, n)'
          PROVE  nlq'[n].up <=> "UP" \in flags'[p]
      <4>1. Len(nlq) + 1 \in 1 .. Len(nlq)' BY <2>2
      <4>2. n = Len(nlq) + 1 BY <2>2, <2>3, <3>2, <4>1 DEF LastFor
      <4> QED BY <2>2, <2>3, <2>4, <4>2
    <3> QED BY <3>1, <3>2 DEF Follows
  <2>8. ASSUME NEW q \in Ports, q # p PROVE Follows(q)'
    <3>1. nlq'[Len(nlq) + 1].port # q BY <2>2, <2>3, <2>8
    <3>2. NoneFor(q)' => NoneFor(q) BY <2>2 DEF NoneFor
    <3>3. ASSUME NEW n \in 1 .. Len(nlq)', LastFor(q, n)'
          PROVE  n \in 1 .. Len(nlq) /\ LastFor(q, n)
      BY <2>2, <3>1, <3>3 DEF LastFor
    <3>4. Follows(q) BY DEF FollowInv
    <3>5. flags'[q] = flags[q] BY <2>4, <2>8
    <3>6. NoneFor(q)' /\ q \in announced' => (HwEnabled(q)' <=> "UP" \in flags'[q])
      BY <2>6, <3>2, <3>4, <3>5 DEF Follows
    <3>7. ASSUME NEW n \in 1 .. Len(nlq)', LastFor(q, n)'
          PROVE  nlq'[n].up <=> "UP" \in flags'[q]
      BY <2>2, <3>3, <3>4, <3>5, <3>7 DEF Follows
    <3> QED BY <3>6, <3>7 DEF Follows
  <2> QED BY <2>5, <2>7, <2>8 DEF FollowInv
<1> QED BY <1>1, <1>2

\* The netlink thread acts on the first message: if it was the only one for
\* its port, the chip now agrees with the flags it announced.
LEMMA FollowHandle ==
  ASSUME Outcomes = {"ok"}, FollowInv, TypeOK', handle_link
  PROVE  FollowInv'
<1> DEFINE Msgs == [port : Ports, up : BOOLEAN]
<1>1. nlq \in Seq(Msgs) /\ nlq # << >> /\ nlq' = Tail(nlq) /\ UNCHANGED flags
  BY DEF handle_link, FollowInv, TypeOK
<1> HIDE DEF Msgs
<1>2. PICK h \in Msgs : h = Head(nlq) BY <1>1
<1>3. /\ Len(nlq) \in Nat \ {0} /\ Len(nlq') = Len(nlq) - 1 /\ nlq[1] = h
      /\ \A n \in 1 .. Len(nlq) - 1 : nlq'[n] = nlq[n + 1]
  BY <1>1, <1>2
<1>4. h.port \in Ports /\ h.up \in BOOLEAN BY DEF Msgs
<1>5. port_enable_set(h.port, h.up, "ok") /\ announced' = announced \cup {h.port}
  BY <1>2 DEF handle_link
<1>6. /\ Mirrored' /\ (HwEnabled(h.port)' <=> h.up)
      /\ \A q \in SwitchPorts : q # h.port => (HwEnabled(q)' <=> HwEnabled(q))
  BY <1>4, <1>5, PortSetEffect, PortsAreSwitchPorts DEF FollowInv, TypeOK
<1>7. ASSUME NEW p \in Ports PROVE Follows(p)'
  <2>1. Follows(p) BY DEF FollowInv
  <2>2. ASSUME NEW n \in 1 .. Len(nlq)', LastFor(p, n)'
        PROVE  nlq'[n].up <=> "UP" \in flags'[p]
    <3>1. n + 1 \in 1 .. Len(nlq) /\ nlq[n + 1] = nlq'[n] BY <1>3
    <3>2. LastFor(p, n + 1)
      <4>1. nlq[n + 1].port = p BY <2>2, <3>1 DEF LastFor
      <4>2. ASSUME NEW m \in 1 .. Len(nlq), nlq[m].port = p PROVE m <= n + 1
        <5>1. CASE m = 1 BY <5>1
        <5>2. CASE m # 1
          <6>1. m - 1 \in 1 .. Len(nlq)' /\ nlq'[m - 1] = nlq[m] BY <1>3, <5>2
          <6>2. m - 1 <= n BY <2>2, <4>2, <6>1 DEF LastFor
          <6> QED BY <6>2
        <5> QED BY <5>1, <5>2
      <4> QED BY <3>1, <4>1, <4>2 DEF LastFor
    <3> QED BY <1>1, <2>1, <3>1, <3>2 DEF Follows
  <2>3. ASSUME NoneFor(p)', p \in announced'
        PROVE  HwEnabled(p)' <=> "UP" \in flags'[p]
    <3>1. ASSUME NEW m \in 1 .. Len(nlq), nlq[m].port = p PROVE m = 1
      <4>1. CASE m # 1
        <5>1. m - 1 \in 1 .. Len(nlq)' /\ nlq'[m - 1] = nlq[m] BY <1>3, <4>1
        <5> QED BY <2>3, <3>1, <5>1 DEF NoneFor
      <4> QED BY <4>1
    <3>2. CASE p = h.port
      <4>1. 1 \in 1 .. Len(nlq) BY <1>3
      <4>2. \A m \in 1 .. Len(nlq) : nlq[m].port = p => m <= 1 BY <3>1
      <4>3. LastFor(p, 1) BY <1>3, <3>2, <4>1, <4>2 DEF LastFor
      <4>4. h.up <=> "UP" \in flags[p] BY <1>3, <2>1, <4>1, <4>3 DEF Follows
      <4> QED BY <1>1, <1>6, <3>2, <4>4
    <3>3. CASE p # h.port
      <4>1. NoneFor(p) BY <1>3, <3>1, <3>3 DEF NoneFor
      <4>2. p \in announced BY <1>5, <2>3, <3>3
      <4>3. HwEnabled(p) <=> "UP" \in flags[p] BY <2>1, <4>1, <4>2 DEF Follows
      <4> QED BY <1>1, <1>6, <3>3, <4>3, PortsAreSwitchPorts
    <3> QED BY <3>2, <3>3
  <2> QED BY <2>2, <2>3 DEF Follows
<1> QED BY <1>6, <1>7 DEF FollowInv

LEMMA FollowStep ==
  ASSUME Outcomes = {"ok"}
  PROVE  FollowInv /\ [Next]_vars => FollowInv'
<1> SUFFICES ASSUME FollowInv, [Next]_vars PROVE FollowInv' OBVIOUS
<1>1. TypeOK' BY TypeStep DEF FollowInv
<1>2. CASE ReadLink \/ ReadLinkFails \/ GetFlags \/ TunFails
  <2>1. UNCHANGED <<portVars, flags, nlq, announced>>
    BY <1>2 DEF ReadLink, ReadLinkFails, GetFlags, TunFails
  <2> QED BY <1>1, <2>1, FollowFrame
<1>3. CASE WriteFlags
  <2> DEFINE new == IF last_up[cur] = Up THEN ifr \cup {"UP"} ELSE ifr \ {"UP"}
  <2>1. new \in SUBSET Flags /\ cur \in Ports BY DEF FollowInv, TypeOK, Flags
  <2>2. SetFlags(cur, new) /\ UNCHANGED <<portVars, announced>> BY <1>3 DEF WriteFlags
  <2> HIDE DEF new
  <2>3. PICK c \in Ports : c = cur BY <2>1
  <2>4. SetFlags(c, new) BY <2>2, <2>3
  <2>5. PICK w \in SUBSET Flags : w = new BY <2>1
  <2>6. SetFlags(c, w) BY <2>4, <2>5
  <2> QED BY <1>1, <2>2, <2>6, FollowSetFlags
<1>4. CASE handle_link BY <1>1, <1>4, FollowHandle
<1>5. CASE \E l \in Lines : Flap(l)
  <2>1. UNCHANGED <<portVars, flags, nlq, announced>> BY <1>5 DEF Flap
  <2> QED BY <1>1, <2>1, FollowFrame
<1>6. CASE \E p \in Ports, f \in Flags : Admin(p, f)
  <2>1. PICK p \in Ports, f \in Flags : Admin(p, f) BY <1>6
  <2> DEFINE new == IF f \in flags[p] THEN flags[p] \ {f} ELSE flags[p] \cup {f}
  <2>2. new \in SUBSET Flags BY DEF FollowInv, TypeOK
  <2>3. SetFlags(p, new) /\ UNCHANGED <<portVars, announced>> BY <2>1 DEF Admin
  <2> HIDE DEF new
  <2>4. PICK w \in SUBSET Flags : w = new BY <2>2
  <2>5. SetFlags(p, w) BY <2>3, <2>4
  <2> QED BY <1>1, <2>3, <2>5, FollowSetFlags
<1>7. CASE UNCHANGED vars
  <2>1. UNCHANGED <<portVars, flags, nlq, announced>> BY <1>7 DEF vars
  <2> QED BY <1>1, <2>1, FollowFrame
<1> QED BY <1>2, <1>3, <1>4, <1>5, <1>6, <1>7 DEF Next, link_state_thread, Faults, Environment

\* Where writes to the chip succeed, no interleaving of the administrator, the
\* link-state thread and the netlink thread leaves a port of the chip in
\* another state than its interface for good (netlink.c, handle_link(); port.c,
\* bcm56846_port_enable_set()).
THEOREM ChipFollowsKernel ==
  ASSUME Outcomes = {"ok"}
  PROVE  Spec => []PortFollowsFlags
<1>1. FollowInv => PortFollowsFlags
  <2> SUFFICES ASSUME FollowInv, NEW p \in Ports
               PROVE  LET pending == {n \in 1 .. Len(nlq) : nlq[n].port = p}
                      IN  IF pending = {}
                            THEN p \in announced => (HwEnabled(p) <=> "UP" \in flags[p])
                            ELSE \A n \in pending : (\A m \in pending : m <= n) =>
                                   (nlq[n].up <=> "UP" \in flags[p])
    BY DEF PortFollowsFlags
  <2>1. Follows(p) BY DEF FollowInv
  <2> QED BY <2>1 DEF Follows, NoneFor, LastFor
<1> QED BY FollowInit, FollowStep, <1>1, PTL DEF Spec
=============================================================================

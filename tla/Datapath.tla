------------------------------ MODULE Datapath ------------------------------
(***************************************************************************)
(* Datapath initialisation (sdk/src/init_datapath.c): nine phases write    *)
(* the buffer, queue, scheduler, port and VLAN registers of the chip over  *)
(* the S-Channel.  Nearly every result is thrown away, so a pass goes on   *)
(* after an access that failed.                                            *)
(*                                                                         *)
(* A phase is the sequence of its statements, a statement the loop that    *)
(* writes one register at a set of locations <<index, port>> (0 where the  *)
(* register has no index or is not per port).  Packed fields are records   *)
(* or functions, port bitmaps sets of ports; VLAN_TAB's packing is in      *)
(* module Vlan.  Loops over ports run over Ports, a sample of 0 .. 52, and *)
(* loops over long tables over a sample of their indices.                  *)
(***************************************************************************)
EXTENDS Naturals, Sequences, FiniteSetsExt, SequencesExt

CONSTANTS
  Ports,    \* the ports of the instance: 0 is the CPU, 49 .. 52 the 40G ports
  MaxFaults \* S-Channel accesses that fail, a kill inside a phase counting as one

ASSUME DatapathAssumption ==
  /\ Ports \subseteq 0 .. 52 /\ 0 \in Ports
  /\ Ports \cap 1 .. 48 # {} /\ Ports \cap 49 .. 52 # {}
  /\ MaxFaults \in Nat

VARIABLES
  mem,    \* hardware: register -> location -> what was written since reset
  cmic,   \* hardware: the CMIC registers that the S-Channel depends on (module Chip)
  phase,  \* phases of this pass that are over
  hits,   \* the accesses of this pass that failed: <<register, location>>
  faults  \* accesses that have failed and phases cut short so far

dpVars == <<mem, cmic, phase, hits, faults>>

XePorts == Ports \cap 1 .. 48
QPorts  == Ports \cap 49 .. 52
FrontPorts == XePorts \cup QPorts

\* xlport_reg_addr(): the block and the lane of a front port.
XlBlock(p) == IF p <= 48 THEN (p - 1) \div 4 ELSE p - 37
XlLane(p) ==
  LET l == (p - 1) % 4
  IN  CASE p > 48              -> 0
        [] XlBlock(p) \in {5, 6} -> <<1, 0, 3, 2>>[l + 1]
        [] OTHER               -> l
XlLoc(p) == <<XlLane(p), XlBlock(p)>>
XlBlocks == {XlBlock(p) : p \in FrontPorts}

(***************************************************************************)
(* Statements.  "w" stores a whole value; "m" is sbus_reg_modify(), which  *)
(* writes nothing when its read fails; "z" is the read-modify-write of a   *)
(* table entry that takes zeros for what it could not read.                *)
(***************************************************************************)
Stmt(kind, reg, val) == [kind |-> kind, reg |-> reg, val |-> val]
W(reg, at, v) == <<Stmt("w", reg, [l \in at |-> v])>>
M(reg, at, v) == <<Stmt("m", reg, [l \in at |-> v])>>
Z(reg, at, v) == <<Stmt("z", reg, [l \in at |-> v])>>
Global == {<<0, 0>>}
At(is) == is \X {0}
For(ps) == {0} \X ps
Table(reg, f) == <<Stmt("w", reg, [l \in At(DOMAIN f) |-> f[l[1]]])>>
PerPort(reg, i, v) == W(reg, {i} \X Ports, v) \* reg_write_allports()

\* The bits of a read-modify-write that are not the code's.
Kept   == [rest |-> "kept"]
Zeroed == [rest |-> "zeroed"]


\* What a location holds: <<v>>, or <<>> while it has its reset value.
Val(m, reg, l, reset) ==
  IF l \notin DOMAIN m[reg] THEN reset ELSE IF m[reg][l] = <<>> THEN reset ELSE m[reg][l][1]
Field(m, reg, l, f) == LET v == Val(m, reg, l, <<>>) IN IF f \in DOMAIN v THEN v[f] ELSE 0

\* XMAC registers answer only while the WARPcore of their block is powered and
\* out of reset, and so is the XMAC (the comment above init_xport_reset()).
XmacRegs == {"XMAC_TX_CTRL", "XMAC_RX_CTRL"}
XlportRegs == XmacRegs \cup {"XGXS_CTRL", "XLPORT_MODE", "XLPORT_PORT_ENABLE", "XMAC_CONTROL"}

XmacUp(m, b) ==
  LET xgxs == Val(m, "XGXS_CTRL", <<0, b>>, {})
  IN  /\ {"RSTB_HW", "RSTB_MDIO", "RSTB_PLL"} \subseteq xgxs
      /\ xgxs \cap {"IDDQ", "PWRDWN", "PWRDWN_PLL"} = {}
      /\ Val(m, "XMAC_CONTROL", <<0, b>>, 1) = 0

\* Nothing answers before the ring maps are set and the pipelines out of reset;
\* port blocks need LINK40G_ENABLE as well.
Answers(m, reg, l) ==
  /\ cmic.maps /\ "core" \in cmic.soft /\ cmic.agent = "ok"
  /\ reg \in XlportRegs => cmic.link40g /\ "pg" \in cmic.soft
  /\ reg \in XmacRegs => XmacUp(m, l[2])

\* The registers some property looks at.  What the others hold is not kept, nor
\* are their failures explored: nothing in the code reads them back.
Watched ==
  XlportRegs \cup
  {"PG_MIN_CELL", "BUFFER_CELL_LIMIT_SP", "BUFFER_CELL_LIMIT_SP_SHARED", "GLOBAL_HDRM_LIMIT", "PORT_PG_SPID",
   "PORT_PRI_GRP0", "ING_PRI_CNG_MAP", "PORT_COS_MAP", "CPU_COS_MAP", "OP_QUEUE_CONFIG1_CELL",
   "OP_UC_PORT_CONFIG1_CELL", "THDO_CONFIG", "THDO_QDRPRST",
   "OP_BUFFER_SHARED_LIMIT_CELL", "OP_BUFFER_SHARED_LIMIT_RESUME_CELL", "S2_S3_ROUTING", "S2_COSWEIGHTS", "PORT_TAB", "EPC_LINK_BMAP",
   "EGR_PORT", "STG_TAB", "VLAN_TAB", "EGR_VLAN", "UNKNOWN_UCAST_BLOCK_MASK"}

\* An access may be lost, take effect and yet return an error ("late"), or, for
\* "z", fail to read ("unread").
Failures(list) ==
  UNION {[n : {n}, l : DOMAIN list[n].val,
          how : CASE list[n].kind = "z"        -> {"lost", "unread"}
                  [] list[n].reg = "XGXS_CTRL" -> {"lost", "late"}
                  [] OTHER                     -> {"lost"}] : n \in {k \in DOMAIN list : list[k].reg \in Watched}}
FaultSets(list) ==
  {Range(s) : s \in UNION {[1 .. k -> Failures(list)] : k \in 0 .. MaxFaults - faults}}

\* In f access l of statement n fails, in a way of hows.
Fails(f, n, l, hows) == \E x \in f : x.n = n /\ x.l = l /\ x.how \in hows

\* The fields of v over what else is in old.
Over(v, old) == [f \in DOMAIN v \cup DOMAIN old |-> IF f \in DOMAIN v THEN v[f] ELSE old[f]]

\* sbus_reg_write(), sbus_mem_write(), sbus_reg_modify() at one location.
Stored(m, s, l, unread) ==
  CASE s.kind = "w" -> s.val[l]
    [] s.kind = "m" -> Over(s.val[l], Val(m, s.reg, l, <<>>))
    [] s.kind = "z" -> Over(s.val[l], IF unread THEN Zeroed ELSE Val(m, s.reg, l, Kept))

Apply(m, s, f, n) ==
  LET took(l) == l \in DOMAIN s.val /\ ~Fails(f, n, l, {"lost"}) /\ Answers(m, s.reg, l)
  IN  IF s.reg \notin Watched THEN m ELSE
      [m EXCEPT ![s.reg] = [l \in DOMAIN @ |->
         IF took(l) THEN <<Stored(m, s, l, Fails(f, n, l, {"unread"}))>> ELSE @[l]]]

Execute(list, f) ==
  LET after[n \in 0 .. Len(list)] == IF n = 0 THEN mem ELSE Apply(after[n - 1], list[n], f, n)
  IN  after[Len(list)]

(***************************************************************************)
(* The phases.                                                             *)
(***************************************************************************)
\* Mutant: the 40G ports are left out.
Bug_PgMin(pg, cpu, xe, q) ==
  W("PG_MIN_CELL", {<<pg, 0>>}, cpu) \o W("PG_MIN_CELL", {pg} \X XePorts, xe)

PgMin(pg, cpu, xe, q) ==
  W("PG_MIN_CELL", {<<pg, 0>>}, cpu) \o W("PG_MIN_CELL", {pg} \X XePorts, xe)
    \o W("PG_MIN_CELL", {pg} \X QPorts, q)

init_ingress_buffers ==
  W("COLOR_AWARE", Global, 0)
  \o PerPort("PORT_PG_SPID", 0, [pg \in 0 .. 7 |-> CASE pg = 2 -> 2 [] pg = 7 -> 1 [] OTHER -> 0])
  \o Table("BUFFER_CELL_LIMIT_SP", [sp \in 0 .. 3 |-> <<0, 1382, 921, 0>>[sp + 1]])
  \o Table("CELL_RESET_LIMIT_OFFSET_SP", [sp \in 0 .. 3 |-> <<0, 100, 100, 0>>[sp + 1]])
  \o W("BUFFER_CELL_LIMIT_SP_SHARED", Global, 22742)
  \o PerPort("PORT_SHARED_MAX_PG_ENABLE", 0, 0) \o PerPort("PORT_MAX_SHARED_CELL", 0, 0)
  \o PerPort("PORT_MIN_PG_ENABLE", 0, 0) \o PerPort("PORT_MIN_CELL", 0, 0)
  \o W("PG_MIN_CELL", {0, 1, 2, 7} \X Ports, 0) \o W("PG_HDRM_LIMIT_CELL", {0, 7} \X Ports, 0)
  \o PgMin(0, 45, 288, 1152) \o PerPort("PG_SHARED_LIMIT_CELL", 0, 4548)
  \o PgMin(2, 45, 1, 4) \o PerPort("PG_SHARED_LIMIT_CELL", 2, 909)
  \o PgMin(7, 45, 1, 4) \o PerPort("PG_SHARED_LIMIT_CELL", 7, 10006)
  \o W("USE_SP_SHARED", Global, 7) \o W("GLOBAL_HDRM_LIMIT", Global, 2340)
  \o PerPort("PORT_MAX_PKT_SIZE", 0, 45)

init_priority_mapping ==
  M("EGR_VLAN_CONTROL_1", Global, [remark_outer_dot1p |-> 0])
  \o W("ING_UNTAGGED_PHB", At({0, 63}), 0)
  \o W("ING_PRI_CNG_MAP", At({0, 14, 1023}), 0)
  \o Table("ING_PRI_CNG_MAP", [i \in 0 .. 15 |-> <<0, 1, 2, 4, 4, 5, 6, 7>>[i \div 2 + 1]])
  \o PerPort("PORT_PRI_GRP0", 0, [pri \in 0 .. 7 |-> IF pri \in {2, 7} THEN pri ELSE 0])
  \o PerPort("PORT_PRI_GRP1", 0, 0) \o PerPort("PORT_PRI_XON_ENABLE", 0, 0)
  \o W("PRIO2COS_LLFC0", Global, 0)
  \o M("XMAC_PFC_CTRL", For(Ports), [tx_pfc_en |-> 0, rx_pfc_en |-> 0, pfc_stats_en |-> 0])
  \o M("XLPORT_CONFIG", Global, [llfc_en |-> 0, xpause_rx_en |-> 1, xpause_tx_en |-> 0, pfc_enable |-> 0])

init_forwarding ==
  M("RTAG7_TCP_UDP_HASH_FIELD_BMAP_2", At({4, 6}), [bins |-> "f7c"])
  \o M("RTAG7_TCP_UDP_HASH_FIELD_BMAP_1", At({4, 6}), [bins |-> "f3c"])
  \o M("RTAG7_HASH_FIELD_BMAP", At({1, 2}), [bins |-> "f1c"])
  \o M("RTAG7_HASH_CONTROL_3", Global, [hash_a0_function_select |-> 9])
  \o W("RTAG7_HASH_SEED_A", Global, 42) \o W("RTAG7_HASH_ECMP", At({0, 1}), 0)
  \o M("HASH_CONTROL", Global, [ecmp_hash_use_rtag7 |-> 1, use_tcp_udp_ports |-> 1,
                                l3_hash_select |-> 4, non_uc_trunk_hash_use_rtag7 |-> 1])
  \o M("CPU_CONTROL_1", Global, [f \in {"l3_mtu_fail", "l3_slowpath", "v4l3dstmiss", "v6l3dstmiss"} |-> 1])
  \o M("AUX_ARB_CONTROL", Global, [l2_mod_fifo_enable_l2_delete |-> 0])
  \o Z("PORT_TAB", At(Ports), [port_pri |-> 0, vt_enable |-> 0, trust_incoming_vid |-> 0,
                               pri_mapping |-> 0, vid |-> 1])

\* Mutant: a queue without limits is passed over altogether.
Bug_CpuQueue(qi, spid, en, min, shared) ==
  IF min # 0 \/ shared # 0 THEN M("OP_QUEUE_CONFIG1_CELL", {<<qi, 0>>}, [spid |-> spid, en |-> en]) ELSE <<>>

CpuQueue(qi, spid, en, min, shared) ==
  M("OP_QUEUE_CONFIG1_CELL", {<<qi, 0>>}, [spid |-> spid, en |-> en])
  \o IF min # 0 \/ shared # 0 THEN M("OP_QUEUE_CONFIG_CELL", {<<qi, 0>>}, [min |-> min, shared |-> shared])
                              ELSE <<>>

\* The first half of init_egress_config().
EgressCos ==
  W("ING_COS_MODE", Global, 0) \o W("COS_MODE", At({0, 1}), 0) \o W("COS_MAP_SEL", At(Ports), 0)
  \o W("PORT_COS_MAP", At((0 .. 7) \cup {63}), [uc |-> 0, hg |-> 0, mc |-> 0])
  \o Table("PORT_COS_MAP", [i \in (0 .. 7) \ {3} |->
        [uc |-> i, hg |-> i, mc |-> CASE i = 2 -> 2 [] i = 7 -> 1 [] OTHER -> 0]])
  \o Table("CPU_COS_MAP", [i \in 120 .. 127 |->
        LET pri == <<7, 6, 5, 4, 4, 2, 1, 0>>[i - 119] IN [key |-> pri, cos |-> pri]])
  \o PerPort("ES_QUEUE_TO_PRIO", 0, [q \in 0 .. 6 |-> q])
  \o W("OP_VOQ_PORT_CONFIG", Global, 0) \o M("OVQ_FLOWCONTROL_THRESHOLD", Global, [fc_enable |-> 0])

\* The second half.
EgressBuffers ==
  PerPort("OP_QUEUE_CONFIG_CELL", 0, [min |-> 0, shared |-> 0])
  \o PerPort("OP_QUEUE_CONFIG1_CELL", 0, [spid |-> 0, en |-> 0])
  \o PerPort("OP_QUEUE_RESET_OFFSET_CELL", 0, 3)
  \o PerPort("OP_PORT_CONFIG_CELL", 0, 0) \o PerPort("OP_PORT_CONFIG1_CELL", 0, 0)
  \o M("OP_QUEUE_CONFIG1_CELL", For(Ports), [spid |-> 0, en |-> 1])
  \o M("OP_QUEUE_CONFIG_CELL", For(Ports), [min |-> 921, shared |-> 2073])
  \o M("OP_QUEUE_CONFIG1_CELL", {1} \X Ports, [spid |-> 1])
  \o M("OP_QUEUE_CONFIG1_CELL", {2} \X Ports, [spid |-> 2])
  \o CpuQueue(0, 0, 1, 307, 2073) \o CpuQueue(1, 0, 1, 307, 2073) \o CpuQueue(2, 2, 0, 0, 0)
  \o CpuQueue(3, 0, 1, 307, 2073) \o CpuQueue(4, 0, 1, 307, 2073) \o CpuQueue(5, 0, 1, 307, 2073)
  \o CpuQueue(6, 0, 1, 307, 2073) \o CpuQueue(7, 1, 0, 0, 0)
  \o CpuQueue(32, 0, 1, 100, 0) \o CpuQueue(33, 0, 1, 1, 0) \o CpuQueue(34, 0, 1, 500, 0)
  \o PerPort("OP_UC_PORT_CONFIG_CELL", 0, 0)
  \o PerPort("OP_UC_PORT_CONFIG1_CELL", 0, [c \in 0 .. 7 |-> CASE c = 2 -> 2 [] c = 7 -> 1 [] OTHER -> 0])

init_egress_config == EgressCos \o EgressBuffers

\* The THDO tables 0A and 0B (296 entries) are written alike, and so are SP_0
\* and SP_1 (40 entries): one of each, as port 0 and 2, at a sample of indices.
ThdoIdx == {0, 2, 7, 9, 276, 277, 280} \X {0} \cup {1, 3, 4, 5, 6, 37} \X {2}
UcCos == {0, 1, 3, 4, 5, 6}
Limited == {l \in ThdoIdx : l[1] % 10 \in UcCos /\ l[1] < 280}

init_thdo_tables ==
  W("THDO_CONFIG", ThdoIdx, [min |-> 0, shared |-> 0, en |-> 0]) \o W("THDO_QDRPRST", ThdoIdx, 0)
  \o W("THDO_CONFIG", Limited, [min |-> 384, shared |-> 3110, en |-> 1])
  \o W("THDO_QDRPRST", Limited, 3449)
  \o Table("OP_BUFFER_SHARED_LIMIT_CELL", [sp \in 0 .. 3 |-> <<20736, 41472, 41472, 135>>[sp + 1]])
  \o Table("OP_BUFFER_SHARED_LIMIT_RESUME_CELL", [sp \in 0 .. 3 |-> <<20636, 41372, 41372, 35>>[sp + 1]])

S2Weights == [n \in (0 .. 11) \ {3} |-> CASE n \in {1, 11} -> 0 [] n \in {2, 6} -> 32 [] OTHER -> 16]

\* A routing entry is the set of S3 nodes an S2 node serves (0x1f: none).
init_scheduling ==
  PerPort("S3_CONFIG", 0, [scheduling_select |-> "ff", route_uc_to_s2 |-> 1])
  \o W("S3_MINSPCONFIG", Global, 0) \o PerPort("S3_COSWEIGHTS", 0, 16) \o PerPort("S3_CONFIG_MC", 0, 0)
  \o PerPort("S2_CONFIG", 0, "3f") \o PerPort("S2_COSWEIGHTS", 0, 0) \o W("S2_MINSPCONFIG", Global, 0)
  \o W("S2_S3_ROUTING", (0 .. 2) \X Ports, {})
  \o PerPort("S2_S3_ROUTING", 0, {4, 5, 7, 8, 9, 10, 0}) \o PerPort("S2_S3_ROUTING", 1, {6, 2})
  \o PerPort("S2_S3_ROUTING", 2, {11, 1})
  \o <<Stmt("w", "S2_COSWEIGHTS", [l \in (DOMAIN S2Weights) \X Ports |-> S2Weights[l[1]]])>>
  \o PerPort("ESCONFIG", 0, 3) \o PerPort("COSWEIGHTS", 0, 2) \o PerPort("COSWEIGHTS", 1, 16)
  \o PerPort("COSWEIGHTS", 2, 32) \o PerPort("COSWEIGHTS", 3, 0) \o PerPort("MINSPCONFIG", 0, 0)
  \o M("COSMASK", For(Ports), [cosmaskrxen |-> 1]) \o M("ES_TDM_CONFIG", Global, [en_cpu_slot_sharing |-> 0])

\* init_xport_reset(): the blocks whose first write failed are passed over.
\* (Block registers are decoded by the block alone; the code gives blocks 5
\* and 6 the lane of their first port.)
init_xport_reset(skipped) ==
  LET bs == For(XlBlocks \ skipped)
      up == {"LCREF_EN", "RSTB_HW", "RSTB_MDIO", "RSTB_PLL"}
  IN  W("XGXS_CTRL", For(XlBlocks), {"LCREF_EN", "IDDQ", "PWRDWN", "PWRDWN_PLL"})
      \o W("XGXS_CTRL", bs, {"LCREF_EN"}) \o W("XGXS_CTRL", bs, {"LCREF_EN", "RSTB_HW"})
      \o W("XGXS_CTRL", bs, up) \o W("XGXS_CTRL", bs, up \cup {"TXD1G_RSTB", "TXD10G_RSTB"})
      \o <<Stmt("w", "XLPORT_MODE", [l \in bs |-> IF l[2] < 12 THEN "4x10G" ELSE "1x40G"])>>
      \o <<Stmt("w", "XLPORT_PORT_ENABLE", [l \in bs |-> IF l[2] < 12 THEN 0 .. 3 ELSE {0}])>>
      \o W("XMAC_CONTROL", bs, 1) \o W("XMAC_CONTROL", bs, 0)

\* Mutant: the first failure ends the loop.
Bug_Skipped(f) == {b \in XlBlocks : \E x \in f : x.n = 1 /\ b >= x.l[2]}

\* The blocks init_xport_reset() passes over after the failures f.
Skipped(f) == {x.l[2] : x \in {y \in f : y.n = 1}}

init_port_pipeline ==
  W("EPC_LINK_BMAP", Global, 0 .. 52) \o W("ING_EN_EFILTER_BITMAP", Global, 0 .. 52)
  \o W("XMAC_TX_CTRL", {XlLoc(p) : p \in FrontPorts}, "c802")
  \o W("XMAC_RX_CTRL", {XlLoc(p) : p \in FrontPorts}, "404")
  \o Z("EGR_PORT", At(Ports), [port_type |-> 0, higig2 |-> 0])
  \o W("IFP_METER_PARITY_CONTROL", Global, 0)

init_vlan_forwarding ==
  W("STG_TAB", {<<2, 0>>}, 0 .. 52)
  \o W("VLAN_TAB", {<<1, 0>>}, [valid |-> 1, stg |-> 2, port |-> 0 .. 52, ing |-> 0 .. 52])
  \o W("EGR_VLAN", {<<1, 0>>}, [valid |-> 1, stg |-> 2, port |-> 0 .. 52, ut |-> 0 .. 52])
  \o W("UNKNOWN_UCAST_BLOCK_MASK", At(Ports), {}) \o W("UNKNOWN_MCAST_BLOCK_MASK", At(Ports), {})

PhaseCount == 9

PhaseList(k, f) ==
  CASE k = 1 -> init_ingress_buffers
    [] k = 2 -> init_priority_mapping
    [] k = 3 -> init_forwarding
    [] k = 4 -> init_egress_config
    [] k = 5 -> init_thdo_tables
    [] k = 6 -> init_scheduling
    [] k = 7 -> init_xport_reset(Skipped(f))
    [] k = 8 -> init_port_pipeline
    [] k = 9 -> init_vlan_forwarding

\* The watched registers, every location with its reset value.
Rows(k) ==
  LET list == PhaseList(k, {})
  IN  {<<list[n].reg, DOMAIN list[n].val>> : n \in {i \in DOMAIN list : list[i].reg \in Watched}}
AllRows == UNION {Rows(k) : k \in 1 .. PhaseCount}
ResetMem ==
  [r \in Watched |-> [l \in UNION {row[2] : row \in {q \in AllRows : q[1] = r}} |-> <<>>]]

\* Run a list of statements, of which the accesses f fail.
Access(list, f) ==
  /\ mem' = Execute(list, f)
  /\ hits' = hits \cup {<<list[x.n].reg, x.l>> : x \in f}
  /\ faults' = faults + Cardinality(f)

\* One phase of bcm56846_datapath_init().  Every phase but the seventh returns
\* 0 whatever happened, and the seventh's failure is only logged.
datapath_init_phase ==
  /\ phase < PhaseCount
  /\ \E f \in FaultSets(PhaseList(phase + 1, {})) : Access(PhaseList(phase + 1, f), f)
  /\ phase' = phase + 1

\* The order of a phase's accesses: init_xport_reset() does block by block what
\* the other phases do statement by statement.
NotAfter(k, x, y) ==
  LET key(a) == IF k = 7 THEN <<a.l[2], a.n, a.l[1]>> ELSE <<a.n, a.l[2], a.l[1]>>
  IN  \/ key(x)[1] < key(y)[1]
      \/ key(x)[1] = key(y)[1] /\ key(x)[2] < key(y)[2]
      \/ key(x)[1] = key(y)[1] /\ key(x)[2] = key(y)[2] /\ key(x)[3] <= key(y)[3]

\* Phase k is left before access x: neither x nor what follows is made.
Unmade(k, x) ==
  {[y EXCEPT !.how = "lost"] : y \in {z \in Failures(PhaseList(k, {})) : NotAfter(k, x, z)}}

\* switchd is killed inside a phase, before one of its accesses.
datapath_init_cut ==
  /\ phase < PhaseCount
  /\ \E f \in FaultSets(PhaseList(phase + 1, {})) :
       /\ faults' = faults + Cardinality(f) + 1 /\ faults' <= MaxFaults
       /\ \E x \in Failures(PhaseList(phase + 1, {})) :
            LET g == f \cup Unmade(phase + 1, x) IN mem' = Execute(PhaseList(phase + 1, g), g)
  /\ phase' = 0 /\ hits' = {}

(***************************************************************************)
(* Properties, of the state a pass leaves.  Those that ask for a clean     *)
(* pass do so whatever an earlier pass lost or left half done.             *)
(***************************************************************************)
Passed == phase = PhaseCount
Clean  == Passed /\ hits = {}

PgCells(p) ==
  LET cells(pg) == Val(mem, "PG_MIN_CELL", <<pg, p>>, 0)
  IN  cells(0) + cells(1) + cells(2) + cells(3) + cells(4) + cells(5) + cells(6) + cells(7)
Worst(ps) == IF ps = {} THEN 0 ELSE Max({PgCells(p) : p \in ps})
Reserved ==
  PgCells(0) + 48 * Worst(XePorts) + 4 * Worst(QPorts)
  + Val(mem, "BUFFER_CELL_LIMIT_SP_SHARED", <<0, 0>>, 0)
  + Val(mem, "BUFFER_CELL_LIMIT_SP", <<1, 0>>, 0) + Val(mem, "BUFFER_CELL_LIMIT_SP", <<2, 0>>, 0)
  + Val(mem, "GLOBAL_HDRM_LIMIT", <<0, 0>>, 0)
TotalCells == 46080

\* The packet buffer is never over-committed, even by a pass that was cut
\* short or lost a write, and a clean pass shares out every cell of it
\* (init_ingress_buffers(); rc.datapath_0: total mem cells 46080).
BufferExact == Reserved <= TotalCells /\ (Clean => Reserved = TotalCells)

Pool(p, pri) ==
  Val(mem, "PORT_PG_SPID", <<0, p>>, <<>>)[Val(mem, "PORT_PRI_GRP0", <<0, p>>, <<>>)[pri]]
Cos(pri, kind) == Field(mem, "PORT_COS_MAP", <<pri, 0>>, kind)
UcPool(p, c) == Val(mem, "OP_UC_PORT_CONFIG1_CELL", <<0, p>>, <<>>)[c]
QueuePool(p, q) == Field(mem, "OP_QUEUE_CONFIG1_CELL", <<q, p>>, "spid")
Priorities == {Val(mem, "ING_PRI_CNG_MAP", <<i, 0>>, 0) : i \in 0 .. 15}
CpuCos(pri) == {Field(mem, "CPU_COS_MAP", <<i, 0>>, "cos") :
                  i \in {j \in 120 .. 127 : Field(mem, "CPU_COS_MAP", <<j, 0>>, "key") = pri}}

\* A packet is charged to the same service pool on its way in (priority to
\* priority group to pool, phases 1 and 2) and on its way out (priority to
\* queue to pool, phase 4), be it unicast, multicast or for the CPU.
ServicePoolsAgree ==
  Clean => \A pri \in Priorities :
             /\ \A p \in Ports : UcPool(p, Cos(pri, "uc")) = Pool(0, pri) /\ Pool(p, pri) = Pool(0, pri)
             /\ \A p \in FrontPorts : QueuePool(p, Cos(pri, "mc")) = Pool(0, pri)
             /\ Cardinality(CpuCos(pri)) = 1
             /\ \A c \in CpuCos(pri) : QueuePool(0, c) = Pool(0, pri)

QueueLimited(p, q) == Field(mem, "OP_QUEUE_CONFIG1_CELL", <<q, p>>, "en") = 1

\* Only queues of pool 0 are limited: each queue that phase 4 puts there has its
\* limit enabled, as phase 5 does for the unicast queues, and a queue of
\* another pool, which nothing in the code gives a limit, is never limited.
LimitsFollowPools ==
  Clean =>
    /\ \A p \in FrontPorts, q \in 0 .. 2 : QueueLimited(p, q) <=> QueuePool(p, q) = 0
    /\ \A q \in (0 .. 7) \cup 32 .. 34 : QueueLimited(0, q) <=> QueuePool(0, q) = 0
    /\ \A pri \in Priorities, p \in Ports, l \in {k \in ThdoIdx : k[1] < 280} :
         l[1] % 10 = Cos(pri, "uc") =>
           /\ Field(mem, "THDO_CONFIG", l, "en") = 1 <=> UcPool(p, l[1] % 10) = 0
           /\ Val(mem, "THDO_QDRPRST", l, 0) > 0 <=> UcPool(p, l[1] % 10) = 0
    /\ \A sp \in 0 .. 3 : Val(mem, "OP_BUFFER_SHARED_LIMIT_RESUME_CELL", <<sp, 0>>, 0)
                            < Val(mem, "OP_BUFFER_SHARED_LIMIT_CELL", <<sp, 0>>, 0)

Nodes(p, s2) == Val(mem, "S2_S3_ROUTING", <<s2, p>>, {})
Weight(p, n) == Val(mem, "S2_COSWEIGHTS", <<n, p>>, 0)

\* Every scheduling node a class of service needs is served by exactly one
\* node of the level above, and the nodes that share one have equal weights
\* (init_scheduling(): the default row, then the routing and weight tables).
SchedulerSound ==
  Clean => \A p \in Ports :
             /\ \A c \in {Cos(pri, "uc") : pri \in Priorities} :
                  Cardinality({s2 \in 0 .. 2 : c \in Nodes(p, s2)}) = 1
             /\ \A s2 \in 0 .. 2, a, b \in 0 .. 11 :
                  {a, b} \subseteq Nodes(p, s2) => Weight(p, a) = Weight(p, b)

NoVlan == [valid |-> 0, stg |-> 0, port |-> {}, ing |-> {}, ut |-> {}]

\* The way of an untagged frame from port p to port q through the tables.
Reaches(p, q) ==
  LET vid == Field(mem, "PORT_TAB", <<p, 0>>, "vid")
      vt  == Val(mem, "VLAN_TAB", <<vid, 0>>, NoVlan)
      ev  == Val(mem, "EGR_VLAN", <<vid, 0>>, NoVlan)
  IN  /\ vt.valid = 1 /\ ev.valid = 1 /\ vt.stg = ev.stg
      /\ p \in vt.ing /\ q \in vt.port \cap ev.port \cap ev.ut
      /\ {p, q} \subseteq Val(mem, "STG_TAB", <<vt.stg, 0>>, {})
      /\ q \notin Val(mem, "UNKNOWN_UCAST_BLOCK_MASK", <<p, 0>>, Ports)
      /\ q \in Val(mem, "EPC_LINK_BMAP", <<0, 0>>, {})
      /\ Val(mem, "EGR_PORT", <<q, 0>>, [port_type |-> 3]).port_type = 0

WayOf(p, q) ==
  {<<"PORT_TAB", <<p, 0>>>>, <<"UNKNOWN_UCAST_BLOCK_MASK", <<p, 0>>>>, <<"EGR_PORT", <<q, 0>>>>,
   <<"VLAN_TAB", <<1, 0>>>>, <<"EGR_VLAN", <<1, 0>>>>, <<"STG_TAB", <<2, 0>>>>,
   <<"EPC_LINK_BMAP", <<0, 0>>>>}

\* After a pass an untagged frame gets from any port to any other, unless the
\* pass lost the write of a table that is on that very way: the tables of
\* phases 3, 7 and 8 name the same VLAN, the same STG and the same ports.
UntaggedReaches ==
  Passed => \A p, q \in Ports : p = q \/ Reaches(p, q) \/ hits \cap WayOf(p, q) # {}

MacReady(p) ==
  LET b == XlBlock(p)
  IN  /\ XmacUp(mem, b)
      /\ {"TXD1G_RSTB", "TXD10G_RSTB"} \subseteq Val(mem, "XGXS_CTRL", <<0, b>>, {})
      /\ Val(mem, "XLPORT_MODE", <<0, b>>, "none") = IF p <= 48 THEN "4x10G" ELSE "1x40G"
      /\ XlLane(p) \in Val(mem, "XLPORT_PORT_ENABLE", <<0, b>>, {})
      /\ Val(mem, "XMAC_TX_CTRL", XlLoc(p), "none") = "c802"
      /\ Val(mem, "XMAC_RX_CTRL", XlLoc(p), "none") = "404"

OwnAccesses(p) ==
  {"XGXS_CTRL", "XLPORT_MODE", "XLPORT_PORT_ENABLE", "XMAC_CONTROL"} \X {<<0, XlBlock(p)>>}
  \cup XmacRegs \X {XlLoc(p)}

\* A failure costs nobody else: after a pass every front port has its WARPcore
\* powered, its mode and its MAC set, unless an access to its own block or
\* lane failed (init_xport_reset() goes on with the next block, and so does
\* init_port_pipeline()).
FaultIsolated == Passed => \A p \in FrontPorts : MacReady(p) \/ hits \cap OwnAccesses(p) # {}

\* From priority to pool to queue to scheduling node, the tables of six phases
\* name each other's entries (init_datapath.c, phases 1 to 6).
QueuesSound == ServicePoolsAgree /\ LimitsFollowPools /\ SchedulerSound

\* An access that fails damages its own register and what hangs on it, and
\* nothing else: neither other ports' MACs nor other ways through the switch.
FaultsStayLocal == FaultIsolated /\ UntaggedReaches

DpInit == mem = ResetMem /\ phase = 0 /\ hits = {} /\ faults = 0

DpTypeOK ==
  /\ \A r \in DOMAIN mem : \A l \in DOMAIN mem[r] : Len(mem[r][l]) <= 1
  /\ phase \in 0 .. PhaseCount
  /\ faults \in 0 .. MaxFaults /\ Cardinality(hits) <= faults
=============================================================================

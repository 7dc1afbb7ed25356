--------------------------- MODULE Netlink_proofs ---------------------------
(***************************************************************************)
(* Proofs about the netlink thread and the SDK's tables, for every set of  *)
(* ports, interfaces, neighbours, route keys and VLANs, every table size   *)
(* and, but for the part headed "A chip that never fails", every way the   *)
(* chip's writes may end.                                                  *)
(*                                                                         *)
(* None of the four invariants of IInv is inductive alone: RoutesResolve   *)
(* needs the types of the next-hop tables, DefipKeysDistinct what          *)
(* defip_find() can return, PortOwnsIntf that an id alloc_id() hands out   *)
(* is not in use.  NeighCacheFresh needs CacheSound besides, which says    *)
(* where in the cache the entry is; the ECMP and the VLAN table have       *)
(* invariants of their own, at the end of the module, about TablesSpec of  *)
(* MCTables, which makes any sequence of calls of their API.               *)
(***************************************************************************)
EXTENDS MCTables, SequenceTheorems, WellFoundedInduction, TLAPS

IInv == TypeOK /\ DefipKeysDistinct /\ RoutesResolve /\ PortOwnsIntf

-----------------------------------------------------------------------------
(* What each operation of the L3 tables does, for each way its writes end  *)

\* A write, however it ends, leaves every other entry of the table alone and
\* the table well-typed.
LEMMA WriteEffect ==
  ASSUME NEW S, NEW T, NEW table \in [S -> T], NEW i \in S, NEW v \in T, NEW o
  PROVE  /\ sbus_mem_write(table, i, v, o) \in [S -> T]
         /\ \A j \in S \ {i} : sbus_mem_write(table, i, v, o)[j] = table[j]
         /\ sbus_mem_write(table, i, v, o)[i] \in {table[i], v}
         /\ WriteOk(o) => sbus_mem_write(table, i, v, o)[i] = v
  BY DEF sbus_mem_write, WriteOk

\* l3_intf_create(): an id it returns was free, is now allocated and holds the
\* port's MAC; the entries in use are untouched.
LEMMA IntfCreateEffect ==
  ASSUME IntfTypeOK, NEW port \in Ports, NEW o \in Outcomes,
         NEW ret \in IntfIds \cup {0}, l3_intf_create(port, o, ret)
  PROVE  /\ IntfTypeOK'
         /\ intf_used \subseteq intf_used'
         /\ \A i \in intf_used : egr_l3_intf'[i] = egr_l3_intf[i]
         /\ ret # 0 => ret \notin intf_used /\ ret \in intf_used' /\ egr_l3_intf'[ret] = port
<1>1. CASE Full(intf_used, IntfIds) /\ ret = 0 /\ UNCHANGED intfVars
  BY <1>1 DEF IntfTypeOK, intfVars
<1>2. CASE \E id \in IntfIds :
             /\ alloc_id(intf_used, IntfIds, id)
             /\ egr_l3_intf' = sbus_mem_write(egr_l3_intf, id, port, o)
             /\ intf_used' = IF WriteOk(o) THEN intf_used \cup {id} ELSE intf_used
             /\ ret = IF WriteOk(o) THEN id ELSE 0
  <2>1. PICK id \in IntfIds :
             /\ alloc_id(intf_used, IntfIds, id)
             /\ egr_l3_intf' = sbus_mem_write(egr_l3_intf, id, port, o)
             /\ intf_used' = IF WriteOk(o) THEN intf_used \cup {id} ELSE intf_used
             /\ ret = IF WriteOk(o) THEN id ELSE 0
    BY <1>2
  <2>2. /\ egr_l3_intf' \in [IntfIds -> Ports \cup {0}]
        /\ \A j \in IntfIds \ {id} : egr_l3_intf'[j] = egr_l3_intf[j]
        /\ WriteOk(o) => egr_l3_intf'[id] = port
    BY <2>1 DEF IntfTypeOK, sbus_mem_write, WriteOk
  <2>3. id \in IntfIds \ intf_used
    BY <2>1 DEF alloc_id
  <2> QED
    BY <2>1, <2>2, <2>3 DEF IntfTypeOK, IntfIds
<1> QED
  BY <1>1, <1>2 DEF l3_intf_create

\* l3_intf_destroy(): frees the id and touches no other entry.
LEMMA IntfDestroyEffect ==
  ASSUME IntfTypeOK, NEW id \in IntfIds, NEW o \in Outcomes, l3_intf_destroy(id, o)
  PROVE  /\ IntfTypeOK'
         /\ intf_used' = intf_used \ {id}
         /\ \A i \in IntfIds \ {id} : egr_l3_intf'[i] = egr_l3_intf[i]
<1>1. egr_l3_intf' = sbus_mem_write(egr_l3_intf, id, 0, o)
  BY DEF l3_intf_destroy
<1>2. 0 \in Ports \cup {0}
  OBVIOUS
<1>3. /\ egr_l3_intf' \in [IntfIds -> Ports \cup {0}]
      /\ \A i \in IntfIds \ {id} : egr_l3_intf'[i] = egr_l3_intf[i]
  BY <1>1, <1>2 DEF IntfTypeOK, sbus_mem_write
<1> QED
  BY <1>3 DEF l3_intf_destroy, IntfTypeOK

\* l3_egress_create(): an id it returns was free, is now allocated, and both
\* halves of the next hop hold what was asked; next hops in use are untouched.
LEMMA EgressCreateEffect ==
  ASSUME NhopTypeOK, NEW port \in Ports, NEW intf \in IntfIds \cup {0},
         NEW mac \in Macs \cup {ZeroMac}, NEW o1 \in Outcomes, NEW o2 \in Outcomes,
         NEW ret \in NhopIds \cup {0}, l3_egress_create(port, intf, mac, o1, o2, ret)
  PROVE  /\ NhopTypeOK'
         /\ nhop_used \subseteq nhop_used'
         /\ \A n \in nhop_used : ing_nhop'[n] = ing_nhop[n] /\ egr_nhop'[n] = egr_nhop[n]
         /\ ret # 0 => /\ ret \in nhop_used' \ nhop_used
                       /\ ing_nhop'[ret] = port
                       /\ egr_nhop'[ret] = [intf |-> intf, mac |-> mac]
                       /\ intf # 0
<1> DEFINE E == [intf : IntfIds \cup {0}, mac : Macs \cup {ZeroMac}]
           v == [intf |-> intf, mac |-> mac]
<1>1. CASE ret = 0 /\ UNCHANGED nhopVars
  BY <1>1 DEF NhopTypeOK, nhopVars
<1>2. ASSUME intf # 0, NEW id \in NhopIds,
             alloc_id(nhop_used, NhopIds, id),
             ing_nhop' = sbus_mem_write(ing_nhop, id, port, o1),
             egr_nhop' = IF WriteOk(o1) THEN sbus_mem_write(egr_nhop, id, v, o2)
                                        ELSE egr_nhop,
             nhop_used' = IF WriteOk(o1) /\ WriteOk(o2) THEN nhop_used \cup {id}
                                                        ELSE nhop_used,
             ret = IF WriteOk(o1) /\ WriteOk(o2) THEN id ELSE 0
      PROVE  /\ NhopTypeOK'
             /\ nhop_used \subseteq nhop_used'
             /\ \A n \in nhop_used : ing_nhop'[n] = ing_nhop[n] /\ egr_nhop'[n] = egr_nhop[n]
             /\ ret # 0 => /\ ret \in nhop_used' \ nhop_used
                           /\ ing_nhop'[ret] = port
                           /\ egr_nhop'[ret] = v
                           /\ intf # 0
  <2>1. /\ ing_nhop' \in [NhopIds -> Ports \cup {0}]
        /\ \A n \in NhopIds \ {id} : ing_nhop'[n] = ing_nhop[n]
        /\ WriteOk(o1) => ing_nhop'[id] = port
    BY <1>2 DEF NhopTypeOK, sbus_mem_write, WriteOk
  <2>2. v \in E
    OBVIOUS
  <2>3. egr_nhop \in [NhopIds -> E]
    BY DEF NhopTypeOK
  <2>4. /\ sbus_mem_write(egr_nhop, id, v, o2) \in [NhopIds -> E]
        /\ \A n \in NhopIds \ {id} : sbus_mem_write(egr_nhop, id, v, o2)[n] = egr_nhop[n]
        /\ WriteOk(o2) => sbus_mem_write(egr_nhop, id, v, o2)[id] = v
    <3> HIDE DEF E, v
    <3> QED BY <2>2, <2>3, WriteEffect
  <2>5. id \in NhopIds \ nhop_used
    BY <1>2 DEF alloc_id
  <2>6. /\ egr_nhop' \in [NhopIds -> E]
        /\ \A n \in NhopIds \ {id} : egr_nhop'[n] = egr_nhop[n]
        /\ WriteOk(o1) /\ WriteOk(o2) => egr_nhop'[id] = v
    <3> HIDE DEF E, v
    <3> QED BY <1>2, <2>3, <2>4
  <2>7. nhop_used \subseteq NhopIds
    BY DEF NhopTypeOK
  <2>8. NhopTypeOK'
    BY <1>2, <2>1, <2>6, <2>7 DEF NhopTypeOK
  <2> QED
    <3> HIDE DEF E, v
    <3> QED BY <1>2, <2>1, <2>5, <2>6, <2>7, <2>8
<1> QED
  BY <1>1, <1>2 DEF l3_egress_create

\* l3_route_add(): writes at most the slot of its key; slots in use keep
\* distinct keys.
LEMMA RouteAddEffect ==
  ASSUME RouteTypeOK, NEW key \in Keys, NEW nh \in NhopIds, NEW o \in Outcomes,
         l3_route_add(key, nh, o),
         \A s, t \in defip_used : defip_key[s] = defip_key[t] => s = t
  PROVE  /\ RouteTypeOK'
         /\ \A s, t \in defip_used' : defip_key'[s] = defip_key'[t] => s = t
         /\ \A s \in Slots : l3_defip'[s] \in {l3_defip[s], [key |-> key, nh |-> nh]}
<1>1. CASE UNCHANGED routeVars
  BY <1>1 DEF RouteTypeOK, routeVars
<1>2. ASSUME NEW s \in Slots, RouteSlot(key, s),
             defip_used' = defip_used \cup {s},
             defip_key' = [defip_key EXCEPT ![s] = key],
             l3_defip' = sbus_mem_write(l3_defip, s, [key |-> key, nh |-> nh], o)
      PROVE  /\ RouteTypeOK'
             /\ \A x, y \in defip_used' : defip_key'[x] = defip_key'[y] => x = y
             /\ \A x \in Slots : l3_defip'[x] \in {l3_defip[x], [key |-> key, nh |-> nh]}
  <2> DEFINE R == [key : Keys, nh : NhopIds] \cup {NoRoute}
             e == [key |-> key, nh |-> nh]
  <2>1. e \in R /\ l3_defip \in [Slots -> R]
    BY DEF RouteTypeOK
  <2>2. /\ l3_defip' \in [Slots -> R]
        /\ \A x \in Slots : l3_defip'[x] \in {l3_defip[x], e}
    <3>1. l3_defip' = sbus_mem_write(l3_defip, s, e, o)
      BY <1>2
    <3> HIDE DEF R, e
    <3> QED BY <2>1, <3>1, WriteEffect
  <2>3. RouteTypeOK'
    BY <1>2, <2>2 DEF RouteTypeOK
  <2>4. ASSUME NEW x \in defip_used, x # s PROVE defip_key[x] # key
    BY <1>2, <2>4 DEF RouteSlot, defip_find, alloc_id
  <2>5. \A x, y \in defip_used' : defip_key'[x] = defip_key'[y] => x = y
    BY <1>2, <2>4 DEF RouteTypeOK
  <2> QED
    BY <2>2, <2>3, <2>5
<1> QED
  BY <1>1, <1>2 DEF l3_route_add

\* l3_route_delete(): clears at most one slot; slots in use keep distinct keys.
LEMMA RouteDeleteEffect ==
  ASSUME RouteTypeOK, NEW key \in Keys, NEW o \in Outcomes, l3_route_delete(key, o),
         \A s, t \in defip_used : defip_key[s] = defip_key[t] => s = t
  PROVE  /\ RouteTypeOK'
         /\ \A s, t \in defip_used' : defip_key'[s] = defip_key'[t] => s = t
         /\ \A s \in Slots : l3_defip'[s] \in {l3_defip[s], NoRoute}
<1>1. CASE UNCHANGED routeVars
  BY <1>1 DEF RouteTypeOK, routeVars
<1>2. ASSUME NEW s \in Slots,
             l3_defip' = sbus_mem_write(l3_defip, s, NoRoute, o),
             defip_used' = defip_used \ {s},
             defip_key' = [defip_key EXCEPT ![s] = NoKey]
      PROVE  /\ RouteTypeOK'
             /\ \A x, y \in defip_used' : defip_key'[x] = defip_key'[y] => x = y
             /\ \A x \in Slots : l3_defip'[x] \in {l3_defip[x], NoRoute}
  <2> DEFINE R == [key : Keys, nh : NhopIds] \cup {NoRoute}
  <2>1. NoRoute \in R /\ l3_defip \in [Slots -> R]
    BY DEF RouteTypeOK
  <2>2. /\ l3_defip' \in [Slots -> R]
        /\ \A x \in Slots : l3_defip'[x] \in {l3_defip[x], NoRoute}
    <3> HIDE DEF R
    <3> QED BY <1>2, <2>1, WriteEffect
  <2>3. RouteTypeOK'
    BY <1>2, <2>2 DEF RouteTypeOK
  <2>4. \A x, y \in defip_used' : defip_key'[x] = defip_key'[y] => x = y
    BY <1>2 DEF RouteTypeOK
  <2> QED
    BY <2>2, <2>3, <2>4
<1> QED
  BY <1>1, <1>2 DEF l3_route_delete

-----------------------------------------------------------------------------
(* The other tables stay well-typed                                        *)

\* xe_to_block_lane() names an existing block and lane for every front port.
LEMMA BlockLane ==
  ASSUME NEW port \in SwitchPorts
  PROVE  BlockOf(port) \in XlBlocks /\ LaneOf(port) \in Lanes
<1> DEFINE xe == port - 1
<1>1. xe \in 0 .. 51
  BY DEF SwitchPorts
<1>2. BlockOf(port) \in XlBlocks
  BY <1>1 DEF BlockOf, XlBlocks
<1>3. xe % 4 \in Lanes
  BY <1>1 DEF Lanes
<1>4. permute_20_23[xe % 4] \in Lanes
  BY <1>3 DEF permute_20_23, Lanes
<1>5. LaneOf(port) \in Lanes
  BY <1>1, <1>3, <1>4 DEF LaneOf, Lanes
<1> QED
  BY <1>2, <1>5

\* port_enable_set() keeps shadow and register within the blocks and lanes.
LEMMA PortEnableEffect ==
  ASSUME PortTypeOK, NEW port, NEW enable \in BOOLEAN, NEW o \in Outcomes,
         port_enable_set(port, enable, o)
  PROVE  PortTypeOK'
<1>1. CASE port \notin SwitchPorts
  BY <1>1 DEF port_enable_set, portVars, PortTypeOK
<1>2. CASE port \in SwitchPorts
  <2> DEFINE b == BlockOf(port)
             val == IF enable THEN xlport_enable_shadow[b] \cup {LaneOf(port)}
                              ELSE xlport_enable_shadow[b] \ {LaneOf(port)}
  <2>1. b \in XlBlocks /\ LaneOf(port) \in Lanes
    BY <1>2, BlockLane
  <2>2. val \in SUBSET Lanes
    BY <2>1 DEF PortTypeOK
  <2>3. /\ xlport_enable_shadow' = [xlport_enable_shadow EXCEPT ![b] = val]
        /\ port_enable' = sbus_mem_write(port_enable, b, val, o)
        /\ serdes_called' \subseteq serdes_called \cup {port}
    BY <1>2 DEF port_enable_set
  <2> HIDE DEF b, val
  <2>4. port_enable' \in [XlBlocks -> SUBSET Lanes]
    BY <2>1, <2>2, <2>3 DEF PortTypeOK, sbus_mem_write
  <2>5. xlport_enable_shadow' \in [XlBlocks -> SUBSET Lanes]
    BY <2>1, <2>2, <2>3 DEF PortTypeOK
  <2> QED
    BY <1>2, <2>3, <2>4, <2>5 DEF PortTypeOK
<1> QED
  BY <1>1, <1>2

\* l2_addr_add() and l2_addr_delete() store entries of the table's type.
LEMMA L2Effect ==
  ASSUME L2TypeOK, NEW mac \in Macs, NEW vid \in Vids, NEW port \in Ports,
         l2_addr_add(mac, vid, port) \/ l2_addr_delete(mac, vid)
  PROVE  L2TypeOK'
<1> DEFINE V == [mac : Macs, vid : Vids, port : Ports] \cup {NoL2}
<1>1. ASSUME NEW v \in V, NEW k, NEW late, ProbeLoop(mac, vid, v, k, late)
      PROVE  L2TypeOK'
  <2> DEFINE hit == {ProbeSlot(mac, vid, j) : j \in late \cup ({k} \cap 0 .. MaxProbe - 1)}
  <2>1. l2_entry' = [s \in L2Slots |-> IF s \in hit THEN v ELSE l2_entry[s]]
    BY <1>1 DEF ProbeLoop
  <2>2. l2_entry \in [L2Slots -> V]
    BY DEF L2TypeOK
  <2> HIDE DEF hit, V
  <2>3. l2_entry' \in [L2Slots -> V]
    BY <1>1, <2>1, <2>2
  <2> QED
    BY <2>3 DEF L2TypeOK, V
<1>2. [mac |-> mac, vid |-> vid, port |-> port] \in V /\ NoL2 \in V
  OBVIOUS
<1> HIDE DEF V
<1> QED
  BY <1>1, <1>2 DEF l2_addr_add, l2_addr_delete

NeighEntry == [ip : Ips, ifindex : Ifs, mac : Macs]

\* The cache operations keep a sequence of entries, and what a lookup leaves
\* in the caller's buffer is a neighbour's MAC or zeros.
LEMMA CacheSetEffect ==
  ASSUME neigh_cache \in Seq(NeighEntry), NEW ip \in Ips, NEW i \in Ifs, NEW mac \in Macs,
         neigh_cache_set(ip, i, mac)
  PROVE  neigh_cache' \in Seq(NeighEntry)
<1>1. CASE UNCHANGED neigh_cache
  BY <1>1
<1>2. CASE neigh_cache' = Append(neigh_cache, [ip |-> ip, ifindex |-> i, mac |-> mac])
  <2>1. [ip |-> ip, ifindex |-> i, mac |-> mac] \in NeighEntry
    BY DEF NeighEntry
  <2> QED
    BY <1>2, <2>1
<1>3. ASSUME NEW n \in CacheAt(ip, i), neigh_cache' = [neigh_cache EXCEPT ![n].mac = mac]
      PROVE  neigh_cache' \in Seq(NeighEntry)
  <2>1. n \in 1 .. Len(neigh_cache)
    BY DEF CacheAt
  <2>2. neigh_cache[n] \in NeighEntry
    BY <2>1
  <2>3. [neigh_cache[n] EXCEPT !.mac = mac] \in NeighEntry
    BY <2>2 DEF NeighEntry
  <2>4. neigh_cache' = [neigh_cache EXCEPT ![n] = [neigh_cache[n] EXCEPT !.mac = mac]]
    BY <1>3, <2>1
  <2> QED
    BY <2>1, <2>3, <2>4
<1> QED
  BY <1>1, <1>2, <1>3 DEF neigh_cache_set

\* neigh_cache_remove() closes the gap: what is left is a sequence of entries.
LEMMA CacheRemoveEffect ==
  ASSUME neigh_cache \in Seq(NeighEntry), NEW ip \in Ips, NEW i \in Ifs,
         neigh_cache_remove(ip, i)
  PROVE  neigh_cache' \in Seq(NeighEntry)
<1>1. CASE UNCHANGED neigh_cache
  BY <1>1
<1>2. ASSUME NEW hit \in CacheAt(ip, i),
             neigh_cache' = [n \in 1 .. Len(neigh_cache) - 1 |->
                               IF n < hit THEN neigh_cache[n] ELSE neigh_cache[n + 1]]
      PROVE  neigh_cache' \in Seq(NeighEntry)
  <2>1. hit \in 1 .. Len(neigh_cache) /\ Len(neigh_cache) \in Nat
    BY DEF CacheAt
  <2>2. Len(neigh_cache) - 1 \in Nat
    BY <2>1
  <2>3. \A n \in 1 .. Len(neigh_cache) - 1 :
          neigh_cache[n] \in NeighEntry /\ neigh_cache[n + 1] \in NeighEntry
    BY <2>1
  <2>4. neigh_cache' \in [1 .. Len(neigh_cache) - 1 -> NeighEntry]
    BY <1>2, <2>3
  <2> QED
    BY <2>2, <2>4, SeqDef
<1> QED
  BY <1>1, <1>2 DEF neigh_cache_remove

-----------------------------------------------------------------------------
(* The initial state                                                       *)

\* The state in which the thread starts satisfies IInv.
LEMMA InitIInv == Init => IInv
<1> SUFFICES ASSUME Init PROVE IInv
  OBVIOUS
<1>1. L2TypeOK
  BY DEF Init, L2Init, L2TypeOK
<1>2. L3TypeOK
  <2>1. IntfTypeOK
    BY DEF Init, L3Init, IntfTypeOK
  <2>2. NhopTypeOK
    BY DEF Init, L3Init, NhopTypeOK, NoNhop
  <2>3. RouteTypeOK
    BY DEF Init, L3Init, RouteTypeOK
  <2> QED
    BY <2>1, <2>2, <2>3 DEF L3TypeOK
<1>3. PortTypeOK
  <2>1. EnabledLanes(Ports \cap SwitchPorts) \in [XlBlocks -> SUBSET Lanes]
    BY BlockLane DEF EnabledLanes
  <2> QED
    BY <2>1 DEF Init, PortTypeOK
<1>4. neigh_cache \in Seq([ip : Ips, ifindex : Ifs, mac : Macs])
  BY DEF Init
<1>5. kfib \in [Keys -> FibEntry]
  BY DEF Init, FibEntry, NoFib
<1>6. TypeOK
  BY <1>1, <1>2, <1>3, <1>4, <1>5 DEF Init, TypeOK
<1>7. DefipKeysDistinct /\ RoutesResolve /\ PortOwnsIntf
  BY DEF Init, L3Init, DefipKeysDistinct, RoutesResolve, PortOwnsIntf
<1> QED
  BY <1>6, <1>7 DEF IInv

-----------------------------------------------------------------------------
(* What each message preserves                                             *)

\* The interface a handler looks up is a port's, or 0.
LEMMA PortOfType ==
  ASSUME TypeOK, NEW i
  PROVE  PortOf(i) \in Ports \cup {0} /\ (PortOf(i) # 0 => i \in Ifs)
BY DEF TypeOK, PortOf

\* RTM_NEWLINK touches only the index map and the port registers.
LEMMA NewLinkIInv ==
  ASSUME IInv, NEW i \in Ifs, NEW name \in Ports \cup {Other}, NEW up \in BOOLEAN,
         NewLink(i, name, up)
  PROVE  IInv'
<1>1. PortTypeOK'
  <2>1. CASE name = Other
    BY <2>1 DEF NewLink, portVars, PortTypeOK, IInv, TypeOK
  <2>2. CASE name # Other
    <3>1. PICK o \in Outcomes : port_enable_set(name, up, o)
      BY <2>2 DEF NewLink
    <3> QED
      BY <3>1, PortEnableEffect DEF IInv, TypeOK
  <2> QED
    BY <2>1, <2>2
<1>2. ifindex_to_port' \in [Ifs -> Ports \cup {0}] /\ kadmin' \in [Ports -> BOOLEAN]
  BY DEF NewLink, IInv, TypeOK
<1>3. klink' \in [Ifs -> Ports \cup {Other, Absent}]
  BY DEF NewLink, IInv, TypeOK
<1>4. UNCHANGED <<port_to_intf_id, neigh_cache, nl_running, kaddr, kneigh, kfib,
                  l2_entry, intf_used, egr_l3_intf, nhop_used, ing_nhop, egr_nhop,
                  defip_used, defip_key, l3_defip>>
  BY DEF NewLink, l3Vars, intfVars, nhopVars, routeVars
<1>5. L2TypeOK' /\ L3TypeOK'
  BY <1>4 DEF IInv, TypeOK, L2TypeOK, L3TypeOK, IntfTypeOK, NhopTypeOK, RouteTypeOK
<1>6. TypeOK'
  BY <1>1, <1>2, <1>3, <1>4, <1>5 DEF IInv, TypeOK
<1>7. DefipKeysDistinct' /\ RoutesResolve' /\ PortOwnsIntf'
  BY <1>4 DEF IInv, DefipKeysDistinct, RoutesResolve, PortOwnsIntf
<1> QED
  BY <1>6, <1>7 DEF IInv

\* RTM_DELLINK forgets the index and leaves every table of the chip alone.
LEMMA DelLinkIInv ==
  ASSUME IInv, NEW i \in Ifs, DelLink(i)
  PROVE  IInv'
<1>1. ifindex_to_port' \in [Ifs -> Ports \cup {0}]
  BY DEF DelLink, IInv, TypeOK
<1>2. klink' \in [Ifs -> Ports \cup {Other, Absent}]
  BY DEF DelLink, IInv, TypeOK
<1>3. UNCHANGED <<port_to_intf_id, neigh_cache, nl_running, kadmin, kaddr, kneigh, kfib,
                  l2_entry, intf_used, egr_l3_intf, nhop_used, ing_nhop, egr_nhop,
                  defip_used, defip_key, l3_defip, xlport_enable_shadow, port_enable,
                  serdes_called>>
  BY DEF DelLink, l3Vars, intfVars, nhopVars, routeVars, portVars
<1>4. L2TypeOK' /\ L3TypeOK' /\ PortTypeOK'
  BY <1>3 DEF IInv, TypeOK, L2TypeOK, L3TypeOK, IntfTypeOK, NhopTypeOK, RouteTypeOK,
              PortTypeOK
<1>5. TypeOK'
  BY <1>1, <1>2, <1>3, <1>4 DEF IInv, TypeOK
<1>6. DefipKeysDistinct' /\ RoutesResolve' /\ PortOwnsIntf'
  BY <1>3 DEF IInv, DefipKeysDistinct, RoutesResolve, PortOwnsIntf
<1> QED
  BY <1>5, <1>6 DEF IInv

\* RTM_NEWADDR: the id that is recorded was free, so no port had it.
LEMMA NewAddrIInv ==
  ASSUME IInv, NEW i \in Ifs, NEW a \in Addrs, NewAddr(i, a)
  PROVE  IInv'
<1>1. UNCHANGED <<ifindex_to_port, neigh_cache, nl_running, klink, kadmin, kneigh, kfib,
                  l2_entry, nhop_used, ing_nhop, egr_nhop, defip_used, defip_key,
                  l3_defip, xlport_enable_shadow, port_enable, serdes_called>>
  BY DEF NewAddr, nhopVars, routeVars, portVars
<1>2. kaddr' \in [Ifs -> SUBSET Addrs]
  BY DEF NewAddr, IInv, TypeOK
<1>3. /\ IntfTypeOK'
      /\ port_to_intf_id' \in [L3Ports -> IntfIds \cup {0}]
      /\ PortOwnsIntf'
  <2>1. CASE PortOf(i) \notin L3Ports
    BY <2>1 DEF NewAddr, intfVars, IInv, TypeOK, L3TypeOK, IntfTypeOK, PortOwnsIntf
  <2>2. CASE PortOf(i) \in L3Ports
    <3>1. PICK o \in Outcomes, ret \in IntfIds \cup {0} :
            /\ l3_intf_create(PortOf(i), o, ret)
            /\ port_to_intf_id' =
                 IF ret # 0 THEN [port_to_intf_id EXCEPT ![PortOf(i)] = ret]
                            ELSE port_to_intf_id
      BY <2>2 DEF NewAddr
    <3>2. PortOf(i) \in Ports /\ IntfTypeOK
      BY <2>2 DEF L3Ports, IInv, TypeOK, L3TypeOK
    <3>3. /\ IntfTypeOK'
          /\ intf_used \subseteq intf_used'
          /\ \A j \in intf_used : egr_l3_intf'[j] = egr_l3_intf[j]
          /\ ret # 0 => /\ ret \notin intf_used /\ ret \in intf_used'
                        /\ egr_l3_intf'[ret] = PortOf(i)
      BY <3>1, <3>2, IntfCreateEffect
    <3>4. port_to_intf_id \in [L3Ports -> IntfIds \cup {0}]
      BY DEF IInv, TypeOK
    <3>5. port_to_intf_id' \in [L3Ports -> IntfIds \cup {0}]
      BY <2>2, <3>1, <3>4
    <3>6. PortOwnsIntf'
      BY <2>2, <3>1, <3>3, <3>4 DEF IInv, PortOwnsIntf
    <3> QED
      BY <3>3, <3>5, <3>6
  <2> QED
    BY <2>1, <2>2
<1>4. L2TypeOK' /\ NhopTypeOK' /\ RouteTypeOK' /\ PortTypeOK'
  BY <1>1 DEF IInv, TypeOK, L2TypeOK, L3TypeOK, NhopTypeOK, RouteTypeOK, PortTypeOK
<1>5. TypeOK'
  BY <1>1, <1>2, <1>3, <1>4 DEF IInv, TypeOK, L3TypeOK
<1>6. DefipKeysDistinct' /\ RoutesResolve'
  BY <1>1 DEF IInv, DefipKeysDistinct, RoutesResolve
<1> QED
  BY <1>3, <1>5, <1>6 DEF IInv

\* RTM_DELADDR: the id that is freed was this port's alone.
LEMMA DelAddrIInv ==
  ASSUME IInv, NEW i \in Ifs, NEW a \in Addrs, DelAddr(i, a)
  PROVE  IInv'
<1>1. UNCHANGED <<ifindex_to_port, neigh_cache, nl_running, klink, kadmin, kneigh, kfib,
                  l2_entry, nhop_used, ing_nhop, egr_nhop, defip_used, defip_key,
                  l3_defip, xlport_enable_shadow, port_enable, serdes_called>>
  BY DEF DelAddr, nhopVars, routeVars, portVars
<1>2. kaddr' \in [Ifs -> SUBSET Addrs]
  BY DEF DelAddr, IInv, TypeOK
<1>3. /\ IntfTypeOK'
      /\ port_to_intf_id' \in [L3Ports -> IntfIds \cup {0}]
      /\ PortOwnsIntf'
  <2> DEFINE p == PortOf(i)
             id == port_to_intf_id[p]
  <2>1. CASE p \notin L3Ports \/ id = 0
    BY <2>1 DEF DelAddr, intfVars, IInv, TypeOK, L3TypeOK, IntfTypeOK, PortOwnsIntf
  <2>2. CASE p \in L3Ports /\ id # 0
    <3>1. PICK o \in Outcomes : l3_intf_destroy(id, o)
      BY <2>2 DEF DelAddr
    <3>2. port_to_intf_id' = [port_to_intf_id EXCEPT ![p] = 0]
      BY <2>2 DEF DelAddr
    <3>3. port_to_intf_id \in [L3Ports -> IntfIds \cup {0}] /\ IntfTypeOK
      BY DEF IInv, TypeOK, L3TypeOK
    <3>4. id \in IntfIds
      BY <2>2, <3>3
    <3> HIDE DEF p, id
    <3>5. /\ IntfTypeOK'
          /\ intf_used' = intf_used \ {id}
          /\ \A j \in IntfIds \ {id} : egr_l3_intf'[j] = egr_l3_intf[j]
      BY <3>1, <3>3, <3>4, IntfDestroyEffect
    <3>6. port_to_intf_id' \in [L3Ports -> IntfIds \cup {0}]
      BY <2>2, <3>2, <3>3
    <3>7. PortOwnsIntf'
      BY <2>2, <3>2, <3>3, <3>5 DEF IInv, PortOwnsIntf, id
    <3> QED
      BY <3>5, <3>6, <3>7
  <2> QED
    BY <2>1, <2>2
<1>4. L2TypeOK' /\ NhopTypeOK' /\ RouteTypeOK' /\ PortTypeOK'
  BY <1>1 DEF IInv, TypeOK, L2TypeOK, L3TypeOK, NhopTypeOK, RouteTypeOK, PortTypeOK
<1>5. TypeOK'
  BY <1>1, <1>2, <1>3, <1>4 DEF IInv, TypeOK, L3TypeOK
<1>6. DefipKeysDistinct' /\ RoutesResolve'
  BY <1>1 DEF IInv, DefipKeysDistinct, RoutesResolve
<1> QED
  BY <1>3, <1>5, <1>6 DEF IInv

\* RTM_NEWNEIGH and RTM_DELNEIGH touch only the cache and L2_ENTRY.
LEMMA NewNeighIInv ==
  ASSUME IInv, NEW i \in Ifs, NEW ip \in Ips, NEW mac \in Macs \cup {0}, NEW vid \in Vids,
         NewNeigh(i, ip, mac, vid)
  PROVE  IInv'
<1>1. UNCHANGED <<ifindex_to_port, port_to_intf_id, nl_running, klink, kadmin, kaddr, kfib,
                  intf_used, egr_l3_intf, nhop_used, ing_nhop, egr_nhop, defip_used,
                  defip_key, l3_defip, xlport_enable_shadow, port_enable, serdes_called>>
  BY DEF NewNeigh, l3Vars, intfVars, nhopVars, routeVars, portVars
<1>2. kneigh' \in [Ips \X Ifs -> Macs \cup {0}]
  BY DEF NewNeigh, IInv, TypeOK
<1>3. L2TypeOK' /\ neigh_cache' \in Seq(NeighEntry)
  <2>1. CASE PortOf(i) = 0 \/ mac = 0
    BY <2>1 DEF NewNeigh, IInv, TypeOK, L2TypeOK, NeighEntry
  <2>2. CASE PortOf(i) # 0 /\ mac # 0
    <3>1. l2_addr_add(mac, vid, PortOf(i)) /\ neigh_cache_set(ip, i, mac)
      BY <2>2 DEF NewNeigh
    <3>2. PortOf(i) \in Ports /\ mac \in Macs
      BY <2>2, PortOfType DEF IInv
    <3>3. L2TypeOK /\ neigh_cache \in Seq(NeighEntry)
      BY DEF IInv, TypeOK, NeighEntry
    <3>4. L2TypeOK'
      BY <3>1, <3>2, <3>3, L2Effect
    <3>5. neigh_cache' \in Seq(NeighEntry)
      BY <3>1, <3>2, <3>3, CacheSetEffect
    <3> QED
      BY <3>4, <3>5
  <2> QED
    BY <2>1, <2>2
<1>4. L3TypeOK' /\ PortTypeOK'
  BY <1>1 DEF IInv, TypeOK, L3TypeOK, IntfTypeOK, NhopTypeOK, RouteTypeOK, PortTypeOK
<1>5. TypeOK'
  BY <1>1, <1>2, <1>3, <1>4 DEF IInv, TypeOK, NeighEntry
<1>6. DefipKeysDistinct' /\ RoutesResolve' /\ PortOwnsIntf'
  BY <1>1 DEF IInv, DefipKeysDistinct, RoutesResolve, PortOwnsIntf
<1> QED
  BY <1>5, <1>6 DEF IInv

\* RTM_DELNEIGH clears an L2 entry and shrinks the cache.
LEMMA DelNeighIInv ==
  ASSUME IInv, NEW i \in Ifs, NEW ip \in Ips, NEW vid \in Vids, NEW lladdr \in BOOLEAN,
         DelNeigh(i, ip, vid, lladdr)
  PROVE  IInv'
<1>1. UNCHANGED <<ifindex_to_port, port_to_intf_id, nl_running, klink, kadmin, kaddr, kfib,
                  intf_used, egr_l3_intf, nhop_used, ing_nhop, egr_nhop, defip_used,
                  defip_key, l3_defip, xlport_enable_shadow, port_enable, serdes_called>>
  BY DEF DelNeigh, l3Vars, intfVars, nhopVars, routeVars, portVars
<1>2. kneigh' \in [Ips \X Ifs -> Macs \cup {0}]
  BY DEF DelNeigh, IInv, TypeOK
<1>3. L2TypeOK' /\ neigh_cache' \in Seq(NeighEntry)
  <2>1. CASE PortOf(i) = 0
    BY <2>1 DEF DelNeigh, IInv, TypeOK, L2TypeOK, NeighEntry
  <2>2. CASE PortOf(i) # 0
    <3>1. PICK mac \in Macs \cup {ZeroMac} :
            IF mac = ZeroMac THEN UNCHANGED l2_entry ELSE l2_addr_delete(mac, vid)
      BY <2>2 DEF DelNeigh
    <3>2. L2TypeOK /\ neigh_cache \in Seq(NeighEntry) /\ PortOf(i) \in Ports
      BY <2>2, PortOfType DEF IInv, TypeOK, NeighEntry
    <3>3. L2TypeOK'
      <4>1. CASE UNCHANGED l2_entry
        BY <3>2, <4>1 DEF L2TypeOK
      <4>2. CASE mac \in Macs /\ l2_addr_delete(mac, vid)
        BY <3>2, <4>2, L2Effect
      <4> QED
        BY <3>1, <4>1, <4>2
    <3>4. neigh_cache_remove(ip, i)
      BY <2>2 DEF DelNeigh
    <3>5. neigh_cache' \in Seq(NeighEntry)
      BY <3>2, <3>4, CacheRemoveEffect
    <3> QED
      BY <3>3, <3>5
  <2> QED
    BY <2>1, <2>2
<1>4. L3TypeOK' /\ PortTypeOK'
  BY <1>1 DEF IInv, TypeOK, L3TypeOK, IntfTypeOK, NhopTypeOK, RouteTypeOK, PortTypeOK
<1>5. TypeOK'
  BY <1>1, <1>2, <1>3, <1>4 DEF IInv, TypeOK, NeighEntry
<1>6. DefipKeysDistinct' /\ RoutesResolve' /\ PortOwnsIntf'
  BY <1>1 DEF IInv, DefipKeysDistinct, RoutesResolve, PortOwnsIntf
<1> QED
  BY <1>5, <1>6 DEF IInv

\* RTM_NEWROUTE: what the next-hop and the route table look like afterwards.
LEMMA NewRouteEffect ==
  ASSUME IInv, NEW key \in Keys, NEW oif \in Ifs \cup {0}, NEW gw \in Ips \cup {0},
         NewRoute(key, oif, gw)
  PROVE  /\ NhopTypeOK' /\ RouteTypeOK' /\ DefipKeysDistinct' /\ RoutesResolve'
         /\ \A n \in nhop_used : ing_nhop'[n] = ing_nhop[n] /\ egr_nhop'[n] = egr_nhop[n]
<1>1. NhopTypeOK /\ RouteTypeOK /\ DefipKeysDistinct /\ RoutesResolve
  BY DEF IInv, TypeOK, L3TypeOK
<1>2. CASE UNCHANGED <<nhopVars, routeVars>>
  BY <1>1, <1>2 DEF nhopVars, routeVars, NhopTypeOK, RouteTypeOK, DefipKeysDistinct,
                    RoutesResolve
<1>3. CASE PortOf(oif) # 0
  <2> DEFINE port == PortOf(oif)
             intf == IF port \in L3Ports THEN port_to_intf_id[port] ELSE 0
  <2>1. PICK o1 \in Outcomes, o2 \in Outcomes, o3 \in Outcomes,
             mac \in Macs \cup {ZeroMac}, ret \in NhopIds \cup {0} :
          /\ l3_egress_create(port, intf, mac, o1, o2, ret)
          /\ IF ret = 0 THEN UNCHANGED routeVars ELSE l3_route_add(key, ret, o3)
    BY <1>3 DEF NewRoute
  <2>2. port \in Ports /\ intf \in IntfIds \cup {0}
    BY <1>3, PortOfType DEF IInv, TypeOK
  <2> HIDE DEF port, intf
  <2>3. /\ NhopTypeOK'
        /\ nhop_used \subseteq nhop_used'
        /\ \A n \in nhop_used : ing_nhop'[n] = ing_nhop[n] /\ egr_nhop'[n] = egr_nhop[n]
        /\ ret # 0 => /\ ret \in nhop_used' \ nhop_used
                      /\ ing_nhop'[ret] = port
                      /\ egr_nhop'[ret] = [intf |-> intf, mac |-> mac]
                      /\ intf # 0
    BY <1>1, <2>1, <2>2, EgressCreateEffect
  <2>4. CASE ret = 0
    BY <1>1, <2>1, <2>3, <2>4 DEF routeVars, RouteTypeOK, DefipKeysDistinct, RoutesResolve
  <2>5. CASE ret # 0
    <3>1. ret \in NhopIds /\ l3_route_add(key, ret, o3)
      BY <2>1, <2>5
    <3>2. /\ RouteTypeOK'
          /\ DefipKeysDistinct'
          /\ \A s \in Slots : l3_defip'[s] \in {l3_defip[s], [key |-> key, nh |-> ret]}
      BY <1>1, <3>1, RouteAddEffect DEF DefipKeysDistinct
    <3>3. RoutesResolve'
      <4> SUFFICES ASSUME NEW s \in Slots, l3_defip'[s] # NoRoute
                   PROVE  /\ l3_defip'[s].nh \in nhop_used'
                          /\ ing_nhop'[l3_defip'[s].nh] \in Ports
                          /\ egr_nhop'[l3_defip'[s].nh].intf \in IntfIds
        BY DEF RoutesResolve
      <4>1. CASE l3_defip'[s] = l3_defip[s]
        BY <1>1, <2>3, <4>1 DEF RoutesResolve
      <4>2. CASE l3_defip'[s] = [key |-> key, nh |-> ret]
        BY <2>2, <2>3, <2>5, <4>2
      <4> QED
        BY <3>2, <4>1, <4>2
    <3> QED
      BY <2>3, <3>2, <3>3
  <2> QED
    BY <2>4, <2>5
<1> QED
  BY <1>2, <1>3 DEF NewRoute

\* RTM_NEWROUTE: a route is written only to a next hop that is complete.
LEMMA NewRouteIInv ==
  ASSUME IInv, NEW key \in Keys, NEW oif \in Ifs \cup {0}, NEW gw \in Ips \cup {0},
         NewRoute(key, oif, gw)
  PROVE  IInv'
<1>1. UNCHANGED <<ifindex_to_port, port_to_intf_id, neigh_cache, nl_running, klink, kadmin,
                  kaddr, kneigh, l2_entry, intf_used, egr_l3_intf, xlport_enable_shadow,
                  port_enable, serdes_called>>
  BY DEF NewRoute, nlVars, intfVars, portVars
<1>2. NhopTypeOK' /\ RouteTypeOK' /\ DefipKeysDistinct' /\ RoutesResolve'
  BY NewRouteEffect
<1>3. kfib' \in [Keys -> FibEntry]
  BY DEF NewRoute, IInv, TypeOK, FibEntry
<1>4. L2TypeOK' /\ IntfTypeOK' /\ PortTypeOK'
  BY <1>1 DEF IInv, TypeOK, L2TypeOK, L3TypeOK, IntfTypeOK, PortTypeOK
<1>5. TypeOK'
  BY <1>1, <1>2, <1>3, <1>4 DEF IInv, TypeOK, L3TypeOK
<1>6. PortOwnsIntf'
  BY <1>1 DEF IInv, PortOwnsIntf
<1> QED
  BY <1>2, <1>5, <1>6 DEF IInv

\* RTM_DELROUTE: a slot is freed, and its entry may stay valid.
LEMMA DelRouteIInv ==
  ASSUME IInv, NEW key \in Keys, DelRoute(key)
  PROVE  IInv'
<1>1. UNCHANGED <<ifindex_to_port, port_to_intf_id, neigh_cache, nl_running, klink, kadmin,
                  kaddr, kneigh, l2_entry, intf_used, egr_l3_intf, nhop_used, ing_nhop,
                  egr_nhop, xlport_enable_shadow, port_enable, serdes_called>>
  BY DEF DelRoute, nlVars, intfVars, nhopVars, portVars
<1>2. PICK o \in Outcomes : l3_route_delete(key, o)
  BY DEF DelRoute
<1>3. /\ RouteTypeOK'
      /\ DefipKeysDistinct'
      /\ \A s \in Slots : l3_defip'[s] \in {l3_defip[s], NoRoute}
  BY <1>2, RouteDeleteEffect DEF IInv, TypeOK, L3TypeOK, DefipKeysDistinct
<1>4. kfib' \in [Keys -> FibEntry]
  BY DEF DelRoute, IInv, TypeOK, FibEntry, NoFib
<1>5. L2TypeOK' /\ IntfTypeOK' /\ NhopTypeOK' /\ PortTypeOK'
  BY <1>1 DEF IInv, TypeOK, L2TypeOK, L3TypeOK, IntfTypeOK, NhopTypeOK, PortTypeOK
<1>6. TypeOK'
  BY <1>1, <1>3, <1>4, <1>5 DEF IInv, TypeOK, L3TypeOK
<1>7. RoutesResolve' /\ PortOwnsIntf'
  BY <1>1, <1>3 DEF IInv, RoutesResolve, PortOwnsIntf
<1> QED
  BY <1>3, <1>6, <1>7 DEF IInv

-----------------------------------------------------------------------------
(* Theorems                                                                *)

\* A step that changes none of the variables.
LEMMA StutterIInv ==
  ASSUME IInv, UNCHANGED vars
  PROVE  IInv'
BY DEF vars, nlVars, kVars, l3Vars, intfVars, nhopVars, routeVars, portVars, IInv, TypeOK,
       L2TypeOK, L3TypeOK, IntfTypeOK, NhopTypeOK, RouteTypeOK, PortTypeOK,
       DefipKeysDistinct, RoutesResolve, PortOwnsIntf

\* The end of the receive loop changes no table.
LEMMA RecvErrorIInv ==
  ASSUME IInv, RecvError
  PROVE  IInv'
BY DEF RecvError, kVars, l3Vars, intfVars, nhopVars, routeVars, portVars, IInv, TypeOK,
       L2TypeOK, L3TypeOK, IntfTypeOK, NhopTypeOK, RouteTypeOK, PortTypeOK,
       DefipKeysDistinct, RoutesResolve, PortOwnsIntf

\* IInv is inductive: no message, handled whole, and no failing write of the
\* chip in the middle of one, breaks it.
THEOREM Inductive == Spec => []IInv
<1>1. IInv /\ [Next]_vars => IInv'
  <2> SUFFICES ASSUME IInv, [Next]_vars PROVE IInv'
    OBVIOUS
  <2>1. CASE LinkMsg
    BY <2>1, NewLinkIInv, DelLinkIInv DEF LinkMsg
  <2>2. CASE AddrMsg
    BY <2>2, NewAddrIInv, DelAddrIInv DEF AddrMsg
  <2>3. CASE NeighMsg
    BY <2>3, NewNeighIInv, DelNeighIInv DEF NeighMsg
  <2>4. CASE RouteMsg
    BY <2>4, NewRouteIInv, DelRouteIInv DEF RouteMsg
  <2>5. CASE RecvError
    BY <2>5, RecvErrorIInv
  <2>6. CASE UNCHANGED vars
    BY <2>6, StutterIInv
  <2> QED
    BY <2>1, <2>2, <2>3, <2>4, <2>5, <2>6 DEF Next
<1> QED
  BY <1>1, InitIInv, PTL DEF Spec

\* Every table of the thread and of the chip keeps its type.
THEOREM TypeCorrect == Spec => []TypeOK
<1>1. IInv => TypeOK
  BY DEF IInv
<1> QED
  BY <1>1, Inductive, PTL

\* No two slots in use of L3_DEFIP hold the same prefix.
THEOREM KeysDistinct == Spec => []DefipKeysDistinct
<1>1. IInv => DefipKeysDistinct
  BY DEF IInv
<1> QED
  BY <1>1, Inductive, PTL

\* Every entry the chip matches leads to a complete next hop, whatever writes
\* failed on the way.
THEOREM RoutesAlwaysResolve == Spec => []RoutesResolve
<1>1. IInv => RoutesResolve
  BY DEF IInv
<1> QED
  BY <1>1, Inductive, PTL

\* The interface recorded for a port is the port's own.
THEOREM PortsOwnTheirIntf == Spec => []PortOwnsIntf
<1>1. IInv => PortOwnsIntf
  BY DEF IInv
<1> QED
  BY <1>1, Inductive, PTL

\* No message rewrites a next hop that a route of the chip uses.
THEOREM NextHopsStable == Spec => UsedNextHopsStable
<1> DEFINE Stable == \A s \in Slots : l3_defip[s] # NoRoute /\ l3_defip'[s] = l3_defip[s] =>
                       LET nh == l3_defip[s].nh
                       IN  ing_nhop'[nh] = ing_nhop[nh] /\ egr_nhop'[nh] = egr_nhop[nh]
<1>1. IInv /\ [Next]_vars => Stable
  <2> SUFFICES ASSUME IInv, [Next]_vars PROVE Stable
    OBVIOUS
  <2>1. ASSUME \A n \in nhop_used : ing_nhop'[n] = ing_nhop[n] /\ egr_nhop'[n] = egr_nhop[n]
        PROVE  Stable
    BY <2>1 DEF IInv, RoutesResolve
  <2>2. CASE UNCHANGED <<ing_nhop, egr_nhop>>
    BY <2>1, <2>2
  <2>3. CASE RouteMsg
    <3>1. ASSUME NEW key \in Keys, NEW oif \in Ifs \cup {0}, NEW gw \in Ips \cup {0},
                 NewRoute(key, oif, gw)
          PROVE  Stable
      BY <2>1, <3>1, NewRouteEffect
    <3>2. ASSUME NEW key \in Keys, DelRoute(key) PROVE Stable
      BY <2>2, <3>2 DEF DelRoute, nhopVars
    <3> QED
      BY <2>3, <3>1, <3>2 DEF RouteMsg
  <2>4. CASE LinkMsg
    BY <2>2, <2>4 DEF LinkMsg, NewLink, DelLink, l3Vars, nhopVars
  <2>5. CASE AddrMsg
    BY <2>2, <2>5 DEF AddrMsg, NewAddr, DelAddr, nhopVars
  <2>6. CASE NeighMsg
    BY <2>2, <2>6 DEF NeighMsg, NewNeigh, DelNeigh, l3Vars, nhopVars
  <2>7. CASE RecvError
    BY <2>2, <2>7 DEF RecvError, l3Vars, nhopVars
  <2>8. CASE UNCHANGED vars
    BY <2>2, <2>8 DEF vars, l3Vars, nhopVars
  <2> QED
    BY <2>3, <2>4, <2>5, <2>6, <2>7, <2>8 DEF Next
<1> QED
  BY <1>1, Inductive, PTL DEF Spec, UsedNextHopsStable

-----------------------------------------------------------------------------
(* The neighbour cache                                                     *)

\* NeighCacheFresh is not inductive: that an RTM_DELNEIGH always finds the
\* entry it must remove needs that no cached interface has lost its port,
\* which holds because the kernel withdraws an interface's neighbours first.
CacheSound ==
  /\ Len(neigh_cache) <= NeighCacheSize
  /\ \A m, n \in 1 .. Len(neigh_cache) :
       neigh_cache[m].ip = neigh_cache[n].ip /\ neigh_cache[m].ifindex = neigh_cache[n].ifindex => m = n
  /\ \A n \in 1 .. Len(neigh_cache) :
       /\ kneigh[<<neigh_cache[n].ip, neigh_cache[n].ifindex>>] = neigh_cache[n].mac
       /\ PortOf(neigh_cache[n].ifindex) # 0

\* Its three parts, for a cache, the kernel's neighbours and the index map.
SoundCache(cache, known, port) ==
  /\ Len(cache) <= NeighCacheSize
  /\ \A m, n \in 1 .. Len(cache) :
       cache[m].ip = cache[n].ip /\ cache[m].ifindex = cache[n].ifindex => m = n
  /\ \A n \in 1 .. Len(cache) :
       /\ known[<<cache[n].ip, cache[n].ifindex>>] = cache[n].mac
       /\ cache[n].ifindex < MaxIfindex /\ port[cache[n].ifindex] # 0

LEMMA CacheSoundIs ==
  ASSUME TypeOK
  PROVE  CacheSound <=> SoundCache(neigh_cache, kneigh, ifindex_to_port)
<1>1. \A n \in 1 .. Len(neigh_cache) : neigh_cache[n] \in NeighEntry
  <2>1. neigh_cache \in Seq(NeighEntry) BY DEF TypeOK, NeighEntry
  <2> QED BY <2>1
<1>2. \A n \in 1 .. Len(neigh_cache) : neigh_cache[n].ifindex \in Ifs BY <1>1 DEF NeighEntry
<1> QED BY <1>2 DEF CacheSound, SoundCache, PortOf

\* An entry rewritten in place, an entry appended, an entry taken out.
LEMMA SetInPlace ==
  ASSUME NEW c \in Seq(NeighEntry), NEW known \in [Ips \X Ifs -> Macs \cup {0}], NEW port,
         SoundCache(c, known, port),
         NEW h \in 1 .. Len(c), NEW mac \in Macs, NEW at, at = <<c[h].ip, c[h].ifindex>>
  PROVE  SoundCache([c EXCEPT ![h].mac = mac], [known EXCEPT ![at] = mac], port)
<1> DEFINE d == [c EXCEPT ![h].mac = mac]
           k == [known EXCEPT ![at] = mac]
<1>1. \A n \in 1 .. Len(c) : c[n] \in NeighEntry OBVIOUS
<1>2. c[h] \in NeighEntry BY <1>1
<1>3. /\ Len(d) = Len(c)
      /\ \A n \in 1 .. Len(c) : d[n].ip = c[n].ip /\ d[n].ifindex = c[n].ifindex
      /\ \A n \in 1 .. Len(c) : d[n].mac = IF n = h THEN mac ELSE c[n].mac
  BY <1>1 DEF NeighEntry
<1>4. at \in Ips \X Ifs BY <1>2 DEF NeighEntry
<1>5. ASSUME NEW n \in 1 .. Len(c) PROVE k[<<c[n].ip, c[n].ifindex>>] = d[n].mac
  <2>1. CASE n = h BY <1>3, <1>4, <2>1
  <2>2. CASE n # h
    <3>1. <<c[n].ip, c[n].ifindex>> # at BY <2>2 DEF SoundCache
    <3>2. <<c[n].ip, c[n].ifindex>> \in Ips \X Ifs BY <1>1 DEF NeighEntry
    <3>3. k[<<c[n].ip, c[n].ifindex>>] = known[<<c[n].ip, c[n].ifindex>>] BY <3>1, <3>2
    <3> QED BY <1>3, <2>2, <3>3 DEF SoundCache
  <2> QED BY <2>1, <2>2
<1> HIDE DEF d, k
<1>6. SoundCache(d, k, port) BY <1>3, <1>5 DEF SoundCache
<1> QED BY <1>6 DEF d, k

LEMMA SetAppended ==
  ASSUME NEW c \in Seq(NeighEntry), NEW known \in [Ips \X Ifs -> Macs \cup {0}], NEW port,
         SoundCache(c, known, port), Len(c) < NeighCacheSize,
         NEW ip \in Ips, NEW i \in Ifs, NEW mac \in Macs, i < MaxIfindex, port[i] # 0,
         \A n \in 1 .. Len(c) : ~(c[n].ip = ip /\ c[n].ifindex = i)
  PROVE  SoundCache(Append(c, [ip |-> ip, ifindex |-> i, mac |-> mac]),
                    [known EXCEPT ![<<ip, i>>] = mac], port)
<1> DEFINE e == [ip |-> ip, ifindex |-> i, mac |-> mac]
           d == Append(c, e)
           k == [known EXCEPT ![<<ip, i>>] = mac]
<1>1. Len(c) \in Nat /\ NeighCacheSize \in Nat BY NetlinkAssumption
<1>2. /\ Len(d) = Len(c) + 1 /\ d[Len(c) + 1] = e
      /\ \A n \in 1 .. Len(c) : d[n] = c[n]
  OBVIOUS
<1>3. \A n \in 1 .. Len(d) : n \in 1 .. Len(c) \/ n = Len(c) + 1 BY <1>1, <1>2
<1>4. \A n \in 1 .. Len(c) : <<c[n].ip, c[n].ifindex>> \in Ips \X Ifs
  <2>1. \A n \in 1 .. Len(c) : c[n] \in NeighEntry OBVIOUS
  <2> QED BY <2>1 DEF NeighEntry
<1>5. \A n \in 1 .. Len(c) : k[<<c[n].ip, c[n].ifindex>>] = known[<<c[n].ip, c[n].ifindex>>]
  BY <1>4
<1>6. k[<<ip, i>>] = mac OBVIOUS
<1>7. e.ip = ip /\ e.ifindex = i /\ e.mac = mac OBVIOUS
<1> HIDE DEF d, k, e
<1>8. Len(d) <= NeighCacheSize BY <1>1, <1>2
<1>9. ASSUME NEW m \in 1 .. Len(d), NEW n \in 1 .. Len(d), d[m].ip = d[n].ip, d[m].ifindex = d[n].ifindex
      PROVE  m = n
  BY <1>2, <1>3, <1>7, <1>9 DEF SoundCache
<1>10. ASSUME NEW n \in 1 .. Len(d)
       PROVE  /\ k[<<d[n].ip, d[n].ifindex>>] = d[n].mac
              /\ d[n].ifindex < MaxIfindex /\ port[d[n].ifindex] # 0
  <2>1. CASE n \in 1 .. Len(c) BY <1>2, <1>5, <2>1 DEF SoundCache
  <2>2. CASE n = Len(c) + 1 BY <1>2, <1>6, <1>7, <2>2
  <2> QED BY <1>3, <2>1, <2>2
<1>11. SoundCache(d, k, port) BY <1>8, <1>9, <1>10 DEF SoundCache
<1> QED BY <1>11 DEF d, k, e

\* A neighbour that is not cached may change without harm.
LEMMA SetElsewhere ==
  ASSUME NEW c \in Seq(NeighEntry), NEW known \in [Ips \X Ifs -> Macs \cup {0}], NEW port,
         SoundCache(c, known, port), NEW ip, NEW i, NEW mac,
         \A n \in 1 .. Len(c) : ~(c[n].ip = ip /\ c[n].ifindex = i)
  PROVE  SoundCache(c, [known EXCEPT ![<<ip, i>>] = mac], port)
<1>1. \A n \in 1 .. Len(c) : <<c[n].ip, c[n].ifindex>> \in Ips \X Ifs
  <2>1. \A n \in 1 .. Len(c) : c[n] \in NeighEntry OBVIOUS
  <2> QED BY <2>1 DEF NeighEntry
<1>2. \A n \in 1 .. Len(c) :
        [known EXCEPT ![<<ip, i>>] = mac][<<c[n].ip, c[n].ifindex>>] = known[<<c[n].ip, c[n].ifindex>>]
  BY <1>1
<1> QED BY <1>2 DEF SoundCache

LEMMA TakenOut ==
  ASSUME NEW c \in Seq(NeighEntry), NEW known \in [Ips \X Ifs -> Macs \cup {0}], NEW port,
         SoundCache(c, known, port), NEW h \in 1 .. Len(c), NEW at, at = <<c[h].ip, c[h].ifindex>>
  PROVE  SoundCache([n \in 1 .. Len(c) - 1 |-> IF n < h THEN c[n] ELSE c[n + 1]],
                    [known EXCEPT ![at] = 0], port)
<1> DEFINE d == [n \in 1 .. Len(c) - 1 |-> IF n < h THEN c[n] ELSE c[n + 1]]
           k == [known EXCEPT ![at] = 0]
           At(n) == IF n < h THEN n ELSE n + 1
<1>1. Len(c) \in Nat /\ Len(c) - 1 \in Nat /\ NeighCacheSize \in Nat BY NetlinkAssumption
<1>2. \A n \in 1 .. Len(c) : c[n] \in NeighEntry OBVIOUS
<1>3. d \in Seq(NeighEntry) /\ Len(d) = Len(c) - 1
  <2>1. \A n \in 1 .. Len(c) - 1 : n \in 1 .. Len(c) /\ n + 1 \in 1 .. Len(c) BY <1>1
  <2>2. d \in [1 .. Len(c) - 1 -> NeighEntry] BY <1>2, <2>1
  <2> HIDE DEF d
  <2> QED BY <1>1, <2>2, SeqDef
<1>4. \A n \in 1 .. Len(c) - 1 : /\ At(n) \in 1 .. Len(c) /\ At(n) # h
                                 /\ d[n] = c[At(n)]
  BY <1>1
<1>5. \A m, n \in 1 .. Len(c) - 1 : At(m) = At(n) => m = n BY <1>1
<1> HIDE DEF d, At
<1>6. ASSUME NEW m \in 1 .. Len(d), NEW n \in 1 .. Len(d), d[m].ip = d[n].ip, d[m].ifindex = d[n].ifindex
      PROVE  m = n
  <2>1. At(m) = At(n) BY <1>3, <1>4, <1>6 DEF SoundCache
  <2> QED BY <1>3, <1>5, <2>1
<1>7. ASSUME NEW n \in 1 .. Len(c), n # h PROVE k[<<c[n].ip, c[n].ifindex>>] = c[n].mac
  <2>1. <<c[n].ip, c[n].ifindex>> # at BY <1>7 DEF SoundCache
  <2>2. <<c[n].ip, c[n].ifindex>> \in Ips \X Ifs BY <1>2 DEF NeighEntry
  <2>3. k[<<c[n].ip, c[n].ifindex>>] = known[<<c[n].ip, c[n].ifindex>>] BY <2>1, <2>2
  <2>4. known[<<c[n].ip, c[n].ifindex>>] = c[n].mac BY DEF SoundCache
  <2> QED BY <2>3, <2>4
<1> HIDE DEF k
<1>8. ASSUME NEW n \in 1 .. Len(d)
      PROVE  /\ k[<<d[n].ip, d[n].ifindex>>] = d[n].mac
             /\ d[n].ifindex < MaxIfindex /\ port[d[n].ifindex] # 0
  BY <1>3, <1>4, <1>7 DEF SoundCache
<1>9. Len(d) <= NeighCacheSize BY <1>1, <1>3 DEF SoundCache
<1>10. SoundCache(d, k, port) BY <1>6, <1>8, <1>9 DEF SoundCache
<1> QED BY <1>10 DEF d, k

LEMMA CacheStart == Init => CacheSound
<1> SUFFICES ASSUME Init PROVE CacheSound OBVIOUS
<1>1. neigh_cache = <<>> /\ Len(neigh_cache) = 0 BY DEF Init
<1> QED BY <1>1, NetlinkAssumption DEF CacheSound

\* RTM_NEWNEIGH: whichever way neigh_cache_set() goes.
LEMMA NewNeighCache ==
  ASSUME IInv, IInv', CacheSound, NEW i \in Ifs, NEW ip \in Ips, NEW mac \in Macs \cup {0}, NEW vid \in Vids,
         NewNeigh(i, ip, mac, vid)
  PROVE  CacheSound'
<1>1. /\ neigh_cache \in Seq(NeighEntry) /\ kneigh \in [Ips \X Ifs -> Macs \cup {0}]
      /\ SoundCache(neigh_cache, kneigh, ifindex_to_port)
  BY CacheSoundIs DEF IInv, TypeOK, NeighEntry
<1>2. UNCHANGED ifindex_to_port BY DEF NewNeigh
<1>3. SoundCache(neigh_cache', kneigh', ifindex_to_port)
  <2>1. CASE mac = 0 BY <1>1, <2>1 DEF NewNeigh
  <2>2. CASE mac # 0 /\ PortOf(i) = 0
    <3>1. kneigh' = [kneigh EXCEPT ![<<ip, i>>] = mac] /\ neigh_cache' = neigh_cache
      BY <2>2 DEF NewNeigh
    <3>2. \A n \in 1 .. Len(neigh_cache) : ~(neigh_cache[n].ip = ip /\ neigh_cache[n].ifindex = i)
      BY <2>2 DEF CacheSound
    <3> QED BY <1>1, <3>1, <3>2, SetElsewhere
  <2>3. CASE mac # 0 /\ PortOf(i) # 0
    <3>1. kneigh' = [kneigh EXCEPT ![<<ip, i>>] = mac] /\ neigh_cache_set(ip, i, mac)
      BY <2>3 DEF NewNeigh
    <3>2. mac \in Macs /\ i < MaxIfindex /\ ifindex_to_port[i] # 0 BY <2>3 DEF PortOf
    <3>3. CASE CacheAt(ip, i) = {}
      <4>1. \A n \in 1 .. Len(neigh_cache) : ~(neigh_cache[n].ip = ip /\ neigh_cache[n].ifindex = i)
        BY <3>3 DEF CacheAt
      <4>2. CASE neigh_cache' = neigh_cache BY <1>1, <3>1, <4>1, <4>2, SetElsewhere
      <4>3. CASE /\ Len(neigh_cache) < NeighCacheSize
                 /\ neigh_cache' = Append(neigh_cache, [ip |-> ip, ifindex |-> i, mac |-> mac])
        BY <1>1, <3>1, <3>2, <4>1, <4>3, SetAppended
      <4> QED BY <3>1, <3>3, <4>2, <4>3 DEF neigh_cache_set
    <3>4. CASE CacheAt(ip, i) # {}
      <4>1. PICK h \in CacheAt(ip, i) : neigh_cache' = [neigh_cache EXCEPT ![h].mac = mac]
        BY <3>1, <3>4 DEF neigh_cache_set
      <4>2. h \in 1 .. Len(neigh_cache) /\ neigh_cache[h].ip = ip /\ neigh_cache[h].ifindex = i
        BY DEF CacheAt
      <4>3. <<ip, i>> = <<neigh_cache[h].ip, neigh_cache[h].ifindex>> BY <4>2
      <4>4. SoundCache([neigh_cache EXCEPT ![h].mac = mac], [kneigh EXCEPT ![<<ip, i>>] = mac],
                       ifindex_to_port)
        BY <1>1, <3>2, <4>2, <4>3, SetInPlace
      <4> QED BY <3>1, <4>1, <4>4
    <3> QED BY <3>3, <3>4
  <2> QED BY <2>1, <2>2, <2>3
<1>4. \A n \in 1 .. Len(neigh_cache') : neigh_cache'[n].ifindex \in Ifs
  <2>1. neigh_cache' \in Seq(NeighEntry) BY DEF IInv, TypeOK, NeighEntry
  <2>2. \A n \in 1 .. Len(neigh_cache') : neigh_cache'[n] \in NeighEntry BY <2>1
  <2> QED BY <2>2 DEF NeighEntry
<1> QED BY <1>2, <1>3, <1>4 DEF CacheSound, SoundCache, PortOf

\* RTM_DELNEIGH: the entry the kernel's neighbour had is taken out.
LEMMA DelNeighCache ==
  ASSUME IInv, IInv', CacheSound, NEW i \in Ifs, NEW ip \in Ips, NEW vid \in Vids, NEW lladdr \in BOOLEAN,
         DelNeigh(i, ip, vid, lladdr)
  PROVE  CacheSound'
<1>1. /\ neigh_cache \in Seq(NeighEntry) /\ kneigh \in [Ips \X Ifs -> Macs \cup {0}]
      /\ SoundCache(neigh_cache, kneigh, ifindex_to_port)
  BY CacheSoundIs DEF IInv, TypeOK, NeighEntry
<1>2. UNCHANGED ifindex_to_port /\ kneigh' = [kneigh EXCEPT ![<<ip, i>>] = 0] BY DEF DelNeigh
<1>3. SoundCache(neigh_cache', kneigh', ifindex_to_port)
  <2>1. CASE neigh_cache' = neigh_cache /\ \A n \in 1 .. Len(neigh_cache) :
               ~(neigh_cache[n].ip = ip /\ neigh_cache[n].ifindex = i)
    BY <1>1, <1>2, <2>1, SetElsewhere
  <2>2. CASE PortOf(i) = 0
    <3>1. \A n \in 1 .. Len(neigh_cache) : ~(neigh_cache[n].ip = ip /\ neigh_cache[n].ifindex = i)
      BY <2>2 DEF CacheSound
    <3> QED BY <2>1, <2>2, <3>1 DEF DelNeigh
  <2>3. CASE PortOf(i) # 0
    <3>1. neigh_cache_remove(ip, i) BY <2>3 DEF DelNeigh
    <3>2. CASE CacheAt(ip, i) = {}
      <4>1. neigh_cache' = neigh_cache BY <3>1, <3>2 DEF neigh_cache_remove
      <4> QED BY <2>1, <3>2, <4>1 DEF CacheAt
    <3>3. CASE CacheAt(ip, i) # {}
      <4>1. PICK h \in CacheAt(ip, i) :
              neigh_cache' = [n \in 1 .. Len(neigh_cache) - 1 |->
                                IF n < h THEN neigh_cache[n] ELSE neigh_cache[n + 1]]
        BY <3>1, <3>3 DEF neigh_cache_remove
      <4>2. h \in 1 .. Len(neigh_cache) /\ neigh_cache[h].ip = ip /\ neigh_cache[h].ifindex = i
        BY DEF CacheAt
      <4>3. <<ip, i>> = <<neigh_cache[h].ip, neigh_cache[h].ifindex>> BY <4>2
      <4>4. SoundCache([n \in 1 .. Len(neigh_cache) - 1 |-> IF n < h THEN neigh_cache[n] ELSE neigh_cache[n + 1]],
                       [kneigh EXCEPT ![<<ip, i>>] = 0], ifindex_to_port)
        BY <1>1, <4>2, <4>3, TakenOut
      <4> QED BY <1>2, <4>1, <4>4
    <3> QED BY <3>2, <3>3
  <2> QED BY <2>2, <2>3
<1>4. \A n \in 1 .. Len(neigh_cache') : neigh_cache'[n].ifindex \in Ifs
  <2>1. neigh_cache' \in Seq(NeighEntry) BY DEF IInv, TypeOK, NeighEntry
  <2>2. \A n \in 1 .. Len(neigh_cache') : neigh_cache'[n] \in NeighEntry BY <2>1
  <2> QED BY <2>2 DEF NeighEntry
<1> QED BY <1>2, <1>3, <1>4 DEF CacheSound, SoundCache, PortOf

\* RTM_NEWLINK and RTM_DELLINK: only an interface without neighbours loses its
\* port.
LEMMA LinkCache ==
  ASSUME IInv, CacheSound, LinkMsg
  PROVE  CacheSound'
<1>1. UNCHANGED <<neigh_cache, kneigh>> BY DEF LinkMsg, NewLink, DelLink
<1>2. \A n \in 1 .. Len(neigh_cache) : neigh_cache[n] \in NeighEntry
  <2>1. neigh_cache \in Seq(NeighEntry) BY DEF IInv, TypeOK, NeighEntry
  <2> QED BY <2>1
<1>3. ASSUME NEW n \in 1 .. Len(neigh_cache) PROVE PortOf(neigh_cache[n].ifindex)' # 0
  <2>1. PICK j \in Ifs : j = neigh_cache[n].ifindex BY <1>2 DEF NeighEntry
  <2>2. PICK a \in Ips : a = neigh_cache[n].ip BY <1>2 DEF NeighEntry
  <2>3. j < MaxIfindex /\ ifindex_to_port[j] # 0 BY <2>1 DEF CacheSound, PortOf
  <2>4. kneigh[<<a, j>>] # 0
    <3>1. kneigh[<<a, j>>] \in Macs BY <1>2, <2>1, <2>2 DEF CacheSound, NeighEntry
    <3> QED BY <3>1, AsicAssumption
  <2>5. ifindex_to_port'[j] # 0
    <3>1. ifindex_to_port \in [Ifs -> Ports \cup {0}] BY DEF IInv, TypeOK
    <3>2. ASSUME NEW i \in Ifs, NEW name \in Ports \cup {Other}, NEW up \in BOOLEAN, NewLink(i, name, up)
          PROVE  ifindex_to_port'[j] # 0
      <4>1. name # Other => name # 0 BY AsicAssumption
      <4> QED BY <2>3, <3>1, <3>2, <4>1 DEF NewLink
    <3>3. ASSUME NEW i \in Ifs, DelLink(i) PROVE ifindex_to_port'[j] # 0
      <4>1. i # j BY <2>4, <3>3 DEF DelLink
      <4> QED BY <2>3, <3>1, <3>3, <4>1 DEF DelLink
    <3> QED BY <3>2, <3>3 DEF LinkMsg
  <2> QED BY <1>1, <2>1, <2>3, <2>5 DEF PortOf
<1> QED BY <1>1, <1>3 DEF CacheSound

\* No message leaves the cache with an address that the kernel has replaced or
\* withdrawn, or with a neighbour twice (neigh_cache_set(), neigh_cache_remove()),
\* whatever the chip does.
THEOREM CacheIsFresh == Spec => []NeighCacheFresh
<1>1. IInv /\ IInv' /\ CacheSound /\ [Next]_vars => CacheSound'
  <2> SUFFICES ASSUME IInv, IInv', CacheSound, [Next]_vars PROVE CacheSound' OBVIOUS
  <2>1. CASE LinkMsg BY <2>1, LinkCache
  <2>2. CASE NeighMsg BY <2>2, NewNeighCache, DelNeighCache DEF NeighMsg
  <2>3. CASE UNCHANGED <<neigh_cache, kneigh, ifindex_to_port>> BY <2>3 DEF CacheSound, PortOf
  <2>4. CASE AddrMsg BY <2>3, <2>4 DEF AddrMsg, NewAddr, DelAddr
  <2>5. CASE RouteMsg BY <2>3, <2>5 DEF RouteMsg, NewRoute, DelRoute, nlVars
  <2>6. CASE RecvError \/ UNCHANGED vars BY <2>3, <2>6 DEF RecvError, kVars, vars, nlVars
  <2> QED BY <2>1, <2>2, <2>4, <2>5, <2>6 DEF Next
<1>2. CacheSound => NeighCacheFresh
  <2> SUFFICES ASSUME CacheSound, NEW n \in 1 .. Len(neigh_cache)
               PROVE  /\ CacheAt(neigh_cache[n].ip, neigh_cache[n].ifindex) = {n}
                      /\ kneigh[<<neigh_cache[n].ip, neigh_cache[n].ifindex>>] = neigh_cache[n].mac
    BY DEF NeighCacheFresh, CacheSound
  <2> QED BY DEF CacheSound, CacheAt
<1> QED BY <1>1, <1>2, CacheStart, Inductive, PTL DEF Spec

-----------------------------------------------------------------------------
(* A chip that never fails                                                 *)
(*                                                                         *)
(* From here on Outcomes = {"ok"}: the shadow of L3_DEFIP is exact, and    *)
(* the tables of the chip, read together as a forwarding table, implement  *)
(* the specification Fib.  Without the hypothesis neither holds: a failed  *)
(* write leaves the shadow ahead of the chip.                              *)

-----------------------------------------------------------------------------
(* L3_DEFIP and its shadow                                                 *)

\* What a route message does to L3_DEFIP when no write fails: nothing, or one
\* slot becomes an entry for the key, or ceases to be one.  In either case no
\* other slot holds the key.
LEMMA AddExact ==
  ASSUME Outcomes = {"ok"}, RouteTypeOK, DefipShadowExact, DefipKeysDistinct,
         NEW key \in Keys, NEW nh \in NhopIds, NEW o \in Outcomes, l3_route_add(key, nh, o)
  PROVE  \/ UNCHANGED routeVars
         \/ \E s \in Slots :
              /\ l3_defip' = [l3_defip EXCEPT ![s] = [key |-> key, nh |-> nh]]
              /\ defip_key' = [defip_key EXCEPT ![s] = key]
              /\ defip_used' = defip_used \cup {s}
              /\ l3_defip[s].key \in {key, NoKey}
              /\ \A t \in Slots \ {s} : l3_defip[t].key # key
<1>1. CASE UNCHANGED routeVars BY <1>1
<1>2. CASE ~UNCHANGED routeVars
  <2>1. PICK s \in Slots :
          /\ RouteSlot(key, s)
          /\ defip_used' = defip_used \cup {s}
          /\ defip_key' = [defip_key EXCEPT ![s] = key]
          /\ l3_defip' = sbus_mem_write(l3_defip, s, [key |-> key, nh |-> nh], o)
    BY <1>2 DEF l3_route_add
  <2>2. l3_defip' = [l3_defip EXCEPT ![s] = [key |-> key, nh |-> nh]] BY <2>1 DEF sbus_mem_write
  <2>3. \A t \in Slots : t \notin defip_used => l3_defip[t].key = NoKey
    BY DEF DefipShadowExact, NoRoute
  <2>4. \A t \in Slots : t \notin defip_find(key) => l3_defip[t].key # key
    BY <2>3, L3Assumption DEF DefipShadowExact, defip_find
  <2>5. CASE defip_find(key) # {}
    <3>1. s \in defip_find(key) BY <2>1, <2>5 DEF RouteSlot
    <3>2. l3_defip[s].key = key BY <3>1 DEF defip_find, DefipShadowExact
    <3>3. \A t \in Slots \ {s} : t \notin defip_find(key) BY <3>1 DEF defip_find, DefipKeysDistinct
    <3> QED BY <2>1, <2>2, <2>4, <3>2, <3>3
  <2>6. CASE defip_find(key) = {}
    <3>1. l3_defip[s].key = NoKey BY <2>1, <2>3, <2>6 DEF RouteSlot, alloc_id
    <3> QED BY <2>1, <2>2, <2>4, <2>6, <3>1
  <2> QED BY <2>5, <2>6
<1> QED BY <1>1, <1>2

LEMMA DeleteExact ==
  ASSUME Outcomes = {"ok"}, RouteTypeOK, DefipShadowExact, DefipKeysDistinct,
         NEW key \in Keys, NEW o \in Outcomes, l3_route_delete(key, o)
  PROVE  \/ UNCHANGED routeVars /\ \A t \in Slots : l3_defip[t].key # key
         \/ \E s \in Slots :
              /\ l3_defip' = [l3_defip EXCEPT ![s] = NoRoute]
              /\ defip_key' = [defip_key EXCEPT ![s] = NoKey]
              /\ defip_used' = defip_used \ {s}
              /\ l3_defip[s].key = key
              /\ \A t \in Slots \ {s} : l3_defip[t].key # key
<1>1. \A t \in Slots : t \notin defip_used => l3_defip[t].key = NoKey
  BY DEF DefipShadowExact, NoRoute
<1>2. \A t \in Slots : t \notin defip_find(key) => l3_defip[t].key # key
  BY <1>1, L3Assumption DEF DefipShadowExact, defip_find
<1>3. CASE defip_find(key) = {} /\ UNCHANGED routeVars BY <1>2, <1>3
<1>4. ASSUME NEW s \in Slots, s \in defip_find(key),
             l3_defip' = sbus_mem_write(l3_defip, s, NoRoute, o),
             defip_used' = defip_used \ {s}, defip_key' = [defip_key EXCEPT ![s] = NoKey]
      PROVE  /\ l3_defip' = [l3_defip EXCEPT ![s] = NoRoute]
             /\ l3_defip[s].key = key
             /\ \A t \in Slots \ {s} : l3_defip[t].key # key
  <2>1. l3_defip' = [l3_defip EXCEPT ![s] = NoRoute] BY <1>4 DEF sbus_mem_write
  <2>2. l3_defip[s].key = key BY <1>4 DEF defip_find, DefipShadowExact
  <2>3. \A t \in Slots \ {s} : t \notin defip_find(key) BY <1>4 DEF defip_find, DefipKeysDistinct
  <2> QED BY <1>2, <2>1, <2>2, <2>3
<1> QED BY <1>3, <1>4 DEF l3_route_delete

LEMMA ShadowStart == Init => DefipShadowExact
BY DEF Init, L3Init, DefipShadowExact, NoRoute

LEMMA ShadowStep ==
  ASSUME Outcomes = {"ok"}, IInv, DefipShadowExact, [Next]_vars
  PROVE  DefipShadowExact'
<1>0. RouteTypeOK /\ DefipKeysDistinct BY DEF IInv, TypeOK, L3TypeOK
<1>1. CASE UNCHANGED routeVars BY <1>1 DEF routeVars, DefipShadowExact
<1>2. ASSUME NEW key \in Keys, NEW nh \in NhopIds, NEW o \in Outcomes, l3_route_add(key, nh, o)
      PROVE  DefipShadowExact'
  <2>1. CASE ~UNCHANGED routeVars
    <3>1. PICK s \in Slots :
            /\ l3_defip' = [l3_defip EXCEPT ![s] = [key |-> key, nh |-> nh]]
            /\ defip_key' = [defip_key EXCEPT ![s] = key]
            /\ defip_used' = defip_used \cup {s}
      BY <1>0, <1>2, <2>1, AddExact
    <3>2. [key |-> key, nh |-> nh] # NoRoute
      <4>1. [key |-> key, nh |-> nh].key # NoRoute.key BY L3Assumption DEF NoRoute
      <4> QED BY <4>1
    <3>3. [key |-> key, nh |-> nh].key = key OBVIOUS
    <3> QED BY <1>0, <3>1, <3>2, <3>3 DEF RouteTypeOK, DefipShadowExact
  <2> QED BY <1>1, <2>1
<1>3. ASSUME NEW key \in Keys, NEW o \in Outcomes, l3_route_delete(key, o)
      PROVE  DefipShadowExact'
  <2>1. CASE ~UNCHANGED routeVars
    <3>1. PICK s \in Slots :
            /\ l3_defip' = [l3_defip EXCEPT ![s] = NoRoute]
            /\ defip_key' = [defip_key EXCEPT ![s] = NoKey]
            /\ defip_used' = defip_used \ {s}
      BY <1>0, <1>3, <2>1, DeleteExact
    <3>2. NoRoute.key = NoKey BY DEF NoRoute
    <3> QED BY <1>0, <3>1, <3>2 DEF RouteTypeOK, DefipShadowExact
  <2> QED BY <1>1, <2>1
<1>4. CASE RouteMsg
  <2>1. ASSUME NEW key \in Keys, NEW oif \in Ifs \cup {0}, NEW gw \in Ips \cup {0}, NewRoute(key, oif, gw)
        PROVE  DefipShadowExact'
    <3>1. CASE PortOf(oif) = 0 BY <1>1, <2>1, <3>1 DEF NewRoute
    <3>2. CASE PortOf(oif) # 0
      <4>1. PICK o3 \in Outcomes, ret \in NhopIds \cup {0} :
              IF ret = 0 THEN UNCHANGED routeVars ELSE l3_route_add(key, ret, o3)
        BY <2>1, <3>2 DEF NewRoute
      <4> QED BY <1>1, <1>2, <4>1
    <3> QED BY <3>1, <3>2
  <2>2. ASSUME NEW key \in Keys, DelRoute(key) PROVE DefipShadowExact'
    BY <1>3, <2>2 DEF DelRoute
  <2> QED BY <1>4, <2>1, <2>2 DEF RouteMsg
<1>5. CASE LinkMsg BY <1>1, <1>5 DEF LinkMsg, NewLink, DelLink, l3Vars
<1>6. CASE AddrMsg BY <1>1, <1>6 DEF AddrMsg, NewAddr, DelAddr
<1>7. CASE NeighMsg BY <1>1, <1>7 DEF NeighMsg, NewNeigh, DelNeigh, l3Vars
<1>8. CASE RecvError \/ UNCHANGED vars BY <1>1, <1>8 DEF RecvError, vars, l3Vars
<1> QED BY <1>4, <1>5, <1>6, <1>7, <1>8 DEF Next

\* On a chip that never fails, the entries the chip matches are exactly the
\* slots l3.c has in use, each with the key recorded for it.
THEOREM ShadowIsExact ==
  ASSUME Outcomes = {"ok"}
  PROVE  Spec => []DefipShadowExact
<1>1. IInv /\ DefipShadowExact /\ [Next]_vars => DefipShadowExact' BY ShadowStep
<1> QED BY <1>1, ShadowStart, Inductive, PTL DEF Spec

-----------------------------------------------------------------------------
(* The forwarding table                                                    *)

\* Where a next hop leads, and HwFib as a function of the three tables it is read from.
HopOf(ing, egr, nh) == [port |-> ing[nh], mac |-> egr[nh].mac]

Look(defip, ing, egr, k) ==
  IF \E s \in Slots : defip[s].key = k
    THEN HopOf(ing, egr, defip[CHOOSE s \in Slots : defip[s].key = k].nh)
    ELSE NoHop

LEMMA HwFibIs ==
  HwFib = [k \in Keys |-> Look(l3_defip, ing_nhop, egr_nhop, k)]
BY DEF HwFib, Look, HopOf

\* Slot s, and no other, holds the key.
OnlyAt(defip, s, k) == \A t \in Slots : defip[t].key = k <=> t = s

\* The CHOOSE has no choice: one slot holds the key, or none does.
LEMMA LookFound ==
  ASSUME NEW D, NEW I, NEW E, NEW k, NEW s \in Slots, OnlyAt(D, s, k)
  PROVE  Look(D, I, E, k) = HopOf(I, E, D[s].nh)
<1>1. (CHOOSE t \in Slots : D[t].key = k) = s BY DEF OnlyAt
<1>2. \E t \in Slots : D[t].key = k BY DEF OnlyAt
<1> QED BY <1>1, <1>2 DEF Look

LEMMA LookNone ==
  ASSUME NEW D, NEW I, NEW E, NEW k, \A t \in Slots : D[t].key # k
  PROVE  Look(D, I, E, k) = NoHop
BY DEF Look

\* At most one slot holds a key, and it leads to a next hop in use.
LEMMA OneSlot ==
  ASSUME IInv, DefipShadowExact, NEW s \in Slots, l3_defip[s].key \in Keys
  PROVE  /\ OnlyAt(l3_defip, s, l3_defip[s].key)
         /\ l3_defip[s].nh \in nhop_used
<1>1. ASSUME NEW t \in Slots, l3_defip[t].key \in Keys PROVE t \in defip_used /\ l3_defip[t] # NoRoute
  <2>1. l3_defip[t] # NoRoute BY <1>1, L3Assumption DEF NoRoute
  <2> QED BY <2>1 DEF DefipShadowExact
<1>2. l3_defip[s].nh \in nhop_used BY <1>1 DEF IInv, RoutesResolve
<1>3. ASSUME NEW t \in Slots \ {s}, l3_defip[t].key = l3_defip[s].key PROVE FALSE
  <2>1. t \in defip_used /\ s \in defip_used BY <1>1, <1>3
  <2> QED BY <1>3, <2>1 DEF IInv, DefipKeysDistinct, DefipShadowExact
<1> QED BY <1>2, <1>3 DEF OnlyAt

\* One slot of L3_DEFIP becomes an entry for the key, or ceases to be one: the
\* forwarding of that key changes and no other.
Becomes(s, key, e) ==
  /\ l3_defip' = [l3_defip EXCEPT ![s] = e]
  /\ e.key \in {key, NoKey}
  /\ l3_defip[s].key \in {key, NoKey}
  /\ \A t \in Slots \ {s} : l3_defip[t].key # key

NextHopsKept == \A n \in nhop_used : ing_nhop'[n] = ing_nhop[n] /\ egr_nhop'[n] = egr_nhop[n]

LeadsTo(key, e, h) ==
  h = IF e.key = key THEN [port |-> ing_nhop'[e.nh], mac |-> egr_nhop'[e.nh].mac] ELSE NoHop

LEMMA FibChange ==
  ASSUME IInv, DefipShadowExact, NextHopsKept, NEW s \in Slots, NEW key \in Keys, NEW e, NEW h,
         Becomes(s, key, e), LeadsTo(key, e, h)
  PROVE  HwFib' = [HwFib EXCEPT ![key] = h]
<1> USE DEF Becomes, LeadsTo, NextHopsKept
<1>0. PICK D, I, E : D = l3_defip' /\ I = ing_nhop' /\ E = egr_nhop' OBVIOUS
<1>1. /\ D[s] = e /\ \A t \in Slots \ {s} : D[t] = l3_defip[t]
  BY <1>0 DEF IInv, TypeOK, L3TypeOK, RouteTypeOK
<1>2. key # NoKey BY L3Assumption
<1>3. Look(D, I, E, key) = h
  <2>1. \A t \in Slots \ {s} : D[t].key # key BY <1>1
  <2>2. CASE e.key = key
    <3>1. OnlyAt(D, s, key) BY <1>1, <2>1, <2>2 DEF OnlyAt
    <3>2. Look(D, I, E, key) = HopOf(I, E, D[s].nh)
      BY <3>1, LookFound, Zenon
    <3> QED BY <1>0, <1>1, <2>2, <3>2 DEF HopOf
  <2>3. CASE e.key # key
    <3>1. \A t \in Slots : D[t].key # key BY <1>1, <2>1, <2>3
    <3>2. Look(D, I, E, key) = NoHop BY <3>1, LookNone, Zenon
    <3> QED BY <2>3, <3>2
  <2> QED BY <2>2, <2>3
<1>4. ASSUME NEW k \in Keys \ {key}
      PROVE  Look(D, I, E, k) = Look(l3_defip, ing_nhop, egr_nhop, k)
  <2>1. l3_defip[s].key # k /\ D[s].key # k BY <1>1, L3Assumption
  <2>2. CASE \E t \in Slots : l3_defip[t].key = k
    <3>1. PICK t \in Slots : l3_defip[t].key = k BY <2>2
    <3>2. t # s BY <2>1, <3>1
    <3>3. OnlyAt(l3_defip, t, k) BY <3>1, OneSlot
    <3>4. l3_defip[t].nh \in nhop_used BY <3>1, OneSlot
    <3>5. Look(l3_defip, ing_nhop, egr_nhop, k) = HopOf(ing_nhop, egr_nhop, l3_defip[t].nh)
      BY <3>3, LookFound, Zenon
    <3>6. D[t] = l3_defip[t] BY <1>1, <3>2
    <3>7. OnlyAt(D, t, k) BY <1>1, <2>1, <3>2, <3>3, <3>6 DEF OnlyAt
    <3>8. Look(D, I, E, k) = HopOf(I, E, D[t].nh) BY <3>7, LookFound, Zenon
    <3> QED BY <1>0, <3>4, <3>5, <3>6, <3>8 DEF HopOf
  <2>3. CASE \A t \in Slots : l3_defip[t].key # k
    <3>1. \A t \in Slots : D[t].key # k BY <1>1, <2>1, <2>3
    <3>2. Look(D, I, E, k) = NoHop BY <3>1, LookNone, Zenon
    <3>3. Look(l3_defip, ing_nhop, egr_nhop, k) = NoHop BY <2>3, LookNone, Zenon
    <3> QED BY <3>2, <3>3
  <2> QED BY <2>2, <2>3
<1>5. HwFib' = [k \in Keys |-> Look(D, I, E, k)] BY <1>0 DEF HwFib, Look, HopOf
<1> QED BY <1>0, <1>3, <1>4, <1>5, HwFibIs

\* The routes stay: next hops in use are not rewritten, so nothing changes.
LEMMA FibSame ==
  ASSUME IInv, DefipShadowExact, UNCHANGED l3_defip, NextHopsKept
  PROVE  HwFib' = HwFib
<1> USE DEF NextHopsKept
<1>0. PICK D, I, E : D = l3_defip' /\ I = ing_nhop' /\ E = egr_nhop' OBVIOUS
<1>1. ASSUME NEW k \in Keys
      PROVE  Look(D, I, E, k) = Look(l3_defip, ing_nhop, egr_nhop, k)
  <2>1. CASE \E t \in Slots : l3_defip[t].key = k
    <3>1. PICK t \in Slots : l3_defip[t].key = k BY <2>1
    <3>2. OnlyAt(l3_defip, t, k) /\ l3_defip[t].nh \in nhop_used BY <3>1, OneSlot
    <3>3. Look(l3_defip, ing_nhop, egr_nhop, k) = HopOf(ing_nhop, egr_nhop, l3_defip[t].nh)
      BY <3>2, LookFound, Zenon
    <3>4. Look(D, I, E, k) = HopOf(I, E, D[t].nh)
      <4>1. OnlyAt(D, t, k) BY <1>0, <3>2
      <4> QED BY <4>1, LookFound, Zenon
    <3> QED BY <1>0, <3>2, <3>3, <3>4 DEF HopOf
  <2>2. CASE \A t \in Slots : l3_defip[t].key # k BY <1>0, <2>2, LookNone
  <2> QED BY <2>1, <2>2
<1>2. HwFib' = [k \in Keys |-> Look(D, I, E, k)] BY <1>0 DEF HwFib, Look, HopOf
<1> QED BY <1>1, <1>2, HwFibIs

LEMMA FibStart == Init => F!Init
<1> SUFFICES ASSUME Init PROVE HwFib = [k \in Keys |-> NoHop] BY DEF F!Init
<1>1. \A s \in Slots : l3_defip[s].key = NoKey BY DEF Init, L3Init, NoRoute
<1>2. ASSUME NEW k \in Keys PROVE Look(l3_defip, ing_nhop, egr_nhop, k) = NoHop
  BY <1>1, L3Assumption, LookNone
<1> QED BY <1>2, HwFibIs

\* RTM_NEWROUTE installs the route, or does nothing: its own next hop is the
\* only one it writes.
LEMMA NewRouteInstalls ==
  ASSUME Outcomes = {"ok"}, IInv, DefipShadowExact,
         NEW key \in Keys, NEW oif \in Ifs \cup {0}, NEW gw \in Ips \cup {0}, NewRoute(key, oif, gw)
  PROVE  UNCHANGED HwFib \/ \E h \in Hops : F!Install(key, h)
<1>1. RouteTypeOK /\ NhopTypeOK /\ DefipKeysDistinct BY DEF IInv, TypeOK, L3TypeOK
<1>2. NextHopsKept BY NewRouteEffect DEF NextHopsKept
<1>3. CASE UNCHANGED routeVars BY <1>2, <1>3, FibSame DEF routeVars
<1>4. CASE ~UNCHANGED routeVars
  <2> DEFINE port == PortOf(oif)
             intf == IF port \in L3Ports THEN port_to_intf_id[port] ELSE 0
  <2>1. port # 0 BY <1>4 DEF NewRoute
  <2>2. PICK o1 \in Outcomes, o2 \in Outcomes, o3 \in Outcomes,
             mac \in Macs \cup {ZeroMac}, ret \in NhopIds \cup {0} :
          /\ l3_egress_create(port, intf, mac, o1, o2, ret)
          /\ IF ret = 0 THEN UNCHANGED routeVars ELSE l3_route_add(key, ret, o3)
    BY <2>1 DEF NewRoute
  <2>3. port \in Ports /\ intf \in IntfIds \cup {0} BY <2>1, PortOfType DEF IInv, TypeOK
  <2> HIDE DEF port, intf
  <2>4. ret \in NhopIds /\ l3_route_add(key, ret, o3) BY <1>4, <2>2
  <2>5. ret # 0 BY <2>4 DEF NhopIds
  <2>6. ing_nhop'[ret] = port /\ egr_nhop'[ret] = [intf |-> intf, mac |-> mac]
    BY <1>1, <2>2, <2>3, <2>5, EgressCreateEffect
  <2>7. PICK s \in Slots :
          /\ l3_defip' = [l3_defip EXCEPT ![s] = [key |-> key, nh |-> ret]]
          /\ l3_defip[s].key \in {key, NoKey}
          /\ \A t \in Slots \ {s} : l3_defip[t].key # key
    BY <1>1, <1>4, <2>4, AddExact
  <2>8. PICK e : e = [key |-> key, nh |-> ret] OBVIOUS
  <2>9. e.key = key /\ e.nh = ret BY <2>8
  <2>10. PICK h : h = [port |-> port, mac |-> mac] OBVIOUS
  <2>11. HwFib' = [HwFib EXCEPT ![key] = h]
    <3>1. Becomes(s, key, e) BY <2>7, <2>8, <2>9 DEF Becomes
    <3>2. LeadsTo(key, e, h) BY <2>6, <2>9, <2>10 DEF LeadsTo
    <3> QED BY <1>2, <3>1, <3>2, FibChange, Zenon
  <2>12. h \in Hops BY <2>3, <2>10 DEF Hops
  <2> QED BY <2>11, <2>12 DEF F!Install
<1> QED BY <1>3, <1>4

\* RTM_DELROUTE withdraws the key and nothing else.
LEMMA DelRouteWithdraws ==
  ASSUME Outcomes = {"ok"}, IInv, DefipShadowExact, NEW key \in Keys, DelRoute(key)
  PROVE  UNCHANGED HwFib \/ F!Withdraw(key)
<1>1. RouteTypeOK /\ DefipKeysDistinct BY DEF IInv, TypeOK, L3TypeOK
<1>2. NextHopsKept BY DEF DelRoute, nhopVars, NextHopsKept
<1>3. PICK o \in Outcomes : l3_route_delete(key, o) BY DEF DelRoute
<1>4. CASE UNCHANGED routeVars BY <1>2, <1>4, FibSame DEF routeVars
<1>5. CASE ~UNCHANGED routeVars
  <2>1. PICK s \in Slots :
          /\ l3_defip' = [l3_defip EXCEPT ![s] = NoRoute]
          /\ l3_defip[s].key = key
          /\ \A t \in Slots \ {s} : l3_defip[t].key # key
    BY <1>1, <1>3, <1>5, DeleteExact
  <2>2. PICK e : e = NoRoute OBVIOUS
  <2>3. e.key = NoKey /\ e.key # key BY <2>2, L3Assumption DEF NoRoute
  <2>4. HwFib' = [HwFib EXCEPT ![key] = NoHop]
    <3>1. Becomes(s, key, e) BY <2>1, <2>2, <2>3 DEF Becomes
    <3>2. LeadsTo(key, e, NoHop) BY <2>3 DEF LeadsTo
    <3> QED BY <1>2, <3>1, <3>2, FibChange, Zenon
  <2> QED BY <2>4 DEF F!Withdraw
<1> QED BY <1>4, <1>5

\* Every message maps to a step of Fib or to a stutter.
LEMMA FibStep ==
  ASSUME Outcomes = {"ok"}, IInv, DefipShadowExact, [Next]_vars
  PROVE  [F!Next]_HwFib
<1>1. CASE UNCHANGED <<l3_defip, ing_nhop, egr_nhop>> BY <1>1, FibSame DEF NextHopsKept
<1>2. CASE RouteMsg
  <2>1. ASSUME NEW key \in Keys, NEW oif \in Ifs \cup {0}, NEW gw \in Ips \cup {0}, NewRoute(key, oif, gw)
        PROVE  [F!Next]_HwFib
    BY <2>1, NewRouteInstalls DEF F!Next
  <2>2. ASSUME NEW key \in Keys, DelRoute(key) PROVE [F!Next]_HwFib
    BY <2>2, DelRouteWithdraws DEF F!Next
  <2> QED BY <1>2, <2>1, <2>2 DEF RouteMsg
<1>3. CASE LinkMsg BY <1>1, <1>3 DEF LinkMsg, NewLink, DelLink, l3Vars, nhopVars, routeVars
<1>4. CASE AddrMsg BY <1>1, <1>4 DEF AddrMsg, NewAddr, DelAddr, nhopVars, routeVars
<1>5. CASE NeighMsg BY <1>1, <1>5 DEF NeighMsg, NewNeigh, DelNeigh, l3Vars, nhopVars, routeVars
<1>6. CASE RecvError \/ UNCHANGED vars
  BY <1>1, <1>6 DEF RecvError, vars, l3Vars, nhopVars, routeVars
<1> QED BY <1>2, <1>3, <1>4, <1>5, <1>6 DEF Next

\* On a chip that never fails the netlink thread and its L3 tables implement a
\* forwarding table from which each message changes at most one prefix, and
\* changes it in one step: the two writes of a next hop come before the route
\* that uses it, and no message touches a next hop in use.
THEOREM FibImplemented ==
  ASSUME Outcomes = {"ok"}
  PROVE  Spec => ImplementsFib
<1>1. IInv /\ DefipShadowExact /\ [Next]_vars => [F!Next]_HwFib BY FibStep
<1> QED BY <1>1, FibStart, Inductive, ShadowIsExact, PTL DEF Spec, ImplementsFib, F!Spec

-----------------------------------------------------------------------------
(* ECMP groups and VLANs, whatever becomes of each write                   *)

LEMMA Least ==
  ASSUME NEW T \in SUBSET Nat, T # {}
  PROVE  \E m \in T : \A k \in T : m <= k
<1>1. PICK m \in T : \A k \in T : ~(<<k, m>> \in OpToRel(<, Nat))
  BY NatLessThanWellFounded, WFMin, Zenon
<1>2. ASSUME NEW k \in T PROVE m <= k
  <2>1. k \in Nat /\ m \in Nat OBVIOUS
  <2>2. ~(k < m) BY <1>1, <2>1 DEF OpToRel
  <2> QED BY <2>1, <2>2
<1> QED BY <1>2

(***************************************************************************)
(* ECMP groups: the two allocators                                         *)
(***************************************************************************)
LEMMA SmallestIsLeast ==
  ASSUME NEW S \in SUBSET Nat, S # {}
  PROVE  SmallestOf(S) \in S /\ \A y \in S : SmallestOf(S) <= y
<1>1. \E x \in S : \A y \in S : x <= y BY Least
<1> QED BY <1>1 DEF SmallestOf

\* An id that is free, whether or not the search had to wrap.
LEMMA FreshGroup ==
  ASSUME ecmp_group_used \subseteq GroupIds, ecmp_group_used # GroupIds
  PROVE  alloc_group_id \in GroupIds \ ecmp_group_used
<1>1. GroupIds \subseteq Nat BY DEF GroupIds
<1>2. GroupIds \ ecmp_group_used # {} OBVIOUS
<1> DEFINE S == IF AheadIds # {} THEN AheadIds ELSE GroupIds \ ecmp_group_used
<1>3. S \in SUBSET Nat /\ S # {} /\ S \subseteq GroupIds \ ecmp_group_used
  BY <1>1, <1>2 DEF AheadIds
<1>4. alloc_group_id = SmallestOf(S) BY DEF alloc_group_id
<1> HIDE DEF S
<1> QED BY <1>3, <1>4, SmallestIsLeast

\* As long as the slots taken are the first ones, a run goes right behind them.
LEMMA FreshRun ==
  ASSUME SlotsLeaked, granted \in Nat, NEW n \in Nat \ {0}, FreeRuns(n) # {}
  PROVE  alloc_ecmp_slots(n) = granted /\ granted + n <= EcmpEntries
<1>1. EcmpEntries \in Nat \ {0} BY EcmpAssumption
<1>2. FreeRuns(n) \in SUBSET Nat BY <1>1 DEF FreeRuns, EcmpSlots
<1>3. ASSUME NEW b \in FreeRuns(n) PROVE granted <= b /\ b + n <= EcmpEntries /\ b \in Nat
  <2>1. b \in Nat /\ b + n <= EcmpEntries /\ Run(b, n) \cap ecmp_used = {}
    BY <1>1 DEF FreeRuns, EcmpSlots
  <2>2. b \in Run(b, n) BY <2>1 DEF Run
  <2>3. b \notin 0 .. granted - 1 BY <2>1, <2>2 DEF SlotsLeaked
  <2> QED BY <2>1, <2>3
<1>4. granted + n <= EcmpEntries BY <1>1, <1>3
<1>5. granted \in FreeRuns(n)
  <2>1. Run(granted, n) \cap ecmp_used = {} BY DEF Run, SlotsLeaked
  <2>2. granted \in EcmpSlots BY <1>1, <1>4 DEF EcmpSlots
  <2> QED BY <1>4, <2>1, <2>2 DEF FreeRuns
<1>6. SmallestOf(FreeRuns(n)) = granted
  <2>1. /\ SmallestOf(FreeRuns(n)) \in FreeRuns(n)
        /\ \A y \in FreeRuns(n) : SmallestOf(FreeRuns(n)) <= y
    BY <1>2, <1>5, SmallestIsLeast
  <2> QED BY <1>2, <1>3, <1>5, <2>1
<1> QED BY <1>4, <1>6 DEF alloc_ecmp_slots

(***************************************************************************)
(* ECMP groups: the invariant                                              *)
(***************************************************************************)
\* The run of a group lies among the slots taken, which are never rewritten.
GroupOK(g) ==
  LET d == l3_ecmp_group[g]
  IN  /\ groups[g] \in Seq(EgressIds)
      /\ d.base \in Nat /\ d.base + Len(groups[g]) <= granted
      /\ d.count = Len(groups[g])
      /\ DOMAIN d.oif \subseteq 1 .. Len(groups[g])
      /\ \A i \in 1 .. Len(groups[g]) : l3_ecmp[d.base + i - 1] = groups[g][i] % 2^14
      /\ \A i \in DOMAIN d.oif : d.oif[i] = groups[g][i] % 2^13

EcmpInv ==
  /\ EcmpTypeOK /\ SlotsLeaked
  /\ granted \in Nat /\ granted <= EcmpEntries
  /\ groups = [g \in ecmp_group_used |-> groups[g]]
  /\ l3_ecmp_group = [g \in GroupIds |-> l3_ecmp_group[g]]
  /\ \A g \in ecmp_group_used : GroupOK(g)

LEMMA EcmpStart == EcmpInit => EcmpInv
<1> SUFFICES ASSUME EcmpInit PROVE EcmpInv OBVIOUS
<1>1. /\ ecmp_used = {} /\ ecmp_group_used = {} /\ next_group_id = 1 /\ granted = 0
      /\ l3_ecmp = [s \in EcmpSlots |-> 0] /\ l3_ecmp_group = [g \in GroupIds |-> NoGroup]
      /\ groups = << >>
  BY DEF EcmpInit
<1>2. EcmpEntries \in Nat \ {0} /\ EcmpGroupEntries \in Nat \ {0, 1} BY EcmpAssumption
<1>3. 0 \in 0 .. 2^14 - 1 OBVIOUS
<1>4. DOMAIN groups = {} /\ groups = [g \in {} |-> groups[g]] BY <1>1
<1>5. EcmpTypeOK BY <1>1, <1>2, <1>3, <1>4 DEF EcmpTypeOK
<1>6. SlotsLeaked BY <1>1 DEF SlotsLeaked
<1> QED BY <1>1, <1>2, <1>4, <1>5, <1>6 DEF EcmpInv

LEMMA EcmpFrame == EcmpInv /\ UNCHANGED ecmpVars => EcmpInv'
<1> SUFFICES ASSUME EcmpInv, UNCHANGED ecmpVars PROVE EcmpInv' OBVIOUS
<1>1. UNCHANGED <<ecmp_used, ecmp_group_used, next_group_id, l3_ecmp, l3_ecmp_group, groups, granted>>
  BY DEF ecmpVars
<1>2. EcmpTypeOK' BY <1>1 DEF EcmpInv, EcmpTypeOK
<1>3. SlotsLeaked' BY <1>1 DEF EcmpInv, SlotsLeaked
<1>4. \A g \in ecmp_group_used : GroupOK(g)' BY <1>1 DEF EcmpInv, GroupOK
<1> QED BY <1>1, <1>2, <1>3, <1>4 DEF EcmpInv

\* What the member writes of a create, all or some of them, do to the table:
\* it stays a table, and the slots below the run are as they were.
LEMMA MembersBehind ==
  ASSUME EcmpInv, NEW base \in Nat, NEW ids \in Seq(EgressIds), NEW n \in Nat, n <= Len(ids)
  PROVE  /\ MembersWritten(base, ids, n) \in [EcmpSlots -> 0 .. 2^14 - 1]
         /\ \A s \in EcmpSlots : s < base => MembersWritten(base, ids, n)[s] = l3_ecmp[s]
         /\ \A i \in 1 .. n : base + i - 1 \in EcmpSlots =>
              MembersWritten(base, ids, n)[base + i - 1] = ids[i] % 2^14
<1> DEFINE t == MembersWritten(base, ids, n)
<1>1. t = [s \in EcmpSlots |-> IF s \in Run(base, n) THEN ids[s - base + 1] % 2^14 ELSE l3_ecmp[s]]
  BY DEF MembersWritten
<1>2. \A i \in 1 .. Len(ids) : ids[i] \in Nat
  <2>1. EgressIds \subseteq Nat BY EcmpAssumption
  <2>2. \A i \in 1 .. Len(ids) : ids[i] \in EgressIds OBVIOUS
  <2> QED BY <2>1, <2>2
<1>3. \A s \in Run(base, n) : s - base + 1 \in 1 .. Len(ids) BY DEF Run
<1>4. \A x \in Nat : x % 2^14 \in 0 .. 2^14 - 1 OBVIOUS
<1>5. \A s \in EcmpSlots : t[s] \in 0 .. 2^14 - 1
  <2> SUFFICES ASSUME NEW s \in EcmpSlots PROVE t[s] \in 0 .. 2^14 - 1 OBVIOUS
  <2>1. CASE s \in Run(base, n)
    <3>1. ids[s - base + 1] \in Nat BY <1>2, <1>3, <2>1
    <3> QED BY <1>1, <1>4, <2>1, <3>1
  <2>2. CASE s \notin Run(base, n) BY <1>1, <2>2 DEF EcmpInv, EcmpTypeOK
  <2> QED BY <2>1, <2>2
<1>6. ASSUME NEW s \in EcmpSlots, s < base PROVE t[s] = l3_ecmp[s]
  <2>1. s \notin Run(base, n) BY <1>6 DEF Run
  <2> QED BY <1>1, <2>1
<1>7. ASSUME NEW i \in 1 .. n, base + i - 1 \in EcmpSlots
      PROVE  t[base + i - 1] = ids[i] % 2^14
  <2>1. base + i - 1 \in Run(base, n) /\ (base + i - 1) - base + 1 = i BY DEF Run
  <2> QED BY <1>1, <1>7, <2>1
<1> HIDE DEF t
<1> QED BY <1>1, <1>5, <1>6, <1>7 DEF t

LEMMA RequestsAreSeqs == ASSUME NEW ids \in Requests PROVE ids \in Seq(EgressIds)
<1>1. PICK n \in 0 .. MaxCount + 1 : ids \in [1 .. n -> EgressIds] BY DEF Requests
<1>2. n \in Nat BY EcmpAssumption
<1> QED BY <1>1, <1>2

\* Writes behind the slots taken, and to no existing group, disturb no group.
LEMMA GroupStays ==
  ASSUME EcmpInv, NEW g \in ecmp_group_used,
         \A s \in EcmpSlots : s < granted => l3_ecmp'[s] = l3_ecmp[s],
         l3_ecmp_group'[g] = l3_ecmp_group[g], groups'[g] = groups[g],
         granted' \in Nat, granted <= granted'
  PROVE  GroupOK(g)'
<1> DEFINE d == l3_ecmp_group[g]
<1>1. GroupOK(g) /\ granted \in Nat /\ granted <= EcmpEntries BY DEF EcmpInv
<1>2. EcmpEntries \in Nat BY EcmpAssumption
<1>3. /\ groups[g] \in Seq(EgressIds) /\ d.base \in Nat /\ Len(groups[g]) \in Nat
      /\ d.base + Len(groups[g]) <= granted
      /\ \A i \in 1 .. Len(groups[g]) : l3_ecmp[d.base + i - 1] = groups[g][i] % 2^14
  BY <1>1 DEF GroupOK
<1>4. ASSUME NEW i \in 1 .. Len(groups[g])
      PROVE  l3_ecmp'[d.base + i - 1] = groups[g][i] % 2^14
  <2>1. d.base + i - 1 \in EcmpSlots /\ d.base + i - 1 < granted
    BY <1>1, <1>2, <1>3 DEF EcmpSlots
  <2> QED BY <1>3, <2>1
<1>5. d.base + Len(groups[g]) <= granted' BY <1>1, <1>3
<1> QED BY <1>1, <1>3, <1>4, <1>5 DEF GroupOK

LEMMA EcmpCreateFailed ==
  ASSUME EcmpInv, NEW ids \in Seq(EgressIds), NEW n \in 1 .. Len(ids) + 1, NEW o,
         CreateFailed(ids, n, o)
  PROVE  EcmpInv'
<1>1. Len(ids) \in Nat \ {0} /\ ecmp_group_used # GroupIds /\ FreeRuns(Len(ids)) # {}
  BY DEF CreateFailed
<1>2. alloc_ecmp_slots(Len(ids)) = granted BY <1>1, FreshRun DEF EcmpInv
<1>3. alloc_group_id \in GroupIds \ ecmp_group_used BY <1>1, FreshGroup DEF EcmpInv, EcmpTypeOK
<1> DEFINE done == IF o = "lost" \/ n > Len(ids) THEN n - 1 ELSE n
<1>4. done \in Nat /\ done <= Len(ids) BY <1>1
<1>5. l3_ecmp' = MembersWritten(granted, ids, done) BY <1>2 DEF CreateFailed
<1> HIDE DEF done
<1>6. PICK k \in GroupIds \ ecmp_group_used : k = alloc_group_id BY <1>3
<1>7. \E d : l3_ecmp_group' = l3_ecmp_group \/ l3_ecmp_group' = [l3_ecmp_group EXCEPT ![k] = d]
  BY <1>6 DEF CreateFailed, sbus_mem_write
<1>8. /\ next_group_id' = k + 1
      /\ UNCHANGED <<ecmp_used, ecmp_group_used, groups, granted>>
  BY <1>6 DEF CreateFailed
<1>9. granted \in Nat BY DEF EcmpInv
<1>10. /\ l3_ecmp' \in [EcmpSlots -> 0 .. 2^14 - 1]
       /\ \A s \in EcmpSlots : s < granted => l3_ecmp'[s] = l3_ecmp[s]
  <2>1. /\ MembersWritten(granted, ids, done) \in [EcmpSlots -> 0 .. 2^14 - 1]
        /\ \A s \in EcmpSlots : s < granted => MembersWritten(granted, ids, done)[s] = l3_ecmp[s]
    BY ONLY EcmpInv, <1>4, <1>9, ids \in Seq(EgressIds), MembersBehind
  <2> QED BY <1>5, <2>1
<1>11. /\ l3_ecmp_group' = [g \in GroupIds |-> l3_ecmp_group'[g]]
       /\ \A g \in ecmp_group_used : l3_ecmp_group'[g] = l3_ecmp_group[g]
  BY <1>7 DEF EcmpInv, EcmpTypeOK
<1>12. next_group_id' \in 1 .. EcmpGroupEntries BY <1>8, EcmpAssumption DEF GroupIds
<1>13. EcmpTypeOK'
  <2>1. DOMAIN l3_ecmp_group' = GroupIds BY <1>11
  <2> QED BY <1>8, <1>10, <1>12, <2>1 DEF EcmpInv, EcmpTypeOK
<1>14. \A g \in ecmp_group_used : GroupOK(g)'
  BY <1>8, <1>9, <1>10, <1>11, GroupStays
<1> QED BY <1>8, <1>11, <1>13, <1>14 DEF EcmpInv, SlotsLeaked

\* The new group's descriptor points right behind the slots that were taken,
\* and no field of it wraps.
LEMMA EcmpCreateDone ==
  ASSUME EcmpInv, NEW ids \in Seq(EgressIds), CreateDone(ids)
  PROVE  EcmpInv'
<1>1. /\ Len(ids) \in Nat \ {0} /\ Len(ids) <= MaxCount
      /\ ecmp_group_used # GroupIds /\ FreeRuns(Len(ids)) # {}
  BY EcmpAssumption DEF CreateDone
<1>2. granted \in Nat /\ EcmpEntries \in Nat /\ EcmpEntries <= 4096 /\ MaxCount \in Nat /\ MaxCount <= 1023
  BY EcmpAssumption DEF EcmpInv
<1>3. alloc_ecmp_slots(Len(ids)) = granted /\ granted + Len(ids) <= EcmpEntries
  BY <1>1, FreshRun DEF EcmpInv
<1>4. PICK k \in GroupIds \ ecmp_group_used : k = alloc_group_id
  BY <1>1, FreshGroup DEF EcmpInv, EcmpTypeOK
<1> DEFINE d == Descriptor(granted, ids)
<1>5. /\ l3_ecmp' = MembersWritten(granted, ids, Len(ids))
      /\ l3_ecmp_group' = [l3_ecmp_group EXCEPT ![k] = d]
      /\ ecmp_used' = ecmp_used \cup Run(granted, Len(ids))
      /\ ecmp_group_used' = ecmp_group_used \cup {k}
      /\ next_group_id' = k + 1
      /\ groups' = [h \in DOMAIN groups \cup {k} |-> IF h = k THEN ids ELSE groups[h]]
      /\ granted' = granted + Len(ids)
  BY <1>3, <1>4 DEF CreateDone
<1>6. /\ d.base = granted /\ d.count = Len(ids) /\ DOMAIN d.oif \subseteq 1 .. Len(ids)
      /\ \A i \in DOMAIN d.oif : d.oif[i] = ids[i] % 2^13
  <2>1. /\ d.base = granted % 2^12 /\ d.count = Len(ids) % 2^10
        /\ d.oif = IF Len(ids) <= FastMax THEN [i \in DOMAIN ids |-> ids[i] % 2^13] ELSE << >>
    BY DEF Descriptor
  <2>2. granted % 2^12 = granted
    <3>1. granted < 4096 BY <1>1, <1>2, <1>3
    <3> QED BY <1>2, <3>1
  <2>3. Len(ids) % 2^10 = Len(ids) BY <1>1, <1>2
  <2>4. DOMAIN ids = 1 .. Len(ids) OBVIOUS
  <2> QED BY <2>1, <2>2, <2>3, <2>4
<1> HIDE DEF d
<1>7. /\ l3_ecmp' \in [EcmpSlots -> 0 .. 2^14 - 1]
      /\ \A s \in EcmpSlots : s < granted => l3_ecmp'[s] = l3_ecmp[s]
      /\ \A i \in 1 .. Len(ids) : granted + i - 1 \in EcmpSlots => l3_ecmp'[granted + i - 1] = ids[i] % 2^14
  <2> DEFINE t == MembersWritten(granted, ids, Len(ids))
  <2>1. /\ t \in [EcmpSlots -> 0 .. 2^14 - 1]
        /\ \A s \in EcmpSlots : s < granted => t[s] = l3_ecmp[s]
        /\ \A i \in 1 .. Len(ids) : granted + i - 1 \in EcmpSlots => t[granted + i - 1] = ids[i] % 2^14
    <3>1. PICK n \in Nat : n = Len(ids) BY <1>1
    <3>2. /\ MembersWritten(granted, ids, n) \in [EcmpSlots -> 0 .. 2^14 - 1]
          /\ \A s \in EcmpSlots : s < granted => MembersWritten(granted, ids, n)[s] = l3_ecmp[s]
          /\ \A i \in 1 .. n : granted + i - 1 \in EcmpSlots =>
               MembersWritten(granted, ids, n)[granted + i - 1] = ids[i] % 2^14
      <4>1. n <= Len(ids) /\ granted \in Nat BY <1>2, <3>1
      <4> QED BY <4>1, MembersBehind, Zenon
    <3> QED BY <3>1, <3>2
  <2> HIDE DEF t
  <2> QED BY <1>5, <2>1 DEF t
<1>8. /\ l3_ecmp_group' = [g \in GroupIds |-> l3_ecmp_group'[g]] /\ l3_ecmp_group'[k] = d
      /\ \A g \in ecmp_group_used : l3_ecmp_group'[g] = l3_ecmp_group[g]
  BY <1>5 DEF EcmpInv, EcmpTypeOK
<1>9. /\ groups' = [g \in ecmp_group_used' |-> groups'[g]] /\ groups'[k] = ids
      /\ \A g \in ecmp_group_used : groups'[g] = groups[g]
  BY <1>4, <1>5 DEF EcmpInv, EcmpTypeOK
<1>10. SlotsLeaked'
  <2>1. 0 .. (granted + Len(ids)) - 1 = (0 .. granted - 1) \cup (granted .. granted + Len(ids) - 1)
    BY <1>1, <1>2
  <2> QED BY <1>5, <2>1 DEF EcmpInv, SlotsLeaked, Run
<1>11. EcmpTypeOK'
  <2>1. Run(granted, Len(ids)) \subseteq EcmpSlots BY <1>1, <1>2, <1>3 DEF Run, EcmpSlots
  <2>2. next_group_id' \in 1 .. EcmpGroupEntries BY <1>5, EcmpAssumption DEF GroupIds
  <2>3. DOMAIN l3_ecmp_group' = GroupIds BY <1>8
  <2>4. DOMAIN groups' = ecmp_group_used' BY <1>9
  <2> QED BY <1>5, <1>7, <2>1, <2>2, <2>3, <2>4 DEF EcmpInv, EcmpTypeOK
<1>12. granted' \in Nat /\ granted <= granted' /\ granted' <= EcmpEntries BY <1>1, <1>2, <1>3, <1>5
<1>13. GroupOK(k)'
  <2>1. \A i \in 1 .. Len(ids) : l3_ecmp'[granted + i - 1] = ids[i] % 2^14
    <3>1. \A i \in 1 .. Len(ids) : granted + i - 1 \in EcmpSlots BY <1>1, <1>2, <1>3 DEF EcmpSlots
    <3> QED BY <1>7, <3>1
  <2>2. granted + Len(ids) <= granted' BY <1>5, <1>1, <1>2
  <2> QED BY <1>2, <1>6, <1>8, <1>9, <2>1, <2>2 DEF GroupOK
<1>14. \A g \in ecmp_group_used : GroupOK(g)'
  BY <1>7, <1>8, <1>9, <1>12, GroupStays
<1> QED BY <1>5, <1>8, <1>9, <1>10, <1>11, <1>12, <1>13, <1>14 DEF EcmpInv

LEMMA EcmpDestroy ==
  ASSUME EcmpInv, NEW g \in GroupIds, NEW o, l3_ecmp_destroy(g, o)
  PROVE  EcmpInv'
<1>1. /\ l3_ecmp_group' = l3_ecmp_group \/ l3_ecmp_group' = [l3_ecmp_group EXCEPT ![g] = NoGroup]
      /\ ecmp_group_used' = ecmp_group_used \ {g}
      /\ groups' = [h \in DOMAIN groups \ {g} |-> groups[h]]
      /\ UNCHANGED <<ecmp_used, next_group_id, l3_ecmp, granted>>
  BY DEF l3_ecmp_destroy, sbus_mem_write
<1>2. /\ l3_ecmp_group' = [h \in GroupIds |-> l3_ecmp_group'[h]]
      /\ groups' = [h \in ecmp_group_used' |-> groups'[h]]
      /\ \A h \in ecmp_group_used' : l3_ecmp_group'[h] = l3_ecmp_group[h] /\ groups'[h] = groups[h]
  BY <1>1 DEF EcmpInv, EcmpTypeOK
<1>3. EcmpTypeOK'
  <2>1. DOMAIN l3_ecmp_group' = GroupIds /\ DOMAIN groups' = ecmp_group_used' BY <1>2
  <2> QED BY <1>1, <2>1 DEF EcmpInv, EcmpTypeOK
<1>4. \A h \in ecmp_group_used' : GroupOK(h)'
  BY <1>1, <1>2, GroupStays DEF EcmpInv
<1> QED BY <1>1, <1>2, <1>3, <1>4 DEF EcmpInv, SlotsLeaked

LEMMA EcmpStep == EcmpInv /\ EcmpCall => EcmpInv'
<1> SUFFICES ASSUME EcmpInv, EcmpCall PROVE EcmpInv' OBVIOUS
<1>1. CASE \E ids \in Requests : l3_ecmp_create(ids)
  <2>1. PICK ids \in Requests : l3_ecmp_create(ids) BY <1>1
  <2>2. ids \in Seq(EgressIds) BY RequestsAreSeqs
  <2>3. CASE CreateRefused(ids)
    <3>1. CASE UNCHANGED ecmpVars BY <3>1, EcmpFrame
    <3>2. CASE /\ ecmp_group_used # GroupIds /\ next_group_id' = alloc_group_id + 1
               /\ UNCHANGED <<ecmp_used, ecmp_group_used, l3_ecmp, l3_ecmp_group, groups, granted>>
      <4>1. alloc_group_id \in GroupIds BY <3>2, FreshGroup DEF EcmpInv, EcmpTypeOK
      <4>2. next_group_id' \in 1 .. EcmpGroupEntries BY <3>2, <4>1, EcmpAssumption DEF GroupIds
      <4>3. EcmpTypeOK' BY <3>2, <4>2 DEF EcmpInv, EcmpTypeOK
      <4>4. \A g \in ecmp_group_used : GroupOK(g)' BY <3>2 DEF EcmpInv, GroupOK
      <4> QED BY <3>2, <4>3, <4>4 DEF EcmpInv, SlotsLeaked
    <3> QED BY <2>3, <3>1, <3>2 DEF CreateRefused
  <2>4. CASE \E n \in 1 .. Len(ids) + 1, o \in Outcomes : CreateFailed(ids, n, o)
    BY <2>2, <2>4, EcmpCreateFailed
  <2>5. CASE CreateDone(ids) BY <2>2, <2>5, EcmpCreateDone
  <2> QED BY <2>1, <2>3, <2>4, <2>5 DEF l3_ecmp_create
<1>2. CASE \E g \in GroupIds, o \in Outcomes : l3_ecmp_destroy(g, o)
  BY <1>2, EcmpDestroy
<1> QED BY <1>1, <1>2 DEF EcmpCall

\* Any sequence of creates and destroys, whichever write fails: every group
\* that exists reaches the members it was created with, and the slots taken
\* are the first ones, all of them by creates that succeeded (ecmp.c).
THEOREM EcmpIsSound == TablesSpec => []EcmpSound
<1>1. TablesInit => EcmpInv BY EcmpStart DEF TablesInit
<1>2. EcmpInv /\ [TablesNext]_tableVars => EcmpInv'
  <2>1. CASE NetlinkMessage \/ VlanCall \/ UNCHANGED tableVars
    BY <2>1, EcmpFrame DEF NetlinkMessage, VlanCall, tableVars
  <2> QED BY <2>1, EcmpStep DEF TablesNext
<1>3. EcmpInv => EcmpSound
  <2> SUFFICES ASSUME EcmpInv PROVE EcmpSound OBVIOUS
  <2>1. ASSUME NEW g \in DOMAIN groups
        PROVE  LET d == l3_ecmp_group[g]
               IN  /\ d.count = Len(groups[g])
                   /\ \A i \in DOMAIN groups[g] : l3_ecmp[d.base + i - 1] = groups[g][i] % 2^14
                   /\ \A i \in DOMAIN d.oif :
                        groups[g][i] < 2^13 => d.oif[i] = l3_ecmp[d.base + i - 1]
    <3> DEFINE d == l3_ecmp_group[g]
    <3>1. GroupOK(g) BY DEF EcmpInv, EcmpTypeOK
    <3>2. DOMAIN groups[g] = 1 .. Len(groups[g]) BY <3>1 DEF GroupOK
    <3>3. ASSUME NEW i \in DOMAIN d.oif, groups[g][i] < 2^13
          PROVE  d.oif[i] = l3_ecmp[d.base + i - 1]
      <4>1. EgressIds \subseteq Nat BY EcmpAssumption
      <4>a. groups[g] \in Seq(EgressIds) /\ i \in 1 .. Len(groups[g]) BY <3>1 DEF GroupOK
      <4>b. PICK m \in Seq(EgressIds) : m = groups[g] BY <4>a
      <4>c. m[i] \in EgressIds BY <4>a, <4>b
      <4>2. i \in 1 .. Len(groups[g]) /\ groups[g][i] \in Nat BY <4>1, <4>a, <4>b, <4>c
      <4>3. \A x \in Nat : x < 2^13 => x % 2^13 = x /\ x % 2^14 = x OBVIOUS
      <4> QED BY <3>1, <3>3, <4>2, <4>3 DEF GroupOK
    <3> QED BY <3>1, <3>2, <3>3 DEF GroupOK
  <2> QED BY <2>1 DEF EcmpSound, EcmpInv, GroupsIntact
<1> QED BY <1>1, <1>2, <1>3, PTL DEF TablesSpec

(***************************************************************************)
(* VLAN entries: what the packing of bitmaps amounts to                    *)
(***************************************************************************)
\* The bits of a field at bit `to' that holds the bitmap bm.
At(to, bm) == {x \in to .. to + 63 : x - to \in bm}

\* An ingress entry for members bm, an egress entry for members bm, of whom
\* ut untagged: fields at 0, 66, 162 and 96, and the bits that say STG 2 and
\* valid.
IngOf(bm)     == bm \cup At(66, bm) \cup {133, 205}
EgrOf(bm, ut) == At(162, bm) \cup At(96, ut) \cup {0, 2}

\* Two or three pieces, cut at the word boundaries, are the whole field.
LEMMA Pieces ==
  ASSUME NEW bm \in SUBSET (0 .. 63)
  PROVE  /\ Field(bm, 0, 32, 0) \cup Field(bm, 32, 32, 32) = bm
         /\ Field(bm, 0, 30, 66) \cup Field(bm, 30, 32, 96) \cup Field(bm, 62, 2, 128) = At(66, bm)
         /\ Field(bm, 0, 32, 96) \cup Field(bm, 32, 32, 128) = At(96, bm)
         /\ Field(bm, 0, 30, 162) \cup Field(bm, 30, 32, 192) \cup Field(bm, 62, 2, 224) = At(162, bm)
<1>1. Field(bm, 0, 32, 0) \cup Field(bm, 32, 32, 32) = bm
  <2>1. ASSUME NEW x \in Field(bm, 0, 32, 0) \cup Field(bm, 32, 32, 32)
        PROVE  x \in bm
    BY DEF Field, At
  <2>2. ASSUME NEW x \in bm
        PROVE  x \in Field(bm, 0, 32, 0) \cup Field(bm, 32, 32, 32)
    <3>1. x \in Int /\ x \in bm BY DEF At
    <3>2. x = 0 + (x) - 0 /\ x = 32 + (x) - 32 BY <3>1
    <3>3. x \in 0 .. 0 + 32 - 1 \/ x \in 32 .. 32 + 32 - 1 BY <3>1
    <3> QED BY <3>1, <3>2, <3>3 DEF Field
  <2> QED BY <2>1, <2>2
<1>2. Field(bm, 0, 30, 66) \cup Field(bm, 30, 32, 96) \cup Field(bm, 62, 2, 128) = At(66, bm)
  <2>1. ASSUME NEW x \in Field(bm, 0, 30, 66) \cup Field(bm, 30, 32, 96) \cup Field(bm, 62, 2, 128)
        PROVE  x \in At(66, bm)
    BY DEF Field, At
  <2>2. ASSUME NEW x \in At(66, bm)
        PROVE  x \in Field(bm, 0, 30, 66) \cup Field(bm, 30, 32, 96) \cup Field(bm, 62, 2, 128)
    <3>1. x \in Int /\ x - 66 \in bm BY DEF At
    <3>2. x = 66 + (x - 66) - 0 /\ x = 96 + (x - 66) - 30 /\ x = 128 + (x - 66) - 62 BY <3>1
    <3>3. x - 66 \in 0 .. 0 + 30 - 1 \/ x - 66 \in 30 .. 30 + 32 - 1 \/ x - 66 \in 62 .. 62 + 2 - 1
      BY <3>1
    <3> QED BY <3>1, <3>2, <3>3 DEF Field
  <2> QED BY <2>1, <2>2
<1>3. Field(bm, 0, 32, 96) \cup Field(bm, 32, 32, 128) = At(96, bm)
  <2>1. ASSUME NEW x \in Field(bm, 0, 32, 96) \cup Field(bm, 32, 32, 128)
        PROVE  x \in At(96, bm)
    BY DEF Field, At
  <2>2. ASSUME NEW x \in At(96, bm)
        PROVE  x \in Field(bm, 0, 32, 96) \cup Field(bm, 32, 32, 128)
    <3>1. x \in Int /\ x - 96 \in bm BY DEF At
    <3>2. x = 96 + (x - 96) - 0 /\ x = 128 + (x - 96) - 32 BY <3>1
    <3>3. x - 96 \in 0 .. 0 + 32 - 1 \/ x - 96 \in 32 .. 32 + 32 - 1 BY <3>1
    <3> QED BY <3>1, <3>2, <3>3 DEF Field
  <2> QED BY <2>1, <2>2
<1>4. Field(bm, 0, 30, 162) \cup Field(bm, 30, 32, 192) \cup Field(bm, 62, 2, 224) = At(162, bm)
  <2>1. ASSUME NEW x \in Field(bm, 0, 30, 162) \cup Field(bm, 30, 32, 192) \cup Field(bm, 62, 2, 224)
        PROVE  x \in At(162, bm)
    BY DEF Field, At
  <2>2. ASSUME NEW x \in At(162, bm)
        PROVE  x \in Field(bm, 0, 30, 162) \cup Field(bm, 30, 32, 192) \cup Field(bm, 62, 2, 224)
    <3>1. x \in Int /\ x - 162 \in bm BY DEF At
    <3>2. x = 162 + (x - 162) - 0 /\ x = 192 + (x - 162) - 30 /\ x = 224 + (x - 162) - 62 BY <3>1
    <3>3. x - 162 \in 0 .. 0 + 30 - 1 \/ x - 162 \in 30 .. 30 + 32 - 1 \/ x - 162 \in 62 .. 62 + 2 - 1
      BY <3>1
    <3> QED BY <3>1, <3>2, <3>3 DEF Field
  <2> QED BY <2>1, <2>2
<1> QED BY <1>1, <1>2, <1>3, <1>4

\* Whatever the entry held before, it holds the new bitmaps afterwards.
LEMMA EntriesOf ==
  ASSUME NEW b0 \in SUBSET (0 .. 63), NEW u0 \in SUBSET (0 .. 63),
         NEW bm \in SUBSET (0 .. 63), NEW ut \in SUBSET (0 .. 63)
  PROVE  /\ IngEntry(IngOf(b0), bm) = IngOf(bm)
         /\ EgrEntry(EgrOf(b0, u0), bm, ut) = EgrOf(bm, ut)
<1>1. IngEntry(IngOf(b0), bm) = (((IngOf(b0) \ (0 .. 65)) \cup bm) \ (66 .. 129)) \cup At(66, bm)
  <2>1. vlan_set_port_bitmap(IngOf(b0), bm) = (IngOf(b0) \ (0 .. 65)) \cup bm
    BY Pieces DEF vlan_set_port_bitmap
  <2>2. \A e : vlan_set_ing_port_bitmap(e, bm) = (e \ (66 .. 129)) \cup At(66, bm)
    BY Pieces DEF vlan_set_ing_port_bitmap
  <2> QED BY <2>1, <2>2 DEF IngEntry
<1>2. (((IngOf(b0) \ (0 .. 65)) \cup bm) \ (66 .. 129)) \cup At(66, bm) = IngOf(bm)
  <2> DEFINE A == At(66, b0)
             B == At(66, bm)
             C == {133, 205}
             X == 0 .. 65
             Y == 66 .. 129
  <2>1. A \subseteq Y /\ b0 \subseteq X /\ bm \cap Y = {} BY DEF At
  <2>2. C \cap X = {} /\ C \cap Y = {} OBVIOUS
  <2> HIDE DEF A, B, C, X, Y
  <2>3. ((((b0 \cup A \cup C) \ X) \cup bm) \ Y) \cup B = bm \cup B \cup C
    BY <2>1, <2>2
  <2> QED BY <2>3 DEF IngOf, A, B, C, X, Y
<1>3. EgrEntry(EgrOf(b0, u0), bm, ut)
        = (((EgrOf(b0, u0) \ (96 .. 161)) \cup At(96, ut)) \ (162 .. 227)) \cup At(162, bm)
  <2>1. egr_vlan_set_ut_port_bitmap(EgrOf(b0, u0), ut) = (EgrOf(b0, u0) \ (96 .. 161)) \cup At(96, ut)
    BY Pieces DEF egr_vlan_set_ut_port_bitmap
  <2>2. \A e : egr_vlan_set_port_bitmap(e, bm) = (e \ (162 .. 227)) \cup At(162, bm)
    BY Pieces DEF egr_vlan_set_port_bitmap
  <2> QED BY <2>1, <2>2 DEF EgrEntry
<1>4. (((EgrOf(b0, u0) \ (96 .. 161)) \cup At(96, ut)) \ (162 .. 227)) \cup At(162, bm) = EgrOf(bm, ut)
  BY DEF EgrOf, At
<1> QED BY <1>1, <1>2, <1>3, <1>4

LEMMA NewEntries == NewIngEntry = IngOf({}) /\ NewEgrEntry = EgrOf({}, {})
<1>1. \A n, b, to : Field({}, b, n, to) = {} BY DEF Field
<1>2. IngEntry({}, {}) = {} BY <1>1 DEF IngEntry, vlan_set_port_bitmap, vlan_set_ing_port_bitmap
<1>3. NewIngEntry = {133, 205} BY <1>2 DEF NewIngEntry, vlan_set_stg_valid_profile
<1>4. egr_vlan_set_valid_stg({}) = {0, 2} BY DEF egr_vlan_set_valid_stg
<1>5. NewEgrEntry = {0, 2}
  BY <1>1, <1>4 DEF NewEgrEntry, EgrEntry, egr_vlan_set_ut_port_bitmap, egr_vlan_set_port_bitmap
<1> QED BY <1>3, <1>5 DEF IngOf, EgrOf, At

\* What the chip reads out of such entries.
LEMMA ReadIng ==
  ASSUME NEW bm \in SUBSET (0 .. 63)
  PROVE  /\ Members(IngOf(bm)) = bm /\ IngMembers(IngOf(bm)) = bm
         /\ {205, 133} \subseteq IngOf(bm)
         /\ IngOf(bm) \subseteq (0 .. 129) \cup {133, 205}
<1>1. ASSUME NEW p \in 0 .. 63
      PROVE  /\ p \notin At(66, bm) /\ p \notin {133, 205}
             /\ (66 + p \in At(66, bm) <=> p \in bm) /\ 66 + p \notin bm /\ 66 + p \notin {133, 205}
  BY DEF At
<1>2. ASSUME NEW p \in 0 .. 63 PROVE p \in IngOf(bm) <=> p \in bm BY <1>1 DEF IngOf
<1>3. ASSUME NEW p \in 0 .. 63 PROVE 66 + p \in IngOf(bm) <=> p \in bm BY <1>1 DEF IngOf
<1>4. Members(IngOf(bm)) = bm BY <1>2 DEF Members
<1>5. IngMembers(IngOf(bm)) = bm BY <1>3 DEF IngMembers
<1>6. {205, 133} \subseteq IngOf(bm) BY DEF IngOf
<1>7. IngOf(bm) \subseteq (0 .. 129) \cup {133, 205}
  <2>1. At(66, bm) \subseteq 0 .. 129 /\ bm \subseteq 0 .. 129 BY DEF At
  <2> QED BY <2>1 DEF IngOf
<1> QED BY <1>4, <1>5, <1>6, <1>7

LEMMA ReadEgr ==
  ASSUME NEW bm \in SUBSET (0 .. 63), NEW ut \in SUBSET (0 .. 63)
  PROVE  /\ EgrMembers(EgrOf(bm, ut)) = bm /\ Untagged(EgrOf(bm, ut)) = ut
         /\ {0, 2} \subseteq EgrOf(bm, ut)
         /\ EgrOf(bm, ut) \subseteq {0, 2} \cup (96 .. 225)
<1>1. ASSUME NEW p \in 0 .. 63
      PROVE  /\ (162 + p \in At(162, bm) <=> p \in bm)
             /\ 162 + p \notin At(96, ut) /\ 162 + p \notin {0, 2}
             /\ (96 + p \in At(96, ut) <=> p \in ut)
             /\ 96 + p \notin At(162, bm) /\ 96 + p \notin {0, 2}
  BY DEF At
<1>2. ASSUME NEW p \in 0 .. 63 PROVE 162 + p \in EgrOf(bm, ut) <=> p \in bm BY <1>1 DEF EgrOf
<1>3. ASSUME NEW p \in 0 .. 63 PROVE 96 + p \in EgrOf(bm, ut) <=> p \in ut BY <1>1 DEF EgrOf
<1>4. EgrMembers(EgrOf(bm, ut)) = bm BY <1>2 DEF EgrMembers
<1>5. Untagged(EgrOf(bm, ut)) = ut BY <1>3 DEF Untagged
<1>6. {0, 2} \subseteq EgrOf(bm, ut) BY DEF EgrOf
<1>7. EgrOf(bm, ut) \subseteq {0, 2} \cup (96 .. 225)
  <2>1. At(162, bm) \subseteq 96 .. 225 BY DEF At
  <2>2. At(96, ut) \subseteq 96 .. 225 BY DEF At
  <2> QED BY <2>1, <2>2 DEF EgrOf
<1> QED BY <1>4, <1>5, <1>6, <1>7

LEMMA ReadNothing ==
  /\ Members({}) = {} /\ IngMembers({}) = {} /\ EgrMembers({}) = {} /\ Untagged({}) = {}
BY DEF Members, IngMembers, EgrMembers, Untagged

(***************************************************************************)
(* VLAN entries: the invariant.  The SDK's copy of a valid VLAN's entries  *)
(* is exactly its bitmaps, which is why one successful call repairs what   *)
(* failed ones left; the chip holds, at any time, entries of some bitmaps. *)
(***************************************************************************)
VlanOK(v) ==
  /\ v \in vlan_valid =>
       /\ vlan_ing[v] = IngOf(vlan_egr_pbm[v])
       /\ vlan_egr[v] = EgrOf(vlan_egr_pbm[v], vlan_egr_utbm[v])
       /\ asked[v].members = vlan_egr_pbm[v] /\ asked[v].untagged = vlan_egr_utbm[v]
  /\ vlan_table[v] = {} \/ \E bm \in SUBSET VlanPorts : vlan_table[v] = IngOf(bm)
  /\ egr_vlan[v] = {} \/ \E bm \in SUBSET VlanPorts : \E ut \in SUBSET bm : egr_vlan[v] = EgrOf(bm, ut)
  /\ asked[v].ok => /\ vlan_table[v] = IngOf(asked[v].members)
                    /\ egr_vlan[v] = EgrOf(asked[v].members, asked[v].untagged)

VlanMaps ==
  /\ DOMAIN vlan_ing_pbm = Vlans /\ DOMAIN vlan_egr_pbm = Vlans /\ DOMAIN vlan_egr_utbm = Vlans
  /\ DOMAIN vlan_ing = Vlans /\ DOMAIN vlan_egr = Vlans
  /\ DOMAIN vlan_table = Vlans /\ DOMAIN egr_vlan = Vlans

VlanInv == VlanTypeOK /\ VlanMaps /\ \A v \in Vlans : VlanOK(v)

\* What any call leaves behind: bitmaps bm and ut if the VLAN is valid, and
\* entries that may have reached the chip or not.
Leaves(v, valid, bm, ut, ok) ==
  /\ vlan_valid' = IF valid THEN vlan_valid \cup {v} ELSE vlan_valid \ {v}
  /\ vlan_ing_pbm' = [vlan_ing_pbm EXCEPT ![v] = bm]
  /\ vlan_egr_pbm' = [vlan_egr_pbm EXCEPT ![v] = bm]
  /\ vlan_egr_utbm' = [vlan_egr_utbm EXCEPT ![v] = ut]
  /\ vlan_ing' = [vlan_ing EXCEPT ![v] = IF valid THEN IngOf(bm) ELSE {}]
  /\ vlan_egr' = [vlan_egr EXCEPT ![v] = IF valid THEN EgrOf(bm, ut) ELSE {}]
  /\ asked' = [asked EXCEPT ![v] = [members |-> bm, untagged |-> ut, ok |-> ok]]
  /\ DOMAIN vlan_table' = Vlans /\ DOMAIN egr_vlan' = Vlans
  /\ \A w \in Vlans \ {v} : vlan_table'[w] = vlan_table[w] /\ egr_vlan'[w] = egr_vlan[w]
  /\ vlan_table'[v] \in {vlan_table[v], {}, IngOf({}), IngOf(bm)}
  /\ egr_vlan'[v] \in {egr_vlan[v], {}, EgrOf({}, {}), EgrOf(bm, ut)}
  /\ ok => vlan_table'[v] = IngOf(bm) /\ egr_vlan'[v] = EgrOf(bm, ut)

LEMMA LeavesInv ==
  ASSUME VlanInv, NEW v \in Vlans, NEW valid \in BOOLEAN, NEW ok \in BOOLEAN,
         NEW bm \in SUBSET VlanPorts, NEW ut \in SUBSET bm, Leaves(v, valid, bm, ut, ok)
  PROVE  VlanInv'
<1>1. VlanMaps' BY DEF VlanInv, VlanMaps, Leaves
<1>2. VlanTypeOK'
  <2>1. vlan_valid' \subseteq Vlans BY DEF VlanInv, VlanTypeOK, Leaves
  <2>2. asked' \in [Vlans -> [members : SUBSET VlanPorts, untagged : SUBSET VlanPorts, ok : BOOLEAN]]
    <3>1. [members |-> bm, untagged |-> ut, ok |-> ok]
            \in [members : SUBSET VlanPorts, untagged : SUBSET VlanPorts, ok : BOOLEAN]
      OBVIOUS
    <3> QED BY <3>1 DEF VlanInv, VlanTypeOK, Leaves
  <2>3. \A w \in Vlans : /\ vlan_ing_pbm'[w] = vlan_egr_pbm'[w]
                         /\ vlan_egr_utbm'[w] \subseteq vlan_egr_pbm'[w]
                         /\ vlan_egr_pbm'[w] \subseteq VlanPorts
    BY DEF VlanInv, VlanTypeOK, VlanMaps, Leaves
  <2> QED BY <2>1, <2>2, <2>3 DEF VlanTypeOK
<1>3. ASSUME NEW w \in Vlans \ {v} PROVE VlanOK(w)'
  <2>1. VlanOK(w) BY DEF VlanInv
  <2>2. /\ w \in vlan_valid' <=> w \in vlan_valid
        /\ vlan_egr_pbm'[w] = vlan_egr_pbm[w] /\ vlan_egr_utbm'[w] = vlan_egr_utbm[w]
        /\ vlan_ing'[w] = vlan_ing[w] /\ vlan_egr'[w] = vlan_egr[w] /\ asked'[w] = asked[w]
        /\ vlan_table'[w] = vlan_table[w] /\ egr_vlan'[w] = egr_vlan[w]
    BY DEF VlanInv, VlanMaps, VlanTypeOK, Leaves
  <2> QED BY <2>1, <2>2 DEF VlanOK
<1>4. VlanOK(v)'
  <2>1. VlanOK(v) BY DEF VlanInv
  <2>2. /\ vlan_egr_pbm'[v] = bm /\ vlan_egr_utbm'[v] = ut
        /\ asked'[v].members = bm /\ asked'[v].untagged = ut /\ asked'[v].ok = ok
        /\ v \in vlan_valid' => valid
        /\ valid => vlan_ing'[v] = IngOf(bm) /\ vlan_egr'[v] = EgrOf(bm, ut)
    BY DEF VlanInv, VlanMaps, VlanTypeOK, Leaves
  <2>3. vlan_table'[v] = {} \/ \E b \in SUBSET VlanPorts : vlan_table'[v] = IngOf(b)
    <3>1. {} \in SUBSET VlanPorts OBVIOUS
    <3> QED BY <2>1, <3>1 DEF VlanOK, Leaves
  <2>4. egr_vlan'[v] = {} \/ \E b \in SUBSET VlanPorts : \E u \in SUBSET b : egr_vlan'[v] = EgrOf(b, u)
    <3>1. {} \in SUBSET VlanPorts /\ {} \in SUBSET {} OBVIOUS
    <3> QED BY <2>1, <3>1 DEF VlanOK, Leaves
  <2>5. ok => vlan_table'[v] = IngOf(bm) /\ egr_vlan'[v] = EgrOf(bm, ut) BY DEF Leaves
  <2> QED BY <2>2, <2>3, <2>4, <2>5 DEF VlanOK
<1> QED BY <1>1, <1>2, <1>3, <1>4 DEF VlanInv

LEMMA VlanStart == VlanInit => VlanInv
<1> SUFFICES ASSUME VlanInit PROVE VlanInv OBVIOUS
<1>1. VlanMaps BY DEF VlanInit, VlanMaps
<1>2. VlanTypeOK BY DEF VlanInit, VlanTypeOK, Nothing
<1>3. IngEntry(NewIngEntry, VlanPorts) = IngOf(VlanPorts)
      /\ EgrEntry(NewEgrEntry, VlanPorts, VlanPorts) = EgrOf(VlanPorts, VlanPorts)
  <2>1. VlanPorts \in SUBSET (0 .. 63) /\ {} \in SUBSET (0 .. 63) BY VlanAssumption
  <2> QED BY <2>1, NewEntries, EntriesOf
<1>4. ASSUME NEW v \in Vlans PROVE VlanOK(v)
  <2>1. asked[v].ok = FALSE /\ v \notin vlan_valid BY DEF VlanInit, Nothing
  <2>2. vlan_table[v] \in {{}, IngOf(VlanPorts)} /\ egr_vlan[v] \in {{}, EgrOf(VlanPorts, VlanPorts)}
    BY <1>3 DEF VlanInit
  <2>3. VlanPorts \in SUBSET VlanPorts OBVIOUS
  <2> QED BY <2>1, <2>2, <2>3 DEF VlanOK
<1> QED BY <1>1, <1>2, <1>4 DEF VlanInv

\* A write to the two tables, the second made only if the first returned 0.
LEMMA WriteLeaves ==
  ASSUME VlanInv, NEW v \in Vlans, NEW ing, NEW egr, NEW i, NEW e, vlan_write(v, i, e, ing, egr)
  PROVE  /\ DOMAIN vlan_table' = Vlans /\ DOMAIN egr_vlan' = Vlans
         /\ \A w \in Vlans \ {v} : vlan_table'[w] = vlan_table[w] /\ egr_vlan'[w] = egr_vlan[w]
         /\ vlan_table'[v] \in {vlan_table[v], i} /\ egr_vlan'[v] \in {egr_vlan[v], e}
         /\ WriteOk(ing) /\ WriteOk(egr) => vlan_table'[v] = i /\ egr_vlan'[v] = e
BY DEF vlan_write, sbus_mem_write, WriteOk, VlanInv, VlanMaps

LEMMA CreateLeaves ==
  ASSUME VlanInv, NEW v \in Vlans, NEW ing, NEW egr, vlan_create(v, ing, egr)
  PROVE  Leaves(v, TRUE, {}, {}, WriteOk(ing) /\ WriteOk(egr))
<1>1. vlan_write(v, IngOf({}), EgrOf({}, {}), ing, egr) BY NewEntries DEF vlan_create
<1>2. asked' = [asked EXCEPT ![v] = [members |-> {}, untagged |-> {}, ok |-> WriteOk(ing) /\ WriteOk(egr)]]
  <2>1. PICK ok \in BOOLEAN : ok = (WriteOk(ing) /\ WriteOk(egr)) OBVIOUS
  <2>2. asked' = [asked EXCEPT ![v] = [Nothing EXCEPT !.ok = ok]] BY <2>1 DEF vlan_create
  <2>3. [Nothing EXCEPT !.ok = ok] = [members |-> {}, untagged |-> {}, ok |-> ok] BY DEF Nothing
  <2> QED BY <2>1, <2>2, <2>3
<1>3. /\ DOMAIN vlan_table' = Vlans /\ DOMAIN egr_vlan' = Vlans
      /\ \A w \in Vlans \ {v} : vlan_table'[w] = vlan_table[w] /\ egr_vlan'[w] = egr_vlan[w]
      /\ vlan_table'[v] \in {vlan_table[v], IngOf({})} /\ egr_vlan'[v] \in {egr_vlan[v], EgrOf({}, {})}
      /\ WriteOk(ing) /\ WriteOk(egr) => vlan_table'[v] = IngOf({}) /\ egr_vlan'[v] = EgrOf({}, {})
  BY <1>1, WriteLeaves
<1>4. /\ vlan_ing' = [vlan_ing EXCEPT ![v] = IngOf({})] /\ vlan_egr' = [vlan_egr EXCEPT ![v] = EgrOf({}, {})]
      /\ vlan_ing_pbm' = [vlan_ing_pbm EXCEPT ![v] = {}] /\ vlan_egr_pbm' = [vlan_egr_pbm EXCEPT ![v] = {}]
      /\ vlan_egr_utbm' = [vlan_egr_utbm EXCEPT ![v] = {}] /\ vlan_valid' = vlan_valid \cup {v}
  BY <1>1 DEF vlan_create, vlan_write
<1> QED BY <1>2, <1>3, <1>4 DEF Leaves

LEMMA AddLeaves ==
  ASSUME VlanInv, NEW v \in Vlans, NEW port \in VlanPorts, NEW tagged \in BOOLEAN, NEW ing, NEW egr,
         AddToValid(v, port, tagged, ing, egr)
  PROVE  \E ok \in BOOLEAN, bm \in SUBSET VlanPorts : \E ut \in SUBSET bm : Leaves(v, TRUE, bm, ut, ok)
<1> DEFINE bm == vlan_egr_pbm[v] \cup {port}
           ut == IF tagged THEN vlan_egr_utbm[v] ELSE vlan_egr_utbm[v] \cup {port}
<1>1. v \in vlan_valid /\ VlanOK(v) BY DEF AddToValid, VlanInv
<1>2. /\ vlan_egr_pbm[v] \in SUBSET VlanPorts /\ vlan_egr_utbm[v] \in SUBSET vlan_egr_pbm[v]
      /\ vlan_ing_pbm[v] = vlan_egr_pbm[v]
  BY DEF VlanInv, VlanTypeOK
<1>3. bm \in SUBSET VlanPorts /\ ut \in SUBSET bm BY <1>2
<1>4. VlanPorts \subseteq 0 .. 63 BY VlanAssumption
<1>5. /\ vlan_ing_pbm' = [vlan_ing_pbm EXCEPT ![v] = bm] /\ vlan_ing_pbm'[v] = bm
      /\ vlan_egr_pbm' = [vlan_egr_pbm EXCEPT ![v] = bm]
      /\ vlan_egr_utbm' = [vlan_egr_utbm EXCEPT ![v] = ut]
      /\ vlan_valid' = vlan_valid \cup {v}
  BY <1>1, <1>2 DEF AddToValid, VlanInv, VlanMaps
<1>6. asked' = [asked EXCEPT ![v] = [members |-> bm, untagged |-> ut, ok |-> WriteOk(ing) /\ WriteOk(egr)]]
  <2>1. asked[v].members = vlan_egr_pbm[v] /\ asked[v].untagged = vlan_egr_utbm[v]
    BY <1>1 DEF VlanOK
  <2>2. v \in DOMAIN asked BY DEF VlanInv, VlanTypeOK
  <2> QED BY <2>1, <2>2 DEF AddToValid
<1>7. vlan_write(v, IngOf(bm), EgrOf(bm, ut), ing, egr)
  <2>1. vlan_write(v, IngEntry(vlan_ing[v], bm), EgrEntry(vlan_egr[v], bm, ut), ing, egr)
    BY <1>5 DEF AddToValid
  <2>2. vlan_ing[v] = IngOf(vlan_egr_pbm[v]) /\ vlan_egr[v] = EgrOf(vlan_egr_pbm[v], vlan_egr_utbm[v])
    BY <1>1 DEF VlanOK
  <2>3. /\ bm \in SUBSET (0 .. 63) /\ ut \in SUBSET (0 .. 63)
        /\ vlan_egr_pbm[v] \in SUBSET (0 .. 63) /\ vlan_egr_utbm[v] \in SUBSET (0 .. 63)
    BY <1>2, <1>3, <1>4
  <2>4. IngEntry(vlan_ing[v], bm) = IngOf(bm) /\ EgrEntry(vlan_egr[v], bm, ut) = EgrOf(bm, ut)
    BY <2>2, <2>3, EntriesOf
  <2> QED BY <2>1, <2>4
<1> HIDE DEF bm, ut
<1>8. Leaves(v, TRUE, bm, ut, WriteOk(ing) /\ WriteOk(egr))
  <2>1. /\ DOMAIN vlan_table' = Vlans /\ DOMAIN egr_vlan' = Vlans
        /\ \A w \in Vlans \ {v} : vlan_table'[w] = vlan_table[w] /\ egr_vlan'[w] = egr_vlan[w]
        /\ vlan_table'[v] \in {vlan_table[v], IngOf(bm)} /\ egr_vlan'[v] \in {egr_vlan[v], EgrOf(bm, ut)}
        /\ WriteOk(ing) /\ WriteOk(egr) => vlan_table'[v] = IngOf(bm) /\ egr_vlan'[v] = EgrOf(bm, ut)
    BY <1>7, WriteLeaves
  <2>2. vlan_ing' = [vlan_ing EXCEPT ![v] = IngOf(bm)] /\ vlan_egr' = [vlan_egr EXCEPT ![v] = EgrOf(bm, ut)]
    BY <1>7 DEF vlan_write
  <2> QED BY <1>5, <1>6, <2>1, <2>2 DEF Leaves
<1>9. (WriteOk(ing) /\ WriteOk(egr)) \in BOOLEAN OBVIOUS
<1> QED BY <1>3, <1>8, <1>9

LEMMA AddNewLeaves ==
  ASSUME VlanInv, NEW v \in Vlans, NEW port \in VlanPorts, NEW tagged \in BOOLEAN, NEW ing, NEW egr,
         AddToNew(v, port, tagged, ing, egr)
  PROVE  \E ok \in BOOLEAN, bm \in SUBSET VlanPorts : \E ut \in SUBSET bm : Leaves(v, TRUE, bm, ut, ok)
<1>1. CASE vlan_create(v, ing, egr)
  <2>1. {} \in SUBSET VlanPorts /\ {} \in SUBSET {} OBVIOUS
  <2>2. (WriteOk(ing) /\ WriteOk(egr)) \in BOOLEAN OBVIOUS
  <2> QED BY <1>1, <2>1, <2>2, CreateLeaves
<1>2. CASE ~vlan_create(v, ing, egr)
  <2> DEFINE bm == {port}
             ut == IF tagged THEN {} ELSE {port}
  <2>1. bm \in SUBSET VlanPorts /\ ut \in SUBSET bm OBVIOUS
  <2>2. IngEntry(NewIngEntry, bm) = IngOf(bm) /\ EgrEntry(NewEgrEntry, bm, ut) = EgrOf(bm, ut)
    <3>1. VlanPorts \subseteq 0 .. 63 /\ {} \in SUBSET (0 .. 63) BY VlanAssumption
    <3> QED BY <2>1, <3>1, NewEntries, EntriesOf
  <2>3. /\ vlan_ing_pbm' = [vlan_ing_pbm EXCEPT ![v] = bm]
        /\ vlan_egr_pbm' = [vlan_egr_pbm EXCEPT ![v] = bm]
        /\ vlan_egr_utbm' = [vlan_egr_utbm EXCEPT ![v] = ut]
        /\ vlan_valid' = vlan_valid \cup {v}
        /\ vlan_ing' = [vlan_ing EXCEPT ![v] = IngOf(bm)]
        /\ vlan_egr' = [vlan_egr EXCEPT ![v] = EgrOf(bm, ut)]
        /\ vlan_table' = [vlan_table EXCEPT ![v] = IF ing = "lost" THEN IngOf({}) ELSE IngOf(bm)]
        /\ egr_vlan' = [egr_vlan EXCEPT ![v] =
                          IF WriteOk(ing) /\ egr # "lost" THEN EgrOf(bm, ut) ELSE EgrOf({}, {})]
        /\ asked' = [asked EXCEPT ![v] =
                       [members |-> bm, untagged |-> ut, ok |-> WriteOk(ing) /\ WriteOk(egr)]]
    BY <1>2, <2>2, NewEntries DEF AddToNew
  <2> HIDE DEF bm, ut
  <2>4. Leaves(v, TRUE, bm, ut, WriteOk(ing) /\ WriteOk(egr))
    BY <2>3 DEF Leaves, WriteOk, VlanInv, VlanMaps
  <2>5. (WriteOk(ing) /\ WriteOk(egr)) \in BOOLEAN OBVIOUS
  <2> QED BY <2>1, <2>4, <2>5
<1> QED BY <1>1, <1>2

LEMMA DestroyLeaves ==
  ASSUME VlanInv, NEW v \in Vlans, NEW ing, NEW egr, vlan_destroy(v, ing, egr)
  PROVE  Leaves(v, FALSE, {}, {}, FALSE)
BY DEF vlan_destroy, sbus_mem_write, Nothing, Leaves, VlanInv, VlanMaps

LEMMA VlanStep == VlanInv /\ VlanCall => VlanInv'
<1> SUFFICES ASSUME VlanInv, VlanCall PROVE VlanInv' OBVIOUS
<1>1. PICK v \in Vlans, ing \in Outcomes, egr \in Outcomes :
        \/ vlan_create(v, ing, egr)
        \/ \E port \in VlanPorts, tagged \in BOOLEAN : vlan_port_add(v, port, tagged, ing, egr)
        \/ vlan_destroy(v, ing, egr)
  BY DEF VlanCall
<1>2. \E valid \in BOOLEAN, ok \in BOOLEAN, bm \in SUBSET VlanPorts :
        \E ut \in SUBSET bm : Leaves(v, valid, bm, ut, ok)
  <2>1. {} \in SUBSET VlanPorts /\ {} \in SUBSET {} OBVIOUS
  <2>2. (WriteOk(ing) /\ WriteOk(egr)) \in BOOLEAN BY DEF WriteOk
  <2>3. CASE vlan_create(v, ing, egr) BY <2>1, <2>2, <2>3, CreateLeaves
  <2>4. CASE vlan_destroy(v, ing, egr) BY <2>1, <2>4, DestroyLeaves
  <2>5. ASSUME NEW port \in VlanPorts, NEW tagged \in BOOLEAN, vlan_port_add(v, port, tagged, ing, egr)
        PROVE  \E ok \in BOOLEAN, bm \in SUBSET VlanPorts : \E ut \in SUBSET bm :
                 Leaves(v, TRUE, bm, ut, ok)
    <3>1. CASE AddToValid(v, port, tagged, ing, egr) BY <3>1, AddLeaves
    <3>2. CASE AddToNew(v, port, tagged, ing, egr) BY <3>2, AddNewLeaves
    <3> QED BY <2>5, <3>1, <3>2 DEF vlan_port_add
  <2> QED BY <1>1, <2>2, <2>3, <2>4, <2>5
<1> QED BY <1>2, LeavesInv

LEMMA VlanFrame == VlanInv /\ UNCHANGED vlanVars => VlanInv'
<1> SUFFICES ASSUME VlanInv, UNCHANGED vlanVars PROVE VlanInv' OBVIOUS
<1>1. UNCHANGED <<vlan_valid, vlan_ing_pbm, vlan_egr_pbm, vlan_egr_utbm,
                  vlan_ing, vlan_egr, vlan_table, egr_vlan, asked>>
  BY DEF vlanVars
<1> QED BY <1>1 DEF VlanInv, VlanMaps, VlanTypeOK, VlanOK

LEMMA VlanInvSound == VlanInv => VlanSound
<1> SUFFICES ASSUME VlanInv PROVE VlanSound OBVIOUS
<1>1. VlanExact
  <2>1. ASSUME NEW v \in Vlans, asked[v].ok
        PROVE  /\ Members(vlan_table[v]) = asked[v].members
               /\ IngMembers(vlan_table[v]) = asked[v].members
               /\ EgrMembers(egr_vlan[v]) = asked[v].members
               /\ Untagged(egr_vlan[v]) = asked[v].untagged
               /\ {205, 133} \subseteq vlan_table[v] /\ {0, 2} \subseteq egr_vlan[v]
    <3>1. /\ vlan_table[v] = IngOf(asked[v].members)
          /\ egr_vlan[v] = EgrOf(asked[v].members, asked[v].untagged)
      BY <2>1 DEF VlanInv, VlanOK
    <3>2. VlanPorts \subseteq 0 .. 63 BY VlanAssumption
    <3>3. asked[v].members \in SUBSET (0 .. 63) /\ asked[v].untagged \in SUBSET (0 .. 63)
      BY <3>2 DEF VlanInv, VlanTypeOK
    <3>4. PICK mem \in SUBSET (0 .. 63), unt \in SUBSET (0 .. 63) :
            mem = asked[v].members /\ unt = asked[v].untagged
      BY <3>3
    <3>5. vlan_table[v] = IngOf(mem) /\ egr_vlan[v] = EgrOf(mem, unt) BY <3>1, <3>4
    <3>6. Members(vlan_table[v]) = mem /\ IngMembers(vlan_table[v]) = mem /\ {205, 133} \subseteq vlan_table[v]
      BY <3>5, ReadIng
    <3>7. EgrMembers(egr_vlan[v]) = mem /\ Untagged(egr_vlan[v]) = unt /\ {0, 2} \subseteq egr_vlan[v]
      BY <3>5, ReadEgr
    <3> QED BY <3>4, <3>6, <3>7
  <2> QED BY <2>1 DEF VlanExact
<1>2. FieldsApart
  <2>1. ASSUME NEW v \in Vlans
        PROVE  /\ Members(vlan_table[v]) = IngMembers(vlan_table[v])
               /\ vlan_table[v] \subseteq (0 .. 129) \cup {133, 205}
    <3>1. CASE vlan_table[v] = {} BY <3>1, ReadNothing
    <3>2. CASE vlan_table[v] # {}
      <4>1. PICK bm \in SUBSET VlanPorts : vlan_table[v] = IngOf(bm) BY <3>2 DEF VlanInv, VlanOK
      <4>2. bm \in SUBSET (0 .. 63) BY VlanAssumption
      <4>3. /\ Members(IngOf(bm)) = bm /\ IngMembers(IngOf(bm)) = bm
            /\ IngOf(bm) \subseteq (0 .. 129) \cup {133, 205}
        BY <4>2, ReadIng
      <4> QED BY <4>1, <4>3
    <3> QED BY <3>1, <3>2
  <2>2. ASSUME NEW v \in Vlans
        PROVE  /\ Untagged(egr_vlan[v]) \subseteq EgrMembers(egr_vlan[v])
               /\ egr_vlan[v] \subseteq {0, 2} \cup (96 .. 225)
    <3>1. CASE egr_vlan[v] = {} BY <3>1, ReadNothing
    <3>2. CASE egr_vlan[v] # {}
      <4>1. PICK bm \in SUBSET VlanPorts, ut \in SUBSET VlanPorts : ut \subseteq bm /\ egr_vlan[v] = EgrOf(bm, ut)
        BY <3>2 DEF VlanInv, VlanOK
      <4>2. bm \in SUBSET (0 .. 63) /\ ut \in SUBSET (0 .. 63) BY VlanAssumption
      <4>3. /\ EgrMembers(EgrOf(bm, ut)) = bm /\ Untagged(EgrOf(bm, ut)) = ut
            /\ EgrOf(bm, ut) \subseteq {0, 2} \cup (96 .. 225)
        BY <4>2, ReadEgr
      <4> QED BY <4>1, <4>3
    <3> QED BY <3>1, <3>2
  <2> QED BY <2>1, <2>2 DEF FieldsApart
<1> QED BY <1>1, <1>2 DEF VlanSound, VlanInv

\* For any VLANs and any ports, whatever writes fail or take effect late: the
\* entries on the chip are well formed after every call of vlan.c, and after a
\* create or an add that returned 0 they are exactly what its users asked for.
THEOREM VlanIsSound == TablesSpec => []VlanSound
<1>1. TablesInit => VlanInv BY VlanStart DEF TablesInit
<1>2. VlanInv /\ [TablesNext]_tableVars => VlanInv'
  <2>1. CASE NetlinkMessage \/ EcmpCall \/ UNCHANGED tableVars
    BY <2>1, VlanFrame DEF NetlinkMessage, EcmpCall, tableVars
  <2> QED BY <2>1, VlanStep DEF TablesNext
<1> QED BY <1>1, <1>2, VlanInvSound, PTL DEF TablesSpec
=============================================================================

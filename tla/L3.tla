--------------------------------- MODULE L3 ---------------------------------
(***************************************************************************)
(* The L3 tables of the SDK (sdk/src/l3.c): three software allocators and  *)
(* the four hardware tables they shadow.                                   *)
(*                                                                         *)
(*   L3_DEFIP[slot] -> next hop -> ING_L3_NEXT_HOP[nh]  = outgoing port    *)
(*                              -> EGR_L3_NEXT_HOP[nh]  = MAC, interface   *)
(*                                   -> EGR_L3_INTF[id] = source MAC       *)
(*                                                                         *)
(* Every operation takes the outcomes of its hardware writes (see Asic) as *)
(* parameters, and an operation that returns an identifier takes it as     *)
(* ret, 0 standing for "an error was returned".                            *)
(*                                                                         *)
(* Data abstraction: an all-zero entry is 0 (or NoRoute); an EGR_L3_INTF   *)
(* entry is the port whose synthetic MAC 02:00:00:00:00:<port> it holds; a *)
(* route key stands for a pair of prefix and prefix length.                *)
(***************************************************************************)
EXTENDS Asic

CONSTANTS
  MaxIntf,    \* MAX_L3_INTF: interface ids are 1 .. MaxIntf - 1
  MaxNhop,    \* MAX_L3_NHOP: next-hop ids are 1 .. MaxNhop - 1
  MaxDefip,   \* MAX_L3_DEFIP: route slots are 0 .. MaxDefip - 1
  Keys,       \* the (prefix, prefix length) pairs
  NoKey       \* the key of an invalid L3_DEFIP entry

ASSUME L3Assumption ==
  /\ MaxIntf \in Nat \ {0} /\ MaxNhop \in Nat \ {0} /\ MaxDefip \in Nat
  /\ NoKey \notin Keys

VARIABLES
  intf_used,   \* the interface ids in use
  nhop_used,   \* the next-hop ids in use
  defip_used,  \* the route slots in use
  defip_key,   \* defip_prefix[] and defip_plen[]
  egr_l3_intf, \* hardware: EGR_L3_INTF
  ing_nhop,    \* hardware: ING_L3_NEXT_HOP
  egr_nhop,    \* hardware: EGR_L3_NEXT_HOP
  l3_defip     \* hardware: L3_DEFIP

intfVars  == <<intf_used, egr_l3_intf>>
nhopVars  == <<nhop_used, ing_nhop, egr_nhop>>
routeVars == <<defip_used, defip_key, l3_defip>>
l3Vars    == <<intfVars, nhopVars, routeVars>>

IntfIds == 1 .. MaxIntf - 1
NhopIds == 1 .. MaxNhop - 1
Slots   == 0 .. MaxDefip - 1

ZeroMac == 0
NoNhop  == [intf |-> 0, mac |-> ZeroMac]
NoRoute == [key |-> NoKey, nh |-> 0]

IntfTypeOK ==
  /\ intf_used \subseteq IntfIds
  /\ egr_l3_intf \in [IntfIds -> Ports \cup {0}]

NhopTypeOK ==
  /\ nhop_used \subseteq NhopIds
  /\ ing_nhop \in [NhopIds -> Ports \cup {0}]
  /\ egr_nhop \in [NhopIds -> [intf : IntfIds \cup {0}, mac : Macs \cup {ZeroMac}]]

RouteTypeOK ==
  /\ defip_used \subseteq Slots
  /\ defip_key \in [Slots -> Keys \cup {NoKey}]
  /\ l3_defip \in [Slots -> [key : Keys, nh : NhopIds] \cup {NoRoute}]

L3TypeOK == IntfTypeOK /\ NhopTypeOK /\ RouteTypeOK

L3Init ==
  /\ intf_used = {}
  /\ nhop_used = {}
  /\ defip_used = {}
  /\ defip_key = [s \in Slots |-> NoKey]
  /\ egr_l3_intf = [i \in IntfIds |-> 0]
  /\ ing_nhop = [n \in NhopIds |-> 0]
  /\ egr_nhop = [n \in NhopIds |-> NoNhop]
  /\ l3_defip = [s \in Slots |-> NoRoute]

\* Bug: the first id, whether it is in use or not.
Bug_alloc_id(used, ids, id) == id \in ids /\ \A j \in ids : id <= j

\* alloc_id() returns the lowest free id; it fails when Full holds.
alloc_id(used, ids, id) ==
  /\ id \in ids \ used
  /\ \A j \in ids \ used : id <= j

Full(used, ids) == ids \subseteq used

-----------------------------------------------------------------------------
(* Interfaces                                                              *)

\* Bug: the id is returned although the write failed.
Bug_l3_intf_create(port, o, ret) ==
  /\ alloc_id(intf_used, IntfIds, ret)
  /\ egr_l3_intf' = sbus_mem_write(egr_l3_intf, ret, port, o)
  /\ intf_used' = intf_used \cup {ret}

l3_intf_create(port, o, ret) ==
  \/ /\ Full(intf_used, IntfIds)
     /\ ret = 0
     /\ UNCHANGED intfVars
  \/ \E id \in IntfIds :
       /\ alloc_id(intf_used, IntfIds, id)
       /\ egr_l3_intf' = sbus_mem_write(egr_l3_intf, id, port, o)
       /\ intf_used' = IF WriteOk(o) THEN intf_used \cup {id} ELSE intf_used
       /\ ret = IF WriteOk(o) THEN id ELSE 0

\* The result of the write is ignored: the id is freed whatever happened.
l3_intf_destroy(id, o) ==
  /\ egr_l3_intf' = sbus_mem_write(egr_l3_intf, id, 0, o)
  /\ intf_used' = intf_used \ {id}

-----------------------------------------------------------------------------
(* Next hops                                                               *)

\* Bug: the result of the second write is ignored.
Bug_l3_egress_create(port, intf, mac, o1, o2, ret) ==
  /\ intf # 0 /\ WriteOk(o1)
  /\ alloc_id(nhop_used, NhopIds, ret)
  /\ ing_nhop' = sbus_mem_write(ing_nhop, ret, port, o1)
  /\ egr_nhop' = sbus_mem_write(egr_nhop, ret, [intf |-> intf, mac |-> mac], o2)
  /\ nhop_used' = nhop_used \cup {ret}

\* Bug: one next hop for all routes, rewritten by each.
BugShared_l3_egress_create(port, intf, mac, o1, o2, ret) ==
  /\ intf # 0 /\ WriteOk(o1) /\ WriteOk(o2)
  /\ ret \in NhopIds /\ \A n \in NhopIds : ret <= n
  /\ ing_nhop' = [ing_nhop EXCEPT ![ret] = port]
  /\ egr_nhop' = [egr_nhop EXCEPT ![ret] = [intf |-> intf, mac |-> mac]]
  /\ nhop_used' = nhop_used \cup {ret}

\* Bug: the interface of the next hop is not looked at.
BugNoIntf_l3_egress_create(port, intf, mac, o1, o2, ret) ==
  /\ WriteOk(o1) /\ WriteOk(o2)
  /\ alloc_id(nhop_used, NhopIds, ret)
  /\ ing_nhop' = [ing_nhop EXCEPT ![ret] = port]
  /\ egr_nhop' = [egr_nhop EXCEPT ![ret] = [intf |-> intf, mac |-> mac]]
  /\ nhop_used' = nhop_used \cup {ret}

\* The egress half is written only if the ingress half was (|| in the code).
l3_egress_create(port, intf, mac, o1, o2, ret) ==
  \/ /\ intf = 0 \/ Full(nhop_used, NhopIds)
     /\ ret = 0
     /\ UNCHANGED nhopVars
  \/ /\ intf # 0
     /\ \E id \in NhopIds :
          /\ alloc_id(nhop_used, NhopIds, id)
          /\ ing_nhop' = sbus_mem_write(ing_nhop, id, port, o1)
          /\ egr_nhop' =
               IF WriteOk(o1)
                 THEN sbus_mem_write(egr_nhop, id, [intf |-> intf, mac |-> mac], o2)
                 ELSE egr_nhop
          /\ LET ok == WriteOk(o1) /\ WriteOk(o2)
             IN  /\ nhop_used' = IF ok THEN nhop_used \cup {id} ELSE nhop_used
                 /\ ret = IF ok THEN id ELSE 0

-----------------------------------------------------------------------------
(* Routes                                                                  *)

\* The slots in use for a key; defip_find() returns the first of them.
defip_find(key) == {s \in defip_used : defip_key[s] = key}

\* Bug: every add takes a free slot.
Bug_RouteSlot(key, s) == alloc_id(defip_used, Slots, s)

\* The slot l3_route_add() writes: the key's own, else the lowest free one.
RouteSlot(key, s) ==
  IF defip_find(key) # {}
    THEN s \in defip_find(key) /\ \A t \in defip_find(key) : s <= t
    ELSE alloc_id(defip_used, Slots, s)

\* A slot taken for a new key stays taken when the write of the entry fails.
l3_route_add(key, nh, o) ==
  \/ /\ defip_find(key) = {}
     /\ Full(defip_used, Slots)
     /\ UNCHANGED routeVars
  \/ \E s \in Slots :
       /\ RouteSlot(key, s)
       /\ defip_used' = defip_used \cup {s}
       /\ defip_key' = [defip_key EXCEPT ![s] = key]
       /\ l3_defip' = sbus_mem_write(l3_defip, s, [key |-> key, nh |-> nh], o)

\* Bug: the slot is freed but the chip's entry stays.
Bug_l3_route_delete(key, o) ==
  \E s \in defip_find(key) :
    /\ defip_used' = defip_used \ {s}
    /\ defip_key' = [defip_key EXCEPT ![s] = NoKey]
    /\ UNCHANGED l3_defip

\* Bug: the valid bits of the entry are cleared but not its next hop.
BugPartial_l3_route_delete(key, o) ==
  \E s \in defip_find(key) :
    /\ defip_used' = defip_used \ {s}
    /\ defip_key' = [defip_key EXCEPT ![s] = NoKey]
    /\ l3_defip' = [l3_defip EXCEPT ![s].key = NoKey]

\* The result of the write is ignored: the slot is freed whatever happened.
l3_route_delete(key, o) ==
  \/ /\ defip_find(key) = {}
     /\ UNCHANGED routeVars
  \/ \E s \in Slots :
       /\ s \in defip_find(key) /\ \A t \in defip_find(key) : s <= t
       /\ l3_defip' = sbus_mem_write(l3_defip, s, NoRoute, o)
       /\ defip_used' = defip_used \ {s}
       /\ defip_key' = [defip_key EXCEPT ![s] = NoKey]
=============================================================================

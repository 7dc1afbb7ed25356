------------------------------ MODULE Netlink ------------------------------
(***************************************************************************)
(* The netlink thread of nos-switchd (switchd/src/netlink.c) driving the   *)
(* SDK's port, L2 and L3 tables.                                           *)
(*                                                                         *)
(* One action per rtnetlink message: the kernel's change (the k-variables, *)
(* external, from how the handlers use the messages) and the whole of the  *)
(* handler.  Change and handling are one step because a handler reads      *)
(* nothing but the message and the thread's own tables, so its result is a *)
(* function of the sequence of messages and not of when each is received.  *)
(* A receive error other than EINTR or EAGAIN (a socket buffer overrun,    *)
(* say) ends the thread for good: RecvError.                               *)
(***************************************************************************)
EXTENDS L2, L3, Port, Sequences, FiniteSets

CONSTANTS
  MaxPorts,       \* MAX_PORTS: swpN is a port up to N = MaxPorts, but
                  \* port_to_intf_id[] ends at MaxPorts - 1
  MaxIfindex,     \* MAX_IFINDEX: larger interface indexes are not mapped
  NeighCacheSize, \* NEIGH_CACHE_SIZE
  Ifs,            \* the kernel's interface indexes
  Ips,            \* the neighbours' IPv4 addresses
  Addrs,          \* the addresses that may be assigned to interfaces
  Other,          \* an interface name that is not swpN
  Absent          \* an interface index that does not exist

ASSUME NetlinkAssumption ==
  /\ MaxPorts \in Nat \ {0} /\ MaxIfindex \in Nat /\ NeighCacheSize \in Nat
  /\ Ports \subseteq 1 .. MaxPorts
  /\ Ifs \subseteq Nat \ {0}
  /\ Ips \subseteq Nat \ {0}
  /\ Other \notin Ports /\ Absent \notin Ports /\ Other # Absent

VARIABLES
  ifindex_to_port, \* 0 stands for the code's -1, "unknown"
  port_to_intf_id, \* the interface created for a port, or 0
  neigh_cache,     \* sequence of (ip, ifindex, mac)
  nl_running,      \* the receive loop has not ended
  klink,           \* kernel: the name of each interface
  kadmin,          \* kernel: the admin flag last announced for swpN
  kaddr,           \* kernel: the addresses of each interface
  kneigh,          \* kernel: the MAC last announced for a neighbour, or 0
  kfib             \* kernel: the route last announced for a key

nlVars == <<ifindex_to_port, port_to_intf_id, neigh_cache, nl_running>>
kVars  == <<klink, kadmin, kaddr, kneigh, kfib>>
vars   == <<nlVars, kVars, l2_entry, l3Vars, portVars>>

L3Ports == {p \in Ports : p < MaxPorts}

NoFib    == [on |-> FALSE, oif |-> 0, gw |-> 0]
FibEntry == [on : BOOLEAN, oif : Ifs \cup {0}, gw : Ips \cup {0}]

TypeOK ==
  /\ L2TypeOK /\ L3TypeOK /\ PortTypeOK
  /\ ifindex_to_port \in [Ifs -> Ports \cup {0}]
  /\ port_to_intf_id \in [L3Ports -> IntfIds \cup {0}]
  /\ neigh_cache \in Seq([ip : Ips, ifindex : Ifs, mac : Macs])
  /\ nl_running \in BOOLEAN
  /\ klink \in [Ifs -> Ports \cup {Other, Absent}]
  /\ kadmin \in [Ports -> BOOLEAN]
  /\ kaddr \in [Ifs -> SUBSET Addrs]
  /\ kneigh \in [Ips \X Ifs -> Macs \cup {0}]
  /\ kfib \in [Keys -> FibEntry]

\* main() has enabled every port and created the TAPs before the thread
\* subscribes, so interfaces may exist that it has heard nothing of.
Init ==
  /\ L2Init /\ L3Init
  /\ xlport_enable_shadow = EnabledLanes(Ports \cap SwitchPorts)
  /\ port_enable = EnabledLanes(Ports \cap SwitchPorts)
  /\ serdes_called = Ports \cap SwitchPorts
  /\ ifindex_to_port = [i \in Ifs |-> 0]
  /\ port_to_intf_id = [p \in L3Ports |-> 0]
  /\ neigh_cache = <<>>
  /\ nl_running = TRUE
  /\ klink = [i \in Ifs |-> Absent]
  /\ kadmin = [p \in Ports |-> TRUE]
  /\ kaddr = [i \in Ifs |-> {}]
  /\ kneigh = [n \in Ips \X Ifs |-> 0]
  /\ kfib = [k \in Keys |-> NoFib]

-----------------------------------------------------------------------------
(* The neighbour cache                                                     *)

\* The positions that hold a neighbour, and the one the code uses: the first.
CacheAt(ip, i) ==
  {n \in 1 .. Len(neigh_cache) : neigh_cache[n].ip = ip /\ neigh_cache[n].ifindex = i}

CacheHit(ip, i, n) == n \in CacheAt(ip, i) /\ \A m \in CacheAt(ip, i) : n <= m

\* A neighbour that finds the cache full is not cached.
neigh_cache_set(ip, i, mac) ==
  \/ \E n \in CacheAt(ip, i) :
       CacheHit(ip, i, n) /\ neigh_cache' = [neigh_cache EXCEPT ![n].mac = mac]
  \/ /\ CacheAt(ip, i) = {} /\ Len(neigh_cache) < NeighCacheSize
     /\ neigh_cache' = Append(neigh_cache, [ip |-> ip, ifindex |-> i, mac |-> mac])
  \/ /\ CacheAt(ip, i) = {} /\ Len(neigh_cache) >= NeighCacheSize
     /\ UNCHANGED neigh_cache

\* mac is what the caller's buffer, zero before the call, holds after it.
neigh_cache_get(ip, i, mac) ==
  \/ CacheAt(ip, i) = {} /\ mac = ZeroMac
  \/ \E n \in CacheAt(ip, i) : CacheHit(ip, i, n) /\ mac = neigh_cache[n].mac

\* Bug: memmove() from one entry too far.
Bug_neigh_cache_remove(ip, i) ==
  \E hit \in CacheAt(ip, i) :
    neigh_cache' = [n \in 1 .. Len(neigh_cache) - 1 |->
                      IF n <= hit THEN neigh_cache[n] ELSE neigh_cache[n + 1]]

\* memmove() of the tail over the entry.
neigh_cache_remove(ip, i) ==
  \/ CacheAt(ip, i) = {} /\ UNCHANGED neigh_cache
  \/ \E hit \in CacheAt(ip, i) :
       /\ CacheHit(ip, i, hit)
       /\ neigh_cache' = [n \in 1 .. Len(neigh_cache) - 1 |->
                            IF n < hit THEN neigh_cache[n] ELSE neigh_cache[n + 1]]

\* ifindex_to_port[] as a handler reads it: an index out of range returns early.
PortOf(i) == IF i \in Ifs /\ i < MaxIfindex THEN ifindex_to_port[i] ELSE 0

-----------------------------------------------------------------------------
(* handle_link()                                                           *)

\* The kernel keeps names unique.
NewLink(i, name, up) ==
  /\ nl_running
  /\ name # Other => \A j \in Ifs \ {i} : klink[j] # name
  /\ klink' = [klink EXCEPT ![i] = name]
  /\ IF name = Other
       THEN UNCHANGED <<kadmin, ifindex_to_port, portVars>>
       ELSE /\ kadmin' = [kadmin EXCEPT ![name] = up]
            /\ ifindex_to_port' = IF i < MaxIfindex
                                    THEN [ifindex_to_port EXCEPT ![i] = name]
                                    ELSE ifindex_to_port
            /\ \E o \in Outcomes : port_enable_set(name, up, o)
  /\ UNCHANGED <<port_to_intf_id, neigh_cache, nl_running, kaddr, kneigh, kfib,
                 l2_entry, l3Vars>>

\* The kernel has removed addresses and neighbours by the time it says so.
DelLink(i) ==
  /\ nl_running
  /\ klink[i] # Absent
  /\ kaddr[i] = {} /\ \A ip \in Ips : kneigh[<<ip, i>>] = 0
  /\ klink' = [klink EXCEPT ![i] = Absent]
  /\ ifindex_to_port' = IF i < MaxIfindex THEN [ifindex_to_port EXCEPT ![i] = 0]
                                          ELSE ifindex_to_port
  /\ UNCHANGED <<port_to_intf_id, neigh_cache, nl_running, kadmin, kaddr, kneigh,
                 kfib, l2_entry, l3Vars, portVars>>

-----------------------------------------------------------------------------
(* handle_addr()                                                           *)

\* The same address may be announced again (its lifetime was refreshed).
NewAddr(i, a) ==
  /\ nl_running
  /\ klink[i] # Absent
  /\ kaddr' = [kaddr EXCEPT ![i] = @ \cup {a}]
  /\ IF PortOf(i) \notin L3Ports
       THEN UNCHANGED <<port_to_intf_id, intfVars>>
       ELSE \E o \in Outcomes, ret \in IntfIds \cup {0} :
              /\ l3_intf_create(PortOf(i), o, ret)
              /\ port_to_intf_id' =
                   IF ret # 0 THEN [port_to_intf_id EXCEPT ![PortOf(i)] = ret]
                              ELSE port_to_intf_id
  /\ UNCHANGED <<ifindex_to_port, neigh_cache, nl_running, klink, kadmin, kneigh,
                 kfib, l2_entry, nhopVars, routeVars, portVars>>

\* Any address that goes takes the port's interface with it.
DelAddr(i, a) ==
  /\ nl_running
  /\ a \in kaddr[i]
  /\ kaddr' = [kaddr EXCEPT ![i] = @ \ {a}]
  /\ IF PortOf(i) \notin L3Ports \/ port_to_intf_id[PortOf(i)] = 0
       THEN UNCHANGED <<port_to_intf_id, intfVars>>
       ELSE /\ \E o \in Outcomes : l3_intf_destroy(port_to_intf_id[PortOf(i)], o)
            /\ port_to_intf_id' = [port_to_intf_id EXCEPT ![PortOf(i)] = 0]
  /\ UNCHANGED <<ifindex_to_port, neigh_cache, nl_running, klink, kadmin, kneigh,
                 kfib, l2_entry, nhopVars, routeVars, portVars>>

-----------------------------------------------------------------------------
(* handle_neigh()                                                          *)

\* mac = 0 is a message without NDA_LLADDR (the neighbour is not resolved).
NewNeigh(i, ip, mac, vid) ==
  /\ nl_running
  /\ klink[i] # Absent
  /\ kneigh' = IF mac = 0 THEN kneigh ELSE [kneigh EXCEPT ![<<ip, i>>] = mac]
  /\ IF PortOf(i) = 0 \/ mac = 0
       THEN UNCHANGED <<neigh_cache, l2_entry>>
       ELSE /\ l2_addr_add(mac, vid, PortOf(i))
            /\ neigh_cache_set(ip, i, mac)
  /\ UNCHANGED <<ifindex_to_port, port_to_intf_id, nl_running, klink, kadmin, kaddr,
                 kfib, l3Vars, portVars>>

\* lladdr: the message carries the address; otherwise the cache supplies it.
DelNeigh(i, ip, vid, lladdr) ==
  /\ nl_running
  /\ klink[i] # Absent
  /\ lladdr => kneigh[<<ip, i>>] # 0
  /\ kneigh' = [kneigh EXCEPT ![<<ip, i>>] = 0]
  /\ IF PortOf(i) = 0
       THEN UNCHANGED <<neigh_cache, l2_entry>>
       ELSE /\ \E mac \in Macs \cup {ZeroMac} :
                 /\ IF lladdr THEN mac = kneigh[<<ip, i>>] ELSE neigh_cache_get(ip, i, mac)
                 /\ IF mac = ZeroMac THEN UNCHANGED l2_entry
                                     ELSE l2_addr_delete(mac, vid)
            /\ neigh_cache_remove(ip, i)
  /\ UNCHANGED <<ifindex_to_port, port_to_intf_id, nl_running, klink, kadmin, kaddr,
                 kfib, l3Vars, portVars>>

-----------------------------------------------------------------------------
(* handle_route()                                                          *)

\* oif = 0 is a message without RTA_OIF (a multipath route).  A next hop is
\* allocated for every announcement; the one it replaces is not freed.
NewRoute(key, oif, gw) ==
  /\ nl_running
  /\ oif # 0 => klink[oif] # Absent
  /\ kfib' = [kfib EXCEPT ![key] = [on |-> TRUE, oif |-> oif, gw |-> gw]]
  /\ IF PortOf(oif) = 0
       THEN UNCHANGED <<nhopVars, routeVars>>
       ELSE LET port == PortOf(oif)
                intf == IF port \in L3Ports THEN port_to_intf_id[port] ELSE 0
            IN  \E o1, o2, o3 \in Outcomes, mac \in Macs \cup {ZeroMac},
                   ret \in NhopIds \cup {0} :
                  /\ neigh_cache_get(gw, oif, mac)
                  /\ l3_egress_create(port, intf, mac, o1, o2, ret)
                  /\ IF ret = 0 THEN UNCHANGED routeVars
                                ELSE l3_route_add(key, ret, o3)
  /\ UNCHANGED <<nlVars, klink, kadmin, kaddr, kneigh, l2_entry, intfVars, portVars>>

DelRoute(key) ==
  /\ nl_running
  /\ kfib[key].on
  /\ kfib' = [kfib EXCEPT ![key] = NoFib]
  /\ \E o \in Outcomes : l3_route_delete(key, o)
  /\ UNCHANGED <<nlVars, klink, kadmin, kaddr, kneigh, l2_entry, intfVars, nhopVars,
                 portVars>>

-----------------------------------------------------------------------------
\* The receive loop breaks and the thread returns; nothing restarts it.
RecvError ==
  /\ nl_running
  /\ nl_running' = FALSE
  /\ UNCHANGED <<ifindex_to_port, port_to_intf_id, neigh_cache, kVars, l2_entry,
                 l3Vars, portVars>>

LinkMsg  == \E i \in Ifs : \/ \E n \in Ports \cup {Other}, up \in BOOLEAN : NewLink(i, n, up)
                           \/ DelLink(i)
AddrMsg  == \E i \in Ifs, a \in Addrs : NewAddr(i, a) \/ DelAddr(i, a)
NeighMsg == \E i \in Ifs, ip \in Ips, vid \in Vids :
              \/ \E mac \in Macs \cup {0} : NewNeigh(i, ip, mac, vid)
              \/ \E lladdr \in BOOLEAN : DelNeigh(i, ip, vid, lladdr)
RouteMsg == \E key \in Keys :
              \/ \E oif \in Ifs \cup {0}, gw \in Ips \cup {0} : NewRoute(key, oif, gw)
              \/ DelRoute(key)

\* dispatch()
Next == LinkMsg \/ AddrMsg \/ NeighMsg \/ RouteMsg \/ RecvError

Spec == Init /\ [][Next]_vars

-----------------------------------------------------------------------------
(* Safety                                                                  *)

\* l3_route_add() reuses the slot of a key it already has, so no two slots in
\* use hold the same key (a delete would only find the first of them).
DefipKeysDistinct ==
  \A s, t \in defip_used : defip_key[s] = defip_key[t] => s = t

\* handle_route() writes both halves of the next hop before the route, and
\* gives up if either fails: every entry the chip matches, a stale one that a
\* failed delete left behind included, leads to an allocated next hop that has
\* a port and an interface.
RoutesResolve ==
  \A s \in Slots : l3_defip[s] # NoRoute =>
    LET nh == l3_defip[s].nh
    IN  /\ nh \in nhop_used
        /\ ing_nhop[nh] \in Ports
        /\ egr_nhop[nh].intf \in IntfIds

\* handle_addr() records an interface for a port only once the chip holds it:
\* the recorded interface is allocated, is no other port's, and carries this
\* port's own source MAC, whatever writes failed since.
PortOwnsIntf ==
  \A p \in L3Ports : port_to_intf_id[p] # 0 =>
    /\ port_to_intf_id[p] \in intf_used
    /\ egr_l3_intf[port_to_intf_id[p]] = p
    /\ \A q \in L3Ports \ {p} : port_to_intf_id[q] # port_to_intf_id[p]

\* On a chip that never fails the shadow of L3_DEFIP is exact: the matched
\* entries are the slots in use, each with the key recorded for it.
DefipShadowExact ==
  \A s \in Slots : /\ (l3_defip[s] # NoRoute) <=> (s \in defip_used)
                   /\ l3_defip[s].key = defip_key[s]

\* A next hop that a route of the chip uses is never rewritten under it
\* (alloc_id() hands out free ids only, and switchd frees none in use).
UsedNextHopsStable ==
  [][\A s \in Slots : l3_defip[s] # NoRoute /\ l3_defip'[s] = l3_defip[s] =>
       LET nh == l3_defip[s].nh
       IN  ing_nhop'[nh] = ing_nhop[nh] /\ egr_nhop'[nh] = egr_nhop[nh]]_vars

\* A cached neighbour is cached once, and with the MAC the kernel announced
\* last: a route that is created now is not given an address already replaced
\* or deleted.
NeighCacheFresh ==
  /\ Len(neigh_cache) <= NeighCacheSize
  /\ \A n \in 1 .. Len(neigh_cache) :
       LET e == neigh_cache[n]
       IN  /\ CacheAt(e.ip, e.ifindex) = {n}
           /\ kneigh[<<e.ip, e.ifindex>>] = e.mac

-----------------------------------------------------------------------------
(* Refinement: the chip's forwarding table (for a chip that never fails)   *)

Hops  == [port : Ports, mac : Macs \cup {ZeroMac}]
NoHop == [port |-> 0, mac |-> ZeroMac]

\* Where the chip sends a packet whose best match is the key.
HwFib ==
  [k \in Keys |->
     IF \E s \in Slots : l3_defip[s].key = k
       THEN LET nh == l3_defip[CHOOSE s \in Slots : l3_defip[s].key = k].nh
            IN  [port |-> ing_nhop[nh], mac |-> egr_nhop[nh].mac]
       ELSE NoHop]

F == INSTANCE Fib WITH fib <- HwFib

\* Every netlink message changes the forwarding of at most one prefix.
ImplementsFib == F!Spec

-----------------------------------------------------------------------------
(* What the documentation says and the code does not do                    *)

\* switchd/README.md: "Every egress next-hop object references an EGR_L3_INTF
\* entry that contains the outgoing interface's source MAC and VLAN".
NextHopSourceMac ==
  \A n \in nhop_used : egr_l3_intf[egr_nhop[n].intf] = ing_nhop[n]

\* PLAN.md: "nos-switchd reads the same netlink stream -> programs ASIC in sync
\* with kernel FIB".  For the MAC of a resolved gateway:
GatewayMacInSync ==
  \A k \in Keys :
    LET r == kfib[k]
    IN  r.on /\ r.gw # 0 /\ r.oif # 0 /\ HwFib[k] # NoHop =>
          kneigh[<<r.gw, r.oif>>] \in {0, HwFib[k].mac}

\* sdk/src/l2.c: "Linear probe 0..5 for collision".  The address of a cached
\* neighbour is found by l2_addr_get(), on a chip that never fails.
CachedNeighboursInL2 ==
  \A n \in 1 .. Len(neigh_cache) : l2_addr_get(neigh_cache[n].mac, 0) # {}
=============================================================================

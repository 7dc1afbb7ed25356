------------------------------ MODULE MCLoads ------------------------------
(***************************************************************************)
(* The netlink thread of module Netlink under three kinds of load, each of *)
(* which brings another of its limits about.  The kernel keeps to one kind *)
(* throughout a behaviour; the handlers are those of Netlink.              *)
(*   "routes": one interface with neighbours that never change their MAC,  *)
(*     two routes that come and go;                                        *)
(*   "neighbours": no addresses and no routes, but four neighbours of two  *)
(*     interfaces that move between MACs, twice as many as are cached;     *)
(*   "limits": no neighbours, one route without a gateway; swp56, for      *)
(*     which port_to_intf_id[] has no place, and interface index 512,      *)
(*     which is not mapped to a port.                                      *)
(***************************************************************************)
EXTENDS MCNetlink

VARIABLE load

Named(ports) == \A i \in Ifs : klink[i] \in ports \cup {Other, Absent}
Unused(set)  == \A i \in set : klink[i] = Absent
AllUp        == \A p \in Ports : kadmin[p] \* port.c has no port 53 or 56

Routes     == Named({1}) /\ Unused(Ifs \ {5}) /\ \A n \in DOMAIN kneigh : kneigh[n] \in {0, 2}
Neighbours == Named({53, 56}) /\ AllUp /\ (\A i \in Ifs : kaddr[i] = {}) /\ \A k \in Keys : ~kfib[k].on
Limits     == /\ Named({53, 54, 56}) /\ AllUp /\ \A n \in DOMAIN kneigh : kneigh[n] = 0
              /\ Cardinality({k \in Keys : kfib[k].on}) <= 1 /\ \A k \in Keys : kfib[k].gw = 0

Load == CASE load = "routes"     -> Routes
          [] load = "neighbours" -> Neighbours
          [] load = "limits"     -> Limits

LoadsInit == Init /\ load \in {"routes", "neighbours", "limits"}
LoadsNext == Next /\ UNCHANGED load /\ Load'

LoadsSpec == LoadsInit /\ [][LoadsNext]_<<vars, load>>
=============================================================================

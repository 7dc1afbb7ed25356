------------------------------ MODULE MCTables ------------------------------
(***************************************************************************)
(* The SDK's tables on a chip whose writes may fail: the L3 and L2 tables  *)
(* as the netlink thread uses them, and the ECMP and the VLAN tables,      *)
(* driven by any sequence of calls of their API.  The three parts share    *)
(* no state but the way a write can end, so a behaviour exercises one.     *)
(***************************************************************************)
EXTENDS MCNetlink, Ecmp, Vlan

VARIABLE api \* the part exercised

tableVars == <<vars, ecmpVars, vlanVars, api>>

TablesInit == Init /\ EcmpInit /\ VlanInit /\ api \in {"netlink", "ecmp", "vlan"}

NetlinkMessage == api = "netlink" /\ Next /\ UNCHANGED <<ecmpVars, vlanVars, api>>

EcmpCall ==
  /\ api = "ecmp" /\ UNCHANGED <<vars, vlanVars, api>>
  /\ \/ \E ids \in Requests : l3_ecmp_create(ids)
     \/ \E g \in GroupIds, o \in Outcomes : l3_ecmp_destroy(g, o)

VlanCall ==
  /\ api = "vlan" /\ UNCHANGED <<vars, ecmpVars, api>>
  /\ \E v \in Vlans, ing, egr \in Outcomes :
       \/ vlan_create(v, ing, egr)
       \/ \E port \in VlanPorts, tagged \in BOOLEAN : vlan_port_add(v, port, tagged, ing, egr)
       \/ vlan_destroy(v, ing, egr)

TablesNext == NetlinkMessage \/ EcmpCall \/ VlanCall

TablesSpec == TablesInit /\ [][TablesNext]_tableVars
=============================================================================

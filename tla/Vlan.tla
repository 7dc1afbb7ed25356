-------------------------------- MODULE Vlan --------------------------------
(***************************************************************************)
(* The VLAN tables (sdk/src/vlan.c).  A VLAN has an entry in VLAN (who may *)
(* send to it and who receives) and one in EGR_VLAN (who receives, and who *)
(* without a tag).  The SDK keeps bitmaps and a copy of both entries, and  *)
(* writes the ingress entry, then the egress entry.  An entry is modelled  *)
(* by the set of its bits that are 1, a port bitmap by the set of ports.   *)
(***************************************************************************)
EXTENDS Asic

CONSTANTS
  Vlans,     \* VLAN ids, VLAN 1 among them
  VlanPorts  \* ports that are added to VLANs

ASSUME VlanAssumption == Vlans \subseteq 0 .. 4095 /\ VlanPorts \subseteq 1 .. 52

VARIABLES
  vlan_valid,                                 \* the VLANs the SDK knows
  vlan_ing_pbm, vlan_egr_pbm, vlan_egr_utbm,  \* VLAN -> ports
  vlan_ing, vlan_egr,                         \* VLAN -> entry, the SDK's copies
  vlan_table, egr_vlan,                       \* hardware: VLAN, EGR_VLAN
  asked                                       \* VLAN -> what its users asked for,
                                              \* and whether the last call succeeded

vlanVars == <<vlan_valid, vlan_ing_pbm, vlan_egr_pbm, vlan_egr_utbm,
              vlan_ing, vlan_egr, vlan_table, egr_vlan, asked>>

\* Bits from bit b of a bitmap, at most n of them, moved to bit `to'.
Field(bm, b, n, to) == {to + p - b : p \in {q \in bm : q \in b .. b + n - 1}}

\* VLAN.PORT_BITMAP [65:0]
vlan_set_port_bitmap(entry, bm) ==
  (entry \ (0 .. 65)) \cup Field(bm, 0, 32, 0) \cup Field(bm, 32, 32, 32)

\* VLAN.ING_PORT_BITMAP [131:66], over three words
vlan_set_ing_port_bitmap(entry, bm) ==
  (entry \ (66 .. 129))
    \cup Field(bm, 0, 30, 66) \cup Field(bm, 30, 32, 96) \cup Field(bm, 62, 2, 128)

\* VLAN.STG = 2, bit 1 of [140:132]; VALID, bit 205; VLAN_PROFILE_PTR = 0
vlan_set_stg_valid_profile(entry) ==
  (entry \ ((132 .. 140) \cup (232 .. 238))) \cup {133, 205}

\* EGR_VLAN.UT_PORT_BITMAP [161:96]
egr_vlan_set_ut_port_bitmap(entry, bm) ==
  (entry \ (96 .. 161)) \cup Field(bm, 0, 32, 96) \cup Field(bm, 32, 32, 128)

\* EGR_VLAN.PORT_BITMAP [227:162]
egr_vlan_set_port_bitmap(entry, bm) ==
  (entry \ (162 .. 227))
    \cup Field(bm, 0, 30, 162) \cup Field(bm, 30, 32, 192) \cup Field(bm, 62, 2, 224)

\* EGR_VLAN.VALID, bit 0; STG = 2, bit 1 of [9:1]
egr_vlan_set_valid_stg(entry) == (entry \ (0 .. 9)) \cup {0, 2}

\* What the chip makes of an entry.
Members(entry)    == {p \in 0 .. 63 : p \in entry}
IngMembers(entry) == {p \in 0 .. 63 : 66 + p \in entry}
EgrMembers(entry) == {p \in 0 .. 63 : 162 + p \in entry}
Untagged(entry)   == {p \in 0 .. 63 : 96 + p \in entry}

IngEntry(entry, bm) == vlan_set_ing_port_bitmap(vlan_set_port_bitmap(entry, bm), bm)
EgrEntry(entry, bm, ut) == egr_vlan_set_port_bitmap(egr_vlan_set_ut_port_bitmap(entry, ut), bm)
NewIngEntry == vlan_set_stg_valid_profile(IngEntry({}, {}))
NewEgrEntry == EgrEntry(egr_vlan_set_valid_stg({}), {}, {})

Nothing == [members |-> {}, untagged |-> {}, ok |-> FALSE]

VlanTypeOK ==
  /\ vlan_valid \subseteq Vlans
  /\ \A v \in Vlans : /\ vlan_ing_pbm[v] = vlan_egr_pbm[v]
                      /\ vlan_egr_utbm[v] \subseteq vlan_egr_pbm[v]
                      /\ vlan_egr_pbm[v] \subseteq VlanPorts
  /\ asked \in [Vlans -> [members : SUBSET VlanPorts, untagged : SUBSET VlanPorts, ok : BOOLEAN]]

\* The datapath initialisation has put every port in VLAN 1, untagged, by
\* writing the tables itself: the SDK's copies know nothing of it.
VlanInit ==
  /\ vlan_valid = {}
  /\ vlan_ing_pbm = [v \in Vlans |-> {}]
  /\ vlan_egr_pbm = [v \in Vlans |-> {}]
  /\ vlan_egr_utbm = [v \in Vlans |-> {}]
  /\ vlan_ing = [v \in Vlans |-> {}]
  /\ vlan_egr = [v \in Vlans |-> {}]
  /\ vlan_table = [v \in Vlans |-> IF v = 1 THEN IngEntry(NewIngEntry, VlanPorts) ELSE {}]
  /\ egr_vlan = [v \in Vlans |-> IF v = 1 THEN EgrEntry(NewEgrEntry, VlanPorts, VlanPorts) ELSE {}]
  /\ asked = [v \in Vlans |-> Nothing]

\* Bug: the egress entry is not written when the ingress entry is unchanged.
Bug_vlan_write(v, ingEntry, egrEntry, ing, egr) ==
  /\ vlan_ing' = [vlan_ing EXCEPT ![v] = ingEntry]
  /\ vlan_egr' = [vlan_egr EXCEPT ![v] = egrEntry]
  /\ vlan_table' = sbus_mem_write(vlan_table, v, ingEntry, ing)
  /\ egr_vlan' = IF WriteOk(ing) /\ ingEntry # vlan_ing[v]
                 THEN sbus_mem_write(egr_vlan, v, egrEntry, egr) ELSE egr_vlan

\* Both entries are written, the second one only if the first succeeded.
\* ing and egr are how the writes end.
vlan_write(v, ingEntry, egrEntry, ing, egr) ==
  /\ vlan_ing' = [vlan_ing EXCEPT ![v] = ingEntry]
  /\ vlan_egr' = [vlan_egr EXCEPT ![v] = egrEntry]
  /\ vlan_table' = sbus_mem_write(vlan_table, v, ingEntry, ing)
  /\ egr_vlan' = IF WriteOk(ing) THEN sbus_mem_write(egr_vlan, v, egrEntry, egr) ELSE egr_vlan

\* vlan_create(): the VLAN is valid from here on, whether or not it reached
\* the chip.
vlan_create(v, ing, egr) ==
  /\ vlan_ing_pbm' = [vlan_ing_pbm EXCEPT ![v] = {}]
  /\ vlan_egr_pbm' = [vlan_egr_pbm EXCEPT ![v] = {}]
  /\ vlan_egr_utbm' = [vlan_egr_utbm EXCEPT ![v] = {}]
  /\ vlan_valid' = vlan_valid \cup {v}
  /\ vlan_write(v, NewIngEntry, NewEgrEntry, ing, egr)
  /\ asked' = [asked EXCEPT ![v] = [Nothing EXCEPT !.ok = WriteOk(ing) /\ WriteOk(egr)]]

\* vlan_port_add() of a valid VLAN.  A port once untagged stays so.
AddToValid(v, port, tagged, ing, egr) ==
  LET bm == vlan_egr_pbm[v] \cup {port}
      ut == IF tagged THEN vlan_egr_utbm[v] ELSE vlan_egr_utbm[v] \cup {port}
  IN  /\ v \in vlan_valid
      /\ vlan_ing_pbm' = [vlan_ing_pbm EXCEPT ![v] = @ \cup {port}]
      /\ vlan_egr_pbm' = [vlan_egr_pbm EXCEPT ![v] = bm]
      /\ vlan_egr_utbm' = [vlan_egr_utbm EXCEPT ![v] = ut]
      /\ vlan_write(v, IngEntry(vlan_ing[v], vlan_ing_pbm'[v]), EgrEntry(vlan_egr[v], bm, ut), ing, egr)
      /\ asked' = [asked EXCEPT ![v] = [members |-> @.members \cup {port},
                                        untagged |-> IF tagged THEN @.untagged ELSE @.untagged \cup {port},
                                        ok |-> WriteOk(ing) /\ WriteOk(egr)]]
      /\ UNCHANGED vlan_valid

\* vlan_port_add() of a VLAN the SDK does not know: it is created first.  If
\* that fails the call ends there, and the VLAN is valid next time; if it
\* succeeds both entries are written again, and ing and egr say how that ends.
AddToNew(v, port, tagged, ing, egr) ==
  /\ v \notin vlan_valid
  /\ \/ /\ ~(WriteOk(ing) /\ WriteOk(egr))
        /\ vlan_create(v, ing, egr)
     \/ /\ LET ut == IF tagged THEN {} ELSE {port}
           IN  /\ vlan_ing_pbm' = [vlan_ing_pbm EXCEPT ![v] = {port}]
               /\ vlan_egr_pbm' = [vlan_egr_pbm EXCEPT ![v] = {port}]
               /\ vlan_egr_utbm' = [vlan_egr_utbm EXCEPT ![v] = ut]
               /\ vlan_valid' = vlan_valid \cup {v}
               /\ vlan_ing' = [vlan_ing EXCEPT ![v] = IngEntry(NewIngEntry, {port})]
               /\ vlan_egr' = [vlan_egr EXCEPT ![v] = EgrEntry(NewEgrEntry, {port}, ut)]
               /\ vlan_table' = [vlan_table EXCEPT ![v] =
                    IF ing = "lost" THEN NewIngEntry ELSE IngEntry(NewIngEntry, {port})]
               /\ egr_vlan' = [egr_vlan EXCEPT ![v] =
                    IF WriteOk(ing) /\ egr # "lost" THEN EgrEntry(NewEgrEntry, {port}, ut) ELSE NewEgrEntry]
               /\ asked' = [asked EXCEPT ![v] = [members |-> {port}, untagged |-> ut,
                                                 ok |-> WriteOk(ing) /\ WriteOk(egr)]]

vlan_port_add(v, port, tagged, ing, egr) ==
  \/ AddToValid(v, port, tagged, ing, egr)
  \/ AddToNew(v, port, tagged, ing, egr)

\* Both writes are made and neither result is looked at.
vlan_destroy(v, ing, egr) ==
  /\ vlan_ing_pbm' = [vlan_ing_pbm EXCEPT ![v] = {}]
  /\ vlan_egr_pbm' = [vlan_egr_pbm EXCEPT ![v] = {}]
  /\ vlan_egr_utbm' = [vlan_egr_utbm EXCEPT ![v] = {}]
  /\ vlan_valid' = vlan_valid \ {v}
  /\ vlan_ing' = [vlan_ing EXCEPT ![v] = {}]
  /\ vlan_egr' = [vlan_egr EXCEPT ![v] = {}]
  /\ vlan_table' = sbus_mem_write(vlan_table, v, {}, ing)
  /\ egr_vlan' = sbus_mem_write(egr_vlan, v, {}, egr)
  /\ asked' = [asked EXCEPT ![v] = Nothing]

(***************************************************************************)
(* Properties                                                              *)
(***************************************************************************)

\* When a create or an add returns 0 the chip's two tables agree with each
\* other and with everything asked since the VLAN was created: the calls
\* that failed before it are made good by the one that succeeds (vlan.c,
\* vlan_port_add() writes both entries whole).  It holds of VLAN 1 as well,
\* which the datapath initialisation had filled behind the SDK's back.
VlanExact ==
  \A v \in Vlans : asked[v].ok =>
    /\ Members(vlan_table[v]) = asked[v].members
    /\ IngMembers(vlan_table[v]) = asked[v].members
    /\ EgrMembers(egr_vlan[v]) = asked[v].members
    /\ Untagged(egr_vlan[v]) = asked[v].untagged
    /\ {205, 133} \subseteq vlan_table[v] /\ {0, 2} \subseteq egr_vlan[v]

\* Whatever fails, no port receives untagged what it does not receive at
\* all, and no bit of an entry lies outside the fields the SDK fills: the
\* packing of one field never spills into its neighbour.
FieldsApart ==
  \A v \in Vlans :
    /\ Untagged(egr_vlan[v]) \subseteq EgrMembers(egr_vlan[v])
    /\ Members(vlan_table[v]) = IngMembers(vlan_table[v])
    /\ vlan_table[v] \subseteq (0 .. 129) \cup {133, 205}
    /\ egr_vlan[v] \subseteq {0, 2} \cup (96 .. 225)

\* Both entries of a VLAN after any calls with failing writes (vlan.c): exact
\* when the last call returned 0, and well formed even when it did not.
VlanSound == VlanTypeOK /\ VlanExact /\ FieldsApart
=============================================================================

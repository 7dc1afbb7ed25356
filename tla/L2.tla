--------------------------------- MODULE L2 ---------------------------------
(***************************************************************************)
(* The L2_ENTRY hash table as the SDK writes it (sdk/src/l2.c): an entry's *)
(* home is its key modulo the table size, and both the add and the delete  *)
(* walk up to six slots from there, moving on only when a write fails.     *)
(*                                                                         *)
(* A MAC address is a number; only its lowest bit reaches the index.       *)
(***************************************************************************)
EXTENDS Asic

CONSTANT Vids \* VLAN ids

VARIABLE l2_entry \* hardware: L2_ENTRY

L2_ENTRY_ENTRIES == 131072
MaxProbe == 6

\* ((mac << 16) | (vid << 4)) % 2^17: the terms above bit 16 vanish.
l2_index(mac, vid) ==
  ((mac % 2) * 65536 + (vid % 4096) * 16) % L2_ENTRY_ENTRIES

ProbeSlot(mac, vid, j) == (l2_index(mac, vid) + j) % L2_ENTRY_ENTRIES

\* The slots some address can reach; the rest of the table is never touched.
L2Slots == {ProbeSlot(m, v, j) : m \in Macs, v \in Vids, j \in 0 .. MaxProbe - 1}

NoL2 == [mac |-> 0, vid |-> 0, port |-> 0]

L2TypeOK ==
  l2_entry \in [L2Slots -> [mac : Macs, vid : Vids, port : Ports] \cup {NoL2}]

L2Init == l2_entry = [s \in L2Slots |-> NoL2]

\* One run of the probe loop writing v: k probes fail, those in late having
\* reached the table all the same, and probe k succeeds (none if k = MaxProbe).
ProbeLoop(mac, vid, v, k, late) ==
  /\ late \subseteq 0 .. k - 1
  /\ late # {} => "late" \in Outcomes
  /\ late # 0 .. k - 1 => "lost" \in Outcomes
  /\ LET hit == {ProbeSlot(mac, vid, j) : j \in late \cup ({k} \cap 0 .. MaxProbe - 1)}
     IN  l2_entry' = [s \in L2Slots |-> IF s \in hit THEN v ELSE l2_entry[s]]

\* No slot is read first: whatever the home slot holds is overwritten.
l2_addr_add(mac, vid, port) ==
  \E k \in 0 .. MaxProbe : \E late \in SUBSET (0 .. k - 1) :
    ProbeLoop(mac, vid, [mac |-> mac, vid |-> vid, port |-> port], k, late)

\* Nor here: the home slot is cleared whatever address it holds.
l2_addr_delete(mac, vid) ==
  \E k \in 0 .. MaxProbe : \E late \in SUBSET (0 .. k - 1) :
    ProbeLoop(mac, vid, NoL2, k, late)

\* The probes at which l2_addr_get() would recognise the address.
l2_addr_get(mac, vid) ==
  {j \in 0 .. MaxProbe - 1 :
     LET e == l2_entry[ProbeSlot(mac, vid, j)]
     IN  e # NoL2 /\ e.mac = mac /\ e.vid = vid}
=============================================================================

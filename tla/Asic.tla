-------------------------------- MODULE Asic --------------------------------
(***************************************************************************)
(* What the SDK's table modules share: the names that appear in hardware   *)
(* tables, and what a caller of the table-write primitive (sdk/src/sbus.c, *)
(* sbus_mem_write and sbus_reg_write) can observe.  A write goes through   *)
(* the kernel's S-Channel operation, which ends in one of three ways:      *)
(*   "ok"   - 0 is returned and the table holds the new value;             *)
(*   "lost" - an error is returned and the table is as it was (the ioctl   *)
(*            was interrupted, the message was NAKed, ...);                *)
(*   "late" - an error is returned although the table took the value (the  *)
(*            50 ms poll ran out, or the response was an error header).    *)
(* Outcomes is the set of endings an instance allows: {"ok"} is a chip     *)
(* that never fails.                                                       *)
(***************************************************************************)
EXTENDS Naturals

CONSTANTS
  Ports,    \* the switch ports, positive numbers
  Macs,     \* the neighbours' MAC addresses, positive numbers
  Outcomes  \* the ways a hardware write may end

ASSUME AsicAssumption ==
  /\ Ports \subseteq Nat \ {0}
  /\ Macs \subseteq Nat \ {0}
  /\ Outcomes \subseteq {"ok", "lost", "late"}
  /\ "ok" \in Outcomes

\* The content of a hardware table after a write of v at index i that ended in o.
sbus_mem_write(table, i, v, o) ==
  IF o = "lost" THEN table ELSE [table EXCEPT ![i] = v]

\* The value the caller tests: 0 or an error.
WriteOk(o) == o = "ok"
=============================================================================

------------------------------- MODULE MCChip -------------------------------
(***************************************************************************)
(* The scripts of the instance: those of etc/nos as soc.c sees them (rc.soc *)
(* sets registers it knows, of rc.datapath_0 it knows one line), a script  *)
(* that loads itself and another, and one that takes the port blocks off   *)
(* the bus and initialises the chip anew.                                  *)
(***************************************************************************)
EXTENDS Chip, TLC

Op(op, arg, val) == [op |-> op, arg |-> arg, val |-> val]

Shipped ==
  "rc.soc" :> <<Op("setreg", "IFP_METER_PARITY_CONTROL", 0), Op("rcload", "rc.missing", 0)>>
  @@ "rc.datapath_0" :> <<Op("other", "", 0), Op("setreg", "SOC_RTAG7_HASH_SEED_A", 42)>>

Looping == "rc.soc" :> <<Op("rcload", "rc.soc", 0)>>

Again == "rc.datapath_0" :> <<Op("m", "link40g", 0), Op("init_all", "", 0)>>

Scripts == {Shipped, Looping, Again}

\* A failing access and a second bind are not combined: the driver's reset puts
\* the tables, all that an access can damage, back to what they were.
OneTrouble == binds > 1 => faults = 0

OneTroubleSpec == Init /\ [][Next /\ OneTrouble']_vars /\ WF_vars(SwitchdStep)
=============================================================================

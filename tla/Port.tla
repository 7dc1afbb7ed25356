-------------------------------- MODULE Port --------------------------------
(***************************************************************************)
(* Port enable (sdk/src/port.c): 52 ports share 16 XLPORT blocks, each of  *)
(* which has one PORT_ENABLE register with a bit per lane.  The SDK never  *)
(* reads the register back: it keeps a shadow and writes the whole of it.  *)
(***************************************************************************)
EXTENDS Asic

VARIABLES
  xlport_enable_shadow, \* block -> the lanes the SDK believes enabled
  port_enable,          \* hardware: XLPORT PORT_ENABLE, block -> lanes
  serdes_called         \* ports for which serdes_init_10g has been called

portVars == <<xlport_enable_shadow, port_enable, serdes_called>>

SwitchPorts == 1 .. 52
XlBlocks    == 0 .. 15
Lanes       == 0 .. 3

permute_20_23 == [o \in Lanes |-> IF o % 2 = 0 THEN o + 1 ELSE o - 1]

\* xe_to_block_lane(): four ports per block up to xe47, then one each.
BlockOf(port) == LET xe == port - 1 IN IF xe <= 47 THEN xe \div 4 ELSE xe - 36

LaneOf(port) ==
  LET xe == port - 1
  IN  CASE xe \in 20 .. 27 -> permute_20_23[xe % 4]
        [] xe >= 48        -> 0
        [] OTHER           -> xe % 4

PortTypeOK ==
  /\ xlport_enable_shadow \in [XlBlocks -> SUBSET Lanes]
  /\ port_enable \in [XlBlocks -> SUBSET Lanes]
  /\ serdes_called \subseteq SwitchPorts

\* The registers once main() has enabled the configured ports one by one.
EnabledLanes(ports) ==
  [b \in XlBlocks |-> {LaneOf(p) : p \in {q \in ports : BlockOf(q) = b}}]

\* The shadow is updated first and kept when the write fails.
port_enable_set(port, enable, o) ==
  \/ /\ port \notin SwitchPorts
     /\ UNCHANGED portVars
  \/ /\ port \in SwitchPorts
     /\ LET b   == BlockOf(port)
            val == IF enable THEN xlport_enable_shadow[b] \cup {LaneOf(port)}
                             ELSE xlport_enable_shadow[b] \ {LaneOf(port)}
        IN  /\ xlport_enable_shadow' = [xlport_enable_shadow EXCEPT ![b] = val]
            /\ port_enable' = sbus_mem_write(port_enable, b, val, o)
     /\ serdes_called' = IF enable /\ WriteOk(o) THEN serdes_called \cup {port}
                                                 ELSE serdes_called

\* What the hardware register says of a port.
HwEnabled(port) == LaneOf(port) \in port_enable[BlockOf(port)]
=============================================================================

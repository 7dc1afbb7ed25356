------------------------------- MODULE Serdes -------------------------------
(***************************************************************************)
(* Bringing up a 10G lane (sdk/src/serdes.c): bcm56846_serdes_init_10g()   *)
(* initialises the port's WARPcore once (PLL stopped, firmware downloaded  *)
(* to its 8051, PLL started, 8051 started again), then configures the      *)
(* port's lane register by register.  port_enable_set() calls it each time *)
(* a port is enabled, and ignores what it returns.                         *)
(*                                                                         *)
(* One thread runs; an access (wc_read(), wc_write()) is one step, as      *)
(* module Miim justifies, and may fail.  Hardly any result is looked at:   *)
(* after a read that failed, `val' holds what was read before it, and a    *)
(* read-modify-write then stores another register's bits.                  *)
(*                                                                         *)
(* A register of a lane is known by whether it holds the field the code    *)
(* wants there (conf); what a stale `val' leaves in its other bits is seen *)
(* only where these belong to other lanes.                                 *)
(***************************************************************************)
EXTENDS Naturals, Sequences

CONSTANTS
  SerdesPorts, \* the ports that are enabled again and again
  Words,       \* length of the firmware, in words
  MaxFaults    \* accesses that fail

ASSUME SerdesAssumption ==
  SerdesPorts \subseteq 1 .. 52 /\ (\E p \in SerdesPorts : p \notin {52}) /\ Words \in Nat \ {0} /\ MaxFaults \in Nat

\* port_to_phy_bus()
PhyAddr == <<1, 5, 9, 13, 17, 21, 31>>
PhyAddr2 == <<1, 9, 13, 17, 21, 31>>

port_to_phy_bus(port) ==
  LET xe == port - 1
      b  == xe \div 4
  IN  CASE port = 49 -> [bus |-> 1, phy |-> 13, lane |-> 0]
        [] port = 50 -> [bus |-> 1, phy |-> 17, lane |-> 0]
        [] port = 51 -> [bus |-> 1, phy |-> 31, lane |-> 0]
        [] port = 52 -> [bus |-> 1, phy |-> 31, lane |-> 1]
        [] OTHER     -> IF b < 7 THEN [bus |-> 0, phy |-> PhyAddr[b + 1], lane |-> xe % 4]
                                 ELSE [bus |-> 2, phy |-> PhyAddr2[b - 6], lane |-> xe % 4]

Wc(port) == <<port_to_phy_bus(port).bus, port_to_phy_bus(port).phy>>
Lane(port) == port_to_phy_bus(port).lane
Wcs == {Wc(p) : p \in SerdesPorts}
Lanes == {Lane(p) : p \in SerdesPorts}
Retimer(port) == port \in 49 .. 52 \* port_to_retimer_bus()

VARIABLES
  phy_inited,  \* the WARPcores wc_phy_init() has run for
  \* the hardware
  pll,         \* WARPcore -> "running" or "stopped" (START_SEQUENCER)
  uc,          \* WARPcore -> "running" or "halted": its 8051
  tmr,         \* WARPcore -> TMR_EN
  ram,         \* WARPcore -> words of firmware in its RAM
  garbled,     \* WARPcore -> is that another firmware, or one with a word lost?
  conf,        \* WARPcore, lane -> the registers that hold the wanted field
  held,        \* WARPcore, lane -> is the lane held in reset (MISC6)?
  unmuted,     \* the ports whose retimer is unmuted
  \* the call under way
  port, pc, n,
  lost,        \* what went wrong in this call: <<"r" or "w", step>> for an access
               \* that failed, <<"err", step>> for what the WARPcore reported
  phyLost,     \* WARPcore -> what went wrong in its wc_phy_init()
  faults

hwVars == <<pll, uc, tmr, ram, garbled, conf, held, unmuted>>
vars == <<phy_inited, hwVars, port, pc, n, lost, phyLost, faults>>

W == Wc(port)
L == Lane(port)

\* The registers of a lane in the order they are configured: is the value read
\* back before, and is the write left out when that read fails?
Reg(name, how) == [name |-> name, how |-> how]

\* "RX66_SCW" stands for the eight sync words and masks; "HOLD" and "RELEASE"
\* are MISC6.
LaneProgram ==
  <<Reg("HOLD", "loose"), Reg("FW_MODE", "loose"), Reg("FX100_CONTROL1", "strict"),
    Reg("FX100_CONTROL3", "strict"), Reg("CL49_CTRL1", "strict"), Reg("MISC1", "strict"),
    Reg("MISC3", "strict"), Reg("RELEASE", "loose"), Reg("RX66_CTRL", "strict"),
    Reg("RX66_SCW", "plain"), Reg("MISC2", "strict"), Reg("CONTROL1000X1", "strict"),
    Reg("CONTROL1000X3", "strict")>>

Wanted == {LaneProgram[i].name : i \in 1 .. Len(LaneProgram)} \ {"HOLD", "RELEASE"}

PhySteps == {"id", "stop_pll", "prbs", "pll_mode", "version", "uc_halt", "uc_clear", "uc_clear_status", "uc_init", "uc_init_done",
             "uc_timer", "uc_write", "uc_words", "uc_stop", "uc_status", "uc_start", "start_pll",
             "uc_timer2", "uc_restart"}

TypeOK ==
  /\ phy_inited \subseteq Wcs
  /\ pll \in [Wcs -> {"running", "stopped"}] /\ uc \in [Wcs -> {"running", "halted"}]
  /\ tmr \in [Wcs -> BOOLEAN] /\ ram \in [Wcs -> 0 .. Words] /\ garbled \in [Wcs -> BOOLEAN]
  /\ conf \in [Wcs \X Lanes -> SUBSET Wanted]
  /\ held \in [Wcs \X Lanes -> BOOLEAN]
  /\ unmuted \subseteq SerdesPorts
  /\ port \in SerdesPorts
  /\ pc \in {"idle", "lane", "retimer", "done"} \cup PhySteps
  /\ n \in 1 .. Words + Len(LaneProgram)
  /\ lost \subseteq {"r", "w", "err"} \X (PhySteps \cup Wanted \cup {"HOLD", "RELEASE", "retimer"})
  /\ phyLost \in [Wcs -> SUBSET ({"r", "w", "err"} \X PhySteps)]
  /\ faults \in 0 .. MaxFaults

\* A cold WARPcore has neither firmware nor a running PLL; after a warm boot the
\* PLL runs and the firmware may be there.
Init ==
  /\ phy_inited = {}
  /\ \E warm \in BOOLEAN, loaded \in {0, Words} :
       /\ pll = [w \in Wcs |-> IF warm THEN "running" ELSE "stopped"]
       /\ uc = [w \in Wcs |-> IF warm THEN "running" ELSE "halted"]
       /\ ram = [w \in Wcs |-> IF warm THEN loaded ELSE 0]
       /\ garbled = [w \in Wcs |-> warm /\ loaded = 0] \* (an older firmware)
       /\ tmr = [w \in Wcs |-> warm]
  /\ conf = [wl \in Wcs \X Lanes |-> {}]
  /\ held = [wl \in Wcs \X Lanes |-> FALSE]
  /\ unmuted = {}
  /\ port \in SerdesPorts /\ pc = "idle" /\ n = 1
  /\ lost = {}
  /\ phyLost = [w \in Wcs |-> {}]
  /\ faults = 0

-----------------------------------------------------------------------------
(* Accesses                                                                *)

\* A read that ends in r, then a write that ends in w: what failed is noted, and
\* after a read that failed any old `val' is worked on.  err: the WARPcore itself
\* reports an error, or not what is waited for.
Reported(r, w, err, reg) ==
  LET bad == (IF r THEN {} ELSE {<<"r", reg>>}) \cup (IF w THEN {} ELSE {<<"w", reg>>})
               \cup (IF err THEN {<<"err", reg>>} ELSE {})
  IN  /\ faults + (IF r THEN 0 ELSE 1) + (IF w THEN 0 ELSE 1) <= MaxFaults
      /\ faults' = faults + (IF r THEN 0 ELSE 1) + (IF w THEN 0 ELSE 1)
      /\ lost' = lost \cup bad
Access(r, w, reg) == Reported(r, w, FALSE, reg)

Goto(l) == pc' = l /\ UNCHANGED <<phy_inited, port, phyLost>>

\* Bug: there is nothing to do once the WARPcore is initialised.
Bug_serdes_init_10g(p) ==
  /\ pc \in {"idle", "done"}
  /\ port' = p
  /\ pc' = IF Wc(p) \in phy_inited THEN "done" ELSE "id"
  /\ n' = 1 /\ lost' = {}
  /\ UNCHANGED <<phy_inited, hwVars, phyLost, faults>>

\* bcm56846_serdes_init_10g(): the WARPcore first, unless that has been done
serdes_init_10g(p) ==
  /\ pc \in {"idle", "done"}
  /\ port' = p
  /\ pc' = IF Wc(p) \in phy_inited THEN "lane" ELSE "id"
  /\ n' = 1 /\ lost' = {}
  /\ UNCHANGED <<phy_inited, hwVars, phyLost, faults>>

-----------------------------------------------------------------------------
(* wc_phy_init()                                                           *)

ReadId ==
  /\ pc = "id"
  /\ \E r \in BOOLEAN : Access(r, TRUE, "id")
  /\ Goto("stop_pll")
  /\ UNCHANGED <<hwVars, n>>

\* Bug: the PLL is left running.
Bug_StopPll ==
  /\ pc = "stop_pll"
  /\ Access(TRUE, TRUE, "stop_pll")
  /\ Goto("prbs")
  /\ UNCHANGED <<hwVars, n>>

\* The sequencer is stopped if bit 13 is set in `val', whatever that holds.
StopPll ==
  /\ pc = "stop_pll"
  /\ \E r, w, bit13 \in BOOLEAN :
       /\ r => (bit13 <=> pll[W] = "running")
       /\ ~bit13 => w
       /\ Access(r, w, "stop_pll")
       /\ pll' = IF bit13 /\ w THEN [pll EXCEPT ![W] = "stopped"] ELSE pll
  /\ Goto("prbs")
  /\ UNCHANGED <<uc, tmr, ram, garbled, conf, held, unmuted, n>>

DisablePrbs ==
  /\ pc = "prbs"
  /\ \E w \in BOOLEAN : Access(TRUE, w, "prbs")
  /\ Goto("pll_mode")
  /\ UNCHANGED <<hwVars, n>>

\* MISC1 of lane 0, before any lane is configured
SetPllMode ==
  /\ pc = "pll_mode"
  /\ \E r, w \in BOOLEAN : Access(r, w, "pll_mode")
  /\ Goto("version")
  /\ UNCHANGED <<hwVars, n>>

\* Only the version that is to be downloaded is left in place.
CheckVersion ==
  /\ pc = "version"
  /\ \E r \in BOOLEAN :
       /\ Access(r, TRUE, "version")
       /\ Goto(IF r /\ uc[W] = "running" /\ ram[W] = Words /\ ~garbled[W]
                 THEN "start_pll" ELSE "uc_halt")
  /\ UNCHANGED <<hwVars, n>>

\* wc_firmware_download(), step 1: STOP, then no command at all, then the status
\* of the last download cleared.  Either of the first two halts the 8051.
UcHalt ==
  /\ pc = "uc_halt"
  /\ \E w \in BOOLEAN :
       /\ Access(TRUE, w, "uc_halt")
       /\ uc' = IF w THEN [uc EXCEPT ![W] = "halted"] ELSE uc
  /\ Goto("uc_clear")
  /\ UNCHANGED <<pll, tmr, ram, garbled, conf, held, unmuted, n>>

UcClear ==
  /\ pc = "uc_clear"
  /\ \E w \in BOOLEAN :
       /\ Access(TRUE, w, "uc_clear")
       /\ uc' = IF w THEN [uc EXCEPT ![W] = "halted"] ELSE uc
  /\ Goto("uc_clear_status")
  /\ UNCHANGED <<pll, tmr, ram, garbled, conf, held, unmuted, n>>

UcClearStatus ==
  /\ pc = "uc_clear_status"
  /\ \E w \in BOOLEAN : Access(TRUE, w, "uc_clear_status")
  /\ Goto("uc_init")
  /\ UNCHANGED <<hwVars, n>>

\* Steps 2 and 3
UcInit ==
  /\ pc = "uc_init"
  /\ \E w \in BOOLEAN :
       /\ Access(TRUE, w, "uc_init")
       /\ ram' = IF w THEN [ram EXCEPT ![W] = 0] ELSE ram
       /\ garbled' = IF w THEN [garbled EXCEPT ![W] = FALSE] ELSE garbled
  /\ n' = 1
  /\ Goto("uc_init_done")
  /\ UNCHANGED <<pll, uc, tmr, conf, held, unmuted>>

\* INIT_DONE is seen, or the poll runs out and the download is given up: the
\* reads failed, or the WARPcore does not get there.  One that was not told to
\* initialise its RAM shows at most the INIT_DONE of an earlier download, if
\* clearing that failed too.
UcInitDone ==
  /\ pc = "uc_init_done"
  /\ \E r, seen \in BOOLEAN :
       /\ seen => r /\ {<<"w", "uc_init">>, <<"w", "uc_clear_status">>} \cap lost # {<<"w", "uc_init">>}
       /\ Reported(r, TRUE, ~seen, "uc_init_done")
       /\ Goto(IF seen THEN "uc_timer" ELSE "start_pll")
  /\ UNCHANGED <<hwVars, n>>

\* Steps 4 to 6
UcTimer ==
  /\ pc = "uc_timer"
  /\ \E r, w \in BOOLEAN :
       /\ Access(r, w, "uc_timer")
       /\ tmr' = IF w THEN [tmr EXCEPT ![W] = TRUE] ELSE tmr
  /\ Goto("uc_write")
  /\ UNCHANGED <<pll, uc, ram, garbled, conf, held, unmuted, n>>

\* (length, address and WRITE|RUN: the words land if none of them is lost)
UcWrite ==
  /\ pc = "uc_write"
  /\ \E w \in BOOLEAN : Access(TRUE, w, "uc_write")
  /\ Goto("uc_words")
  /\ UNCHANGED <<hwVars, n>>

\* Step 7: each word goes to the next address, so a lost one shifts the rest.
UcWord ==
  /\ pc = "uc_words"
  /\ \E w \in BOOLEAN :
       LET lands == w /\ <<"w", "uc_write">> \notin lost
       IN  /\ Access(TRUE, w, "uc_words")
           /\ ram' = IF lands /\ ram[W] < Words THEN [ram EXCEPT ![W] = @ + 1] ELSE ram
           /\ garbled' = IF lands THEN garbled ELSE [garbled EXCEPT ![W] = TRUE]
  /\ n' = IF n = Words THEN 1 ELSE n + 1
  /\ Goto(IF n = Words THEN "uc_stop" ELSE "uc_words")
  /\ UNCHANGED <<pll, uc, tmr, conf, held, unmuted>>

\* Steps 8 and 9
UcStop ==
  /\ pc = "uc_stop"
  /\ \E w \in BOOLEAN : Access(TRUE, w, "uc_stop")
  /\ Goto("uc_status")
  /\ UNCHANGED <<hwVars, n>>

\* ERR bits in what was read, or in an older `val', end it: the firmware is
\* refused with every access in order, or taken for refused.
UcStatus ==
  /\ pc = "uc_status"
  /\ \E r, err \in BOOLEAN :
       /\ Reported(r, TRUE, err, "uc_status")
       /\ garbled' = [garbled EXCEPT ![W] = @ \/ err]
       /\ Goto(IF err THEN "start_pll" ELSE "uc_start")
  /\ UNCHANGED <<pll, uc, tmr, ram, conf, held, unmuted, n>>

\* Steps 10 to 12: the CRC check is switched off and the 8051 started, with
\* either of the two writes lost or none.
UcStart ==
  /\ pc = "uc_start"
  /\ \E w, starts \in BOOLEAN :
       /\ w => starts
       /\ Access(TRUE, w, "uc_start")
       /\ uc' = IF starts THEN [uc EXCEPT ![W] = "running"] ELSE uc
  /\ Goto("start_pll")
  /\ UNCHANGED <<pll, tmr, ram, garbled, conf, held, unmuted, n>>

\* Starting the sequencer resets the 8051's registers; whether it locks is only
\* logged.
StartPll ==
  /\ pc = "start_pll"
  /\ \E r, w \in BOOLEAN :
       /\ Access(r, w, "start_pll")
       /\ pll' = IF w THEN [pll EXCEPT ![W] = "running"] ELSE pll
       /\ uc' = IF w THEN [uc EXCEPT ![W] = "halted"] ELSE uc
       /\ tmr' = IF w THEN [tmr EXCEPT ![W] = FALSE] ELSE tmr
  /\ Goto("uc_timer2")
  /\ UNCHANGED <<ram, garbled, conf, held, unmuted, n>>

UcTimer2 ==
  /\ pc = "uc_timer2"
  /\ \E r, w \in BOOLEAN :
       /\ Access(r, w, "uc_timer2")
       /\ tmr' = IF w THEN [tmr EXCEPT ![W] = TRUE] ELSE tmr
  /\ Goto("uc_restart")
  /\ UNCHANGED <<pll, uc, ram, garbled, conf, held, unmuted, n>>

\* The 8051 is started again; whatever failed, the WARPcore counts as done.
UcRestart ==
  /\ pc = "uc_restart"
  /\ \E w \in BOOLEAN :
       /\ w \/ faults < MaxFaults
       /\ faults' = IF w THEN faults ELSE faults + 1
       /\ phyLost' = [phyLost EXCEPT ![W] = IF w THEN lost ELSE lost \cup {<<"w", "uc_restart">>}]
       /\ uc' = IF w THEN [uc EXCEPT ![W] = "running"] ELSE uc
  /\ phy_inited' = phy_inited \cup {W}
  /\ pc' = "lane" /\ n' = 1 /\ lost' = {}
  /\ UNCHANGED <<pll, tmr, ram, garbled, conf, held, unmuted, port>>

wc_phy_init ==
  \/ ReadId \/ StopPll \/ DisablePrbs \/ SetPllMode \/ CheckVersion
  \/ UcHalt \/ UcClear \/ UcClearStatus \/ UcInit \/ UcInitDone \/ UcTimer
  \/ UcWrite \/ UcWord \/ UcStop \/ UcStatus \/ UcStart \/ StartPll \/ UcTimer2 \/ UcRestart

-----------------------------------------------------------------------------
(* The lane                                                                *)

\* The firmware mode of all lanes is in one register of lane 0's bank: bits from
\* elsewhere spoil the other lanes' nibbles.
SetField(reg, alien) ==
  LET spoilt == IF alien /\ reg = "FW_MODE" THEN {W} \X Lanes ELSE {}
  IN  /\ held' = CASE reg = "HOLD"    -> [held EXCEPT ![<<W, L>>] = TRUE]
                   [] reg = "RELEASE" -> [held EXCEPT ![<<W, L>>] = FALSE]
                   [] OTHER           -> held
      /\ conf' = [wl \in DOMAIN conf |->
           IF wl = <<W, L>> THEN conf[wl] \cup ({reg} \cap Wanted)
                            ELSE IF wl \in spoilt THEN conf[wl] \ {reg} ELSE conf[wl]]

\* One register: read, then written unless the read failed and is looked at.
ConfigureLane ==
  /\ pc = "lane"
  /\ \E r, w \in BOOLEAN :
       LET reg == LaneProgram[n]
       IN  /\ reg.how = "plain" => r
           /\ reg.how = "strict" /\ ~r => w
           /\ Access(r, w, reg.name)
           /\ IF w /\ ~(reg.how = "strict" /\ ~r)
                THEN SetField(reg.name, ~r)
                ELSE UNCHANGED <<conf, held>>
  /\ n' = IF n = Len(LaneProgram) THEN 1 ELSE n + 1
  /\ Goto(IF n < Len(LaneProgram) THEN "lane" ELSE IF Retimer(port) THEN "retimer" ELSE "done")
  /\ UNCHANGED <<pll, uc, tmr, ram, garbled, unmuted>>

\* retimer_unmute(), then readings for the log
retimer_unmute ==
  /\ pc = "retimer"
  /\ \E w \in BOOLEAN :
       /\ Access(TRUE, w, "retimer")
       /\ unmuted' = IF w THEN unmuted \cup {port} ELSE unmuted
  /\ Goto("done")
  /\ UNCHANGED <<pll, uc, tmr, ram, garbled, conf, held, n>>

Next == \/ \E p \in SerdesPorts : serdes_init_10g(p)
        \/ wc_phy_init \/ ConfigureLane \/ retimer_unmute

Spec == Init /\ [][Next]_vars

-----------------------------------------------------------------------------
(* Properties                                                              *)

\* When serdes_init_10g() returns, the lane is out of the reset it was put in,
\* unless the very write that releases it was lost: no failing read, stale
\* `val' or skipped step in between leaves it held.
ResetReleased ==
  pc \in {"retimer", "done"} /\ held[<<W, L>>] => <<"w", "RELEASE">> \in lost

\* Enabling a port again repairs what an earlier, failing bring-up left undone
\* on its lane, and what the failing bring-up of another lane of the WARPcore did
\* to it: after a call in which nothing failed, every register holds its field,
\* the lane is not held and the retimer of an SFP+ port is unmuted.
RetryConfigures ==
  pc = "done" /\ lost = {} =>
    /\ conf[<<W, L>>] = Wanted
    /\ ~held[<<W, L>>]
    /\ Retimer(port) => port \in unmuted

\* Of what is noted, nothing is an access that failed.
NoneFailed(notes) == \A x \in notes : x[1] = "err"

\* "Must be called with PLL sequencer STOPPED" (wc_firmware_download()): it is,
\* unless the access that stops it failed.  Once wc_phy_init() has run with no
\* access failing, from a cold or a warm boot, the PLL and the 8051 run with its
\* timers on, even when the WARPcore refused the firmware and the download was
\* given up half way; and if it reported no error the 8051 runs the whole
\* firmware.  No later bring-up of another port takes that away, and no port is
\* brought up on a WARPcore wc_phy_init() has not run for, same address on
\* another bus or not.
FirmwareRuns ==
  /\ pc = "lane" => W \in phy_inited
  /\ pc = "uc_words" =>
       pll[W] = "stopped" \/ {<<"r", "stop_pll">>, <<"w", "stop_pll">>} \cap lost # {}
  /\ \A w \in phy_inited :
       /\ NoneFailed(phyLost[w]) => pll[w] = "running" /\ uc[w] = "running" /\ tmr[w]
       /\ phyLost[w] = {} => ram[w] = Words /\ ~garbled[w]

\* What bcm56846_serdes_init_10g() leaves of the port's lane, when accesses
\* failed and when they did not.
LaneComesUp == ResetReleased /\ RetryConfigures
=============================================================================

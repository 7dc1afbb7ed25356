-------------------------------- MODULE Miim --------------------------------
(***************************************************************************)
(* Access to the WARPcore SerDes through the CMIC's MIIM engine            *)
(* (sdk/src/serdes.c): a MIIM transaction is a handful of writes to shared *)
(* CMIC registers, a trigger and a poll; a WARPcore register is reached by *)
(* selecting lane and block in the PHY first, so that one wc_read() or     *)
(* wc_write() is four transactions and one reading of the link, by way of  *)
(* the Clause 45 registers 13 and 14, is fifteen.  Nothing in the SDK      *)
(* keeps two threads from mixing their transactions.                       *)
(*                                                                         *)
(* The PHY is the one that two ports share, as lanes 0 and 1.  CL22        *)
(* registers keep their role as a name: "BLK" is 0x1f, "LANE" is 0x1e,     *)
(* "REG" is 0x10 + offset, "CL45_CTRL" is 13 and "CL45_DATA" is 14.  The   *)
(* engine and the PHY are external.                                        *)
(***************************************************************************)
EXTENDS Naturals, Sequences

CONSTANTS
  Threads,     \* the threads that call the SDK
  Blocks,      \* blocks of WARPcore registers, other than AER and Zero
  Values,      \* contents of a register
  Calls,       \* thread -> the operations it calls
  Nobody,      \* no access is under way
  MaxTimeouts, \* polls of the engine that run out
  MaxFlaps     \* changes of the lines

AER  == "aer"    \* WC_AER_BROADCAST: register 0x1e selects the lane
Zero == "zero"   \* block 0
LaneSet == {"0", "1"}

ASSUME MiimAssumption ==
  /\ Calls \in [Threads -> SUBSET {"wc_read", "wc_write", "link_get"}]
  /\ {AER, Zero} \cap Blocks = {}
  /\ {MaxTimeouts, MaxFlaps} \subseteq Nat

VARIABLES
  op,       \* thread -> the access under way, or the last one; Nobody at first
  k,        \* thread -> which transaction of it
  pc,       \* thread -> where it is in miim_write() or miim_read()
  ret,      \* thread -> how the last access ended
  got,      \* thread -> the value it has read
  failed,   \* thread -> has a transaction of the access timed out?
  \* CMIC registers
  address,  \* CMIC_MIIM_ADDRESS
  param,    \* CMIC_MIIM_PARAM: the data
  done,     \* bit 18 of CMIC_MIIM_CTRL
  engine,   \* "idle", or the operation triggered
  readData, \* CMIC_MIIM_READ_DATA
  \* the PHY
  blk, lane,  \* what is selected
  cl45,       \* register 13: "addr" or "data" frame, and the register chosen
  regs,       \* <<lane, block>> -> value
  line, latch, \* lane -> is there a signal; RX_LINK_STATUS, latched low
  stray,    \* has a selection been written to some other register?
  since,    \* lane 0's signals since the last access was called
  budget

threadVars == <<op, k, pc, ret, got, failed>>
cmicVars   == <<address, param, done, engine, readData>>
phyVars    == <<blk, lane, cl45, regs, line, latch, stray, since>>
vars       == <<threadVars, cmicVars, phyVars, budget>>

Cells == LaneSet \X Blocks
Signal == {"up", "down"}
Status == "status"  \* the Clause 45 register 3.1, PCS_IEEESTATUS1
Junk   == "junk"    \* the content of a register nobody meant to read

-----------------------------------------------------------------------------
(* The transactions of an access                                           *)

\* check: does the caller return when this transaction fails?
W(reg, v) == [dir |-> "W", reg |-> reg, data |-> v, check |-> TRUE]
Unchecked(t) == [t EXCEPT !.check = FALSE]
R(reg) == [dir |-> "R", reg |-> reg, data |-> Zero, check |-> TRUE]

\* Bug: the block is not selected before the register.
Bug_Select(l, b) == <<W("BLK", AER), W("LANE", l)>>

Select(l, b) == <<W("BLK", AER), W("LANE", l), W("BLK", b)>>

wc_read(l, b) == Append(Select(l, b), R("REG"))

\* Bug: the results of the selections are ignored.
Bug_wc_write(l, b, v) ==
  [n \in 1 .. 3 |-> Unchecked(Select(l, b)[n])] \o <<W("REG", v)>>

wc_write(l, b, v) == Append(Select(l, b), W("REG", v))

\* Only the result of the final read counts.
wc_cl45_read ==
  <<Unchecked(W("BLK", AER)), Unchecked(W("LANE", "0")), Unchecked(W("BLK", Zero)),
    Unchecked(W("CL45_CTRL", "addr")), Unchecked(W("CL45_DATA", Status)), Unchecked(W("CL45_CTRL", "data")),
    R("CL45_DATA")>>

\* RX_LINK_STATUS is latched low, so it is read twice; then AER is reset.
serdes_link_get == wc_cl45_read \o wc_cl45_read \o <<Unchecked(W("BLK", Zero))>>

Txns(o) == CASE o.kind = "wc_read"  -> wc_read(o.lane, o.blk)
             [] o.kind = "wc_write" -> wc_write(o.lane, o.blk, o.val)
             [] OTHER               -> serdes_link_get

Txn(t) == Txns(op[t])[k[t]]

\* The program counters, registers and lines take their values, and a thread
\* is at one of the transactions of its access.
TypeOK ==
  /\ \A t \in Threads : op[t] = Nobody \/ op[t].kind \in Calls[t]
  /\ \A t \in Threads : k[t] = 1 \/ k[t] \in 1 .. Len(Txns(op[t]))
  /\ pc \in [Threads -> {"idle", "clear", "address", "param", "trigger", "poll", "fetch", "finish", "cancel"}]
  /\ ret \in [Threads -> {"none", "0", "EIO"}]
  /\ failed \in [Threads -> BOOLEAN]
  /\ done \in BOOLEAN
  /\ engine \in {"idle", "R", "W"}
  /\ blk \in Blocks \cup {AER, Zero}
  /\ lane \in LaneSet
  /\ regs \in [Cells -> Values]
  /\ line \in [LaneSet -> Signal] /\ latch \in [LaneSet -> Signal]
  /\ budget \in [{"timeout", "flap"} -> Nat]

-----------------------------------------------------------------------------
Init ==
  /\ op = [t \in Threads |-> Nobody]
  /\ k = [t \in Threads |-> 1]
  /\ pc = [t \in Threads |-> "idle"]
  /\ ret = [t \in Threads |-> "none"]
  /\ got = [t \in Threads |-> Junk]
  /\ failed = [t \in Threads |-> FALSE]
  /\ address = "BLK" /\ param = Zero /\ done = FALSE /\ engine = "idle" /\ readData = Junk
  /\ blk = Zero /\ lane = "0" /\ cl45 = [frame |-> "addr", reg |-> Junk]
  /\ regs = [c \in Cells |-> CHOOSE v \in Values : TRUE]
  /\ line = [l \in LaneSet |-> "up"] /\ latch = [l \in LaneSet |-> "up"]
  /\ stray = FALSE /\ since = {"up"}
  /\ budget = [b \in {"timeout", "flap"} |-> IF b = "flap" THEN MaxFlaps ELSE MaxTimeouts]

Goto(t, l) == pc' = [pc EXCEPT ![t] = l]
Spend(b) == budget[b] > 0 /\ budget' = [budget EXCEPT ![b] = @ - 1]

\* A caller starts an access.
Call(t, o) ==
  /\ pc[t] = "idle"
  /\ op' = [op EXCEPT ![t] = o]
  /\ k' = [k EXCEPT ![t] = 1]
  /\ ret' = [ret EXCEPT ![t] = "none"]
  /\ got' = [got EXCEPT ![t] = Junk]
  /\ failed' = [failed EXCEPT ![t] = FALSE]
  /\ since' = {line["0"]}
  /\ Goto(t, "clear")
  /\ UNCHANGED <<cmicVars, blk, lane, cl45, regs, line, latch, stray, budget>>

\* The byte writes 17 (or 16) and 18: an operation of this direction that is
\* still going on is given up, and "done" is cleared.
ClearState(t) ==
  /\ pc[t] = "clear"
  /\ engine' = IF engine = Txn(t).dir THEN "idle" ELSE engine
  /\ done' = FALSE
  /\ Goto(t, "address")
  /\ UNCHANGED <<op, k, ret, got, failed, address, param, readData, phyVars, budget>>

SetAddress(t) ==
  /\ pc[t] = "address"
  /\ address' = Txn(t).reg
  /\ Goto(t, "param")
  /\ UNCHANGED <<op, k, ret, got, failed, param, done, engine, readData, phyVars, budget>>

SetParam(t) ==
  /\ pc[t] = "param"
  /\ param' = Txn(t).data
  /\ Goto(t, "trigger")
  /\ UNCHANGED <<op, k, ret, got, failed, address, done, engine, readData, phyVars, budget>>

\* 0x91 or 0x90
Trigger(t) ==
  /\ pc[t] = "trigger"
  /\ engine' = Txn(t).dir
  /\ Goto(t, "poll")
  /\ UNCHANGED <<op, k, ret, got, failed, address, param, done, readData, phyVars, budget>>

PollDone(t) ==
  /\ pc[t] = "poll"
  /\ done
  /\ Goto(t, IF Txn(t).dir = "R" THEN "fetch" ELSE "finish")
  /\ UNCHANGED <<op, k, ret, got, failed, cmicVars, phyVars, budget>>

Fetch(t) ==
  /\ pc[t] = "fetch"
  /\ got' = [got EXCEPT ![t] = readData]
  /\ Goto(t, "finish")
  /\ UNCHANGED <<op, k, ret, failed, cmicVars, phyVars, budget>>

Return(t, r) ==
  /\ ret' = [ret EXCEPT ![t] = r]
  /\ Goto(t, "idle")
  /\ UNCHANGED k

\* On to the next transaction of the access, or back to its caller.
Advance(t) ==
  IF k[t] < Len(Txns(op[t]))
    THEN k' = [k EXCEPT ![t] = @ + 1] /\ Goto(t, "clear") /\ UNCHANGED ret
    ELSE Return(t, "0")

\* "done" is cleared and 0 returned.
Finish(t) ==
  /\ pc[t] = "finish"
  /\ done' = FALSE
  /\ Advance(t)
  /\ UNCHANGED <<op, got, failed, address, param, engine, readData, phyVars, budget>>

\* The last of MIIM_POLL_MAX polls has not seen "done".
PollTimeout(t) ==
  /\ pc[t] = "poll"
  /\ ~done
  /\ Spend("timeout")
  /\ failed' = [failed EXCEPT ![t] = TRUE]
  /\ Goto(t, "cancel")
  /\ UNCHANGED <<op, k, ret, got, cmicVars, phyVars>>

\* The byte write 17 (or 16), too late if the engine has finished since; "done"
\* then stays up until the next transaction clears it.
GiveUp(t) ==
  /\ pc[t] = "cancel"
  /\ engine' = IF engine = Txn(t).dir THEN "idle" ELSE engine
  /\ IF Txn(t).check THEN Return(t, "EIO") ELSE Advance(t)
  /\ UNCHANGED <<op, got, failed, address, param, done, readData, phyVars, budget>>

Step(t) == \/ ClearState(t) \/ SetAddress(t) \/ SetParam(t) \/ Trigger(t)
           \/ PollDone(t) \/ Fetch(t) \/ Finish(t) \/ GiveUp(t)

-----------------------------------------------------------------------------
(* The engine, the PHY and the lines (external)                            *)

ReadReg ==
  /\ engine = "R"
  /\ LET status == address = "CL45_DATA" /\ cl45 = [frame |-> "data", reg |-> Status]
     IN  /\ readData' = CASE status -> latch[lane]
                         [] address = "REG" /\ blk \in Blocks -> regs[<<lane, blk>>]
                         [] OTHER -> Junk
         /\ latch' = IF status THEN [latch EXCEPT ![lane] = line[lane]] ELSE latch
  /\ UNCHANGED <<blk, lane, cl45, regs, line, stray, since>>

WriteReg ==
  /\ engine = "W"
  /\ blk' = IF address = "BLK" THEN param ELSE blk
  /\ IF address = "LANE" /\ blk = AER \* (garbage selects some lane)
       THEN lane' \in {l \in LaneSet : param \in LaneSet => l = param} ELSE lane' = lane
  /\ cl45' = CASE address = "CL45_CTRL" -> [cl45 EXCEPT !.frame = param]
               [] address = "CL45_DATA" /\ cl45.frame = "addr" -> [cl45 EXCEPT !.reg = param]
               [] OTHER -> cl45
  /\ regs' = IF address = "REG" /\ blk \in Blocks THEN [regs EXCEPT ![<<lane, blk>>] = param] ELSE regs
  /\ stray' = (stray \/ (address = "LANE" /\ blk # AER) \/ (address = "CL45_DATA" /\ cl45.frame = "data"))
  /\ UNCHANGED <<readData, line, latch, since>>

Engine ==
  /\ ReadReg \/ WriteReg
  /\ engine' = "idle"
  /\ done' = TRUE
  /\ UNCHANGED <<threadVars, address, param, budget>>

Flap(l) ==
  /\ Spend("flap")
  /\ line' = [line EXCEPT ![l] = IF @ = "up" THEN "down" ELSE "up"]
  /\ latch' = [latch EXCEPT ![l] = IF line[l] = "up" THEN "down" ELSE @]
  /\ since' = since \cup {line'["0"]}
  /\ UNCHANGED <<threadVars, cmicVars, blk, lane, cl45, regs, stray>>
Ops(t) ==
  {o \in [kind : Calls[t], lane : LaneSet, blk : Blocks, val : Values] :
     /\ o.kind = "wc_read" => o.val = CHOOSE v \in Values : TRUE
     /\ o.kind = "link_get" => o = [kind |-> "link_get", lane |-> "0",
                                   blk |-> CHOOSE b \in Blocks : TRUE,
                                   val |-> CHOOSE v \in Values : TRUE]}

Next ==
  \/ \E t \in Threads : (\E o \in Ops(t) : Call(t, o)) \/ Step(t) \/ PollTimeout(t)
  \/ Engine
  \/ \E l \in LaneSet : Flap(l)

Spec == Init /\ [][Next]_vars

-----------------------------------------------------------------------------
(* Properties                                                              *)

\* An access that returned 0 did what it was asked for, whatever timed out
\* before it: wc_write() left its value in the register of its lane and block,
\* wc_read() brought that register's value, and a reading of the link with no
\* transaction timed out brought a signal lane 0 has had since the call, not the
\* latch of an earlier loss.
AccessTruthful ==
  \A t \in Threads : ret[t] = "0" =>
    LET cell == <<op[t].lane, op[t].blk>>
    IN  CASE op[t].kind = "wc_write" -> regs[cell] = op[t].val
          [] op[t].kind = "wc_read"  -> got[t] = regs[cell]
          [] OTHER                   -> failed[t] \/ got[t] \in since

\* A WARPcore register changes only to the value, and in the cell, of the
\* wc_write() under way, and only wc_cl45_read(), which ignores a selection that
\* timed out, writes a selection to a register it is not meant for.
OnlyAskedWrites ==
  [][/\ \A c \in Cells : regs'[c] # regs[c] =>
          \E t \in Threads : /\ pc[t] # "idle" /\ op[t].kind = "wc_write"
                             /\ c = <<op[t].lane, op[t].blk>> /\ regs'[c] = op[t].val
     /\ stray' # stray => \E t \in Threads : op[t].kind = "link_get" /\ failed[t]]_vars

\* "SDK calls (serialized via mutex)" (switchd/README.md): the same as
\* AccessTruthful, when two threads make the calls.
SerializedCalls == AccessTruthful
=============================================================================

---------------------------- MODULE Miim_proofs ----------------------------
(***************************************************************************)
(* Proofs about module Miim when one thread makes the calls, for any       *)
(* blocks and values and any number of transactions that time out and of   *)
(* lines that change: what an access that returned 0 has done.  With a     *)
(* second thread it is not so (SerializedCalls).                           *)
(***************************************************************************)
EXTENDS Miim, SequenceTheorems, TLAPS

-----------------------------------------------------------------------------
(* The transactions of an access                                           *)

Accesses ==
  [kind : {"wc_read", "wc_write", "link_get"}, lane : LaneSet, blk : Blocks, val : Values]

LEMMA WcTxns ==
  ASSUME NEW o \in Accesses, o.kind \in {"wc_read", "wc_write"}
  PROVE  /\ Len(Txns(o)) = 4
         /\ Txns(o)[1] = W("BLK", AER)
         /\ Txns(o)[2] = W("LANE", o.lane)
         /\ Txns(o)[3] = W("BLK", o.blk)
         /\ Txns(o)[4] = IF o.kind = "wc_read" THEN R("REG") ELSE W("REG", o.val)
<1>1. PICK s : s = Select(o.lane, o.blk) OBVIOUS
<1>2. s = <<W("BLK", AER), W("LANE", o.lane), W("BLK", o.blk)>> BY <1>1 DEF Select
<1>3. CASE o.kind = "wc_read"
  <2>1. Txns(o) = Append(s, R("REG")) BY <1>1, <1>3 DEF Txns, wc_read
  <2> QED BY <1>2, <1>3, <2>1
<1>4. CASE o.kind = "wc_write"
  <2>1. Txns(o) = Append(s, W("REG", o.val)) BY <1>1, <1>4 DEF Txns, wc_write
  <2> QED BY <1>2, <1>4, <2>1
<1> QED BY <1>3, <1>4

\* A reading of the link is two rounds of seven transactions and one more.
LEMMA LinkTxns ==
  ASSUME NEW o \in Accesses, o.kind = "link_get"
  PROVE  /\ Len(Txns(o)) = 15
         /\ \A j \in {1, 8}  : Txns(o)[j] = Unchecked(W("BLK", AER))
         /\ \A j \in {2, 9}  : Txns(o)[j] = Unchecked(W("LANE", "0"))
         /\ \A j \in {3, 10} : Txns(o)[j] = Unchecked(W("BLK", Zero))
         /\ \A j \in {4, 11} : Txns(o)[j] = Unchecked(W("CL45_CTRL", "addr"))
         /\ \A j \in {5, 12} : Txns(o)[j] = Unchecked(W("CL45_DATA", Status))
         /\ \A j \in {6, 13} : Txns(o)[j] = Unchecked(W("CL45_CTRL", "data"))
         /\ \A j \in {7, 14} : Txns(o)[j] = R("CL45_DATA")
         /\ Txns(o)[15] = Unchecked(W("BLK", Zero))
<1>1. Txns(o) = serdes_link_get BY DEF Txns
<1>2. PICK r, z, a, b, c, d, e, f, g :
        /\ a = Unchecked(W("BLK", AER)) /\ b = Unchecked(W("LANE", "0")) /\ c = Unchecked(W("BLK", Zero))
        /\ d = Unchecked(W("CL45_CTRL", "addr")) /\ e = Unchecked(W("CL45_DATA", Status))
        /\ f = Unchecked(W("CL45_CTRL", "data")) /\ g = R("CL45_DATA")
        /\ r = <<a, b, c, d, e, f, g>> /\ z = <<c>>
  OBVIOUS
<1>3. Txns(o) = r \o r \o z BY <1>1, <1>2 DEF serdes_link_get, wc_cl45_read
<1>4. /\ Len(r) = 7 /\ Len(z) = 1
      /\ r[1] = a /\ r[2] = b /\ r[3] = c /\ r[4] = d /\ r[5] = e /\ r[6] = f /\ r[7] = g /\ z[1] = c
  BY <1>2
<1>5. PICK S : r \in Seq(S) /\ z \in Seq(S)
  <2>1. r \in Seq({a, b, c, d, e, f, g}) /\ z \in Seq({a, b, c, d, e, f, g}) BY <1>2
  <2> QED BY <2>1
<1>6. /\ r \o r \in Seq(S) /\ Len(r \o r) = 14
      /\ \A j \in 1 .. 14 : (r \o r)[j] = IF j <= 7 THEN r[j] ELSE r[j - 7]
  <2>1. /\ r \o r \in Seq(S) /\ Len(r \o r) = Len(r) + Len(r)
        /\ \A j \in 1 .. Len(r) + Len(r) : (r \o r)[j] = IF j <= Len(r) THEN r[j] ELSE r[j - Len(r)]
    BY <1>5, ConcatProperties
  <2>2. Len(r) + Len(r) = 14 BY <1>4
  <2> QED BY <1>4, <2>1, <2>2
<1>7. PICK rr \in Seq(S) : rr = r \o r BY <1>6
<1>8. /\ Len(Txns(o)) = 15
      /\ \A j \in 1 .. 15 : Txns(o)[j] = IF j <= 14 THEN rr[j] ELSE z[j - 14]
  <2>1. /\ Len(rr \o z) = Len(rr) + Len(z)
        /\ \A j \in 1 .. Len(rr) + Len(z) : (rr \o z)[j] = IF j <= Len(rr) THEN rr[j] ELSE z[j - Len(rr)]
    BY <1>5, <1>7, ConcatProperties
  <2>2. Len(rr) = 14 BY <1>6, <1>7
  <2>3. Len(rr) + Len(z) = 15 BY <1>4, <2>2
  <2>4. Txns(o) = rr \o z
    <3>1. (r \o r) \o z = r \o (r \o z) BY <1>5, ConcatAssociative
    <3> QED BY <1>3, <1>7, <3>1
  <2> QED BY <2>1, <2>2, <2>3, <2>4
<1>9. ASSUME NEW j \in 1 .. 14 PROVE Txns(o)[j] = IF j <= 7 THEN r[j] ELSE r[j - 7]
  <2>1. j \in 1 .. 15 /\ j <= 14 OBVIOUS
  <2>2. Txns(o)[j] = rr[j] BY <1>8, <2>1
  <2>3. rr[j] = IF j <= 7 THEN r[j] ELSE r[j - 7] BY <1>6, <1>7, Zenon
  <2> QED BY <2>2, <2>3
<1>10. Txns(o)[15] = c BY <1>4, <1>8
<1>11. Len(Txns(o)) = 15 BY <1>8
<1>12. /\ \A j \in {1, 8}  : Txns(o)[j] = a
       /\ \A j \in {2, 9}  : Txns(o)[j] = b
       /\ \A j \in {3, 10} : Txns(o)[j] = c
       /\ \A j \in {4, 11} : Txns(o)[j] = d
       /\ \A j \in {5, 12} : Txns(o)[j] = e
       /\ \A j \in {6, 13} : Txns(o)[j] = f
       /\ \A j \in {7, 14} : Txns(o)[j] = g
  BY <1>4, <1>9
<1> QED BY <1>2, <1>10, <1>11, <1>12, Zenon

\* What the transaction number n of a wc_read() or wc_write() o asks for, and of
\* a reading of the link.
WcFields(o, n, T) ==
  /\ n \in 1 .. 4
  /\ T.check
  /\ n = 1 => T.dir = "W" /\ T.reg = "BLK" /\ T.data = AER
  /\ n = 2 => T.dir = "W" /\ T.reg = "LANE" /\ T.data = o.lane
  /\ n = 3 => T.dir = "W" /\ T.reg = "BLK" /\ T.data = o.blk
  /\ n = 4 => T.reg = "REG"
  /\ n = 4 /\ o.kind = "wc_read" => T.dir = "R"
  /\ n = 4 /\ o.kind = "wc_write" => T.dir = "W" /\ T.data = o.val

LinkFields(n, T) ==
  /\ n \in 1 .. 15
  /\ T.check <=> n \in {7, 14}
  /\ T.dir = IF n \in {7, 14} THEN "R" ELSE "W"
  /\ n \in {1, 8}      => T.reg = "BLK" /\ T.data = AER
  /\ n \in {2, 9}      => T.reg = "LANE" /\ T.data = "0"
  /\ n \in {3, 10, 15} => T.reg = "BLK"
  /\ n \in {4, 11}     => T.reg = "CL45_CTRL" /\ T.data = "addr"
  /\ n \in {5, 12}     => T.reg = "CL45_DATA" /\ T.data = Status
  /\ n \in {6, 13}     => T.reg = "CL45_CTRL" /\ T.data = "data"
  /\ n \in {7, 14}     => T.reg = "CL45_DATA"

LEMMA WcFieldsHold ==
  ASSUME NEW o \in Accesses, o.kind \in {"wc_read", "wc_write"}, NEW n \in 1 .. Len(Txns(o))
  PROVE  WcFields(o, n, Txns(o)[n])
<1>1. n \in 1 .. 4 BY WcTxns
<1>2. CASE n = 1
  <2>1. Txns(o)[1] = W("BLK", AER) BY WcTxns
  <2> QED BY <1>2, <2>1 DEF WcFields, W
<1>3. CASE n = 2
  <2>1. Txns(o)[2] = W("LANE", o.lane) BY WcTxns
  <2> QED BY <1>3, <2>1 DEF WcFields, W
<1>4. CASE n = 3
  <2>1. Txns(o)[3] = W("BLK", o.blk) BY WcTxns
  <2> QED BY <1>4, <2>1 DEF WcFields, W
<1>5. CASE n = 4 /\ o.kind = "wc_read"
  <2>1. Txns(o)[4] = R("REG") BY <1>5, WcTxns
  <2> QED BY <1>5, <2>1 DEF WcFields, R
<1>6. CASE n = 4 /\ o.kind = "wc_write"
  <2>1. Txns(o)[4] = W("REG", o.val) BY <1>6, WcTxns
  <2> QED BY <1>6, <2>1 DEF WcFields, W
<1> QED BY <1>1, <1>2, <1>3, <1>4, <1>5, <1>6

LEMMA LinkFieldsHold ==
  ASSUME NEW o \in Accesses, o.kind = "link_get", NEW n \in 1 .. Len(Txns(o))
  PROVE  LinkFields(n, Txns(o)[n])
<1>1. n \in 1 .. 15 BY LinkTxns
<1>2. CASE n \in {1, 8}
  <2>1. Txns(o)[n] = Unchecked(W("BLK", AER)) BY <1>2, LinkTxns
  <2> QED BY <1>2, <2>1 DEF LinkFields, W, Unchecked
<1>3. CASE n \in {2, 9}
  <2>1. Txns(o)[n] = Unchecked(W("LANE", "0")) BY <1>3, LinkTxns
  <2> QED BY <1>3, <2>1 DEF LinkFields, W, Unchecked
<1>4. CASE n \in {3, 10, 15}
  <2>1. Txns(o)[n] = Unchecked(W("BLK", Zero)) BY <1>4, LinkTxns
  <2> QED BY <1>4, <2>1 DEF LinkFields, W, Unchecked
<1>5. CASE n \in {4, 11}
  <2>1. Txns(o)[n] = Unchecked(W("CL45_CTRL", "addr")) BY <1>5, LinkTxns
  <2> QED BY <1>5, <2>1 DEF LinkFields, W, Unchecked
<1>6. CASE n \in {5, 12}
  <2>1. Txns(o)[n] = Unchecked(W("CL45_DATA", Status)) BY <1>6, LinkTxns
  <2> QED BY <1>6, <2>1 DEF LinkFields, W, Unchecked
<1>7. CASE n \in {6, 13}
  <2>1. Txns(o)[n] = Unchecked(W("CL45_CTRL", "data")) BY <1>7, LinkTxns
  <2> QED BY <1>7, <2>1 DEF LinkFields, W, Unchecked
<1>8. CASE n \in {7, 14}
  <2>1. Txns(o)[n] = R("CL45_DATA") BY <1>8, LinkTxns
  <2> QED BY <1>8, <2>1 DEF LinkFields, R
<1> QED BY <1>1, <1>2, <1>3, <1>4, <1>5, <1>6, <1>7, <1>8

-----------------------------------------------------------------------------
(* The invariant of an access by the only thread, t                        *)

\* What a register of the PHY may hold, and what a read may bring.
Content == Values \cup {CHOOSE v \in Values : TRUE}
Data == Content \cup Signal \cup {Junk}

Typed(t) ==
  /\ op \in [Threads -> Accesses \cup {Nobody}]
  /\ k \in [Threads -> 1 .. 15]
  /\ pc \in [Threads -> {"idle", "clear", "address", "param", "trigger", "poll", "fetch", "finish", "cancel"}]
  /\ ret \in [Threads -> {"none", "0", "EIO"}]
  /\ got \in [Threads -> Data]
  /\ failed \in [Threads -> BOOLEAN]
  /\ done \in BOOLEAN /\ stray \in BOOLEAN
  /\ readData \in Data
  /\ lane \in LaneSet
  /\ cl45 \in [frame : {"addr", "data"}, reg : {Junk, Status}]
  /\ regs \in [Cells -> Content]
  /\ line \in [LaneSet -> Signal] /\ latch \in [LaneSet -> Signal]
  /\ line["0"] \in since
  /\ pc[t] # "idle" => op[t] \in Accesses /\ k[t] \in 1 .. Len(Txns(op[t]))

\* The engine runs only between the trigger and the end of the polling, and then
\* with what the thread has put in the registers.
Protocol(t) ==
  /\ pc[t] \notin {"poll", "cancel"} => engine = "idle"
  /\ pc[t] \in {"address", "param", "trigger"} => ~done
  /\ pc[t] \in {"poll", "cancel"} => (engine = Txn(t).dir /\ ~done) \/ (engine = "idle" /\ done)
  /\ pc[t] \in {"param", "trigger", "poll", "cancel"} => address = Txn(t).reg
  /\ pc[t] \in {"trigger", "poll", "cancel"} => param = Txn(t).data
  /\ pc[t] = "cancel" => failed[t]
  /\ pc[t] = "fetch" => Txn(t).dir = "R"
  /\ pc[t] = "finish" /\ Txn(t).dir = "R" => got[t] = readData

\* The transactions of the access that have reached the PHY.
Effected(t) ==
  IF pc[t] \in {"fetch", "finish"} \/ (pc[t] \in {"poll", "cancel"} /\ done) THEN k[t] ELSE k[t] - 1

\* How far a wc_read() or wc_write() has come,
Selected(t) ==
  pc[t] # "idle" /\ op[t].kind \in {"wc_read", "wc_write"} =>
    /\ Effected(t) \in {1, 2} => blk = AER
    /\ Effected(t) \in {2, 3, 4} => lane = op[t].lane
    /\ Effected(t) \in {3, 4} => blk = op[t].blk
    /\ Effected(t) = 4 =>
         LET cell == <<op[t].lane, op[t].blk>>
         IN  IF op[t].kind = "wc_write" THEN regs[cell] = op[t].val ELSE readData = regs[cell]

\* and a reading of the link: the first read has emptied the latch of what it
\* held from before the call.
Latched(t) ==
  pc[t] # "idle" /\ op[t].kind = "link_get" /\ ~failed[t] =>
    /\ Effected(t) \in {1, 8} => blk = AER
    /\ Effected(t) >= 2 => lane = "0"
    /\ Effected(t) \in {4, 5, 11, 12} => cl45.frame = "addr"
    /\ Effected(t) \in {5, 12} => cl45.reg = Status
    /\ Effected(t) \in {6, 7, 13, 14, 15} => cl45 = [frame |-> "data", reg |-> Status]
    /\ Effected(t) >= 7 => latch["0"] \in since
    /\ Effected(t) = 14 => readData \in since
    /\ k[t] = 15 => got[t] \in since

\* What an access that returned 0 has done: AccessTruthful, and that the thread
\* has not gone on.
Truthful(t) ==
  ret[t] = "0" =>
    /\ pc[t] = "idle"
    /\ op[t] \in Accesses
    /\ LET cell == <<op[t].lane, op[t].blk>>
       IN  CASE op[t].kind = "wc_write" -> regs[cell] = op[t].val
             [] op[t].kind = "wc_read"  -> got[t] = regs[cell]
             [] OTHER                   -> failed[t] \/ got[t] \in since

AccessInv(t) == Typed(t) /\ Protocol(t) /\ Selected(t) /\ Latched(t) /\ Truthful(t)

\* What the transaction under way asks for.
LEMMA TxnFields ==
  ASSUME NEW t \in Threads, Typed(t), pc[t] # "idle"
  PROVE  /\ op[t].kind \in {"wc_read", "wc_write", "link_get"}
         /\ op[t].kind \in {"wc_read", "wc_write"} => WcFields(op[t], k[t], Txn(t)) /\ Len(Txns(op[t])) = 4
         /\ op[t].kind = "link_get" => LinkFields(k[t], Txn(t)) /\ Len(Txns(op[t])) = 15
<1>1. op[t] \in Accesses /\ k[t] \in 1 .. Len(Txns(op[t])) BY DEF Typed
<1>2. op[t].kind \in {"wc_read", "wc_write", "link_get"} BY <1>1 DEF Accesses
<1>3. ASSUME op[t].kind \in {"wc_read", "wc_write"}
      PROVE  WcFields(op[t], k[t], Txn(t)) /\ Len(Txns(op[t])) = 4
  BY <1>1, <1>3, WcFieldsHold, WcTxns DEF Txn
<1>4. ASSUME op[t].kind = "link_get"
      PROVE  LinkFields(k[t], Txn(t)) /\ Len(Txns(op[t])) = 15
  BY <1>1, <1>4, LinkFieldsHold, LinkTxns DEF Txn
<1> QED BY <1>2, <1>3, <1>4

-----------------------------------------------------------------------------
(* The steps of the thread                                                 *)

LEMMA InitInv ==
  ASSUME NEW t \in Threads, Init
  PROVE  AccessInv(t)
<1>1. Typed(t)
  <2>1. regs \in [Cells -> Content]
    <3>1. PICK v : v = CHOOSE x \in Values : TRUE OBVIOUS
    <3>2. v \in Content /\ regs = [c \in Cells |-> v] BY <3>1 DEF Init, Content
    <3> QED BY <3>2
  <2>2. /\ pc[t] = "idle" /\ op \in [Threads -> Accesses \cup {Nobody}] /\ k \in [Threads -> 1 .. 15]
        /\ pc \in [Threads -> {"idle", "clear", "address", "param", "trigger", "poll", "fetch", "finish", "cancel"}]
        /\ ret \in [Threads -> {"none", "0", "EIO"}] /\ failed \in [Threads -> BOOLEAN]
        /\ got \in [Threads -> Data] /\ readData \in Data
    BY DEF Init, Data
  <2>3. /\ line \in [LaneSet -> Signal] /\ latch \in [LaneSet -> Signal] /\ line["0"] \in since
        /\ lane \in LaneSet
    BY DEF Init, LaneSet, Signal
  <2>4. /\ done \in BOOLEAN /\ stray \in BOOLEAN
        /\ cl45 \in [frame : {"addr", "data"}, reg : {Junk, Status}]
    BY DEF Init
  <2> QED BY <2>1, <2>2, <2>3, <2>4 DEF Typed
<1>2. Protocol(t) BY DEF Init, Protocol
<1>3. Selected(t) /\ Latched(t) /\ Truthful(t) BY DEF Init, Selected, Latched, Truthful
<1> QED BY <1>1, <1>2, <1>3 DEF AccessInv

LEMMA CallInv ==
  ASSUME NEW t \in Threads, AccessInv(t), NEW o \in Ops(t), Call(t, o)
  PROVE  AccessInv(t)'
<1>1. o \in Accesses BY MiimAssumption DEF Ops, Accesses
<1>2. 1 \in 1 .. Len(Txns(o))
  <2>1. o.kind \in {"wc_read", "wc_write", "link_get"} BY <1>1 DEF Accesses
  <2> QED BY <1>1, <2>1, WcTxns, LinkTxns
<1>3. op'[t] = o /\ k'[t] = 1 /\ pc'[t] = "clear" /\ ret'[t] = "none"
  BY DEF AccessInv, Typed, Call, Goto
<1>4. Typed(t)' BY <1>1, <1>2, <1>3 DEF AccessInv, Typed, Call, Goto, Data, cmicVars
<1>5. Protocol(t)' BY <1>3 DEF AccessInv, Protocol, Call, cmicVars
<1>6. Effected(t)' = 0 BY <1>3 DEF Effected
<1>7. Selected(t)' /\ Latched(t)' /\ Truthful(t)'
  BY <1>3, <1>6 DEF Selected, Latched, Truthful
<1> QED BY <1>4, <1>5, <1>7 DEF AccessInv

\* A step within a transaction, up to the trigger: the PHY does not see it.
LEMMA PrepareInv ==
  ASSUME NEW t \in Threads, AccessInv(t),
         ClearState(t) \/ SetAddress(t) \/ SetParam(t) \/ Trigger(t)
  PROVE  AccessInv(t)'
<1>1. /\ pc[t] \in {"clear", "address", "param", "trigger"}
      /\ UNCHANGED <<op, k, ret, got, failed, readData, phyVars>>
  BY DEF ClearState, SetAddress, SetParam, Trigger
<1>2. pc'[t] \in {"address", "param", "trigger", "poll"} /\ pc' \in [Threads -> {"idle", "clear", "address", "param", "trigger", "poll", "fetch", "finish", "cancel"}]
  BY DEF AccessInv, Typed, ClearState, SetAddress, SetParam, Trigger, Goto
<1>3. engine = "idle" /\ (pc[t] # "clear" => ~done) BY <1>1 DEF AccessInv, Protocol
<1>4. done' = FALSE BY <1>1, <1>3 DEF AccessInv, Typed, ClearState, SetAddress, SetParam, Trigger
<1>5. Typed(t)' BY <1>1, <1>2, <1>4 DEF AccessInv, Typed, phyVars
<1>6. Protocol(t)'
  <2>1. Txn(t)' = Txn(t) BY <1>1 DEF Txn
  <2>2. CASE ClearState(t)
    <3>1. pc'[t] = "address" /\ engine' = "idle" BY <1>3, <2>2 DEF AccessInv, Typed, ClearState, Goto
    <3> QED BY <1>4, <3>1 DEF Protocol
  <2>3. CASE SetAddress(t)
    <3>1. pc'[t] = "param" /\ engine' = "idle" /\ address' = Txn(t).reg
      BY <1>3, <2>3 DEF AccessInv, Typed, SetAddress, Goto
    <3> QED BY <1>4, <2>1, <3>1 DEF Protocol
  <2>4. CASE SetParam(t)
    <3>1. pc'[t] = "trigger" /\ engine' = "idle" /\ address' = address /\ param' = Txn(t).data /\ pc[t] = "param"
      BY <1>3, <2>4 DEF AccessInv, Typed, SetParam, Goto
    <3> QED BY <1>4, <2>1, <3>1 DEF AccessInv, Protocol
  <2>5. CASE Trigger(t)
    <3>1. pc'[t] = "poll" /\ engine' = Txn(t).dir /\ address' = address /\ param' = param /\ pc[t] = "trigger"
      BY <1>3, <2>5 DEF AccessInv, Typed, Trigger, Goto
    <3> QED BY <1>4, <2>1, <3>1 DEF AccessInv, Protocol
  <2> QED BY <2>2, <2>3, <2>4, <2>5
<1>7. Effected(t)' = Effected(t) BY <1>1, <1>2, <1>4 DEF Effected
<1>8. Selected(t)' BY <1>1, <1>7 DEF AccessInv, Selected, phyVars
<1>9. Latched(t)' BY <1>1, <1>7 DEF AccessInv, Latched, phyVars
<1>10. Truthful(t)' BY <1>1 DEF AccessInv, Truthful
<1> QED BY <1>5, <1>6, <1>8, <1>9, <1>10 DEF AccessInv

LEMMA PollDoneInv ==
  ASSUME NEW t \in Threads, AccessInv(t), PollDone(t)
  PROVE  AccessInv(t)'
<1>1. /\ pc[t] = "poll" /\ done /\ done' = done /\ engine' = engine
      /\ UNCHANGED <<op, k, ret, got, failed, readData, phyVars>>
  BY DEF PollDone, cmicVars
<1>2. /\ pc'[t] = IF Txn(t).dir = "R" THEN "fetch" ELSE "finish"
      /\ pc' \in [Threads -> {"idle", "clear", "address", "param", "trigger", "poll", "fetch", "finish", "cancel"}]
  BY DEF AccessInv, Typed, PollDone, Goto
<1>3. engine = "idle" BY <1>1 DEF AccessInv, Protocol
<1>4. Typed(t)' BY <1>1, <1>2 DEF AccessInv, Typed, phyVars
<1>5. Protocol(t)'
  <2>1. Txn(t)' = Txn(t) BY <1>1 DEF Txn
  <2> QED BY <1>1, <1>2, <1>3, <2>1 DEF Protocol
<1>6. Effected(t)' = Effected(t) BY <1>1, <1>2 DEF Effected
<1>7. Selected(t)' BY <1>1, <1>6 DEF AccessInv, Selected, phyVars
<1>8. Latched(t)' BY <1>1, <1>6 DEF AccessInv, Latched, phyVars
<1>9. Truthful(t)' BY <1>1 DEF AccessInv, Truthful
<1> QED BY <1>4, <1>5, <1>7, <1>8, <1>9 DEF AccessInv

LEMMA FetchInv ==
  ASSUME NEW t \in Threads, AccessInv(t), Fetch(t)
  PROVE  AccessInv(t)'
<1>1. /\ pc[t] = "fetch" /\ done' = done /\ engine' = engine
      /\ UNCHANGED <<op, k, ret, failed, readData, phyVars>>
  BY DEF Fetch, cmicVars
<1>2. /\ pc'[t] = "finish" /\ got'[t] = readData /\ got' \in [Threads -> Data]
      /\ pc' \in [Threads -> {"idle", "clear", "address", "param", "trigger", "poll", "fetch", "finish", "cancel"}]
  BY DEF AccessInv, Typed, Fetch, Goto
<1>3. engine = "idle" BY <1>1 DEF AccessInv, Protocol
<1>4. Typed(t)' BY <1>1, <1>2 DEF AccessInv, Typed, phyVars
<1>5. Protocol(t)' BY <1>1, <1>2, <1>3 DEF Protocol
<1>6. Effected(t)' = Effected(t) BY <1>1, <1>2 DEF Effected
<1>7. Selected(t)' BY <1>1, <1>6 DEF AccessInv, Selected, phyVars
<1>8. Latched(t)'
  <2>1. ASSUME op[t].kind = "link_get" PROVE k[t] # 15
    BY <1>1, <2>1, TxnFields DEF AccessInv, Protocol, LinkFields
  <2> QED BY <1>1, <1>6, <2>1 DEF AccessInv, Latched, phyVars
<1>9. Truthful(t)' BY <1>1 DEF AccessInv, Truthful
<1> QED BY <1>4, <1>5, <1>7, <1>8, <1>9 DEF AccessInv

\* The last transaction of an access, and what its end says.
LEMMA FinishInv ==
  ASSUME NEW t \in Threads, AccessInv(t), Finish(t)
  PROVE  AccessInv(t)'
<1>1. /\ pc[t] = "finish" /\ done' = FALSE /\ engine' = engine
      /\ UNCHANGED <<op, got, failed, readData, phyVars>>
  BY DEF Finish
<1>2. engine = "idle" BY <1>1 DEF AccessInv, Protocol
<1>3. Effected(t) = k[t] /\ k[t] \in Nat BY <1>1 DEF AccessInv, Typed, Effected
<1>4. op[t] \in Accesses /\ ret[t] # "0" BY <1>1 DEF AccessInv, Typed, Truthful
<1>5. op[t].kind = "link_get" /\ k[t] = 14 => got[t] = readData
  BY <1>1, TxnFields DEF AccessInv, Protocol, LinkFields
<1>6. op[t].kind = "wc_read" /\ k[t] = 4 => got[t] = readData
  BY <1>1, TxnFields DEF AccessInv, Protocol, WcFields
<1>7. CASE k[t] < Len(Txns(op[t]))
  <2>1. /\ k' = [k EXCEPT ![t] = @ + 1] /\ ret' = ret
        /\ pc' = [pc EXCEPT ![t] = "clear"]
    BY <1>7 DEF Finish, Advance, Goto
  <2>2. Len(Txns(op[t])) \in 1 .. 15 BY <1>1, TxnFields DEF AccessInv
  <2>3. k'[t] = k[t] + 1 /\ pc'[t] = "clear" BY <2>1 DEF AccessInv, Typed
  <2>4. Typed(t)'
    <3>1. k[t] + 1 \in 1 .. Len(Txns(op[t])) BY <1>3, <1>7, <2>2
    <3>2. k[t] + 1 \in 1 .. 15
      <4>1. \A n \in 1 .. 15 : \A m \in 1 .. n : m \in 1 .. 15 OBVIOUS
      <4> QED BY <2>2, <3>1, <4>1, Zenon
    <3> QED BY <1>1, <1>4, <2>1, <2>3, <3>1, <3>2 DEF AccessInv, Typed, phyVars
  <2>5. Protocol(t)' BY <1>1, <1>2, <2>3 DEF Protocol
  <2>6. Effected(t)' = Effected(t) BY <1>3, <2>3 DEF Effected
  <2>7. Selected(t)' BY <1>1, <2>6 DEF AccessInv, Selected, phyVars
  <2>8. Latched(t)' BY <1>1, <1>3, <1>5, <2>3, <2>6 DEF AccessInv, Latched, phyVars
  <2>9. Truthful(t)' BY <1>4, <2>1 DEF Truthful
  <2> QED BY <2>4, <2>5, <2>7, <2>8, <2>9 DEF AccessInv
<1>8. CASE ~(k[t] < Len(Txns(op[t])))
  <2>1. k' = k /\ ret' = [ret EXCEPT ![t] = "0"] /\ pc' = [pc EXCEPT ![t] = "idle"]
    BY <1>8 DEF Finish, Advance, Return, Goto
  <2>2. ret'[t] = "0" /\ pc'[t] = "idle" BY <2>1 DEF AccessInv, Typed
  <2>3. Typed(t)' BY <1>1, <2>1, <2>2 DEF AccessInv, Typed, phyVars
  <2>4. Protocol(t)' BY <1>1, <1>2, <2>2 DEF Protocol
  <2>5. Selected(t)' /\ Latched(t)' BY <2>2 DEF Selected, Latched
  <2>6. Truthful(t)'
    <3>1. ASSUME op[t].kind \in {"wc_read", "wc_write"} PROVE k[t] = 4
      <4>1. k[t] \in 1 .. 4 BY <1>1, <3>1, TxnFields DEF AccessInv, WcFields
      <4>2. Len(Txns(op[t])) = 4 BY <1>1, <3>1, TxnFields DEF AccessInv
      <4> QED BY <1>8, <4>1, <4>2
    <3>2. ASSUME op[t].kind = "link_get" PROVE k[t] = 15
      <4>1. k[t] \in 1 .. 15 BY <1>1, <3>2, TxnFields DEF AccessInv, LinkFields
      <4>2. Len(Txns(op[t])) = 15 BY <1>1, <3>2, TxnFields DEF AccessInv
      <4> QED BY <1>8, <4>1, <4>2
    <3>3. CASE op[t].kind = "wc_write"
      BY <1>1, <1>3, <1>4, <2>2, <3>1, <3>3 DEF AccessInv, Selected, Truthful, phyVars
    <3>4. CASE op[t].kind = "wc_read"
      BY <1>1, <1>3, <1>4, <1>6, <2>2, <3>1, <3>4 DEF AccessInv, Selected, Truthful, phyVars
    <3>5. CASE op[t].kind = "link_get"
      BY <1>1, <1>3, <1>4, <2>2, <3>2, <3>5 DEF AccessInv, Latched, Truthful, phyVars
    <3> QED BY <1>4, <3>3, <3>4, <3>5 DEF Accesses
  <2> QED BY <2>3, <2>4, <2>5, <2>6 DEF AccessInv
<1> QED BY <1>7, <1>8

\* The polling runs out: the PHY does not see it.
LEMMA PollTimeoutInv ==
  ASSUME NEW t \in Threads, AccessInv(t), PollTimeout(t)
  PROVE  AccessInv(t)'
<1>1. /\ pc[t] = "poll" /\ ~done /\ done' = done /\ engine' = engine /\ address' = address /\ param' = param
      /\ UNCHANGED <<op, k, ret, got, readData, phyVars>>
      /\ failed' = [failed EXCEPT ![t] = TRUE] /\ pc' = [pc EXCEPT ![t] = "cancel"]
  BY DEF PollTimeout, Goto, cmicVars
<1>2. /\ failed'[t] = TRUE /\ failed' \in [Threads -> BOOLEAN]
      /\ pc'[t] = "cancel"
      /\ pc' \in [Threads -> {"idle", "clear", "address", "param", "trigger", "poll", "fetch", "finish", "cancel"}]
  BY <1>1 DEF AccessInv, Typed
<1>3. Typed(t)' BY <1>1, <1>2 DEF AccessInv, Typed, phyVars
<1>4. Protocol(t)'
  <2>1. Txn(t)' = Txn(t) BY <1>1 DEF Txn
  <2> QED BY <1>1, <1>2, <2>1 DEF AccessInv, Protocol
<1>5. Effected(t)' = Effected(t) BY <1>1, <1>2 DEF Effected
<1>6. Selected(t)' BY <1>1, <1>5 DEF AccessInv, Selected, phyVars
<1>7. Latched(t)' BY <1>2 DEF Latched
<1>8. Truthful(t)' BY <1>1 DEF AccessInv, Truthful
<1> QED BY <1>3, <1>4, <1>6, <1>7, <1>8 DEF AccessInv

\* The operation is given up, which the engine may have finished by then.
LEMMA GiveUpInv ==
  ASSUME NEW t \in Threads, AccessInv(t), GiveUp(t)
  PROVE  AccessInv(t)'
<1>1. /\ pc[t] = "cancel" /\ done' = done
      /\ UNCHANGED <<op, got, failed, readData, phyVars>>
  BY DEF GiveUp
<1>2. failed'[t] = TRUE BY <1>1 DEF AccessInv, Protocol, Typed
<1>3. engine' = "idle" BY <1>1 DEF AccessInv, Protocol, GiveUp
<1>4. done' \in BOOLEAN BY <1>1 DEF AccessInv, Typed
<1>5. op[t] \in Accesses /\ ret[t] # "0" /\ k[t] \in Nat BY <1>1 DEF AccessInv, Typed, Truthful
<1>6. Latched(t)' BY <1>2 DEF Latched
<1>7. op[t].kind \in {"wc_read", "wc_write"} => Txn(t).check
  BY <1>1, TxnFields DEF AccessInv, WcFields
<1>8. CASE Txn(t).check
  <2>1. k' = k /\ ret' = [ret EXCEPT ![t] = "EIO"] /\ pc' = [pc EXCEPT ![t] = "idle"]
    BY <1>8 DEF GiveUp, Return, Goto
  <2>2. ret'[t] = "EIO" /\ pc'[t] = "idle" BY <2>1 DEF AccessInv, Typed
  <2>3. Typed(t)' BY <1>1, <1>2, <1>4, <2>1, <2>2 DEF AccessInv, Typed, phyVars
  <2>4. Protocol(t)' BY <1>3, <1>4, <2>2 DEF Protocol
  <2>5. Selected(t)' /\ Truthful(t)' BY <2>2 DEF Selected, Truthful
  <2> QED BY <1>6, <2>3, <2>4, <2>5 DEF AccessInv
<1>9. CASE ~Txn(t).check /\ k[t] < Len(Txns(op[t]))
  <2>1. /\ k' = [k EXCEPT ![t] = @ + 1] /\ ret' = ret
        /\ pc' = [pc EXCEPT ![t] = "clear"]
    BY <1>9 DEF GiveUp, Advance, Goto
  <2>2. Len(Txns(op[t])) \in 1 .. 15 BY <1>1, TxnFields DEF AccessInv
  <2>3. k'[t] = k[t] + 1 /\ pc'[t] = "clear" BY <2>1 DEF AccessInv, Typed
  <2>4. Typed(t)'
    <3>1. k[t] + 1 \in 1 .. Len(Txns(op[t])) BY <1>5, <1>9, <2>2
    <3>2. k[t] + 1 \in 1 .. 15
      <4>1. \A n \in 1 .. 15 : \A m \in 1 .. n : m \in 1 .. 15 OBVIOUS
      <4> QED BY <2>2, <3>1, <4>1, Zenon
    <3> QED BY <1>1, <1>2, <1>4, <1>5, <2>1, <2>3, <3>1, <3>2 DEF AccessInv, Typed, phyVars
  <2>5. Protocol(t)' BY <1>3, <1>4, <2>3 DEF Protocol
  <2>6. Selected(t)' BY <1>1, <1>7, <1>9 DEF Selected
  <2>7. Truthful(t)' BY <1>5, <2>1 DEF Truthful
  <2> QED BY <1>6, <2>4, <2>5, <2>6, <2>7 DEF AccessInv
<1>10. CASE ~Txn(t).check /\ ~(k[t] < Len(Txns(op[t])))
  <2>1. k' = k /\ ret' = [ret EXCEPT ![t] = "0"] /\ pc' = [pc EXCEPT ![t] = "idle"]
    BY <1>10 DEF GiveUp, Advance, Return, Goto
  <2>2. ret'[t] = "0" /\ pc'[t] = "idle" BY <2>1 DEF AccessInv, Typed
  <2>3. Typed(t)' BY <1>1, <1>2, <1>4, <2>1, <2>2 DEF AccessInv, Typed, phyVars
  <2>4. Protocol(t)' BY <1>3, <1>4, <2>2 DEF Protocol
  <2>5. op[t].kind = "link_get" BY <1>5, <1>7, <1>10 DEF Accesses
  <2>6. Selected(t)' /\ Truthful(t)' BY <1>1, <1>2, <1>5, <2>2, <2>5 DEF Selected, Truthful
  <2> QED BY <1>6, <2>3, <2>4, <2>6 DEF AccessInv
<1> QED BY <1>8, <1>9, <1>10

-----------------------------------------------------------------------------
(* The lines, and the engine with the PHY behind it                        *)

LEMMA FlapInv ==
  ASSUME NEW t \in Threads, AccessInv(t), NEW l \in LaneSet, Flap(l)
  PROVE  AccessInv(t)'
<1>1. /\ UNCHANGED <<op, k, pc, ret, got, failed, address, param, done, engine, readData>>
      /\ UNCHANGED <<blk, lane, cl45, regs, stray>>
  BY DEF Flap, threadVars, cmicVars
<1>2. /\ line' = [line EXCEPT ![l] = IF @ = "up" THEN "down" ELSE "up"]
      /\ latch' = [latch EXCEPT ![l] = IF line[l] = "up" THEN "down" ELSE @]
      /\ since' = since \cup {line'["0"]}
  BY DEF Flap
<1>3. Typed(t)'
  <2>1. line' \in [LaneSet -> Signal] /\ latch' \in [LaneSet -> Signal]
    BY <1>2 DEF AccessInv, Typed, Signal
  <2> QED BY <1>1, <1>2, <2>1 DEF AccessInv, Typed
<1>4. Protocol(t)' BY <1>1 DEF AccessInv, Protocol, Txn
<1>5. Effected(t)' = Effected(t) BY <1>1 DEF Effected
<1>6. Selected(t)' BY <1>1, <1>5 DEF AccessInv, Selected
<1>7. latch["0"] \in since => latch'["0"] \in since'
  <2>1. line \in [LaneSet -> Signal] /\ latch \in [LaneSet -> Signal] BY DEF AccessInv, Typed
  <2>2. "0" \in LaneSet BY DEF LaneSet
  <2>3. CASE l = "0" /\ line["0"] = "up"
    <3>1. latch'["0"] = "down" /\ line'["0"] = "down" BY <1>2, <2>1, <2>2, <2>3
    <3> QED BY <1>2, <3>1
  <2>4. CASE l = "0" /\ line["0"] # "up"
    <3>1. latch'["0"] = latch["0"] BY <1>2, <2>1, <2>2, <2>4
    <3> QED BY <1>2, <3>1
  <2>5. CASE l # "0"
    <3>1. latch'["0"] = latch["0"] BY <1>2, <2>1, <2>2, <2>5
    <3> QED BY <1>2, <3>1
  <2> QED BY <2>3, <2>4, <2>5
<1>8. Latched(t)' BY <1>1, <1>2, <1>5, <1>7 DEF AccessInv, Latched
<1>9. Truthful(t)' BY <1>1, <1>2 DEF AccessInv, Truthful
<1> QED BY <1>3, <1>4, <1>6, <1>8, <1>9 DEF AccessInv

\* What the engine carries out is the thread's transaction.
LEMMA EngineRuns ==
  ASSUME NEW t \in Threads, AccessInv(t), Engine
  PROVE  /\ pc[t] \in {"poll", "cancel"} /\ engine = Txn(t).dir /\ address = Txn(t).reg /\ param = Txn(t).data
         /\ UNCHANGED <<op, k, pc, ret, got, failed>> /\ UNCHANGED <<line, since>>
         /\ Effected(t) = k[t] - 1 /\ Effected(t)' = k[t]
         /\ Protocol(t)' /\ Truthful(t)'
<1>1. engine # "idle" BY DEF Engine, ReadReg, WriteReg
<1>2. pc[t] \in {"poll", "cancel"} /\ engine = Txn(t).dir /\ ~done BY <1>1 DEF AccessInv, Protocol
<1>3. address = Txn(t).reg /\ param = Txn(t).data BY <1>2 DEF AccessInv, Protocol
<1>4. /\ UNCHANGED <<op, k, pc, ret, got, failed>> /\ UNCHANGED <<line, since>>
      /\ engine' = "idle" /\ done' = TRUE /\ address' = address /\ param' = param
  BY DEF Engine, ReadReg, WriteReg, threadVars
<1>5. Effected(t) = k[t] - 1 /\ Effected(t)' = k[t] BY <1>2, <1>4 DEF Effected
<1>6. Protocol(t)'
  <2>1. Txn(t)' = Txn(t) BY <1>4 DEF Txn
  <2>2. pc[t] = "cancel" => failed[t] BY DEF AccessInv, Protocol
  <2> QED BY <1>2, <1>3, <1>4, <2>1, <2>2 DEF Protocol
<1>7. Truthful(t)' BY <1>2, <1>4 DEF AccessInv, Truthful
<1> QED BY <1>2, <1>3, <1>4, <1>5, <1>6, <1>7

LEMMA ReadInv ==
  ASSUME NEW t \in Threads, AccessInv(t), Engine, ReadReg
  PROVE  AccessInv(t)'
<1>1. /\ pc[t] \in {"poll", "cancel"} /\ Txn(t).dir = "R" /\ address = Txn(t).reg
      /\ UNCHANGED <<op, k, pc, ret, got, failed>> /\ UNCHANGED <<line, since>>
      /\ Effected(t) = k[t] - 1 /\ Effected(t)' = k[t]
      /\ Protocol(t)' /\ Truthful(t)'
  BY EngineRuns DEF ReadReg
<1>2. UNCHANGED <<blk, lane, cl45, regs, stray>> /\ done' = TRUE BY DEF Engine, ReadReg
<1>3. PICK status \in BOOLEAN :
        /\ status <=> address = "CL45_DATA" /\ cl45 = [frame |-> "data", reg |-> Status]
        /\ readData' = CASE status -> latch[lane]
                         [] address = "REG" /\ blk \in Blocks -> regs[<<lane, blk>>]
                         [] OTHER -> Junk
        /\ latch' = IF status THEN [latch EXCEPT ![lane] = line[lane]] ELSE latch
  BY DEF ReadReg
<1>4. Typed(t)'
  <2>1. latch' \in [LaneSet -> Signal] BY <1>3 DEF AccessInv, Typed
  <2>2. readData' \in Data
    <3>1. CASE status BY <1>3, <3>1 DEF AccessInv, Typed, Data
    <3>2. CASE ~status /\ address = "REG" /\ blk \in Blocks
      <4>1. <<lane, blk>> \in Cells BY <3>2 DEF AccessInv, Typed, Cells
      <4> QED BY <1>3, <3>2, <4>1 DEF AccessInv, Typed, Data
    <3>3. CASE ~status /\ ~(address = "REG" /\ blk \in Blocks) BY <1>3, <3>3 DEF Data
    <3> QED BY <3>1, <3>2, <3>3
  <2> QED BY <1>1, <1>2, <2>1, <2>2 DEF AccessInv, Typed
<1>5. Selected(t)'
  <2> SUFFICES ASSUME op[t].kind \in {"wc_read", "wc_write"} PROVE Selected(t)'
    BY <1>1 DEF Selected
  <2>1. WcFields(op[t], k[t], Txn(t)) BY <1>1, TxnFields DEF AccessInv
  <2>2. k[t] = 4 /\ address = "REG" /\ op[t].kind = "wc_read" BY <1>1, <2>1 DEF WcFields
  <2>3. blk = op[t].blk /\ lane = op[t].lane BY <1>1, <2>2 DEF AccessInv, Selected
  <2>4. blk \in Blocks BY <1>1, <2>3 DEF AccessInv, Typed, Accesses
  <2>5. readData' = regs[<<lane, blk>>] BY <1>3, <2>2, <2>4
  <2> QED BY <1>1, <1>2, <2>2, <2>3, <2>5 DEF Selected
<1>6. Latched(t)'
  <2> SUFFICES ASSUME op[t].kind = "link_get", ~failed[t] PROVE Latched(t)'
    BY <1>1 DEF Latched
  <2>1. LinkFields(k[t], Txn(t)) BY <1>1, TxnFields DEF AccessInv
  <2>2. k[t] \in {7, 14} /\ address = "CL45_DATA" BY <1>1, <2>1 DEF LinkFields
  <2>3. /\ lane = "0" /\ cl45 = [frame |-> "data", reg |-> Status]
        /\ k[t] = 14 => latch["0"] \in since
    BY <1>1, <2>2 DEF AccessInv, Latched
  <2>4. readData' = latch["0"] /\ latch' = [latch EXCEPT !["0"] = line["0"]] BY <1>3, <2>2, <2>3
  <2>5. latch'["0"] \in since BY <2>4 DEF AccessInv, Typed, LaneSet
  <2> QED BY <1>1, <1>2, <2>2, <2>3, <2>4, <2>5 DEF Latched
<1> QED BY <1>1, <1>4, <1>5, <1>6 DEF AccessInv

\* A write reaches only the register the thread means.
LEMMA WriteEffects ==
  ASSUME NEW t \in Threads, AccessInv(t), Engine, WriteReg
  PROVE  /\ lane' \in LaneSet
         /\ cl45' \in [frame : {"addr", "data"}, reg : {Junk, Status}]
         /\ regs' \in [Cells -> Content]
         /\ regs' # regs =>
              /\ op[t].kind = "wc_write"
              /\ <<op[t].lane, op[t].blk>> \in Cells
              /\ regs' = [regs EXCEPT ![<<op[t].lane, op[t].blk>>] = op[t].val]
         /\ stray' \in BOOLEAN
         /\ stray' # stray => op[t].kind = "link_get" /\ failed[t]
<1>1. /\ pc[t] \in {"poll", "cancel"} /\ Txn(t).dir = "W" /\ address = Txn(t).reg /\ param = Txn(t).data
      /\ Effected(t) = k[t] - 1
  BY EngineRuns DEF WriteReg
<1>2. op[t] \in Accesses BY <1>1 DEF AccessInv, Typed
<1>3. lane' \in LaneSet BY DEF WriteReg, AccessInv, Typed
<1>4. stray' \in BOOLEAN BY DEF WriteReg
<1>5. CASE op[t].kind \in {"wc_read", "wc_write"}
  <2>1. WcFields(op[t], k[t], Txn(t)) BY <1>1, <1>5, TxnFields DEF AccessInv
  <2>2. address \in {"BLK", "LANE", "REG"} BY <1>1, <2>1 DEF WcFields
  <2>3. cl45' = cl45 BY <2>2 DEF WriteReg
  <2>4. address = "LANE" => blk = AER
    <3>1. address = "LANE" => k[t] = 2 BY <1>1, <2>1 DEF WcFields
    <3> QED BY <1>1, <1>5, <3>1 DEF AccessInv, Selected
  <2>5. stray' = stray BY <2>2, <2>4 DEF WriteReg, AccessInv, Typed
  <2>6. CASE address = "REG"
    <3>1. k[t] = 4 /\ op[t].kind = "wc_write" /\ param = op[t].val
      BY <1>1, <1>5, <2>1, <2>6 DEF WcFields
    <3>2. blk = op[t].blk /\ lane = op[t].lane BY <1>1, <1>5, <3>1 DEF AccessInv, Selected
    <3>3. blk \in Blocks /\ op[t].val \in Content BY <1>2, <3>2 DEF Accesses, Content
    <3>4. <<lane, blk>> \in Cells BY <3>3 DEF AccessInv, Typed, Cells
    <3>5. regs' = [regs EXCEPT ![<<lane, blk>>] = op[t].val] BY <2>6, <3>1, <3>3 DEF WriteReg
    <3>6. regs' \in [Cells -> Content] BY <3>3, <3>4, <3>5 DEF AccessInv, Typed
    <3> QED BY <1>3, <1>4, <2>3, <2>5, <3>1, <3>2, <3>4, <3>5, <3>6 DEF AccessInv, Typed
  <2>7. CASE address # "REG"
    <3>1. regs' = regs BY <2>7 DEF WriteReg
    <3> QED BY <1>3, <1>4, <2>3, <2>5, <3>1 DEF AccessInv, Typed
  <2> QED BY <2>6, <2>7
<1>6. CASE op[t].kind = "link_get"
  <2>1. LinkFields(k[t], Txn(t)) BY <1>1, <1>6, TxnFields DEF AccessInv
  <2>2. k[t] \in 1 .. 15 BY <2>1 DEF LinkFields
  <2>3. address \in {"BLK", "LANE", "CL45_CTRL", "CL45_DATA"} BY <1>1, <2>1 DEF LinkFields
  <2>4. regs' = regs BY <2>3 DEF WriteReg
  <2>5. address = "CL45_CTRL" => param \in {"addr", "data"}
    BY <1>1, <2>1 DEF LinkFields
  <2>6. address = "CL45_DATA" => param = Status
    BY <1>1, <2>1 DEF LinkFields
  <2>7. cl45' \in [frame : {"addr", "data"}, reg : {Junk, Status}]
    <3>1. cl45 \in [frame : {"addr", "data"}, reg : {Junk, Status}] BY DEF AccessInv, Typed
    <3> QED BY <2>5, <2>6, <3>1 DEF WriteReg
  <2>8. ASSUME ~failed[t] PROVE stray' = stray
    <3>1. address = "LANE" => k[t] \in {2, 9} BY <1>1, <2>1 DEF LinkFields
    <3>2. address = "CL45_DATA" => k[t] \in {5, 12} BY <1>1, <2>1 DEF LinkFields
    <3>3. address = "LANE" => blk = AER BY <1>1, <1>6, <2>8, <3>1 DEF AccessInv, Latched
    <3>4. address = "CL45_DATA" => cl45.frame = "addr" BY <1>1, <1>6, <2>8, <3>2 DEF AccessInv, Latched
    <3> QED BY <3>3, <3>4 DEF WriteReg, AccessInv, Typed
  <2> QED BY <1>3, <1>4, <1>6, <2>4, <2>7, <2>8 DEF AccessInv, Typed
<1> QED BY <1>2, <1>5, <1>6 DEF Accesses

LEMMA WriteInv ==
  ASSUME NEW t \in Threads, AccessInv(t), Engine, WriteReg
  PROVE  AccessInv(t)'
<1>1. /\ pc[t] \in {"poll", "cancel"} /\ Txn(t).dir = "W" /\ address = Txn(t).reg /\ param = Txn(t).data
      /\ UNCHANGED <<op, k, pc, ret, got, failed>> /\ UNCHANGED <<line, since>>
      /\ Effected(t) = k[t] - 1 /\ Effected(t)' = k[t]
      /\ Protocol(t)' /\ Truthful(t)'
  BY EngineRuns DEF WriteReg
<1>2. UNCHANGED <<readData, latch>> /\ done' = TRUE BY DEF Engine, WriteReg
<1>3. Typed(t)' BY <1>1, <1>2, WriteEffects DEF AccessInv, Typed
<1>4. Selected(t)'
  <2> SUFFICES ASSUME op[t].kind \in {"wc_read", "wc_write"} PROVE Selected(t)'
    BY <1>1 DEF Selected
  <2>1. WcFields(op[t], k[t], Txn(t)) BY <1>1, TxnFields DEF AccessInv
  <2>2. CASE k[t] = 1
    <3>1. blk' = AER BY <1>1, <2>1, <2>2 DEF WcFields, WriteReg
    <3> QED BY <1>1, <2>2, <3>1 DEF Selected
  <2>3. CASE k[t] = 2
    <3>1. op[t].lane \in LaneSet BY <1>1 DEF AccessInv, Typed, Accesses
    <3>2. address = "LANE" /\ param = op[t].lane BY <1>1, <2>1, <2>3 DEF WcFields
    <3>3. blk = AER BY <1>1, <2>3 DEF AccessInv, Selected
    <3>4. blk' = AER /\ lane' = op[t].lane BY <3>1, <3>2, <3>3 DEF WriteReg
    <3> QED BY <1>1, <2>3, <3>4 DEF Selected
  <2>4. CASE k[t] = 3
    <3>1. lane = op[t].lane BY <1>1, <2>4 DEF AccessInv, Selected
    <3>2. address = "BLK" /\ param = op[t].blk BY <1>1, <2>1, <2>4 DEF WcFields
    <3>3. blk' = op[t].blk /\ lane' = op[t].lane BY <3>1, <3>2 DEF WriteReg
    <3> QED BY <1>1, <2>4, <3>3 DEF Selected
  <2>5. CASE k[t] = 4
    <3>1. lane = op[t].lane /\ blk = op[t].blk BY <1>1, <2>5 DEF AccessInv, Selected
    <3>2. address = "REG" /\ param = op[t].val /\ op[t].kind = "wc_write"
      BY <1>1, <2>1, <2>5 DEF WcFields
    <3>3. blk \in Blocks /\ lane \in LaneSet BY <1>1, <3>1 DEF AccessInv, Typed, Accesses
    <3>4. blk' = blk /\ lane' = lane BY <3>2 DEF WriteReg
    <3>5. regs'[<<lane, blk>>] = op[t].val
      <4>1. regs' = [regs EXCEPT ![<<lane, blk>>] = op[t].val] BY <3>2, <3>3 DEF WriteReg
      <4>2. <<lane, blk>> \in Cells BY <3>3 DEF Cells
      <4> QED BY <4>1, <4>2 DEF AccessInv, Typed
    <3> QED BY <1>1, <2>5, <3>1, <3>2, <3>4, <3>5 DEF Selected
  <2> QED BY <2>1, <2>2, <2>3, <2>4, <2>5 DEF WcFields
<1>5. Latched(t)'
  <2> SUFFICES ASSUME op[t].kind = "link_get", ~failed[t] PROVE Latched(t)'
    BY <1>1 DEF Latched
  <2>1. LinkFields(k[t], Txn(t)) BY <1>1, TxnFields DEF AccessInv
  <2>2. k[t] \in 1 .. 15 /\ k[t] \notin {7, 14} BY <1>1, <2>1 DEF LinkFields
  <2>3. \* what the transactions so far have left
        /\ k[t] \in {2, 9} => blk = AER
        /\ k[t] >= 3 => lane = "0"
        /\ k[t] \in {5, 6, 12, 13} => cl45.frame = "addr"
        /\ k[t] \in {6, 13} => cl45.reg = Status
        /\ k[t] = 15 => cl45 = [frame |-> "data", reg |-> Status]
        /\ k[t] >= 8 => latch["0"] \in since
        /\ k[t] = 15 => got[t] \in since
    BY <1>1, <2>2 DEF AccessInv, Latched
  <2>4. cl45 \in [frame : {"addr", "data"}, reg : {Junk, Status}] /\ lane \in LaneSet
    BY DEF AccessInv, Typed
  <2>5. k[t] \in {1, 8} => blk' = AER BY <1>1, <2>1 DEF LinkFields, WriteReg
  <2>6. k[t] >= 2 => lane' = "0"
    <3>1. CASE k[t] \in {2, 9}
      <4>1. address = "LANE" /\ param = "0" BY <1>1, <2>1, <3>1 DEF LinkFields
      <4> QED BY <2>3, <3>1, <4>1 DEF WriteReg, LaneSet
    <3>2. CASE k[t] \notin {1, 2, 9}
      <4>1. address # "LANE" BY <1>1, <2>1, <2>2, <3>2 DEF LinkFields
      <4>2. lane' = lane BY <4>1 DEF WriteReg
      <4> QED BY <2>2, <2>3, <3>2, <4>2
    <3> QED BY <3>1, <3>2
  <2>7. /\ k[t] \in {4, 5, 11, 12} => cl45'.frame = "addr"
        /\ k[t] \in {5, 12} => cl45'.reg = Status
        /\ k[t] \in {6, 13, 15} => cl45' = [frame |-> "data", reg |-> Status]
    <3>1. CASE k[t] \in {4, 11}
      <4>1. address = "CL45_CTRL" /\ param = "addr" BY <1>1, <2>1, <3>1 DEF LinkFields
      <4>2. cl45' = [cl45 EXCEPT !.frame = "addr"] BY <4>1 DEF WriteReg
      <4> QED BY <2>4, <3>1, <4>2
    <3>2. CASE k[t] \in {5, 12}
      <4>1. address = "CL45_DATA" /\ param = Status BY <1>1, <2>1, <3>2 DEF LinkFields
      <4>2. cl45' = [cl45 EXCEPT !.reg = Status] BY <2>3, <3>2, <4>1 DEF WriteReg
      <4> QED BY <2>3, <2>4, <3>2, <4>2
    <3>3. CASE k[t] \in {6, 13}
      <4>1. address = "CL45_CTRL" /\ param = "data" BY <1>1, <2>1, <3>3 DEF LinkFields
      <4>2. cl45' = [cl45 EXCEPT !.frame = "data"] BY <4>1 DEF WriteReg
      <4> QED BY <2>3, <2>4, <3>3, <4>2
    <3>4. CASE k[t] = 15
      <4>1. address = "BLK" BY <1>1, <2>1, <3>4 DEF LinkFields
      <4>2. cl45' = cl45 BY <4>1 DEF WriteReg
      <4> QED BY <2>3, <3>4, <4>2
    <3> QED BY <3>1, <3>2, <3>3, <3>4
  <2> QED BY <1>1, <1>2, <2>2, <2>3, <2>5, <2>6, <2>7 DEF Latched
<1> QED BY <1>1, <1>3, <1>4, <1>5 DEF AccessInv

-----------------------------------------------------------------------------
(* Theorems                                                                *)

LEMMA StepInv ==
  ASSUME NEW t \in Threads, Threads = {t}, AccessInv(t), [Next]_vars
  PROVE  AccessInv(t)'
<1>1. ASSUME NEW o \in Ops(t), Call(t, o) PROVE AccessInv(t)' BY <1>1, CallInv
<1>2. ASSUME Step(t) PROVE AccessInv(t)'
  BY <1>2, PrepareInv, PollDoneInv, FetchInv, FinishInv, GiveUpInv DEF Step
<1>3. ASSUME PollTimeout(t) PROVE AccessInv(t)' BY <1>3, PollTimeoutInv
<1>4. ASSUME Engine PROVE AccessInv(t)' BY <1>4, ReadInv, WriteInv DEF Engine
<1>5. ASSUME NEW l \in LaneSet, Flap(l) PROVE AccessInv(t)' BY <1>5, FlapInv
<1>6. ASSUME UNCHANGED vars PROVE AccessInv(t)'
  BY <1>6 DEF vars, threadVars, cmicVars, phyVars, AccessInv, Typed, Protocol, Selected,
              Latched, Truthful, Effected, Txn
<1> QED BY <1>1, <1>2, <1>3, <1>4, <1>5, <1>6 DEF Next

\* A wc_write() of a single thread that returned 0 left its value in the
\* register of its lane and block, a wc_read() brought that register's value,
\* and serdes_link_get() a signal the lane has had since the call, whatever
\* timed out before: the selections are written anew for every access and each
\* is waited for.
THEOREM AccessIsTruthful ==
  ASSUME NEW t \in Threads, Threads = {t}
  PROVE  Spec => []AccessTruthful
<1>1. Init => AccessInv(t) BY InitInv
<1>2. AccessInv(t) /\ [Next]_vars => AccessInv(t)' BY StepInv
<1>3. AccessInv(t) => AccessTruthful BY DEF AccessInv, Truthful, AccessTruthful
<1> QED BY <1>1, <1>2, <1>3, PTL DEF Spec

\* The same thread changes no WARPcore register but the one its wc_write() is
\* for, and a selection goes astray only in a serdes_link_get() one of whose
\* unchecked transactions has timed out.
THEOREM WritesAreAsked ==
  ASSUME NEW self \in Threads, Threads = {self}
  PROVE  Spec => OnlyAskedWrites
<1> DEFINE Asked ==
      /\ \A c \in Cells : regs'[c] # regs[c] =>
           \E t \in Threads : /\ pc[t] # "idle" /\ op[t].kind = "wc_write"
                              /\ c = <<op[t].lane, op[t].blk>> /\ regs'[c] = op[t].val
      /\ stray' # stray => \E t \in Threads : op[t].kind = "link_get" /\ failed[t]
<1>1. Init => AccessInv(self) BY InitInv
<1>2. AccessInv(self) /\ [Next]_vars => AccessInv(self)' BY StepInv
<1>3. AccessInv(self) /\ [Next]_vars => [Asked]_vars
  <2> SUFFICES ASSUME AccessInv(self), [Next]_vars PROVE [Asked]_vars OBVIOUS
  <2>1. CASE regs' = regs /\ stray' = stray BY <2>1
  <2>2. CASE Engine /\ WriteReg
    <3>1. pc[self] \in {"poll", "cancel"} BY <2>2, EngineRuns
    <3>2. ASSUME NEW c \in Cells, regs'[c] # regs[c]
          PROVE  /\ op[self].kind = "wc_write" /\ c = <<op[self].lane, op[self].blk>>
                 /\ regs'[c] = op[self].val
      <4>1. PICK d : d = <<op[self].lane, op[self].blk>> OBVIOUS
      <4>2. /\ op[self].kind = "wc_write" /\ d \in Cells
            /\ regs' = [regs EXCEPT ![d] = op[self].val]
        BY <2>2, <3>2, <4>1, WriteEffects
      <4>3. regs \in [Cells -> Content] BY DEF AccessInv, Typed
      <4>4. c = d /\ regs'[c] = op[self].val
        <5>1. c # d => regs'[c] = regs[c] BY <4>2, <4>3
        <5> QED BY <3>2, <4>2, <4>3, <5>1
      <4> QED BY <4>1, <4>2, <4>4
    <3>3. stray' # stray => op[self].kind = "link_get" /\ failed[self] BY <2>2, WriteEffects
    <3> QED BY <3>1, <3>2, <3>3
  <2>3. CASE Engine /\ ReadReg BY <2>1, <2>3 DEF ReadReg
  <2>4. ASSUME NEW u \in Threads, NEW o \in Ops(u), Call(u, o) PROVE [Asked]_vars
    BY <2>1, <2>4 DEF Call
  <2>5. ASSUME NEW u \in Threads, Step(u) \/ PollTimeout(u) PROVE [Asked]_vars
    BY <2>1, <2>5 DEF Step, ClearState, SetAddress, SetParam, Trigger, PollDone, Fetch, Finish, GiveUp,
                      PollTimeout, phyVars
  <2>6. ASSUME NEW l \in LaneSet, Flap(l) PROVE [Asked]_vars BY <2>1, <2>6 DEF Flap
  <2>7. CASE UNCHANGED vars BY <2>7
  <2> QED BY <2>2, <2>3, <2>4, <2>5, <2>6, <2>7 DEF Next, Engine
<1> QED BY <1>1, <1>2, <1>3, PTL DEF Spec, OnlyAskedWrites, Asked
=============================================================================

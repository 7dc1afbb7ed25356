--------------------------- MODULE Switchd_proofs ---------------------------
(***************************************************************************)
(* Proofs about the life of nos-switchd and its packet I/O, for any number *)
(* of ports and descriptors and any size of the DMA pool.                  *)
(***************************************************************************)
EXTENDS Switchd, FiniteSetTheorems, WellFoundedInduction, TLAPS

(***************************************************************************)
(* Where main() is, and what that says of the threads and the mapping.     *)
(***************************************************************************)
Threads  == {"main", "netlink", "link", "tx", "rx"}
SetUp    == {"attach", "init", "enable", "tun", "rx"}
Joining  == {"join_netlink", "join_link", "join_tx"}
TakeDown == Joining \cup {"close", "detach"}

PcOK ==
  /\ pc = [t \in Threads |-> pc[t]]
  /\ pc["main"] \in {"attach", "init", "enable", "tun", "rx", "threads", "run", "stop",
                     "join_netlink", "join_link", "join_tx", "close", "detach", "return"}
  /\ pc["netlink"] \in {"none", "open", "loop", "recv", "ended"}
  /\ pc["link"] \in {"none", "loop", "ended"}
  /\ pc["tx"] \in {"none", "open", "loop", "wait", "serve", "copy", "fill", "start", "status", "ended"}
  /\ pc["rx"] \in {"none", "scan", "callback", "rearm"}

\* The process was told to stop and every step of that is behind main() but
\* the last: an error before the threads exist ends main() elsewhere.
Stopped == pc["main"] = "return" /\ exit # "failed"

NoThreads == pc["netlink"] = "none" /\ pc["link"] = "none" /\ pc["tx"] = "none"

LifeInv ==
  /\ PcOK
  /\ exit \in {"no", "ok", "failed", "null_buffer", "unmapped"}
  /\ mapped \in BOOLEAN /\ running \in BOOLEAN
  /\ pc["main"] \in SetUp \cup {"threads"} => NoThreads
  /\ pc["main"] \in SetUp => pc["rx"] = "none"
  /\ exit = "failed" => pc["main"] = "return" /\ pc["rx"] = "none" /\ NoThreads
  /\ exit = "unmapped" => Stopped
  /\ pc["main"] \in TakeDown \/ Stopped => stopping = Stoppable
  /\ mapped <=> pc["main"] \notin {"attach", "return"}
  /\ pc["main"] \notin {"attach", "init", "enable", "tun", "detach", "return"} => tun_fds = PortSet
  /\ pc["main"] \in {"join_link", "join_tx", "close", "detach"} \/ Stopped => pc["netlink"] = "ended"
  /\ pc["main"] \in {"join_tx", "close", "detach"} \/ Stopped => pc["link"] = "ended"
  /\ pc["main"] \in {"close", "detach"} \/ Stopped => pc["tx"] = "ended"

LEMMA LifeInit == Init => LifeInv
<1> SUFFICES ASSUME Init PROVE LifeInv OBVIOUS
<1>1. DOMAIN Steps = Threads BY DEF Steps, Threads
<1>2. pc = [t \in Threads |-> IF t = "main" THEN "attach" ELSE "none"]
  BY <1>1 DEF Init
<1>3. exit = "no" /\ mapped = FALSE /\ running = TRUE BY DEF Init
<1> QED
  BY <1>2, <1>3 DEF LifeInv, PcOK, Threads, SetUp, TakeDown, Joining, Stopped, NoThreads

\* main() alone moves main(), and says where the other threads start.
LEMMA LifeMain == LifeInv /\ MainStep => LifeInv'
<1> SUFFICES ASSUME LifeInv, MainStep PROVE LifeInv' OBVIOUS
<1> USE DEF LifeInv, PcOK, Threads, SetUp, TakeDown, Joining, Stopped, NoThreads, Stoppable,
            At, Go, Move, Alive, hostVars
<1>1. CASE Attach BY <1>1 DEF Attach, Abandon
<1>2. CASE InitChip BY <1>2 DEF InitChip, Abandon
<1>3. CASE EnablePorts BY <1>3 DEF EnablePorts
<1>4. CASE TunCreateAll BY <1>4 DEF TunCreateAll, Abandon
<1>5. CASE RxStart
  <2>1. PICK rx \in {"scan", "none"} : pc' = [pc EXCEPT !["main"] = "threads", !["rx"] = rx]
    BY <1>5 DEF RxStart
  <2>2. UNCHANGED hostVars /\ pc["main"] = "rx" /\ exit = "no"
    BY <1>5 DEF RxStart
  <2> QED BY <2>1, <2>2
<1>6. CASE CreateThreads BY <1>6 DEF CreateThreads
<1>7. CASE WaitForSignal BY <1>7 DEF WaitForSignal
<1>8. CASE StopThreads BY <1>8 DEF StopThreads
<1>9. CASE JoinThreads BY <1>9 DEF JoinThreads
<1>10. CASE TunCloseAll BY <1>10 DEF TunCloseAll
<1>11. CASE Detach BY <1>11 DEF Detach
<1>12. CASE Return BY <1>12 DEF Return
<1> QED
  BY <1>1, <1>2, <1>3, <1>4, <1>5, <1>6, <1>7, <1>8, <1>9, <1>10, <1>11, <1>12 DEF MainStep

\* A thread that runs moves only itself; an ended thread does not run.
LEMMA LifeFrame ==
  LifeInv /\ running' \in BOOLEAN /\ UNCHANGED <<pc, exit, mapped, stopping, tun_fds>> => LifeInv'
BY DEF LifeInv, PcOK, Stopped, NoThreads

LEMMA LifeThreads ==
  LifeInv /\ (Signal \/ NetlinkStep \/ LinkState \/ EngineReceive \/ RxStep \/ EngineSend \/ TxStep)
    => LifeInv'
<1> SUFFICES ASSUME LifeInv,
                    Signal \/ NetlinkStep \/ LinkState \/ EngineReceive \/ RxStep \/ EngineSend \/ TxStep
             PROVE  LifeInv'
  OBVIOUS
<1> USE DEF LifeInv, PcOK, Threads, SetUp, TakeDown, Joining, Stopped, NoThreads, Stoppable,
            At, Go, Move, Alive, hostVars
<1>1. CASE Signal
  <2>1. running' = FALSE /\ UNCHANGED <<pc, exit, mapped, stopping, tun_fds>> BY <1>1 DEF Signal
  <2> QED BY <2>1, LifeFrame
<1>2. CASE NetlinkStep
  BY <1>2 DEF NetlinkStep, NetlinkOpen, NetlinkLoop, NetlinkReceive, NetlinkError
<1>3. CASE LinkState BY <1>3 DEF LinkState
<1>4. CASE EngineReceive
  <2>1. UNCHANGED <<pc, running, exit, mapped, stopping, tun_fds>> BY <1>4 DEF EngineReceive
  <2> QED BY <2>1, LifeFrame
<1>5. CASE RxStep
  <2>1. CASE RxFault BY <2>1 DEF RxFault
  <2>2. CASE RxScan \/ RxCallback \/ RxRearm
    <3>1. /\ UNCHANGED hostVars /\ pc["rx"] # "none"
          /\ pc' = pc \/ \E step \in {"scan", "callback", "rearm"} : pc' = [pc EXCEPT !["rx"] = step]
      BY <2>2 DEF RxScan, RxCallback, RxRearm
    <3> QED BY <3>1
  <2> QED BY <1>5, <2>1, <2>2 DEF RxStep
<1>6. CASE EngineSend
  <2>1. UNCHANGED <<pc, running, exit, mapped, stopping, tun_fds>> BY <1>6 DEF EngineSend
  <2> QED BY <2>1, LifeFrame
<1>7. CASE TxStep
  <2>1. CASE TxOpen \/ TxLoop \/ TxWait BY <2>1 DEF TxOpen, TxLoop, TxWait
  <2>2. CASE TxServe BY <2>2 DEF TxServe
  <2>3. CASE TxAlloc BY <2>3 DEF TxAlloc
  <2>4. CASE TxCopy BY <2>4 DEF TxCopy
  <2>5. CASE TxFill \/ TxStart \/ TxStatus \/ TxGiveUp
    BY <2>5 DEF TxFill, TxStart, TxStatus, TxGiveUp
  <2> QED BY <1>7, <2>1, <2>2, <2>3, <2>4, <2>5 DEF TxStep
<1> QED BY <1>1, <1>2, <1>3, <1>4, <1>5, <1>6, <1>7

LEMMA LifeAlways == Spec => []LifeInv
<1>1. LifeInv /\ [Next]_vars => LifeInv'
  <2>1. LifeInv /\ UNCHANGED vars => LifeInv'
    BY LifeFrame DEF vars, hostVars, LifeInv
  <2> QED BY <2>1, LifeMain, LifeThreads DEF Next
<1> QED BY LifeInit, <1>1, PTL DEF Spec

\* When main() closes the interfaces and detaches the chip, no thread but the
\* receive thread is left that could use them; and a fault on the unmapped
\* ring comes only then (main.c, pthread_join(); bcm56846_detach()).
THEOREM DetachIsQuiet == Spec => []DetachQuiet
<1>1. LifeInv => DetachQuiet
  BY DEF LifeInv, PcOK, DetachQuiet, Stopped, NoThreads, TakeDown, Joining, Stoppable
<1> QED BY <1>1, LifeAlways, PTL

(***************************************************************************)
(* Transmission: one buffer and one descriptor.  The thread is at "status" *)
(* for as long as the engine has not taken them, unless it gave up.        *)
(***************************************************************************)
TxInv ==
  /\ PcOK
  /\ gaveUp \in BOOLEAN /\ pending \in BOOLEAN /\ stat \in BOOLEAN
  /\ ~gaveUp =>
       /\ \A s \in sent : s[1] = s[2]
       /\ pc["tx"] = "fill" => bufFrame = frame
       /\ pc["tx"] \in {"start", "status"} => bufFrame = frame /\ dcbFrame = frame
       /\ pending => pc["tx"] = "status" /\ ~stat

LEMMA TxInit == Init => TxInv
<1> SUFFICES ASSUME Init PROVE TxInv OBVIOUS
<1>1. PcOK BY LifeInit DEF LifeInv
<1>2. sent = {} /\ pending = FALSE /\ stat = FALSE /\ gaveUp = FALSE BY DEF Init
<1>3. pc["tx"] = "none"
  <2>1. "tx" \in DOMAIN Steps BY DEF Steps
  <2> QED BY <2>1 DEF Init
<1> QED BY <1>1, <1>2, <1>3 DEF TxInv

\* What is left alone by every step but the transmit thread's own: its place
\* and its variables.
LEMMA TxFrame ==
  TxInv /\ PcOK' /\ pc'["tx"] = pc["tx"] /\ UNCHANGED txVars => TxInv'
BY DEF TxInv, txVars

\* While main() is still setting up, no thread runs: the step that creates
\* them finds nothing in flight.
LEMMA TxOthers ==
  LifeInv /\ LifeInv' /\ TxInv
    /\ (MainStep \/ Signal \/ NetlinkStep \/ LinkState \/ EngineReceive \/ RxStep) => TxInv'
<1> SUFFICES ASSUME LifeInv, LifeInv', TxInv,
                    MainStep \/ Signal \/ NetlinkStep \/ LinkState \/ EngineReceive \/ RxStep
             PROVE  TxInv'
  OBVIOUS
<1>1. CASE CreateThreads
  <2>1. pc["tx"] = "none" /\ pc'["tx"] = "open" /\ UNCHANGED txVars
    BY <1>1 DEF CreateThreads, At, LifeInv, PcOK, Threads, SetUp, NoThreads
  <2> QED BY <2>1 DEF TxInv, LifeInv, txVars
<1>2. CASE MainStep /\ ~CreateThreads
  <2>1. UNCHANGED txVars
    BY <1>2 DEF MainStep, Attach, Abandon, InitChip, EnablePorts, TunCreateAll, RxStart,
                WaitForSignal, StopThreads, JoinThreads, TunCloseAll, Detach, Return, Move
  <2>2. pc'["tx"] = pc["tx"]
    <3>1. CASE RxStart
      <4>1. PICK rx \in {"scan", "none"} : pc' = [pc EXCEPT !["main"] = "threads", !["rx"] = rx]
        BY <3>1 DEF RxStart
      <4> QED BY <4>1 DEF LifeInv, PcOK, Threads
    <3>2. CASE ~RxStart
      BY <1>2, <3>2 DEF MainStep, Attach, Abandon, InitChip, EnablePorts, TunCreateAll,
                WaitForSignal, StopThreads, JoinThreads, TunCloseAll, Detach, Return, Move, Go,
                LifeInv, PcOK, Threads
    <3> QED BY <3>1, <3>2
  <2> QED BY <2>1, <2>2, TxFrame DEF LifeInv
<1>3. CASE Signal \/ EngineReceive
  <2>1. UNCHANGED <<pc, txVars>> BY <1>3 DEF Signal, EngineReceive
  <2> QED BY <2>1, TxFrame DEF LifeInv
<1>4. CASE NetlinkStep \/ LinkState \/ RxStep
  <2>1. UNCHANGED txVars /\ pc'["tx"] = pc["tx"]
    BY <1>4 DEF NetlinkStep, NetlinkOpen, NetlinkLoop, NetlinkReceive, NetlinkError, LinkState,
                RxStep, RxFault, RxScan, RxCallback, RxRearm, Move, Go, LifeInv, PcOK, Threads
  <2> QED BY <2>1, TxFrame DEF LifeInv
<1> QED BY <1>1, <1>2, <1>3, <1>4

\* With a status bit that says "done", the thread leaves "status" only behind
\* the engine; the engine takes a buffer and a descriptor of one frame.
LEMMA TxThread ==
  ASSUME StatBit0 = "done"
  PROVE  LifeInv' /\ TxInv /\ (EngineSend \/ TxStep) => TxInv'
<1> SUFFICES ASSUME LifeInv', TxInv, EngineSend \/ TxStep PROVE TxInv' OBVIOUS
<1> USE DEF TxInv, PcOK, Threads, txVars, At, Go, Move, LifeInv
<1>1. CASE EngineSend
  <2>1. /\ pending /\ pending' = FALSE /\ stat' = TRUE /\ sent' = sent \cup {<<bufFrame, dcbFrame>>}
        /\ UNCHANGED <<pc, frame, bufFrame, dcbFrame, gaveUp>>
    BY <1>1 DEF EngineSend
  <2>2. ~gaveUp => bufFrame = dcbFrame BY <2>1
  <2>3. ~gaveUp => \A s \in sent' : s[1] = s[2] BY <2>1, <2>2
  <2> QED BY <2>1, <2>3
<1>2. CASE TxOpen \/ TxLoop \/ TxWait BY <1>2 DEF TxOpen, TxLoop, TxWait
<1>3. CASE TxServe BY <1>3 DEF TxServe
<1>4. CASE TxAlloc BY <1>4 DEF TxAlloc
<1>5. CASE TxCopy BY <1>5 DEF TxCopy
<1>6. CASE TxFill BY <1>6 DEF TxFill
<1>7. CASE TxStart
  <2>1. CASE Move("tx", "start", "serve") BY <2>1
  <2>2. CASE /\ At("tx", "start") /\ Go("tx", "status")
             /\ pending' = TRUE /\ stat' = (StatBit0 = "enabled")
             /\ UNCHANGED <<frame, bufFrame, dcbFrame, sent, gaveUp>>
    <3>1. stat' = FALSE BY <2>2
    <3> QED BY <2>2, <3>1
  <2> QED BY <1>7, <2>1, <2>2 DEF TxStart
<1>8. CASE TxStatus BY <1>8 DEF TxStatus
<1>9. CASE TxGiveUp BY <1>9 DEF TxGiveUp
<1> QED BY <1>1, <1>2, <1>3, <1>4, <1>5, <1>6, <1>7, <1>8, <1>9 DEF TxStep

\* Unless a transmit gave up, every frame leaves with its own descriptor:
\* where CMIC_DMA_STAT says "done", bcm56846_tx() does not fill its one buffer
\* before the engine has taken it (pktio.c, "Poll completion").  Where the bit
\* says "enabled" this is false, and a run shows how.
THEOREM TxIsIntact ==
  ASSUME StatBit0 = "done"
  PROVE  Spec => []TxIntact
<1>1. LifeInv /\ LifeInv' /\ TxInv /\ [Next]_vars => TxInv'
  <2>1. LifeInv /\ LifeInv' /\ TxInv /\ UNCHANGED vars => TxInv'
    BY TxFrame DEF vars, LifeInv
  <2> QED BY <2>1, TxOthers, TxThread DEF Next
<1>2. TxInv => TxIntact BY DEF TxInv, TxIntact
<1> QED BY TxInit, <1>1, <1>2, LifeAlways, PTL DEF Spec

(***************************************************************************)
(* Reception: where each frame the chip received is.                       *)
(***************************************************************************)
\* Descriptor i holds a frame the callback has not been called with.
Waiting(i) == status[i] /\ ~(pc["rx"] = "rearm" /\ scan = i)

HandedOn == Delivered \cup Dropped

RingOK ==
  /\ status \in [Dcbs -> BOOLEAN] /\ held \in [Dcbs -> Nat]
  /\ engine \in Dcbs /\ scan \in Dcbs
  /\ received \in Nat /\ received <= MaxRx
  /\ tap \in Seq(1 .. MaxRx)

RxInv ==
  /\ PcOK /\ RingOK
  /\ pc["rx"] \in {"callback", "rearm"} => status[scan]
  /\ \A i \in Dcbs : held[i] <= received /\ (status[i] => held[i] # 0)
  /\ \A i, j \in Dcbs : held[i] = held[j] /\ held[i] # 0 => i = j
  /\ \A k, l \in DOMAIN tap : tap[k] = tap[l] => k = l
  /\ Delivered \cap Dropped = {}
  /\ \A d, e \in drops : d[1] = e[1] => d = e
  /\ \A d \in drops : d[2] = "closed" => stopping = Stoppable
  /\ HandedOn \subseteq 1 .. received
  /\ \A f \in 1 .. received : f \notin HandedOn <=> \E i \in Dcbs : held[i] = f /\ Waiting(i)

\* The ring has a descriptor, and the next one is on it again.
LEMMA NextDcb == ASSUME NEW i \in Dcbs PROVE (i + 1) % RX_DCBS \in Dcbs
BY SwitchdAssumption DEF Dcbs

LEMMA RxInit == Init => RxInv
<1> SUFFICES ASSUME Init PROVE RxInv OBVIOUS
<1>1. PcOK BY LifeInit DEF LifeInv
<1>2. pc["rx"] = "none"
  <2>1. "rx" \in DOMAIN Steps BY DEF Steps
  <2> QED BY <2>1 DEF Init
<1>3. /\ status = [i \in Dcbs |-> FALSE] /\ held = [i \in Dcbs |-> 0] /\ engine = 0 /\ scan = 0
      /\ received = 0 /\ tap = << >> /\ drops = {}
  BY DEF Init
<1>4. Delivered = {} /\ Dropped = {} BY <1>3 DEF Delivered, Dropped
<1>5. 0 \in Dcbs /\ RX_DCBS \in Nat BY SwitchdAssumption DEF Dcbs
<1>6. RingOK BY <1>3, <1>5, SwitchdAssumption DEF RingOK
<1>7. Delivered \cap Dropped = {} /\ HandedOn \subseteq 1 .. received BY <1>3, <1>4 DEF HandedOn
<1> QED BY <1>1, <1>2, <1>3, <1>6, <1>7 DEF RxInv

LEMMA RxFrame ==
  RxInv /\ PcOK' /\ (pc'["rx"] = pc["rx"] \/ {pc["rx"], pc'["rx"]} \subseteq {"none", "scan"})
    /\ UNCHANGED rxVars /\ (stopping' = stopping \/ stopping' = Stoppable) => RxInv'
<1> SUFFICES ASSUME RxInv, PcOK', UNCHANGED rxVars,
                    pc'["rx"] = pc["rx"] \/ {pc["rx"], pc'["rx"]} \subseteq {"none", "scan"},
                    stopping' = stopping \/ stopping' = Stoppable
             PROVE  RxInv'
  OBVIOUS
<1>1. UNCHANGED <<status, held, engine, scan, received, tap, drops>> BY DEF rxVars
<1>2. UNCHANGED <<HandedOn, Delivered, Dropped>> /\ RingOK'
  BY <1>1 DEF RxInv, RingOK, HandedOn, Delivered, Dropped
<1>3. (pc["rx"] \in {"callback", "rearm"} => status[scan])' BY <1>1 DEF RxInv
<1>4. \A i \in Dcbs : Waiting(i)' <=> Waiting(i) BY <1>1 DEF Waiting
<1>5. (\A d \in drops : d[2] = "closed" => stopping = Stoppable)' BY <1>1 DEF RxInv
<1>6. (\A f \in 1 .. received : f \notin HandedOn <=> \E i \in Dcbs : held[i] = f /\ Waiting(i))'
  BY <1>1, <1>2, <1>4 DEF RxInv, Waiting
<1>7. (/\ \A i \in Dcbs : held[i] <= received /\ (status[i] => held[i] # 0)
       /\ \A i, j \in Dcbs : held[i] = held[j] /\ held[i] # 0 => i = j
       /\ \A k, l \in DOMAIN tap : tap[k] = tap[l] => k = l
       /\ \A d, e \in drops : d[1] = e[1] => d = e)'
  BY <1>1 DEF RxInv
<1>8. (Delivered \cap Dropped = {} /\ HandedOn \subseteq 1 .. received)' BY <1>1, <1>2 DEF RxInv
<1> QED BY <1>2, <1>3, <1>5, <1>6, <1>7, <1>8 DEF RxInv

\* No other thread is anywhere near the ring; main() starts the receive thread.
LEMMA RxOthers ==
  LifeInv /\ LifeInv' /\ RxInv
    /\ (MainStep \/ Signal \/ NetlinkStep \/ LinkState \/ EngineSend \/ TxStep) => RxInv'
<1> SUFFICES ASSUME LifeInv, LifeInv', RxInv,
                    MainStep \/ Signal \/ NetlinkStep \/ LinkState \/ EngineSend \/ TxStep
             PROVE  RxInv'
  OBVIOUS
<1>1. CASE RxStart
  <2>1. UNCHANGED <<rxVars, stopping>> /\ pc["main"] = "rx" BY <1>1 DEF RxStart, At, hostVars
  <2>2. PICK rx \in {"scan", "none"} : pc' = [pc EXCEPT !["main"] = "threads", !["rx"] = rx]
    BY <1>1 DEF RxStart
  <2>3. pc["rx"] = "none" BY <2>1 DEF LifeInv, SetUp
  <2>4. pc'["rx"] = rx BY <2>2 DEF LifeInv, PcOK, Threads
  <2> QED BY <2>1, <2>3, <2>4, RxFrame DEF LifeInv
<1>2. CASE MainStep /\ ~RxStart
  <2>1. UNCHANGED rxVars /\ (stopping' = stopping \/ stopping' = Stoppable)
    BY <1>2 DEF MainStep, Attach, Abandon, InitChip, EnablePorts, TunCreateAll, CreateThreads,
                WaitForSignal, StopThreads, JoinThreads, TunCloseAll, Detach, Return, Move, hostVars
  <2>2. pc'["rx"] = pc["rx"]
    BY <1>2 DEF MainStep, Attach, Abandon, InitChip, EnablePorts, TunCreateAll, CreateThreads,
              WaitForSignal, StopThreads, JoinThreads, TunCloseAll, Detach, Return, Move, Go,
              LifeInv, PcOK, Threads
  <2> QED BY <2>1, <2>2, RxFrame DEF LifeInv
<1>3. CASE Signal \/ EngineSend
  <2>1. UNCHANGED <<pc, rxVars, stopping>> BY <1>3 DEF Signal, EngineSend, hostVars
  <2> QED BY <2>1, RxFrame DEF LifeInv
<1>4. CASE NetlinkStep \/ LinkState
  <2>1. UNCHANGED <<rxVars, stopping>> /\ pc'["rx"] = pc["rx"]
    BY <1>4 DEF NetlinkStep, NetlinkOpen, NetlinkLoop, NetlinkReceive, NetlinkError, LinkState,
                Move, Go, hostVars, LifeInv, PcOK, Threads
  <2> QED BY <2>1, RxFrame DEF LifeInv
<1>5. CASE TxStep
  <2>1. UNCHANGED <<rxVars, stopping>> /\ pc'["rx"] = pc["rx"]
    BY <1>5 DEF hostVars, TxStep, TxOpen, TxLoop, TxWait, TxServe, TxAlloc, TxCopy, TxFill, TxStart,
                TxStatus, TxGiveUp, Move, Go, LifeInv, PcOK, Threads
  <2> QED BY <2>1, RxFrame DEF LifeInv
<1> QED BY <1>1, <1>2, <1>3, <1>4, <1>5

\* The engine takes a descriptor whose frame, if it ever had one, was handed
\* on; the frame it puts there is a new one.
LEMMA RxEngine == RxInv /\ EngineReceive => RxInv'
<1> SUFFICES ASSUME RxInv, EngineReceive PROVE RxInv' OBVIOUS
<1> USE DEF RxInv, RingOK
<1>0. PICK e \in Dcbs : e = engine OBVIOUS
<1>1. /\ ~status[engine] /\ received < MaxRx /\ received' = received + 1
      /\ status' = [status EXCEPT ![engine] = TRUE]
      /\ held' = [held EXCEPT ![engine] = received + 1]
      /\ engine' = (engine + 1) % RX_DCBS
      /\ UNCHANGED <<pc, scan, tap, drops, stopping>>
  BY DEF EngineReceive, hostVars
<1>2. PcOK' BY <1>1 DEF PcOK
<1>3. RingOK' BY <1>1, NextDcb, SwitchdAssumption
<1>4. (pc["rx"] \in {"callback", "rearm"} => status[scan])' BY <1>1
<1>5. (\A i \in Dcbs : held[i] <= received /\ (status[i] => held[i] # 0))' BY <1>1
<1>6. (\A i, j \in Dcbs : held[i] = held[j] /\ held[i] # 0 => i = j)'
  BY <1>1
<1>7. Delivered' = Delivered /\ Dropped' = Dropped /\ HandedOn' = HandedOn
  BY <1>1 DEF Delivered, Dropped, HandedOn
<1>8. \A i \in Dcbs : i # e => Waiting(i)' = Waiting(i) /\ held'[i] = held[i]
  BY <1>0, <1>1 DEF Waiting
<1>9. Waiting(e)' /\ ~Waiting(e) /\ held'[e] = received + 1
  BY <1>0, <1>1 DEF Waiting
<1>10. ASSUME NEW f \in 1 .. received'
       PROVE  f \notin HandedOn <=> \E i \in Dcbs : held'[i] = f /\ Waiting(i)'
  <2>1. CASE f = received + 1
    <3>1. f \notin HandedOn
      <4>1. received + 1 \notin 1 .. received OBVIOUS
      <4> QED BY <4>1, <2>1
    <3> QED BY <2>1, <3>1, <1>9
  <2>2. CASE f # received + 1
    <3>1. f \in 1 .. received
      <4>1. f \in 1 .. received + 1 BY <1>1
      <4> QED BY <4>1, <2>2
    <3>2. ASSUME NEW i \in Dcbs
          PROVE  held'[i] = f /\ Waiting(i)' <=> held[i] = f /\ Waiting(i)
      <4>1. CASE i = e BY <4>1, <1>9, <2>2 DEF Waiting
      <4>2. CASE i # e BY <4>2, <1>8 DEF Waiting
      <4> QED BY <4>1, <4>2
    <3> QED BY <3>1, <3>2
  <2> QED BY <2>1, <2>2
<1>11. (\A k, l \in DOMAIN tap : tap[k] = tap[l] => k = l)' BY <1>1
<1>12. (/\ Delivered \cap Dropped = {} /\ HandedOn \subseteq 1 .. received
        /\ \A d, c \in drops : d[1] = c[1] => d = c
        /\ \A d \in drops : d[2] = "closed" => stopping = Stoppable)'
  BY <1>1, <1>7
<1>13. (\A f \in 1 .. received : f \notin HandedOn <=> \E i \in Dcbs : held[i] = f /\ Waiting(i))'
  BY <1>7, <1>10 DEF Waiting
<1> HIDE DEF RxInv, RingOK
<1> QED BY <1>2, <1>3, <1>4, <1>5, <1>6, <1>11, <1>12, <1>13 DEF RxInv

\* The receive thread is through with the frame of descriptor s: it has been
\* appended to tap, or dropped for one reason.
PassedOn(s) ==
  /\ status[s] /\ scan = s /\ pc["rx"] # "rearm" /\ pc'["rx"] = "rearm" /\ PcOK'
  /\ UNCHANGED <<status, held, engine, scan, received, stopping>>
  /\ \/ tap' = Append(tap, held[s]) /\ drops' = drops
     \/ \E why : /\ drops' = drops \cup {<<held[s], why>>} /\ tap' = tap
                 /\ why = "closed" => stopping = Stoppable

\* That frame was waiting, and no other is concerned.
LEMMA RxPassOn == ASSUME RxInv, NEW s \in Dcbs, PassedOn(s) PROVE RxInv'
<1> DEFINE g == held[s]
<1>2. /\ UNCHANGED <<status, held, engine, scan, received, stopping>> /\ s = scan
      /\ pc["rx"] # "rearm" /\ pc'["rx"] = "rearm" /\ PcOK' /\ status[s]
  BY DEF PassedOn
<1>3. Waiting(s) BY <1>2 DEF Waiting
<1>4. g \in 1 .. received /\ g \in 1 .. MaxRx
  BY <1>2, SwitchdAssumption DEF RxInv, RingOK
<1>5. g \notin HandedOn BY <1>3, <1>4 DEF RxInv
<1>6. tap \in Seq(1 .. MaxRx) /\ received \in Nat BY DEF RxInv, RingOK
<1> DEFINE Accounted ==
             /\ tap' \in Seq(1 .. MaxRx) /\ HandedOn' = HandedOn \cup {g}
             /\ (Delivered \cap Dropped = {})'
             /\ \A k, l \in DOMAIN tap' : tap'[k] = tap'[l] => k = l
             /\ \A d, e \in drops' : d[1] = e[1] => d = e
             /\ \A d \in drops' : d[2] = "closed" => stopping = Stoppable
<1>7. Accounted
  <2>1. CASE tap' = Append(tap, g) /\ drops' = drops
    <3>1. /\ tap' \in Seq(1 .. MaxRx) /\ Len(tap') = Len(tap) + 1 /\ Len(tap) \in Nat
          /\ tap'[Len(tap) + 1] = g /\ \A k \in 1 .. Len(tap) : tap'[k] = tap[k]
      BY <2>1, <1>4, <1>6
    <3>2. DOMAIN tap' = DOMAIN tap \cup {Len(tap) + 1} /\ DOMAIN tap = 1 .. Len(tap)
      BY <3>1, <1>6
    <3>3. Delivered' = Delivered \cup {g} /\ Dropped' = Dropped
      BY <2>1, <3>1, <3>2 DEF Delivered, Dropped
    <3>4. \A k \in DOMAIN tap : tap[k] # g BY <1>5 DEF HandedOn, Delivered
    <3>5. \A k, l \in DOMAIN tap' : tap'[k] = tap'[l] => k = l
      BY <3>1, <3>2, <3>4 DEF RxInv
    <3>6. HandedOn' = HandedOn \cup {g} /\ (Delivered \cap Dropped = {})'
      BY <3>3, <1>5 DEF HandedOn, RxInv
    <3> QED BY <2>1, <3>1, <3>5, <3>6 DEF RxInv
  <2>2. ASSUME NEW why, drops' = drops \cup {<<g, why>>}, tap' = tap,
               why = "closed" => stopping = Stoppable
        PROVE  Accounted
    <3>0. Delivered' = Delivered BY <2>2 DEF Delivered
    <3>1. Delivered' = Delivered /\ Dropped' = Dropped \cup {g}
      <4> DEFINE e == <<g, why>>
      <4>1. e[1] = g OBVIOUS
      <4>2. drops' = drops \cup {e} BY <2>2
      <4> HIDE DEF e, g, Accounted
      <4>3. {d[1] : d \in drops'} = {d[1] : d \in drops} \cup {g} BY <4>1, <4>2
      <4> QED BY <3>0, <4>3 DEF Dropped
    <3>2. \A d \in drops : d[1] # g BY <1>5 DEF HandedOn, Dropped
    <3>3. HandedOn' = HandedOn \cup {g} /\ (Delivered \cap Dropped = {})'
      BY <3>1, <1>5 DEF HandedOn, RxInv
    <3>4. \A d, e \in drops' : d[1] = e[1] => d = e
      BY <2>2, <3>2 DEF RxInv
    <3>5. \A d \in drops' : d[2] = "closed" => stopping = Stoppable
      BY <2>2 DEF RxInv
    <3> QED BY <2>2, <1>6, <3>3, <3>4, <3>5 DEF RxInv
  <2>3. \/ tap' = Append(tap, g) /\ drops' = drops
        \/ \E why : /\ drops' = drops \cup {<<g, why>>} /\ tap' = tap
                    /\ why = "closed" => stopping = Stoppable
    BY DEF PassedOn
  <2> HIDE DEF Accounted, g
  <2> QED BY <2>1, <2>2, <2>3
<1>8. RingOK' BY <1>2, <1>7 DEF RxInv, RingOK
<1>9. ASSUME NEW f \in 1 .. received
      PROVE  f \notin HandedOn' <=> \E i \in Dcbs : held'[i] = f /\ Waiting(i)'
  <2>1. \A i \in Dcbs : Waiting(i)' <=> Waiting(i) /\ i # s
    BY <1>2 DEF Waiting
  <2>2. f \notin HandedOn <=> \E i \in Dcbs : held[i] = f /\ Waiting(i) BY DEF RxInv
  <2>3. CASE f = g
    <3>1. \A i \in Dcbs : held[i] = g => i = s BY <1>4 DEF RxInv
    <3> QED BY <2>1, <2>3, <3>1, <1>2, <1>7 DEF Waiting
  <2>4. CASE f # g BY <2>1, <2>2, <2>4, <1>2, <1>7 DEF Waiting
  <2> QED BY <2>3, <2>4
<1>10. (HandedOn \subseteq 1 .. received)' BY <1>2, <1>4, <1>7 DEF RxInv
<1>11. (pc["rx"] \in {"callback", "rearm"} => status[scan])' BY <1>2
<1>12. (/\ \A i \in Dcbs : held[i] <= received /\ (status[i] => held[i] # 0)
        /\ \A i, j \in Dcbs : held[i] = held[j] /\ held[i] # 0 => i = j)'
  BY <1>2 DEF RxInv
<1>13. (\A f \in 1 .. received : f \notin HandedOn <=> \E i \in Dcbs : held[i] = f /\ Waiting(i))'
  BY <1>2, <1>9 DEF Waiting
<1>14. (\A d \in drops : d[2] = "closed" => stopping = Stoppable)' BY <1>2, <1>7
<1> QED BY <1>2, <1>7, <1>8, <1>10, <1>11, <1>12, <1>13, <1>14 DEF RxInv

\* The receive thread looks for a frame, or drops one of an impossible length.
LEMMA RxLook == RxInv /\ (RxFault \/ RxScan) => RxInv'
<1> SUFFICES ASSUME RxInv, RxFault \/ RxScan PROVE RxInv' OBVIOUS
<1>1. CASE RxFault
  <2>1. UNCHANGED <<pc, rxVars, stopping>> BY <1>1 DEF RxFault
  <2> QED BY <2>1, RxFrame DEF RxInv, PcOK
<1>2. CASE RxScan
  <2>0. PICK s \in Dcbs : s = scan BY DEF RxInv, RingOK
  <2>1. /\ pc["rx"] = "scan" /\ UNCHANGED <<status, held, engine, received, stopping>>
        /\ \/ /\ pc' = [pc EXCEPT !["rx"] = "rearm"] /\ scan' = scan /\ status[s]
              /\ drops' = drops \cup {<<held[s], "length">>} /\ tap' = tap
           \/ /\ drops' = drops /\ tap' = tap
              /\ \/ status[scan] /\ pc' = [pc EXCEPT !["rx"] = "callback"] /\ scan' = scan
                 \/ scan' = (scan + 1) % RX_DCBS /\ pc' = pc
    BY <1>2, <2>0 DEF RxScan, At, Go, Drop, hostVars
  <2>2. PcOK' BY <2>1 DEF RxInv, PcOK, Threads
  <2>3. CASE drops' = drops \cup {<<held[s], "length">>} /\ pc' = [pc EXCEPT !["rx"] = "rearm"]
             /\ scan' = scan /\ status[s] /\ tap' = tap
    <3>1. pc'["rx"] = "rearm" BY <2>3 DEF RxInv, PcOK, Threads
    <3>2. PassedOn(s) BY <2>0, <2>1, <2>2, <2>3, <3>1 DEF PassedOn
    <3> QED BY <3>2, RxPassOn
  <2>4. CASE drops' = drops /\ tap' = tap
             /\ \/ status[scan] /\ pc' = [pc EXCEPT !["rx"] = "callback"] /\ scan' = scan
                \/ scan' = (scan + 1) % RX_DCBS /\ pc' = pc
    <3>1. RingOK' BY <2>1, <2>4, NextDcb DEF RxInv, RingOK
    <3>2. pc'["rx"] # "rearm" /\ (pc'["rx"] = "callback" => status'[scan'])
      BY <2>1, <2>4 DEF RxInv, PcOK, Threads
    <3>3. Delivered' = Delivered /\ Dropped' = Dropped /\ HandedOn' = HandedOn
      BY <2>4 DEF Delivered, Dropped, HandedOn
    <3> QED BY <2>1, <2>2, <2>4, <3>1, <3>2, <3>3 DEF RxInv, Waiting
  <2> QED BY <2>1, <2>3, <2>4
<1> QED BY <1>1, <1>2

\* The callback is called with a frame that was waiting; it finds an interface
\* closed only after the threads were told to stop.
LEMMA RxHandOn == LifeInv /\ RxInv /\ RxCallback => RxInv'
<1> SUFFICES ASSUME LifeInv, RxInv, RxCallback PROVE RxInv' OBVIOUS
<1>1. PICK s \in Dcbs : s = scan BY DEF RxInv, RingOK
<1>2. /\ pc["rx"] = "callback" /\ pc' = [pc EXCEPT !["rx"] = "rearm"] /\ exit = "no"
      /\ UNCHANGED <<status, held, engine, scan, received, stopping>>
  BY DEF RxCallback, At, Go, Alive, hostVars
<1>3. /\ PcOK' /\ pc'["rx"] = "rearm" BY <1>2 DEF RxInv, PcOK, Threads
<1>4. status[s] BY <1>1, <1>2 DEF RxInv
<1>5. FramePort(held[s]) \in PortSet
  BY SwitchdAssumption DEF FramePort, PortSet, RxInv, RingOK
<1>6. FramePort(held[s]) \notin tun_fds => stopping = Stoppable
  <2> SUFFICES ASSUME FramePort(held[s]) \notin tun_fds PROVE stopping = Stoppable OBVIOUS
  <2>1. pc["main"] \in {"attach", "init", "enable", "tun", "detach", "return"} BY <1>5 DEF LifeInv
  <2>2. pc["main"] \in {"detach", "return"} BY <2>1, <1>2 DEF LifeInv, SetUp
  <2> QED BY <2>2, <1>2 DEF LifeInv, TakeDown, Stopped
<1>7. \/ tap' = Append(tap, held[s]) /\ drops' = drops
      \/ \E why : /\ drops' = drops \cup {<<held[s], why>>} /\ tap' = tap
                  /\ why = "closed" => stopping = Stoppable
  BY <1>1, <1>6 DEF RxCallback, Drop
<1>8. PassedOn(s) BY <1>1, <1>2, <1>3, <1>4, <1>7 DEF PassedOn
<1> QED BY <1>8, RxPassOn

\* The descriptor handed back to the engine is one whose frame was handed on.
LEMMA RxHandBack == RxInv /\ RxRearm => RxInv'
<1> SUFFICES ASSUME RxInv, RxRearm PROVE RxInv' OBVIOUS
<1>1. PICK s \in Dcbs : s = scan BY DEF RxInv, RingOK
<1>2. /\ pc["rx"] = "rearm" /\ pc' = [pc EXCEPT !["rx"] = "scan"]
      /\ status' = [status EXCEPT ![s] = FALSE] /\ scan' = (s + 1) % RX_DCBS
      /\ UNCHANGED <<held, engine, received, tap, drops, stopping>>
  BY <1>1 DEF RxRearm, At, Go, hostVars
<1>3. PcOK' /\ pc'["rx"] = "scan" BY <1>2 DEF RxInv, PcOK, Threads
<1>4. RingOK' BY <1>2, NextDcb DEF RxInv, RingOK
<1>5. Delivered' = Delivered /\ Dropped' = Dropped /\ HandedOn' = HandedOn
  BY <1>2 DEF Delivered, Dropped, HandedOn
<1>6. \A i \in Dcbs : Waiting(i)' <=> Waiting(i)
  BY <1>1, <1>2, <1>3 DEF Waiting, RxInv, RingOK
<1>7. (/\ pc["rx"] \in {"callback", "rearm"} => status[scan]
       /\ \A i \in Dcbs : held[i] <= received /\ (status[i] => held[i] # 0)
       /\ \A i, j \in Dcbs : held[i] = held[j] /\ held[i] # 0 => i = j)'
  BY <1>2, <1>3 DEF RxInv, RingOK
<1>8. (\A f \in 1 .. received : f \notin HandedOn <=> \E i \in Dcbs : held[i] = f /\ Waiting(i))'
  BY <1>2, <1>5, <1>6 DEF RxInv, Waiting
<1> QED BY <1>2, <1>3, <1>4, <1>5, <1>7, <1>8 DEF RxInv

LEMMA RxAlways == Spec => []RxInv
<1>1. LifeInv /\ LifeInv' /\ RxInv /\ [Next]_vars => RxInv'
  <2>1. RxInv /\ UNCHANGED vars => RxInv'
    BY RxFrame DEF vars, hostVars, RxInv, PcOK
  <2> QED BY <2>1, RxOthers, RxEngine, RxLook, RxHandOn, RxHandBack DEF Next, RxStep
<1> QED BY RxInit, <1>1, LifeAlways, PTL DEF Spec

\* A sequence that repeats nothing has as many elements as places.
LEMMA NoRepeatLen ==
  ASSUME NEW S, NEW q \in Seq(S), \A k, l \in DOMAIN q : q[k] = q[l] => k = l
  PROVE  Cardinality({q[k] : k \in DOMAIN q}) = Len(q)
<1> DEFINE R == {q[k] : k \in DOMAIN q}
<1>1. Len(q) \in Nat /\ DOMAIN q = 1 .. Len(q) /\ q = [k \in 1 .. Len(q) |-> q[k]] OBVIOUS
<1>2. q \in Bijection(1 .. Len(q), R)
  <2>1. q \in [1 .. Len(q) -> R] BY <1>1
  <2>2. \A k, l \in 1 .. Len(q) : q[k] = q[l] => k = l BY <1>1
  <2>3. \A r \in R : \E k \in 1 .. Len(q) : q[k] = r BY <1>1
  <2> HIDE DEF R
  <2> QED BY <2>1, <2>2, <2>3 DEF Bijection, Injection, Surjection, IsInjective
<1>3. ExistsBijection(1 .. Len(q), R) BY <1>2 DEF ExistsBijection
<1> HIDE DEF R
<1>4. Cardinality(R) = Len(q) BY <1>1, <1>3, FS_CountingElements
<1> QED BY <1>4 DEF R

\* Every frame the chip received is accounted for, once, whatever the number
\* of descriptors and whoever runs in between: it is in the ring until the
\* receive thread is through with it, and then was written to its interface or
\* dropped for one reason, a closed interface only in a shutdown (pktio.c,
\* rx_thread_main(); tx_rx.c, rx_callback()).
THEOREM RxIsConserved == Spec => []RxConserved
<1>1. RxInv => RxConserved
  <2> SUFFICES ASSUME RxInv PROVE RxConserved OBVIOUS
  <2>1. Cardinality(Delivered) = Len(tap)
    BY NoRepeatLen DEF RxInv, RingOK, Delivered
  <2>2. \A f : InRing(f) <=> \E i \in Dcbs : held[i] = f /\ Waiting(i)
    BY DEF RxInv, InRing, Waiting
  <2> QED BY <2>1, <2>2 DEF RxInv, RxConserved, HandedOn
<1> QED BY <1>1, RxAlways, PTL

(***************************************************************************)
(* The DMA pool.  Offsets and sizes are multiples of 64, so that alignment *)
(* never leaves a gap, and the loop over the buffers has a closed form.    *)
(***************************************************************************)
\* Induction without a scheme: a set of naturals has a least element.
LEMMA Least ==
  ASSUME NEW T \in SUBSET Nat, T # {}
  PROVE  \E m \in T : \A k \in T : m <= k
<1>1. PICK m \in T : \A k \in T : ~(<<k, m>> \in OpToRel(<, Nat))
  BY NatLessThanWellFounded, WFMin, Zenon
<1>2. ASSUME NEW k \in T PROVE m <= k
  <2>1. k \in Nat /\ m \in Nat OBVIOUS
  <2>2. ~(k < m) BY <1>1, <2>1 DEF OpToRel
  <2> QED BY <2>1, <2>2
<1> QED BY <1>2

Aligned(off) == \E q \in Nat : off = 64 * q

\* At such an offset dma_alloc() hands out the offset itself, or NULL.
LEMMA Allocates ==
  ASSUME NEW off, Aligned(off), NEW size \in Nat, NEW align \in {16, 64}
  PROVE  dma_alloc(off, size, align) =
           IF off + size <= dma_size THEN [at |-> off, off |-> off + size] ELSE [at |-> 0, off |-> off]
<1>1. AlignUp(off, align) = off
  <2>1. PICK q \in Nat : off = 64 * q BY DEF Aligned
  <2>2. CASE align = 16 BY <2>1, <2>2 DEF AlignUp
  <2>3. CASE align = 64 BY <2>1, <2>3 DEF AlignUp
  <2> QED BY <2>2, <2>3
<1> QED BY <1>1 DEF dma_alloc, Fits

\* Where the buffers come to lie when k of them fit.
BufsAt(off, k) ==
  [i \in Dcbs |-> IF i < k THEN [at |-> off + i * 2048, off |-> off + (i + 1) * 2048]
                  ELSE [at |-> 0, off |-> off + k * 2048]]

\* The number of buffers that fit.
Fitting(off, k) ==
  /\ k \in 0 .. RX_DCBS /\ off + k * 2048 <= dma_size
  /\ k = RX_DCBS \/ off + (k + 1) * 2048 > dma_size

LEMMA SomeFit ==
  ASSUME NEW off \in Nat, dma_size \in Nat, off <= dma_size
  PROVE  \E k \in 0 .. RX_DCBS : Fitting(off, k)
<1> DEFINE T == {k \in Nat : k = RX_DCBS \/ off + (k + 1) * 2048 > dma_size}
<1>1. T \in SUBSET Nat /\ RX_DCBS \in T BY SwitchdAssumption
<1> HIDE DEF T
<1>2. PICK k \in T : \A l \in T : k <= l BY <1>1, Least
<1>3. k \in Nat /\ k <= RX_DCBS /\ RX_DCBS \in Nat BY <1>1, <1>2, SwitchdAssumption
<1>4. off + k * 2048 <= dma_size
  <2>1. CASE k = 0 BY <2>1
  <2>2. CASE k # 0
    <3>1. k - 1 \in Nat /\ k - 1 \notin T BY <1>2, <1>3, <2>2
    <3> QED BY <3>1, <1>3 DEF T
  <2> QED BY <2>1, <2>2
<1>5. k = RX_DCBS \/ off + (k + 1) * 2048 > dma_size BY DEF T
<1> QED BY <1>3, <1>4, <1>5 DEF Fitting

\* One turn of the loop that allocates the buffers.
BufLoop(place, off) ==
  [i \in Dcbs |-> dma_alloc(IF i = 0 THEN off ELSE place[i - 1].off, BufSize, 16)]

LEMMA BufsAtLoop ==
  ASSUME NEW off, Aligned(off), dma_size \in Nat, NEW k, Fitting(off, k)
  PROVE  BufsAt(off, k) = BufLoop(BufsAt(off, k), off)
<1> DEFINE f == BufsAt(off, k)
<1>1. PICK q \in Nat : off = 64 * q BY DEF Aligned
<1>2. ASSUME NEW i \in Dcbs
      PROVE  f[i] = dma_alloc(IF i = 0 THEN off ELSE f[i - 1].off, BufSize, 16)
  <2> DEFINE from == IF i = 0 THEN off ELSE f[i - 1].off
  <2>1. i \in Nat /\ i < RX_DCBS /\ (i # 0 => i - 1 \in Dcbs) /\ k \in Nat
    BY SwitchdAssumption DEF Dcbs, Fitting
  <2>2. from = IF i <= k THEN off + i * 2048 ELSE off + k * 2048
    BY <2>1, <1>1 DEF BufsAt
  <2>3. Aligned(from)
    <3>1. from = 64 * (q + 32 * i) \/ from = 64 * (q + 32 * k) BY <2>1, <2>2, <1>1
    <3>2. q + 32 * i \in Nat /\ q + 32 * k \in Nat BY <2>1
    <3> QED BY <3>1, <3>2 DEF Aligned
  <2>4. f[i] = IF i < k THEN [at |-> off + i * 2048, off |-> off + (i + 1) * 2048]
               ELSE [at |-> 0, off |-> off + k * 2048]
    BY DEF BufsAt
  <2>5. (from + 2048 <= dma_size) <=> i < k
    BY <2>1, <2>2, <1>1 DEF Fitting
  <2>6. i < k => from = off + i * 2048 /\ from + 2048 = off + (i + 1) * 2048
    BY <2>1, <2>2, <1>1
  <2>7. ~(i < k) => from = off + k * 2048 BY <2>1, <2>2
  <2> HIDE DEF from
  <2>8. dma_alloc(from, BufSize, 16)
          = IF from + 2048 <= dma_size THEN [at |-> from, off |-> from + 2048] ELSE [at |-> 0, off |-> from]
    BY <2>3, Allocates DEF BufSize
  <2>9. f[i] = dma_alloc(from, BufSize, 16) BY <2>4, <2>5, <2>6, <2>7, <2>8
  <2> QED BY <2>9 DEF from
<1> QED BY <1>2 DEF BufLoop, BufsAt

\* The recursion has one solution: two that agree below i agree at i.
LEMMA BufLoopOnce ==
  ASSUME NEW off, NEW f, NEW g, f = BufLoop(f, off), g = BufLoop(g, off)
  PROVE  f = g
<1> DEFINE T == {i \in Dcbs : f[i] # g[i]}
<1>1. T \in SUBSET Nat BY DEF Dcbs
<1>2. T = {}
  <2> HIDE DEF T
  <2>1. SUFFICES ASSUME T # {} PROVE FALSE OBVIOUS
  <2>2. PICK m \in T : \A i \in T : m <= i BY <1>1, <2>1, Least
  <2>3. m \in Dcbs /\ m \in Nat /\ f[m] # g[m] BY <1>1 DEF T
  <2>4. CASE m = 0 BY <2>3, <2>4 DEF BufLoop
  <2>5. CASE m # 0
    <3>1. m - 1 \in Dcbs /\ ~(m <= m - 1) BY <2>3, <2>5, SwitchdAssumption DEF Dcbs
    <3>2. f[m - 1] = g[m - 1] BY <3>1, <2>2 DEF T
    <3> QED BY <2>3, <2>5, <3>2 DEF BufLoop
  <2> QED BY <2>4, <2>5
<1>3. f = [i \in Dcbs |-> f[i]] /\ g = [i \in Dcbs |-> g[i]] BY DEF BufLoop
<1> HIDE DEF T
<1>4. \A i \in Dcbs : f[i] = g[i] BY <1>2 DEF T
<1> QED BY <1>3, <1>4

\* What the loop over the buffers of rx_start() computes.
LEMMA RxBufsClosed ==
  ASSUME NEW off, Aligned(off), dma_size \in Nat, NEW k, Fitting(off, k)
  PROVE  RxBufsFrom(off) = BufsAt(off, k)
<1> DEFINE place == CHOOSE f : f = BufLoop(f, off)
<1>1. BufsAt(off, k) = BufLoop(BufsAt(off, k), off) BY BufsAtLoop
<1>2. place = BufLoop(place, off) BY <1>1
<1> HIDE DEF place
<1>3. place = BufsAt(off, k) BY <1>1, <1>2, BufLoopOnce
<1> QED BY <1>3 DEF RxBufsFrom, place, BufLoop

\* The pool as it is laid out: the ring and k buffers behind it, or neither;
\* then the transmit descriptor and the transmit buffer, as far as they fit.
Top(r, k) == IF r = 0 THEN 4096 ELSE 4096 + RingSize + k * 2048

Layout(r, k) ==
  /\ rx_ring = r /\ (r = 0 => k = 0)
  /\ r # 0 => Top(r, k) <= dma_size
  /\ rx_bufs = [i \in Dcbs |-> IF i < k THEN 4096 + RingSize + i * 2048 ELSE 0]
  /\ \/ tx_dcb = 0 /\ tx_buf = 0 /\ dma_off = Top(r, k)
     \/ /\ tx_dcb = Top(r, k)
        /\ \/ /\ tx_buf = Top(r, k) + 64 /\ dma_off = Top(r, k) + 2112
              /\ dma_off <= dma_size
           \/ /\ tx_buf = 0 /\ dma_off = Top(r, k) + 64
              /\ dma_off <= dma_size /\ dma_size < dma_off + 2048

DmaInv ==
  /\ dma_size \in Nat
  /\ \E r \in {0, 4096}, k \in 0 .. RX_DCBS : Layout(r, k)
  /\ pc["main"] \in SetUp => Layout(0, 0) /\ tx_dcb = 0
  /\ exit = "null_buffer" => tx_dcb # 0 /\ tx_buf = 0

LEMMA DmaInit == Init => DmaInv
<1> SUFFICES ASSUME Init PROVE DmaInv OBVIOUS
<1>1. dma_size \in Nat /\ exit = "no" BY SwitchdAssumption DEF Init
<1>2. Layout(0, 0) /\ tx_dcb = 0
  <2>1. rx_bufs = [i \in Dcbs |-> IF i < 0 THEN 4096 + RingSize + i * 2048 ELSE 0]
    <3>1. \A i \in Dcbs : ~(i < 0) BY DEF Dcbs
    <3> QED BY <3>1 DEF Init
  <2> QED BY <2>1 DEF Init, Layout, Top
<1>3. 0 \in 0 .. RX_DCBS BY SwitchdAssumption
<1> QED BY <1>1, <1>2, <1>3 DEF DmaInv

LEMMA DmaFrame ==
  DmaInv /\ UNCHANGED dmaVars /\ (exit' = "null_buffer" => exit = "null_buffer")
    /\ (pc'["main"] \in SetUp => pc["main"] \in SetUp) => DmaInv'
BY DEF DmaInv, dmaVars, Layout, Top

\* rx_start() lays the pool out.
LEMMA DmaRxStart == LifeInv /\ DmaInv /\ RxStart => DmaInv'
<1> SUFFICES ASSUME LifeInv, DmaInv, RxStart PROVE DmaInv' OBVIOUS
<1> DEFINE ring  == dma_alloc(4096, RingSize, 64)
           place == RxBufsFrom(ring.off)
           done  == {i \in Dcbs : ring.at # 0 /\ \A j \in 0 .. i : place[j].at # 0}
<1>1. dma_off = 4096 /\ tx_dcb = 0 /\ tx_buf = 0 /\ dma_size \in Nat
  BY DEF RxStart, At, SetUp, DmaInv, Layout, Top
<1>2. /\ rx_ring' = ring.at
      /\ rx_bufs' = [i \in Dcbs |-> IF i \in done THEN place[i].at ELSE 0]
      /\ dma_off' = IF done = {} THEN ring.off ELSE place[Cardinality(done) - 1].off
      /\ UNCHANGED <<dma_size, tx_dcb, tx_buf, exit>>
  BY <1>1 DEF RxStart, hostVars
<1>3. pc'["main"] = "threads" /\ exit = "no"
  <2>1. PICK rx \in {"scan", "none"} : pc' = [pc EXCEPT !["main"] = "threads", !["rx"] = rx]
    BY DEF RxStart
  <2> QED BY <2>1 DEF LifeInv, PcOK, Threads, RxStart, At, Alive
<1>4. RingSize \in Nat /\ Aligned(4096) /\ Aligned(4096 + RingSize)
  <2>1. RX_DCBS \in Nat /\ RingSize = 64 * (RX_DCBS + 1)
    BY SwitchdAssumption DEF RingSize, DcbSize
  <2>2. 4096 = 64 * 64 /\ 4096 + RingSize = 64 * (65 + RX_DCBS) BY <2>1
  <2> QED BY <2>1, <2>2 DEF Aligned
<1>5. ring = IF 4096 + RingSize <= dma_size THEN [at |-> 4096, off |-> 4096 + RingSize]
             ELSE [at |-> 0, off |-> 4096]
  BY <1>4, Allocates
<1>6. CASE 4096 + RingSize > dma_size
  <2>0. ring = [at |-> 0, off |-> 4096] BY <1>4, <1>5, <1>6, <1>1
  <2> HIDE DEF ring, place
  <2>1. ring.at = 0 /\ ring.off = 4096 /\ done = {} BY <2>0
  <2> HIDE DEF done
  <2>2. rx_bufs' = [i \in Dcbs |-> IF i < 0 THEN 4096 + RingSize + i * 2048 ELSE 0]
    BY <1>2, <2>1 DEF Dcbs
  <2>3. rx_ring' = 0 /\ dma_off' = 4096 BY <1>2, <2>1
  <2>4. Layout(0, 0)' BY <1>1, <1>2, <2>2, <2>3 DEF Layout, Top, RingSize, DcbSize
  <2>5. 0 \in 0 .. RX_DCBS BY SwitchdAssumption
  <2> QED BY <1>1, <1>2, <1>3, <2>4, <2>5 DEF DmaInv, SetUp
<1>7. CASE 4096 + RingSize <= dma_size
  <2>1. ring.at = 4096 /\ ring.off = 4096 + RingSize BY <1>5, <1>7
  <2>2. PICK k \in 0 .. RX_DCBS : Fitting(4096 + RingSize, k)
    BY <1>1, <1>4, <1>7, SomeFit
  <2>3. place = BufsAt(4096 + RingSize, k) BY <1>1, <1>4, <2>1, <2>2, RxBufsClosed
  <2>4. done = 0 .. k - 1
    <3>1. \A j \in Dcbs : place[j].at # 0 <=> j < k 
      <4>1. \A j \in Dcbs : 4096 + RingSize + j * 2048 # 0 BY <1>4 DEF Dcbs
      <4> HIDE DEF place
      <4> QED BY <2>3, <4>1 DEF BufsAt
    <3>2. \A i \in Dcbs : 0 .. i \subseteq Dcbs /\ i \in 0 .. i BY SwitchdAssumption DEF Dcbs
    <3> HIDE DEF place
    <3>3. \A i \in Dcbs : (\A j \in 0 .. i : place[j].at # 0) <=> i < k
      BY <3>1, <3>2 DEF Dcbs
    <3>4. done = {i \in Dcbs : i < k} BY <2>1, <3>3
    <3> QED BY <3>4, SwitchdAssumption DEF Dcbs
  <2> HIDE DEF done, place, ring
  <2>5. Cardinality(done) = k BY <2>4, FS_Interval
  <2>6. dma_off' = 4096 + RingSize + k * 2048
    <3>1. CASE k = 0 BY <1>2, <1>4, <2>1, <2>4, <3>1
    <3>2. CASE k # 0
      <4>1. k - 1 \in Dcbs /\ k - 1 < k /\ done # {} BY <2>4, <3>2, SwitchdAssumption DEF Dcbs
      <4>2. place[k - 1].off = 4096 + RingSize + ((k - 1) + 1) * 2048 BY <2>3, <4>1 DEF BufsAt
      <4> QED BY <1>2, <1>4, <2>5, <4>1, <4>2
    <3> QED BY <3>1, <3>2
  <2>7. rx_bufs' = [i \in Dcbs |-> IF i < k THEN 4096 + RingSize + i * 2048 ELSE 0]
    <3>1. \A i \in Dcbs : (i \in done <=> i < k) /\ (i < k => place[i].at = 4096 + RingSize + i * 2048)
      BY <2>3, <2>4 DEF BufsAt, Dcbs
    <3> QED BY <1>2, <3>1
  <2>8. Layout(4096, k)'
    BY <1>1, <1>2, <1>4, <2>1, <2>2, <2>6, <2>7 DEF Layout, Top, Fitting, RingSize, DcbSize
  <2> QED BY <1>1, <1>2, <1>3, <2>8 DEF DmaInv, SetUp
<1> QED BY <1>1, <1>4, <1>6, <1>7

LEMMA TopAligned ==
  ASSUME NEW r \in {0, 4096}, NEW k \in 0 .. RX_DCBS
  PROVE  /\ RingSize \in Nat /\ Top(r, k) \in Nat
         /\ Aligned(Top(r, k)) /\ Aligned(Top(r, k) + 64)
<1>1. RX_DCBS \in Nat /\ RingSize = 64 * (RX_DCBS + 1)
  BY SwitchdAssumption DEF RingSize, DcbSize
<1>2. RingSize \in Nat BY <1>1
<1>3. k \in Nat OBVIOUS
<1>4. CASE r = 0
  <2>1. Top(r, k) = 64 * 64 /\ Top(r, k) + 64 = 64 * 65 BY <1>4 DEF Top
  <2> QED BY <1>2, <2>1 DEF Aligned
<1>5. CASE r = 4096
  <2>1. /\ Top(r, k) = 64 * (65 + RX_DCBS + 32 * k)
        /\ Top(r, k) + 64 = 64 * (66 + RX_DCBS + 32 * k)
    BY <1>1, <1>3, <1>5 DEF Top
  <2>2. 65 + RX_DCBS + 32 * k \in Nat /\ 66 + RX_DCBS + 32 * k \in Nat BY <1>1, <1>3
  <2> QED BY <1>2, <2>1, <2>2 DEF Aligned
<1> QED BY <1>4, <1>5

\* The first frame sent takes what is left of the pool, or finds too little.
LEMMA DmaTxAlloc == LifeInv /\ DmaInv /\ TxAlloc => DmaInv'
<1> SUFFICES ASSUME LifeInv, DmaInv, TxAlloc PROVE DmaInv' OBVIOUS
<1> DEFINE dcb == dma_alloc(dma_off, 64, 64)
           buf == dma_alloc(dcb.off, 2048, 16)
<1>1. /\ tx_dcb = 0 /\ tx_dcb' = dcb.at /\ tx_buf' = buf.at /\ dma_off' = buf.off
      /\ UNCHANGED <<dma_size, rx_ring, rx_bufs, exit>>
  BY DEF TxAlloc, DcbSize, BufSize, hostVars
<1>2. pc["tx"] = "copy" /\ pc["main"] \notin SetUp
  BY DEF TxAlloc, At, LifeInv, NoThreads
<1>3. pc'["main"] = pc["main"] /\ exit = "no"
  BY DEF TxAlloc, At, Go, Alive, LifeInv, PcOK, Threads
<1>4. PICK r \in {0, 4096}, k \in 0 .. RX_DCBS : Layout(r, k) BY DEF DmaInv
<1>5. PICK t \in Nat : t = Top(r, k) BY TopAligned
<1>6. dma_size \in Nat /\ tx_buf = 0 /\ dma_off = t /\ t # 0 /\ rx_ring = r
  <2>1. t >= 4096 BY <1>5, TopAligned DEF Top
  <2> QED BY <1>1, <1>4, <1>5, <2>1 DEF Layout, DmaInv
<1>7. dcb = IF t + 64 <= dma_size THEN [at |-> t, off |-> t + 64] ELSE [at |-> 0, off |-> t]
  BY <1>5, <1>6, TopAligned, Allocates
<1>8. Layout(r, k)'
  <2>1. CASE t + 64 > dma_size
    <3>1. dcb = [at |-> 0, off |-> t] BY <1>6, <1>7, <2>1
    <3> HIDE DEF dcb
    <3>2. buf = [at |-> 0, off |-> t] BY <3>1, <1>5, <1>6, <2>1, TopAligned, Allocates
    <3> HIDE DEF buf
    <3> QED BY <1>1, <1>4, <1>5, <1>6, <3>1, <3>2 DEF Layout, Top
  <2>2. CASE t + 64 <= dma_size
    <3>1. dcb = [at |-> t, off |-> t + 64] BY <1>7, <2>2
    <3> HIDE DEF dcb
    <3>2. buf = IF t + 2112 <= dma_size THEN [at |-> t + 64, off |-> t + 2112]
                ELSE [at |-> 0, off |-> t + 64]
      <4>1. dcb.off = t + 64 /\ (t + 64) + 2048 = t + 2112 BY <3>1
      <4>2. Aligned(t + 64) BY <1>5, TopAligned
      <4> QED BY <4>1, <4>2, Allocates
    <3> HIDE DEF buf
    <3>3. CASE t + 2112 <= dma_size
      BY <1>1, <1>4, <1>5, <1>6, <2>2, <3>1, <3>2, <3>3 DEF Layout, Top
    <3>4. CASE t + 2112 > dma_size
      <4>1. buf = [at |-> 0, off |-> t + 64] BY <3>2, <3>4, <1>6
      <4> QED BY <1>1, <1>4, <1>5, <1>6, <2>2, <3>1, <3>4, <4>1 DEF Layout, Top
    <3> QED BY <3>3, <3>4, <1>6
  <2> QED BY <2>1, <2>2, <1>6
<1> QED BY <1>1, <1>2, <1>3, <1>4, <1>6, <1>8 DEF DmaInv

LEMMA DmaStep == LifeInv /\ DmaInv /\ [Next]_vars => DmaInv'
<1> SUFFICES ASSUME LifeInv, DmaInv, [Next]_vars PROVE DmaInv' OBVIOUS
<1>1. CASE UNCHANGED vars BY <1>1, DmaFrame DEF vars, hostVars
<1>2. CASE MainStep /\ ~RxStart
  <2>1. /\ UNCHANGED dmaVars /\ (exit' = "null_buffer" => exit = "null_buffer")
        /\ (pc'["main"] \in SetUp => pc["main"] \in SetUp)
    BY <1>2 DEF MainStep, Attach, Abandon, InitChip, EnablePorts, TunCreateAll, CreateThreads,
              WaitForSignal, StopThreads, JoinThreads, TunCloseAll, Detach, Return, Move, At, Go,
              hostVars, LifeInv, PcOK, Threads, SetUp
  <2> QED BY <2>1, DmaFrame
<1>3. CASE Signal \/ NetlinkStep \/ LinkState \/ EngineReceive \/ EngineSend
  <2>1. UNCHANGED dmaVars /\ exit' = exit /\ pc'["main"] = pc["main"]
    BY <1>3 DEF Signal, NetlinkStep, NetlinkOpen, NetlinkLoop, NetlinkReceive, NetlinkError,
              LinkState, EngineReceive, EngineSend, Move, Go, hostVars, LifeInv, PcOK, Threads
  <2> QED BY <2>1, DmaFrame
<1>4. CASE RxStep
  <2>1. /\ UNCHANGED dmaVars /\ pc'["main"] = pc["main"]
        /\ (exit' = "null_buffer" => exit = "null_buffer")
    BY <1>4 DEF RxStep, RxFault, RxScan, RxCallback, RxRearm, Go, hostVars, LifeInv, PcOK, Threads
  <2> QED BY <2>1, DmaFrame
<1>5. CASE TxStep /\ ~TxAlloc /\ ~TxCopy
  <2>1. UNCHANGED dmaVars /\ exit' = exit /\ pc'["main"] = pc["main"]
    BY <1>5 DEF TxStep, TxOpen, TxLoop, TxWait, TxServe, TxFill, TxStart, TxStatus, TxGiveUp,
              Move, Go, hostVars, LifeInv, PcOK, Threads
  <2> QED BY <2>1, DmaFrame
<1>6. CASE TxCopy
  <2>1. /\ UNCHANGED dmaVars /\ pc'["main"] = pc["main"] /\ tx_dcb # 0
        /\ (exit' = "null_buffer" => exit = "null_buffer" \/ tx_buf = 0)
    BY <1>6 DEF TxCopy, Go, LifeInv, PcOK, Threads
  <2> QED BY <2>1 DEF DmaInv, dmaVars, Layout, Top
<1> QED BY <1>1, <1>2, <1>3, <1>4, <1>5, <1>6, DmaRxStart, DmaTxAlloc DEF Next, TxStep, MainStep

\* What such a layout means: no two receive descriptors share a buffer, and
\* every block is inside the pool and apart from the others.
LEMMA LayoutApart ==
  ASSUME dma_size \in Nat, NEW r \in {0, 4096}, NEW k \in 0 .. RX_DCBS, Layout(r, k)
  PROVE  DmaApart
<1> DEFINE R == RingSize
           buffers == {i \in Dcbs : rx_bufs[i] # 0}
           places  == {rx_bufs[i] : i \in Dcbs} \ {0}
<1>1. R \in Nat /\ k \in Nat /\ RX_DCBS \in Nat /\ k <= RX_DCBS
  BY TopAligned, SwitchdAssumption
<1>2. \A i \in Dcbs : rx_bufs[i] = IF i < k THEN 4096 + R + i * 2048 ELSE 0
  BY DEF Layout
<1>3. \A i \in Dcbs : i \in Nat BY DEF Dcbs
<1>4. \A i \in Dcbs : rx_bufs[i] # 0 <=> i < k BY <1>1, <1>2, <1>3
<1>5. Cardinality(buffers) = Cardinality(places)
  <2>1. IsFiniteSet(buffers)
    <3>1. IsFiniteSet(Dcbs) BY <1>1, FS_Interval DEF Dcbs
    <3>2. buffers \in SUBSET Dcbs OBVIOUS
    <3> QED BY <3>1, <3>2, FS_Subset
  <2> DEFINE f == [i \in buffers |-> rx_bufs[i]]
  <2>2. f \in [buffers -> places] OBVIOUS
  <2>3. \A i, j \in buffers : f[i] = f[j] => i = j
    <3>1. \A i, j \in Dcbs : i < k /\ j < k /\ rx_bufs[i] = rx_bufs[j] => i = j
      BY <1>1, <1>2, <1>3
    <3> QED BY <3>1, <1>4
  <2>4. \A p \in places : \E i \in buffers : f[i] = p OBVIOUS
  <2> HIDE DEF buffers, places, f
  <2>5. f \in Bijection(buffers, places)
    BY <2>2, <2>3, <2>4 DEF Bijection, Injection, Surjection, IsInjective
  <2>6. ExistsBijection(buffers, places) BY <2>5 DEF ExistsBijection
  <2> QED BY <2>1, <2>6, FS_Bijection
<1> HIDE DEF buffers, places
<1>6. PICK t \in Nat : t = Top(r, k) BY TopAligned
<1>7. /\ rx_ring # 0 => rx_ring = 4096 /\ t = 4096 + R + k * 2048 /\ t <= dma_size
      /\ k # 0 => rx_ring # 0
      /\ t >= 4096
      /\ tx_dcb # 0 => tx_dcb = t /\ t + 64 <= dma_size
      /\ tx_buf # 0 => tx_buf = t + 64 /\ t + 2112 <= dma_size
  <2>1. t >= 4096 BY <1>1, <1>6 DEF Top
  <2> QED BY <1>1, <1>6, <2>1 DEF Layout, Top
\* Blocks with their number in the order of allocation.
<1>8. ASSUME NEW b \in Blocks, b[1] # 0
      PROVE  \/ b = <<4096, R>> /\ rx_ring # 0
             \/ \E i \in Dcbs : i < k /\ rx_ring # 0 /\ b = <<4096 + R + i * 2048, 2048>>
             \/ b = <<t, 64>> /\ tx_dcb # 0
             \/ b = <<t + 64, 2048>> /\ tx_buf # 0
  <2>1. CASE b = <<rx_ring, RingSize>> BY <1>7, <1>8, <2>1
  <2>2. CASE b = <<tx_dcb, DcbSize>> BY <1>7, <1>8, <2>2 DEF DcbSize
  <2>3. CASE b = <<tx_buf, BufSize>> BY <1>7, <1>8, <2>3 DEF BufSize
  <2>4. CASE \E i \in Dcbs : b = <<rx_bufs[i], BufSize>>
    <3>1. PICK i \in Dcbs : b = <<rx_bufs[i], BufSize>> BY <2>4
    <3>2. rx_bufs[i] # 0 BY <1>8, <3>1
    <3>3. i < k /\ i \in Nat /\ k # 0 BY <3>2, <1>1, <1>3, <1>4
    <3> QED BY <1>2, <1>7, <3>1, <3>3 DEF BufSize
  <2> QED BY <2>1, <2>2, <2>3, <2>4 DEF Blocks
<1>9. \A i \in Dcbs : i < k => (i + 1) * 2048 <= k * 2048 BY <1>1, <1>3
<1> HIDE DEF R
<1>10. \A b \in Blocks : b[1] # 0 => b[1] >= 4096 /\ b[1] + b[2] <= dma_size
  <2> SUFFICES ASSUME NEW b \in Blocks, b[1] # 0
               PROVE  b[1] >= 4096 /\ b[1] + b[2] <= dma_size
    OBVIOUS
  <2>1. CASE b = <<4096, R>> /\ rx_ring # 0 BY <1>1, <1>7, <2>1
  <2>2. CASE \E i \in Dcbs : i < k /\ rx_ring # 0 /\ b = <<4096 + R + i * 2048, 2048>>
    BY <1>1, <1>3, <1>7, <1>9, <2>2
  <2>3. CASE b = <<t, 64>> /\ tx_dcb # 0 BY <1>7, <2>3
  <2>4. CASE b = <<t + 64, 2048>> /\ tx_buf # 0 BY <1>7, <2>4
  <2> QED BY <1>8, <2>1, <2>2, <2>3, <2>4
<1>11. ASSUME NEW b \in Blocks, NEW c \in Blocks, b # c, b[1] # 0, c[1] # 0
       PROVE  b[1] + b[2] <= c[1] \/ c[1] + c[2] <= b[1]
  <2>1. CASE b = <<4096, R>> /\ rx_ring # 0
    <3>1. c # <<4096, R>> BY <1>11, <2>1
    <3>2. CASE \E i \in Dcbs : i < k /\ c = <<4096 + R + i * 2048, 2048>>
      BY <1>1, <1>3, <2>1, <3>2
    <3> QED BY <1>1, <1>7, <1>8, <1>11, <2>1, <3>1, <3>2
  <2>2. CASE \E i \in Dcbs : i < k /\ rx_ring # 0 /\ b = <<4096 + R + i * 2048, 2048>>
    <3>1. PICK i \in Dcbs : i < k /\ rx_ring # 0 /\ b = <<4096 + R + i * 2048, 2048>> BY <2>2
    <3>2. CASE \E j \in Dcbs : j < k /\ c = <<4096 + R + j * 2048, 2048>>
      <4>1. PICK j \in Dcbs : j < k /\ c = <<4096 + R + j * 2048, 2048>> BY <3>2
      <4>2. i # j BY <1>11, <3>1, <4>1
      <4>3. i \in Nat /\ j \in Nat BY <1>3
      <4>4. b[1] = 4096 + R + i * 2048 /\ b[2] = 2048 /\ c[1] = 4096 + R + j * 2048 /\ c[2] = 2048
        BY <3>1, <4>1
      <4>5. i + 1 <= j \/ j + 1 <= i BY <4>2, <4>3
      <4> QED BY <1>1, <4>3, <4>4, <4>5
    <3>3. CASE c = <<4096, R>> BY <1>1, <1>3, <3>1, <3>3
    <3>4. b[1] + b[2] <= t BY <1>1, <1>3, <1>7, <1>9, <3>1
    <3>5. CASE c = <<t, 64>> \/ c = <<t + 64, 2048>>
      <4>1. c[1] >= t BY <3>5
      <4>2. b[1] + b[2] \in Nat /\ c[1] \in Nat BY <1>1, <1>3, <3>1, <3>5
      <4> QED BY <3>4, <4>1, <4>2
    <3> QED BY <1>8, <1>11, <3>2, <3>3, <3>5
  <2>3. CASE b = <<t, 64>> \/ b = <<t + 64, 2048>>
    <3>1. CASE \E i \in Dcbs : i < k /\ rx_ring # 0 /\ c = <<4096 + R + i * 2048, 2048>>
      BY <1>1, <1>3, <1>7, <1>9, <2>3, <3>1
    <3>2. CASE c = <<4096, R>> /\ rx_ring # 0 BY <1>1, <1>7, <2>3, <3>2
    <3>3. CASE c = <<t, 64>> \/ c = <<t + 64, 2048>> BY <1>11, <2>3, <3>3
    <3> QED BY <1>8, <1>11, <3>1, <3>2, <3>3
  <2> QED BY <1>8, <1>11, <2>1, <2>2, <2>3
<1> QED BY <1>5, <1>10, <1>11 DEF DmaApart, buffers, places

\* The DMA pool, whatever its size and whichever allocation fails: blocks
\* apart, inside the pool, and large enough unless the pool is smaller than
\* what the program allocates altogether (pktio.c, dma_alloc()).
THEOREM DmaIsSound == Spec => []DmaSound
<1>1. DmaInv => DmaSound
  <2> SUFFICES ASSUME DmaInv PROVE DmaSound OBVIOUS
  <2>1. PICK r \in {0, 4096}, k \in 0 .. RX_DCBS : Layout(r, k) BY DEF DmaInv
  <2>2. DmaApart BY <2>1, LayoutApart DEF DmaInv
  <2>3. PoolEnough
    <3> SUFFICES ASSUME exit = "null_buffer"
                 PROVE  dma_size < 4096 + RingSize + RX_DCBS * BufSize + DcbSize + BufSize
      BY DEF PoolEnough
    <3>1. tx_dcb # 0 /\ tx_buf = 0 /\ dma_size \in Nat BY DEF DmaInv
    <3>2. PICK t \in Nat : t = Top(r, k) BY TopAligned
    <3>3. dma_size < t + 2112 BY <2>1, <3>1, <3>2 DEF Layout
    <3>4. RingSize \in Nat /\ k \in Nat /\ RX_DCBS \in Nat /\ k <= RX_DCBS
      BY TopAligned, SwitchdAssumption
    <3>5. t <= 4096 + RingSize + RX_DCBS * 2048 BY <3>2, <3>4 DEF Top
    <3> QED BY <3>1, <3>2, <3>3, <3>4, <3>5 DEF BufSize, DcbSize
  <2> QED BY <2>2, <2>3 DEF DmaSound
<1> QED BY DmaInit, DmaStep, <1>1, LifeAlways, PTL DEF Spec
=============================================================================

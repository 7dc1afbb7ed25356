------------------------------ MODULE Switchd ------------------------------
(***************************************************************************)
(* The life of nos-switchd and its packet I/O: main() (switchd/src/main.c) *)
(* attaches the chip, creates the TAP interfaces, starts packet reception  *)
(* and three threads, waits for a signal and takes everything down again;  *)
(* packets go between the TAP interfaces (switchd/src/tx_rx.c) and the DMA *)
(* engine (sdk/src/pktio.c), whose descriptors and buffers come from one   *)
(* pool shared with the kernel module.                                     *)
(*                                                                         *)
(* Frames are numbered in the order they come; frame n belongs to port     *)
(* FramePort(n).  What the DMA engine does is external.                    *)
(***************************************************************************)
EXTENDS Naturals, Sequences, FiniteSets

CONSTANTS
  NumPorts,  \* ports configured, at most MAX_PORTS
  RX_DCBS,   \* receive descriptors, 64 in the program
  DmaSizes,  \* sizes the kernel's DMA pool may have, in bytes
  MaxRx,     \* frames the chip receives
  MaxTx,     \* frames the kernel sends
  StatBit0   \* what bit 0 of CMIC_DMA_STAT says: "done" (the frame has left,
             \* pktio.c) or "enabled" (the channel is on, bcm56846_regs.h)

ASSUME SwitchdAssumption ==
  /\ NumPorts \in 1 .. 56 /\ RX_DCBS \in Nat \ {0}
  /\ DmaSizes \subseteq Nat
  /\ MaxRx \in Nat /\ MaxTx \in Nat
  /\ StatBit0 \in {"done", "enabled"}

VARIABLES
  pc,                     \* thread -> where it is
  running,                \* cleared by the signal handler
  stopping,               \* threads told to stop (*_running = 0)
  exit,                   \* how the process ended
  mapped,                 \* /dev/nos-bde open and the pool mapped
  tun_fds,                \* ports whose TAP descriptor is open
  \* the pool: its size, how much is used, and the blocks taken, 0 for NULL
  dma_size, dma_off, rx_ring, rx_bufs, tx_dcb, tx_buf,
  \* reception
  status, held,           \* descriptor -> done bit; frame in its buffer
  engine,                 \* the descriptor the engine fills next
  scan,                   \* the descriptor the receive thread looks at
  received,               \* frames received by the chip
  tap,                    \* frames written to TAP interfaces, in order
  drops,                  \* <<frame, why it was dropped>>
  \* transmission
  events,                 \* ports epoll_wait() reported, yet to be served
  frame,                  \* the last frame the transmit thread has read
  bufFrame, dcbFrame,     \* the frame in the buffer, that in the descriptor
  pending,                \* the engine has been started and is not done
  stat,                   \* CMIC_DMA_STAT, bit 0
  sent,                   \* <<frame, frame whose descriptor was used>>
  gaveUp                  \* a transmit ended before its frame had left

dmaVars  == <<dma_size, dma_off, rx_ring, rx_bufs, tx_dcb, tx_buf>>
rxVars   == <<status, held, engine, scan, received, tap, drops>>
txVars   == <<events, frame, bufFrame, dcbFrame, pending, stat, sent, gaveUp>>
hostVars == <<running, stopping, exit, mapped, tun_fds>>
vars     == <<pc, hostVars, dmaVars, rxVars, txVars>>

PortSet == 1 .. NumPorts
Dcbs    == 0 .. RX_DCBS - 1
Stoppable == {"netlink", "link", "tx"} \* rx_stop() is never called
FramePort(n) == (n % NumPorts) + 1

\* Why the receive thread drops a frame: the descriptor's length is none or
\* larger than a buffer, its port is not one of ours, the interface has been
\* closed, or write() failed or was cut short.
Reasons == {"length", "port", "closed", "write"}

Steps ==
  [main |-> {"attach", "init", "enable", "tun", "rx", "threads", "run", "stop",
             "join_netlink", "join_link", "join_tx", "close", "detach", "return"},
   netlink |-> {"none", "open", "loop", "recv", "ended"},
   link |-> {"none", "loop", "ended"},
   tx |-> {"none", "open", "loop", "wait", "serve", "copy", "fill", "start", "status", "ended"},
   rx |-> {"none", "scan", "callback", "rearm"}]

TypeOK ==
  /\ DOMAIN pc = DOMAIN Steps /\ \A t \in DOMAIN pc : pc[t] \in Steps[t]
  /\ exit \in {"no", "ok", "failed", "null_buffer", "unmapped"}
  /\ stopping \subseteq Stoppable /\ tun_fds \subseteq PortSet /\ dma_off \in Nat
  /\ status \in [Dcbs -> BOOLEAN] /\ held \in [Dcbs -> 0 .. MaxRx]
  /\ engine \in Dcbs /\ scan \in Dcbs
  /\ tap \in Seq(1 .. MaxRx) /\ drops \subseteq (1 .. MaxRx) \X Reasons
  /\ events \subseteq PortSet /\ {frame, bufFrame, dcbFrame} \subseteq 0 .. MaxTx

\* ports.conf has been read: there is always at least one port.
Init ==
  /\ pc = [t \in DOMAIN Steps |-> IF t = "main" THEN "attach" ELSE "none"]
  /\ running = TRUE /\ stopping = {} /\ exit = "no" /\ mapped = FALSE /\ tun_fds = {}
  /\ dma_size \in DmaSizes /\ dma_off = 4096
  /\ rx_ring = 0 /\ rx_bufs = [i \in Dcbs |-> 0] /\ tx_dcb = 0 /\ tx_buf = 0
  /\ status = [i \in Dcbs |-> FALSE] /\ held = [i \in Dcbs |-> 0]
  /\ engine = 0 /\ scan = 0 /\ received = 0 /\ tap = <<>> /\ drops = {}
  /\ events = {} /\ frame = 0 /\ bufFrame = 0 /\ dcbFrame = 0
  /\ pending = FALSE /\ stat = FALSE /\ sent = {} /\ gaveUp = FALSE

Alive == exit = "no"
At(t, step) == pc[t] = step /\ Alive
Go(t, step) == pc' = [pc EXCEPT ![t] = step]

\* A step that moves thread t and changes nothing else.
Move(t, from, to) == At(t, from) /\ Go(t, to) /\ UNCHANGED <<hostVars, dmaVars, rxVars, txVars>>

(***************************************************************************)
(* The DMA pool.  dma_alloc() hands out the pool from offset 4096 upwards  *)
(* and gives nothing back; the pool itself is page-aligned.                *)
(***************************************************************************)
AlignUp(off, align) == ((off + align - 1) \div align) * align

\* Bug: the end of the block is not checked.
Bug_Fits(off, size, align) == AlignUp(off, align) <= dma_size

Fits(off, size, align) == AlignUp(off, align) + size <= dma_size

\* Place and new offset after an allocation; place 0 is NULL.
dma_alloc(off, size, align) ==
  IF Fits(off, size, align)
  THEN [at |-> AlignUp(off, align), off |-> AlignUp(off, align) + size]
  ELSE [at |-> 0, off |-> off]

DcbSize  == 64
RingSize == (RX_DCBS + 1) * DcbSize
BufSize  == 2048

\* The receive buffers, allocated one after the other.
RxBufsFrom(off) ==
  LET place[i \in Dcbs] == dma_alloc(IF i = 0 THEN off ELSE place[i - 1].off, BufSize, 16)
  IN  place

(***************************************************************************)
(* main()                                                                  *)
(***************************************************************************)
\* An error before the threads exist: the chip is detached, main() returns 1.
Abandon ==
  /\ Go("main", "return") /\ exit' = "failed" /\ mapped' = FALSE /\ tun_fds' = {}
  /\ UNCHANGED <<running, stopping, dmaVars, rxVars, txVars>>

\* bcm56846_attach(): the device and the mapping, or neither.
Attach ==
  /\ At("main", "attach")
  /\ \/ /\ Go("main", "init") /\ mapped' = TRUE
        /\ UNCHANGED <<running, stopping, exit, tun_fds, dmaVars, rxVars, txVars>>
     \/ Abandon

\* bcm56846_init() fails without a readable configuration.
InitChip == Move("main", "init", "enable") \/ (At("main", "init") /\ Abandon)

\* Every port is enabled; what that returns is ignored (modules Port, Serdes).
EnablePorts == Move("main", "enable", "tun")

\* tun_create_all(): all of them, or those created are closed again.
TunCreateAll ==
  /\ At("main", "tun")
  /\ \/ /\ Go("main", "rx") /\ tun_fds' = PortSet
        /\ UNCHANGED <<running, stopping, exit, mapped, dmaVars, rxVars, txVars>>
     \/ Abandon

\* rx_start(): the ring, its buffers, the engine, the thread.  Whatever fails
\* ends the call and is only logged; what has been allocated stays so.
RxStart ==
  /\ At("main", "rx")
  /\ LET ring  == dma_alloc(dma_off, RingSize, 64)
         place == RxBufsFrom(ring.off)
         done  == {i \in Dcbs : ring.at # 0 /\ \A j \in 0 .. i : place[j].at # 0}
     IN  /\ rx_ring' = ring.at
         /\ rx_bufs' = [i \in Dcbs |-> IF i \in done THEN place[i].at ELSE 0]
         /\ dma_off' = IF done = {} THEN ring.off ELSE place[Cardinality(done) - 1].off
         /\ \E started \in BOOLEAN : \* the engine and the thread
              pc' = [pc EXCEPT !["main"] = "threads",
                               !["rx"] = IF done = Dcbs /\ started THEN "scan" ELSE "none"]
  /\ UNCHANGED <<hostVars, dma_size, tx_dcb, tx_buf, rxVars, txVars>>

CreateThreads ==
  /\ At("main", "threads")
  /\ pc' = [pc EXCEPT !["main"] = "run", !["netlink"] = "open", !["link"] = "loop", !["tx"] = "open"]
  /\ UNCHANGED <<hostVars, dmaVars, rxVars, txVars>>

\* SIGINT or SIGTERM, at any time: sig_handler() is installed first of all.
Signal ==
  /\ running /\ Alive /\ running' = FALSE
  /\ UNCHANGED <<pc, stopping, exit, mapped, tun_fds, dmaVars, rxVars, txVars>>

\* The loop around sleep(1) sees the flag.
WaitForSignal == ~running /\ Move("main", "run", "stop")

\* netlink_stop(), link_state_stop(), tx_stop().  The kernel refuses to shut
\* a netlink socket down: a thread that waits in recv() goes on waiting.
StopThreads ==
  /\ At("main", "stop") /\ Go("main", "join_netlink")
  /\ stopping' = Stoppable
  /\ UNCHANGED <<running, exit, mapped, tun_fds, dmaVars, rxVars, txVars>>

\* Bug: the transmit thread is not waited for.
Bug_JoinThreads ==
  \/ pc["netlink"] = "ended" /\ Move("main", "join_netlink", "join_link")
  \/ pc["link"] = "ended" /\ Move("main", "join_link", "close")

JoinThreads ==
  \/ pc["netlink"] = "ended" /\ Move("main", "join_netlink", "join_link")
  \/ pc["link"] = "ended" /\ Move("main", "join_link", "join_tx")
  \/ pc["tx"] = "ended" /\ Move("main", "join_tx", "close")

TunCloseAll ==
  /\ At("main", "close") /\ Go("main", "detach")
  /\ tun_fds' = {}
  /\ UNCHANGED <<running, stopping, exit, mapped, dmaVars, rxVars, txVars>>

\* bcm56846_detach(): the pool is unmapped, the device closed.  Nobody has
\* told the receive thread.
Detach ==
  /\ At("main", "detach") /\ Go("main", "return")
  /\ mapped' = FALSE
  /\ UNCHANGED <<running, stopping, exit, tun_fds, dmaVars, rxVars, txVars>>

\* Returning from main() ends the process and every thread with it.
Return ==
  /\ At("main", "return") /\ exit' = "ok"
  /\ UNCHANGED <<pc, running, stopping, mapped, tun_fds, dmaVars, rxVars, txVars>>

(***************************************************************************)
(* The netlink and the link-state threads, as far as stopping goes.        *)
(***************************************************************************)
\* malloc(), socket() or bind() may fail, which ends the thread.
NetlinkOpen == Move("netlink", "open", "loop") \/ Move("netlink", "open", "ended")

\* Bug: the loop does not look at netlink_running.
Bug_NetlinkLoop == Move("netlink", "loop", "recv")

NetlinkLoop == Move("netlink", "loop", IF "netlink" \in stopping THEN "ended" ELSE "recv")

\* Messages have come and been dispatched (module Netlink), or nothing was
\* received (EINTR, EAGAIN).
NetlinkReceive == Move("netlink", "recv", "loop")

\* Any other receive error ends the thread while the others go on.
NetlinkError == Move("netlink", "recv", "ended")

\* The loop over the ports (module LinkLoop) looks at its flag every pass.
LinkState == "link" \in stopping /\ Move("link", "loop", "ended")

(***************************************************************************)
(* Reception                                                               *)
(***************************************************************************)
\* External: the engine fills the descriptors in turn, each only when its
\* status word has been cleared; buffer and port come before the status.
EngineReceive ==
  /\ pc["rx"] # "none" /\ mapped /\ Alive
  /\ received < MaxRx /\ ~status[engine]
  /\ received' = received + 1
  /\ status' = [status EXCEPT ![engine] = TRUE]
  /\ held' = [held EXCEPT ![engine] = received + 1]
  /\ engine' = (engine + 1) % RX_DCBS
  /\ UNCHANGED <<pc, hostVars, dmaVars, scan, tap, drops, txVars>>

\* The receive thread touches the ring or a buffer: SIGSEGV once the pool is
\* unmapped.
RxFault ==
  /\ pc["rx"] # "none" /\ ~mapped /\ Alive
  /\ exit' = "unmapped"
  /\ UNCHANGED <<pc, running, stopping, mapped, tun_fds, dmaVars, rxVars, txVars>>

Drop(why) == drops' = drops \cup {<<held[scan], why>>} /\ UNCHANGED tap

\* Bug: the last descriptor is not looked at.
Bug_RxScan ==
  /\ At("rx", "scan") /\ mapped
  /\ \/ status[scan] /\ Go("rx", "callback") /\ UNCHANGED <<scan, tap, drops>>
     \/ status[scan] /\ Go("rx", "rearm") /\ Drop("length") /\ UNCHANGED scan
     \/ ~status[scan] /\ scan' = 0 /\ UNCHANGED <<pc, tap, drops>>
  /\ UNCHANGED <<hostVars, dmaVars, status, held, engine, received, txVars>>

\* A frame whose length is 0 or larger than RX_BUF_SIZE is not handed to the
\* callback (which is registered before the thread exists).
RxScan ==
  /\ At("rx", "scan") /\ mapped
  /\ \/ status[scan] /\ Go("rx", "callback") /\ UNCHANGED <<scan, tap, drops>>
     \/ status[scan] /\ Go("rx", "rearm") /\ Drop("length") /\ UNCHANGED scan
     \/ ~status[scan] /\ scan' = (scan + 1) % RX_DCBS /\ UNCHANGED <<pc, tap, drops>>
  /\ UNCHANGED <<hostVars, dmaVars, status, held, engine, received, txVars>>

\* Bug: a write that fails leaves the frame in the ring, to be tried again,
\* although what of it was written has reached the kernel.
Bug_RxCallback ==
  /\ At("rx", "callback") /\ mapped
  /\ \/ Go("rx", "rearm") /\ Drop("port")
     \/ /\ FramePort(held[scan]) \notin tun_fds
        /\ Go("rx", "rearm") /\ Drop("closed")
     \/ /\ FramePort(held[scan]) \in tun_fds
        /\ \/ Go("rx", "rearm") /\ tap' = Append(tap, held[scan]) /\ UNCHANGED drops
           \/ Go("rx", "scan") /\ Drop("write")
  /\ UNCHANGED <<hostVars, dmaVars, status, held, engine, scan, received, txVars>>

\* rx_callback(): the frame is written to the interface of its port, if the
\* descriptor names one and it is open; what write() returns is ignored.
RxCallback ==
  /\ At("rx", "callback") /\ mapped /\ Go("rx", "rearm")
  /\ \/ Drop("port")
     \/ FramePort(held[scan]) \notin tun_fds /\ Drop("closed")
     \/ /\ FramePort(held[scan]) \in tun_fds
        /\ \/ tap' = Append(tap, held[scan]) /\ UNCHANGED drops
           \/ Drop("write")
  /\ UNCHANGED <<hostVars, dmaVars, status, held, engine, scan, received, txVars>>

RxRearm ==
  /\ At("rx", "rearm") /\ mapped /\ Go("rx", "scan")
  /\ status' = [status EXCEPT ![scan] = FALSE]
  /\ scan' = (scan + 1) % RX_DCBS
  /\ UNCHANGED <<hostVars, dmaVars, held, engine, received, tap, drops, txVars>>

(***************************************************************************)
(* Transmission                                                            *)
(***************************************************************************)
\* malloc() or epoll_create1() may fail, which ends the thread.
TxOpen == Move("tx", "open", "loop") \/ Move("tx", "open", "ended")

TxLoop == Move("tx", "loop", IF "tx" \in stopping THEN "ended" ELSE "wait")

\* epoll_wait(): nothing within 500 ms, an error, or ports that have frames.
TxWait ==
  \/ Move("tx", "wait", "loop")
  \/ Move("tx", "wait", "ended")
  \/ /\ At("tx", "wait") /\ Go("tx", "serve")
     /\ frame < MaxTx /\ events' \in SUBSET PortSet \ {{}}
     /\ UNCHANGED <<hostVars, dmaVars, rxVars, frame, bufFrame, dcbFrame, pending, stat, sent, gaveUp>>

\* One event: a frame is read and goes to bcm56846_tx(), or the read fails.
\* tx_running is not looked at between the events of one wait.
TxServe ==
  \/ events = {} /\ Move("tx", "serve", "loop")
  \/ /\ At("tx", "serve")
     /\ \E p \in events :
          /\ events' = events \ {p}
          /\ \/ UNCHANGED <<pc, frame>>
             \/ /\ frame < MaxTx /\ FramePort(frame + 1) = p
                /\ frame' = frame + 1 /\ Go("tx", "copy")
     /\ UNCHANGED <<hostVars, dmaVars, rxVars, bufFrame, dcbFrame, pending, stat, sent, gaveUp>>

\* The first call allocates the descriptor and the buffer.
TxAlloc ==
  LET dcb == dma_alloc(dma_off, DcbSize, 64)
      buf == dma_alloc(dcb.off, BufSize, 16)
  IN  /\ At("tx", "copy") /\ tx_dcb = 0
      /\ tx_dcb' = dcb.at /\ tx_buf' = buf.at /\ dma_off' = buf.off
      /\ IF dcb.at = 0 \/ buf.at = 0
         THEN Go("tx", "serve") /\ UNCHANGED bufFrame
         ELSE Go("tx", "fill") /\ bufFrame' = frame
      /\ UNCHANGED <<hostVars, dma_size, rx_ring, rx_bufs, rxVars,
                     events, frame, dcbFrame, pending, stat, sent, gaveUp>>

\* Later calls find the descriptor.  If the buffer had not fitted, they copy
\* the frame to address 0.
TxCopy ==
  /\ At("tx", "copy") /\ tx_dcb # 0
  /\ \/ tx_buf = 0 /\ exit' = "null_buffer" /\ UNCHANGED <<pc, bufFrame>>
     \/ tx_buf # 0 /\ bufFrame' = frame /\ Go("tx", "fill") /\ UNCHANGED exit
  /\ UNCHANGED <<running, stopping, mapped, tun_fds, dmaVars, rxVars,
                 events, frame, dcbFrame, pending, stat, sent, gaveUp>>

TxFill ==
  /\ At("tx", "fill") /\ Go("tx", "start")
  /\ dcbFrame' = frame
  /\ UNCHANGED <<hostVars, dmaVars, rxVars, events, frame, bufFrame, pending, stat, sent, gaveUp>>

\* cmic_dma_start(): either register write may fail (-EIO).  External: to
\* start the channel clears what its status bit said of the last frame.
TxStart ==
  \/ Move("tx", "start", "serve")
  \/ /\ At("tx", "start") /\ Go("tx", "status")
     /\ pending' = TRUE /\ stat' = (StatBit0 = "enabled")
     /\ UNCHANGED <<hostVars, dmaVars, rxVars, events, frame, bufFrame, dcbFrame, sent, gaveUp>>

\* External: the engine takes what descriptor and buffer hold by now.
EngineSend ==
  /\ pending /\ mapped /\ Alive
  /\ sent' = sent \cup {<<bufFrame, dcbFrame>>}
  /\ pending' = FALSE /\ stat' = TRUE
  /\ UNCHANGED <<pc, hostVars, dmaVars, rxVars, events, frame, bufFrame, dcbFrame, gaveUp>>

\* Bug: the status is not waited for.
Bug_TxStatus == Move("tx", "status", "serve")

\* Up to 5000 readings; bcm56846_tx() returns 0 when one of them shows bit 0.
TxStatus == stat /\ Move("tx", "status", "serve")

\* The last reading does not show it either: bcm56846_tx() returns 0 as well.
TxGiveUp ==
  /\ At("tx", "status") /\ ~stat /\ Go("tx", "serve")
  /\ gaveUp' = TRUE
  /\ UNCHANGED <<hostVars, dmaVars, rxVars, events, frame, bufFrame, dcbFrame, pending, stat, sent>>

MainStep ==
  \/ Attach \/ InitChip \/ EnablePorts \/ TunCreateAll \/ RxStart \/ CreateThreads
  \/ WaitForSignal \/ StopThreads \/ JoinThreads \/ TunCloseAll \/ Detach \/ Return

NetlinkStep == NetlinkOpen \/ NetlinkLoop \/ NetlinkReceive \/ NetlinkError

RxStep == RxFault \/ RxScan \/ RxCallback \/ RxRearm

TxStep ==
  \/ TxOpen \/ TxLoop \/ TxWait \/ TxServe \/ TxAlloc \/ TxCopy \/ TxFill
  \/ TxStart \/ TxStatus \/ TxGiveUp

Next ==
  \/ MainStep \/ Signal \/ NetlinkStep \/ LinkState
  \/ EngineReceive \/ RxStep \/ EngineSend \/ TxStep

\* Every thread is scheduled again and again.  recv() need not return: the
\* kernel may have nothing to announce, and shutdown() of the socket does not
\* wake the netlink thread.
Fairness ==
  /\ WF_vars(MainStep) /\ WF_vars(NetlinkOpen \/ NetlinkLoop) /\ WF_vars(LinkState)
  /\ WF_vars(RxStep) /\ WF_vars(TxStep)

Spec == Init /\ [][Next]_vars /\ Fairness

(***************************************************************************)
(* Properties                                                              *)
(***************************************************************************)

\* What dma_alloc() has handed out: place and size.
Blocks ==
  {<<rx_ring, RingSize>>, <<tx_dcb, DcbSize>>, <<tx_buf, BufSize>>}
    \cup {<<rx_bufs[i], BufSize>> : i \in Dcbs}

\* The receive ring, its buffers and the transmit descriptor and buffer lie
\* inside the pool, above the kernel's 4096 bytes, and apart from each other,
\* whichever allocations failed for lack of room (pktio.c, dma_alloc()).
DmaApart ==
  /\ Cardinality({i \in Dcbs : rx_bufs[i] # 0}) = Cardinality({rx_bufs[i] : i \in Dcbs} \ {0})
  /\ \A b \in Blocks : b[1] # 0 => b[1] >= 4096 /\ b[1] + b[2] <= dma_size
  /\ \A b, c \in Blocks : b # c /\ b[1] # 0 /\ c[1] # 0 => b[1] + b[2] <= c[1] \/ c[1] + c[2] <= b[1]

\* bcm56846_tx() copies to address 0 only when the pool is smaller than what
\* reception and transmission need together, which the kernel's is not.
PoolEnough ==
  exit = "null_buffer" => dma_size < 4096 + RingSize + RX_DCBS * BufSize + DcbSize + BufSize

\* The DMA pool, however large it is and whichever allocation fails (pktio.c,
\* dma_alloc()): blocks apart, and large enough for what the program allocates.
DmaSound == DmaApart /\ PoolEnough

InRing(f) ==
  \E i \in Dcbs : held[i] = f /\ IF pc["rx"] = "callback" /\ scan = i THEN TRUE
                                 ELSE status[i] /\ ~(pc["rx"] = "rearm" /\ scan = i)

Delivered == {tap[k] : k \in DOMAIN tap}

Dropped == {d[1] : d \in drops}

\* Every frame the chip received is accounted for, once: it is in the ring, or
\* it was written to its interface, or it was dropped for one reason; and an
\* interface is found closed only in a shutdown.  So pktio.c,
\* rx_thread_main(), loses frames only where it (pktio.c:87) or rx_callback()
\* (tx_rx.c:34-39) drops them, and re-arms no descriptor too early or twice.
RxConserved ==
  /\ Cardinality(Delivered) = Len(tap)
  /\ Delivered \cap Dropped = {}
  /\ \A d, e \in drops : d[1] = e[1] => d = e
  /\ \A f \in 1 .. received : InRing(f) <=> f \notin Delivered \cup Dropped
  /\ \A d \in drops : d[2] = "closed" => stopping = Stoppable

\* Unless a transmit gave up on the status bit, what leaves is a frame with
\* its own descriptor, to its own port: the one buffer is not filled again
\* before it has been sent (pktio.c, bcm56846_tx(): "Poll completion").
TxIntact == ~gaveUp => \A s \in sent : s[1] = s[2]

\* When main() closes the interfaces and detaches the chip, no thread but
\* the receive thread is left that could use them; that one may still fault
\* on the unmapped ring, since nothing stops it.
DetachQuiet ==
  /\ pc["main"] \in {"close", "detach", "return"} =>
       \A t \in Stoppable : pc[t] \in {"none", "ended"}
  /\ exit = "unmapped" => pc["main"] = "return" /\ stopping = Stoppable

\* A frame that was received leaves the ring, unless the process ends first:
\* the receive thread empties the ring again and again.
RxDelivered == []<>(~Alive \/ \A i \in Dcbs : ~status[i])

\* After a signal, whenever it comes, the process ends, or main() waits for
\* a netlink thread to which no message comes any more: no other thread and
\* no other order of the stops holds it up (main.c, pthread_join()).
ShutdownCompletes ==
  [](~running => <>(~Alive) \/ <>[](pc["main"] = "join_netlink" /\ pc["netlink"] = "recv"))
=============================================================================

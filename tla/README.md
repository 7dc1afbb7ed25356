# A TLA+ verification of open-nos-as5610

open-nos-as5610 is a network operating system for the Edgecore AS5610-52X
switch: a kernel driver for the BCM56846 chip, an SDK that programs its tables
and registers, and a daemon, `nos-switchd`, that mirrors the state of the Linux
kernel into the chip. This directory holds TLA+ models of the parts that carry
the program's logic, TLC runs on small instances, and TLAPS proofs for every
instance.

## 1. The system

### Components

| Component | State it keeps | Operations |
|---|---|---|
| `switchd/src/netlink.c` | interface index -> port, port -> L3 interface id, a neighbour cache of 256 entries | one handler per rtnetlink message; a receive loop that a socket error ends |
| `sdk/src/l3.c` | allocators of interface ids, next-hop ids and route slots; the keys of the slots; four hardware tables | create and destroy of interfaces and next hops, add and delete of routes |
| `sdk/src/l2.c` | the hash table L2_ENTRY (hardware only) | add, delete, get, by a probe loop |
| `sdk/src/port.c` | shadows of the 16 PORT_ENABLE registers | enable and disable a port, read its link status |
| `bde/nos_kernel_bde.c`, `bde/nos_user_bde.c`, `sdk/src/bde_ioctl.c` | a mutex; the message registers, the control register and MISC_CONTROL of the chip | one S-Channel operation at a time; register access without a lock |
| `sdk/src/sbus.c`, `schan.c`, `reg.c` | none | encode one table or register access as an S-Channel message |
| `switchd/src/link_state.c`, `tun.c` | the last link reading of each port | poll the ports, set or clear IFF_UP of the TAP devices |
| `switchd/src/main.c`, `port_config.c`, `sdk/src/attach.c` | the run flag, TAP descriptors | start and stop everything |
| `switchd/src/tx_rx.c`, `sdk/src/pktio.c` | DMA descriptors, the receive thread | packets between the chip and the TAP devices |
| `sdk/src/serdes.c` | which PHYs are initialised; the MIIM registers | MDIO transactions, firmware download, lane set-up, PCS status |
| `sdk/src/ecmp.c`, `vlan.c` | group and member allocators; membership bitmaps and copies of entries | create, destroy, add port |
| `sdk/src/init.c`, `init_datapath.c`, `soc.c`, `config.c` | chip configuration | reset, verify, run scripts, fill tables |
| `platform/platform-mgrd/main.c`, `platform/drivers/accton_as5610_cpld.c` | LED, PWM and watchdog registers of the CPLD, the daemon's last readings | poll loop, sysfs attributes |
| `initramfs/`, `onie-installer/`, `rootfs/` | boot counter, partitions | installation, boot |

### How they interact

    kernel --rtnetlink--> netlink thread --> l3.c, l2.c, port.c --> sbus.c --ioctl--> S-Channel
       ^                                                                          ^      |
       +--SIOCSIFFLAGS-- link-state thread --> port.c, serdes.c --(register ioctl)+     chip

The threads of nos-switchd share the chip and the SDK's static variables. The
only lock is the S-Channel mutex in the kernel driver; register access (and
with it every MIIM transaction) is not locked. The link-state thread and the
netlink thread form a loop through the kernel: a flag the one sets is a message
to the other.

### What is hard, and what correct means

* **Writes fail half way.** A table write may be lost, or reported as failed
  although it was done. Correct: a route the chip matches always leads to a
  complete next hop; what the software believes to own is really its own.
* **Message order.** Addresses, neighbours, routes and links come in any order
  and repeat. Correct: caches and shadows agree with the last announcement.
* **Concurrency on one register file.** Correct: a message is never mixed from
  two callers, every outcome is truthful, every exit leaves the channel usable,
  every call returns.
* **Feedback.** Correct: ports, interface flags and lines agree once the line
  is quiet.
* **Tables run full.** Correct: nothing in use is given away.

* **Shared hardware state.** The MIIM engine, the LED register and the DMA pool
  are used by several threads or processes. Correct: an access that reports
  success did what it was asked for, and what belongs to another is untouched.
* **Bring-up.** Probe, reset and initialisation have dozens of steps whose errors
  are mostly ignored, and start again on a chip in any state. Correct: the ring
  maps are set before the core leaves reset, every block is out of reset when
  `chip_init()` first reads it, a failure damages only its own register, a retry
  repairs it.
* **Shutdown.** Four threads, a signal, one process exit. Correct: nothing is
  used after it is gone, and nobody waits for ever.

`PROJECT.json` lists each hazard with its source line and its properties.

## 2. The modules

| Module | Models | Remarks |
|---|---|---|
| `Asic` | `sbus_mem_write()` as its callers see it | a write ends "ok", "lost" or "late" (done, but an error is returned); `Outcomes` says which are allowed |
| `L3` | `l3.c` | operators with the outcomes of their writes and the returned id as parameters; id 0 is "error" |
| `L2` | `l2.c` | index arithmetic as in the code, modulo 2^17; a probe loop is given by the probes that failed |
| `Port` | `port.c` | block and lane of each of the 52 ports, the shadow and the register |
| `Netlink` | `netlink.c` over `L2`, `L3` and `Port` | one action per message: the kernel's change and the whole handler |
| `Fib` | abstract | a forwarding table of which one message changes at most one prefix |
| `Schan` | `nos_bde_schan_op()` | every register access that another thread or the chip can interleave with is a step; the chip's engine is external |
| `LinkLoop` | `link_state.c`, `tun_set_up()`, `handle_link()` over `Port` | two threads, a message queue, lines, an administrator |
| `Miim` | `miim_read()`, `miim_write()`, `wc_read()`, `wc_write()`, `wc_cl45_read()`, `serdes_link_get()` | every register access of a transaction is a step; the engine may finish late; lane and block selection are state of the PHY |
| `Serdes` | `bcm56846_serdes_init_10g()`, `wc_phy_init()`, `wc_firmware_download()` | one access is one step, which module `Miim` justifies, and may fail; so may the WARPcore itself, which reports an error or never what is waited for (serdes.c:707-721, 752-761); a lane's program is a sequence of writes and read-modify-writes |
| `Ecmp`, `Vlan` | `ecmp.c`, `vlan.c` over `Asic` | allocators, descriptors and runs; entries as sets of bits |
| `Switchd` | `main.c`, `attach.c`, `tx_rx.c`, `pktio.c` | threads, stop flags and joins; the DMA pool, the receive ring with every reason for which a frame is dropped (its length, pktio.c:87; its port, a closed interface, a failing or short `write()`, tx_rx.c:33-39), the one transmit buffer; the DMA engine is external |
| `Datapath` | `init_datapath.c` | a phase is the sequence of its statements over (register, location); an operator applies it with a set of failing accesses, and a phase may be left before any of them |
| `Chip` | `nos_kernel_bde.c` (probe, reset, remove), `init.c`, `soc.c`, `config.c` over `Datapath` | the driver, and switchd started, and killed between two steps or inside a phase of the datapath |
| `Platform` | `platform-mgrd/main.c` over `accton_as5610_cpld.c` | the daemon's loop beside an operator's shell on the same registers |
| `MCNetlink`, `MCLoads`, `MCTables`, `MCSchan`, `MCMiim`, `MCSwitchd`, `MCChip`, `MCPlatform` | - | instances for TLC: symmetry, call sets, scripts, temperatures. `MCTables` puts `Netlink`, `Ecmp` and `Vlan` on one chip whose writes fail; `MCLoads`, `MCSwitchd` and `MCChip` keep the environment of `Netlink`, `Switchd` and `Chip` to one kind of load or trouble at a time |
| `Netlink_proofs`, `Schan_proofs`, `LinkLoop_proofs`, `Switchd_proofs`, `Miim_proofs`, `Serdes_proofs`, `Chip_proofs`, `Platform_proofs` | - | theorems and their lemmas; `Netlink_proofs` extends `MCTables` and covers `L2`, `L3`, `Ecmp` and `Vlan` too |

Definitions keep the names of the functions they model. Operators whose name
starts with `Bug` are mutations of the definition they precede; they are not part
of any specification and serve to show that each property can fail.

Abstractions worth knowing:

* A message of the kernel and its handling are one step in `Netlink`. The
  handler reads nothing but the message and the thread's own tables, so the
  tables depend on the sequence of messages and not on when each is read. The
  kernel variables (`klink`, `kadmin`, `kaddr`, `kneigh`, `kfib`) record what
  was announced last. In `LinkLoop` the queue is explicit, because there the
  thread's effects come back to the other thread.
* A prefix with its length is an opaque key; keys do not overlap. An entry of
  EGR_L3_INTF is the port whose synthetic MAC it holds. MAC addresses are small
  numbers in `L2`, since only their lowest bit reaches the hash index.
* In `Schan` a word of a message is known by its owner, its position and whether
  it is part of an answer. TIMEOUT and NAK, which the code treats alike, are one
  bit. A chip that refuses a message has not run it; a chip that does not answer
  in time may have.
* In `LinkLoop` the link status of a line does not depend on whether its port is
  enabled. This is so for the PCS status that ports 49 to 52 use. If the MAC's
  link bit, which the other ports use, were gated by PORT_ENABLE, a port once
  disabled by the loop would not come back; the source does not say.
* In `Chip` a phase of the datapath initialisation is one step, since the phases
  run in one thread and the chip does not act in between. `MaxFaults` bounds the
  failing accesses of a whole behaviour, any number of which may fall into one
  phase; a kill inside a phase, after which neither the next access nor any later
  one is made, counts as one. Run `chip_init` has one fault; what several do,
  in one phase or in several, is known from the theorems only, which hold for
  any `MaxFaults`. The CPS reset clears any set of the registers the model has,
  each on its own: nos_kernel_bde.c:170-178 does not say which. The sanity and
  probe reads of init.c:127-166 decide nothing in the code; `BlocksReady` is what
  they need. A sysfs unbind of the driver while switchd has its device open is
  left out: `Unbind` stands for the removal of the module, which an open device
  prevents. Registers no property reads are not tracked, tables
  keep a sample of their indices, and ports are a sample of 0 to 52 that has the
  CPU, a plain and a permuted block of 10G ports and a 40G port. switchd starts
  only after the probe has returned. `m` in a script ignores a failing read, as
  the code does; the only register the model lets it change is MISC_CONTROL.
* In `Switchd` frames are numbers; frame n belongs to a fixed port. A dropped
  frame is recorded with the reason. When the attach or a creation of the packet
  path fails, the code's exit is taken.
* In `Serdes` a register of a lane is known by whether it holds the field the
  code wants there. After a read that failed, `val` holds another register's
  contents, which the write-back stores: the wanted field is then still written,
  and what becomes of the register's other bits, those of other lanes in FW_MODE
  too, is not modelled. Whether the 8051 reports an error is left to the device.
  The comment "MDIO download returns ERR1 on this chip" (serdes.c:404-405) stands
  in code that is compiled out; if it is true, only the branch with an error is
  ever taken, and `FirmwareRuns` then promises the PLL, the timers and a running
  8051 but no firmware.
* In `Platform` time is counted by the daemon's sleeps and by transfers on the
  I2C bus that time out. Register 0x06 is the driver's best effort at a watchdog
  (accton_as5610_cpld.c:291-295): what is checked is that it is written. A
  keepalive that finds no driver writes nothing, without a word
  (platform-mgrd/main.c:125-131), and is counted as missed, up to `MaxMissed`.
  The driver may be absent, go away and come back:
  platform-mgrd.service only orders the daemon after `local-fs.target`, although
  platform-mgrd/README.md:22 has the modules loaded before it.
* Constants are the program's where a limit is visible in behaviour
  (`MaxPorts` 56, `MaxIfindex` 512, 16 message words, register 7); table sizes
  are parameters.

## 3. The runs

| Run | Shows | Distinct states |
|---|---|---|
| `netlink_faults` | types, distinct route keys, routes lead to complete next hops, a port's interface is its own, next hops in use are not rewritten; ECMP groups keep their members and the leak of their slots is the only one; VLAN entries are as asked after a call that succeeds and well formed after one that fails; all three outcomes of every write | 350 thousand |
| `netlink` | the tables of a chip that does not fail implement `Fib`; the shadow of L3_DEFIP is exact; the neighbour cache, twice too small, is duplicate-free and fresh; swp56 and interface index 512, which the code has no place for, get nobody else's interface | 370 thousand |
| `schan` | ownership of messages, truthful outcomes, a clean channel, and every call returns | 35 thousand |
| `link_loop` | ports follow the kernel's flags; interfaces and ports settle on the state of their lines | 950 thousand |
| `miim` | calls that do not overlap: an access that returned 0 reached its lane and block, whatever timed out before and even if the engine finishes between the last poll and the cancelling write, and nothing else is written | 4.1 million |
| `serdes` | a lane comes up or the lost access that keeps it down is known; calling again repairs it; the firmware runs as downloaded unless an access failed or the WARPcore reported an error, and its PLL and 8051 run even in the latter case | 7.0 million |
| `switchd` | blocks of the DMA pool lie apart; a received frame is delivered once or dropped for one of the code's reasons; a frame leaves with its own descriptor; threads are gone before their resources; the ring is emptied again and again; shutdown waits for nothing but a silent netlink socket | 200 thousand |
| `platform` | LEDs keep apart; the watchdog register is written in time, but for keepalives that found no driver; the fans follow the hottest sensor; the LEDs settle on the board's state | 150 thousand |
| `chip_init` | resources are unwound in order; the ring maps are set before the core leaves reset; the chip is ready when its blocks are first read; buffers add up; priority, pool, queue and scheduler tables agree; a failing access damages only what is its own; initialisation ends whatever scripts load each other | 79 thousand |

Three runs end in a violation, each of one statement of a document or comment
(section 6): `gateway`, `miim_race` and `tx_poll`. Some properties are
conjunctions of named parts (`EcmpSound`, `VlanSound`, `LaneComesUp`, `DmaSound`,
`QueuesSound`, `FaultsStayLocal`), which are commented one by one where they are
defined. `LinkLoop`, `Miim`, `Serdes`, `Switchd`, `Platform` and `Chip` also define a
`TypeOK`, which is there for proofs and holds when it is added to their
configurations.

**Bounds.** Two keys and two slots are the least in which a key can be looked
for beside another, a table can be full, and a freed slot can be reused, with a
stale entry of the other key still in it; two next-hop ids are the least in
which one is in use while another is allocated. In `netlink_faults` two ports
compete for one interface id, so that it is refused, freed and handed over; the
ports are 53 and 54, which `netlink.c` accepts and `port.c` does not, so that
the port registers stay out of the way. Two cache entries make removal from the
front of a longer cache happen. One interface index is enough for two ports,
since an interface can be renamed. In `netlink` the kernel keeps to one of three
loads (`MCLoads`), because their product is out of reach: routes with their
interface and neighbours; four neighbours of two interfaces, each moving between
two MACs, with a cache of two, so that it is full, drops entries and must not
keep a stale one; and addresses and a route on swp53, swp54 and swp56 and on
interface index 512. Ports 53 and 56 are the first and last that `netlink.c`
accepts and `port.c` does not. Message lengths 3 and 8 lie on both sides of
register 7. In `LinkLoop` the counters `MaxFlaps`, `MaxAdmin`, `MaxReadFaults`
and `MaxTunFaults` bound the environment, not the program; they allow two
messages for one port in flight with a reading in between. Ports 21 and 22 share
a block whose lanes are permuted; port 51 reads its status from the PHY. In
`miim` one timeout and two changes of the line allow a late completion to meet
the next transaction, and a loss of signal to be latched and read. In `serdes`
the ports are 51 and 52, which share a WARPcore, and 25, which has the same PHY
address on another bus; two faults are the least in which a failing read meets a
lost write, and the WARPcore's own errors are not bounded. In `switchd` the
three pool sizes are one that ends in the middle of the receive buffers, one that is a byte too small for everything, and one that
just fits; three frames on two descriptors make the ring wrap. A behaviour with
more than one received frame has none to send (`MCSwitchd`), since the two
directions share only the pool and the shutdown. In
`netlink_faults` four ECMP slots hold two groups of two; egress id 8193 does not
fit in 13 bits; VLAN ports 31 and 52 lie on both sides of a word boundary. In
`platform` the temperatures lie on both sides of each threshold and below zero;
`MaxEvents` bounds what the board, the operator and the bus do, and two missed
keepalives are told apart. In `chip_init` two starts and two binds are the least
in which the second meets what the first left; a failing access and a second
bind are not combined (`MCChip`), since the driver's reset clears the tables; the
scripts are those that are shipped, one that loads itself and one that runs the
initialisation again. The theorems of section 4 hold without any of these
bounds.

**Deadlock** is checked for `Schan`, `LinkLoop`, `Miim`, `Serdes` and `Platform`. It
is switched off where the system really stops: the netlink thread ends (`RecvError`), the process exits
(`MCSwitchd`), switchd is not restarted (`MCChip`).

**Fairness.** `schan` assumes that a caller inside the driver keeps running,
that the deadline of the poll passes, and that the kernel mutex, which queues
its waiters, is eventually granted to each of them (strong fairness of `Lock`).
It assumes nothing of the chip. `link_loop` assumes that both threads are
scheduled again and again; both are loops without a blocking wait other than for
a message or a timer. It leaves out that a receive error ends the netlink thread
(netlink.c:352), after which nothing settles; that is looked at in `switchd`
only. `switchd` assumes that every thread runs on; it does not
assume that `recv()` on the netlink socket returns, because the kernel may have
nothing to announce, and the result shows that this is the one thing `main()`
can wait for without end. `platform` assumes that system calls of the daemon
return and that a store that has begun ends; `chip_init` that switchd runs
unless it is killed. Failures are never fair.

## 4. What is proved

All proofs are checked by TLAPS for every value of the constants that satisfies
the named assumptions of the modules (sizes are natural numbers, ports are within
MAX_PORTS, special values are distinct from ordinary ones). Where a theorem needs
more, its `ASSUME` says so:

| Hypothesis | Theorems | Why |
|---|---|---|
| `Outcomes = {"ok"}` | `ShadowIsExact`, `FibImplemented`, `ChipFollowsKernel` | a write that fails leaves the shadow ahead of the chip; the runs `netlink` and `link_loop` have the same chip |
| `StatBit0 = "done"` | `TxIsIntact` | the comment in pktio.c:128 taken at its word; with the other reading run `tx_poll` finds the counterexample |
| `WDT_KEEPALIVE_S <= POLL_INTERVAL_S` | `WatchdogIsFed` | 15 and 30 in platform-mgrd/main.c:33; with a longer period two polls, each with its scan of the bus, would fit between two keepalives |
| `Threads = {t}` | `AccessIsTruthful`, `WritesAreAsked` | with a second thread the property is false: run `miim_race` |

Some assumptions on constants were found wanting by the proofs and now say what
the code has: the ECMP table's base and count must fit their fields of the
descriptor (`EcmpAssumption`, 12 and 10 bits), the operator stores colours the
driver knows (`PlatformAssumption`; it takes every other word for "off"), the
sample of ports has a port of each speed (`DatapathAssumption`), and the registers
a script names are none of those the datapath's properties look at
(`ScriptsAssumption`). That holds of every register in the table of soc.c; a
`setreg` with a raw hexadecimal address (soc.c:189-192) reaches any register of
the chip, the watched ones too, and is excluded by the assumption. None of the
scripts in the repository has one.

Each invariant below but `LinkLoop`'s type invariant is one of a run of section 3; what is named after
it is the inductive invariant, which is stronger.

* `Netlink_proofs`, any outcome of every write: `TypeCorrect`, `KeysDistinct`,
  `RoutesAlwaysResolve`, `PortsOwnTheirIntf`, and the action property
  `NextHopsStable`, from `IInv`, the conjunction of the four. `RoutesResolve` is
  needed to know that the next hop of a matched entry, even one a failed delete
  left behind, is allocated, which makes `alloc_id()` avoid it; `PortOwnsIntf`
  carries that no two ports record one id, so that destroying an interface does
  not take another port's. The lemmas on what each table operation changes, for
  each way its writes can end (`IntfCreateEffect`, `EgressCreateEffect`,
  `RouteAddEffect`, ...), are used instead of the definitions. `CacheIsFresh` adds
  `CacheSound`: no cached interface has lost its port, because the kernel
  withdraws the neighbours of an interface before the interface; without it an
  RTM_DELNEIGH could miss the entry.
* `Netlink_proofs`, a chip that never fails: `ShadowIsExact`, and `FibImplemented`, the refinement of `Fib`. `FibStart` maps initial states;
  `FibChange` maps a step that changes one slot and writes only free next hops
  (`Becomes`, `NextHopsKept`) to a change of one key, `FibSame` every other step
  to a stutter. It rests on `KeysDistinct` (a key is looked up in at most one
  slot) and `RoutesResolve`.
* `Netlink_proofs`, ECMP and VLAN: `EcmpIsSound`, by `EcmpInv`: the slots in use are
  the first `granted` ones, so that the least free run begins there, and each
  descriptor holds its group's members. What the allocators return is proved of
  their definitions by the least-number principle (lemma `Least`), which well-
  foundedness of `Nat` gives. `VlanIsSound`, by `VlanInv`: the SDK's copy is
  exactly the entry of its bitmaps, which is why a successful call repairs what
  failed ones left; the lemmas `ReadIng` and `ReadEgr` show that the fields, given
  as bit positions, do not overlap.
* `Schan_proofs`: `TypeCorrect`, `MessagesOwned`, `OutcomesTruthful`,
  `ChannelAlwaysClean`, for any number of callers and any message lengths up to
  16. `IInv` adds that only the owner of the mutex is inside (`MutexInv`), in which
  places of the function the engine may run (`EngineInv`), which words are already
  written, that the saved copy of MISC_CONTROL is the configured value, and what
  DONE and NAK say of the message (`CallerInv`).
* `LinkLoop_proofs`: `TypeCorrect` and `ChipFollowsKernel`, for any ports and any
  number of flaps and administrators' commands. `FollowInv` states where along
  the way from the kernel's flags through the queue to the shadow and the register
  a port is; appending and taking a message move it.
* `Switchd_proofs`: `DetachIsQuiet` (`LifeInv`: who is joined, told to stop or not
  yet created at each point of main()), `TxIsIntact` (`TxInv`), `RxIsConserved`
  (`RxInv`: a received frame that was neither delivered nor dropped is held by
  exactly one descriptor that waits to be looked at), `DmaIsSound`
  (`DmaInv`: the layout after each allocation), for any pool size and any number
  of descriptors and frames.
* `Miim_proofs`: `AccessIsTruthful` and the action property `WritesAreAsked`.
  `Protocol` says that the engine runs only while its thread polls, with what the
  thread has put in the registers, even after a timeout, because giving up stops
  it; `Effected` counts the transactions of the access that have reached the PHY,
  and `Selected` and `Latched` what each of them has left there. `AccessInv` was
  checked by TLC on the instance of run `miim` first.
* `Serdes_proofs`: `LaneIsUp` (`LaneInv`), `FirmwareIsRun` (`FirmwareInv`, with the
  words downloaded so far and with what the WARPcore reported), for any length of
  the firmware and any number of faults.
* `Chip_proofs`: `ResourcesInOrder` (`HeldInv`: the step of the probe or of its
  error ladder gives the number of resources held), `AgentIsKept` (`AgentInv`:
  once the driver's reset has written them the ring maps stay set), whichever registers the
  CPS reset clears, and `BlocksAreReady` (`ReadyInv`: what each step of
  `chip_init()` has set is still so at the next), over any number of binds and
  starts.
* `Chip_proofs`, datapath initialisation: `FaultsAreLocal`, `BufferIsExact` and
  `QueuesAreSound`, for any sample of the ports, any scripts, and any number of
  passes and failing accesses, several of which may fall into one phase. A pass may
  follow one that was cut short, between two phases or inside one, or lost writes, so none of the three follows from running the phases once. `Execute` is
  recursive over a list of statements; that the recursion has a solution and
  what it preserves is proved once, by the least-number principle
  (`ExecuteRuns`, `RunEffect`). `LeavesValue` says what the last statement of a list on a
  location writes, `SparesAt` and `Spares` what a list does not touch; both are
  derived for a phase from its parts, in the order it is written. The invariants:
  `PassInv` and `TablesInv` (of each phase that is over: what it was to leave in
  its registers is there, or that very access has failed), `PassOnBus` (a pass
  runs only on a chip that answers), `ScriptInv` (the stack of open scripts, whose
  writes stay away from the tables), `CellsInv` (every value ever in a register
  that shares out the buffer is its reset value or the one phase 1 writes, which
  bounds the sum at any time), `QueuesInv` (no bit enables a limit for queues 1
  and 2 of a front port). A read-modify-write keeps what an earlier pass left in
  the other fields, which is why the last is an invariant of its own.
* `Platform_proofs`: `LedsStayApart` (`LedInv`: the bytes two unlocked stores hold
  are the register but for fields somebody asked for; fields of a byte by
  division and remainder) and `WatchdogIsFed` (`WatchInv`: the time since the last
  keepalive in terms of the loop's tick counter; `UnfedInv`: the time since the
  register was written exceeds that by at most one such wait for each keepalive
  that was missed).

Only model-checked:

* liveness under fairness (`EveryCallReturns`, `LoopSettles`, `ShutdownCompletes`, `RxDelivered`,
  `FansCool`, `LedsSettle`, `InitEnds`), which is out of the prover's reach;
* what the runs that end in a violation refute.

## 5. Not modelled

The formats of messages, and register values that no table of the model names,
are data. Stateless wrappers (`i2c.c`, `stats.c`, `reg.c`), diagnostics and the
firmware image have no behaviour to check. `egress_destroy()`, `host_add()`, the
L2 user entries, `bcm56846_rx_stop()` and `wc_init_stage2()` have no caller;
`wc_ucmem_download()` is compiled out. IPv6 routes are refused by the SDK and
ignored by the model. The results of `pthread_create()` are taken to be success.

Boot is not modelled: the counter, the slots and the reinstallation after three
failures are U-Boot commands in a text file, which the repository gives no
semantics for; what is left in code is one `fw_setenv` and a mount sequence.

Hazards seen and not covered by a property: the lane and block selections that
`wc_cl45_read()` does not check (serdes.c:267; `AccessTruthful` excuses
`serdes_link_get()` once one of its accesses failed, because the code promises
nothing then); an L2 entry overwritten by another address of the same slot
(l2.c:99; shown by a configuration of section 6, excluded by no property); the
foreign bits a stale `val` leaves in a WARPcore register (serdes.c:1007); the
driver unbound through sysfs while switchd uses it; which of two overlapping prefixes in
the TCAM the chip prefers (l3.c:227; the source does not say); addresses stored
twice or off their home slot when probes fail half way (l2.c:100; all patterns
of failures are modelled, no document says what should hold); the enable shadow
that keeps a value whose write failed (port.c:135), or outlives a second
initialisation of the chip; the SDK's empty copy of VLAN 1, which the datapath
initialisation has filled (vlan.c:124; the first port added through the API
replaces the others); `m` in a script on a register that could not be read
(soc.c:263).

## 6. Where code and documentation differ

Runs of the project:

* `gateway`: the gateway's MAC is fixed when the route arrives; a neighbour that
  resolves later does not reach the chip.
* `miim_race`: MIIM transactions of the netlink and the link-state threads mix,
  although switchd/README.md:86 has SDK calls serialised.
* `tx_poll`: with bit 0 of CMICM_DMA_STAT as bcm56846_regs.h:35 gives it
  ("enabled"), `bcm56846_tx()` never waits and the next frame overwrites the one
  buffer. Run `switchd` takes the comment in pktio.c:128 at its word instead.

Configurations kept for study, each of which ends in a counterexample:

| Configuration (module) | Violated | What happens |
|---|---|---|
| `NetlinkSourceMac.cfg` (`MCNetlink`) | `NextHopSourceMac` | any RTM_DELADDR, not only the last one as switchd/README.md:36 has it, destroys the port's interface entry, and next hops keep referring to it |
| `NetlinkCollision.cfg` (`MCNetlink`) | `CachedNeighboursInL2` | the L2 table's "linear probe for collision" (l2.c:99) overwrites instead of probing |
| `SchanMessage.cfg` (`MCSchan`) | `MessageIntact` | messages longer than seven words lose their eighth word, which L3_DEFIP entries, for one, need |
| `LinkLoopRetry.cfg` (`LinkLoop`) | `TunFollowsLink` | a failed `tun_set_up()` is never tried again |
| `LinkLoopLane.cfg` (`LinkLoop`) | `TunFollowsLink` | port 52 reports the line of port 51 |
| `LinkLoopFlags.cfg` (`LinkLoop`) | `OnlyUpIsWritten` | `tun_set_up()` may undo a flag that is none of its business |

Met while reading, without a model of their own: offset 0x10c is CMIC_CONFIG for
the kernel driver, which preserves it, and SCHAN_RING_CFG for the SDK, which
clears it; CMIC_SOFT_RESET_2 is 0x057C for the kernel and 0x0584 in the SDK's
header; the script interpreter's addresses of rtag7_hash_seed_a and xmac_tx_ctrl
are not those of the datapath initialisation; the comments at
init_datapath.c:1235 and 1316 speak of BAR0 where soc.c:40 uses the S-Channel;
of rc.datapath_0 only one `setreg` has any effect; the driver's comment
"64/128/200/248" (accton_as5610_cpld.c:101) is not the daemon's 96/168/248.

## 7. Plan

1. Proofs: type correctness of the components whose `TypeOK` no run checks, where
   the inductive invariants above do not contain it already; that a second set-up
   of a lane, and a second start of the chip, do not depend on the first.
2. `egress_destroy()`, `host_add()` and the L2 user entries, if a caller appears.

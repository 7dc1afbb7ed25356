-------------------------------- MODULE Chip --------------------------------
(***************************************************************************)
(* Bringing the chip up.  The kernel driver (bde/nos_kernel_bde.c) probes  *)
(* the PCI device, one resource after the other, and resets the chip.      *)
(* Once it is bound, switchd starts, as often as it takes: it loads its    *)
(* port map, runs chip_init() (sdk/src/init.c), which reinforces what the  *)
(* kernel did and initialises the datapath, and then the scripts rc.soc    *)
(* and rc.datapath_0 (sdk/src/soc.c), whose "init all" runs chip_init()    *)
(* again and whose "rcload" runs another script.  switchd may be killed at *)
(* any point and restarted on a chip in any state.                         *)
(***************************************************************************)
EXTENDS Datapath

CONSTANTS
  FileSystems, \* the scripts there may be: sets of functions, file -> commands
  MaxStarts,   \* times switchd is started
  MaxBinds     \* times the driver is probed

RCLOAD_MAX_DEPTH == 8

ASSUME ChipAssumption == MaxStarts \in Nat /\ MaxBinds \in Nat

\* Of the scripts: a setreg by name reaches the registers of soc.c's reg_table,
\* none of which has the address of one that the datapath's properties look at.
\* A setreg by raw address (soc.c:189) could; the scripts have none that does.
ASSUME ScriptsAssumption ==
  \A fs \in FileSystems : \A name \in DOMAIN fs :
    /\ Len(fs[name]) \in Nat
    /\ \A i \in 1 .. Len(fs[name]) : fs[name][i].op = "setreg" => fs[name][i].arg \notin Watched

VARIABLES
  bde,    \* what the driver is doing
  step,   \* the next step of that
  held,   \* the kernel resources it holds
  pc,     \* where switchd is
  todo,   \* the scripts bcm56846_init() has still to run
  frames, \* the scripts being run, outermost first: file and next line
  files,  \* the scripts there are, looked at when the first is to be run
  starts, binds

chipVars == <<bde, step, held, pc, todo, frames, files, starts, binds>>
vars == <<dpVars, chipVars>>

AllOut == {"pll", "post", "pg", "core"}
Cold == [maps |-> FALSE, soft |-> {}, xq |-> FALSE, link40g |-> FALSE, schan |-> "clear",
         config |-> "zero", agent |-> "ok"]
Warm == [maps |-> TRUE, soft |-> AllOut, xq |-> TRUE, link40g |-> TRUE, schan |-> "stale",
         config |-> "set", agent |-> "ok"]

Init ==
  /\ DpInit /\ cmic \in {Cold, Warm}
  /\ bde = "absent" /\ step = 1 /\ held = {} /\ binds = 0
  /\ pc = "down" /\ todo = <<>> /\ frames = <<>> /\ files = <<>> /\ starts = 0

(***************************************************************************)
(* The driver.                                                             *)
(***************************************************************************)
userVars == <<pc, todo, frames, files, starts>>

Acquired == <<"priv", "device", "regions", "bar0", "dma", "irq">>
\* The labels err_dma .. err_free, each falling through to the next.
Cleanup  == <<"dma", "bar0", "regions", "device", "priv">>
\* Mutant: a failing DMA allocation jumps past err_iounmap.
Bug_ErrLabel == <<6, 5, 4, 3, 3, 1>>
ErrLabel == <<6, 5, 4, 3, 2, 1>>
Removal  == <<"irq", "dma", "bar0", "regions", "device", "priv">>

Probe ==
  /\ bde = "absent" /\ binds < MaxBinds
  /\ bde' = "probing" /\ step' = 1 /\ binds' = binds + 1
  /\ UNCHANGED <<dpVars, userVars, held>>

Acquire ==
  /\ bde = "probing"
  /\ \/ /\ held' = held \cup {Acquired[step]}
        /\ IF step < Len(Acquired) THEN step' = step + 1 /\ UNCHANGED bde
                                   ELSE step' = 1 /\ bde' = "resetting"
     \/ bde' = "unwinding" /\ step' = ErrLabel[step] /\ UNCHANGED held
  /\ UNCHANGED <<dpVars, userVars, binds>>

\* Give back the resources of a list, one after the other.
Release(list) ==
  /\ \/ step <= Len(list) /\ held' = held \ {list[step]} /\ step' = step + 1 /\ UNCHANGED bde
     \/ step > Len(list) /\ bde' = "absent" /\ step' = 1 /\ UNCHANGED held
  /\ UNCHANGED <<dpVars, userVars, binds>>

Unwind == bde = "unwinding" /\ Release(Cleanup)

\* The chip's SBUS agent is lost for good when the pipelines leave reset before
\* the ring maps are programmed (the comment above bcm56846_chip_reset()).
Cmic(c) ==
  [c EXCEPT !.agent = IF "core" \in c.soft \ cmic.soft /\ ~c.maps THEN "error" ELSE @]

\* Which registers the CPS reset returns to their cold values is for the chip to say.
CpsReset(c) ==
  [maps : {c.maps, Cold.maps}, soft : {c.soft, Cold.soft}, xq : {c.xq, Cold.xq},
   link40g : {c.link40g, Cold.link40g}, schan : {c.schan, Cold.schan},
   config : {c.config, Cold.config}, agent : {c.agent}]

\* Mutant: the ring maps are left to chip_init().
Bug_ResetStep(c, k) ==
  CASE k = 1 -> CpsReset(c)
    [] k = 2 -> {[c EXCEPT !.soft = {}]}
    [] k = 8 -> {[c EXCEPT !.soft = AllOut, !.link40g = TRUE]}
    [] OTHER -> {c}

\* The registers after step k of bcm56846_chip_reset().
ResetStep(c, k) ==
  CASE k = 1 -> CpsReset(c)
    [] k = 2 -> {[c EXCEPT !.soft = {}]}
    [] k = 3 -> {[c EXCEPT !.maps = TRUE]}
    [] k = 4 -> {[c EXCEPT !.soft = {"pll"}]}
    [] k = 5 -> {[c EXCEPT !.soft = {"pll", "post"}]}
    [] k = 6 -> {[c EXCEPT !.soft = {"pll", "post", "pg"}]}
    [] k = 7 -> {[c EXCEPT !.xq = TRUE]}
    [] k = 8 -> {[c EXCEPT !.soft = AllOut]}
    [] k = 9 -> {[c EXCEPT !.link40g = TRUE]}
    [] k = 10 -> {[c EXCEPT !.schan = "clear"]} \* cmice_schan_abort()

chip_reset ==
  /\ bde = "resetting"
  /\ \E c \in ResetStep(cmic, step) : cmic' = Cmic(c)
  /\ IF step < 10 THEN step' = step + 1 /\ UNCHANGED bde ELSE step' = 1 /\ bde' = "bound"
  /\ mem' = IF step = 2 THEN ResetMem ELSE mem
  /\ phase' = 0 /\ hits' = {}
  /\ UNCHANGED <<faults, held, binds, userVars>>

\* The driver stays while switchd has its device open: its module is in use
\* then.  (sysfs can unbind a driver in use; that is left out.)  What the tables
\* hold from here on is of no interest: nobody can reach them before a new reset.
Unbind ==
  \/ /\ bde = "bound" /\ pc = "down"
     /\ bde' = "removing" /\ step' = 1
     /\ mem' = ResetMem /\ phase' = 0 /\ hits' = {}
     /\ UNCHANGED <<cmic, faults, userVars, held, binds>>
  \/ bde = "removing" /\ Release(Removal)

(***************************************************************************)
(* switchd: bcm56846_attach(), bcm56846_init().                            *)
(***************************************************************************)
kernVars == <<bde, step, held, binds>>

\* bcm56846_config_load() fails when there is no config.bcm: main() gives up.
Start ==
  /\ pc = "down" /\ bde = "bound" /\ starts < MaxStarts
  /\ starts' = starts + 1
  /\ pc' \in {"down", "maps"}
  /\ todo' = IF pc' = "maps" THEN <<"rc.soc", "rc.datapath_0">> ELSE <<>>
  /\ UNCHANGED <<dpVars, kernVars, frames, files>>

\* switchd is killed, or stops.
Stop ==
  /\ pc # "down"
  /\ pc' = "down" /\ todo' = <<>> /\ frames' = <<>> /\ files' = <<>>
  /\ UNCHANGED <<dpVars, kernVars, starts>>

\* Mutant: chip_init() relies on the kernel driver's reset for the rest.
Bug_InitStep(c) == IF pc = "maps" THEN [c EXCEPT !.config = "zero", !.maps = TRUE] ELSE c

\* The steps of bcm56846_chip_init() before the datapath, and what each leaves:
\* stale ring configuration cleared and ring maps written; LINK40G set and the
\* S-Channel cleared; verify_reset_and_probe(), which mends what it finds wrong
\* and then reads a register of every block, whatever the answers are.
InitStep(c) ==
  CASE pc = "maps"   -> [c EXCEPT !.config = "zero", !.maps = TRUE]
    [] pc = "link"   -> [c EXCEPT !.link40g = TRUE, !.schan = "clear"]
    [] pc = "verify" -> [c EXCEPT !.soft = AllOut, !.link40g = TRUE]
    [] pc = "probe"  -> c

InitNext == [maps |-> "link", link |-> "verify", verify |-> "probe", probe |-> "datapath"]

chip_init ==
  /\ pc \in DOMAIN InitNext
  /\ cmic' = Cmic(InitStep(cmic)) /\ pc' = InitNext[pc]
  /\ phase' = 0 /\ hits' = {}
  /\ UNCHANGED <<mem, faults, kernVars, todo, frames, files, starts>>

\* bcm56846_datapath_init(); its result is only logged.
DatapathInit ==
  /\ pc = "datapath"
  /\ datapath_init_phase
  /\ pc' = IF phase' < PhaseCount THEN pc ELSE IF frames = <<>> THEN "soc" ELSE "script"
  /\ UNCHANGED <<cmic, kernVars, todo, frames, files, starts>>

\* switchd is killed inside a phase.
KilledInPhase ==
  /\ pc = "datapath"
  /\ datapath_init_cut
  /\ pc' = "down" /\ todo' = <<>> /\ frames' = <<>> /\ files' = <<>>
  /\ UNCHANGED <<cmic, kernVars, starts>>

\* bcm56846_soc_run(): a script that is not there is passed over.
FirstScript ==
  /\ pc = "soc" /\ Len(todo) = 2 /\ files = <<>>
  /\ files' \in FileSystems
  /\ UNCHANGED <<dpVars, kernVars, pc, todo, frames, starts>>

soc_run ==
  /\ pc = "soc" /\ files # <<>>
  /\ IF todo = <<>> THEN pc' = "up" /\ UNCHANGED <<todo, frames>>
     ELSE /\ todo' = Tail(todo)
          /\ IF Head(todo) \in DOMAIN files
               THEN frames' = <<[file |-> Head(todo), line |-> 1]>> /\ pc' = "script"
               ELSE UNCHANGED <<frames, pc>>
  /\ UNCHANGED <<dpVars, kernVars, files, starts>>

Top == frames[Len(frames)]
Line == files[Top.file][Top.line]
Advance == [frames EXCEPT ![Len(frames)].line = @ + 1]

EndOfFile ==
  /\ frames' = Front(frames) /\ pc' = IF Len(frames) = 1 THEN "soc" ELSE pc
  /\ UNCHANGED dpVars

\* Mutant: after the other script the same line is run again.
Bug_RcLoadAgain ==
  /\ frames' = IF Len(frames) - 1 < RCLOAD_MAX_DEPTH /\ Line.arg \in DOMAIN files
                 THEN Append(frames, [file |-> Line.arg, line |-> 1]) ELSE Advance
  /\ UNCHANGED <<dpVars, pc>>

\* rcload: deeper than RCLOAD_MAX_DEPTH, or of a missing file, it does nothing.
RcLoad ==
  /\ frames' = IF Len(frames) - 1 < RCLOAD_MAX_DEPTH /\ Line.arg \in DOMAIN files
                 THEN Append(Advance, [file |-> Line.arg, line |-> 1]) ELSE Advance
  /\ UNCHANGED <<dpVars, pc>>

InitAll == frames' = Advance /\ pc' = "maps" /\ UNCHANGED dpVars

\* setreg of a known S-Channel register.
SetReg ==
  /\ LET list == W(Line.arg, Global, Line.val) IN \E f \in FaultSets(list) : Access(list, f)
  /\ frames' = Advance /\ UNCHANGED <<cmic, phase, pc>>

\* setreg and m of CMIC_MISC_CONTROL, the only CMIC register with a name.
SetMisc ==
  /\ cmic' = [cmic EXCEPT !.link40g = Line.val = 1]
  /\ frames' = Advance /\ UNCHANGED <<mem, phase, hits, faults, pc>>

\* Comments, getreg, unknown commands, registers and fields.
Ignored == frames' = Advance /\ UNCHANGED <<dpVars, pc>>

\* One line of soc_run_internal().
soc_run_line ==
  /\ pc = "script"
  /\ IF Top.line > Len(files[Top.file]) THEN EndOfFile
     ELSE \/ Line.op = "rcload" /\ RcLoad
          \/ Line.op = "init_all" /\ InitAll
          \/ Line.op = "setreg" /\ SetReg
          \/ Line.op = "m" /\ SetMisc
          \/ Line.op = "other" /\ Ignored
  /\ UNCHANGED <<kernVars, todo, files, starts>>

SwitchdStep == chip_init \/ DatapathInit \/ FirstScript \/ soc_run \/ soc_run_line

Next == Probe \/ Acquire \/ Unwind \/ chip_reset \/ Unbind \/ Start \/ Stop \/ KilledInPhase \/ SwitchdStep

\* switchd's only thread at this point keeps running unless it is killed.
Spec == Init /\ [][Next]_vars /\ WF_vars(SwitchdStep)

TypeOK ==
  /\ DpTypeOK
  /\ cmic \in [maps : BOOLEAN, soft : SUBSET AllOut, xq : BOOLEAN, link40g : BOOLEAN,
               schan : {"clear", "stale"}, config : {"zero", "set"}, agent : {"ok", "error"}]
  /\ bde \in {"absent", "probing", "unwinding", "resetting", "bound", "removing"}
  /\ step \in 1 .. 10 /\ held \subseteq Range(Acquired)
  /\ pc \in DOMAIN InitNext \cup {"down", "datapath", "soc", "script", "up"}
  /\ Len(frames) <= RCLOAD_MAX_DEPTH + 1
  /\ \A i \in DOMAIN frames : frames[i].file \in DOMAIN files

\* What the driver holds is always an initial part of what it acquires, so that
\* nothing goes before what was built on it, on the goto ladder of
\* nos_bde_probe() and in nos_bde_remove() alike; a probe that failed and a
\* removal leave nothing, and a bound driver has everything.
ResourcesOrdered ==
  /\ \E k \in 0 .. Len(Acquired) : held = {Acquired[i] : i \in 1 .. k}
  /\ bde = "absent" => held = {}
  /\ bde \in {"resetting", "bound"} => held = Range(Acquired)

\* No step of the kernel's reset and no step of chip_init(), in any order of
\* restarts, whatever the chip was left in and whichever registers the CPS reset
\* clears, releases the pipelines while the ring maps are unset: that state
\* needs a power cycle.
AgentHealthy == cmic.agent = "ok"

\* When chip_init() reads its first block, and from then on, the ring maps are
\* set, every block is out of reset, the S-Channel is clear and its ring DMA off;
\* the port blocks are on the bus throughout chip_init()'s accesses, though a
\* script may have taken them off before (init.c, steps 1 to 4).
BlocksReady ==
  /\ pc \in {"probe", "datapath", "soc", "script", "up"} =>
       cmic.maps /\ cmic.soft = AllOut /\ cmic.xq /\ cmic.schan = "clear" /\ cmic.config = "zero"
  /\ pc \in {"probe", "datapath"} => cmic.link40g

\* Every start of switchd gets to the end of its initialisation unless it is
\* killed: scripts that load themselves end (RCLOAD_MAX_DEPTH), failures stop
\* nothing.
InitEnds == [](pc = "maps" => <>(pc \in {"up", "down"}))
=============================================================================

---------------------------- MODULE Chip_proofs ----------------------------
(***************************************************************************)
(* Proofs about module Chip, for every set of ports and of scripts and any *)
(* number of probes, starts and failing accesses: the driver takes and     *)
(* gives back its resources in order, the chip's SBUS agent is never lost, *)
(* an access that fails while the datapath is initialised costs only what  *)
(* hangs on it, the packet buffer is never over-committed and is given     *)
(* away to the last cell, and the tables from priority to scheduling node  *)
(* agree.                                                                  *)
(*                                                                         *)
(* The last three are about what nine lists of statements leave in the     *)
(* chip, after any number of passes of which each may lose accesses or be  *)
(* cut short inside a phase.  The                                          *)
(* recursion of Execute is solved once (ExecuteRuns, by the least-number   *)
(* principle); Leaves says which statement of a list is the last on a      *)
(* location and Spares which registers a list leaves alone, and both are   *)
(* derived for a phase from its parts, as the phase is written.            *)
(***************************************************************************)
EXTENDS Chip, FiniteSetTheorems, SequenceTheorems, WellFoundedInduction, TLAPS

-----------------------------------------------------------------------------
(* The driver's resources                                                  *)

Firsts(n) == {Acquired[i] : i \in 1 .. n}

\* How many resources the driver holds where it is: on the way up one less
\* than the step it is at; on the way down those that the lists Cleanup and
\* Removal have still to give back.
HeldInv ==
  /\ step \in 1 .. 10
  /\ bde \in {"absent", "probing", "unwinding", "resetting", "bound", "removing"}
  /\ bde = "absent" => held = {}
  /\ bde = "probing" => step <= 6 /\ held = Firsts(step - 1)
  /\ bde = "unwinding" => step <= 6 /\ held = Firsts(6 - step)
  /\ bde \in {"resetting", "bound"} => held = Firsts(6)
  /\ bde = "removing" => step <= 7 /\ held = Firsts(7 - step)

\* The resources are distinct, so that one more or one less is the one named.
LEMMA FirstsAre ==
  /\ Firsts(0) = {}
  /\ Firsts(1) = {"priv"}
  /\ Firsts(2) = {"priv", "device"}
  /\ Firsts(3) = {"priv", "device", "regions"}
  /\ Firsts(4) = {"priv", "device", "regions", "bar0"}
  /\ Firsts(5) = {"priv", "device", "regions", "bar0", "dma"}
  /\ Firsts(6) = {"priv", "device", "regions", "bar0", "dma", "irq"}
<1>1. 1 .. 0 = {} /\ 1 .. 1 = {1} /\ 1 .. 2 = {1, 2} /\ 1 .. 3 = {1, 2, 3} OBVIOUS
<1>2. 1 .. 4 = {1, 2, 3, 4} /\ 1 .. 5 = {1, 2, 3, 4, 5} /\ 1 .. 6 = {1, 2, 3, 4, 5, 6} OBVIOUS
<1> QED BY <1>1, <1>2 DEF Firsts, Acquired

LEMMA HeldStart == Init => HeldInv
BY DEF Init, HeldInv

LEMMA HeldStep == HeldInv /\ [Next]_vars => HeldInv'
<1> SUFFICES ASSUME HeldInv, [Next]_vars PROVE HeldInv' OBVIOUS
<1> USE DEF HeldInv
<1>1. CASE UNCHANGED <<bde, step, held>> BY <1>1
<1>2. CASE Probe
  <2>1. 1 - 1 = 0 OBVIOUS
  <2> QED BY <1>2, <2>1, FirstsAre DEF Probe
<1>3. CASE Acquire
  <2>1. bde = "probing" /\ step \in 1 .. 6 /\ held = Firsts(step - 1) BY <1>3 DEF Acquire
  <2>2. held \cup {Acquired[step]} = Firsts(step) BY <2>1, FirstsAre DEF Acquired
  <2>3. CASE held' = held \cup {Acquired[step]} /\ step < 6 /\ step' = step + 1 /\ UNCHANGED bde
    <3>1. step' - 1 = step BY <2>1, <2>3
    <3> QED BY <2>1, <2>2, <2>3, <3>1
  <2>4. CASE held' = held \cup {Acquired[step]} /\ step >= 6 /\ step' = 1 /\ bde' = "resetting"
    <3>1. step = 6 BY <2>1, <2>4
    <3> QED BY <2>2, <2>4, <3>1
  <2>5. CASE bde' = "unwinding" /\ step' = ErrLabel[step] /\ UNCHANGED held
    <3>1. step' = 7 - step BY <2>1, <2>5 DEF ErrLabel
    <3>2. step' \in 1 .. 6 /\ 6 - step' = step - 1 BY <2>1, <3>1
    <3> QED BY <2>1, <2>5, <3>2
  <2>6. Len(Acquired) = 6 BY DEF Acquired
  <2> QED BY <1>3, <2>1, <2>3, <2>4, <2>5, <2>6 DEF Acquire
<1>4. CASE Unwind
  <2>1. step \in 1 .. 6 /\ held = Firsts(6 - step) /\ bde = "unwinding" BY <1>4 DEF Unwind
  <2>2. CASE step <= 5 /\ held' = held \ {Cleanup[step]} /\ step' = step + 1 /\ UNCHANGED bde
    <3>1. step' \in 1 .. 6 /\ 6 - step' = 5 - step BY <2>1, <2>2
    <3>2. Firsts(6 - step) \ {Cleanup[step]} = Firsts(5 - step)
      BY <2>1, <2>2, FirstsAre DEF Cleanup
    <3> QED BY <2>1, <2>2, <3>1, <3>2
  <2>3. CASE step > 5 /\ bde' = "absent" /\ step' = 1 /\ UNCHANGED held
    <3>1. 6 - step = 0 BY <2>1, <2>3
    <3> QED BY <2>1, <2>3, <3>1, FirstsAre
  <2>4. Len(Cleanup) = 5 BY DEF Cleanup
  <2> QED BY <1>4, <2>2, <2>3, <2>4 DEF Unwind, Release
<1>5. CASE chip_reset
  <2>1. bde = "resetting" /\ UNCHANGED held BY <1>5 DEF chip_reset
  <2>2. \/ step < 10 /\ step' = step + 1 /\ bde' = "resetting"
        \/ step' = 1 /\ bde' = "bound"
    BY <1>5, <2>1 DEF chip_reset
  <2> QED BY <2>1, <2>2
<1>6. CASE Unbind
  <2>1. CASE bde = "bound" /\ bde' = "removing" /\ step' = 1 /\ UNCHANGED held
    <3>1. 7 - step' = 6 BY <2>1
    <3> QED BY <2>1, <3>1
  <2>2. CASE bde = "removing" /\ Release(Removal)
    <3>1. step \in 1 .. 7 /\ held = Firsts(7 - step) BY <2>2
    <3>2. CASE step <= 6 /\ held' = held \ {Removal[step]} /\ step' = step + 1 /\ UNCHANGED bde
      <4>1. step' \in 1 .. 7 /\ 7 - step' = 6 - step BY <3>1, <3>2
      <4>2. Firsts(7 - step) \ {Removal[step]} = Firsts(6 - step)
        BY <3>1, <3>2, FirstsAre DEF Removal
      <4> QED BY <2>2, <3>1, <3>2, <4>1, <4>2
    <3>3. CASE step > 6 /\ bde' = "absent" /\ step' = 1 /\ UNCHANGED held
      <4>1. 7 - step = 0 BY <3>1, <3>3
      <4> QED BY <3>1, <3>3, <4>1, FirstsAre
    <3>4. Len(Removal) = 6 BY DEF Removal
    <3> QED BY <2>2, <3>2, <3>3, <3>4 DEF Release
  <2> QED BY <1>6, <2>1, <2>2 DEF Unbind
<1>7. CASE Start \/ Stop \/ KilledInPhase BY <1>1, <1>7 DEF Start, Stop, KilledInPhase, kernVars
<1>8. CASE SwitchdStep
  BY <1>1, <1>8 DEF SwitchdStep, chip_init, DatapathInit, FirstScript, soc_run, soc_run_line, kernVars
<1>9. CASE UNCHANGED vars BY <1>1, <1>9 DEF vars, chipVars
<1> QED BY <1>2, <1>3, <1>4, <1>5, <1>6, <1>7, <1>8, <1>9 DEF Next

LEMMA HeldOrdered == HeldInv => ResourcesOrdered
<1> SUFFICES ASSUME HeldInv PROVE ResourcesOrdered OBVIOUS
<1>1. Len(Acquired) = 6 /\ Range(Acquired) = Firsts(6)
  <2>1. DOMAIN Acquired = 1 .. 6 BY DEF Acquired
  <2> QED BY <2>1 DEF Acquired, Firsts, Range
<1>2. PICK k \in 0 .. 6 : held = Firsts(k)
  <2>1. CASE bde = "absent" BY <2>1, FirstsAre DEF HeldInv
  <2>2. CASE bde = "probing"
    <3>1. step - 1 \in 0 .. 6 BY <2>2 DEF HeldInv
    <3> QED BY <2>2, <3>1 DEF HeldInv
  <2>3. CASE bde = "unwinding"
    <3>1. 6 - step \in 0 .. 6 BY <2>3 DEF HeldInv
    <3> QED BY <2>3, <3>1 DEF HeldInv
  <2>4. CASE bde \in {"resetting", "bound"} BY <2>4 DEF HeldInv
  <2>5. CASE bde = "removing"
    <3>1. 7 - step \in 0 .. 6 BY <2>5 DEF HeldInv
    <3> QED BY <2>5, <3>1 DEF HeldInv
  <2> QED BY <2>1, <2>2, <2>3, <2>4, <2>5 DEF HeldInv
<1> QED BY <1>1, <1>2 DEF HeldInv, ResourcesOrdered, Firsts

\* On every path of nos_bde_probe() and nos_bde_remove() the driver holds an
\* initial part of what it acquires, and nothing when it is not bound.
THEOREM ResourcesInOrder == Spec => []ResourcesOrdered
BY HeldStart, HeldStep, HeldOrdered, PTL DEF Spec

-----------------------------------------------------------------------------
(* The SBUS agent                                                          *)

\* The ring maps are set from the third step of the kernel's reset on and stay so
\* until the next, and switchd runs only in between.
CmicType ==
  [maps : BOOLEAN, soft : SUBSET AllOut, xq : BOOLEAN, link40g : BOOLEAN,
   schan : {"clear", "stale"}, config : {"zero", "set"}, agent : {"ok", "error"}]

AgentInv ==
  /\ cmic \in CmicType
  /\ cmic.agent = "ok"
  /\ bde = "resetting" /\ step > 3 => cmic.maps
  /\ bde = "bound" => cmic.maps
  /\ pc # "down" => bde = "bound"

\* The agent survives a write that leaves the maps set or releases no pipeline.
LEMMA AgentKept ==
  ASSUME NEW c \in CmicType, c.agent = "ok", "core" \in c.soft \ cmic.soft => c.maps
  PROVE  Cmic(c) = c
BY DEF Cmic, CmicType

LEMMA AgentStart == Init => AgentInv
<1> SUFFICES ASSUME Init PROVE AgentInv OBVIOUS
<1>1. Cold \in CmicType /\ Warm \in CmicType BY DEF Cold, Warm, CmicType, AllOut
<1>2. Cold.agent = "ok" /\ Cold.soft = {} /\ Warm.agent = "ok" /\ Warm.maps = TRUE BY DEF Cold, Warm
<1> QED BY <1>1, <1>2 DEF Init, AgentInv

\* Each step of the kernel's reset, on whatever it finds.
LEMMA AgentReset ==
  ASSUME HeldInv, AgentInv, bde = "resetting", NEW c \in ResetStep(cmic, step)
  PROVE  /\ c \in CmicType /\ c.agent = "ok"
         /\ "core" \in c.soft \ cmic.soft => c.maps
         /\ step > 2 => c.maps
         /\ step > 6 /\ (step > 7 => cmic.xq) => c.xq
         /\ step > 7 /\ (step > 8 => cmic.soft = AllOut) => c.soft = AllOut
         /\ step = 10 => c.schan = "clear"
<1> USE DEF AgentInv
<1>1. step \in 1 .. 10 BY DEF HeldInv
<1>2. ASSUME NEW outs \in SUBSET AllOut, NEW d, d = [cmic EXCEPT !.soft = outs]
      PROVE  d \in CmicType /\ d.agent = "ok" /\ d.soft = outs /\ d.maps = cmic.maps /\ d.xq = cmic.xq
  BY <1>2 DEF CmicType
<1>3. CASE step = 1
  <2>1. c \in CpsReset(cmic) BY <1>3 DEF ResetStep
  <2>2. Cold.maps = FALSE /\ Cold.soft = {} /\ Cold.xq = FALSE /\ Cold.link40g = FALSE
        /\ Cold.schan = "clear" /\ Cold.config = "zero"
    BY DEF Cold
  <2>3. c \in CmicType /\ c.agent = "ok" /\ c.soft \in {cmic.soft, {}}
    BY <2>1, <2>2 DEF CmicType, CpsReset
  <2> QED BY <1>3, <2>3
<1>4. CASE step \in {2, 4, 5, 6, 8}
  <2>1. PICK outs : outs = CASE step = 2 -> {} [] step = 4 -> {"pll"} [] step = 5 -> {"pll", "post"}
                             [] step = 6 -> {"pll", "post", "pg"} [] OTHER -> AllOut
    OBVIOUS
  <2>2. outs \in SUBSET AllOut /\ (step < 8 => "core" \notin outs) /\ (step = 8 => outs = AllOut)
    BY <1>4, <2>1 DEF AllOut
  <2>3. c = [cmic EXCEPT !.soft = outs] BY <1>4, <2>1 DEF ResetStep
  <2>4. c \in CmicType /\ c.agent = "ok" /\ c.soft = outs /\ c.maps = cmic.maps /\ c.xq = cmic.xq
    BY <1>2, <2>2, <2>3
  <2> QED BY <1>4, <2>2, <2>4
<1>5. CASE step = 3
  <2>1. c = [cmic EXCEPT !.maps = TRUE] BY <1>5 DEF ResetStep
  <2>2. c \in CmicType /\ c.agent = "ok" /\ c.maps = TRUE /\ c.soft = cmic.soft BY <2>1 DEF CmicType
  <2> QED BY <1>5, <2>2
<1>6. CASE step \in {7, 9, 10}
  <2>1. \/ step = 7 /\ c = [cmic EXCEPT !.xq = TRUE]
        \/ step = 9 /\ c = [cmic EXCEPT !.link40g = TRUE]
        \/ step = 10 /\ c = [cmic EXCEPT !.schan = "clear"]
    BY <1>6 DEF ResetStep
  <2>2. c \in CmicType /\ c.agent = "ok" /\ c.soft = cmic.soft /\ c.maps = cmic.maps
    BY <2>1 DEF CmicType
  <2>3. (step = 7 => c.xq) /\ (step > 7 => c.xq = cmic.xq) /\ (step = 10 => c.schan = "clear")
    BY <2>1 DEF CmicType
  <2> QED BY <1>6, <2>2, <2>3
<1> QED BY <1>1, <1>3, <1>4, <1>5, <1>6

LEMMA AgentStep == HeldInv /\ AgentInv /\ [Next]_vars => AgentInv'
<1> SUFFICES ASSUME HeldInv, AgentInv, [Next]_vars PROVE AgentInv' OBVIOUS
<1> USE DEF AgentInv
<1>1. CASE UNCHANGED <<cmic, bde, step, pc>> BY <1>1
<1>2. CASE Probe \/ Acquire \/ Unwind
  <2>1. UNCHANGED <<cmic, pc>> /\ bde # "bound"
    BY <1>2 DEF Probe, Acquire, Unwind, Release, dpVars, userVars
  <2>2. bde' # "bound" /\ (bde' = "resetting" => step' = 1)
    BY <1>2 DEF Probe, Acquire, Unwind, Release
  <2> QED BY <2>1, <2>2
<1>3. CASE chip_reset
  <2>1. bde = "resetting" /\ UNCHANGED pc BY <1>3 DEF chip_reset, userVars
  <2>2. PICK c \in ResetStep(cmic, step) : cmic' = Cmic(c) BY <1>3 DEF chip_reset
  <2>3. /\ c \in CmicType /\ c.agent = "ok"
        /\ "core" \in c.soft \ cmic.soft => c.maps
        /\ step > 2 => c.maps
    BY <2>1, AgentReset
  <2>4. cmic' = c BY <2>2, <2>3, AgentKept
  <2>5. step \in 1 .. 10 BY DEF HeldInv
  <2>6. \/ step < 10 /\ step' = step + 1 /\ bde' = "resetting"
        \/ step >= 10 /\ step' = 1 /\ bde' = "bound"
    BY <1>3, <2>1, <2>5 DEF chip_reset
  <2> QED BY <2>1, <2>3, <2>4, <2>5, <2>6
<1>4. CASE Unbind BY <1>4 DEF Unbind, Release, userVars, dpVars
<1>5. CASE Start \/ Stop \/ KilledInPhase
  BY <1>5 DEF Start, Stop, KilledInPhase, kernVars, dpVars
<1>6. CASE chip_init
  <2>1. pc \in {"maps", "link", "verify", "probe"} /\ bde = "bound" /\ UNCHANGED <<bde, step>>
    BY <1>6 DEF chip_init, InitNext, kernVars
  <2>2. PICK c : c = InitStep(cmic) OBVIOUS
  <2>3. c \in CmicType /\ c.agent = "ok" /\ c.maps
    BY <2>1, <2>2 DEF InitStep, CmicType, AllOut
  <2>4. cmic' = c BY <1>6, <2>2, <2>3, AgentKept DEF chip_init
  <2> QED BY <2>1, <2>3, <2>4
<1>7. CASE DatapathInit \/ FirstScript \/ soc_run
  <2>1. UNCHANGED <<cmic, bde, step>> /\ pc # "down"
    BY <1>7 DEF DatapathInit, FirstScript, soc_run, kernVars, dpVars
  <2> QED BY <2>1
<1>8. CASE soc_run_line
  <2>1. UNCHANGED <<bde, step>> /\ pc # "down" BY <1>8 DEF soc_run_line, kernVars
  <2>2. UNCHANGED cmic \/ SetMisc
    BY <1>8 DEF soc_run_line, EndOfFile, RcLoad, InitAll, SetReg, Ignored, dpVars
  <2>3. CASE SetMisc
    <3>1. PICK b \in BOOLEAN : cmic' = [cmic EXCEPT !.link40g = b] BY <2>3 DEF SetMisc
    <3> QED BY <2>1, <3>1 DEF CmicType
  <2> QED BY <2>1, <2>2, <2>3
<1>9. CASE UNCHANGED vars BY <1>1, <1>9 DEF vars, chipVars, dpVars
<1> QED BY <1>2, <1>3, <1>4, <1>5, <1>6, <1>7, <1>8, <1>9 DEF Next, SwitchdStep

\* No step of bcm56846_chip_reset() and none of bcm56846_chip_init(), nor a line
\* of a script, takes the pipelines out of reset while the ring maps are unset,
\* whatever the CPS reset clears, wherever switchd was killed and however often
\* the driver was probed.
THEOREM AgentIsKept == Spec => []AgentHealthy
<1>1. AgentInv => AgentHealthy BY DEF AgentInv, AgentHealthy
<1> QED BY <1>1, HeldStart, HeldStep, AgentStart, AgentStep, PTL DEF Spec

\* What the kernel's reset leaves stays so while its driver is bound; the ring
\* configuration and the port blocks are chip_init()'s own.
ReadyInv ==
  /\ bde = "resetting" /\ step > 7 => cmic.xq
  /\ bde = "resetting" /\ step > 8 => cmic.soft = AllOut
  /\ bde = "bound" => cmic.xq /\ cmic.soft = AllOut /\ cmic.schan = "clear"
  /\ pc \notin {"down", "maps"} => cmic.config = "zero"
  /\ pc \in {"verify", "probe", "datapath"} => cmic.link40g

LEMMA ReadyStart == Init => ReadyInv
BY DEF Init, ReadyInv

LEMMA ReadyStep == HeldInv /\ AgentInv /\ ReadyInv /\ [Next]_vars => ReadyInv'
<1> SUFFICES ASSUME HeldInv, AgentInv, ReadyInv, [Next]_vars PROVE ReadyInv' OBVIOUS
<1> USE DEF ReadyInv
<1>1. CASE UNCHANGED <<cmic, bde, step, pc>> BY <1>1
<1>2. CASE Probe \/ Acquire \/ Unwind
  <2>1. UNCHANGED <<cmic, pc>>
    BY <1>2 DEF Probe, Acquire, Unwind, Release, dpVars, userVars
  <2>2. bde' # "bound" /\ (bde' = "resetting" => step' = 1)
    BY <1>2 DEF Probe, Acquire, Unwind, Release
  <2> QED BY <2>1, <2>2
<1>3. CASE chip_reset
  <2>1. bde = "resetting" /\ UNCHANGED pc /\ pc = "down" BY <1>3 DEF chip_reset, userVars, AgentInv
  <2>2. PICK c \in ResetStep(cmic, step) : cmic' = Cmic(c) BY <1>3 DEF chip_reset
  <2>3. c \in CmicType /\ c.agent = "ok" /\ ("core" \in c.soft \ cmic.soft => c.maps)
    BY <2>1, AgentReset
  <2>4. cmic' = c BY <2>2, <2>3, AgentKept
  <2>5. step \in 1 .. 10 BY DEF HeldInv
  <2>6. /\ step > 6 => c.xq
        /\ step > 7 => c.soft = AllOut
        /\ step = 10 => c.schan = "clear"
    BY <2>1, <2>5, AgentReset
  <2>7. \/ step < 10 /\ step' = step + 1 /\ bde' = "resetting"
        \/ step = 10 /\ step' = 1 /\ bde' = "bound"
    BY <1>3, <2>1, <2>5 DEF chip_reset
  <2> QED BY <2>1, <2>4, <2>5, <2>6, <2>7
<1>4. CASE Unbind
  <2>1. UNCHANGED <<cmic, pc>> /\ bde' \in {"removing", "absent"}
    BY <1>4 DEF Unbind, Release, userVars, dpVars
  <2> QED BY <2>1
<1>5. CASE Start \/ Stop \/ KilledInPhase
  BY <1>5 DEF Start, Stop, KilledInPhase, kernVars, dpVars
<1>6. CASE chip_init
  <2>1. /\ pc \in {"maps", "link", "verify", "probe"} /\ bde = "bound" /\ UNCHANGED <<bde, step>>
        /\ pc' = InitNext[pc]
    BY <1>6 DEF chip_init, InitNext, kernVars, AgentInv
  <2>2. PICK c : c = InitStep(cmic) OBVIOUS
  <2>3. c \in CmicType /\ c.agent = "ok" /\ c.maps
    BY <2>1, <2>2 DEF InitStep, CmicType, AllOut, AgentInv
  <2>4. cmic' = c BY <1>6, <2>2, <2>3, AgentKept DEF chip_init
  <2>5. cmic \in CmicType BY DEF AgentInv
  <2>6. CASE pc = "maps"
    <3>1. c = [cmic EXCEPT !.config = "zero", !.maps = TRUE] BY <2>2, <2>6 DEF InitStep
    <3>2. pc' = "link" BY <2>1, <2>6 DEF InitNext
    <3> QED BY <2>1, <2>4, <2>5, <3>1, <3>2 DEF CmicType
  <2>7. CASE pc = "link"
    <3>1. c = [cmic EXCEPT !.link40g = TRUE, !.schan = "clear"] BY <2>2, <2>7 DEF InitStep
    <3>2. pc' = "verify" BY <2>1, <2>7 DEF InitNext
    <3> QED BY <2>1, <2>4, <2>5, <2>7, <3>1, <3>2 DEF CmicType
  <2>8. CASE pc = "verify"
    <3>1. c = [cmic EXCEPT !.soft = AllOut, !.link40g = TRUE] BY <2>2, <2>8 DEF InitStep
    <3>2. pc' = "probe" BY <2>1, <2>8 DEF InitNext
    <3> QED BY <2>1, <2>4, <2>5, <2>8, <3>1, <3>2 DEF CmicType
  <2>9. CASE pc = "probe"
    <3>1. c = cmic BY <2>2, <2>9 DEF InitStep
    <3>2. pc' = "datapath" BY <2>1, <2>9 DEF InitNext
    <3> QED BY <2>1, <2>4, <2>9, <3>1, <3>2
  <2> QED BY <2>1, <2>6, <2>7, <2>8, <2>9
<1>7. CASE DatapathInit \/ FirstScript \/ soc_run
  <2>1. UNCHANGED <<cmic, bde, step>> /\ pc \in {"datapath", "soc"} /\ pc' \in {pc, "soc", "script", "up"}
    BY <1>7 DEF DatapathInit, FirstScript, soc_run, kernVars, dpVars
  <2> QED BY <2>1
<1>8. CASE soc_run_line
  <2>1. UNCHANGED <<bde, step>> /\ pc = "script" BY <1>8 DEF soc_run_line, kernVars
  <2>2. pc' \in {"script", "soc", "maps"} /\ (UNCHANGED cmic \/ SetMisc)
    BY <1>8, <2>1 DEF soc_run_line, EndOfFile, RcLoad, InitAll, SetReg, SetMisc, Ignored, dpVars
  <2>3. CASE SetMisc
    <3>1. PICK b \in BOOLEAN : cmic' = [cmic EXCEPT !.link40g = b] BY <2>3 DEF SetMisc
    <3>2. cmic \in CmicType BY DEF AgentInv
    <3> QED BY <2>1, <2>2, <3>1, <3>2 DEF CmicType
  <2> QED BY <2>1, <2>2, <2>3
<1>9. CASE UNCHANGED vars BY <1>1, <1>9 DEF vars, chipVars, dpVars
<1> QED BY <1>2, <1>3, <1>4, <1>5, <1>6, <1>7, <1>8, <1>9 DEF Next, SwitchdStep

\* From chip_init()'s first read of a block on the chip is fit to be accessed,
\* whatever the driver found, and the port blocks are on the bus for the whole
\* of chip_init(), whatever a script did before it.
THEOREM BlocksAreReady == Spec => []BlocksReady
<1>1. AgentInv /\ ReadyInv => BlocksReady BY DEF AgentInv, ReadyInv, BlocksReady
<1> QED BY <1>1, HeldStart, HeldStep, AgentStart, AgentStep, ReadyStart, ReadyStep, PTL DEF Spec

-----------------------------------------------------------------------------
(* What running a list of statements does                                  *)

LEMMA Least ==
  ASSUME NEW T \in SUBSET Nat, T # {}
  PROVE  \E m \in T : \A k \in T : m <= k
<1>1. PICK m \in T : \A k \in T : ~(<<k, m>> \in OpToRel(<, Nat))
  BY NatLessThanWellFounded, WFMin, Zenon
<1>2. ASSUME NEW k \in T PROVE m <= k
  <2>1. k \in Nat /\ m \in Nat OBVIOUS
  <2>2. ~(k < m) BY <1>1, <2>1 DEF OpToRel
  <2> QED BY <2>1, <2>2
<1> QED BY <1>2

List(a) == \E S : a \in Seq(S)

\* The memory after each of the first n statements of a list.
Run(g, list, f, n) ==
  g = [i \in 0 .. n |-> IF i = 0 THEN mem ELSE Apply(g[i - 1], list[i], f, i)]

\* The recursion in Execute has a solution, and Execute is its last value.
LEMMA RunExists ==
  ASSUME NEW list, Len(list) \in Nat, NEW f, NEW n \in 0 .. Len(list)
  PROVE  \E g : Run(g, list, f, n)
<1> DEFINE T == {i \in 0 .. Len(list) : ~\E g : Run(g, list, f, i)}
<1> SUFFICES ASSUME T # {} PROVE FALSE OBVIOUS
<1>1. PICK m \in T : \A i \in T : m <= i
  <2>1. T \in SUBSET Nat OBVIOUS
  <2> HIDE DEF T
  <2> QED BY <2>1, Least, Zenon
<1>2. m # 0
  <2>1. Run([i \in 0 .. 0 |-> mem], list, f, 0) BY DEF Run
  <2> QED BY <2>1, <1>1
<1>3. PICK g : Run(g, list, f, m - 1) BY <1>1, <1>2
<1>4. PICK h : h = [i \in 0 .. m |-> IF i = m THEN Apply(g[m - 1], list[m], f, m) ELSE g[i]] OBVIOUS
<1>5. Run(h, list, f, m)
  <2>1. ASSUME NEW i \in 0 .. m PROVE h[i] = IF i = 0 THEN mem ELSE Apply(h[i - 1], list[i], f, i)
    BY <1>3, <1>4, <1>2, <1>1 DEF Run
  <2> QED BY <1>4, <2>1 DEF Run
<1> QED BY <1>5, <1>1

LEMMA ExecuteRuns ==
  ASSUME NEW list, Len(list) \in Nat, NEW f
  PROVE  \E g : Run(g, list, f, Len(list)) /\ Execute(list, f) = g[Len(list)]
<1>1. \E g : Run(g, list, f, Len(list)) BY RunExists
<1>2. PICK g : g = CHOOSE h : Run(h, list, f, Len(list)) OBVIOUS
<1>3. Run(g, list, f, Len(list)) BY <1>1, <1>2, Zenon
<1>4. Execute(list, f) = g[Len(list)] BY <1>2, Zenon DEF Execute, Run
<1> QED BY <1>3, <1>4

\* The registers and locations of the memory are those of the phases.
Shape(m) == DOMAIN m = Watched /\ \A r \in Watched : DOMAIN m[r] = DOMAIN ResetMem[r]

\* What statement s leaves at l when nothing fails there.
Written(m, s, l) == Stored(m, s, l, FALSE)

LEMMA ApplyEffect ==
  ASSUME NEW m, Shape(m), NEW s, NEW f, NEW n, NEW r \in Watched
  PROVE  /\ Shape(Apply(m, s, f, n))
         /\ s.reg # r => Apply(m, s, f, n)[r] = m[r]
         /\ \A l \in DOMAIN ResetMem[r] :
              IF s.reg = r /\ l \in DOMAIN s.val
              THEN Answers(m, r, l) /\ ~(\E x \in f : x.n = n /\ x.l = l) =>
                     Apply(m, s, f, n)[r][l] = <<Written(m, s, l)>>
              ELSE Apply(m, s, f, n)[r][l] = m[r][l]
<1> PICK b : b = Apply(m, s, f, n) OBVIOUS
<1>1. CASE s.reg \notin Watched
  <2>1. b = m BY <1>1 DEF Apply
  <2> QED BY <1>1, <2>1
<1>2. CASE s.reg \in Watched
  <2> DEFINE unread(l) == Fails(f, n, l, {"unread"})
             took(l) == l \in DOMAIN s.val /\ ~Fails(f, n, l, {"lost"}) /\ Answers(m, s.reg, l)
  <2>1. b = [m EXCEPT ![s.reg] = [l \in DOMAIN m[s.reg] |-> IF took(l) THEN <<Stored(m, s, l, unread(l))>> ELSE m[s.reg][l]]]
    BY <1>2, Zenon DEF Apply
  <2>2. DOMAIN b = Watched /\ \A q \in Watched \ {s.reg} : b[q] = m[q] BY <2>1 DEF Shape
  <2>3. b[s.reg] = [l \in DOMAIN m[s.reg] |-> IF took(l) THEN <<Stored(m, s, l, unread(l))>> ELSE m[s.reg][l]]
    BY <1>2, <2>1 DEF Shape
  <2>4. Shape(b) BY <1>2, <2>2, <2>3 DEF Shape
  <2>5. ASSUME NEW l \in DOMAIN ResetMem[r], s.reg = r, l \in DOMAIN s.val, Answers(m, r, l),
               ~(\E x \in f : x.n = n /\ x.l = l)
        PROVE  b[r][l] = <<Written(m, s, l)>>
    <3>1. l \in DOMAIN m[s.reg] BY <2>5 DEF Shape
    <3>2. unread(l) = FALSE /\ took(l) BY <2>5 DEF Fails
    <3>3. b[r][l] = IF took(l) THEN <<Stored(m, s, l, unread(l))>> ELSE m[s.reg][l]
      <4> HIDE DEF unread, took
      <4> QED BY <2>3, <2>5, <3>1
    <3>4. Stored(m, s, l, unread(l)) = Written(m, s, l) BY <3>2, Zenon DEF Written
    <3> HIDE DEF unread, took
    <3> QED BY <3>2, <3>3, <3>4
  <2>6. ASSUME NEW l \in DOMAIN ResetMem[r], ~(s.reg = r /\ l \in DOMAIN s.val)
        PROVE  b[r][l] = m[r][l]
    <3>1. CASE s.reg = r
      <4>1. l \in DOMAIN m[s.reg] BY <3>1 DEF Shape
      <4>2. ~took(l) BY <2>6, <3>1
      <4> HIDE DEF unread, took
      <4> QED BY <2>3, <3>1, <4>1, <4>2
    <3> QED BY <2>2, <3>1
  <2> HIDE DEF unread, took
  <2> QED BY <2>2, <2>4, <2>5, <2>6
<1> QED BY <1>1, <1>2

\* A list that does not name a register leaves it alone, and a location holds
\* after a list what the statements before held that did not write it again.
LEMMA RunEffect ==
  ASSUME Shape(mem), NEW list, Len(list) \in Nat, NEW f, NEW g, Run(g, list, f, Len(list)),
         NEW r \in Watched
  PROVE  /\ \A i \in 0 .. Len(list) : Shape(g[i])
         /\ \A i \in 0 .. Len(list) : (\A j \in 1 .. i : list[j].reg # r) => g[i][r] = mem[r]
         /\ \A k, i \in 0 .. Len(list) : \A l \in DOMAIN ResetMem[r] :
              k <= i /\ (\A j \in k + 1 .. i : ~(list[j].reg = r /\ l \in DOMAIN list[j].val))
                => g[i][r][l] = g[k][r][l]
<1>1. g[0] = mem BY DEF Run
<1>2. ASSUME NEW i \in 1 .. Len(list) PROVE g[i] = Apply(g[i - 1], list[i], f, i) BY DEF Run
<1>3. \A i \in 0 .. Len(list) : Shape(g[i])
  <2> DEFINE T == {i \in 0 .. Len(list) : ~Shape(g[i])}
  <2> SUFFICES ASSUME T # {} PROVE FALSE OBVIOUS
  <2>1. T \in SUBSET Nat OBVIOUS
  <2>2. PICK i \in T : \A k \in T : i <= k
    <3> HIDE DEF T
    <3> QED BY <2>1, Least, Zenon
  <2>3. i \in 1 .. Len(list) /\ i - 1 \in 0 .. Len(list) BY <1>1, <2>2
  <2>4. Shape(g[i - 1]) BY <2>2, <2>3
  <2>5. Shape(Apply(g[i - 1], list[i], f, i)) BY <2>4, ApplyEffect, Zenon
  <2> QED BY <1>2, <2>2, <2>3, <2>5
<1>4. ASSUME NEW i \in 1 .. Len(list)
      PROVE  /\ list[i].reg # r => g[i][r] = g[i - 1][r]
             /\ \A l \in DOMAIN ResetMem[r] :
                  ~(list[i].reg = r /\ l \in DOMAIN list[i].val) => g[i][r][l] = g[i - 1][r][l]
  <2>1. Shape(g[i - 1]) BY <1>3
  <2> QED BY <1>2, <2>1, ApplyEffect
<1>5. \A i \in 0 .. Len(list) : (\A j \in 1 .. i : list[j].reg # r) => g[i][r] = mem[r]
  <2> DEFINE T == {i \in 0 .. Len(list) : (\A j \in 1 .. i : list[j].reg # r) /\ g[i][r] # mem[r]}
  <2> SUFFICES ASSUME T # {} PROVE FALSE OBVIOUS
  <2>1. T \in SUBSET Nat OBVIOUS
  <2>2. PICK i \in T : \A k \in T : i <= k
    <3> HIDE DEF T
    <3> QED BY <2>1, Least, Zenon
  <2>3. i \in 1 .. Len(list) /\ i - 1 \in 0 .. Len(list) BY <1>1, <2>2
  <2>4. i - 1 \notin T BY <2>2, <2>3
  <2>5. g[i - 1][r] = mem[r] BY <2>2, <2>3, <2>4
  <2> QED BY <1>4, <2>2, <2>3, <2>5
<1>6. ASSUME NEW k \in 0 .. Len(list), NEW l \in DOMAIN ResetMem[r]
      PROVE  \A i \in 0 .. Len(list) :
               k <= i /\ (\A j \in k + 1 .. i : ~(list[j].reg = r /\ l \in DOMAIN list[j].val))
                 => g[i][r][l] = g[k][r][l]
  <2> DEFINE T == {i \in 0 .. Len(list) :
                     /\ k <= i /\ \A j \in k + 1 .. i : ~(list[j].reg = r /\ l \in DOMAIN list[j].val)
                     /\ g[i][r][l] # g[k][r][l]}
  <2> SUFFICES ASSUME T # {} PROVE FALSE OBVIOUS
  <2>1. T \in SUBSET Nat OBVIOUS
  <2>2. PICK i \in T : \A h \in T : i <= h
    <3> HIDE DEF T
    <3> QED BY <2>1, Least, Zenon
  <2>3. i # k /\ i \in 1 .. Len(list) /\ i - 1 \in 0 .. Len(list) /\ k <= i - 1 /\ i \in k + 1 .. i BY <2>2
  <2>4. i - 1 \notin T BY <2>2, <2>3
  <2>5. g[i - 1][r][l] = g[k][r][l] BY <2>2, <2>3, <2>4
  <2>6. g[i][r][l] = g[i - 1][r][l] BY <1>4, <2>2, <2>3
  <2> QED BY <2>2, <2>5, <2>6
<1> QED BY <1>3, <1>5, <1>6

-----------------------------------------------------------------------------
(* Lists of statements, put together with \o                               *)

\* None of the statements names a register of R.
Spares(a, R) == List(a) /\ \A i \in 1 .. Len(a) : a[i].reg \notin R

\* Statement s is the last that writes location l of register r.
Leaves(a, r, l, s) ==
  /\ List(a) /\ s.reg = r /\ l \in DOMAIN s.val
  /\ \E i \in 1 .. Len(a) :
       a[i] = s /\ \A j \in i + 1 .. Len(a) : ~(a[j].reg = r /\ l \in DOMAIN a[j].val)

LEMMA ListConcat ==
  ASSUME NEW a, NEW b, List(a), List(b)
  PROVE  /\ List(a \o b) /\ Len(a) \in Nat /\ Len(b) \in Nat
         /\ Len(a \o b) = Len(a) + Len(b)
         /\ \A i \in 1 .. Len(a) : (a \o b)[i] = a[i]
         /\ \A i \in 1 .. Len(b) : (a \o b)[Len(a) + i] = b[i]
         /\ \A i \in Len(a) + 1 .. Len(a) + Len(b) : (a \o b)[i] = b[i - Len(a)]
<1>1. PICK S : a \in Seq(S) BY DEF List
<1>2. PICK T : b \in Seq(T) BY DEF List
<1>3. a \in Seq(S \cup T) /\ b \in Seq(S \cup T) BY <1>1, <1>2
<1>4. a \o b \in Seq(S \cup T) BY <1>3
<1> QED BY <1>3, <1>4 DEF List

LEMMA SparesConcat ==
  ASSUME NEW a, NEW b, NEW R, Spares(a, R), Spares(b, R)
  PROVE  Spares(a \o b, R)
<1>1. List(a) /\ List(b) BY DEF Spares
<1>2. ASSUME NEW i \in 1 .. Len(a \o b) PROVE (a \o b)[i].reg \notin R
  <2>1. CASE i \in 1 .. Len(a) BY <1>1, <2>1, ListConcat DEF Spares
  <2>2. CASE i \in Len(a) + 1 .. Len(a) + Len(b)
    <3>1. i - Len(a) \in 1 .. Len(b) BY <1>1, <2>2, ListConcat
    <3> QED BY <1>1, <2>2, <3>1, ListConcat DEF Spares
  <2> QED BY <1>1, <2>1, <2>2, ListConcat
<1> QED BY <1>1, <1>2, ListConcat DEF Spares

LEMMA SparesOne ==
  ASSUME NEW kind, NEW r, NEW v, NEW R, r \notin R
  PROVE  Spares(<<Stmt(kind, r, v)>>, R)
<1>1. <<Stmt(kind, r, v)>> \in Seq({Stmt(kind, r, v)}) OBVIOUS
<1>2. Len(<<Stmt(kind, r, v)>>) = 1 /\ <<Stmt(kind, r, v)>>[1] = Stmt(kind, r, v) OBVIOUS
<1>3. Stmt(kind, r, v).reg = r BY DEF Stmt
<1>4. List(<<Stmt(kind, r, v)>>) BY <1>1 DEF List
<1> QED BY <1>2, <1>3, <1>4 DEF Spares

\* The second part of a list decides, unless it spares the register.
LEMMA LeavesLast ==
  ASSUME NEW a, NEW b, NEW r, NEW l, NEW s, List(a), Leaves(b, r, l, s)
  PROVE  Leaves(a \o b, r, l, s)
<1>1. List(b) BY DEF Leaves
<1>2. PICK i \in 1 .. Len(b) : b[i] = s /\ \A j \in i + 1 .. Len(b) : ~(b[j].reg = r /\ l \in DOMAIN b[j].val)
  BY DEF Leaves
<1>3. Len(a) + i \in 1 .. Len(a \o b) /\ (a \o b)[Len(a) + i] = s BY <1>1, <1>2, ListConcat
<1>4. ASSUME NEW j \in Len(a) + i + 1 .. Len(a \o b)
      PROVE  ~((a \o b)[j].reg = r /\ l \in DOMAIN (a \o b)[j].val)
  <2>1. j - Len(a) \in i + 1 .. Len(b) /\ j \in Len(a) + 1 .. Len(a) + Len(b) BY <1>1, ListConcat
  <2>2. (a \o b)[j] = b[j - Len(a)] BY <1>1, <2>1, ListConcat
  <2> QED BY <1>2, <2>1, <2>2
<1> QED BY <1>1, <1>3, <1>4, ListConcat DEF Leaves

LEMMA LeavesFirst ==
  ASSUME NEW a, NEW b, NEW r, NEW l, NEW s, Leaves(a, r, l, s), Spares(b, {r})
  PROVE  Leaves(a \o b, r, l, s)
<1>1. List(a) /\ List(b) BY DEF Leaves, Spares
<1>2. PICK i \in 1 .. Len(a) : a[i] = s /\ \A j \in i + 1 .. Len(a) : ~(a[j].reg = r /\ l \in DOMAIN a[j].val)
  BY DEF Leaves
<1>3. i \in 1 .. Len(a \o b) /\ (a \o b)[i] = s BY <1>1, <1>2, ListConcat
<1>4. ASSUME NEW j \in i + 1 .. Len(a \o b)
      PROVE  ~((a \o b)[j].reg = r /\ l \in DOMAIN (a \o b)[j].val)
  <2>1. CASE j \in 1 .. Len(a)
    <3>1. (a \o b)[j] = a[j] BY <1>1, <2>1, ListConcat
    <3>2. j \in i + 1 .. Len(a) BY <2>1
    <3> QED BY <1>2, <3>1, <3>2
  <2>2. CASE j \in Len(a) + 1 .. Len(a) + Len(b)
    <3>1. j - Len(a) \in 1 .. Len(b) /\ (a \o b)[j] = b[j - Len(a)] BY <1>1, <2>2, ListConcat
    <3> QED BY <3>1 DEF Spares
  <2> QED BY <1>1, <2>1, <2>2, ListConcat
<1> QED BY <1>3, <1>4, <1>1, ListConcat DEF Leaves

LEMMA LeavesOne ==
  ASSUME NEW kind, NEW r, NEW v, NEW l \in DOMAIN v
  PROVE  Leaves(<<Stmt(kind, r, v)>>, r, l, Stmt(kind, r, v))
<1>1. <<Stmt(kind, r, v)>> \in Seq({Stmt(kind, r, v)}) OBVIOUS
<1>2. Len(<<Stmt(kind, r, v)>>) = 1 /\ <<Stmt(kind, r, v)>>[1] = Stmt(kind, r, v) OBVIOUS
<1>3. Stmt(kind, r, v).reg = r /\ Stmt(kind, r, v).val = v BY DEF Stmt
<1>4. List(<<Stmt(kind, r, v)>>) BY <1>1 DEF List
<1>5. \A j \in 1 + 1 .. 1 : FALSE OBVIOUS
<1> QED BY <1>2, <1>3, <1>4, <1>5 DEF Leaves

-----------------------------------------------------------------------------
(* What a phase does, whichever of its accesses fails                      *)

\* Everything but the MACs answers.
Bus ==
  /\ cmic.maps /\ "core" \in cmic.soft /\ cmic.agent = "ok"
  /\ cmic.link40g /\ "pg" \in cmic.soft

LEMMA AccessKeeps ==
  ASSUME Shape(mem), NEW list, List(list), NEW f, mem' = Execute(list, f)
  PROVE  /\ Shape(mem')
         /\ \A R, r : Spares(list, R) /\ r \in R \cap Watched => mem'[r] = mem[r]
<1>1. Len(list) \in Nat BY DEF List
<1>2. PICK g : Run(g, list, f, Len(list)) /\ Execute(list, f) = g[Len(list)] BY <1>1, ExecuteRuns, Zenon
<1>3. mem' = g[Len(list)] /\ Len(list) \in 0 .. Len(list) BY <1>1, <1>2
<1>4. Shape(mem')
  <2>1. "STG_TAB" \in Watched BY DEF Watched
  <2>2. Shape(g[Len(list)]) BY <1>1, <1>2, <1>3, <2>1, RunEffect
  <2> QED BY <1>3, <2>2 DEF Shape
<1>5. ASSUME NEW R, NEW r \in R \cap Watched, Spares(list, R) PROVE mem'[r] = mem[r]
  <2>1. \A j \in 1 .. Len(list) : list[j].reg # r BY <1>5 DEF Spares
  <2> QED BY <1>1, <1>2, <1>3, <2>1, RunEffect
<1> QED BY <1>4, <1>5

LEMMA AccessLeaves ==
  ASSUME Shape(mem), Bus, NEW list, NEW f, Access(list, f),
         NEW r \in Watched, NEW l \in DOMAIN ResetMem[r], NEW s, Leaves(list, r, l, s),
         r \in XmacRegs => XmacUp(mem, l[2]) /\ Spares(list, {"XGXS_CTRL", "XMAC_CONTROL"})
  PROVE  <<r, l>> \in hits' \/ \E m : mem'[r][l] = <<Written(m, s, l)>>
<1>1. Len(list) \in Nat BY DEF Leaves, List
<1>2. PICK g : Run(g, list, f, Len(list)) /\ Execute(list, f) = g[Len(list)] BY <1>1, ExecuteRuns, Zenon
<1>3. mem' = g[Len(list)] /\ Len(list) \in 0 .. Len(list) BY <1>1, <1>2 DEF Access
<1>4. PICK i \in 1 .. Len(list) :
        list[i] = s /\ \A j \in i + 1 .. Len(list) : ~(list[j].reg = r /\ l \in DOMAIN list[j].val)
  BY DEF Leaves
<1>5. i \in 0 .. Len(list) /\ i <= Len(list) /\ i - 1 \in 0 .. Len(list) BY <1>1, <1>4
<1>6. mem'[r][l] = g[i][r][l] BY <1>1, <1>2, <1>3, <1>4, <1>5, RunEffect
<1>7. CASE \E x \in f : x.n = i /\ x.l = l
  <2>1. PICK x \in f : x.n = i /\ x.l = l BY <1>7
  <2>2. list[x.n].reg = r BY <1>4, <2>1 DEF Leaves
  <2> QED BY <2>1, <2>2 DEF Access
<1>8. CASE ~(\E x \in f : x.n = i /\ x.l = l)
  <2>1. Shape(g[i - 1]) BY <1>1, <1>2, <1>5, RunEffect
  <2>2. g[i] = Apply(g[i - 1], s, f, i)
    <3>1. g[i] = IF i = 0 THEN mem ELSE Apply(g[i - 1], list[i], f, i) BY <1>2, <1>5 DEF Run
    <3> QED BY <1>4, <3>1
  <2>3. r \in XmacRegs => XmacUp(g[i - 1], l[2])
    <3> SUFFICES ASSUME r \in XmacRegs PROVE XmacUp(g[i - 1], l[2]) OBVIOUS
    <3>1. {"XGXS_CTRL", "XMAC_CONTROL"} \subseteq Watched BY DEF Watched, XlportRegs
    <3>2. \A j \in 1 .. i - 1 : list[j].reg \notin {"XGXS_CTRL", "XMAC_CONTROL"}
      BY <1>1, <1>4 DEF Spares
    <3>3. g[i - 1]["XGXS_CTRL"] = mem["XGXS_CTRL"] BY <1>1, <1>2, <1>5, <3>1, <3>2, RunEffect
    <3>4. g[i - 1]["XMAC_CONTROL"] = mem["XMAC_CONTROL"] BY <1>1, <1>2, <1>5, <3>1, <3>2, RunEffect
    <3> QED BY <3>3, <3>4 DEF XmacUp, Val
  <2>4. Answers(g[i - 1], r, l) BY <2>3 DEF Answers, Bus
  <2>5. s.reg = r /\ l \in DOMAIN s.val BY DEF Leaves
  <2>6. g[i][r][l] = <<Written(g[i - 1], s, l)>>
    BY <1>8, <2>1, <2>2, <2>4, <2>5, ApplyEffect
  <2> QED BY <1>6, <2>6
<1> QED BY <1>7, <1>8

-----------------------------------------------------------------------------
(* Which registers the phases leave alone                                  *)

LEMMA SparesStatements ==
  /\ \A R, r, at, v : r \notin R => Spares(W(r, at, v), R)
  /\ \A R, r, at, v : r \notin R => Spares(M(r, at, v), R)
  /\ \A R, r, at, v : r \notin R => Spares(Z(r, at, v), R)
  /\ \A R, r, i, v : r \notin R => Spares(PerPort(r, i, v), R)
  /\ \A R, r, f : r \notin R => Spares(Table(r, f), R)
<1>1. \A R, r, at, v : r \notin R => Spares(W(r, at, v), R) BY SparesOne DEF W
<1>2. \A R, r, at, v : r \notin R => Spares(M(r, at, v), R) BY SparesOne DEF M
<1>3. \A R, r, at, v : r \notin R => Spares(Z(r, at, v), R) BY SparesOne DEF Z
<1>4. \A R, r, i, v : r \notin R => Spares(PerPort(r, i, v), R) BY <1>1, Zenon DEF PerPort
<1>5. \A R, r, f : r \notin R => Spares(Table(r, f), R) BY SparesOne DEF Table
<1> QED BY <1>1, <1>2, <1>3, <1>4, <1>5

LEMMA ListStatements ==
  /\ \A r, at, v : List(W(r, at, v)) /\ List(M(r, at, v)) /\ List(Z(r, at, v))
  /\ \A r, i, v : List(PerPort(r, i, v))
  /\ \A r, f : List(Table(r, f))
<1>1. \A a : Spares(a, {}) => List(a) BY DEF Spares
<1>2. \A r, at, v : Spares(W(r, at, v), {}) /\ Spares(M(r, at, v), {}) /\ Spares(Z(r, at, v), {})
  BY SparesStatements
<1>3. (\A r, i, v : Spares(PerPort(r, i, v), {})) /\ \A r, f : Spares(Table(r, f), {})
  BY SparesStatements
<1> QED BY <1>1, <1>2, <1>3

LEMMA ListJoin == \A a, b : List(a) /\ List(b) => List(a \o b)
BY ListConcat

LEMMA SparesPortTab ==
  /\ Spares(init_egress_config, {"PORT_TAB"})
  /\ Spares(init_thdo_tables, {"PORT_TAB"})
  /\ Spares(init_scheduling, {"PORT_TAB"})
<1>1. Spares(init_thdo_tables, {"PORT_TAB"}) BY SparesStatements, SparesConcat DEF init_thdo_tables
<1>2. Spares(init_scheduling, {"PORT_TAB"})
  BY SparesStatements, SparesConcat, SparesOne DEF init_scheduling
<1>3. Spares(init_egress_config, {"PORT_TAB"})
  <2>1. Spares(EgressCos, {"PORT_TAB"}) BY SparesStatements, SparesConcat DEF EgressCos
  <2>2. ASSUME NEW qi, NEW spid, NEW en, NEW min, NEW shared
        PROVE  Spares(CpuQueue(qi, spid, en, min, shared), {"PORT_TAB"})
    <3>1. <<>> \in Seq({}) /\ Len(<<>>) = 0 OBVIOUS
    <3>2. Spares(<<>>, {"PORT_TAB"}) BY <3>1 DEF Spares, List
    <3> QED BY <3>2, SparesStatements, SparesConcat DEF CpuQueue
  <2>3. Spares(EgressBuffers, {"PORT_TAB"})
    <3>1. \A a, b : Spares(a, {"PORT_TAB"}) /\ Spares(b, {"PORT_TAB"}) => Spares(a \o b, {"PORT_TAB"})
      BY SparesConcat
    <3> QED BY <3>1, <2>2, SparesStatements, SMTT(60) DEF EgressBuffers
  <2> QED BY <2>1, <2>3, SparesConcat DEF init_egress_config
<1> QED BY <1>1, <1>2, <1>3

BlockRegs == {"XGXS_CTRL", "XLPORT_MODE", "XLPORT_PORT_ENABLE", "XMAC_CONTROL"}
PipeRegs == {"EPC_LINK_BMAP", "XMAC_TX_CTRL", "XMAC_RX_CTRL", "EGR_PORT"}

LEMMA SparesXport ==
  ASSUME NEW skipped PROVE Spares(init_xport_reset(skipped), {"PORT_TAB"})
BY SparesStatements, SparesConcat, SparesOne DEF init_xport_reset

LEMMA SparesPipeline == Spares(init_port_pipeline, {"PORT_TAB"} \cup BlockRegs)
BY SparesStatements, SparesConcat DEF init_port_pipeline, BlockRegs

LEMMA SparesVlans == Spares(init_vlan_forwarding, {"PORT_TAB"} \cup BlockRegs \cup PipeRegs)
BY SparesStatements, SparesConcat DEF init_vlan_forwarding, BlockRegs, PipeRegs

LEMMA SparesLess ==
  ASSUME NEW a, NEW R, NEW Q \in SUBSET R, Spares(a, R) PROVE Spares(a, Q)
BY DEF Spares

-----------------------------------------------------------------------------
(* What the phases leave                                                   *)

\* Value v is what the last statement on a location has for it.
LeavesValue(kind, a, r, l, v) == \E s : s.kind = kind /\ s.val[l] = v /\ Leaves(a, r, l, s)

LEMMA ValueStatements ==
  /\ \A r, l, at, v : l \in at => LeavesValue("w", W(r, at, v), r, l, v)
  /\ \A r, l, at, v : l \in at => LeavesValue("z", Z(r, at, v), r, l, v)
  /\ \A kind, r, l, f : l \in DOMAIN f => LeavesValue(kind, <<Stmt(kind, r, f)>>, r, l, f[l])
<1>1. ASSUME NEW kind, NEW r, NEW l, NEW f, l \in DOMAIN f
      PROVE  LeavesValue(kind, <<Stmt(kind, r, f)>>, r, l, f[l])
  <2>1. Leaves(<<Stmt(kind, r, f)>>, r, l, Stmt(kind, r, f)) BY <1>1, LeavesOne
  <2>2. Stmt(kind, r, f).kind = kind /\ Stmt(kind, r, f).val = f BY DEF Stmt
  <2> QED BY <2>1, <2>2 DEF LeavesValue
<1>2. ASSUME NEW kind, NEW r, NEW l, NEW at, NEW v, l \in at
      PROVE  LeavesValue(kind, <<Stmt(kind, r, [x \in at |-> v])>>, r, l, v)
  <2>1. l \in DOMAIN [x \in at |-> v] /\ [x \in at |-> v][l] = v BY <1>2
  <2>2. LeavesValue(kind, <<Stmt(kind, r, [x \in at |-> v])>>, r, l, [x \in at |-> v][l]) BY <1>1, <2>1
  <2> QED BY <2>1, <2>2, Zenon
<1>3. \A r, l, at, v : l \in at => LeavesValue("w", W(r, at, v), r, l, v) BY <1>2, Zenon DEF W
<1>4. \A r, l, at, v : l \in at => LeavesValue("z", Z(r, at, v), r, l, v) BY <1>2, Zenon DEF Z
<1> QED BY <1>1, <1>3, <1>4, Zenon

LEMMA ValueConcat ==
  /\ \A kind, a, b, r, l, v :
       List(a) /\ LeavesValue(kind, b, r, l, v) => LeavesValue(kind, a \o b, r, l, v)
  /\ \A kind, a, b, r, l, v :
       LeavesValue(kind, a, r, l, v) /\ Spares(b, {r}) => LeavesValue(kind, a \o b, r, l, v)
<1>1. ASSUME NEW kind, NEW a, NEW b, NEW r, NEW l, NEW v, List(a), LeavesValue(kind, b, r, l, v)
      PROVE  LeavesValue(kind, a \o b, r, l, v)
  BY <1>1, LeavesLast DEF LeavesValue
<1>2. ASSUME NEW kind, NEW a, NEW b, NEW r, NEW l, NEW v, LeavesValue(kind, a, r, l, v), Spares(b, {r})
      PROVE  LeavesValue(kind, a \o b, r, l, v)
  BY <1>2, LeavesFirst DEF LeavesValue
<1> QED BY <1>1, <1>2

Up == {"LCREF_EN", "RSTB_HW", "RSTB_MDIO", "RSTB_PLL", "TXD1G_RSTB", "TXD10G_RSTB"}

LEMMA XportLeaves ==
  ASSUME NEW skipped, NEW b \in XlBlocks \ skipped
  PROVE  /\ LeavesValue("w", init_xport_reset(skipped), "XGXS_CTRL", <<0, b>>, Up)
         /\ LeavesValue("w", init_xport_reset(skipped), "XLPORT_MODE", <<0, b>>, IF b < 12 THEN "4x10G" ELSE "1x40G")
         /\ LeavesValue("w", init_xport_reset(skipped), "XLPORT_PORT_ENABLE", <<0, b>>, IF b < 12 THEN 0 .. 3 ELSE {0})
         /\ LeavesValue("w", init_xport_reset(skipped), "XMAC_CONTROL", <<0, b>>, 0)
<1> DEFINE bs == For(XlBlocks \ skipped)
           up == {"LCREF_EN", "RSTB_HW", "RSTB_MDIO", "RSTB_PLL"}
           modes == [l \in bs |-> IF l[2] < 12 THEN "4x10G" ELSE "1x40G"]
           lanes == [l \in bs |-> IF l[2] < 12 THEN 0 .. 3 ELSE {0}]
           first == W("XGXS_CTRL", For(XlBlocks), {"LCREF_EN", "IDDQ", "PWRDWN", "PWRDWN_PLL"})
                    \o W("XGXS_CTRL", bs, {"LCREF_EN"}) \o W("XGXS_CTRL", bs, {"LCREF_EN", "RSTB_HW"})
                    \o W("XGXS_CTRL", bs, up)
           fifth == W("XGXS_CTRL", bs, up \cup {"TXD1G_RSTB", "TXD10G_RSTB"})
           sixth == <<Stmt("w", "XLPORT_MODE", modes)>>
           seventh == <<Stmt("w", "XLPORT_PORT_ENABLE", lanes)>>
           eighth == W("XMAC_CONTROL", bs, 1)
           ninth == W("XMAC_CONTROL", bs, 0)
<1>1. <<0, b>> \in bs /\ <<0, b>> \in DOMAIN modes /\ <<0, b>> \in DOMAIN lanes BY DEF For
<1>2. modes[<<0, b>>] = IF b < 12 THEN "4x10G" ELSE "1x40G" BY <1>1
<1>3. lanes[<<0, b>>] = IF b < 12 THEN 0 .. 3 ELSE {0} BY <1>1
<1>4. init_xport_reset(skipped) = first \o fifth \o sixth \o seventh \o eighth \o ninth
  BY DEF init_xport_reset
<1>5. List(first) BY ListStatements, ListJoin
<1>6. LeavesValue("w", fifth, "XGXS_CTRL", <<0, b>>, Up)
  <2>1. up \cup {"TXD1G_RSTB", "TXD10G_RSTB"} = Up BY DEF Up
  <2> QED BY <1>1, <2>1, ValueStatements
<1>7. LeavesValue("w", sixth, "XLPORT_MODE", <<0, b>>, modes[<<0, b>>]) BY <1>1, ValueStatements
<1>8. LeavesValue("w", seventh, "XLPORT_PORT_ENABLE", <<0, b>>, lanes[<<0, b>>]) BY <1>1, ValueStatements
<1>9. LeavesValue("w", ninth, "XMAC_CONTROL", <<0, b>>, 0) BY <1>1, ValueStatements
<1>10. \A R : "XGXS_CTRL" \notin R => Spares(fifth, R) BY SparesStatements
<1>11. \A R : "XLPORT_MODE" \notin R => Spares(sixth, R) BY SparesOne
<1>12. \A R : "XLPORT_PORT_ENABLE" \notin R => Spares(seventh, R) BY SparesOne
<1>13. \A R : "XMAC_CONTROL" \notin R => Spares(eighth, R) /\ Spares(ninth, R) BY SparesStatements
<1>14. List(fifth) /\ List(sixth) /\ List(seventh) /\ List(eighth)
  BY <1>10, <1>11, <1>12, <1>13 DEF Spares
<1> HIDE DEF first, fifth, sixth, seventh, eighth, ninth, modes, lanes
<1>15. LeavesValue("w", init_xport_reset(skipped), "XGXS_CTRL", <<0, b>>, Up)
  BY <1>4, <1>5, <1>6, <1>11, <1>12, <1>13, ValueConcat
<1>16. LeavesValue("w", init_xport_reset(skipped), "XLPORT_MODE", <<0, b>>, modes[<<0, b>>])
  BY <1>4, <1>5, <1>7, <1>12, <1>13, <1>14, ListJoin, ValueConcat
<1>17. LeavesValue("w", init_xport_reset(skipped), "XLPORT_PORT_ENABLE", <<0, b>>, lanes[<<0, b>>])
  BY <1>4, <1>5, <1>8, <1>13, <1>14, ListJoin, ValueConcat
<1>18. LeavesValue("w", init_xport_reset(skipped), "XMAC_CONTROL", <<0, b>>, 0)
  BY <1>4, <1>5, <1>9, <1>14, ListJoin, ValueConcat
<1> QED BY <1>2, <1>3, <1>15, <1>16, <1>17, <1>18

LEMMA ForwardingLeaves ==
  ASSUME NEW p \in Ports
  PROVE  \E v : /\ v.vid = 1 /\ "vid" \in DOMAIN v
               /\ LeavesValue("z", init_forwarding, "PORT_TAB", <<p, 0>>, v)
<1> DEFINE v == [port_pri |-> 0, vt_enable |-> 0, trust_incoming_vid |-> 0, pri_mapping |-> 0, vid |-> 1]
<1>1. LeavesValue("z", Z("PORT_TAB", At(Ports), v), "PORT_TAB", <<p, 0>>, v)
  <2>1. <<p, 0>> \in At(Ports) BY DEF At
  <2> QED BY <2>1, ValueStatements
<1>2. LeavesValue("z", init_forwarding, "PORT_TAB", <<p, 0>>, v)
  BY <1>1, ListStatements, ListJoin, ValueConcat DEF init_forwarding
<1> QED BY <1>2

LEMMA PipelineLeaves ==
  /\ LeavesValue("w", init_port_pipeline, "EPC_LINK_BMAP", <<0, 0>>, 0 .. 52)
  /\ \A p \in FrontPorts :
       /\ LeavesValue("w", init_port_pipeline, "XMAC_TX_CTRL", XlLoc(p), "c802")
       /\ LeavesValue("w", init_port_pipeline, "XMAC_RX_CTRL", XlLoc(p), "404")
  /\ \A p \in Ports : \E v :
       /\ v.port_type = 0 /\ "port_type" \in DOMAIN v
       /\ LeavesValue("z", init_port_pipeline, "EGR_PORT", <<p, 0>>, v)
<1> DEFINE macs == {XlLoc(p) : p \in FrontPorts}
           v == [port_type |-> 0, higig2 |-> 0]
           first == W("EPC_LINK_BMAP", Global, 0 .. 52)
           second == W("ING_EN_EFILTER_BITMAP", Global, 0 .. 52)
           third == W("XMAC_TX_CTRL", macs, "c802")
           fourth == W("XMAC_RX_CTRL", macs, "404")
           fifth == Z("EGR_PORT", At(Ports), v)
           sixth == W("IFP_METER_PARITY_CONTROL", Global, 0)
<1>1. init_port_pipeline = first \o second \o third \o fourth \o fifth \o sixth
  BY DEF init_port_pipeline
<1>2. LeavesValue("w", first, "EPC_LINK_BMAP", <<0, 0>>, 0 .. 52) BY ValueStatements DEF Global
<1>3. \A p \in FrontPorts :
        /\ LeavesValue("w", third, "XMAC_TX_CTRL", XlLoc(p), "c802")
        /\ LeavesValue("w", fourth, "XMAC_RX_CTRL", XlLoc(p), "404")
  BY ValueStatements
<1>4. \A p \in Ports : LeavesValue("z", fifth, "EGR_PORT", <<p, 0>>, v)
  <2>1. \A p \in Ports : <<p, 0>> \in At(Ports) BY DEF At
  <2> QED BY <2>1, ValueStatements
<1>5. v.port_type = 0 /\ "port_type" \in DOMAIN v OBVIOUS
<1>6. List(first) /\ List(second) /\ List(third) /\ List(fourth) BY ListStatements
<1>7. \A R : "ING_EN_EFILTER_BITMAP" \notin R => Spares(second, R) BY SparesStatements
<1>8. \A R : "XMAC_TX_CTRL" \notin R => Spares(third, R) BY SparesStatements
<1>9. \A R : "XMAC_RX_CTRL" \notin R => Spares(fourth, R) BY SparesStatements
<1>10. \A R : "EGR_PORT" \notin R => Spares(fifth, R) BY SparesStatements
<1>11. \A R : "IFP_METER_PARITY_CONTROL" \notin R => Spares(sixth, R) BY SparesStatements
<1> HIDE DEF macs, v, first, second, third, fourth, fifth, sixth
<1>12. LeavesValue("w", init_port_pipeline, "EPC_LINK_BMAP", <<0, 0>>, 0 .. 52)
  <2>1. Spares(second, {"EPC_LINK_BMAP"}) /\ Spares(third, {"EPC_LINK_BMAP"}) /\ Spares(fourth, {"EPC_LINK_BMAP"}) /\ Spares(fifth, {"EPC_LINK_BMAP"}) /\ Spares(sixth, {"EPC_LINK_BMAP"})
    BY <1>7, <1>8, <1>9, <1>10, <1>11
  <2>2. LeavesValue("w", first \o second, "EPC_LINK_BMAP", <<0, 0>>, 0 .. 52) BY <2>1, <1>2, ValueConcat
  <2>3. LeavesValue("w", first \o second \o third, "EPC_LINK_BMAP", <<0, 0>>, 0 .. 52) BY <2>1, <2>2, ValueConcat
  <2>4. LeavesValue("w", first \o second \o third \o fourth, "EPC_LINK_BMAP", <<0, 0>>, 0 .. 52) BY <2>1, <2>3, ValueConcat
  <2>5. LeavesValue("w", first \o second \o third \o fourth \o fifth, "EPC_LINK_BMAP", <<0, 0>>, 0 .. 52) BY <2>1, <2>4, ValueConcat
  <2> QED BY <1>1, <2>1, <2>5, ValueConcat
<1>13. ASSUME NEW p \in FrontPorts
       PROVE  LeavesValue("w", init_port_pipeline, "XMAC_TX_CTRL", XlLoc(p), "c802")
  <2>1. Spares(fourth, {"XMAC_TX_CTRL"}) /\ Spares(fifth, {"XMAC_TX_CTRL"}) /\ Spares(sixth, {"XMAC_TX_CTRL"})
    BY <1>9, <1>10, <1>11
  <2>2. List(first \o second) BY <1>6, ListJoin
  <2>3. LeavesValue("w", first \o second \o third, "XMAC_TX_CTRL", XlLoc(p), "c802") BY <2>2, <1>3, ValueConcat
  <2>4. LeavesValue("w", first \o second \o third \o fourth, "XMAC_TX_CTRL", XlLoc(p), "c802") BY <2>1, <2>3, ValueConcat
  <2>5. LeavesValue("w", first \o second \o third \o fourth \o fifth, "XMAC_TX_CTRL", XlLoc(p), "c802") BY <2>1, <2>4, ValueConcat
  <2> QED BY <1>1, <2>1, <2>5, ValueConcat
<1>14. ASSUME NEW p \in FrontPorts
       PROVE  LeavesValue("w", init_port_pipeline, "XMAC_RX_CTRL", XlLoc(p), "404")
  <2>1. Spares(fifth, {"XMAC_RX_CTRL"}) /\ Spares(sixth, {"XMAC_RX_CTRL"})
    BY <1>10, <1>11
  <2>2. List(first \o second \o third) BY <1>6, ListJoin
  <2>3. LeavesValue("w", first \o second \o third \o fourth, "XMAC_RX_CTRL", XlLoc(p), "404") BY <2>2, <1>3, ValueConcat
  <2>4. LeavesValue("w", first \o second \o third \o fourth \o fifth, "XMAC_RX_CTRL", XlLoc(p), "404") BY <2>1, <2>3, ValueConcat
  <2> QED BY <1>1, <2>1, <2>4, ValueConcat
<1>15. ASSUME NEW p \in Ports PROVE LeavesValue("z", init_port_pipeline, "EGR_PORT", <<p, 0>>, v)
  <2>1. Spares(sixth, {"EGR_PORT"})
    BY <1>11
  <2>2. List(first \o second \o third \o fourth) BY <1>6, ListJoin
  <2>3. LeavesValue("z", first \o second \o third \o fourth \o fifth, "EGR_PORT", <<p, 0>>, v) BY <2>2, <1>4, ValueConcat
  <2> QED BY <1>1, <2>1, <2>3, ValueConcat
<1> QED BY <1>5, <1>12, <1>13, <1>14, <1>15

VlanRow == [valid |-> 1, stg |-> 2, port |-> 0 .. 52, ing |-> 0 .. 52]
EgrVlanRow == [valid |-> 1, stg |-> 2, port |-> 0 .. 52, ut |-> 0 .. 52]

LEMMA VlansLeave ==
  /\ LeavesValue("w", init_vlan_forwarding, "STG_TAB", <<2, 0>>, 0 .. 52)
  /\ LeavesValue("w", init_vlan_forwarding, "VLAN_TAB", <<1, 0>>, VlanRow)
  /\ LeavesValue("w", init_vlan_forwarding, "EGR_VLAN", <<1, 0>>, EgrVlanRow)
  /\ \A p \in Ports : LeavesValue("w", init_vlan_forwarding, "UNKNOWN_UCAST_BLOCK_MASK", <<p, 0>>, {})
<1> DEFINE first == W("STG_TAB", {<<2, 0>>}, 0 .. 52)
           second == W("VLAN_TAB", {<<1, 0>>}, VlanRow)
           third == W("EGR_VLAN", {<<1, 0>>}, EgrVlanRow)
           fourth == W("UNKNOWN_UCAST_BLOCK_MASK", At(Ports), {})
           fifth == W("UNKNOWN_MCAST_BLOCK_MASK", At(Ports), {})
<1>1. init_vlan_forwarding = first \o second \o third \o fourth \o fifth
  BY DEF init_vlan_forwarding, VlanRow, EgrVlanRow
<1>2. /\ LeavesValue("w", first, "STG_TAB", <<2, 0>>, 0 .. 52)
      /\ LeavesValue("w", second, "VLAN_TAB", <<1, 0>>, VlanRow)
      /\ LeavesValue("w", third, "EGR_VLAN", <<1, 0>>, EgrVlanRow)
  BY ValueStatements
<1>3. \A p \in Ports : LeavesValue("w", fourth, "UNKNOWN_UCAST_BLOCK_MASK", <<p, 0>>, {})
  <2>1. \A p \in Ports : <<p, 0>> \in At(Ports) BY DEF At
  <2> QED BY <2>1, ValueStatements
<1>4. List(first) /\ List(second) /\ List(third) BY ListStatements
<1>5. \A R : "VLAN_TAB" \notin R => Spares(second, R) BY SparesStatements
<1>6. \A R : "EGR_VLAN" \notin R => Spares(third, R) BY SparesStatements
<1>7. \A R : "UNKNOWN_UCAST_BLOCK_MASK" \notin R => Spares(fourth, R) BY SparesStatements
<1>8. \A R : "UNKNOWN_MCAST_BLOCK_MASK" \notin R => Spares(fifth, R) BY SparesStatements
<1> HIDE DEF first, second, third, fourth, fifth
<1>9. LeavesValue("w", init_vlan_forwarding, "STG_TAB", <<2, 0>>, 0 .. 52)
  <2>1. Spares(second, {"STG_TAB"}) /\ Spares(third, {"STG_TAB"}) /\ Spares(fourth, {"STG_TAB"}) /\ Spares(fifth, {"STG_TAB"})
    BY <1>5, <1>6, <1>7, <1>8
  <2>2. LeavesValue("w", first \o second, "STG_TAB", <<2, 0>>, 0 .. 52) BY <2>1, <1>2, ValueConcat
  <2>3. LeavesValue("w", first \o second \o third, "STG_TAB", <<2, 0>>, 0 .. 52) BY <2>1, <2>2, ValueConcat
  <2>4. LeavesValue("w", first \o second \o third \o fourth, "STG_TAB", <<2, 0>>, 0 .. 52) BY <2>1, <2>3, ValueConcat
  <2> QED BY <1>1, <2>1, <2>4, ValueConcat
<1>10. LeavesValue("w", init_vlan_forwarding, "VLAN_TAB", <<1, 0>>, VlanRow)
  <2>1. Spares(third, {"VLAN_TAB"}) /\ Spares(fourth, {"VLAN_TAB"}) /\ Spares(fifth, {"VLAN_TAB"})
    BY <1>6, <1>7, <1>8
  <2>2. LeavesValue("w", first \o second, "VLAN_TAB", <<1, 0>>, VlanRow) BY <1>4, <1>2, ValueConcat
  <2>3. LeavesValue("w", first \o second \o third, "VLAN_TAB", <<1, 0>>, VlanRow) BY <2>1, <2>2, ValueConcat
  <2>4. LeavesValue("w", first \o second \o third \o fourth, "VLAN_TAB", <<1, 0>>, VlanRow) BY <2>1, <2>3, ValueConcat
  <2> QED BY <1>1, <2>1, <2>4, ValueConcat
<1>11. LeavesValue("w", init_vlan_forwarding, "EGR_VLAN", <<1, 0>>, EgrVlanRow)
  <2>1. Spares(fourth, {"EGR_VLAN"}) /\ Spares(fifth, {"EGR_VLAN"})
    BY <1>7, <1>8
  <2>2. List(first \o second) BY <1>4, ListJoin
  <2>3. LeavesValue("w", first \o second \o third, "EGR_VLAN", <<1, 0>>, EgrVlanRow) BY <2>2, <1>2, ValueConcat
  <2>4. LeavesValue("w", first \o second \o third \o fourth, "EGR_VLAN", <<1, 0>>, EgrVlanRow) BY <2>1, <2>3, ValueConcat
  <2> QED BY <1>1, <2>1, <2>4, ValueConcat
<1>12. ASSUME NEW p \in Ports
       PROVE  LeavesValue("w", init_vlan_forwarding, "UNKNOWN_UCAST_BLOCK_MASK", <<p, 0>>, {})
  <2>1. List(first \o second \o third) BY <1>4, ListJoin
  <2>2. LeavesValue("w", first \o second \o third \o fourth, "UNKNOWN_UCAST_BLOCK_MASK", <<p, 0>>, {})
    BY <2>1, <1>3, ValueConcat
  <2>3. Spares(fifth, {"UNKNOWN_UCAST_BLOCK_MASK"}) BY <1>8
  <2> QED BY <1>1, <2>2, <2>3, ValueConcat
<1> QED BY <1>9, <1>10, <1>11, <1>12

\* A location some phase writes is in the memory.
LEMMA ResetHas ==
  ASSUME NEW k \in 1 .. PhaseCount, NEW r \in Watched, NEW l, NEW v, NEW kind,
         LeavesValue(kind, PhaseList(k, {}), r, l, v)
  PROVE  l \in DOMAIN ResetMem[r]
<1> DEFINE list == PhaseList(k, {})
<1>1. PICK s : Leaves(list, r, l, s) BY DEF LeavesValue
<1>2. PICK i \in 1 .. Len(list) : list[i] = s BY <1>1 DEF Leaves
<1>3. DOMAIN list = 1 .. Len(list) BY <1>1 DEF Leaves, List
<1>4. list[i].reg = r /\ l \in DOMAIN list[i].val BY <1>1, <1>2 DEF Leaves
<1>5. <<r, DOMAIN list[i].val>> \in Rows(k) BY <1>2, <1>3, <1>4 DEF Rows
<1>6. <<r, DOMAIN list[i].val>> \in AllRows BY <1>5 DEF AllRows
<1> QED BY <1>4, <1>6 DEF ResetMem

-----------------------------------------------------------------------------
(* One pass, phase by phase                                                *)

LEMMA PhaseListIs ==
  ASSUME NEW f
  PROVE  /\ PhaseList(1, f) = init_ingress_buffers /\ PhaseList(2, f) = init_priority_mapping
         /\ PhaseList(3, f) = init_forwarding /\ PhaseList(4, f) = init_egress_config
         /\ PhaseList(5, f) = init_thdo_tables /\ PhaseList(6, f) = init_scheduling
         /\ PhaseList(7, f) = init_xport_reset(Skipped(f)) /\ PhaseList(8, f) = init_port_pipeline
         /\ PhaseList(9, f) = init_vlan_forwarding
BY DEF PhaseList

LEMMA SparesPhases ==
  ASSUME NEW f
  PROVE  /\ \A k \in 4 .. 9 : Spares(PhaseList(k, f), {"PORT_TAB"})
         /\ \A k \in 8 .. 9 : Spares(PhaseList(k, f), BlockRegs)
         /\ Spares(PhaseList(9, f), PipeRegs)
<1>1. ASSUME NEW k \in 4 .. 9 PROVE Spares(PhaseList(k, f), {"PORT_TAB"})
  <2>1. k \in {4, 5, 6} => Spares(PhaseList(k, f), {"PORT_TAB"}) BY PhaseListIs, SparesPortTab
  <2>2. k = 7 => Spares(PhaseList(k, f), {"PORT_TAB"}) BY PhaseListIs, SparesXport
  <2>3. k = 8 => Spares(PhaseList(k, f), {"PORT_TAB"}) BY PhaseListIs, SparesPipeline, SparesLess
  <2>4. k = 9 => Spares(PhaseList(k, f), {"PORT_TAB"}) BY PhaseListIs, SparesVlans, SparesLess
  <2> QED BY <2>1, <2>2, <2>3, <2>4
<1>2. ASSUME NEW k \in 8 .. 9 PROVE Spares(PhaseList(k, f), BlockRegs)
  <2>1. k = 8 => Spares(PhaseList(k, f), BlockRegs) BY PhaseListIs, SparesPipeline, SparesLess
  <2>2. k = 9 => Spares(PhaseList(k, f), BlockRegs) BY PhaseListIs, SparesVlans, SparesLess
  <2> QED BY <2>1, <2>2
<1>3. Spares(PhaseList(9, f), PipeRegs) BY PhaseListIs, SparesVlans, SparesLess
<1> QED BY <1>1, <1>2, <1>3

LEMMA PhasesAreLists ==
  ASSUME NEW f, NEW k \in 1 .. 9 PROVE List(PhaseList(k, f))
<1>1. CASE k = 1
  <2>1. \A pg, cpu, xe, q : List(PgMin(pg, cpu, xe, q)) BY ListStatements, ListJoin DEF PgMin
  <2>2. List(init_ingress_buffers) BY <2>1, ListStatements, ListJoin DEF init_ingress_buffers
  <2> QED BY <1>1, <2>2, PhaseListIs
<1>2. CASE k = 2
  <2>1. List(init_priority_mapping) BY ListStatements, ListJoin DEF init_priority_mapping
  <2> QED BY <1>2, <2>1, PhaseListIs
<1>3. CASE k = 3
  <2>1. List(init_forwarding) BY ListStatements, ListJoin DEF init_forwarding
  <2> QED BY <1>3, <2>1, PhaseListIs
<1>4. CASE k \in 4 .. 9 BY <1>4, SparesPhases DEF Spares
<1> QED BY <1>1, <1>2, <1>3, <1>4

LEMMA Locations ==
  /\ \A p \in Ports : <<p, 0>> \in DOMAIN ResetMem["PORT_TAB"]
  /\ \A r \in BlockRegs, b \in XlBlocks : <<0, b>> \in DOMAIN ResetMem[r]
  /\ <<0, 0>> \in DOMAIN ResetMem["EPC_LINK_BMAP"]
  /\ \A r \in XmacRegs, p \in FrontPorts : XlLoc(p) \in DOMAIN ResetMem[r]
  /\ \A p \in Ports : <<p, 0>> \in DOMAIN ResetMem["EGR_PORT"]
  /\ <<2, 0>> \in DOMAIN ResetMem["STG_TAB"]
  /\ <<1, 0>> \in DOMAIN ResetMem["VLAN_TAB"] /\ <<1, 0>> \in DOMAIN ResetMem["EGR_VLAN"]
  /\ \A p \in Ports : <<p, 0>> \in DOMAIN ResetMem["UNKNOWN_UCAST_BLOCK_MASK"]
<1> USE PhaseListIs, ResetHas DEF PhaseCount
<1>1. /\ {"PORT_TAB", "EPC_LINK_BMAP", "EGR_PORT", "STG_TAB", "VLAN_TAB", "EGR_VLAN"} \subseteq Watched
      /\ "UNKNOWN_UCAST_BLOCK_MASK" \in Watched
      /\ BlockRegs \subseteq Watched /\ XmacRegs \subseteq Watched
  BY DEF Watched, XlportRegs, BlockRegs, XmacRegs
<1>2. ASSUME NEW p \in Ports PROVE <<p, 0>> \in DOMAIN ResetMem["PORT_TAB"]
  BY <1>1, ForwardingLeaves
<1>3. ASSUME NEW r \in BlockRegs, NEW b \in XlBlocks PROVE <<0, b>> \in DOMAIN ResetMem[r]
  <2>1. Skipped({}) = {} BY DEF Skipped
  <2>2. \E v : LeavesValue("w", PhaseList(7, {}), r, <<0, b>>, v) BY <2>1, XportLeaves DEF BlockRegs
  <2> QED BY <1>1, <2>2
<1>4. <<0, 0>> \in DOMAIN ResetMem["EPC_LINK_BMAP"] BY <1>1, PipelineLeaves
<1>5. ASSUME NEW r \in XmacRegs, NEW p \in FrontPorts PROVE XlLoc(p) \in DOMAIN ResetMem[r]
  <2>1. \E v : LeavesValue("w", PhaseList(8, {}), r, XlLoc(p), v) BY PipelineLeaves DEF XmacRegs
  <2> QED BY <1>1, <2>1
<1>6. ASSUME NEW p \in Ports PROVE <<p, 0>> \in DOMAIN ResetMem["EGR_PORT"] BY <1>1, PipelineLeaves
<1>7. <<2, 0>> \in DOMAIN ResetMem["STG_TAB"] BY <1>1, VlansLeave
<1>8. <<1, 0>> \in DOMAIN ResetMem["VLAN_TAB"] /\ <<1, 0>> \in DOMAIN ResetMem["EGR_VLAN"]
  BY <1>1, VlansLeave
<1>9. ASSUME NEW p \in Ports PROVE <<p, 0>> \in DOMAIN ResetMem["UNKNOWN_UCAST_BLOCK_MASK"]
  BY <1>1, VlansLeave
<1> QED BY <1>2, <1>3, <1>4, <1>5, <1>6, <1>7, <1>8, <1>9

\* A location holds a value, or the access that was to write it has failed.
Holds(r, l, v) == mem[r][l] = <<v>> \/ <<r, l>> \in hits
HoldsField(r, l, x, v) ==
  (\E e : mem[r][l] = <<e>> /\ x \in DOMAIN e /\ e[x] = v) \/ <<r, l>> \in hits

LEMMA PhaseWrites ==
  ASSUME Shape(mem), Bus, NEW list, NEW f, Access(list, f),
         NEW r \in Watched, NEW l \in DOMAIN ResetMem[r], NEW v,
         r \in XmacRegs => XmacUp(mem, l[2]) /\ Spares(list, {"XGXS_CTRL", "XMAC_CONTROL"})
  PROVE  /\ LeavesValue("w", list, r, l, v) => Holds(r, l, v)'
         /\ \A x : LeavesValue("z", list, r, l, v) /\ x \in DOMAIN v => HoldsField(r, l, x, v[x])'
<1>1. ASSUME LeavesValue("w", list, r, l, v) PROVE Holds(r, l, v)'
  <2>1. PICK s : s.kind = "w" /\ s.val[l] = v /\ Leaves(list, r, l, s) BY <1>1 DEF LeavesValue
  <2>2. <<r, l>> \in hits' \/ \E m : mem'[r][l] = <<Written(m, s, l)>> BY <2>1, AccessLeaves
  <2>3. \A m : Written(m, s, l) = v BY <2>1 DEF Written, Stored
  <2> QED BY <2>2, <2>3 DEF Holds
<1>2. ASSUME NEW x, LeavesValue("z", list, r, l, v), x \in DOMAIN v PROVE HoldsField(r, l, x, v[x])'
  <2>1. PICK s : s.kind = "z" /\ s.val[l] = v /\ Leaves(list, r, l, s) BY <1>2 DEF LeavesValue
  <2>2. <<r, l>> \in hits' \/ \E m : mem'[r][l] = <<Written(m, s, l)>> BY <2>1, AccessLeaves
  <2>3. ASSUME NEW m PROVE \E old : Written(m, s, l) = Over(v, old) BY <2>1 DEF Written, Stored
  <2>4. \A old : x \in DOMAIN Over(v, old) /\ Over(v, old)[x] = v[x] BY <1>2 DEF Over
  <2> QED BY <2>2, <2>3, <2>4 DEF HoldsField
<1> QED BY <1>1, <1>2

-----------------------------------------------------------------------------
(* What a pass has left when it has come to a phase                        *)

TabsSet == \A p \in Ports : HoldsField("PORT_TAB", <<p, 0>>, "vid", 1)

\* Unless the first write to the block failed and the others were not made.
BlockSet(b) ==
  \/ /\ Holds("XGXS_CTRL", <<0, b>>, Up)
     /\ Holds("XLPORT_MODE", <<0, b>>, IF b < 12 THEN "4x10G" ELSE "1x40G")
     /\ Holds("XLPORT_PORT_ENABLE", <<0, b>>, IF b < 12 THEN 0 .. 3 ELSE {0})
     /\ Holds("XMAC_CONTROL", <<0, b>>, 0)
  \/ <<"XGXS_CTRL", <<0, b>>>> \in hits

BlocksSet == \A b \in XlBlocks : BlockSet(b)

\* A MAC can be set only where its block came up.
BlockHit(p) == {"XGXS_CTRL", "XMAC_CONTROL"} \X {<<0, XlBlock(p)>>}
MacSet(p) ==
  \/ Holds("XMAC_TX_CTRL", XlLoc(p), "c802") /\ Holds("XMAC_RX_CTRL", XlLoc(p), "404")
  \/ hits \cap BlockHit(p) # {}

PipeSet ==
  /\ Holds("EPC_LINK_BMAP", <<0, 0>>, 0 .. 52)
  /\ \A p \in Ports : HoldsField("EGR_PORT", <<p, 0>>, "port_type", 0)
  /\ \A p \in FrontPorts : MacSet(p)

VlansSet ==
  /\ Holds("STG_TAB", <<2, 0>>, 0 .. 52)
  /\ Holds("VLAN_TAB", <<1, 0>>, VlanRow) /\ Holds("EGR_VLAN", <<1, 0>>, EgrVlanRow)
  /\ \A p \in Ports : Holds("UNKNOWN_UCAST_BLOCK_MASK", <<p, 0>>, {})

PassInv ==
  /\ Shape(mem) /\ phase \in 0 .. 9
  /\ phase >= 3 => TabsSet
  /\ phase >= 7 => BlocksSet
  /\ phase >= 8 => PipeSet
  /\ phase >= 9 => VlansSet

WatchedRegs ==
  BlockRegs \cup XmacRegs \cup PipeRegs \cup
  {"PORT_TAB", "STG_TAB", "VLAN_TAB", "EGR_VLAN", "UNKNOWN_UCAST_BLOCK_MASK"}

LEMMA TheyAreWatched == WatchedRegs \subseteq Watched /\ XmacRegs \subseteq PipeRegs
BY DEF WatchedRegs, Watched, XlportRegs, BlockRegs, PipeRegs, XmacRegs

\* What is held stays held while the register is left alone.
LEMMA HoldsStays ==
  ASSUME NEW r, mem'[r] = mem[r], hits \subseteq hits'
  PROVE  /\ \A l, v : Holds(r, l, v) => Holds(r, l, v)'
         /\ \A l, x, v : HoldsField(r, l, x, v) => HoldsField(r, l, x, v)'
BY DEF Holds, HoldsField

LEMMA PartsStay ==
  ASSUME hits \subseteq hits'
  PROVE  /\ mem'["PORT_TAB"] = mem["PORT_TAB"] /\ TabsSet => TabsSet'
         /\ (\A r \in BlockRegs : mem'[r] = mem[r]) /\ BlocksSet => BlocksSet'
         /\ (\A r \in PipeRegs : mem'[r] = mem[r]) /\ PipeSet => PipeSet'
         /\ (\A r \in WatchedRegs : mem'[r] = mem[r]) /\ VlansSet => VlansSet'
<1>1. ASSUME mem'["PORT_TAB"] = mem["PORT_TAB"], TabsSet PROVE TabsSet'
  BY <1>1, HoldsStays DEF TabsSet
<1>2. ASSUME \A r \in BlockRegs : mem'[r] = mem[r], BlocksSet PROVE BlocksSet'
  <2>1. \A r \in BlockRegs : \A l, v : Holds(r, l, v) => Holds(r, l, v)' BY <1>2, HoldsStays
  <2>2. \A b \in XlBlocks : BlockSet(b) => BlockSet(b)' BY <2>1 DEF BlockSet, BlockRegs
  <2> QED BY <1>2, <2>2 DEF BlocksSet
<1>3. ASSUME \A r \in PipeRegs : mem'[r] = mem[r], PipeSet PROVE PipeSet'
  <2>1. \A r \in PipeRegs : \A l, v : Holds(r, l, v) => Holds(r, l, v)' BY <1>3, HoldsStays
  <2>2. \A l, x, v : HoldsField("EGR_PORT", l, x, v) => HoldsField("EGR_PORT", l, x, v)'
    BY <1>3, HoldsStays DEF PipeRegs
  <2>3. \A p \in FrontPorts : MacSet(p) => MacSet(p)' BY <2>1 DEF MacSet, PipeRegs
  <2> QED BY <1>3, <2>1, <2>2, <2>3 DEF PipeSet, PipeRegs
<1>4. ASSUME \A r \in WatchedRegs : mem'[r] = mem[r], VlansSet PROVE VlansSet'
  <2>1. \A r \in WatchedRegs : \A l, v : Holds(r, l, v) => Holds(r, l, v)' BY <1>4, HoldsStays
  <2> QED BY <1>4, <2>1 DEF VlansSet, WatchedRegs
<1> QED BY <1>1, <1>2, <1>3, <1>4

LEMMA TabsPhase ==
  ASSUME PassInv, Bus, phase = 2, NEW f, Access(PhaseList(3, f), f)
  PROVE  TabsSet'
<1> SUFFICES ASSUME NEW p \in Ports PROVE HoldsField("PORT_TAB", <<p, 0>>, "vid", 1)'
  BY DEF TabsSet
<1>1. PICK v : v.vid = 1 /\ "vid" \in DOMAIN v /\ LeavesValue("z", PhaseList(3, f), "PORT_TAB", <<p, 0>>, v)
  BY PhaseListIs, ForwardingLeaves
<1>2. "PORT_TAB" \in Watched /\ "PORT_TAB" \notin XmacRegs
  BY TheyAreWatched DEF WatchedRegs, XmacRegs
<1>3. HoldsField("PORT_TAB", <<p, 0>>, "vid", v["vid"])' BY <1>1, <1>2, Locations, PhaseWrites DEF PassInv
<1> QED BY <1>1, <1>3

LEMMA FirstConcat ==
  ASSUME NEW a, NEW b, List(a), List(b), Len(a) >= 1
  PROVE  List(a \o b) /\ Len(a \o b) >= 1 /\ (a \o b)[1] = a[1]
BY ListConcat

\* The first statement of init_xport_reset(), whichever blocks it goes on with.
LEMMA XportFirst ==
  ASSUME NEW skipped
  PROVE  /\ init_xport_reset(skipped)[1].reg = "XGXS_CTRL"
         /\ DOMAIN init_xport_reset(skipped)[1].val = For(XlBlocks)
<1> DEFINE v == [l \in For(XlBlocks) |-> {"LCREF_EN", "IDDQ", "PWRDWN", "PWRDWN_PLL"}]
           bs == For(XlBlocks \ skipped)
           up == {"LCREF_EN", "RSTB_HW", "RSTB_MDIO", "RSTB_PLL"}
           first == W("XGXS_CTRL", For(XlBlocks), {"LCREF_EN", "IDDQ", "PWRDWN", "PWRDWN_PLL"})
           second == W("XGXS_CTRL", bs, {"LCREF_EN"})
           third == W("XGXS_CTRL", bs, {"LCREF_EN", "RSTB_HW"})
           fourth == W("XGXS_CTRL", bs, up)
           fifth == W("XGXS_CTRL", bs, up \cup {"TXD1G_RSTB", "TXD10G_RSTB"})
           sixth == <<Stmt("w", "XLPORT_MODE", [l \in bs |-> IF l[2] < 12 THEN "4x10G" ELSE "1x40G"])>>
           seventh == <<Stmt("w", "XLPORT_PORT_ENABLE", [l \in bs |-> IF l[2] < 12 THEN 0 .. 3 ELSE {0}])>>
           eighth == W("XMAC_CONTROL", bs, 1)
           ninth == W("XMAC_CONTROL", bs, 0)
<1>1. init_xport_reset(skipped) =
        first \o second \o third \o fourth \o fifth \o sixth \o seventh \o eighth \o ninth
  BY DEF init_xport_reset
<1>2. /\ List(first) /\ List(second) /\ List(third) /\ List(fourth) /\ List(fifth)
      /\ List(eighth) /\ List(ninth)
  BY ListStatements
<1>3. List(sixth) /\ List(seventh)
  <2>1. Spares(sixth, {}) /\ Spares(seventh, {}) BY SparesOne
  <2> QED BY <2>1 DEF Spares
<1>4. first = <<Stmt("w", "XGXS_CTRL", v)>> BY DEF W
<1>5. Len(first) = 1 /\ first[1] = Stmt("w", "XGXS_CTRL", v) BY <1>4
<1>6. Stmt("w", "XGXS_CTRL", v).reg = "XGXS_CTRL" /\ DOMAIN Stmt("w", "XGXS_CTRL", v).val = For(XlBlocks)
  BY DEF Stmt
<1> HIDE DEF v, first, second, third, fourth, fifth, sixth, seventh, eighth, ninth
<1> DEFINE head == first \o second \o third \o fourth
<1>7. List(head) /\ Len(head) >= 1 /\ head[1] = first[1]
  <2>1. Len(first) >= 1 BY <1>5
  <2>2. List(first \o second) /\ Len(first \o second) >= 1 /\ (first \o second)[1] = first[1]
    BY <1>2, <2>1, FirstConcat
  <2>3. /\ List(first \o second \o third) /\ Len(first \o second \o third) >= 1
        /\ (first \o second \o third)[1] = first[1]
    BY <1>2, <2>2, FirstConcat
  <2> QED BY <1>2, <2>3, FirstConcat
<1>8. init_xport_reset(skipped) = head \o fifth \o sixth \o seventh \o eighth \o ninth BY <1>1
<1> HIDE DEF head
<1>9. init_xport_reset(skipped)[1] = first[1] BY <1>2, <1>3, <1>7, <1>8, FirstConcat
<1> QED BY <1>5, <1>6, <1>9

LEMMA FaultSetsAre ==
  ASSUME NEW list, NEW f \in FaultSets(list) PROVE f \subseteq Failures(list)
BY DEF FaultSets, Range

LEMMA BlocksPhase ==
  ASSUME PassInv, Bus, phase = 6, NEW f \in FaultSets(PhaseList(7, {})), Access(PhaseList(7, f), f)
  PROVE  BlocksSet'
<1> SUFFICES ASSUME NEW b \in XlBlocks PROVE BlockSet(b)'
  BY DEF BlocksSet
<1>1. CASE b \in Skipped(f)
  <2>1. PICK x \in f : x.n = 1 /\ x.l[2] = b BY <1>1 DEF Skipped
  <2>2. x \in Failures(PhaseList(7, {})) BY FaultSetsAre
  <2>6. x.l \in DOMAIN PhaseList(7, {})[1].val BY <2>1, <2>2 DEF Failures
  <2>3. x.l \in For(XlBlocks) BY <2>6, PhaseListIs, XportFirst
  <2>4. x.l = <<0, b>> BY <2>1, <2>3 DEF For
  <2>5. PhaseList(7, f)[x.n].reg = "XGXS_CTRL" BY <2>1, PhaseListIs, XportFirst
  <2> QED BY <2>1, <2>4, <2>5 DEF Access, BlockSet
<1>2. CASE b \in XlBlocks \ Skipped(f)
  <2>1. \A r \in BlockRegs : r \in Watched /\ r \notin XmacRegs /\ <<0, b>> \in DOMAIN ResetMem[r]
    BY TheyAreWatched, Locations DEF WatchedRegs, BlockRegs, XmacRegs
  <2>2. \A r \in BlockRegs : \A v :
          LeavesValue("w", PhaseList(7, f), r, <<0, b>>, v) => Holds(r, <<0, b>>, v)'
    BY <2>1, PhaseWrites DEF PassInv
  <2>3. /\ LeavesValue("w", PhaseList(7, f), "XGXS_CTRL", <<0, b>>, Up)
        /\ LeavesValue("w", PhaseList(7, f), "XLPORT_MODE", <<0, b>>, IF b < 12 THEN "4x10G" ELSE "1x40G")
        /\ LeavesValue("w", PhaseList(7, f), "XLPORT_PORT_ENABLE", <<0, b>>, IF b < 12 THEN 0 .. 3 ELSE {0})
        /\ LeavesValue("w", PhaseList(7, f), "XMAC_CONTROL", <<0, b>>, 0)
    BY <1>2, PhaseListIs, XportLeaves
  <2> QED BY <2>2, <2>3 DEF BlockSet, BlockRegs
<1> QED BY <1>1, <1>2

\* A block that came up without a failure has its MACs out of reset.
LEMMA BlockUp ==
  ASSUME PassInv, NEW b \in XlBlocks, BlockSet(b),
         <<"XGXS_CTRL", <<0, b>>>> \notin hits, <<"XMAC_CONTROL", <<0, b>>>> \notin hits
  PROVE  XmacUp(mem, b)
<1>1. mem["XGXS_CTRL"][<<0, b>>] = <<Up>> /\ mem["XMAC_CONTROL"][<<0, b>>] = <<0>>
  BY DEF BlockSet, Holds
<1>2. <<0, b>> \in DOMAIN mem["XGXS_CTRL"] /\ <<0, b>> \in DOMAIN mem["XMAC_CONTROL"]
  BY Locations, TheyAreWatched DEF PassInv, Shape, WatchedRegs, BlockRegs
<1>3. Val(mem, "XGXS_CTRL", <<0, b>>, {}) = Up /\ Val(mem, "XMAC_CONTROL", <<0, b>>, 1) = 0
  BY <1>1, <1>2 DEF Val
<1> QED BY <1>3 DEF XmacUp, Up

LEMMA PipePhase ==
  ASSUME PassInv, Bus, phase = 7, NEW f, Access(PhaseList(8, f), f)
  PROVE  PipeSet'
<1>1. Holds("EPC_LINK_BMAP", <<0, 0>>, 0 .. 52)'
  <2>1. "EPC_LINK_BMAP" \in Watched /\ "EPC_LINK_BMAP" \notin XmacRegs
    BY TheyAreWatched DEF WatchedRegs, PipeRegs, XmacRegs
  <2>2. LeavesValue("w", PhaseList(8, f), "EPC_LINK_BMAP", <<0, 0>>, 0 .. 52)
    BY PhaseListIs, PipelineLeaves
  <2> QED BY <2>1, <2>2, Locations, PhaseWrites DEF PassInv
<1>2. ASSUME NEW p \in Ports PROVE HoldsField("EGR_PORT", <<p, 0>>, "port_type", 0)'
  <2>1. "EGR_PORT" \in Watched /\ "EGR_PORT" \notin XmacRegs
    BY TheyAreWatched DEF WatchedRegs, PipeRegs, XmacRegs
  <2>2. PICK v : /\ v.port_type = 0 /\ "port_type" \in DOMAIN v
                 /\ LeavesValue("z", PhaseList(8, f), "EGR_PORT", <<p, 0>>, v)
    BY PhaseListIs, PipelineLeaves
  <2>3. HoldsField("EGR_PORT", <<p, 0>>, "port_type", v["port_type"])'
    BY <2>1, <2>2, Locations, PhaseWrites DEF PassInv
  <2> QED BY <2>2, <2>3
<1>3. ASSUME NEW p \in FrontPorts PROVE MacSet(p)'
  <2> DEFINE b == XlBlock(p)
  <2>1. b \in XlBlocks /\ BlockSet(b) BY DEF XlBlocks, PassInv, BlocksSet
  <2>2. CASE hits \cap BlockHit(p) # {}
    <3>1. hits \subseteq hits' BY DEF Access
    <3> QED BY <2>2, <3>1 DEF MacSet, BlockHit
  <2>3. CASE hits \cap BlockHit(p) = {}
    <3>1. <<"XGXS_CTRL", <<0, b>>>> \notin hits /\ <<"XMAC_CONTROL", <<0, b>>>> \notin hits
      BY <2>3 DEF BlockHit
    <3>2. XmacUp(mem, b) BY <2>1, <3>1, BlockUp
    <3>3. XlLoc(p)[2] = b BY DEF XlLoc
    <3>4. Spares(PhaseList(8, f), {"XGXS_CTRL", "XMAC_CONTROL"})
      <4>1. {"XGXS_CTRL", "XMAC_CONTROL"} \subseteq BlockRegs BY DEF BlockRegs
      <4> QED BY <4>1, SparesPhases, SparesLess
    <3>5. \A r \in XmacRegs : r \in Watched /\ XlLoc(p) \in DOMAIN ResetMem[r]
      BY TheyAreWatched, Locations DEF WatchedRegs
    <3>6. \A r \in XmacRegs : \A v :
            LeavesValue("w", PhaseList(8, f), r, XlLoc(p), v) => Holds(r, XlLoc(p), v)'
      BY <3>2, <3>3, <3>4, <3>5, PhaseWrites DEF PassInv
    <3>7. /\ LeavesValue("w", PhaseList(8, f), "XMAC_TX_CTRL", XlLoc(p), "c802")
          /\ LeavesValue("w", PhaseList(8, f), "XMAC_RX_CTRL", XlLoc(p), "404")
      BY PhaseListIs, PipelineLeaves
    <3> QED BY <3>6, <3>7 DEF MacSet, XmacRegs
  <2> QED BY <2>2, <2>3
<1> QED BY <1>1, <1>2, <1>3 DEF PipeSet

LEMMA VlansPhase ==
  ASSUME PassInv, Bus, phase = 8, NEW f, Access(PhaseList(9, f), f)
  PROVE  VlansSet'
<1>1. \A r \in {"STG_TAB", "VLAN_TAB", "EGR_VLAN", "UNKNOWN_UCAST_BLOCK_MASK"} :
        r \in Watched /\ r \notin XmacRegs
  BY TheyAreWatched DEF WatchedRegs, XmacRegs
<1>2. /\ LeavesValue("w", PhaseList(9, f), "STG_TAB", <<2, 0>>, 0 .. 52)
      /\ LeavesValue("w", PhaseList(9, f), "VLAN_TAB", <<1, 0>>, VlanRow)
      /\ LeavesValue("w", PhaseList(9, f), "EGR_VLAN", <<1, 0>>, EgrVlanRow)
      /\ \A p \in Ports : LeavesValue("w", PhaseList(9, f), "UNKNOWN_UCAST_BLOCK_MASK", <<p, 0>>, {})
  BY PhaseListIs, VlansLeave
<1>3. \A r \in {"STG_TAB", "VLAN_TAB", "EGR_VLAN", "UNKNOWN_UCAST_BLOCK_MASK"} :
        \A l \in DOMAIN ResetMem[r] : \A v : LeavesValue("w", PhaseList(9, f), r, l, v) => Holds(r, l, v)'
  BY <1>1, PhaseWrites DEF PassInv
<1>4. Holds("STG_TAB", <<2, 0>>, 0 .. 52)'
  <2>1. <<2, 0>> \in DOMAIN ResetMem["STG_TAB"] BY Locations
  <2> QED BY <1>2, <1>3, <2>1
<1>5. Holds("VLAN_TAB", <<1, 0>>, VlanRow)'
  <2>1. <<1, 0>> \in DOMAIN ResetMem["VLAN_TAB"] BY Locations
  <2> QED BY <1>2, <1>3, <2>1
<1>6. Holds("EGR_VLAN", <<1, 0>>, EgrVlanRow)'
  <2>1. <<1, 0>> \in DOMAIN ResetMem["EGR_VLAN"] BY Locations
  <2> QED BY <1>2, <1>3, <2>1
<1>7. \A p \in Ports : Holds("UNKNOWN_UCAST_BLOCK_MASK", <<p, 0>>, {})' BY <1>2, <1>3, Locations
<1> QED BY <1>4, <1>5, <1>6, <1>7 DEF VlansSet

LEMMA PhaseStep ==
  ASSUME PassInv, Bus, datapath_init_phase
  PROVE  PassInv'
<1>1. phase \in 0 .. 8 /\ phase' = phase + 1 /\ phase + 1 \in 1 .. 9
  BY DEF datapath_init_phase, PassInv, PhaseCount
<1>2. PICK f \in FaultSets(PhaseList(phase + 1, {})) : Access(PhaseList(phase + 1, f), f)
  BY DEF datapath_init_phase
<1> DEFINE list == PhaseList(phase + 1, f)
<1>3. List(list) BY <1>1, PhasesAreLists
<1>4. /\ Shape(mem') /\ hits \subseteq hits'
      /\ \A R, r : Spares(list, R) /\ r \in R \cap Watched => mem'[r] = mem[r]
  BY <1>2, <1>3, AccessKeeps DEF PassInv, Access
<1>5. Shape(mem)' BY <1>4 DEF Shape
<1>6. phase' >= 3 => TabsSet'
  <2>1. CASE phase = 2 BY <1>2, <2>1, TabsPhase
  <2>2. CASE phase >= 3
    <3>1. Spares(list, {"PORT_TAB"}) BY <1>1, <2>2, SparesPhases
    <3>2. mem'["PORT_TAB"] = mem["PORT_TAB"] BY <1>4, <3>1, TheyAreWatched DEF WatchedRegs
    <3> QED BY <1>4, <2>2, <3>2, PartsStay DEF PassInv
  <2> QED BY <1>1, <2>1, <2>2
<1>7. phase' >= 7 => BlocksSet'
  <2>1. CASE phase = 6 BY <1>2, <2>1, BlocksPhase
  <2>2. CASE phase >= 7
    <3>1. Spares(list, BlockRegs) BY <1>1, <2>2, SparesPhases
    <3>2. \A r \in BlockRegs : mem'[r] = mem[r] BY <1>4, <3>1, TheyAreWatched DEF WatchedRegs
    <3> QED BY <1>4, <2>2, <3>2, PartsStay DEF PassInv
  <2> QED BY <1>1, <2>1, <2>2
<1>8. phase' >= 8 => PipeSet'
  <2>1. CASE phase = 7 BY <1>2, <2>1, PipePhase
  <2>2. CASE phase >= 8
    <3>1. phase = 8 /\ Spares(list, PipeRegs) BY <1>1, <2>2, SparesPhases
    <3>2. \A r \in PipeRegs : mem'[r] = mem[r] BY <1>4, <3>1, TheyAreWatched DEF WatchedRegs
    <3> QED BY <1>4, <2>2, <3>2, PartsStay DEF PassInv
  <2> QED BY <1>1, <2>1, <2>2
<1>9. phase' >= 9 => VlansSet'
  <2>1. CASE phase = 8 BY <1>2, <2>1, VlansPhase
  <2> QED BY <1>1, <2>1
<1> QED BY <1>1, <1>5, <1>6, <1>7, <1>8, <1>9 DEF PassInv

\* A step that leaves the watched registers alone, or takes the pass back to
\* its beginning.
LEMMA PassStays ==
  ASSUME PassInv, Shape(mem)',
         \/ phase' = phase /\ hits \subseteq hits' /\ \A r \in Watched : mem'[r] = mem[r]
         \/ phase' = 0
  PROVE  PassInv'
<1>1. CASE phase' = 0 BY <1>1 DEF PassInv
<1>2. CASE phase' = phase /\ hits \subseteq hits' /\ \A r \in Watched : mem'[r] = mem[r]
  <2>1. \A r \in WatchedRegs : mem'[r] = mem[r] BY <1>2, TheyAreWatched
  <2>2. /\ mem'["PORT_TAB"] = mem["PORT_TAB"]
        /\ \A r \in BlockRegs : mem'[r] = mem[r]
        /\ \A r \in PipeRegs : mem'[r] = mem[r]
    BY <2>1 DEF WatchedRegs
  <2>3. /\ TabsSet => TabsSet'
        /\ BlocksSet => BlocksSet'
        /\ PipeSet => PipeSet'
        /\ VlansSet => VlansSet'
    BY <1>2, <2>1, <2>2, PartsStay
  <2> QED BY <1>2, <2>3 DEF PassInv
<1> QED BY <1>1, <1>2

-----------------------------------------------------------------------------
(* What that means for the ports                                           *)

LEMMA Blocks ==
  ASSUME NEW p \in FrontPorts
  PROVE  /\ p <= 48 <=> XlBlock(p) < 12
         /\ XlLane(p) \in IF XlBlock(p) < 12 THEN 0 .. 3 ELSE {0}
<1>1. CASE p \in 1 .. 48
  <2>1. XlBlock(p) = (p - 1) \div 4 BY <1>1 DEF XlBlock
  <2>2. (p - 1) \div 4 < 12 BY <1>1
  <2>3. (p - 1) % 4 \in 0 .. 3 BY <1>1
  <2>4. \A l \in 0 .. 3 : <<1, 0, 3, 2>>[l + 1] \in 0 .. 3 OBVIOUS
  <2>5. XlLane(p) \in 0 .. 3 BY <1>1, <2>3, <2>4 DEF XlLane
  <2> QED BY <1>1, <2>1, <2>2, <2>5
<1>2. CASE p \in 49 .. 52 BY <1>2 DEF XlBlock, XlLane
<1> QED BY <1>1, <1>2 DEF FrontPorts, XePorts, QPorts

LEMMA HeldValue ==
  ASSUME Shape(mem), NEW r \in Watched, NEW l \in DOMAIN ResetMem[r], <<r, l>> \notin hits
  PROVE  /\ \A v, reset : Holds(r, l, v) => Val(mem, r, l, reset) = v
         /\ \A x, v : HoldsField(r, l, x, v) => Field(mem, r, l, x) = v
         /\ \A x, v, reset : HoldsField(r, l, x, v) => Val(mem, r, l, reset)[x] = v
<1>1. l \in DOMAIN mem[r] BY DEF Shape
<1>2. \A v : <<v>> # <<>> /\ <<v>>[1] = v OBVIOUS
<1>3. \A v, reset : mem[r][l] = <<v>> => Val(mem, r, l, reset) = v BY <1>1, <1>2 DEF Val
<1> QED BY <1>3 DEF Holds, HoldsField, Field

LEMMA PortsReady == PassInv => FaultIsolated
<1> SUFFICES ASSUME PassInv, phase = 9, NEW p \in FrontPorts, hits \cap OwnAccesses(p) = {}
             PROVE  MacReady(p)
  BY DEF FaultIsolated, Passed, PhaseCount
<1> DEFINE b == XlBlock(p)
<1>1. b \in XlBlocks BY DEF XlBlocks
<1>2. /\ \A r \in BlockRegs : <<r, <<0, b>>>> \notin hits
      /\ \A r \in XmacRegs : <<r, XlLoc(p)>> \notin hits
  BY DEF OwnAccesses, BlockRegs
<1>3. /\ \A r \in BlockRegs : r \in Watched /\ <<0, b>> \in DOMAIN ResetMem[r]
      /\ \A r \in XmacRegs : r \in Watched /\ XlLoc(p) \in DOMAIN ResetMem[r]
  BY <1>1, Locations, TheyAreWatched DEF WatchedRegs
<1>4. /\ Holds("XGXS_CTRL", <<0, b>>, Up)
      /\ Holds("XLPORT_MODE", <<0, b>>, IF b < 12 THEN "4x10G" ELSE "1x40G")
      /\ Holds("XLPORT_PORT_ENABLE", <<0, b>>, IF b < 12 THEN 0 .. 3 ELSE {0})
      /\ Holds("XMAC_CONTROL", <<0, b>>, 0)
  <2>1. BlockSet(b) BY <1>1 DEF PassInv, BlocksSet
  <2> QED BY <1>2, <2>1 DEF BlockSet, BlockRegs
<1>5. Holds("XMAC_TX_CTRL", XlLoc(p), "c802") /\ Holds("XMAC_RX_CTRL", XlLoc(p), "404")
  <2>1. MacSet(p) BY DEF PassInv, PipeSet
  <2> QED BY <1>2, <2>1 DEF MacSet, BlockHit, BlockRegs
<1>6. \A reset :
        /\ Val(mem, "XGXS_CTRL", <<0, b>>, reset) = Up
        /\ Val(mem, "XLPORT_MODE", <<0, b>>, reset) = IF b < 12 THEN "4x10G" ELSE "1x40G"
        /\ Val(mem, "XLPORT_PORT_ENABLE", <<0, b>>, reset) = IF b < 12 THEN 0 .. 3 ELSE {0}
        /\ Val(mem, "XMAC_CONTROL", <<0, b>>, reset) = 0
  <2>1. \A r \in BlockRegs : \A v, reset : Holds(r, <<0, b>>, v) => Val(mem, r, <<0, b>>, reset) = v
    BY <1>2, <1>3, HeldValue DEF PassInv
  <2> QED BY <1>4, <2>1 DEF BlockRegs
<1>7. \A reset :
        /\ Val(mem, "XMAC_TX_CTRL", XlLoc(p), reset) = "c802"
        /\ Val(mem, "XMAC_RX_CTRL", XlLoc(p), reset) = "404"
  <2>1. \A r \in XmacRegs : \A v, reset : Holds(r, XlLoc(p), v) => Val(mem, r, XlLoc(p), reset) = v
    BY <1>2, <1>3, HeldValue DEF PassInv
  <2> QED BY <1>5, <2>1 DEF XmacRegs
<1>8. XmacUp(mem, b) BY <1>6 DEF XmacUp, Up
<1>9. {"TXD1G_RSTB", "TXD10G_RSTB"} \subseteq Up BY DEF Up
<1> QED BY <1>6, <1>7, <1>8, <1>9, Blocks DEF MacReady

LEMMA WaysOpen == PassInv => UntaggedReaches
<1> SUFFICES ASSUME PassInv, phase = 9, NEW p \in Ports, NEW q \in Ports, hits \cap WayOf(p, q) = {}
             PROVE  Reaches(p, q)
  BY DEF UntaggedReaches, Passed, PhaseCount
<1>1. p \in 0 .. 52 /\ q \in 0 .. 52 BY DatapathAssumption
<1>2. {"PORT_TAB", "EPC_LINK_BMAP", "EGR_PORT", "STG_TAB", "VLAN_TAB", "EGR_VLAN",
       "UNKNOWN_UCAST_BLOCK_MASK"} \subseteq Watched
  BY TheyAreWatched DEF WatchedRegs, PipeRegs
<1>3. Field(mem, "PORT_TAB", <<p, 0>>, "vid") = 1
  <2>1. HoldsField("PORT_TAB", <<p, 0>>, "vid", 1) /\ <<"PORT_TAB", <<p, 0>>>> \notin hits
    BY DEF PassInv, TabsSet, WayOf
  <2> QED BY <1>2, <2>1, Locations, HeldValue DEF PassInv
<1>4. Val(mem, "VLAN_TAB", <<1, 0>>, NoVlan) = VlanRow
  <2>1. Holds("VLAN_TAB", <<1, 0>>, VlanRow) /\ <<"VLAN_TAB", <<1, 0>>>> \notin hits
    BY DEF PassInv, VlansSet, WayOf
  <2> QED BY <1>2, <2>1, Locations, HeldValue DEF PassInv
<1>5. Val(mem, "EGR_VLAN", <<1, 0>>, NoVlan) = EgrVlanRow
  <2>1. Holds("EGR_VLAN", <<1, 0>>, EgrVlanRow) /\ <<"EGR_VLAN", <<1, 0>>>> \notin hits
    BY DEF PassInv, VlansSet, WayOf
  <2> QED BY <1>2, <2>1, Locations, HeldValue DEF PassInv
<1>6. Val(mem, "STG_TAB", <<2, 0>>, {}) = 0 .. 52
  <2>1. Holds("STG_TAB", <<2, 0>>, 0 .. 52) /\ <<"STG_TAB", <<2, 0>>>> \notin hits
    BY DEF PassInv, VlansSet, WayOf
  <2> QED BY <1>2, <2>1, Locations, HeldValue DEF PassInv
<1>7. Val(mem, "UNKNOWN_UCAST_BLOCK_MASK", <<p, 0>>, Ports) = {}
  <2>1. /\ Holds("UNKNOWN_UCAST_BLOCK_MASK", <<p, 0>>, {})
        /\ <<"UNKNOWN_UCAST_BLOCK_MASK", <<p, 0>>>> \notin hits
    BY DEF PassInv, VlansSet, WayOf
  <2> QED BY <1>2, <2>1, Locations, HeldValue DEF PassInv
<1>8. Val(mem, "EPC_LINK_BMAP", <<0, 0>>, {}) = 0 .. 52
  <2>1. Holds("EPC_LINK_BMAP", <<0, 0>>, 0 .. 52) /\ <<"EPC_LINK_BMAP", <<0, 0>>>> \notin hits
    BY DEF PassInv, PipeSet, WayOf
  <2> QED BY <1>2, <2>1, Locations, HeldValue DEF PassInv
<1>9. Val(mem, "EGR_PORT", <<q, 0>>, [port_type |-> 3]).port_type = 0
  <2>1. HoldsField("EGR_PORT", <<q, 0>>, "port_type", 0) /\ <<"EGR_PORT", <<q, 0>>>> \notin hits
    BY DEF PassInv, PipeSet, WayOf
  <2>2. Val(mem, "EGR_PORT", <<q, 0>>, [port_type |-> 3])["port_type"] = 0
    BY <1>2, <2>1, Locations, HeldValue DEF PassInv
  <2> QED BY <2>2
<1>10. /\ VlanRow.valid = 1 /\ VlanRow.stg = 2 /\ VlanRow.port = 0 .. 52 /\ VlanRow.ing = 0 .. 52
       /\ EgrVlanRow.valid = 1 /\ EgrVlanRow.stg = 2 /\ EgrVlanRow.port = 0 .. 52
       /\ EgrVlanRow.ut = 0 .. 52
  BY DEF VlanRow, EgrVlanRow
<1> QED BY <1>1, <1>3, <1>4, <1>5, <1>6, <1>7, <1>8, <1>9, <1>10 DEF Reaches

-----------------------------------------------------------------------------
(* The scripts                                                             *)

\* Every frame is of a script there is, and a script is run in some frame.
ScriptInv ==
  /\ files = <<>> \/ files \in FileSystems
  /\ frames \in Seq([file : DOMAIN files, line : Nat \ {0}])
  /\ pc = "script" => frames # <<>>

LEMMA ScriptStart == Init => ScriptInv
BY DEF Init, ScriptInv

LEMMA TopIs ==
  ASSUME ScriptInv, frames # <<>>
  PROVE  /\ Len(frames) \in Nat \ {0} /\ Top \in [file : DOMAIN files, line : Nat \ {0}]
         /\ Top.file \in DOMAIN files /\ Top.line \in Nat \ {0} /\ files \in FileSystems
         /\ Advance \in Seq([file : DOMAIN files, line : Nat \ {0}]) /\ Advance # <<>>
<1> DEFINE F == [file : DOMAIN files, line : Nat \ {0}]
<1>1. frames \in Seq(F) /\ Len(frames) \in Nat \ {0} BY DEF ScriptInv
<1>2. Top \in F
  <2> HIDE DEF F
  <2> QED BY <1>1 DEF Top
<1>3. Top.file \in DOMAIN files /\ Top.line \in Nat \ {0} BY <1>2
<1>4. files # <<>>
  <2>1. DOMAIN <<>> = {} OBVIOUS
  <2> QED BY <1>3, <2>1
<1>5. [Top EXCEPT !.line = @ + 1] \in F BY <1>2
<1>6. Advance = [frames EXCEPT ![Len(frames)] = [Top EXCEPT !.line = @ + 1]] BY <1>1 DEF Advance, Top
<1>7. Advance \in Seq(F) /\ Len(Advance) = Len(frames)
  <2>1. \A x \in F : /\ [frames EXCEPT ![Len(frames)] = x] \in Seq(F)
                     /\ Len([frames EXCEPT ![Len(frames)] = x]) = Len(frames)
    <3> HIDE DEF F
    <3> QED BY <1>1
  <2> QED BY <1>5, <1>6, <2>1
<1>8. Advance # <<>>
  <2>1. Len(<<>>) = 0 OBVIOUS
  <2> QED BY <1>1, <1>7, <2>1
<1> QED BY <1>1, <1>2, <1>3, <1>4, <1>7, <1>8 DEF ScriptInv

LEMMA ScriptStep == ScriptInv /\ [Next]_vars => ScriptInv'
<1> SUFFICES ASSUME ScriptInv, [Next]_vars PROVE ScriptInv' OBVIOUS
<1> DEFINE F == [file : DOMAIN files, line : Nat \ {0}]
<1>1. CASE UNCHANGED <<files, frames, pc>> BY <1>1 DEF ScriptInv
<1>2. CASE Probe \/ Acquire \/ Unwind \/ chip_reset \/ Unbind
  BY <1>1, <1>2 DEF Probe, Acquire, Unwind, chip_reset, Unbind, Release, userVars
<1>3. CASE Start BY <1>3 DEF Start, ScriptInv
<1>4. CASE Stop \/ KilledInPhase
  <2>1. files' = <<>> /\ frames' = <<>> /\ pc' = "down" BY <1>4 DEF Stop, KilledInPhase
  <2>2. <<>> \in Seq([file : DOMAIN files', line : Nat \ {0}]) OBVIOUS
  <2> QED BY <2>1, <2>2 DEF ScriptInv
<1>5. CASE chip_init
  <2>1. UNCHANGED <<files, frames>> /\ pc' # "script" BY <1>5 DEF chip_init, InitNext
  <2> QED BY <2>1 DEF ScriptInv
<1>6. CASE DatapathInit BY <1>6 DEF DatapathInit, ScriptInv
<1>7. CASE FirstScript
  <2>1. files = <<>> /\ UNCHANGED <<frames, pc>> /\ pc = "soc" /\ files' \in FileSystems
    BY <1>7 DEF FirstScript
  <2>2. frames = <<>>
    <3>1. DOMAIN <<>> = {} OBVIOUS
    <3>2. F = {} BY <2>1, <3>1
    <3>3. frames \in Seq({}) BY <3>2, Zenon DEF ScriptInv
    <3> QED BY <3>3
  <2>3. <<>> \in Seq([file : DOMAIN files', line : Nat \ {0}]) OBVIOUS
  <2> QED BY <2>1, <2>2, <2>3 DEF ScriptInv
<1>8. CASE soc_run
  <2>1. UNCHANGED files BY <1>8 DEF soc_run
  <2>2. CASE todo = <<>> BY <1>8, <2>1, <2>2 DEF soc_run, ScriptInv
  <2>3. CASE todo # <<>> /\ Head(todo) \in DOMAIN files
    <3>1. frames' = <<[file |-> Head(todo), line |-> 1]>> BY <1>8, <2>3 DEF soc_run
    <3>2. [file |-> Head(todo), line |-> 1] \in F BY <2>3
    <3>3. \A x \in F : <<x>> \in Seq(F) /\ <<x>> # <<>>
      <4> HIDE DEF F
      <4> QED OBVIOUS
    <3> QED BY <2>1, <3>1, <3>2, <3>3 DEF ScriptInv
  <2>4. CASE todo # <<>> /\ Head(todo) \notin DOMAIN files BY <1>1, <1>8, <2>1, <2>4 DEF soc_run
  <2> QED BY <2>2, <2>3, <2>4
<1>9. CASE soc_run_line
  <2>1. pc = "script" /\ UNCHANGED files BY <1>9 DEF soc_run_line
  <2>2. frames # <<>> BY <2>1 DEF ScriptInv
  <2>3. /\ Len(frames) \in Nat \ {0} /\ Advance \in Seq(F) /\ Advance # <<>>
        /\ frames \in Seq(F) /\ files \in FileSystems
    BY <2>2, TopIs DEF ScriptInv
  <2>4. CASE EndOfFile
    <3>1. frames' = SubSeq(frames, 1, Len(frames) - 1) BY <2>4 DEF EndOfFile, Front
    <3>2. frames' \in Seq(F) /\ Len(frames') = Len(frames) - 1
      <4>1. \A i \in 1 .. Len(frames) - 1 : frames[i] \in F
        <5> HIDE DEF F
        <5> QED BY <2>3
      <4>2. 1 \in Int /\ Len(frames) - 1 \in Int BY <2>3
      <4> HIDE DEF F
      <4>4. SubSeq(frames, 1, Len(frames) - 1) \in Seq(F) BY <4>1, <4>2, SubSeqProperties
      <4>5. Len(SubSeq(frames, 1, Len(frames) - 1))
              = IF 1 <= Len(frames) - 1 THEN Len(frames) - 1 - 1 + 1 ELSE 0
        BY <4>1, <4>2, SubSeqProperties
      <4>6. Len(SubSeq(frames, 1, Len(frames) - 1)) = Len(frames) - 1
        <5>1. PICK n \in Nat \ {0} : n = Len(frames) BY <2>3
        <5>2. (IF 1 <= n - 1 THEN n - 1 - 1 + 1 ELSE 0) = n - 1 OBVIOUS
        <5> QED BY <4>5, <5>1, <5>2
      <4> QED BY <3>1, <4>4, <4>6
    <3>3. pc' = "script" => frames' # <<>>
      <4>1. pc' = "script" => Len(frames) # 1 BY <2>4 DEF EndOfFile
      <4>2. Len(<<>>) = 0 OBVIOUS
      <4> QED BY <2>3, <3>2, <4>1, <4>2
    <3> QED BY <2>1, <2>3, <3>2, <3>3 DEF ScriptInv
  <2>5. CASE RcLoad
    <3>1. CASE frames' = Advance BY <2>1, <2>3, <3>1 DEF ScriptInv
    <3>2. CASE /\ Line.arg \in DOMAIN files
               /\ frames' = Append(Advance, [file |-> Line.arg, line |-> 1])
      <4>1. [file |-> Line.arg, line |-> 1] \in F BY <3>2
      <4>2. \A x \in F : Append(Advance, x) \in Seq(F) /\ Append(Advance, x) # <<>>
        <5> HIDE DEF F
        <5> QED BY <2>3
      <4> QED BY <2>1, <2>3, <3>2, <4>1, <4>2 DEF ScriptInv
    <3> QED BY <2>5, <3>1, <3>2 DEF RcLoad
  <2>6. CASE InitAll \/ SetReg \/ SetMisc \/ Ignored
    <3>1. frames' = Advance BY <2>6 DEF InitAll, SetReg, SetMisc, Ignored
    <3> QED BY <2>1, <2>3, <3>1 DEF ScriptInv
  <2> QED BY <1>9, <2>4, <2>5, <2>6 DEF soc_run_line
<1>10. CASE UNCHANGED vars BY <1>1, <1>10 DEF vars, chipVars
<1> QED BY <1>2, <1>3, <1>4, <1>5, <1>6, <1>7, <1>8, <1>9, <1>10 DEF Next, SwitchdStep

\* A setreg of a script reaches no register that the properties look at, so
\* that it cannot fail in a way that counts either.
LEMMA SetRegApart ==
  ASSUME ScriptInv, Shape(mem), pc = "script", ~(Top.line > Len(files[Top.file])),
         Line.op = "setreg", SetReg
  PROVE  hits' = hits /\ Shape(mem)' /\ \A r \in Watched : mem'[r] = mem[r]
<1> DEFINE list == W(Line.arg, Global, Line.val)
<1>1. frames # <<>> BY DEF ScriptInv
<1>2. Top.file \in DOMAIN files /\ Top.line \in Nat \ {0} /\ files \in FileSystems
  BY <1>1, TopIs
<1>3. Len(files[Top.file]) \in Nat BY <1>2, ScriptsAssumption
<1>4. Top.line \in 1 .. Len(files[Top.file]) BY <1>2, <1>3
<1>5. Line.arg \notin Watched BY <1>2, <1>4, ScriptsAssumption DEF Line
<1>6. List(list) /\ Spares(list, Watched) BY <1>5, ListStatements, SparesStatements
<1>7. PICK f \in FaultSets(list) : Access(list, f) BY DEF SetReg
<1>8. f = {}
  <2>1. list = <<Stmt("w", Line.arg, [l \in Global |-> Line.val])>> BY DEF W
  <2>2. DOMAIN list = {1} /\ list[1] = Stmt("w", Line.arg, [l \in Global |-> Line.val]) BY <2>1
  <2>3. list[1].reg = Line.arg BY <2>2 DEF Stmt
  <2>4. {k \in DOMAIN list : list[k].reg \in Watched} = {} BY <1>5, <2>2, <2>3
  <2> HIDE DEF list
  <2>5. Failures(list) = {} BY <2>4 DEF Failures
  <2> QED BY <1>7, <2>5, FaultSetsAre
<1>9. hits' = hits BY <1>7, <1>8 DEF Access
<1>10. Shape(mem') /\ \A r \in Watched : mem'[r] = mem[r] BY <1>6, <1>7, AccessKeeps DEF Access
<1> QED BY <1>9, <1>10 DEF Shape

-----------------------------------------------------------------------------
(* Every step of the driver and of switchd                                 *)

\* A pass runs only on a chip that answers.
PassOnBus == pc = "datapath" => Bus

LEMMA ReadyBus == AgentInv /\ ReadyInv => PassOnBus
BY DEF AgentInv, ReadyInv, PassOnBus, Bus, AllOut

LEMMA PassStart == Init => PassInv
<1> SUFFICES ASSUME Init PROVE PassInv OBVIOUS
<1>1. mem = ResetMem /\ phase = 0 BY DEF Init, DpInit
<1>2. Shape(ResetMem) BY DEF Shape, ResetMem
<1> QED BY <1>1, <1>2 DEF PassInv

\* What a step does to the memory, and to the record of what failed.
LEMMA MemorySteps ==
  ASSUME ScriptInv, PassInv, [Next]_vars
  PROVE  \/ phase' = phase /\ hits \subseteq hits' /\ Shape(mem)' /\ \A r \in Watched : mem'[r] = mem[r]
         \/ phase' = 0 /\ (mem' = mem \/ mem' = ResetMem)
         \/ phase' = 0 /\ phase \in 0 .. 8 /\ \E f : mem' = Execute(PhaseList(phase + 1, f), f)
         \/ DatapathInit
<1>1. CASE UNCHANGED <<mem, phase, hits>> BY <1>1 DEF PassInv, Shape
<1>2. CASE Probe \/ Acquire \/ Unwind
  BY <1>1, <1>2 DEF Probe, Acquire, Unwind, Release, dpVars
<1>3. CASE chip_reset BY <1>3 DEF chip_reset
<1>4. CASE Unbind BY <1>1, <1>4 DEF Unbind, Release, dpVars
<1>5. CASE Start \/ Stop \/ FirstScript \/ soc_run
  BY <1>1, <1>5 DEF Start, Stop, FirstScript, soc_run, dpVars
<1>6. CASE chip_init BY <1>6 DEF chip_init
<1>7. CASE soc_run_line
  <2>1. CASE EndOfFile \/ RcLoad \/ InitAll \/ SetMisc \/ Ignored
    BY <1>1, <2>1 DEF EndOfFile, RcLoad, InitAll, SetMisc, Ignored, dpVars
  <2>2. CASE pc = "script" /\ ~(Top.line > Len(files[Top.file])) /\ Line.op = "setreg" /\ SetReg
    <3>1. hits' = hits /\ Shape(mem)' /\ \A r \in Watched : mem'[r] = mem[r]
      BY <2>2, SetRegApart DEF PassInv
    <3>2. phase' = phase BY <2>2 DEF SetReg
    <3> QED BY <3>1, <3>2
  <2> QED BY <1>7, <2>1, <2>2 DEF soc_run_line
<1>8. CASE KilledInPhase
  <2>1. phase' = 0 /\ phase \in 0 .. 8
    BY <1>8 DEF KilledInPhase, datapath_init_cut, PassInv, PhaseCount
  <2>2. \E f : mem' = Execute(PhaseList(phase + 1, f), f)
    BY <1>8, Zenon DEF KilledInPhase, datapath_init_cut
  <2> QED BY <2>1, <2>2
<1>9. CASE UNCHANGED vars BY <1>1, <1>9 DEF vars, dpVars
<1> QED BY <1>2, <1>3, <1>4, <1>5, <1>6, <1>7, <1>8, <1>9 DEF Next, SwitchdStep

\* A phase that is cut short leaves a memory of the same shape.
LEMMA CutShape ==
  ASSUME PassInv, phase \in 0 .. 8, NEW f, mem' = Execute(PhaseList(phase + 1, f), f)
  PROVE  Shape(mem)'
<1>1. phase + 1 \in 1 .. 9 OBVIOUS
<1>2. List(PhaseList(phase + 1, f)) BY <1>1, PhasesAreLists
<1> QED BY <1>2, AccessKeeps DEF PassInv, Shape

LEMMA PassStep == AgentInv /\ ScriptInv /\ PassInv /\ PassOnBus /\ [Next]_vars => PassInv'
<1> SUFFICES ASSUME AgentInv, ScriptInv, PassInv, PassOnBus, [Next]_vars PROVE PassInv' OBVIOUS
<1>1. CASE phase' = phase /\ hits \subseteq hits' /\ Shape(mem)' /\ \A r \in Watched : mem'[r] = mem[r]
  BY <1>1, PassStays
<1>2. CASE phase' = 0 /\ (mem' = mem \/ mem' = ResetMem)
  <2>1. Shape(ResetMem) BY DEF Shape, ResetMem
  <2>2. Shape(mem)' BY <1>2, <2>1 DEF PassInv, Shape
  <2> QED BY <1>2, <2>2, PassStays
<1>3. CASE DatapathInit BY <1>3, PhaseStep DEF DatapathInit, PassOnBus
<1>4. CASE phase' = 0 /\ phase \in 0 .. 8 /\ \E f : mem' = Execute(PhaseList(phase + 1, f), f)
  BY <1>4, CutShape, PassStays
<1> QED BY <1>1, <1>2, <1>3, <1>4, MemorySteps

\* After every pass of bcm56846_datapath_init(), whatever an earlier pass left
\* behind, each front port has its WARPcore powered and its MAC set unless an
\* access to its own block or lane failed, and an untagged frame gets from any
\* port to any other unless a write of a table on that way was lost.
THEOREM FaultsAreLocal == Spec => []FaultsStayLocal
<1>1. PassInv => FaultsStayLocal BY PortsReady, WaysOpen DEF FaultsStayLocal
<1> QED
  BY <1>1, HeldStart, HeldStep, AgentStart, AgentStep, ScriptStart, ScriptStep,
     PassStart, ReadyStart, ReadyStep, ReadyBus, PassStep, PTL DEF Spec

-----------------------------------------------------------------------------
(* The packet buffer                                                       *)

\* None of the statements writes location l of register r.
SparesAt(a, r, l) ==
  List(a) /\ \A i \in 1 .. Len(a) : ~(a[i].reg = r /\ l \in DOMAIN a[i].val)

\* What a list stores in register r, pairs of a location and a value, is in Q.
Within(a, r, Q) ==
  /\ List(a)
  /\ \A i \in 1 .. Len(a) : a[i].reg = r =>
       a[i].kind = "w" /\ \A l \in DOMAIN a[i].val : <<l, a[i].val[l]>> \in Q

LEMMA SparesAtParts ==
  /\ \A a, b, r, l : SparesAt(a, r, l) /\ SparesAt(b, r, l) => SparesAt(a \o b, r, l)
  /\ \A a, R, r, l : Spares(a, R) /\ r \in R => SparesAt(a, r, l)
  /\ \A r, l, at, v : l \notin at => SparesAt(W(r, at, v), r, l)
<1>1. ASSUME NEW a, NEW b, NEW r, NEW l, SparesAt(a, r, l), SparesAt(b, r, l)
      PROVE  SparesAt(a \o b, r, l)
  <2>1. List(a) /\ List(b) BY <1>1 DEF SparesAt
  <2>2. ASSUME NEW i \in 1 .. Len(a \o b)
        PROVE  ~((a \o b)[i].reg = r /\ l \in DOMAIN (a \o b)[i].val)
    <3>1. CASE i \in 1 .. Len(a) BY <1>1, <2>1, <3>1, ListConcat DEF SparesAt
    <3>2. CASE i \in Len(a) + 1 .. Len(a) + Len(b)
      <4>1. i - Len(a) \in 1 .. Len(b) BY <2>1, <3>2, ListConcat
      <4> QED BY <1>1, <2>1, <3>2, <4>1, ListConcat DEF SparesAt
    <3> QED BY <2>1, <3>1, <3>2, ListConcat
  <2> QED BY <2>1, <2>2, ListConcat DEF SparesAt
<1>2. \A a, R, r, l : Spares(a, R) /\ r \in R => SparesAt(a, r, l) BY DEF Spares, SparesAt
<1>3. ASSUME NEW r, NEW l, NEW at, NEW v, l \notin at PROVE SparesAt(W(r, at, v), r, l)
  <2> DEFINE s == Stmt("w", r, [x \in at |-> v])
  <2>1. W(r, at, v) = <<s>> BY DEF W
  <2>2. Len(<<s>>) = 1 /\ <<s>>[1] = s OBVIOUS
  <2>3. DOMAIN s.val = at BY DEF Stmt
  <2>4. List(<<s>>) BY <2>1, ListStatements
  <2> HIDE DEF s
  <2> QED BY <1>3, <2>1, <2>2, <2>3, <2>4 DEF SparesAt
<1> QED BY <1>1, <1>2, <1>3

LEMMA LeavesBefore ==
  ASSUME NEW kind, NEW a, NEW b, NEW r, NEW l, NEW v,
         LeavesValue(kind, a, r, l, v), SparesAt(b, r, l)
  PROVE  LeavesValue(kind, a \o b, r, l, v)
<1>1. PICK s : s.kind = kind /\ s.val[l] = v /\ Leaves(a, r, l, s) BY DEF LeavesValue
<1>2. List(a) /\ List(b) BY <1>1 DEF Leaves, SparesAt
<1>3. PICK i \in 1 .. Len(a) : a[i] = s /\ \A j \in i + 1 .. Len(a) : ~(a[j].reg = r /\ l \in DOMAIN a[j].val)
  BY <1>1 DEF Leaves
<1>4. i \in 1 .. Len(a \o b) /\ (a \o b)[i] = s BY <1>2, <1>3, ListConcat
<1>5. ASSUME NEW j \in i + 1 .. Len(a \o b)
      PROVE  ~((a \o b)[j].reg = r /\ l \in DOMAIN (a \o b)[j].val)
  <2>1. CASE j \in 1 .. Len(a)
    <3>1. (a \o b)[j] = a[j] BY <1>2, <2>1, ListConcat
    <3>2. j \in i + 1 .. Len(a) BY <2>1
    <3> QED BY <1>3, <3>1, <3>2
  <2>2. CASE j \in Len(a) + 1 .. Len(a) + Len(b)
    <3>1. j - Len(a) \in 1 .. Len(b) /\ (a \o b)[j] = b[j - Len(a)] BY <1>2, <2>2, ListConcat
    <3> QED BY <3>1 DEF SparesAt
  <2> QED BY <1>2, <2>1, <2>2, ListConcat
<1>6. Leaves(a \o b, r, l, s) BY <1>1, <1>2, <1>4, <1>5, ListConcat DEF Leaves
<1> QED BY <1>1, <1>6 DEF LeavesValue

LEMMA WithinParts ==
  /\ \A a, b, r, Q : Within(a, r, Q) /\ Within(b, r, Q) => Within(a \o b, r, Q)
  /\ \A a, R, r, Q : Spares(a, R) /\ r \in R => Within(a, r, Q)
  /\ \A r, f, Q : (\A l \in DOMAIN f : <<l, f[l]>> \in Q) => Within(<<Stmt("w", r, f)>>, r, Q)
<1>1. ASSUME NEW a, NEW b, NEW r, NEW Q, Within(a, r, Q), Within(b, r, Q) PROVE Within(a \o b, r, Q)
  <2>1. List(a) /\ List(b) BY <1>1 DEF Within
  <2>2. ASSUME NEW i \in 1 .. Len(a \o b), (a \o b)[i].reg = r
        PROVE  /\ (a \o b)[i].kind = "w"
               /\ \A l \in DOMAIN (a \o b)[i].val : <<l, (a \o b)[i].val[l]>> \in Q
    <3>1. CASE i \in 1 .. Len(a)
      <4>1. (a \o b)[i] = a[i] BY <2>1, <3>1, ListConcat
      <4> QED BY <1>1, <2>2, <3>1, <4>1 DEF Within
    <3>2. CASE i \in Len(a) + 1 .. Len(a) + Len(b)
      <4>1. i - Len(a) \in 1 .. Len(b) /\ (a \o b)[i] = b[i - Len(a)] BY <2>1, <3>2, ListConcat
      <4> QED BY <1>1, <2>2, <4>1 DEF Within
    <3> QED BY <2>1, <3>1, <3>2, ListConcat
  <2> QED BY <2>1, <2>2, ListConcat DEF Within
<1>2. \A a, R, r, Q : Spares(a, R) /\ r \in R => Within(a, r, Q) BY DEF Spares, Within
<1>3. ASSUME NEW r, NEW f, NEW Q, \A l \in DOMAIN f : <<l, f[l]>> \in Q
      PROVE  Within(<<Stmt("w", r, f)>>, r, Q)
  <2> DEFINE s == Stmt("w", r, f)
  <2>1. Len(<<s>>) = 1 /\ <<s>>[1] = s OBVIOUS
  <2>2. s.kind = "w" /\ s.val = f BY DEF Stmt
  <2>3. <<s>> \in Seq({s}) OBVIOUS
  <2>4. List(<<s>>) BY <2>3, Zenon DEF List
  <2> HIDE DEF s
  <2>5. Within(<<s>>, r, Q) BY <1>3, <2>1, <2>2, <2>4 DEF Within
  <2> QED BY <2>5 DEF s
<1> QED BY <1>1, <1>2, <1>3

\* A location of register r has its reset value or a value of Q.
Keeps(m, r, Q) == \A l \in DOMAIN m[r] : m[r][l] = <<>> \/ \E v : m[r][l] = <<v>> /\ <<l, v>> \in Q

LEMMA AccessWithin ==
  ASSUME Shape(mem), NEW list, NEW f, mem' = Execute(list, f), NEW r \in Watched, NEW Q,
         Within(list, r, Q), Keeps(mem, r, Q)
  PROVE  Keeps(mem', r, Q)
<1>1. Len(list) \in Nat BY DEF Within, List
<1>2. PICK g : Run(g, list, f, Len(list)) /\ Execute(list, f) = g[Len(list)] BY <1>1, ExecuteRuns, Zenon
<1>3. mem' = g[Len(list)] /\ Len(list) \in 0 .. Len(list) BY <1>1, <1>2
<1>4. \A i \in 0 .. Len(list) : Shape(g[i]) BY <1>1, <1>2, RunEffect
<1>5. ASSUME NEW i \in 1 .. Len(list), Keeps(g[i - 1], r, Q) PROVE Keeps(g[i], r, Q)
  <2> DEFINE s == list[i]
             m == g[i - 1]
  <2>1. g[i] = Apply(m, s, f, i) /\ Shape(m) BY <1>2, <1>4 DEF Run
  <2>2. CASE s.reg # r
    <3>1. g[i][r] = m[r] BY <2>1, <2>2, ApplyEffect
    <3> QED BY <1>5, <3>1 DEF Keeps
  <2>3. CASE s.reg = r
    <3>1. s.kind = "w" /\ \A l \in DOMAIN s.val : <<l, s.val[l]>> \in Q BY <2>3 DEF Within
    <3> DEFINE unread(l) == Fails(f, i, l, {"unread"})
               took(l) == l \in DOMAIN s.val /\ ~Fails(f, i, l, {"lost"}) /\ Answers(m, s.reg, l)
    <3>2. g[i] = [m EXCEPT ![s.reg] = [l \in DOMAIN m[s.reg] |-> IF took(l) THEN <<Stored(m, s, l, unread(l))>> ELSE m[s.reg][l]]]
      BY <2>1, <2>3, Zenon DEF Apply
    <3>3. g[i][r] = [l \in DOMAIN m[r] |-> IF took(l) THEN <<Stored(m, s, l, unread(l))>> ELSE m[r][l]]
      BY <2>1, <2>3, <3>2 DEF Shape
    <3>4. \A l : Stored(m, s, l, unread(l)) = s.val[l] BY <3>1 DEF Stored
    <3>5. \A l : took(l) => l \in DOMAIN s.val OBVIOUS
    <3> HIDE DEF unread, took, s, m
    <3>6. ASSUME NEW l \in DOMAIN g[i][r]
          PROVE  g[i][r][l] = <<>> \/ \E v : g[i][r][l] = <<v>> /\ <<l, v>> \in Q
      <4>1. l \in DOMAIN m[r] /\ (g[i][r][l] = m[r][l] \/ (took(l) /\ g[i][r][l] = <<s.val[l]>>))
        BY <3>3, <3>4
      <4>2. CASE g[i][r][l] = m[r][l] BY <1>5, <4>1, <4>2 DEF Keeps, m
      <4>3. CASE took(l) /\ g[i][r][l] = <<s.val[l]>> BY <3>1, <3>5, <4>3
      <4> QED BY <4>1, <4>2, <4>3
    <3> QED BY <3>6 DEF Keeps
  <2> QED BY <2>2, <2>3
<1>6. \A i \in 0 .. Len(list) : Keeps(g[i], r, Q)
  <2> DEFINE T == {i \in 0 .. Len(list) : ~Keeps(g[i], r, Q)}
  <2> SUFFICES ASSUME T # {} PROVE FALSE OBVIOUS
  <2>1. T \in SUBSET Nat OBVIOUS
  <2>2. PICK i \in T : \A k \in T : i <= k
    <3> HIDE DEF T
    <3> QED BY <2>1, Least, Zenon
  <2>3. g[0] = mem BY <1>2 DEF Run
  <2>4. i \in 1 .. Len(list) /\ i - 1 \in 0 .. Len(list) BY <2>2, <2>3
  <2>5. i - 1 \notin T BY <2>2, <2>4
  <2> QED BY <1>5, <2>2, <2>4, <2>5
<1> QED BY <1>3, <1>6

-----------------------------------------------------------------------------
(* The tables of phases 1, 2, 4, 5 and 6                                   *)

CellRegs ==
  {"PG_MIN_CELL", "BUFFER_CELL_LIMIT_SP", "BUFFER_CELL_LIMIT_SP_SHARED", "GLOBAL_HDRM_LIMIT", "PORT_PG_SPID"}
GroupRegs == {"PORT_PRI_GRP0", "ING_PRI_CNG_MAP"}
QueueRegs == {"PORT_COS_MAP", "CPU_COS_MAP", "OP_QUEUE_CONFIG1_CELL", "OP_UC_PORT_CONFIG1_CELL"}
LimitRegs ==
  {"THDO_CONFIG", "THDO_QDRPRST", "OP_BUFFER_SHARED_LIMIT_CELL", "OP_BUFFER_SHARED_LIMIT_RESUME_CELL"}
NodeRegs == {"S2_S3_ROUTING", "S2_COSWEIGHTS"}

\* The registers that phase k, and no other, writes.
TablePhases == {1, 2, 4, 5, 6}
Own(k) ==
  CASE k = 1 -> CellRegs [] k = 2 -> GroupRegs [] k = 4 -> QueueRegs [] k = 5 -> LimitRegs [] k = 6 -> NodeRegs

LEMMA OwnWatched == \A k \in TablePhases : Own(k) \subseteq Watched \ XmacRegs
BY DEF TablePhases, Own, CellRegs, GroupRegs, QueueRegs, LimitRegs, NodeRegs, Watched, XmacRegs

LEMMA SparesOwn ==
  ASSUME NEW f, NEW k \in 1 .. 9, NEW j \in TablePhases, j # k
  PROVE  Spares(PhaseList(k, f), Own(j))
<1> DEFINE regs == CellRegs \cup GroupRegs \cup QueueRegs \cup LimitRegs \cup NodeRegs
<1>1. CASE k = 1
  <2> DEFINE R == GroupRegs \cup QueueRegs \cup LimitRegs \cup NodeRegs
  <2>1. ASSUME NEW pg, NEW cpu, NEW xe, NEW q PROVE Spares(PgMin(pg, cpu, xe, q), R)
    BY SparesStatements, SparesConcat DEF PgMin, GroupRegs, QueueRegs, LimitRegs, NodeRegs
  <2>2. Spares(init_ingress_buffers, R)
    <3>1. \A a, b : Spares(a, R) /\ Spares(b, R) => Spares(a \o b, R) BY SparesConcat
    <3> QED
      BY <2>1, <3>1, SparesStatements, SMTT(60)
      DEF init_ingress_buffers, GroupRegs, QueueRegs, LimitRegs, NodeRegs
  <2>3. Own(j) \subseteq R BY <1>1 DEF TablePhases, Own
  <2> QED BY <1>1, <2>2, <2>3, PhaseListIs, SparesLess
<1>2. CASE k = 2
  <2> DEFINE R == CellRegs \cup QueueRegs \cup LimitRegs \cup NodeRegs
  <2>1. Spares(init_priority_mapping, R)
    BY SparesStatements, SparesConcat, SMTT(60) DEF init_priority_mapping, CellRegs, QueueRegs, LimitRegs, NodeRegs
  <2>2. Own(j) \subseteq R BY <1>2 DEF TablePhases, Own
  <2> QED BY <1>2, <2>1, <2>2, PhaseListIs, SparesLess
<1>3. CASE k = 3
  <2>1. Spares(init_forwarding, regs)
    BY SparesStatements, SparesConcat, SMTT(60)
    DEF init_forwarding, CellRegs, GroupRegs, QueueRegs, LimitRegs, NodeRegs
  <2>2. Own(j) \subseteq regs BY DEF TablePhases, Own
  <2> QED BY <1>3, <2>1, <2>2, PhaseListIs, SparesLess
<1>4. CASE k = 4
  <2> DEFINE R == CellRegs \cup GroupRegs \cup LimitRegs \cup NodeRegs
  <2>1. Spares(EgressCos, R)
    BY SparesStatements, SparesConcat, SMTT(60) DEF EgressCos, CellRegs, GroupRegs, LimitRegs, NodeRegs
  <2>2. ASSUME NEW qi, NEW spid, NEW en, NEW min, NEW shared
        PROVE  Spares(CpuQueue(qi, spid, en, min, shared), R)
    <3>1. <<>> \in Seq({}) /\ Len(<<>>) = 0 OBVIOUS
    <3>2. Spares(<<>>, R) BY <3>1 DEF Spares, List
    <3> QED
      BY <3>2, SparesStatements, SparesConcat DEF CpuQueue, CellRegs, GroupRegs, LimitRegs, NodeRegs
  <2>3. Spares(EgressBuffers, R)
    <3>1. \A a, b : Spares(a, R) /\ Spares(b, R) => Spares(a \o b, R) BY SparesConcat
    <3> QED
      BY <2>2, <3>1, SparesStatements, SMTT(60)
      DEF EgressBuffers, CellRegs, GroupRegs, LimitRegs, NodeRegs
  <2>4. Spares(init_egress_config, R) BY <2>1, <2>3, SparesConcat DEF init_egress_config
  <2>5. Own(j) \subseteq R BY <1>4 DEF TablePhases, Own
  <2> QED BY <1>4, <2>4, <2>5, PhaseListIs, SparesLess
<1>5. CASE k = 5
  <2> DEFINE R == CellRegs \cup GroupRegs \cup QueueRegs \cup NodeRegs
  <2>1. Spares(init_thdo_tables, R)
    BY SparesStatements, SparesConcat, SMTT(60) DEF init_thdo_tables, CellRegs, GroupRegs, QueueRegs, NodeRegs
  <2>2. Own(j) \subseteq R BY <1>5 DEF TablePhases, Own
  <2> QED BY <1>5, <2>1, <2>2, PhaseListIs, SparesLess
<1>6. CASE k = 6
  <2> DEFINE R == CellRegs \cup GroupRegs \cup QueueRegs \cup LimitRegs
  <2>1. Spares(init_scheduling, R)
    BY SparesStatements, SparesConcat, SparesOne, SMTT(60)
    DEF init_scheduling, CellRegs, GroupRegs, QueueRegs, LimitRegs
  <2>2. Own(j) \subseteq R BY <1>6 DEF TablePhases, Own
  <2> QED BY <1>6, <2>1, <2>2, PhaseListIs, SparesLess
<1>7. CASE k \in {7, 8, 9}
  <2>1. \A skipped : Spares(init_xport_reset(skipped), regs)
    BY SparesStatements, SparesConcat, SparesOne, SMTT(60)
    DEF init_xport_reset, CellRegs, GroupRegs, QueueRegs, LimitRegs, NodeRegs
  <2>2. Spares(init_port_pipeline, regs)
    BY SparesStatements, SparesConcat, SMTT(60)
    DEF init_port_pipeline, CellRegs, GroupRegs, QueueRegs, LimitRegs, NodeRegs
  <2>3. Spares(init_vlan_forwarding, regs)
    BY SparesStatements, SparesConcat, SMTT(60)
    DEF init_vlan_forwarding, CellRegs, GroupRegs, QueueRegs, LimitRegs, NodeRegs
  <2>4. Spares(PhaseList(k, f), regs) BY <1>7, <2>1, <2>2, <2>3, PhaseListIs
  <2>5. Own(j) \subseteq regs BY DEF TablePhases, Own
  <2> QED BY <2>4, <2>5, SparesLess
<1> QED BY <1>1, <1>2, <1>3, <1>4, <1>5, <1>6, <1>7

\* What phase k was to write into its own tables is there, or the access that
\* was to write it has failed.
TablesSet(k) ==
  \A r \in Own(k) : \A l, v :
    /\ LeavesValue("w", PhaseList(k, {}), r, l, v) => Holds(r, l, v)
    /\ LeavesValue("m", PhaseList(k, {}), r, l, v) => \A x \in DOMAIN v : HoldsField(r, l, x, v[x])

TablesInv == \A k \in TablePhases : phase >= k => TablesSet(k)

LEMMA ModifyWrites ==
  ASSUME Shape(mem), Bus, NEW list, NEW f, Access(list, f),
         NEW r \in Watched \ XmacRegs, NEW l \in DOMAIN ResetMem[r], NEW v, NEW x \in DOMAIN v,
         LeavesValue("m", list, r, l, v)
  PROVE  HoldsField(r, l, x, v[x])'
<1>1. PICK s : s.kind = "m" /\ s.val[l] = v /\ Leaves(list, r, l, s) BY DEF LeavesValue
<1>2. <<r, l>> \in hits' \/ \E m : mem'[r][l] = <<Written(m, s, l)>> BY <1>1, AccessLeaves
<1>3. ASSUME NEW m PROVE \E old : Written(m, s, l) = Over(v, old) BY <1>1 DEF Written, Stored
<1>4. \A old : x \in DOMAIN Over(v, old) /\ Over(v, old)[x] = v[x] BY DEF Over
<1> QED BY <1>2, <1>3, <1>4 DEF HoldsField

LEMMA TablesPhase ==
  ASSUME PassInv, TablesInv, Bus, datapath_init_phase
  PROVE  TablesInv'
<1>1. phase \in 0 .. 8 /\ phase' = phase + 1 /\ phase + 1 \in 1 .. 9
  BY DEF datapath_init_phase, PassInv, PhaseCount
<1>2. PICK f \in FaultSets(PhaseList(phase + 1, {})) : Access(PhaseList(phase + 1, f), f)
  BY DEF datapath_init_phase
<1> DEFINE list == PhaseList(phase + 1, f)
<1>3. List(list) BY <1>1, PhasesAreLists
<1>4. /\ hits \subseteq hits'
      /\ \A R, r : Spares(list, R) /\ r \in R \cap Watched => mem'[r] = mem[r]
  BY <1>2, <1>3, AccessKeeps DEF PassInv, Access
<1> SUFFICES ASSUME NEW k \in TablePhases, phase' >= k PROVE TablesSet(k)' BY DEF TablesInv
<1>5. Own(k) \subseteq Watched \ XmacRegs BY OwnWatched
<1>6. CASE k = phase + 1
  <2>1. PhaseList(k, f) = PhaseList(k, {}) BY PhaseListIs DEF TablePhases
  <2> SUFFICES ASSUME NEW r \in Own(k), NEW l, NEW v
               PROVE  /\ LeavesValue("w", list, r, l, v) => Holds(r, l, v)'
                      /\ LeavesValue("m", list, r, l, v) => \A x \in DOMAIN v : HoldsField(r, l, x, v[x])'
    BY <1>6, <2>1 DEF TablesSet
  <2>2. \A kind : LeavesValue(kind, list, r, l, v) => l \in DOMAIN ResetMem[r]
    BY <1>1, <1>5, <1>6, <2>1, ResetHas DEF PhaseCount
  <2>3. LeavesValue("w", list, r, l, v) => Holds(r, l, v)' BY <1>2, <1>5, <2>2, PhaseWrites DEF PassInv
  <2>4. LeavesValue("m", list, r, l, v) => \A x \in DOMAIN v : HoldsField(r, l, x, v[x])'
    BY <1>2, <1>5, <2>2, ModifyWrites DEF PassInv
  <2> QED BY <2>3, <2>4
<1>7. CASE k # phase + 1
  <2>1. Spares(list, Own(k)) BY <1>1, <1>7, SparesOwn
  <2>2. \A r \in Own(k) : mem'[r] = mem[r] BY <1>4, <1>5, <2>1
  <2>3. TablesSet(k) BY <1>1, <1>7 DEF TablesInv, TablePhases
  <2>4. \A r \in Own(k) :
          /\ \A l, v : Holds(r, l, v) => Holds(r, l, v)'
          /\ \A l, x, v : HoldsField(r, l, x, v) => HoldsField(r, l, x, v)'
    BY <1>4, <2>2, HoldsStays
  <2> QED BY <2>3, <2>4 DEF TablesSet
<1> QED BY <1>6, <1>7

LEMMA TablesStay ==
  ASSUME TablesInv,
         \/ phase' = phase /\ hits \subseteq hits' /\ \A r \in Watched : mem'[r] = mem[r]
         \/ phase' = 0
  PROVE  TablesInv'
<1>1. CASE phase' = 0 BY <1>1 DEF TablesInv, TablePhases
<1>2. CASE phase' = phase /\ hits \subseteq hits' /\ \A r \in Watched : mem'[r] = mem[r]
  <2>1. ASSUME NEW k \in TablePhases, TablesSet(k) PROVE TablesSet(k)'
    <3>1. \A r \in Own(k) : mem'[r] = mem[r] BY <1>2, OwnWatched
    <3>2. \A r \in Own(k) :
            /\ \A l, v : Holds(r, l, v) => Holds(r, l, v)'
            /\ \A l, x, v : HoldsField(r, l, x, v) => HoldsField(r, l, x, v)'
      BY <1>2, <3>1, HoldsStays
    <3> QED BY <2>1, <3>2 DEF TablesSet
  <2> QED BY <1>2, <2>1 DEF TablesInv
<1> QED BY <1>1, <1>2

-----------------------------------------------------------------------------
(* The cells phase 1 gives away                                            *)

\* What the priority groups of port p are to have.
Groups == {0, 2, 7}
CellsFor(pg, p) ==
  CASE p = 0 -> 45
    [] p \in 1 .. 48  -> IF pg = 0 THEN 288 ELSE 1
    [] p \in 49 .. 52 -> IF pg = 0 THEN 1152 ELSE 4

\* All that is ever in the registers that share out the buffer.
CellRows ==
  {row \in ((0 .. 7) \X Ports) \X Nat :
     row[2] = 0 \/ (row[1][1] \in Groups /\ row[2] = CellsFor(row[1][1], row[1][2]))}
PoolRows == {<<<<0, 0>>, 0>>, <<<<1, 0>>, 1382>>, <<<<2, 0>>, 921>>, <<<<3, 0>>, 0>>}
SharedRows == {<<<<0, 0>>, 22742>>}
HeadroomRows == {<<<<0, 0>>, 2340>>}

CellsInv ==
  /\ Keeps(mem, "PG_MIN_CELL", CellRows)
  /\ Keeps(mem, "BUFFER_CELL_LIMIT_SP", PoolRows)
  /\ Keeps(mem, "BUFFER_CELL_LIMIT_SP_SHARED", SharedRows)
  /\ Keeps(mem, "GLOBAL_HDRM_LIMIT", HeadroomRows)

LEMMA WithinStatements ==
  /\ \A r, at, v, Q : (\A l \in at : <<l, v>> \in Q) => Within(W(r, at, v), r, Q)
  /\ \A r, s, at, v, Q : r # s => Within(W(s, at, v), r, Q)
  /\ \A r, s, i, v, Q : r # s => Within(PerPort(s, i, v), r, Q)
  /\ \A r, s, f, Q : r # s => Within(Table(s, f), r, Q)
  /\ \A r, f, Q : (\A i \in DOMAIN f : <<<<i, 0>>, f[i]>> \in Q) => Within(Table(r, f), r, Q)
<1>1. ASSUME NEW r, NEW at, NEW v, NEW Q, \A l \in at : <<l, v>> \in Q PROVE Within(W(r, at, v), r, Q)
  <2> DEFINE f == [l \in at |-> v]
  <2>1. \A l \in DOMAIN f : <<l, f[l]>> \in Q BY <1>1
  <2>2. W(r, at, v) = <<Stmt("w", r, f)>> BY DEF W
  <2> HIDE DEF f
  <2> QED BY <2>1, <2>2, WithinParts
<1>2. \A r, s, at, v, Q : r # s => Within(W(s, at, v), r, Q)
  <2>1. \A r, s, at, v : r # s => Spares(W(s, at, v), {r}) BY SparesStatements
  <2> QED BY <2>1, WithinParts
<1>3. \A r, s, i, v, Q : r # s => Within(PerPort(s, i, v), r, Q) BY <1>2, Zenon DEF PerPort
<1>4. \A r, s, f, Q : r # s => Within(Table(s, f), r, Q)
  <2>1. \A r, s, f : r # s => Spares(Table(s, f), {r}) BY SparesStatements
  <2> QED BY <2>1, WithinParts
<1>5. ASSUME NEW r, NEW f, NEW Q, \A i \in DOMAIN f : <<<<i, 0>>, f[i]>> \in Q
      PROVE  Within(Table(r, f), r, Q)
  <2> DEFINE g == [l \in At(DOMAIN f) |-> f[l[1]]]
  <2>1. \A l \in DOMAIN g : <<l, g[l]>> \in Q
    <3>1. \A l \in At(DOMAIN f) : l[1] \in DOMAIN f /\ l = <<l[1], 0>> BY DEF At
    <3> QED BY <1>5, <3>1
  <2>2. Table(r, f) = <<Stmt("w", r, g)>> BY DEF Table
  <2> HIDE DEF g
  <2> QED BY <2>1, <2>2, WithinParts
<1> QED BY <1>1, <1>2, <1>3, <1>4, <1>5

LEMMA CellsWithin ==
  /\ Within(init_ingress_buffers, "PG_MIN_CELL", CellRows)
  /\ Within(init_ingress_buffers, "BUFFER_CELL_LIMIT_SP", PoolRows)
  /\ Within(init_ingress_buffers, "BUFFER_CELL_LIMIT_SP_SHARED", SharedRows)
  /\ Within(init_ingress_buffers, "GLOBAL_HDRM_LIMIT", HeadroomRows)
<1>1. ASSUME NEW r, NEW Q, r # "PG_MIN_CELL"
      PROVE  \A pg, cpu, xe, q : Within(PgMin(pg, cpu, xe, q), r, Q)
  BY <1>1, WithinStatements, WithinParts DEF PgMin
<1>2. Within(init_ingress_buffers, "PG_MIN_CELL", CellRows)
  <2> DEFINE r == "PG_MIN_CELL"
  <2>1. ASSUME NEW pg \in Groups, NEW xe \in Nat, NEW q \in Nat,
               \A p \in XePorts : xe = CellsFor(pg, p), \A p \in QPorts : q = CellsFor(pg, p)
        PROVE  Within(PgMin(pg, 45, xe, q), r, CellRows)
    <3>1. /\ \A l \in {<<pg, 0>>} : <<l, 45>> \in CellRows
          /\ \A l \in {pg} \X XePorts : <<l, xe>> \in CellRows
          /\ \A l \in {pg} \X QPorts : <<l, q>> \in CellRows
      BY <2>1, DatapathAssumption DEF CellRows, CellsFor, Groups, XePorts, QPorts
    <3> QED BY <3>1, WithinStatements, WithinParts DEF PgMin
  <2>2. /\ Within(PgMin(0, 45, 288, 1152), r, CellRows)
        /\ Within(PgMin(2, 45, 1, 4), r, CellRows) /\ Within(PgMin(7, 45, 1, 4), r, CellRows)
    BY <2>1 DEF Groups, CellsFor, XePorts, QPorts
  <2>3. Within(W(r, {0, 1, 2, 7} \X Ports, 0), r, CellRows)
    <3>1. \A l \in {0, 1, 2, 7} \X Ports : <<l, 0>> \in CellRows BY DEF CellRows
    <3> QED BY <3>1, WithinStatements
  <2>4. \A a, b : Within(a, r, CellRows) /\ Within(b, r, CellRows) => Within(a \o b, r, CellRows)
    BY WithinParts
  <2>5. /\ \A s, at, v : r # s => Within(W(s, at, v), r, CellRows)
        /\ \A s, i, v : r # s => Within(PerPort(s, i, v), r, CellRows)
        /\ \A s, f : r # s => Within(Table(s, f), r, CellRows)
    BY WithinStatements
  <2> QED BY <2>2, <2>3, <2>4, <2>5, SMTT(60) DEF init_ingress_buffers
<1>3. ASSUME NEW r, NEW Q, r # "PG_MIN_CELL",
             r # "BUFFER_CELL_LIMIT_SP" \/ Within(Table("BUFFER_CELL_LIMIT_SP", [sp \in 0 .. 3 |-> <<0, 1382, 921, 0>>[sp + 1]]), r, Q),
             r # "BUFFER_CELL_LIMIT_SP_SHARED" \/ Within(W("BUFFER_CELL_LIMIT_SP_SHARED", Global, 22742), r, Q),
             r # "GLOBAL_HDRM_LIMIT" \/ Within(W("GLOBAL_HDRM_LIMIT", Global, 2340), r, Q),
             r \in CellRegs \ {"PORT_PG_SPID"}
      PROVE  Within(init_ingress_buffers, r, Q)
  <2>1. \A a, b : Within(a, r, Q) /\ Within(b, r, Q) => Within(a \o b, r, Q) BY WithinParts
  <2>2. /\ \A s, at, v : r # s => Within(W(s, at, v), r, Q)
        /\ \A s, i, v : r # s => Within(PerPort(s, i, v), r, Q)
        /\ \A s, f : r # s => Within(Table(s, f), r, Q)
    BY WithinStatements
  <2>3. \A pg, cpu, xe, q : Within(PgMin(pg, cpu, xe, q), r, Q) BY <1>1, <1>3
  <2> QED BY <1>3, <2>1, <2>2, <2>3, SMTT(60) DEF init_ingress_buffers, CellRegs
<1>4. Within(Table("BUFFER_CELL_LIMIT_SP", [sp \in 0 .. 3 |-> <<0, 1382, 921, 0>>[sp + 1]]),
             "BUFFER_CELL_LIMIT_SP", PoolRows)
  <2> DEFINE f == [sp \in 0 .. 3 |-> <<0, 1382, 921, 0>>[sp + 1]]
  <2>1. \A i \in DOMAIN f : <<<<i, 0>>, f[i]>> \in PoolRows
    <3>1. DOMAIN f = {0, 1, 2, 3} OBVIOUS
    <3>2. f[0] = 0 /\ f[1] = 1382 /\ f[2] = 921 /\ f[3] = 0 OBVIOUS
    <3> HIDE DEF f
    <3> QED BY <3>1, <3>2 DEF PoolRows
  <2> HIDE DEF f
  <2>2. Within(Table("BUFFER_CELL_LIMIT_SP", f), "BUFFER_CELL_LIMIT_SP", PoolRows)
    BY <2>1, WithinStatements
  <2> QED BY <2>2 DEF f
<1>5. Within(W("BUFFER_CELL_LIMIT_SP_SHARED", Global, 22742), "BUFFER_CELL_LIMIT_SP_SHARED", SharedRows)
  BY WithinStatements DEF Global, SharedRows
<1>6. Within(W("GLOBAL_HDRM_LIMIT", Global, 2340), "GLOBAL_HDRM_LIMIT", HeadroomRows)
  BY WithinStatements DEF Global, HeadroomRows
<1> QED BY <1>2, <1>3, <1>4, <1>5, <1>6 DEF CellRegs

-----------------------------------------------------------------------------
(* The invariants are kept                                                 *)

LEMMA TablesStep == ScriptInv /\ PassInv /\ PassOnBus /\ TablesInv /\ [Next]_vars => TablesInv'
<1> SUFFICES ASSUME ScriptInv, PassInv, PassOnBus, TablesInv, [Next]_vars PROVE TablesInv' OBVIOUS
<1>1. CASE DatapathInit BY <1>1, TablesPhase DEF DatapathInit, PassOnBus
<1> QED BY <1>1, MemorySteps, TablesStay

LEMMA RunsAPhase ==
  ASSUME PassInv, DatapathInit
  PROVE  phase \in 0 .. 8 /\ \E f : mem' = Execute(PhaseList(phase + 1, f), f)
<1>1. phase \in 0 .. 8 BY DEF DatapathInit, datapath_init_phase, PassInv, PhaseCount
<1>2. \E f : mem' = Execute(PhaseList(phase + 1, f), f)
  BY Zenon DEF DatapathInit, datapath_init_phase, Access
<1> QED BY <1>1, <1>2

LEMMA CellsStep == ScriptInv /\ PassInv /\ CellsInv /\ [Next]_vars => CellsInv'
<1> SUFFICES ASSUME ScriptInv, PassInv, CellsInv, [Next]_vars PROVE CellsInv' OBVIOUS
<1> DEFINE regs == CellRegs \ {"PORT_PG_SPID"}
<1>1. regs \subseteq Watched BY OwnWatched DEF TablePhases, Own
<1>2. CASE \A r \in regs : mem'[r] = mem[r] BY <1>2 DEF CellsInv, Keeps, CellRegs
<1>3. CASE mem' = ResetMem
  <2>1. \A r \in Watched : \A l \in DOMAIN ResetMem[r] : ResetMem[r][l] = <<>> BY DEF ResetMem
  <2>2. \A r \in regs : \A Q : Keeps(mem', r, Q) BY <1>1, <1>3, <2>1 DEF Keeps
  <2> QED BY <2>2 DEF CellsInv, CellRegs
<1>4. CASE phase \in 0 .. 8 /\ \E f : mem' = Execute(PhaseList(phase + 1, f), f)
  <2>1. phase \in 0 .. 8 /\ phase + 1 \in 1 .. 9 BY <1>4
  <2>2. PICK f : mem' = Execute(PhaseList(phase + 1, f), f) BY <1>4
  <2>3. CASE phase = 0
    <3>1. mem' = Execute(init_ingress_buffers, f) BY <2>2, <2>3, PhaseListIs
    <3> QED BY <1>1, <3>1, CellsWithin, AccessWithin DEF PassInv, CellsInv, CellRegs
  <2>4. CASE phase # 0
    <3>1. Spares(PhaseList(phase + 1, f), CellRegs) BY <2>1, <2>4, SparesOwn DEF TablePhases, Own
    <3>2. List(PhaseList(phase + 1, f)) BY <3>1 DEF Spares
    <3>3. \A r \in CellRegs \cap Watched : mem'[r] = mem[r]
      BY <2>2, <3>1, <3>2, AccessKeeps DEF PassInv
    <3> QED BY <1>1, <1>2, <3>3
  <2> QED BY <2>3, <2>4
<1> QED BY <1>1, <1>2, <1>3, <1>4, MemorySteps, RunsAPhase

LEMMA CellsStart == Init => TablesInv /\ CellsInv
<1> SUFFICES ASSUME Init PROVE TablesInv /\ CellsInv OBVIOUS
<1>1. mem = ResetMem /\ phase = 0 BY DEF Init, DpInit
<1>2. TablesInv BY <1>1 DEF TablesInv, TablePhases
<1>3. \A r \in Watched : \A l \in DOMAIN ResetMem[r] : ResetMem[r][l] = <<>> BY DEF ResetMem
<1>4. \A r \in Watched : \A Q : Keeps(mem, r, Q) BY <1>1, <1>3 DEF Keeps
<1>5. CellRegs \subseteq Watched BY OwnWatched DEF TablePhases, Own
<1> QED BY <1>2, <1>4, <1>5 DEF CellsInv, CellRegs

-----------------------------------------------------------------------------
(* What phase 1 gives away                                                 *)

\* How a value written in the middle of a list is followed to its end.
LEMMA LeavesRules ==
  ASSUME NEW kind, NEW r, NEW l, NEW v
  PROVE  /\ \A a, b : List(a) /\ LeavesValue(kind, b, r, l, v) => LeavesValue(kind, a \o b, r, l, v)
         /\ \A a, b : LeavesValue(kind, a, r, l, v) /\ SparesAt(b, r, l) => LeavesValue(kind, a \o b, r, l, v)
         /\ \A a, b : SparesAt(a, r, l) /\ SparesAt(b, r, l) => SparesAt(a \o b, r, l)
BY ValueConcat, LeavesBefore, SparesAtParts

LEMMA SparesAtStatements ==
  ASSUME NEW r, NEW l
  PROVE  /\ \A s, at, v : s # r => SparesAt(W(s, at, v), r, l)
         /\ \A s, at, v : s # r => SparesAt(M(s, at, v), r, l)
         /\ \A s, i, v : s # r => SparesAt(PerPort(s, i, v), r, l)
         /\ \A s, f : s # r => SparesAt(Table(s, f), r, l)
         /\ \A at, v : l \notin at => SparesAt(W(r, at, v), r, l)
         /\ \A at, v : l \notin at => SparesAt(M(r, at, v), r, l)
<1>1. \A s : s # r => r \in {r} /\ s \notin {r} OBVIOUS
<1>2. \A a : Spares(a, {r}) => SparesAt(a, r, l) BY DEF Spares, SparesAt
<1>3. \A s, at, v : s # r => SparesAt(W(s, at, v), r, l) /\ SparesAt(M(s, at, v), r, l)
  BY <1>1, <1>2, SparesStatements
<1>4. \A s, i, v : s # r => SparesAt(PerPort(s, i, v), r, l) BY <1>1, <1>2, SparesStatements
<1>5. \A s, f : s # r => SparesAt(Table(s, f), r, l) BY <1>1, <1>2, SparesStatements
<1>6. \A at, v : l \notin at => SparesAt(W(r, at, v), r, l) BY SparesAtParts
<1>7. ASSUME NEW at, NEW v, l \notin at PROVE SparesAt(M(r, at, v), r, l)
  <2> DEFINE s == Stmt("m", r, [x \in at |-> v])
  <2>1. M(r, at, v) = <<s>> BY DEF M
  <2>2. Len(<<s>>) = 1 /\ <<s>>[1] = s OBVIOUS
  <2>3. DOMAIN s.val = at BY DEF Stmt
  <2>4. List(<<s>>) BY <2>1, ListStatements
  <2> HIDE DEF s
  <2> QED BY <1>7, <2>1, <2>2, <2>3, <2>4 DEF SparesAt
<1> QED BY <1>3, <1>4, <1>5, <1>6, <1>7

LEMMA PgMinLeaves ==
  ASSUME NEW pg, NEW p \in Ports, NEW cells, NEW xe, NEW q, NEW v,
         v = IF p = 0 THEN cells ELSE IF p <= 48 THEN xe ELSE q
  PROVE  LeavesValue("w", PgMin(pg, cells, xe, q), "PG_MIN_CELL", <<pg, p>>, v)
<1> DEFINE r == "PG_MIN_CELL"
           l == <<pg, p>>
           cpu == W(r, {<<pg, 0>>}, cells)
           xes == W(r, {pg} \X XePorts, xe)
           qs  == W(r, {pg} \X QPorts, q)
<1>1. PgMin(pg, cells, xe, q) = cpu \o xes \o qs BY DEF PgMin
<1>2. p = 0 \/ p \in XePorts \/ p \in QPorts BY DatapathAssumption DEF XePorts, QPorts
<1>3. List(cpu) /\ List(xes) BY ListStatements
<1>4. CASE p = 0
  <2>1. LeavesValue("w", cpu, r, l, v) BY <1>4, ValueStatements
  <2>2. l \notin {pg} \X XePorts /\ l \notin {pg} \X QPorts BY <1>4 DEF XePorts, QPorts
  <2>3. SparesAt(xes, r, l) /\ SparesAt(qs, r, l) BY <2>2, SparesAtStatements
  <2> QED BY <1>1, <2>1, <2>3, LeavesBefore
<1>5. CASE p \in XePorts
  <2>1. l \in {pg} \X XePorts /\ l \notin {pg} \X QPorts /\ v = xe BY <1>5 DEF XePorts, QPorts
  <2>2. LeavesValue("w", xes, r, l, v) BY <2>1, ValueStatements
  <2>3. SparesAt(qs, r, l) BY <2>1, SparesAtStatements
  <2> QED BY <1>1, <1>3, <2>2, <2>3, LeavesBefore, ValueConcat
<1>6. CASE p \in QPorts
  <2>1. l \in {pg} \X QPorts /\ v = q BY <1>6 DEF QPorts
  <2>2. LeavesValue("w", qs, r, l, v) BY <2>1, ValueStatements
  <2> QED BY <1>1, <1>3, <2>2, ListJoin, ValueConcat
<1> QED BY <1>2, <1>4, <1>5, <1>6

LEMMA PgMinSpares ==
  /\ \A pg, cpu, xe, q : List(PgMin(pg, cpu, xe, q))
  /\ \A g, p, pg, cpu, xe, q : g # pg => SparesAt(PgMin(g, cpu, xe, q), "PG_MIN_CELL", <<pg, p>>)
  /\ \A r, l, pg, cpu, xe, q : r # "PG_MIN_CELL" => SparesAt(PgMin(pg, cpu, xe, q), r, l)
<1>1. \A pg, cpu, xe, q : List(PgMin(pg, cpu, xe, q)) BY ListStatements, ListJoin DEF PgMin
<1>2. ASSUME NEW g, NEW p, NEW pg, NEW cpu, NEW xe, NEW q, g # pg
      PROVE  SparesAt(PgMin(g, cpu, xe, q), "PG_MIN_CELL", <<pg, p>>)
  <2>1. /\ <<pg, p>> \notin {<<g, 0>>} /\ <<pg, p>> \notin {g} \X XePorts
        /\ <<pg, p>> \notin {g} \X QPorts
    BY <1>2
  <2>2. /\ SparesAt(W("PG_MIN_CELL", {<<g, 0>>}, cpu), "PG_MIN_CELL", <<pg, p>>)
        /\ SparesAt(W("PG_MIN_CELL", {g} \X XePorts, xe), "PG_MIN_CELL", <<pg, p>>)
        /\ SparesAt(W("PG_MIN_CELL", {g} \X QPorts, q), "PG_MIN_CELL", <<pg, p>>)
    BY <2>1, SparesAtStatements
  <2> QED BY <2>2, SparesAtParts DEF PgMin
<1>3. \A r, l, pg, cpu, xe, q : r # "PG_MIN_CELL" => SparesAt(PgMin(pg, cpu, xe, q), r, l)
  BY SparesAtStatements, SparesAtParts DEF PgMin
<1> QED BY <1>1, <1>2, <1>3

LEMMA WrittenValues ==
  /\ \A r, f, i : i \in DOMAIN f => LeavesValue("w", Table(r, f), r, <<i, 0>>, f[i])
  /\ \A r, i, v, p : p \in Ports => LeavesValue("w", PerPort(r, i, v), r, <<i, p>>, v)
  /\ \A r, at, l, v : l \in at => LeavesValue("m", M(r, at, v), r, l, v)
<1>1. ASSUME NEW r, NEW f, NEW i \in DOMAIN f PROVE LeavesValue("w", Table(r, f), r, <<i, 0>>, f[i])
  <2> DEFINE g == [l \in At(DOMAIN f) |-> f[l[1]]]
  <2>1. <<i, 0>> \in DOMAIN g /\ g[<<i, 0>>] = f[i] BY DEF At
  <2>2. Table(r, f) = <<Stmt("w", r, g)>> BY DEF Table
  <2> HIDE DEF g
  <2>3. LeavesValue("w", Table(r, f), r, <<i, 0>>, g[<<i, 0>>]) BY <2>1, <2>2, ValueStatements
  <2> QED BY <2>1, <2>3
<1>2. ASSUME NEW r, NEW i, NEW v, NEW p \in Ports PROVE LeavesValue("w", PerPort(r, i, v), r, <<i, p>>, v)
  <2>1. <<i, p>> \in {i} \X Ports OBVIOUS
  <2> QED BY <2>1, ValueStatements DEF PerPort
<1>3. ASSUME NEW r, NEW at, NEW l \in at, NEW v PROVE LeavesValue("m", M(r, at, v), r, l, v)
  <2> DEFINE g == [x \in at |-> v]
  <2>1. l \in DOMAIN g /\ g[l] = v OBVIOUS
  <2>2. M(r, at, v) = <<Stmt("m", r, g)>> BY DEF M
  <2> HIDE DEF g
  <2>3. LeavesValue("m", M(r, at, v), r, l, g[l]) BY <2>1, <2>2, ValueStatements
  <2> QED BY <2>1, <2>3
<1> QED BY <1>1, <1>2, <1>3

\* The service pool of a priority group.
PoolOf == [pg \in 0 .. 7 |-> CASE pg = 2 -> 2 [] pg = 7 -> 1 [] OTHER -> 0]

LEMMA CellsLeave ==
  /\ \A pg \in Groups, p \in Ports :
       LeavesValue("w", init_ingress_buffers, "PG_MIN_CELL", <<pg, p>>, CellsFor(pg, p))
  /\ LeavesValue("w", init_ingress_buffers, "BUFFER_CELL_LIMIT_SP", <<1, 0>>, 1382)
  /\ LeavesValue("w", init_ingress_buffers, "BUFFER_CELL_LIMIT_SP", <<2, 0>>, 921)
  /\ LeavesValue("w", init_ingress_buffers, "BUFFER_CELL_LIMIT_SP_SHARED", <<0, 0>>, 22742)
  /\ LeavesValue("w", init_ingress_buffers, "GLOBAL_HDRM_LIMIT", <<0, 0>>, 2340)
  /\ \A p \in Ports : LeavesValue("w", init_ingress_buffers, "PORT_PG_SPID", <<0, p>>, PoolOf)
<1> DEFINE first == W("COLOR_AWARE", Global, 0) \o PerPort("PORT_PG_SPID", 0, PoolOf)
           limits == [sp \in 0 .. 3 |-> <<0, 1382, 921, 0>>[sp + 1]]
           pools == Table("BUFFER_CELL_LIMIT_SP", limits)
           resets == Table("CELL_RESET_LIMIT_OFFSET_SP", [sp \in 0 .. 3 |-> <<0, 100, 100, 0>>[sp + 1]])
           shared == W("BUFFER_CELL_LIMIT_SP_SHARED", Global, 22742)
           enable == PerPort("PORT_SHARED_MAX_PG_ENABLE", 0, 0)
           max == PerPort("PORT_MAX_SHARED_CELL", 0, 0)
           pgs == PerPort("PORT_MIN_PG_ENABLE", 0, 0)
           min == PerPort("PORT_MIN_CELL", 0, 0)
           none == W("PG_MIN_CELL", {0, 1, 2, 7} \X Ports, 0)
           hdrm == W("PG_HDRM_LIMIT_CELL", {0, 7} \X Ports, 0)
           pg0 == PgMin(0, 45, 288, 1152)
           lim0 == PerPort("PG_SHARED_LIMIT_CELL", 0, 4548)
           pg2 == PgMin(2, 45, 1, 4)
           lim2 == PerPort("PG_SHARED_LIMIT_CELL", 2, 909)
           pg7 == PgMin(7, 45, 1, 4)
           lim7 == PerPort("PG_SHARED_LIMIT_CELL", 7, 10006)
           use == W("USE_SP_SHARED", Global, 7)
           head == W("GLOBAL_HDRM_LIMIT", Global, 2340)
           size == PerPort("PORT_MAX_PKT_SIZE", 0, 45)
           Ends(a, r, l, v) == LeavesValue("w", a, r, l, v)
<1>1. init_ingress_buffers =
        first \o pools \o resets \o shared \o enable \o max \o pgs \o min \o none \o hdrm \o
        pg0 \o lim0 \o pg2 \o lim2 \o pg7 \o lim7 \o use \o head \o size
  BY DEF init_ingress_buffers, PoolOf
<1>2. /\ List(first) /\ List(pools) /\ List(resets) /\ List(shared) /\ List(enable) /\ List(max)
      /\ List(pgs) /\ List(min) /\ List(none) /\ List(hdrm)
      /\ List(pg0) /\ List(lim0) /\ List(pg2) /\ List(lim2) /\ List(pg7) /\ List(lim7)
      /\ List(use) /\ List(head) /\ List(size)
  BY ListStatements, ListJoin, PgMinSpares
<1>3. ASSUME NEW r \in CellRegs, NEW l
      PROVE  /\ SparesAt(resets, r, l) /\ SparesAt(enable, r, l) /\ SparesAt(max, r, l)
             /\ SparesAt(pgs, r, l) /\ SparesAt(min, r, l) /\ SparesAt(hdrm, r, l)
             /\ SparesAt(lim0, r, l) /\ SparesAt(lim2, r, l) /\ SparesAt(lim7, r, l)
             /\ SparesAt(use, r, l) /\ SparesAt(size, r, l)
  BY SparesAtStatements DEF CellRegs
<1>4. ASSUME NEW r \in CellRegs, NEW l
      PROVE  /\ r # "BUFFER_CELL_LIMIT_SP_SHARED" => SparesAt(shared, r, l)
             /\ r # "GLOBAL_HDRM_LIMIT" => SparesAt(head, r, l)
             /\ r # "BUFFER_CELL_LIMIT_SP" => SparesAt(pools, r, l)
             /\ r # "PG_MIN_CELL" =>
                  SparesAt(none, r, l) /\ SparesAt(pg0, r, l) /\ SparesAt(pg2, r, l) /\ SparesAt(pg7, r, l)
  <2>1. r # "BUFFER_CELL_LIMIT_SP" => SparesAt(pools, r, l)
    <3> HIDE DEF limits
    <3> QED BY SparesAtStatements
  <2>2. r # "PG_MIN_CELL" =>
          SparesAt(none, r, l) /\ SparesAt(pg0, r, l) /\ SparesAt(pg2, r, l) /\ SparesAt(pg7, r, l)
    BY SparesAtStatements, PgMinSpares
  <2>3. \A s, at, v : s # r => SparesAt(W(s, at, v), r, l) BY SparesAtStatements
  <2>4. r # "BUFFER_CELL_LIMIT_SP_SHARED" => SparesAt(shared, r, l) BY <2>3
  <2>5. r # "GLOBAL_HDRM_LIMIT" => SparesAt(head, r, l) BY <2>3
  <2> QED BY <2>1, <2>2, <2>4, <2>5
<1>5. ASSUME NEW p \in Ports
      PROVE  /\ Ends(pg0, "PG_MIN_CELL", <<0, p>>, CellsFor(0, p))
             /\ Ends(pg2, "PG_MIN_CELL", <<2, p>>, CellsFor(2, p))
             /\ Ends(pg7, "PG_MIN_CELL", <<7, p>>, CellsFor(7, p))
  <2>1. p \in 0 .. 52 BY DatapathAssumption
  <2> QED BY <2>1, PgMinLeaves DEF CellsFor
<1>6. ASSUME NEW p
      PROVE  /\ SparesAt(pg2, "PG_MIN_CELL", <<0, p>>) /\ SparesAt(pg7, "PG_MIN_CELL", <<0, p>>)
             /\ SparesAt(pg7, "PG_MIN_CELL", <<2, p>>)
  BY PgMinSpares
<1>7. /\ Ends(pools, "BUFFER_CELL_LIMIT_SP", <<1, 0>>, 1382) /\ Ends(pools, "BUFFER_CELL_LIMIT_SP", <<2, 0>>, 921)
      /\ Ends(shared, "BUFFER_CELL_LIMIT_SP_SHARED", <<0, 0>>, 22742)
      /\ Ends(head, "GLOBAL_HDRM_LIMIT", <<0, 0>>, 2340)
  <2> DEFINE f == [l \in At(DOMAIN limits) |-> limits[l[1]]]
  <2>1. /\ <<1, 0>> \in DOMAIN f /\ f[<<1, 0>>] = 1382
        /\ <<2, 0>> \in DOMAIN f /\ f[<<2, 0>>] = 921
    BY DEF At
  <2>2. pools = <<Stmt("w", "BUFFER_CELL_LIMIT_SP", f)>> BY DEF Table
  <2>3. Ends(pools, "BUFFER_CELL_LIMIT_SP", <<1, 0>>, f[<<1, 0>>]) /\ Ends(pools, "BUFFER_CELL_LIMIT_SP", <<2, 0>>, f[<<2, 0>>])
    BY <2>1, <2>2, ValueStatements
  <2>4. <<0, 0>> \in Global BY DEF Global
  <2> QED BY <2>1, <2>3, <2>4, ValueStatements
<1>8. \A p \in Ports : Ends(first, "PORT_PG_SPID", <<0, p>>, PoolOf)
  BY WrittenValues, ListStatements, ValueConcat
<1>9. "PG_MIN_CELL" \in CellRegs /\ "BUFFER_CELL_LIMIT_SP" \in CellRegs
      /\ "BUFFER_CELL_LIMIT_SP_SHARED" \in CellRegs /\ "GLOBAL_HDRM_LIMIT" \in CellRegs
  BY DEF CellRegs
<1> HIDE DEF first, pools, resets, shared, enable, max, pgs, min, none, hdrm, pg0, lim0, pg2, lim2, pg7, lim7, use, head, size
<1>10. ASSUME NEW p \in Ports
      PROVE  /\ Ends(init_ingress_buffers, "PG_MIN_CELL", <<0, p>>, CellsFor(0, p))
             /\ Ends(init_ingress_buffers, "PG_MIN_CELL", <<2, p>>, CellsFor(2, p))
             /\ Ends(init_ingress_buffers, "PG_MIN_CELL", <<7, p>>, CellsFor(7, p))
  BY <1>1, <1>2, <1>3, <1>4, <1>5, <1>6, <1>9, ListJoin, LeavesRules
<1>11. ASSUME NEW r \in CellRegs, r # "PG_MIN_CELL", NEW l, NEW v
       PROVE  /\ r = "BUFFER_CELL_LIMIT_SP" /\ Ends(pools, r, l, v) => Ends(init_ingress_buffers, r, l, v)
              /\ r = "BUFFER_CELL_LIMIT_SP_SHARED" /\ Ends(shared, r, l, v) => Ends(init_ingress_buffers, r, l, v)
              /\ r = "GLOBAL_HDRM_LIMIT" /\ Ends(head, r, l, v) => Ends(init_ingress_buffers, r, l, v)
              /\ r = "PORT_PG_SPID" /\ Ends(first, r, l, v) => Ends(init_ingress_buffers, r, l, v)
  <2>1. /\ SparesAt(none, r, l) /\ SparesAt(pg0, r, l) /\ SparesAt(pg2, r, l) /\ SparesAt(pg7, r, l)
        /\ SparesAt(resets, r, l) /\ SparesAt(enable, r, l) /\ SparesAt(max, r, l)
        /\ SparesAt(pgs, r, l) /\ SparesAt(min, r, l) /\ SparesAt(hdrm, r, l)
        /\ SparesAt(lim0, r, l) /\ SparesAt(lim2, r, l) /\ SparesAt(lim7, r, l)
        /\ SparesAt(use, r, l) /\ SparesAt(size, r, l)
    BY <1>3, <1>4, <1>11
  <2>2. /\ r = "BUFFER_CELL_LIMIT_SP" => SparesAt(shared, r, l) /\ SparesAt(head, r, l)
        /\ r = "BUFFER_CELL_LIMIT_SP_SHARED" => SparesAt(head, r, l)
        /\ r = "PORT_PG_SPID" => SparesAt(pools, r, l) /\ SparesAt(shared, r, l) /\ SparesAt(head, r, l)
    BY <1>4
  <2>3. /\ \A a, b : List(a) /\ Ends(b, r, l, v) => Ends(a \o b, r, l, v)
        /\ \A a, b : Ends(a, r, l, v) /\ SparesAt(b, r, l) => Ends(a \o b, r, l, v)
    BY LeavesRules
  <2> HIDE DEF Ends
  <2>4. r = "BUFFER_CELL_LIMIT_SP" /\ Ends(pools, r, l, v) => Ends(init_ingress_buffers, r, l, v)
    BY <1>1, <1>2, <2>1, <2>2, <2>3
  <2>5. r = "BUFFER_CELL_LIMIT_SP_SHARED" /\ Ends(shared, r, l, v) => Ends(init_ingress_buffers, r, l, v)
    BY <1>1, <1>2, <2>1, <2>2, <2>3, ListJoin
  <2>6. r = "GLOBAL_HDRM_LIMIT" /\ Ends(head, r, l, v) => Ends(init_ingress_buffers, r, l, v)
    BY <1>1, <1>2, <2>1, <2>3, ListJoin
  <2>7. r = "PORT_PG_SPID" /\ Ends(first, r, l, v) => Ends(init_ingress_buffers, r, l, v)
    BY <1>1, <1>2, <2>1, <2>2, <2>3
  <2> QED BY <2>4, <2>5, <2>6, <2>7
<1>12. /\ Ends(init_ingress_buffers, "BUFFER_CELL_LIMIT_SP", <<1, 0>>, 1382)
       /\ Ends(init_ingress_buffers, "BUFFER_CELL_LIMIT_SP", <<2, 0>>, 921)
       /\ Ends(init_ingress_buffers, "BUFFER_CELL_LIMIT_SP_SHARED", <<0, 0>>, 22742)
       /\ Ends(init_ingress_buffers, "GLOBAL_HDRM_LIMIT", <<0, 0>>, 2340)
  <2> HIDE DEF Ends
  <2> QED BY <1>7, <1>9, <1>11
<1>13. ASSUME NEW pg \in Groups, NEW p \in Ports
       PROVE  Ends(init_ingress_buffers, "PG_MIN_CELL", <<pg, p>>, CellsFor(pg, p))
  <2>1. pg = 0 \/ pg = 2 \/ pg = 7 BY DEF Groups
  <2> HIDE DEF Ends
  <2> QED BY <1>10, <2>1
<1>14. ASSUME NEW p \in Ports PROVE Ends(init_ingress_buffers, "PORT_PG_SPID", <<0, p>>, PoolOf)
  <2>1. Ends(first, "PORT_PG_SPID", <<0, p>>, PoolOf) BY <1>8
  <2>2. "PORT_PG_SPID" \in CellRegs BY DEF CellRegs
  <2> HIDE DEF Ends
  <2> QED BY <1>11, <2>1, <2>2
<1> QED BY <1>12, <1>13, <1>14

-----------------------------------------------------------------------------
(* Every cell of the buffer is given away once                             *)

\* A value of a register that keeps to Q.
LEMMA KeptValue ==
  ASSUME NEW r, NEW Q, Keeps(mem, r, Q), NEW l, NEW reset
  PROVE  Val(mem, r, l, reset) = reset \/ <<l, Val(mem, r, l, reset)>> \in Q
<1>1. \A v : <<v>> # <<>> /\ <<v>>[1] = v OBVIOUS
<1>2. CASE l \notin DOMAIN mem[r] \/ mem[r][l] = <<>> BY <1>2 DEF Val
<1>3. CASE l \in DOMAIN mem[r] /\ mem[r][l] # <<>>
  <2>1. PICK v : mem[r][l] = <<v>> /\ <<l, v>> \in Q BY <1>3 DEF Keeps
  <2>2. Val(mem, r, l, reset) = v BY <1>1, <1>3, <2>1 DEF Val
  <2> QED BY <2>1, <2>2
<1> QED BY <1>2, <1>3

LEMMA MaxIs ==
  ASSUME NEW S, NEW n \in S, NEW b \in Nat, S \subseteq 0 .. b
  PROVE  Max(S) \in 0 .. b /\ \A x \in S : x <= Max(S)
<1> DEFINE T == {k \in Nat : \E x \in S : k = b - x}
<1>1. S \subseteq Int /\ n \in 0 .. b OBVIOUS
<1>2. b - n \in T BY <1>1
<1>3. PICK k \in T : \A j \in T : k <= j
  <2>1. T \in SUBSET Nat /\ T # {} BY <1>2
  <2> HIDE DEF T
  <2> QED BY <2>1, Least, Zenon
<1>4. PICK m \in S : k = b - m BY <1>3
<1>5. \A x \in S : m >= x
  <2> SUFFICES ASSUME NEW x \in S PROVE m >= x OBVIOUS
  <2>1. x \in 0 .. b /\ m \in 0 .. b OBVIOUS
  <2>2. b - x \in T BY <2>1
  <2>3. b - m <= b - x BY <1>3, <1>4, <2>2
  <2> QED BY <2>1, <2>3
<1>6. Max(S) \in S /\ \A x \in S : Max(S) >= x BY <1>5, Zenon DEF Max
<1>7. \A x \in S : x \in 0 .. b OBVIOUS
<1> QED BY <1>6, <1>7

\* What the priority groups of one port can take, and what they do take when
\* nothing was lost.
LEMMA PortCells ==
  ASSUME CellsInv, NEW p \in Ports
  PROVE  /\ PgCells(p) \in 0 .. CellsFor(0, p) + CellsFor(2, p) + CellsFor(7, p)
         /\ (\A pg \in Groups : Val(mem, "PG_MIN_CELL", <<pg, p>>, 0) = CellsFor(pg, p)) =>
              PgCells(p) = CellsFor(0, p) + CellsFor(2, p) + CellsFor(7, p)
<1> DEFINE cells(pg) == Val(mem, "PG_MIN_CELL", <<pg, p>>, 0)
<1>1. p \in 0 .. 52 BY DatapathAssumption
<1>2. \A pg \in Groups : CellsFor(pg, p) \in Nat BY <1>1 DEF CellsFor, Groups
<1>3. ASSUME NEW pg \in 0 .. 7
      PROVE  cells(pg) = 0 \/ (pg \in Groups /\ cells(pg) = CellsFor(pg, p))
  <2>1. cells(pg) = 0 \/ <<<<pg, p>>, cells(pg)>> \in CellRows BY KeptValue DEF CellsInv
  <2> HIDE DEF cells
  <2> QED BY <2>1 DEF CellRows
<1>4. PgCells(p) = cells(0) + cells(1) + cells(2) + cells(3) + cells(4) + cells(5) + cells(6) + cells(7)
  BY DEF PgCells
<1> HIDE DEF cells
<1>5. /\ cells(1) = 0 /\ cells(3) = 0 /\ cells(4) = 0 /\ cells(5) = 0 /\ cells(6) = 0
      /\ cells(0) \in {0, CellsFor(0, p)} /\ cells(2) \in {0, CellsFor(2, p)}
      /\ cells(7) \in {0, CellsFor(7, p)}
  BY <1>3 DEF Groups
<1>6. CellsFor(0, p) \in Nat /\ CellsFor(2, p) \in Nat /\ CellsFor(7, p) \in Nat BY <1>2 DEF Groups
<1>7. PgCells(p) \in 0 .. CellsFor(0, p) + CellsFor(2, p) + CellsFor(7, p) BY <1>4, <1>5, <1>6
<1>8. ASSUME \A pg \in Groups : cells(pg) = CellsFor(pg, p)
      PROVE  PgCells(p) = CellsFor(0, p) + CellsFor(2, p) + CellsFor(7, p)
  BY <1>4, <1>5, <1>6, <1>8 DEF Groups
<1> QED BY <1>7, <1>8 DEF cells

LEMMA WorstIs ==
  ASSUME NEW ps, NEW p \in ps, NEW b \in Nat, \A q \in ps : PgCells(q) \in 0 .. b
  PROVE  Worst(ps) \in 0 .. b /\ \A q \in ps : PgCells(q) <= Worst(ps)
<1> DEFINE S == {PgCells(q) : q \in ps}
<1>1. PgCells(p) \in S /\ S \subseteq 0 .. b /\ \A q \in ps : PgCells(q) \in S OBVIOUS
<1>2. Worst(ps) = Max(S) BY DEF Worst
<1> HIDE DEF S
<1> QED BY <1>1, <1>2, MaxIs, Zenon

LEMMA NeverOverCommitted == CellsInv => Reserved <= TotalCells
<1> SUFFICES ASSUME CellsInv PROVE Reserved <= TotalCells OBVIOUS
<1>1. PgCells(0) \in 0 .. 135 BY DatapathAssumption, PortCells DEF CellsFor
<1>2. Worst(XePorts) \in 0 .. 290
  <2>1. \A p \in XePorts : PgCells(p) \in 0 .. 290 BY PortCells DEF CellsFor, XePorts
  <2>2. PICK p : p \in XePorts BY DatapathAssumption DEF XePorts
  <2>3. \E b : b \in Nat /\ b = 290
    <3>1. 290 \in Nat OBVIOUS
    <3> QED BY <3>1
  <2>4. PICK b : b \in Nat /\ b = 290 BY <2>3
  <2>5. \A q \in XePorts : PgCells(q) \in 0 .. b BY <2>1, <2>4
  <2>6. b \in Nat BY <2>4
  <2>7. Worst(XePorts) \in 0 .. b BY <2>2, <2>5, <2>6, WorstIs, Zenon
  <2> QED BY <2>4, <2>7
<1>3. Worst(QPorts) \in 0 .. 1160
  <2>1. \A p \in QPorts : PgCells(p) \in 0 .. 1160 BY PortCells DEF CellsFor, QPorts
  <2>2. PICK p : p \in QPorts BY DatapathAssumption DEF QPorts
  <2>3. \E b : b \in Nat /\ b = 1160
    <3>1. 1160 \in Nat OBVIOUS
    <3> QED BY <3>1
  <2>4. PICK b : b \in Nat /\ b = 1160 BY <2>3
  <2>5. \A q \in QPorts : PgCells(q) \in 0 .. b BY <2>1, <2>4
  <2>6. b \in Nat BY <2>4
  <2>7. Worst(QPorts) \in 0 .. b BY <2>2, <2>5, <2>6, WorstIs, Zenon
  <2> QED BY <2>4, <2>7
<1> DEFINE shared == Val(mem, "BUFFER_CELL_LIMIT_SP_SHARED", <<0, 0>>, 0)
           one == Val(mem, "BUFFER_CELL_LIMIT_SP", <<1, 0>>, 0)
           two == Val(mem, "BUFFER_CELL_LIMIT_SP", <<2, 0>>, 0)
           head == Val(mem, "GLOBAL_HDRM_LIMIT", <<0, 0>>, 0)
<1>4. shared \in {0, 22742} /\ one \in {0, 1382} /\ two \in {0, 921} /\ head \in {0, 2340}
  <2>1. shared = 0 \/ <<<<0, 0>>, shared>> \in SharedRows BY KeptValue DEF CellsInv
  <2>2. one = 0 \/ <<<<1, 0>>, one>> \in PoolRows BY KeptValue DEF CellsInv
  <2>3. two = 0 \/ <<<<2, 0>>, two>> \in PoolRows BY KeptValue DEF CellsInv
  <2>4. head = 0 \/ <<<<0, 0>>, head>> \in HeadroomRows BY KeptValue DEF CellsInv
  <2> HIDE DEF shared, one, two, head
  <2> QED BY <2>1, <2>2, <2>3, <2>4 DEF SharedRows, PoolRows, HeadroomRows
<1>5. Reserved = PgCells(0) + 48 * Worst(XePorts) + 4 * Worst(QPorts) + shared + one + two + head
  BY DEF Reserved
<1> HIDE DEF shared, one, two, head
<1> DEFINE cpu == PgCells(0)
           xe  == Worst(XePorts)
           q   == Worst(QPorts)
<1>6. cpu \in 0 .. 135 /\ xe \in 0 .. 290 /\ q \in 0 .. 1160 BY <1>1, <1>2, <1>3
<1>7. shared \in 0 .. 22742 /\ one \in 0 .. 1382 /\ two \in 0 .. 921 /\ head \in 0 .. 2340 BY <1>4
<1>8. cpu + 48 * xe + 4 * q + shared + one + two + head <= 46080
  <2> HIDE DEF cpu, xe, q
  <2> QED BY <1>6, <1>7
<1> QED BY <1>5, <1>8 DEF TotalCells

LEMMA AllGivenAway == PassInv /\ TablesInv /\ CellsInv /\ Clean => Reserved = TotalCells
<1> SUFFICES ASSUME PassInv, TablesInv, CellsInv, Clean PROVE Reserved = TotalCells OBVIOUS
<1>1. hits = {} /\ TablesSet(1) BY DEF Clean, Passed, PhaseCount, TablesInv, TablePhases
<1>2. ASSUME NEW r \in CellRegs, NEW l, NEW v, LeavesValue("w", init_ingress_buffers, r, l, v)
      PROVE  Val(mem, r, l, 0) = v
  <2>1. r \in Watched BY OwnWatched DEF TablePhases, Own
  <2>2. l \in DOMAIN ResetMem[r] BY <1>2, <2>1, PhaseListIs, ResetHas DEF PhaseCount
  <2>3. Holds(r, l, v) BY <1>1, <1>2, PhaseListIs DEF TablesSet, Own
  <2> QED BY <1>1, <2>1, <2>2, <2>3, HeldValue DEF PassInv
<1>3. ASSUME NEW p \in Ports
      PROVE  PgCells(p) = CellsFor(0, p) + CellsFor(2, p) + CellsFor(7, p)
  <2>1. \A pg \in Groups : Val(mem, "PG_MIN_CELL", <<pg, p>>, 0) = CellsFor(pg, p)
    BY <1>2, CellsLeave DEF CellRegs
  <2> QED BY <2>1, PortCells
<1>4. PgCells(0) = 135 BY <1>3, DatapathAssumption DEF CellsFor
<1>5. Worst(XePorts) = 290
  <2>1. \A p \in XePorts : PgCells(p) = 290 BY <1>3 DEF CellsFor, XePorts
  <2>2. PICK p : p \in XePorts BY DatapathAssumption DEF XePorts
  <2>3. Worst(XePorts) \in 0 .. 290 /\ 290 <= Worst(XePorts) BY <2>1, <2>2, WorstIs
  <2> QED BY <2>3
<1>6. Worst(QPorts) = 1160
  <2>1. \A p \in QPorts : PgCells(p) = 1160 BY <1>3 DEF CellsFor, QPorts
  <2>2. PICK p : p \in QPorts BY DatapathAssumption DEF QPorts
  <2>3. Worst(QPorts) \in 0 .. 1160 /\ 1160 <= Worst(QPorts) BY <2>1, <2>2, WorstIs
  <2> QED BY <2>3
<1>7. /\ Val(mem, "BUFFER_CELL_LIMIT_SP_SHARED", <<0, 0>>, 0) = 22742
      /\ Val(mem, "BUFFER_CELL_LIMIT_SP", <<1, 0>>, 0) = 1382
      /\ Val(mem, "BUFFER_CELL_LIMIT_SP", <<2, 0>>, 0) = 921
      /\ Val(mem, "GLOBAL_HDRM_LIMIT", <<0, 0>>, 0) = 2340
  BY <1>2, CellsLeave DEF CellRegs
<1> QED BY <1>4, <1>5, <1>6, <1>7 DEF Reserved, TotalCells

\* At no point is more of the packet buffer promised to ports, service pools
\* and headroom than there is, whatever a pass of init_ingress_buffers() lost
\* and wherever it was cut short, and after a pass without a failure every
\* cell has been given away, with any sample of the ports.
THEOREM BufferIsExact == Spec => []BufferExact
<1>1. PassInv /\ TablesInv /\ CellsInv => BufferExact BY NeverOverCommitted, AllGivenAway DEF BufferExact
<1> QED
  BY <1>1, HeldStart, HeldStep, AgentStart, AgentStep, ScriptStart, ScriptStep,
     PassStart, ReadyStart, ReadyStep, ReadyBus, PassStep, CellsStart, TablesStep, CellsStep, PTL DEF Spec

-----------------------------------------------------------------------------
(* From priority to pool to queue to scheduling node                       *)

\* The priority an entry of ING_PRI_CNG_MAP stands for, and its group.
PriorityOf == [i \in 0 .. 15 |-> <<0, 1, 2, 4, 4, 5, 6, 7>>[i \div 2 + 1]]
GroupOf == [pri \in 0 .. 7 |-> IF pri \in {2, 7} THEN pri ELSE 0]

LEMMA GroupsLeave ==
  /\ \A i \in 0 .. 15 :
       LeavesValue("w", init_priority_mapping, "ING_PRI_CNG_MAP", <<i, 0>>, PriorityOf[i])
  /\ \A p \in Ports : LeavesValue("w", init_priority_mapping, "PORT_PRI_GRP0", <<0, p>>, GroupOf)
<1> DEFINE first == M("EGR_VLAN_CONTROL_1", Global, [remark_outer_dot1p |-> 0])
                    \o W("ING_UNTAGGED_PHB", At({0, 63}), 0) \o W("ING_PRI_CNG_MAP", At({0, 14, 1023}), 0)
           map == Table("ING_PRI_CNG_MAP", PriorityOf)
           grp0 == PerPort("PORT_PRI_GRP0", 0, GroupOf)
           grp1 == PerPort("PORT_PRI_GRP1", 0, 0)
           xon == PerPort("PORT_PRI_XON_ENABLE", 0, 0)
           llfc == W("PRIO2COS_LLFC0", Global, 0)
           pfc == M("XMAC_PFC_CTRL", For(Ports), [tx_pfc_en |-> 0, rx_pfc_en |-> 0, pfc_stats_en |-> 0])
           port == M("XLPORT_CONFIG", Global, [llfc_en |-> 0, xpause_rx_en |-> 1, xpause_tx_en |-> 0, pfc_enable |-> 0])
<1>1. init_priority_mapping = first \o map \o grp0 \o grp1 \o xon \o llfc \o pfc \o port
  BY DEF init_priority_mapping, PriorityOf, GroupOf
<1>2. List(first) /\ List(map) BY ListStatements, ListJoin
<1>3. ASSUME NEW r \in GroupRegs, NEW l
      PROVE  /\ SparesAt(grp1, r, l) /\ SparesAt(xon, r, l) /\ SparesAt(llfc, r, l)
             /\ SparesAt(pfc, r, l) /\ SparesAt(port, r, l)
             /\ r # "PORT_PRI_GRP0" => SparesAt(grp0, r, l)
  BY SparesAtStatements DEF GroupRegs
<1>4. \A i \in 0 .. 15 : LeavesValue("w", map, "ING_PRI_CNG_MAP", <<i, 0>>, PriorityOf[i])
  <2>1. DOMAIN PriorityOf = 0 .. 15 BY DEF PriorityOf
  <2> QED BY <2>1, WrittenValues
<1>5. \A p \in Ports : LeavesValue("w", grp0, "PORT_PRI_GRP0", <<0, p>>, GroupOf) BY WrittenValues
<1>6. "PORT_PRI_GRP0" \in GroupRegs /\ "ING_PRI_CNG_MAP" \in GroupRegs BY DEF GroupRegs
<1> HIDE DEF first, map, grp0, grp1, xon, llfc, pfc, port
<1>7. ASSUME NEW i \in 0 .. 15
      PROVE  LeavesValue("w", init_priority_mapping, "ING_PRI_CNG_MAP", <<i, 0>>, PriorityOf[i])
  BY <1>1, <1>2, <1>3, <1>4, <1>6, LeavesRules
<1>8. ASSUME NEW p \in Ports
      PROVE  LeavesValue("w", init_priority_mapping, "PORT_PRI_GRP0", <<0, p>>, GroupOf)
  BY <1>1, <1>2, <1>3, <1>5, <1>6, ListJoin, LeavesRules
<1> QED BY <1>7, <1>8

\* The classes of service of a priority, the one an entry of CPU_COS_MAP gives,
\* and the pools of the queues.
CosOf == [i \in (0 .. 7) \ {3} |-> [uc |-> i, hg |-> i, mc |-> CASE i = 2 -> 2 [] i = 7 -> 1 [] OTHER -> 0]]
CpuCosOf == [i \in 120 .. 127 |-> LET pri == <<7, 6, 5, 4, 4, 2, 1, 0>>[i - 119] IN [key |-> pri, cos |-> pri]]
UcPoolOf == [c \in 0 .. 7 |-> CASE c = 2 -> 2 [] c = 7 -> 1 [] OTHER -> 0]
CpuQueues == (0 .. 7) \cup 32 .. 34
CpuQueueOf(q) == [spid |-> CASE q = 2 -> 2 [] q = 7 -> 1 [] OTHER -> 0, en |-> IF q \in {2, 7} THEN 0 ELSE 1]

LEMMA CosLeave ==
  /\ \A i \in (0 .. 7) \ {3} : LeavesValue("w", EgressCos, "PORT_COS_MAP", <<i, 0>>, CosOf[i])
  /\ \A i \in 120 .. 127 : LeavesValue("w", EgressCos, "CPU_COS_MAP", <<i, 0>>, CpuCosOf[i])
<1> DEFINE first == W("ING_COS_MODE", Global, 0) \o W("COS_MODE", At({0, 1}), 0) \o W("COS_MAP_SEL", At(Ports), 0)
                    \o W("PORT_COS_MAP", At((0 .. 7) \cup {63}), [uc |-> 0, hg |-> 0, mc |-> 0])
           cos == Table("PORT_COS_MAP", CosOf)
           cpu == Table("CPU_COS_MAP", CpuCosOf)
           prio == PerPort("ES_QUEUE_TO_PRIO", 0, [q \in 0 .. 6 |-> q])
           voq == W("OP_VOQ_PORT_CONFIG", Global, 0)
           flow == M("OVQ_FLOWCONTROL_THRESHOLD", Global, [fc_enable |-> 0])
<1>1. EgressCos = first \o cos \o cpu \o prio \o voq \o flow BY DEF EgressCos, CosOf, CpuCosOf
<1>2. List(first) /\ List(cos) BY ListStatements, ListJoin
<1>3. ASSUME NEW r \in {"PORT_COS_MAP", "CPU_COS_MAP"}, NEW l
      PROVE  /\ SparesAt(prio, r, l) /\ SparesAt(voq, r, l) /\ SparesAt(flow, r, l)
             /\ r # "CPU_COS_MAP" => SparesAt(cpu, r, l)
  BY SparesAtStatements
<1>4. \A i \in (0 .. 7) \ {3} : LeavesValue("w", cos, "PORT_COS_MAP", <<i, 0>>, CosOf[i])
  <2>1. DOMAIN CosOf = (0 .. 7) \ {3} BY DEF CosOf
  <2> QED BY <2>1, WrittenValues
<1>5. \A i \in 120 .. 127 : LeavesValue("w", cpu, "CPU_COS_MAP", <<i, 0>>, CpuCosOf[i])
  <2>1. DOMAIN CpuCosOf = 120 .. 127 BY DEF CpuCosOf
  <2> QED BY <2>1, WrittenValues
<1> HIDE DEF first, cos, cpu, prio, voq, flow
<1>6. ASSUME NEW i \in (0 .. 7) \ {3}
      PROVE  LeavesValue("w", EgressCos, "PORT_COS_MAP", <<i, 0>>, CosOf[i])
  BY <1>1, <1>2, <1>3, <1>4, LeavesRules
<1>7. ASSUME NEW i \in 120 .. 127
      PROVE  LeavesValue("w", EgressCos, "CPU_COS_MAP", <<i, 0>>, CpuCosOf[i])
  BY <1>1, <1>2, <1>3, <1>5, ListJoin, LeavesRules
<1> QED BY <1>6, <1>7

LEMMA CpuQueueLeaves ==
  ASSUME NEW qi, NEW spid, NEW en, NEW min, NEW shared
  PROVE  /\ LeavesValue("m", CpuQueue(qi, spid, en, min, shared), "OP_QUEUE_CONFIG1_CELL", <<qi, 0>>,
                        [spid |-> spid, en |-> en])
         /\ \A l : l # <<qi, 0>> => SparesAt(CpuQueue(qi, spid, en, min, shared), "OP_QUEUE_CONFIG1_CELL", l)
         /\ \A r, l : r \notin {"OP_QUEUE_CONFIG1_CELL", "OP_QUEUE_CONFIG_CELL"} =>
              SparesAt(CpuQueue(qi, spid, en, min, shared), r, l)
<1> DEFINE own == M("OP_QUEUE_CONFIG1_CELL", {<<qi, 0>>}, [spid |-> spid, en |-> en])
           limit == IF min # 0 \/ shared # 0
                      THEN M("OP_QUEUE_CONFIG_CELL", {<<qi, 0>>}, [min |-> min, shared |-> shared]) ELSE <<>>
<1>1. CpuQueue(qi, spid, en, min, shared) = own \o limit BY DEF CpuQueue
<1>2. ASSUME NEW r, NEW l, r # "OP_QUEUE_CONFIG_CELL" PROVE SparesAt(limit, r, l)
  <2>1. <<>> \in Seq({}) /\ Len(<<>>) = 0 OBVIOUS
  <2>2. SparesAt(<<>>, r, l) BY <2>1 DEF SparesAt, List
  <2>3. SparesAt(M("OP_QUEUE_CONFIG_CELL", {<<qi, 0>>}, [min |-> min, shared |-> shared]), r, l)
    BY <1>2, SparesAtStatements
  <2> QED BY <2>2, <2>3
<1>3. LeavesValue("m", own, "OP_QUEUE_CONFIG1_CELL", <<qi, 0>>, [spid |-> spid, en |-> en])
  BY WrittenValues
<1>4. \A l : l # <<qi, 0>> => SparesAt(own, "OP_QUEUE_CONFIG1_CELL", l)
  <2>1. \A l : l # <<qi, 0>> => l \notin {<<qi, 0>>} OBVIOUS
  <2> QED BY <2>1, SparesAtStatements
<1>5. \A r, l : r # "OP_QUEUE_CONFIG1_CELL" => SparesAt(own, r, l) BY SparesAtStatements
<1> HIDE DEF own, limit
<1> QED BY <1>1, <1>2, <1>3, <1>4, <1>5, LeavesRules

LEMMA QueuesLeave ==
  /\ \A p \in FrontPorts :
       /\ LeavesValue("m", EgressBuffers, "OP_QUEUE_CONFIG1_CELL", <<0, p>>, [spid |-> 0, en |-> 1])
       /\ LeavesValue("m", EgressBuffers, "OP_QUEUE_CONFIG1_CELL", <<1, p>>, [spid |-> 1])
       /\ LeavesValue("m", EgressBuffers, "OP_QUEUE_CONFIG1_CELL", <<2, p>>, [spid |-> 2])
  /\ \A q \in CpuQueues :
       LeavesValue("m", EgressBuffers, "OP_QUEUE_CONFIG1_CELL", <<q, 0>>, CpuQueueOf(q))
  /\ \A p \in Ports : LeavesValue("w", EgressBuffers, "OP_UC_PORT_CONFIG1_CELL", <<0, p>>, UcPoolOf)
<1> DEFINE r == "OP_QUEUE_CONFIG1_CELL"
           first == PerPort("OP_QUEUE_CONFIG_CELL", 0, [min |-> 0, shared |-> 0])
                    \o PerPort("OP_QUEUE_CONFIG1_CELL", 0, [spid |-> 0, en |-> 0])
                    \o PerPort("OP_QUEUE_RESET_OFFSET_CELL", 0, 3)
                    \o PerPort("OP_PORT_CONFIG_CELL", 0, 0) \o PerPort("OP_PORT_CONFIG1_CELL", 0, 0)
           mc0 == M("OP_QUEUE_CONFIG1_CELL", For(Ports), [spid |-> 0, en |-> 1])
           limit == M("OP_QUEUE_CONFIG_CELL", For(Ports), [min |-> 921, shared |-> 2073])
           mc1 == M("OP_QUEUE_CONFIG1_CELL", {1} \X Ports, [spid |-> 1])
           mc2 == M("OP_QUEUE_CONFIG1_CELL", {2} \X Ports, [spid |-> 2])
           cpu0 == CpuQueue(0, 0, 1, 307, 2073)
           cpu1 == CpuQueue(1, 0, 1, 307, 2073)
           cpu2 == CpuQueue(2, 2, 0, 0, 0)
           cpu3 == CpuQueue(3, 0, 1, 307, 2073)
           cpu4 == CpuQueue(4, 0, 1, 307, 2073)
           cpu5 == CpuQueue(5, 0, 1, 307, 2073)
           cpu6 == CpuQueue(6, 0, 1, 307, 2073)
           cpu7 == CpuQueue(7, 1, 0, 0, 0)
           cpu32 == CpuQueue(32, 0, 1, 100, 0)
           cpu33 == CpuQueue(33, 0, 1, 1, 0)
           cpu34 == CpuQueue(34, 0, 1, 500, 0)
           uc == PerPort("OP_UC_PORT_CONFIG_CELL", 0, 0)
           uc1 == PerPort("OP_UC_PORT_CONFIG1_CELL", 0, UcPoolOf)
<1>1. EgressBuffers =
        first \o mc0 \o limit \o mc1 \o mc2
        \o cpu0 \o cpu1 \o cpu2 \o cpu3 \o cpu4 \o cpu5
        \o cpu6 \o cpu7 \o cpu32 \o cpu33 \o cpu34
        \o uc \o uc1
  BY DEF EgressBuffers, UcPoolOf
<1>2. /\ List(first) /\ List(mc0) /\ List(limit) /\ List(mc1) /\ List(mc2)
      /\ List(cpu0) /\ List(cpu1) /\ List(cpu2) /\ List(cpu3) /\ List(cpu4) /\ List(cpu5)
      /\ List(cpu6) /\ List(cpu7) /\ List(cpu32) /\ List(cpu33) /\ List(cpu34)
      /\ List(uc)
  <2>1. ASSUME NEW qi, NEW spid, NEW en, NEW min, NEW shared
        PROVE  List(CpuQueue(qi, spid, en, min, shared))
    <3>1. SparesAt(CpuQueue(qi, spid, en, min, shared), "COSMASK", 0) BY CpuQueueLeaves
    <3> QED BY <3>1 DEF SparesAt
  <2> QED BY <2>1, ListStatements, ListJoin
<1>3. ASSUME NEW q, NEW p
      PROVE  /\ SparesAt(limit, r, <<q, p>>) /\ SparesAt(uc, r, <<q, p>>) /\ SparesAt(uc1, r, <<q, p>>)
             /\ q # 1 => SparesAt(mc1, r, <<q, p>>)
             /\ q # 2 => SparesAt(mc2, r, <<q, p>>)
  <2>1. (q # 1 => <<q, p>> \notin {1} \X Ports) /\ (q # 2 => <<q, p>> \notin {2} \X Ports) OBVIOUS
  <2>2. SparesAt(limit, r, <<q, p>>) BY SparesAtStatements
  <2>3. SparesAt(uc, r, <<q, p>>) /\ SparesAt(uc1, r, <<q, p>>) BY SparesAtStatements
  <2>4. q # 1 => SparesAt(mc1, r, <<q, p>>) BY <2>1, SparesAtStatements
  <2>5. q # 2 => SparesAt(mc2, r, <<q, p>>) BY <2>1, SparesAtStatements
  <2> QED BY <2>2, <2>3, <2>4, <2>5
<1>4. ASSUME NEW q, NEW p
      PROVE  /\ (q # 0 \/ p # 0) => SparesAt(cpu0, r, <<q, p>>)
             /\ (q # 1 \/ p # 0) => SparesAt(cpu1, r, <<q, p>>)
             /\ (q # 2 \/ p # 0) => SparesAt(cpu2, r, <<q, p>>)
             /\ (q # 3 \/ p # 0) => SparesAt(cpu3, r, <<q, p>>)
             /\ (q # 4 \/ p # 0) => SparesAt(cpu4, r, <<q, p>>)
             /\ (q # 5 \/ p # 0) => SparesAt(cpu5, r, <<q, p>>)
             /\ (q # 6 \/ p # 0) => SparesAt(cpu6, r, <<q, p>>)
             /\ (q # 7 \/ p # 0) => SparesAt(cpu7, r, <<q, p>>)
             /\ (q # 32 \/ p # 0) => SparesAt(cpu32, r, <<q, p>>)
             /\ (q # 33 \/ p # 0) => SparesAt(cpu33, r, <<q, p>>)
             /\ (q # 34 \/ p # 0) => SparesAt(cpu34, r, <<q, p>>)
  <2>1. ASSUME NEW qi, NEW spid, NEW en, NEW min, NEW shared, q # qi \/ p # 0
        PROVE  SparesAt(CpuQueue(qi, spid, en, min, shared), r, <<q, p>>)
    <3>1. <<q, p>> # <<qi, 0>> BY <2>1
    <3> QED BY <3>1, CpuQueueLeaves
  <2> QED BY <2>1
<1>5. /\ LeavesValue("m", cpu0, r, <<0, 0>>, CpuQueueOf(0))
      /\ LeavesValue("m", cpu1, r, <<1, 0>>, CpuQueueOf(1))
      /\ LeavesValue("m", cpu2, r, <<2, 0>>, CpuQueueOf(2))
      /\ LeavesValue("m", cpu3, r, <<3, 0>>, CpuQueueOf(3))
      /\ LeavesValue("m", cpu4, r, <<4, 0>>, CpuQueueOf(4))
      /\ LeavesValue("m", cpu5, r, <<5, 0>>, CpuQueueOf(5))
      /\ LeavesValue("m", cpu6, r, <<6, 0>>, CpuQueueOf(6))
      /\ LeavesValue("m", cpu7, r, <<7, 0>>, CpuQueueOf(7))
      /\ LeavesValue("m", cpu32, r, <<32, 0>>, CpuQueueOf(32))
      /\ LeavesValue("m", cpu33, r, <<33, 0>>, CpuQueueOf(33))
      /\ LeavesValue("m", cpu34, r, <<34, 0>>, CpuQueueOf(34))
  <2>1. \A qi, spid, en, min, shared :
          LeavesValue("m", CpuQueue(qi, spid, en, min, shared), r, <<qi, 0>>, [spid |-> spid, en |-> en])
    BY CpuQueueLeaves
  <2>2. /\ CpuQueueOf(2) = [spid |-> 2, en |-> 0] /\ CpuQueueOf(7) = [spid |-> 1, en |-> 0]
        /\ \A q \in CpuQueues \ {2, 7} : CpuQueueOf(q) = [spid |-> 0, en |-> 1]
    BY DEF CpuQueueOf, CpuQueues
  <2>3. {0, 1, 3, 4, 5, 6, 32, 33, 34} \subseteq CpuQueues \ {2, 7} BY DEF CpuQueues
  <2> HIDE DEF r
  <2> QED BY <2>1, <2>2, <2>3
<1>6. ASSUME NEW p \in Ports
      PROVE  /\ LeavesValue("m", mc0, r, <<0, p>>, [spid |-> 0, en |-> 1])
             /\ LeavesValue("m", mc1, r, <<1, p>>, [spid |-> 1])
             /\ LeavesValue("m", mc2, r, <<2, p>>, [spid |-> 2])
             /\ LeavesValue("w", uc1, "OP_UC_PORT_CONFIG1_CELL", <<0, p>>, UcPoolOf)
  <2>1. <<0, p>> \in For(Ports) /\ <<1, p>> \in {1} \X Ports /\ <<2, p>> \in {2} \X Ports BY DEF For
  <2> QED BY <2>1, WrittenValues
<1> HIDE DEF r, first, mc0, limit, mc1, mc2, cpu0, cpu1, cpu2, cpu3, cpu4, cpu5, cpu6, cpu7, cpu32, cpu33, cpu34, uc, uc1
<1>7. ASSUME NEW p \in FrontPorts
      PROVE  /\ LeavesValue("m", EgressBuffers, r, <<0, p>>, [spid |-> 0, en |-> 1])
             /\ LeavesValue("m", EgressBuffers, r, <<1, p>>, [spid |-> 1])
             /\ LeavesValue("m", EgressBuffers, r, <<2, p>>, [spid |-> 2])
  <2>1. p \in Ports /\ p # 0 BY DEF FrontPorts, XePorts, QPorts
  <2>2. LeavesValue("m", EgressBuffers, r, <<0, p>>, [spid |-> 0, en |-> 1])
    <3>1. LeavesValue("m", first \o mc0 \o limit \o mc1 \o mc2, r, <<0, p>>, [spid |-> 0, en |-> 1])
      <4>1. SparesAt(limit, r, <<0, p>>) /\ SparesAt(mc1, r, <<0, p>>) /\ SparesAt(mc2, r, <<0, p>>)
        BY <1>3
      <4>2. LeavesValue("m", mc0, r, <<0, p>>, [spid |-> 0, en |-> 1]) BY <1>6, <2>1
      <4> QED BY <1>2, <4>1, <4>2, LeavesRules
    <3> DEFINE front == first \o mc0 \o limit \o mc1 \o mc2
    <3> HIDE DEF front
    <3> QED BY <1>1, <1>3, <1>4, <2>1, <3>1, LeavesRules DEF front
  <2>3. LeavesValue("m", EgressBuffers, r, <<1, p>>, [spid |-> 1])
    BY <1>1, <1>2, <1>3, <1>4, <1>6, <2>1, ListJoin, LeavesRules
  <2>4. LeavesValue("m", EgressBuffers, r, <<2, p>>, [spid |-> 2])
    BY <1>1, <1>2, <1>3, <1>4, <1>6, <2>1, ListJoin, LeavesRules
  <2> QED BY <2>2, <2>3, <2>4
<1>8. ASSUME NEW q \in CpuQueues
      PROVE  LeavesValue("m", EgressBuffers, r, <<q, 0>>, CpuQueueOf(q))
  <2>1. LeavesValue("m", EgressBuffers, r, <<0, 0>>, CpuQueueOf(0))
    BY <1>1, <1>2, <1>3, <1>4, <1>5, ListJoin, LeavesRules
  <2>2. LeavesValue("m", EgressBuffers, r, <<1, 0>>, CpuQueueOf(1))
    BY <1>1, <1>2, <1>3, <1>4, <1>5, ListJoin, LeavesRules
  <2>3. LeavesValue("m", EgressBuffers, r, <<2, 0>>, CpuQueueOf(2))
    BY <1>1, <1>2, <1>3, <1>4, <1>5, ListJoin, LeavesRules
  <2>4. LeavesValue("m", EgressBuffers, r, <<3, 0>>, CpuQueueOf(3))
    BY <1>1, <1>2, <1>3, <1>4, <1>5, ListJoin, LeavesRules
  <2>5. LeavesValue("m", EgressBuffers, r, <<4, 0>>, CpuQueueOf(4))
    BY <1>1, <1>2, <1>3, <1>4, <1>5, ListJoin, LeavesRules
  <2>6. LeavesValue("m", EgressBuffers, r, <<5, 0>>, CpuQueueOf(5))
    BY <1>1, <1>2, <1>3, <1>4, <1>5, ListJoin, LeavesRules
  <2>7. LeavesValue("m", EgressBuffers, r, <<6, 0>>, CpuQueueOf(6))
    BY <1>1, <1>2, <1>3, <1>4, <1>5, ListJoin, LeavesRules
  <2>8. LeavesValue("m", EgressBuffers, r, <<7, 0>>, CpuQueueOf(7))
    BY <1>1, <1>2, <1>3, <1>4, <1>5, ListJoin, LeavesRules
  <2>9. LeavesValue("m", EgressBuffers, r, <<32, 0>>, CpuQueueOf(32))
    BY <1>1, <1>2, <1>3, <1>4, <1>5, ListJoin, LeavesRules
  <2>10. LeavesValue("m", EgressBuffers, r, <<33, 0>>, CpuQueueOf(33))
    BY <1>1, <1>2, <1>3, <1>4, <1>5, ListJoin, LeavesRules
  <2>11. LeavesValue("m", EgressBuffers, r, <<34, 0>>, CpuQueueOf(34))
    BY <1>1, <1>2, <1>3, <1>4, <1>5, ListJoin, LeavesRules
  <2>12. q = 0 \/ q = 1 \/ q = 2 \/ q = 3 \/ q = 4 \/ q = 5 \/ q = 6 \/ q = 7 \/ q = 32 \/ q = 33 \/ q = 34
    BY DEF CpuQueues
  <2> QED BY <2>1, <2>2, <2>3, <2>4, <2>5, <2>6, <2>7, <2>8, <2>9, <2>10, <2>11, <2>12
<1>9. ASSUME NEW p \in Ports
      PROVE  LeavesValue("w", EgressBuffers, "OP_UC_PORT_CONFIG1_CELL", <<0, p>>, UcPoolOf)
  BY <1>1, <1>2, <1>6, ListJoin, LeavesRules
<1> QED BY <1>7, <1>8, <1>9 DEF r

LEMMA EgressLeaves ==
  /\ \A i \in (0 .. 7) \ {3} : LeavesValue("w", init_egress_config, "PORT_COS_MAP", <<i, 0>>, CosOf[i])
  /\ \A i \in 120 .. 127 : LeavesValue("w", init_egress_config, "CPU_COS_MAP", <<i, 0>>, CpuCosOf[i])
  /\ \A l, v : LeavesValue("m", EgressBuffers, "OP_QUEUE_CONFIG1_CELL", l, v) =>
                 LeavesValue("m", init_egress_config, "OP_QUEUE_CONFIG1_CELL", l, v)
  /\ \A p \in Ports : LeavesValue("w", init_egress_config, "OP_UC_PORT_CONFIG1_CELL", <<0, p>>, UcPoolOf)
<1>1. init_egress_config = EgressCos \o EgressBuffers BY DEF init_egress_config
<1>2. List(EgressCos) BY ListStatements, ListJoin DEF EgressCos
<1>3. \A r \in {"PORT_COS_MAP", "CPU_COS_MAP"} : \A l : SparesAt(EgressBuffers, r, l)
  <2> DEFINE R == {"PORT_COS_MAP", "CPU_COS_MAP"}
  <2>1. \A qi, spid, en, min, shared : Spares(CpuQueue(qi, spid, en, min, shared), R)
    <3>1. <<>> \in Seq({}) /\ Len(<<>>) = 0 OBVIOUS
    <3>2. Spares(<<>>, R) BY <3>1 DEF Spares, List
    <3> QED BY <3>2, SparesStatements, SparesConcat DEF CpuQueue
  <2>2. Spares(EgressBuffers, R)
    <3>1. \A a, b : Spares(a, R) /\ Spares(b, R) => Spares(a \o b, R) BY SparesConcat
    <3> QED BY <2>1, <3>1, SparesStatements, SMTT(60) DEF EgressBuffers
  <2> QED BY <2>2, SparesAtParts
<1>4. \A i \in (0 .. 7) \ {3} : LeavesValue("w", init_egress_config, "PORT_COS_MAP", <<i, 0>>, CosOf[i])
  BY <1>1, <1>3, CosLeave, LeavesRules
<1>5. \A i \in 120 .. 127 : LeavesValue("w", init_egress_config, "CPU_COS_MAP", <<i, 0>>, CpuCosOf[i])
  BY <1>1, <1>3, CosLeave, LeavesRules
<1>6. \A l, v : LeavesValue("m", EgressBuffers, "OP_QUEUE_CONFIG1_CELL", l, v) =>
                  LeavesValue("m", init_egress_config, "OP_QUEUE_CONFIG1_CELL", l, v)
  BY <1>1, <1>2, LeavesRules
<1>7. \A p \in Ports : LeavesValue("w", init_egress_config, "OP_UC_PORT_CONFIG1_CELL", <<0, p>>, UcPoolOf)
  BY <1>1, <1>2, QueuesLeave, LeavesRules
<1> QED BY <1>4, <1>5, <1>6, <1>7

\* The limits of the unicast queues and of the pools.
ThdoLimit == [min |-> 384, shared |-> 3110, en |-> 1]
ThdoNone == [min |-> 0, shared |-> 0, en |-> 0]
PoolLimit == [sp \in 0 .. 3 |-> <<20736, 41472, 41472, 135>>[sp + 1]]
PoolResume == [sp \in 0 .. 3 |-> <<20636, 41372, 41372, 35>>[sp + 1]]

LEMMA LimitsLeave ==
  /\ \A l \in Limited : /\ LeavesValue("w", init_thdo_tables, "THDO_CONFIG", l, ThdoLimit)
                        /\ LeavesValue("w", init_thdo_tables, "THDO_QDRPRST", l, 3449)
  /\ \A l \in ThdoIdx \ Limited : /\ LeavesValue("w", init_thdo_tables, "THDO_CONFIG", l, ThdoNone)
                                  /\ LeavesValue("w", init_thdo_tables, "THDO_QDRPRST", l, 0)
  /\ \A sp \in 0 .. 3 :
       /\ LeavesValue("w", init_thdo_tables, "OP_BUFFER_SHARED_LIMIT_CELL", <<sp, 0>>, PoolLimit[sp])
       /\ LeavesValue("w", init_thdo_tables, "OP_BUFFER_SHARED_LIMIT_RESUME_CELL", <<sp, 0>>, PoolResume[sp])
<1> DEFINE none == W("THDO_CONFIG", ThdoIdx, ThdoNone)
           zero == W("THDO_QDRPRST", ThdoIdx, 0)
           some == W("THDO_CONFIG", Limited, ThdoLimit)
           drop == W("THDO_QDRPRST", Limited, 3449)
           limit == Table("OP_BUFFER_SHARED_LIMIT_CELL", PoolLimit)
           resume == Table("OP_BUFFER_SHARED_LIMIT_RESUME_CELL", PoolResume)
<1>1. init_thdo_tables = none \o zero \o some \o drop \o limit \o resume
  BY DEF init_thdo_tables, ThdoNone, ThdoLimit, PoolLimit, PoolResume
<1>2. List(none) /\ List(zero) /\ List(some) /\ List(drop) /\ List(limit) BY ListStatements
<1>3. ASSUME NEW r \in LimitRegs, NEW l
      PROVE  /\ (r # "THDO_CONFIG" \/ l \notin Limited) => SparesAt(some, r, l)
             /\ (r # "THDO_QDRPRST" \/ l \notin Limited) => SparesAt(drop, r, l)
             /\ r # "THDO_QDRPRST" => SparesAt(zero, r, l)
             /\ r # "OP_BUFFER_SHARED_LIMIT_CELL" => SparesAt(limit, r, l)
             /\ r # "OP_BUFFER_SHARED_LIMIT_RESUME_CELL" => SparesAt(resume, r, l)
  <2>1. /\ \A s, at, v : s # r => SparesAt(W(s, at, v), r, l)
        /\ \A s, h : s # r => SparesAt(Table(s, h), r, l)
        /\ \A at, v : l \notin at => SparesAt(W(r, at, v), r, l)
    BY SparesAtStatements
  <2>2. (r # "THDO_CONFIG" \/ l \notin Limited) => SparesAt(some, r, l) BY <2>1, Zenon
  <2>3. (r # "THDO_QDRPRST" \/ l \notin Limited) => SparesAt(drop, r, l)
    <3>1. \A v : (r # "THDO_QDRPRST" \/ l \notin Limited) => SparesAt(W("THDO_QDRPRST", Limited, v), r, l)
      BY <2>1, Zenon
    <3> QED BY <3>1, SMT
  <2>4. r # "THDO_QDRPRST" => SparesAt(zero, r, l) BY <2>1, Zenon
  <2>5. r # "OP_BUFFER_SHARED_LIMIT_CELL" => SparesAt(limit, r, l) BY <2>1, Zenon
  <2>6. r # "OP_BUFFER_SHARED_LIMIT_RESUME_CELL" => SparesAt(resume, r, l) BY <2>1, Zenon
  <2> QED BY <2>2, <2>3, <2>4, <2>5, <2>6
<1>4. /\ \A l \in ThdoIdx : LeavesValue("w", none, "THDO_CONFIG", l, ThdoNone) /\ LeavesValue("w", zero, "THDO_QDRPRST", l, 0)
      /\ \A l \in Limited : LeavesValue("w", some, "THDO_CONFIG", l, ThdoLimit) /\ LeavesValue("w", drop, "THDO_QDRPRST", l, 3449)
  BY ValueStatements
<1>5. ASSUME NEW sp \in 0 .. 3
      PROVE  /\ LeavesValue("w", limit, "OP_BUFFER_SHARED_LIMIT_CELL", <<sp, 0>>, PoolLimit[sp])
             /\ LeavesValue("w", resume, "OP_BUFFER_SHARED_LIMIT_RESUME_CELL", <<sp, 0>>, PoolResume[sp])
  <2>1. DOMAIN PoolLimit = 0 .. 3 /\ DOMAIN PoolResume = 0 .. 3 BY DEF PoolLimit, PoolResume
  <2> QED BY <2>1, WrittenValues
<1>6. LimitRegs = {"THDO_CONFIG", "THDO_QDRPRST", "OP_BUFFER_SHARED_LIMIT_CELL", "OP_BUFFER_SHARED_LIMIT_RESUME_CELL"}
  BY DEF LimitRegs
<1> HIDE DEF none, zero, some, drop, limit, resume
<1>7. ASSUME NEW l \in Limited
      PROVE  /\ LeavesValue("w", init_thdo_tables, "THDO_CONFIG", l, ThdoLimit)
             /\ LeavesValue("w", init_thdo_tables, "THDO_QDRPRST", l, 3449)
  <2>1. /\ SparesAt(drop, "THDO_CONFIG", l) /\ SparesAt(limit, "THDO_CONFIG", l) /\ SparesAt(resume, "THDO_CONFIG", l)
        /\ SparesAt(limit, "THDO_QDRPRST", l) /\ SparesAt(resume, "THDO_QDRPRST", l)
    BY <1>3, <1>6
  <2>2. LeavesValue("w", some, "THDO_CONFIG", l, ThdoLimit) /\ LeavesValue("w", drop, "THDO_QDRPRST", l, 3449)
    BY ValueStatements DEF some, drop
  <2>3. LeavesValue("w", init_thdo_tables, "THDO_CONFIG", l, ThdoLimit)
    <3>1. LeavesValue("w", none \o zero \o some, "THDO_CONFIG", l, ThdoLimit) BY <1>2, <2>2, ListJoin, LeavesRules
    <3> QED BY <1>1, <2>1, <3>1, LeavesRules
  <2>4. LeavesValue("w", init_thdo_tables, "THDO_QDRPRST", l, 3449)
    <3>1. \E v : v = 3449 OBVIOUS
    <3>2. PICK v : v = 3449 BY <3>1
    <3>3. LeavesValue("w", drop, "THDO_QDRPRST", l, v) BY <2>2, <3>2
    <3>4. LeavesValue("w", init_thdo_tables, "THDO_QDRPRST", l, v) BY <1>1, <1>2, <2>1, <3>3, ListJoin, LeavesRules
    <3> QED BY <3>2, <3>4
  <2> QED BY <2>3, <2>4
<1>8. ASSUME NEW l \in ThdoIdx \ Limited
      PROVE  /\ LeavesValue("w", init_thdo_tables, "THDO_CONFIG", l, ThdoNone)
             /\ LeavesValue("w", init_thdo_tables, "THDO_QDRPRST", l, 0)
  <2>1. /\ SparesAt(zero, "THDO_CONFIG", l) /\ SparesAt(some, "THDO_CONFIG", l) /\ SparesAt(drop, "THDO_CONFIG", l)
        /\ SparesAt(limit, "THDO_CONFIG", l) /\ SparesAt(resume, "THDO_CONFIG", l)
    BY <1>3, <1>6
  <2>2. /\ SparesAt(some, "THDO_QDRPRST", l) /\ SparesAt(drop, "THDO_QDRPRST", l)
        /\ SparesAt(limit, "THDO_QDRPRST", l) /\ SparesAt(resume, "THDO_QDRPRST", l)
    BY <1>3, <1>6
  <2>3. LeavesValue("w", none, "THDO_CONFIG", l, ThdoNone) /\ LeavesValue("w", zero, "THDO_QDRPRST", l, 0) BY <1>4
  <2>4. LeavesValue("w", init_thdo_tables, "THDO_CONFIG", l, ThdoNone)
    BY <1>1, <1>2, <2>1, <2>3, ListJoin, LeavesRules
  <2>5. LeavesValue("w", init_thdo_tables, "THDO_QDRPRST", l, 0)
    BY <1>1, <1>2, <2>2, <2>3, ListJoin, LeavesRules
  <2> QED BY <2>4, <2>5
<1>9. ASSUME NEW sp \in 0 .. 3
      PROVE  /\ LeavesValue("w", init_thdo_tables, "OP_BUFFER_SHARED_LIMIT_CELL", <<sp, 0>>, PoolLimit[sp])
             /\ LeavesValue("w", init_thdo_tables, "OP_BUFFER_SHARED_LIMIT_RESUME_CELL", <<sp, 0>>, PoolResume[sp])
  BY <1>1, <1>2, <1>3, <1>5, <1>6, ListJoin, LeavesRules
<1> QED BY <1>7, <1>8, <1>9

\* The scheduling nodes that a node of the level above serves.
NodesOf == [s2 \in 0 .. 2 |-> CASE s2 = 0 -> {4, 5, 7, 8, 9, 10, 0} [] s2 = 1 -> {6, 2} [] s2 = 2 -> {11, 1}]

LEMMA NodesLeave ==
  ASSUME NEW p \in Ports
  PROVE  /\ \A s2 \in 0 .. 2 : LeavesValue("w", init_scheduling, "S2_S3_ROUTING", <<s2, p>>, NodesOf[s2])
         /\ \A n \in (0 .. 11) \ {3} : LeavesValue("w", init_scheduling, "S2_COSWEIGHTS", <<n, p>>, S2Weights[n])
<1> DEFINE first == PerPort("S3_CONFIG", 0, [scheduling_select |-> "ff", route_uc_to_s2 |-> 1])
                    \o W("S3_MINSPCONFIG", Global, 0) \o PerPort("S3_COSWEIGHTS", 0, 16) \o PerPort("S3_CONFIG_MC", 0, 0)
                    \o PerPort("S2_CONFIG", 0, "3f") \o PerPort("S2_COSWEIGHTS", 0, 0) \o W("S2_MINSPCONFIG", Global, 0)
                    \o W("S2_S3_ROUTING", (0 .. 2) \X Ports, {})
           node0 == PerPort("S2_S3_ROUTING", 0, {4, 5, 7, 8, 9, 10, 0})
           node1 == PerPort("S2_S3_ROUTING", 1, {6, 2})
           node2 == PerPort("S2_S3_ROUTING", 2, {11, 1})
           of == [l \in (DOMAIN S2Weights) \X Ports |-> S2Weights[l[1]]]
           weights == <<Stmt("w", "S2_COSWEIGHTS", of)>>
           s1 == PerPort("ESCONFIG", 0, 3)
           s2 == PerPort("COSWEIGHTS", 0, 2)
           s3 == PerPort("COSWEIGHTS", 1, 16)
           s4 == PerPort("COSWEIGHTS", 2, 32)
           s5 == PerPort("COSWEIGHTS", 3, 0)
           s6 == PerPort("MINSPCONFIG", 0, 0)
           s7 == M("COSMASK", For(Ports), [cosmaskrxen |-> 1])
           s8 == M("ES_TDM_CONFIG", Global, [en_cpu_slot_sharing |-> 0])
<1>1. init_scheduling =
        first \o node0 \o node1 \o node2 \o weights \o s1 \o s2 \o s3 \o s4 \o s5 \o s6 \o s7 \o s8
  BY DEF init_scheduling
<1>2. /\ List(first) /\ List(node0) /\ List(node1) /\ List(node2) BY ListStatements, ListJoin
<1>3. ASSUME NEW r \in NodeRegs, NEW l
      PROVE  /\ SparesAt(s1, r, l) /\ SparesAt(s2, r, l) /\ SparesAt(s3, r, l) /\ SparesAt(s4, r, l)
             /\ SparesAt(s5, r, l) /\ SparesAt(s6, r, l) /\ SparesAt(s7, r, l) /\ SparesAt(s8, r, l)
  BY SparesAtStatements DEF NodeRegs
<1>4. ASSUME NEW l PROVE SparesAt(weights, "S2_S3_ROUTING", l)
  <2> HIDE DEF of
  <2>1. Spares(weights, {"S2_S3_ROUTING"}) BY SparesOne
  <2> QED BY <2>1, SparesAtParts
<1>5. ASSUME NEW n
      PROVE  /\ n # 1 => SparesAt(node1, "S2_S3_ROUTING", <<n, p>>)
             /\ n # 2 => SparesAt(node2, "S2_S3_ROUTING", <<n, p>>)
  <2>1. (n # 1 => <<n, p>> \notin {1} \X Ports) /\ (n # 2 => <<n, p>> \notin {2} \X Ports) OBVIOUS
  <2> QED BY <2>1, SparesAtStatements DEF PerPort
<1>6. /\ LeavesValue("w", node0, "S2_S3_ROUTING", <<0, p>>, NodesOf[0])
      /\ LeavesValue("w", node1, "S2_S3_ROUTING", <<1, p>>, NodesOf[1])
      /\ LeavesValue("w", node2, "S2_S3_ROUTING", <<2, p>>, NodesOf[2])
  <2>1. NodesOf[0] = {4, 5, 7, 8, 9, 10, 0} /\ NodesOf[1] = {6, 2} /\ NodesOf[2] = {11, 1} BY DEF NodesOf
  <2> QED BY <2>1, WrittenValues
<1>7. ASSUME NEW n \in (0 .. 11) \ {3}
      PROVE  LeavesValue("w", weights, "S2_COSWEIGHTS", <<n, p>>, S2Weights[n])
  <2>1. n \in DOMAIN S2Weights BY DEF S2Weights
  <2>2. <<n, p>> \in DOMAIN of /\ of[<<n, p>>] = S2Weights[n] BY <2>1
  <2> HIDE DEF of
  <2>3. LeavesValue("w", weights, "S2_COSWEIGHTS", <<n, p>>, of[<<n, p>>]) BY <2>2, ValueStatements
  <2> QED BY <2>2, <2>3
<1>8. "S2_S3_ROUTING" \in NodeRegs /\ "S2_COSWEIGHTS" \in NodeRegs BY DEF NodeRegs
<1> HIDE DEF first, node0, node1, node2, weights, s1, s2, s3, s4, s5, s6, s7, s8
<1>9. ASSUME NEW n \in 0 .. 2
      PROVE  LeavesValue("w", init_scheduling, "S2_S3_ROUTING", <<n, p>>, NodesOf[n])
  <2>1. LeavesValue("w", init_scheduling, "S2_S3_ROUTING", <<0, p>>, NodesOf[0])
    BY <1>1, <1>2, <1>3, <1>4, <1>5, <1>6, <1>8, ListJoin, LeavesRules
  <2>2. LeavesValue("w", init_scheduling, "S2_S3_ROUTING", <<1, p>>, NodesOf[1])
    BY <1>1, <1>2, <1>3, <1>4, <1>5, <1>6, <1>8, ListJoin, LeavesRules
  <2>3. LeavesValue("w", init_scheduling, "S2_S3_ROUTING", <<2, p>>, NodesOf[2])
    BY <1>1, <1>2, <1>3, <1>4, <1>5, <1>6, <1>8, ListJoin, LeavesRules
  <2>4. n = 0 \/ n = 1 \/ n = 2 OBVIOUS
  <2> QED BY <2>1, <2>2, <2>3, <2>4
<1>10. ASSUME NEW n \in (0 .. 11) \ {3}
       PROVE  LeavesValue("w", init_scheduling, "S2_COSWEIGHTS", <<n, p>>, S2Weights[n])
  BY <1>1, <1>2, <1>3, <1>7, <1>8, ListJoin, LeavesRules
<1> QED BY <1>9, <1>10

-----------------------------------------------------------------------------
(* The queues that are never given a limit                                 *)

\* No bit of multicast queues 1 and 2 of the front ports enables a limit.
BareQueues == {1, 2} \X FrontPorts
Bare(m) ==
  \A l \in BareQueues \cap DOMAIN m["OP_QUEUE_CONFIG1_CELL"] :
    \/ m["OP_QUEUE_CONFIG1_CELL"][l] = <<>>
    \/ \E v : m["OP_QUEUE_CONFIG1_CELL"][l] = <<v>> /\ "en" \notin DOMAIN v
QueuesInv == Bare(mem)

\* No statement of the list sets it.
LeavesBare(a) ==
  /\ List(a)
  /\ \A i \in 1 .. Len(a) : a[i].reg = "OP_QUEUE_CONFIG1_CELL" =>
       /\ a[i].kind \in {"w", "m"}
       /\ \A l \in BareQueues \cap DOMAIN a[i].val : "en" \notin DOMAIN a[i].val[l]

LEMMA BareParts ==
  /\ \A a, b : LeavesBare(a) /\ LeavesBare(b) => LeavesBare(a \o b)
  /\ \A a, R : Spares(a, R) /\ "OP_QUEUE_CONFIG1_CELL" \in R => LeavesBare(a)
  /\ \A at, v : (at \cap BareQueues = {} \/ "en" \notin DOMAIN v) =>
       LeavesBare(M("OP_QUEUE_CONFIG1_CELL", at, v)) /\ LeavesBare(W("OP_QUEUE_CONFIG1_CELL", at, v))
<1>1. ASSUME NEW a, NEW b, LeavesBare(a), LeavesBare(b) PROVE LeavesBare(a \o b)
  <2>1. List(a) /\ List(b) BY <1>1 DEF LeavesBare
  <2>2. ASSUME NEW i \in 1 .. Len(a \o b), (a \o b)[i].reg = "OP_QUEUE_CONFIG1_CELL"
        PROVE  /\ (a \o b)[i].kind \in {"w", "m"}
               /\ \A l \in BareQueues \cap DOMAIN (a \o b)[i].val : "en" \notin DOMAIN (a \o b)[i].val[l]
    <3>1. CASE i \in 1 .. Len(a)
      <4>1. (a \o b)[i] = a[i] BY <2>1, <3>1, ListConcat
      <4> QED BY <1>1, <2>2, <3>1, <4>1 DEF LeavesBare
    <3>2. CASE i \in Len(a) + 1 .. Len(a) + Len(b)
      <4>1. i - Len(a) \in 1 .. Len(b) /\ (a \o b)[i] = b[i - Len(a)] BY <2>1, <3>2, ListConcat
      <4> QED BY <1>1, <2>2, <4>1 DEF LeavesBare
    <3> QED BY <2>1, <3>1, <3>2, ListConcat
  <2> QED BY <2>1, <2>2, ListConcat DEF LeavesBare
<1>2. \A a, R : Spares(a, R) /\ "OP_QUEUE_CONFIG1_CELL" \in R => LeavesBare(a) BY DEF Spares, LeavesBare
<1>3. ASSUME NEW at, NEW v, at \cap BareQueues = {} \/ "en" \notin DOMAIN v
      PROVE  /\ LeavesBare(M("OP_QUEUE_CONFIG1_CELL", at, v))
             /\ LeavesBare(W("OP_QUEUE_CONFIG1_CELL", at, v))
  <2> DEFINE s(kind) == Stmt(kind, "OP_QUEUE_CONFIG1_CELL", [x \in at |-> v])
  <2>1. M("OP_QUEUE_CONFIG1_CELL", at, v) = <<s("m")>> /\ W("OP_QUEUE_CONFIG1_CELL", at, v) = <<s("w")>>
    BY DEF M, W
  <2>2. \A kind : Len(<<s(kind)>>) = 1 /\ <<s(kind)>>[1] = s(kind) OBVIOUS
  <2>3. \A kind : s(kind).kind = kind /\ DOMAIN s(kind).val = at /\ \A l \in at : s(kind).val[l] = v BY DEF Stmt
  <2>4. List(<<s("m")>>) /\ List(<<s("w")>>) BY <2>1, ListStatements
  <2> HIDE DEF s
  <2>5. ASSUME NEW kind \in {"w", "m"} PROVE LeavesBare(<<s(kind)>>)
    BY <1>3, <2>2, <2>3, <2>4 DEF LeavesBare
  <2> QED BY <2>1, <2>5
<1> QED BY <1>1, <1>2, <1>3

LEMMA AccessBare ==
  ASSUME Shape(mem), NEW list, NEW f, mem' = Execute(list, f), LeavesBare(list), Bare(mem)
  PROVE  Bare(mem')
<1> DEFINE r == "OP_QUEUE_CONFIG1_CELL"
<1>1. Len(list) \in Nat /\ r \in Watched BY DEF LeavesBare, List, Watched
<1>2. PICK g : Run(g, list, f, Len(list)) /\ Execute(list, f) = g[Len(list)] BY <1>1, ExecuteRuns, Zenon
<1>3. mem' = g[Len(list)] /\ Len(list) \in 0 .. Len(list) BY <1>1, <1>2
<1>4. \A i \in 0 .. Len(list) : Shape(g[i]) BY <1>1, <1>2, RunEffect
<1>5. ASSUME NEW i \in 1 .. Len(list), Bare(g[i - 1]) PROVE Bare(g[i])
  <2> DEFINE s == list[i]
             m == g[i - 1]
  <2>1. g[i] = Apply(m, s, f, i) /\ Shape(m)
    <3>1. i \in 0 .. Len(list) /\ i # 0 /\ i - 1 \in 0 .. Len(list) BY <1>1
    <3> QED BY <1>2, <1>4, <3>1 DEF Run
  <2>2. CASE s.reg # r
    <3>1. g[i][r] = m[r] BY <1>1, <2>1, <2>2, ApplyEffect
    <3>2. \A h : Bare(h) <=> \A l \in BareQueues \cap DOMAIN h[r] :
                               h[r][l] = <<>> \/ \E v : h[r][l] = <<v>> /\ "en" \notin DOMAIN v
      BY DEF Bare
    <3> HIDE DEF r, m
    <3> QED BY <1>5, <3>1, <3>2 DEF m
  <2>3. CASE s.reg = r
    <3>1. s.kind \in {"w", "m"} /\ \A l \in BareQueues \cap DOMAIN s.val : "en" \notin DOMAIN s.val[l]
      BY <2>3 DEF LeavesBare
    <3> DEFINE unread(l) == Fails(f, i, l, {"unread"})
               took(l) == l \in DOMAIN s.val /\ ~Fails(f, i, l, {"lost"}) /\ Answers(m, s.reg, l)
               old(l) == Val(m, s.reg, l, <<>>)
    <3>2. g[i] = [m EXCEPT ![s.reg] = [l \in DOMAIN m[s.reg] |-> IF took(l) THEN <<Stored(m, s, l, unread(l))>> ELSE m[s.reg][l]]]
      BY <1>1, <2>1, <2>3, Zenon DEF Apply
    <3>3. g[i][r] = [l \in DOMAIN m[r] |-> IF took(l) THEN <<Stored(m, s, l, unread(l))>> ELSE m[r][l]]
      BY <1>1, <2>1, <2>3, <3>2 DEF Shape
    <3>4. \A l : Stored(m, s, l, unread(l)) \in {s.val[l], Over(s.val[l], old(l))} BY <3>1 DEF Stored
    <3>5. \A l : took(l) => l \in DOMAIN s.val OBVIOUS
    <3>6. ASSUME NEW l \in BareQueues \cap DOMAIN m[r] PROVE "en" \notin DOMAIN old(l)
      <4>1. "en" \notin DOMAIN <<>> OBVIOUS
      <4>2. \A v : <<v>>[1] = v /\ <<v>> # <<>> OBVIOUS
      <4>3. CASE m[r][l] = <<>> BY <2>3, <4>1, <4>3 DEF Val
      <4>4. CASE \E v : m[r][l] = <<v>> /\ "en" \notin DOMAIN v
        <5>1. PICK v : m[r][l] = <<v>> /\ "en" \notin DOMAIN v BY <4>4
        <5>2. old(l) = v BY <2>3, <4>2, <5>1 DEF Val
        <5> QED BY <5>1, <5>2
      <4> QED BY <1>5, <4>3, <4>4 DEF Bare
    <3>7. \A v, w : DOMAIN Over(v, w) = DOMAIN v \cup DOMAIN w BY DEF Over
    <3> HIDE DEF unread, took, old, s, m
    <3>8. ASSUME NEW l \in BareQueues \cap DOMAIN g[i][r]
          PROVE  g[i][r][l] = <<>> \/ \E v : g[i][r][l] = <<v>> /\ "en" \notin DOMAIN v
      <4>1. l \in DOMAIN m[r] /\ (g[i][r][l] = m[r][l] \/ (took(l) /\ \E v \in {s.val[l], Over(s.val[l], old(l))} : g[i][r][l] = <<v>>))
        BY <3>3, <3>4
      <4>2. CASE g[i][r][l] = m[r][l]
        <5>1. l \in BareQueues \cap DOMAIN m[r] BY <4>1
        <5>2. m[r][l] = <<>> \/ \E v : m[r][l] = <<v>> /\ "en" \notin DOMAIN v BY <1>5, <5>1 DEF Bare, m
        <5> QED BY <4>2, <5>2
      <4>3. CASE took(l) /\ \E v \in {s.val[l], Over(s.val[l], old(l))} : g[i][r][l] = <<v>>
        <5>1. "en" \notin DOMAIN s.val[l] BY <3>1, <3>5, <4>3
        <5>2. "en" \notin DOMAIN old(l) BY <3>6, <4>1
        <5>3. "en" \notin DOMAIN Over(s.val[l], old(l)) BY <3>7, <5>1, <5>2, Zenon
        <5> QED BY <4>3, <5>1, <5>3
      <4> QED BY <4>1, <4>2, <4>3
    <3> QED BY <3>8 DEF Bare
  <2> QED BY <2>2, <2>3
<1>6. \A i \in 0 .. Len(list) : Bare(g[i])
  <2> DEFINE T == {i \in 0 .. Len(list) : ~Bare(g[i])}
  <2> SUFFICES ASSUME T # {} PROVE FALSE OBVIOUS
  <2>1. T \in SUBSET Nat OBVIOUS
  <2>2. PICK i \in T : \A k \in T : i <= k
    <3> HIDE DEF T
    <3> QED BY <2>1, Least, Zenon
  <2>3. g[0] = mem BY <1>2 DEF Run
  <2>4. i \in 1 .. Len(list) /\ i - 1 \in 0 .. Len(list) BY <2>2, <2>3
  <2>5. i - 1 \notin T BY <2>2, <2>4
  <2> QED BY <1>5, <2>2, <2>4, <2>5
<1> QED BY <1>3, <1>6

LEMMA EgressBare == LeavesBare(init_egress_config)
<1> DEFINE other == {"OP_QUEUE_CONFIG1_CELL"}
<1>1. 0 \notin FrontPorts BY DEF FrontPorts, XePorts, QPorts
<1>2. \A a : Spares(a, other) => LeavesBare(a) BY BareParts
<1>3. Spares(EgressCos, other) BY SparesStatements, SparesConcat, SMTT(60) DEF EgressCos
<1>4. ASSUME NEW qi, NEW spid, NEW en, NEW min, NEW shared
      PROVE  LeavesBare(CpuQueue(qi, spid, en, min, shared))
  <2>1. {<<qi, 0>>} \cap BareQueues = {} BY <1>1 DEF BareQueues
  <2>2. LeavesBare(M("OP_QUEUE_CONFIG1_CELL", {<<qi, 0>>}, [spid |-> spid, en |-> en])) BY <2>1, BareParts
  <2>3. <<>> \in Seq({}) /\ Len(<<>>) = 0 OBVIOUS
  <2>4. Spares(<<>>, other) BY <2>3 DEF Spares, List
  <2>5. Spares(M("OP_QUEUE_CONFIG_CELL", {<<qi, 0>>}, [min |-> min, shared |-> shared]), other) BY SparesStatements
  <2> QED BY <1>2, <2>2, <2>4, <2>5, BareParts DEF CpuQueue
<1>5. /\ \A i, v : LeavesBare(PerPort("OP_QUEUE_CONFIG_CELL", i, v))
      /\ \A i, v : LeavesBare(PerPort("OP_QUEUE_RESET_OFFSET_CELL", i, v))
      /\ \A i, v : LeavesBare(PerPort("OP_PORT_CONFIG_CELL", i, v)) /\ LeavesBare(PerPort("OP_PORT_CONFIG1_CELL", i, v))
      /\ \A i, v : LeavesBare(PerPort("OP_UC_PORT_CONFIG_CELL", i, v))
      /\ \A i, v : LeavesBare(PerPort("OP_UC_PORT_CONFIG1_CELL", i, v))
      /\ \A at, v : LeavesBare(M("OP_QUEUE_CONFIG_CELL", at, v))
  BY <1>2, SparesStatements
<1>6. LeavesBare(M("OP_QUEUE_CONFIG1_CELL", For(Ports), [spid |-> 0, en |-> 1]))
  <2>1. For(Ports) \cap BareQueues = {} BY DEF For, BareQueues
  <2> QED BY <2>1, BareParts
<1>7. LeavesBare(M("OP_QUEUE_CONFIG1_CELL", {1} \X Ports, [spid |-> 1]))
  <2>1. "en" \notin DOMAIN [spid |-> 1] OBVIOUS
  <2> QED BY <2>1, BareParts
<1>8. LeavesBare(M("OP_QUEUE_CONFIG1_CELL", {2} \X Ports, [spid |-> 2]))
  <2>1. "en" \notin DOMAIN [spid |-> 2] OBVIOUS
  <2> QED BY <2>1, BareParts
<1>9. LeavesBare(PerPort("OP_QUEUE_CONFIG1_CELL", 0, [spid |-> 0, en |-> 0]))
  <2>1. ({0} \X Ports) \cap BareQueues = {} BY DEF BareQueues
  <2> QED BY <2>1, BareParts DEF PerPort
<1>10. LeavesBare(EgressBuffers)
  <2>1. \A a, b : LeavesBare(a) /\ LeavesBare(b) => LeavesBare(a \o b) BY BareParts
  <2> QED BY <1>4, <1>5, <1>6, <1>7, <1>8, <1>9, <2>1, SMTT(60) DEF EgressBuffers
<1> QED BY <1>2, <1>3, <1>10, BareParts DEF init_egress_config

LEMMA QueuesStart == Init => QueuesInv
<1> SUFFICES ASSUME Init PROVE QueuesInv OBVIOUS
<1>1. mem = ResetMem BY DEF Init, DpInit
<1>2. \A r \in Watched : \A l \in DOMAIN ResetMem[r] : ResetMem[r][l] = <<>> BY DEF ResetMem
<1>3. "OP_QUEUE_CONFIG1_CELL" \in Watched BY DEF Watched
<1> QED BY <1>1, <1>2, <1>3 DEF QueuesInv, Bare

LEMMA QueuesStep == ScriptInv /\ PassInv /\ QueuesInv /\ [Next]_vars => QueuesInv'
<1> SUFFICES ASSUME ScriptInv, PassInv, QueuesInv, [Next]_vars PROVE QueuesInv' OBVIOUS
<1> DEFINE r == "OP_QUEUE_CONFIG1_CELL"
<1>1. r \in Watched /\ r \in Own(4) BY DEF Watched, Own, QueueRegs
<1>2. CASE mem'[r] = mem[r] BY <1>2 DEF QueuesInv, Bare
<1>3. CASE mem' = ResetMem
  <2>1. \A s \in Watched : \A l \in DOMAIN ResetMem[s] : ResetMem[s][l] = <<>> BY DEF ResetMem
  <2> QED BY <1>1, <1>3, <2>1 DEF QueuesInv, Bare
<1>4. CASE phase \in 0 .. 8 /\ \E f : mem' = Execute(PhaseList(phase + 1, f), f)
  <2>1. phase \in 0 .. 8 /\ phase + 1 \in 1 .. 9 BY <1>4
  <2>2. PICK f : mem' = Execute(PhaseList(phase + 1, f), f) BY <1>4
  <2>3. CASE phase = 3
    <3>1. mem' = Execute(init_egress_config, f) BY <2>2, <2>3, PhaseListIs
    <3> QED BY <3>1, EgressBare, AccessBare DEF PassInv, QueuesInv
  <2>4. CASE phase # 3
    <3>1. Spares(PhaseList(phase + 1, f), Own(4)) BY <2>1, <2>4, SparesOwn DEF TablePhases
    <3>2. List(PhaseList(phase + 1, f)) BY <3>1 DEF Spares
    <3>3. mem'[r] = mem[r] BY <1>1, <2>2, <3>1, <3>2, AccessKeeps DEF PassInv
    <3> QED BY <1>2, <3>3
  <2> QED BY <2>3, <2>4
<1> QED BY <1>1, <1>2, <1>3, <1>4, MemorySteps, RunsAPhase

-----------------------------------------------------------------------------
(* What a pass without a failure leaves in the tables                      *)

LEMMA CleanValue ==
  ASSUME PassInv, TablesInv, Clean, NEW l, NEW v, NEW reset
  PROVE  /\ \A r \in CellRegs : LeavesValue("w", init_ingress_buffers, r, l, v) => Val(mem, r, l, reset) = v
         /\ \A r \in GroupRegs : LeavesValue("w", init_priority_mapping, r, l, v) => Val(mem, r, l, reset) = v
         /\ \A r \in QueueRegs : LeavesValue("w", init_egress_config, r, l, v) => Val(mem, r, l, reset) = v
         /\ \A r \in LimitRegs : LeavesValue("w", init_thdo_tables, r, l, v) => Val(mem, r, l, reset) = v
         /\ \A r \in NodeRegs : LeavesValue("w", init_scheduling, r, l, v) => Val(mem, r, l, reset) = v
         /\ \A r \in QueueRegs : LeavesValue("m", init_egress_config, r, l, v) =>
              \A x \in DOMAIN v : Field(mem, r, l, x) = v[x]
<1>1. ASSUME NEW k \in TablePhases, NEW r \in Own(k)
      PROVE  /\ LeavesValue("w", PhaseList(k, {}), r, l, v) => Val(mem, r, l, reset) = v
             /\ LeavesValue("m", PhaseList(k, {}), r, l, v) => \A x \in DOMAIN v : Field(mem, r, l, x) = v[x]
  <2>1. hits = {} /\ TablesSet(k) BY DEF Clean, Passed, PhaseCount, TablesInv, TablePhases
  <2>2. r \in Watched /\ k \in 1 .. PhaseCount BY OwnWatched DEF TablePhases, PhaseCount
  <2>3. \A kind : LeavesValue(kind, PhaseList(k, {}), r, l, v) => l \in DOMAIN ResetMem[r]
    BY <2>2, ResetHas
  <2>4. LeavesValue("w", PhaseList(k, {}), r, l, v) => Val(mem, r, l, reset) = v
    BY <2>1, <2>2, <2>3, HeldValue DEF TablesSet, PassInv
  <2>5. LeavesValue("m", PhaseList(k, {}), r, l, v) => \A x \in DOMAIN v : Field(mem, r, l, x) = v[x]
    BY <2>1, <2>2, <2>3, HeldValue DEF TablesSet, PassInv
  <2> QED BY <2>4, <2>5
<1>2. /\ 1 \in TablePhases /\ 2 \in TablePhases /\ 4 \in TablePhases /\ 5 \in TablePhases /\ 6 \in TablePhases
      /\ Own(1) = CellRegs /\ Own(2) = GroupRegs /\ Own(4) = QueueRegs /\ Own(5) = LimitRegs /\ Own(6) = NodeRegs
  BY DEF TablePhases, Own
<1>3. /\ PhaseList(1, {}) = init_ingress_buffers /\ PhaseList(2, {}) = init_priority_mapping
      /\ PhaseList(4, {}) = init_egress_config /\ PhaseList(5, {}) = init_thdo_tables
      /\ PhaseList(6, {}) = init_scheduling
  BY PhaseListIs
<1>4. /\ \A r \in Own(1) : LeavesValue("w", PhaseList(1, {}), r, l, v) => Val(mem, r, l, reset) = v
      /\ \A r \in Own(2) : LeavesValue("w", PhaseList(2, {}), r, l, v) => Val(mem, r, l, reset) = v
      /\ \A r \in Own(4) : LeavesValue("w", PhaseList(4, {}), r, l, v) => Val(mem, r, l, reset) = v
      /\ \A r \in Own(5) : LeavesValue("w", PhaseList(5, {}), r, l, v) => Val(mem, r, l, reset) = v
      /\ \A r \in Own(6) : LeavesValue("w", PhaseList(6, {}), r, l, v) => Val(mem, r, l, reset) = v
      /\ \A r \in Own(4) : LeavesValue("m", PhaseList(4, {}), r, l, v) =>
           \A x \in DOMAIN v : Field(mem, r, l, x) = v[x]
  BY <1>1, <1>2
<1> QED BY <1>2, <1>3, <1>4

LEMMA CleanTables ==
  ASSUME PassInv, TablesInv, Clean
  PROVE  /\ \A p \in Ports : \A v : Val(mem, "PORT_PG_SPID", <<0, p>>, v) = PoolOf
         /\ \A i \in 0 .. 15 : \A v : Val(mem, "ING_PRI_CNG_MAP", <<i, 0>>, v) = PriorityOf[i]
         /\ \A p \in Ports : \A v : Val(mem, "PORT_PRI_GRP0", <<0, p>>, v) = GroupOf
         /\ \A i \in (0 .. 7) \ {3} : \A v : Val(mem, "PORT_COS_MAP", <<i, 0>>, v) = CosOf[i]
         /\ \A i \in 120 .. 127 : \A v : Val(mem, "CPU_COS_MAP", <<i, 0>>, v) = CpuCosOf[i]
         /\ \A p \in Ports : \A v : Val(mem, "OP_UC_PORT_CONFIG1_CELL", <<0, p>>, v) = UcPoolOf
<1>1. ASSUME NEW p \in Ports, NEW reset PROVE Val(mem, "PORT_PG_SPID", <<0, p>>, reset) = PoolOf
  <2>1. "PORT_PG_SPID" \in CellRegs BY DEF CellRegs
  <2>2. LeavesValue("w", init_ingress_buffers, "PORT_PG_SPID", <<0, p>>, PoolOf) BY CellsLeave
  <2> QED BY <2>1, <2>2, CleanValue
<1>2. ASSUME NEW i \in 0 .. 15, NEW reset PROVE Val(mem, "ING_PRI_CNG_MAP", <<i, 0>>, reset) = PriorityOf[i]
  <2>1. "ING_PRI_CNG_MAP" \in GroupRegs BY DEF GroupRegs
  <2>2. LeavesValue("w", init_priority_mapping, "ING_PRI_CNG_MAP", <<i, 0>>, PriorityOf[i]) BY GroupsLeave
  <2> QED BY <2>1, <2>2, CleanValue
<1>3. ASSUME NEW p \in Ports, NEW reset PROVE Val(mem, "PORT_PRI_GRP0", <<0, p>>, reset) = GroupOf
  <2>1. "PORT_PRI_GRP0" \in GroupRegs BY DEF GroupRegs
  <2>2. LeavesValue("w", init_priority_mapping, "PORT_PRI_GRP0", <<0, p>>, GroupOf) BY GroupsLeave
  <2> QED BY <2>1, <2>2, CleanValue
<1>4. ASSUME NEW i \in (0 .. 7) \ {3}, NEW reset PROVE Val(mem, "PORT_COS_MAP", <<i, 0>>, reset) = CosOf[i]
  <2>1. "PORT_COS_MAP" \in QueueRegs BY DEF QueueRegs
  <2>2. LeavesValue("w", init_egress_config, "PORT_COS_MAP", <<i, 0>>, CosOf[i]) BY EgressLeaves
  <2>3. \A r \in QueueRegs : LeavesValue("w", init_egress_config, r, <<i, 0>>, CosOf[i]) =>
          Val(mem, r, <<i, 0>>, reset) = CosOf[i]
    BY CleanValue
  <2> QED BY <2>1, <2>2, <2>3
<1>5. ASSUME NEW i \in 120 .. 127, NEW reset PROVE Val(mem, "CPU_COS_MAP", <<i, 0>>, reset) = CpuCosOf[i]
  <2>1. "CPU_COS_MAP" \in QueueRegs BY DEF QueueRegs
  <2>2. LeavesValue("w", init_egress_config, "CPU_COS_MAP", <<i, 0>>, CpuCosOf[i]) BY EgressLeaves
  <2> QED BY <2>1, <2>2, CleanValue
<1>6. ASSUME NEW p \in Ports, NEW reset PROVE Val(mem, "OP_UC_PORT_CONFIG1_CELL", <<0, p>>, reset) = UcPoolOf
  <2>1. "OP_UC_PORT_CONFIG1_CELL" \in QueueRegs BY DEF QueueRegs
  <2>2. LeavesValue("w", init_egress_config, "OP_UC_PORT_CONFIG1_CELL", <<0, p>>, UcPoolOf) BY EgressLeaves
  <2> QED BY <2>1, <2>2, CleanValue
<1> QED BY <1>1, <1>2, <1>3, <1>4, <1>5, <1>6

\* The priorities of a packet and the pool each is to be charged to.
Pris == {0, 1, 2, 4, 5, 6, 7}
PoolFor(pri) == CASE pri = 2 -> 2 [] pri = 7 -> 1 [] OTHER -> 0

LEMMA PoolsAre ==
  ASSUME PassInv, TablesInv, Clean
  PROVE  /\ Priorities \subseteq Pris
         /\ \A pri \in Pris, p \in Ports :
              Pool(p, pri) = PoolFor(pri) /\ UcPool(p, pri) = PoolFor(pri)
         /\ \A pri \in Pris : Cos(pri, "uc") = pri /\ Cos(pri, "mc") = PoolFor(pri)
         /\ \A pri \in Pris : CpuCos(pri) = {pri}
<1>1. Priorities \subseteq Pris
  <2>1. \A i \in 0 .. 15 : PriorityOf[i] \in Pris
    <3>1. \A j \in 0 .. 7 : <<0, 1, 2, 4, 4, 5, 6, 7>>[j + 1] \in Pris BY DEF Pris
    <3>2. \A i \in 0 .. 15 : i \div 2 \in 0 .. 7 OBVIOUS
    <3> QED BY <3>1, <3>2 DEF PriorityOf
  <2> QED BY <2>1, CleanTables DEF Priorities
<1>2. ASSUME NEW pri \in Pris, NEW p \in Ports
      PROVE  Pool(p, pri) = PoolFor(pri) /\ UcPool(p, pri) = PoolFor(pri)
  <2>1. /\ Val(mem, "PORT_PG_SPID", <<0, p>>, <<>>) = PoolOf
        /\ Val(mem, "PORT_PRI_GRP0", <<0, p>>, <<>>) = GroupOf
        /\ Val(mem, "OP_UC_PORT_CONFIG1_CELL", <<0, p>>, <<>>) = UcPoolOf
    BY CleanTables
  <2>2. Pool(p, pri) = PoolOf[GroupOf[pri]] /\ UcPool(p, pri) = UcPoolOf[pri] BY <2>1 DEF Pool, UcPool
  <2>3. GroupOf[pri] = IF pri \in {2, 7} THEN pri ELSE 0 BY DEF GroupOf, Pris
  <2>4. PoolOf[0] = 0 /\ PoolOf[2] = 2 /\ PoolOf[7] = 1 BY DEF PoolOf
  <2>5. UcPoolOf[pri] = PoolFor(pri) BY DEF UcPoolOf, PoolFor, Pris
  <2> QED BY <2>2, <2>3, <2>4, <2>5 DEF PoolFor
<1>3. ASSUME NEW pri \in Pris PROVE Cos(pri, "uc") = pri /\ Cos(pri, "mc") = PoolFor(pri)
  <2>1. pri \in (0 .. 7) \ {3} BY DEF Pris
  <2>2. Val(mem, "PORT_COS_MAP", <<pri, 0>>, <<>>) = CosOf[pri] BY <2>1, CleanTables
  <2>3. /\ "uc" \in DOMAIN CosOf[pri] /\ CosOf[pri]["uc"] = pri
        /\ "mc" \in DOMAIN CosOf[pri] /\ CosOf[pri]["mc"] = PoolFor(pri)
    BY <2>1 DEF CosOf, PoolFor
  <2> QED BY <2>2, <2>3 DEF Cos, Field
<1>4. ASSUME NEW pri \in Pris PROVE CpuCos(pri) = {pri}
  <2>1. ASSUME NEW i \in 120 .. 127
        PROVE  /\ Field(mem, "CPU_COS_MAP", <<i, 0>>, "key") = CpuCosOf[i]["key"]
               /\ Field(mem, "CPU_COS_MAP", <<i, 0>>, "cos") = CpuCosOf[i]["key"]
    <3>1. \A v : Val(mem, "CPU_COS_MAP", <<i, 0>>, v) = CpuCosOf[i] BY CleanTables, Zenon
    <3>2. /\ "key" \in DOMAIN CpuCosOf[i] /\ "cos" \in DOMAIN CpuCosOf[i]
          /\ CpuCosOf[i]["key"] = CpuCosOf[i]["cos"]
      BY DEF CpuCosOf
    <3> QED BY <3>1, <3>2 DEF Field
  <2>2. \E i \in 120 .. 127 : CpuCosOf[i]["key"] = pri
    <3>1. /\ CpuCosOf[127]["key"] = 0 /\ CpuCosOf[126]["key"] = 1 /\ CpuCosOf[125]["key"] = 2
          /\ CpuCosOf[124]["key"] = 4 /\ CpuCosOf[122]["key"] = 5 /\ CpuCosOf[121]["key"] = 6
          /\ CpuCosOf[120]["key"] = 7
      BY DEF CpuCosOf
    <3> QED BY <3>1 DEF Pris
  <2> HIDE DEF CpuCosOf
  <2> QED BY <2>1, <2>2 DEF CpuCos
<1> QED BY <1>1, <1>2, <1>3, <1>4

LEMMA QueuesAre ==
  ASSUME PassInv, TablesInv, Clean
  PROVE  /\ \A p \in FrontPorts, q \in 0 .. 2 : QueuePool(p, q) = q
         /\ \A p \in FrontPorts : Field(mem, "OP_QUEUE_CONFIG1_CELL", <<0, p>>, "en") = 1
         /\ \A q \in CpuQueues :
              /\ QueuePool(0, q) = CpuQueueOf(q).spid
              /\ Field(mem, "OP_QUEUE_CONFIG1_CELL", <<q, 0>>, "en") = CpuQueueOf(q).en
<1> DEFINE r == "OP_QUEUE_CONFIG1_CELL"
<1>1. ASSUME NEW l, NEW v, LeavesValue("m", EgressBuffers, r, l, v), NEW x \in DOMAIN v
      PROVE  Field(mem, r, l, x) = v[x]
  <2>1. r \in QueueRegs BY DEF QueueRegs
  <2>2. LeavesValue("m", init_egress_config, r, l, v) BY <1>1, EgressLeaves
  <2> HIDE DEF r
  <2> QED BY <2>1, <2>2, CleanValue
<1>2. ASSUME NEW p \in FrontPorts
      PROVE  /\ QueuePool(p, 0) = 0 /\ QueuePool(p, 1) = 1 /\ QueuePool(p, 2) = 2
             /\ Field(mem, r, <<0, p>>, "en") = 1
  <2> DEFINE all == [spid |-> 0, en |-> 1]
             one == [spid |-> 1]
             two == [spid |-> 2]
  <2>1. LeavesValue("m", EgressBuffers, r, <<0, p>>, all) /\ LeavesValue("m", EgressBuffers, r, <<1, p>>, one)
        /\ LeavesValue("m", EgressBuffers, r, <<2, p>>, two)
    BY QueuesLeave
  <2>2. /\ "spid" \in DOMAIN all /\ all["spid"] = 0 /\ "en" \in DOMAIN all /\ all["en"] = 1
        /\ "spid" \in DOMAIN one /\ one["spid"] = 1 /\ "spid" \in DOMAIN two /\ two["spid"] = 2
    OBVIOUS
  <2> HIDE DEF all, one, two
  <2> QED BY <1>1, <2>1, <2>2 DEF QueuePool
<1>3. ASSUME NEW q \in CpuQueues
      PROVE  QueuePool(0, q) = CpuQueueOf(q).spid /\ Field(mem, r, <<q, 0>>, "en") = CpuQueueOf(q).en
  <2>1. LeavesValue("m", EgressBuffers, r, <<q, 0>>, CpuQueueOf(q)) BY QueuesLeave
  <2>2. "spid" \in DOMAIN CpuQueueOf(q) /\ "en" \in DOMAIN CpuQueueOf(q) BY DEF CpuQueueOf
  <2> QED BY <1>1, <2>1, <2>2 DEF QueuePool
<1>4. \A q \in 0 .. 2 : q = 0 \/ q = 1 \/ q = 2 OBVIOUS
<1> QED BY <1>2, <1>3, <1>4

LEMMA PoolsAgree == PassInv /\ TablesInv => ServicePoolsAgree
<1> SUFFICES ASSUME PassInv, TablesInv, Clean, NEW pri \in Priorities
             PROVE  /\ \A p \in Ports : UcPool(p, Cos(pri, "uc")) = Pool(0, pri) /\ Pool(p, pri) = Pool(0, pri)
                    /\ \A p \in FrontPorts : QueuePool(p, Cos(pri, "mc")) = Pool(0, pri)
                    /\ Cardinality(CpuCos(pri)) = 1
                    /\ \A c \in CpuCos(pri) : QueuePool(0, c) = Pool(0, pri)
  BY DEF ServicePoolsAgree
<1>1. pri \in Pris BY PoolsAre
<1>2. 0 \in Ports BY DatapathAssumption
<1>3. /\ \A p \in Ports : Pool(p, pri) = PoolFor(pri) /\ UcPool(p, pri) = PoolFor(pri)
      /\ Cos(pri, "uc") = pri /\ Cos(pri, "mc") = PoolFor(pri) /\ CpuCos(pri) = {pri}
  BY <1>1, PoolsAre
<1>4. PoolFor(pri) \in 0 .. 2 BY DEF PoolFor
<1>5. \A p \in FrontPorts : QueuePool(p, PoolFor(pri)) = PoolFor(pri) BY <1>4, QueuesAre
<1>6. Cardinality({pri}) = 1 BY FS_Singleton
<1>7. pri \in CpuQueues /\ CpuQueueOf(pri).spid = PoolFor(pri) BY <1>1 DEF Pris, CpuQueues, CpuQueueOf, PoolFor
<1>8. QueuePool(0, pri) = PoolFor(pri) BY <1>7, QueuesAre
<1> QED BY <1>2, <1>3, <1>5, <1>6, <1>8

LEMMA LimitsFollow == PassInv /\ TablesInv /\ QueuesInv => LimitsFollowPools
<1> SUFFICES ASSUME PassInv, TablesInv, QueuesInv, Clean
             PROVE  /\ \A p \in FrontPorts, q \in 0 .. 2 : QueueLimited(p, q) <=> QueuePool(p, q) = 0
                    /\ \A q \in (0 .. 7) \cup 32 .. 34 : QueueLimited(0, q) <=> QueuePool(0, q) = 0
                    /\ \A pri \in Priorities, p \in Ports, l \in {k \in ThdoIdx : k[1] < 280} :
                         l[1] % 10 = Cos(pri, "uc") =>
                           /\ Field(mem, "THDO_CONFIG", l, "en") = 1 <=> UcPool(p, l[1] % 10) = 0
                           /\ Val(mem, "THDO_QDRPRST", l, 0) > 0 <=> UcPool(p, l[1] % 10) = 0
                    /\ \A sp \in 0 .. 3 : Val(mem, "OP_BUFFER_SHARED_LIMIT_RESUME_CELL", <<sp, 0>>, 0)
                                            < Val(mem, "OP_BUFFER_SHARED_LIMIT_CELL", <<sp, 0>>, 0)
  BY DEF LimitsFollowPools
<1>1. ASSUME NEW p \in FrontPorts, NEW q \in 0 .. 2
      PROVE  QueueLimited(p, q) <=> QueuePool(p, q) = 0
  <2>1. QueuePool(p, q) = q BY QueuesAre
  <2>2. CASE q = 0
    <3>1. Field(mem, "OP_QUEUE_CONFIG1_CELL", <<0, p>>, "en") = 1 BY QueuesAre
    <3> QED BY <2>1, <2>2, <3>1 DEF QueueLimited
  <2>3. CASE q \in {1, 2}
    <3> DEFINE r == "OP_QUEUE_CONFIG1_CELL"
               v == Val(mem, r, <<q, p>>, <<>>)
    <3>1. <<q, p>> \in BareQueues BY <2>3 DEF BareQueues
    <3>2. "en" \notin DOMAIN <<>> OBVIOUS
    <3>3. \A w : <<w>>[1] = w /\ <<w>> # <<>> OBVIOUS
    <3>4. "en" \notin DOMAIN v
      <4>1. CASE <<q, p>> \notin DOMAIN mem[r] \/ mem[r][<<q, p>>] = <<>> BY <3>2, <4>1 DEF Val
      <4>2. CASE <<q, p>> \in DOMAIN mem[r] /\ mem[r][<<q, p>>] # <<>>
        <5>1. PICK w : mem[r][<<q, p>>] = <<w>> /\ "en" \notin DOMAIN w BY <3>1, <4>2 DEF QueuesInv, Bare
        <5>2. v = w BY <3>3, <4>2, <5>1 DEF Val
        <5> QED BY <5>1, <5>2
      <4> QED BY <4>1, <4>2
    <3>5. Field(mem, r, <<q, p>>, "en") = 0 BY <3>4 DEF Field
    <3> QED BY <2>1, <2>3, <3>5 DEF QueueLimited
  <2> QED BY <2>2, <2>3
<1>2. ASSUME NEW q \in (0 .. 7) \cup 32 .. 34 PROVE QueueLimited(0, q) <=> QueuePool(0, q) = 0
  <2>1. q \in CpuQueues BY DEF CpuQueues
  <2>2. QueuePool(0, q) = CpuQueueOf(q).spid /\ (QueueLimited(0, q) <=> CpuQueueOf(q).en = 1)
    BY <2>1, QueuesAre DEF QueueLimited
  <2>3. CpuQueueOf(q).en = 1 <=> CpuQueueOf(q).spid = 0 BY DEF CpuQueueOf
  <2> QED BY <2>2, <2>3
<1>3. ASSUME NEW pri \in Priorities, NEW p \in Ports, NEW l \in {k \in ThdoIdx : k[1] < 280},
             l[1] % 10 = Cos(pri, "uc")
      PROVE  /\ Field(mem, "THDO_CONFIG", l, "en") = 1 <=> UcPool(p, l[1] % 10) = 0
             /\ Val(mem, "THDO_QDRPRST", l, 0) > 0 <=> UcPool(p, l[1] % 10) = 0
  <2>1. pri \in Pris /\ l[1] % 10 = pri /\ UcPool(p, l[1] % 10) = PoolFor(pri) BY <1>3, PoolsAre
  <2>2. "THDO_CONFIG" \in LimitRegs /\ "THDO_QDRPRST" \in LimitRegs BY DEF LimitRegs
  <2>3. CASE pri \in {2, 7}
    <3>1. l \in ThdoIdx \ Limited BY <2>1, <2>3 DEF Limited, UcCos
    <3>2. /\ LeavesValue("w", init_thdo_tables, "THDO_CONFIG", l, ThdoNone)
          /\ LeavesValue("w", init_thdo_tables, "THDO_QDRPRST", l, 0)
      BY <3>1, LimitsLeave
    <3>3. Val(mem, "THDO_CONFIG", l, <<>>) = ThdoNone /\ Val(mem, "THDO_QDRPRST", l, 0) = 0
      <4>1. \A v, reset : \A r \in LimitRegs :
              LeavesValue("w", init_thdo_tables, r, l, v) => Val(mem, r, l, reset) = v
        BY CleanValue
      <4> QED BY <2>2, <3>2, <4>1
    <3>4. Field(mem, "THDO_CONFIG", l, "en") = 0 BY <3>3 DEF Field, ThdoNone
    <3>5. PoolFor(pri) # 0 BY <2>3 DEF PoolFor
    <3> QED BY <2>1, <3>3, <3>4, <3>5
  <2>4. CASE pri \notin {2, 7}
    <3>1. l \in Limited BY <2>1, <2>4 DEF Limited, UcCos, Pris
    <3>2. /\ LeavesValue("w", init_thdo_tables, "THDO_CONFIG", l, ThdoLimit)
          /\ LeavesValue("w", init_thdo_tables, "THDO_QDRPRST", l, 3449)
      BY <3>1, LimitsLeave
    <3>3. Val(mem, "THDO_CONFIG", l, <<>>) = ThdoLimit /\ Val(mem, "THDO_QDRPRST", l, 0) = 3449
      <4>1. \A v, reset : \A r \in LimitRegs :
              LeavesValue("w", init_thdo_tables, r, l, v) => Val(mem, r, l, reset) = v
        BY CleanValue
      <4> QED BY <2>2, <3>2, <4>1
    <3>4. Field(mem, "THDO_CONFIG", l, "en") = 1 BY <3>3 DEF Field, ThdoLimit
    <3>5. PoolFor(pri) = 0 BY <2>4 DEF PoolFor
    <3> QED BY <2>1, <3>3, <3>4, <3>5
  <2> QED BY <2>3, <2>4
<1>4. ASSUME NEW sp \in 0 .. 3
      PROVE  Val(mem, "OP_BUFFER_SHARED_LIMIT_RESUME_CELL", <<sp, 0>>, 0)
               < Val(mem, "OP_BUFFER_SHARED_LIMIT_CELL", <<sp, 0>>, 0)
  <2>1. /\ "OP_BUFFER_SHARED_LIMIT_CELL" \in LimitRegs
        /\ "OP_BUFFER_SHARED_LIMIT_RESUME_CELL" \in LimitRegs
    BY DEF LimitRegs
  <2>2. /\ LeavesValue("w", init_thdo_tables, "OP_BUFFER_SHARED_LIMIT_CELL", <<sp, 0>>, PoolLimit[sp])
        /\ LeavesValue("w", init_thdo_tables, "OP_BUFFER_SHARED_LIMIT_RESUME_CELL", <<sp, 0>>, PoolResume[sp])
    BY LimitsLeave
  <2>3. /\ Val(mem, "OP_BUFFER_SHARED_LIMIT_CELL", <<sp, 0>>, 0) = PoolLimit[sp]
        /\ Val(mem, "OP_BUFFER_SHARED_LIMIT_RESUME_CELL", <<sp, 0>>, 0) = PoolResume[sp]
    BY <2>1, <2>2, CleanValue
  <2>4. PoolResume[sp] < PoolLimit[sp] BY DEF PoolResume, PoolLimit
  <2> QED BY <2>3, <2>4
<1> QED BY <1>1, <1>2, <1>3, <1>4

LEMMA NodesServe == PassInv /\ TablesInv => SchedulerSound
<1> SUFFICES ASSUME PassInv, TablesInv, Clean, NEW p \in Ports
             PROVE  /\ \A c \in {Cos(pri, "uc") : pri \in Priorities} :
                         Cardinality({s2 \in 0 .. 2 : c \in Nodes(p, s2)}) = 1
                    /\ \A s2 \in 0 .. 2, a, b \in 0 .. 11 :
                         {a, b} \subseteq Nodes(p, s2) => Weight(p, a) = Weight(p, b)
  BY DEF SchedulerSound
<1>1. "S2_S3_ROUTING" \in NodeRegs /\ "S2_COSWEIGHTS" \in NodeRegs BY DEF NodeRegs
<1> DEFINE Left(r, l, v) == LeavesValue("w", init_scheduling, r, l, v)
<1>0. \A l, v, reset : \A r \in NodeRegs : Left(r, l, v) => Val(mem, r, l, reset) = v BY CleanValue
<1>2. ASSUME NEW s2 \in 0 .. 2 PROVE Nodes(p, s2) = NodesOf[s2]
  <2>1. Left("S2_S3_ROUTING", <<s2, p>>, NodesOf[s2]) BY NodesLeave
  <2> HIDE DEF Left
  <2>2. Val(mem, "S2_S3_ROUTING", <<s2, p>>, {}) = NodesOf[s2] BY <1>0, <1>1, <2>1
  <2> QED BY <2>2 DEF Nodes
<1>3. ASSUME NEW n \in (0 .. 11) \ {3} PROVE Weight(p, n) = S2Weights[n]
  <2>1. Left("S2_COSWEIGHTS", <<n, p>>, S2Weights[n]) BY NodesLeave
  <2> HIDE DEF Left
  <2>2. Val(mem, "S2_COSWEIGHTS", <<n, p>>, 0) = S2Weights[n] BY <1>0, <1>1, <2>1
  <2> QED BY <2>2 DEF Weight
<1>4. NodesOf[0] = {4, 5, 7, 8, 9, 10, 0} /\ NodesOf[1] = {6, 2} /\ NodesOf[2] = {11, 1} BY DEF NodesOf
<1>5. ASSUME NEW c \in {Cos(pri, "uc") : pri \in Priorities}
      PROVE  Cardinality({s2 \in 0 .. 2 : c \in Nodes(p, s2)}) = 1
  <2>1. c \in Pris BY PoolsAre
  <2>2. \E s2 \in 0 .. 2 : {t \in 0 .. 2 : c \in NodesOf[t]} = {s2}
    <3>1. \A t \in 0 .. 2 : t = 0 \/ t = 1 \/ t = 2 OBVIOUS
    <3>2. CASE c \in {0, 4, 5, 7}
      <4>1. {t \in 0 .. 2 : c \in NodesOf[t]} = {0} BY <1>4, <3>1, <3>2
      <4> QED BY <4>1
    <3>3. CASE c \in {2, 6}
      <4>1. {t \in 0 .. 2 : c \in NodesOf[t]} = {1} BY <1>4, <3>1, <3>3
      <4> QED BY <4>1
    <3>4. CASE c = 1
      <4>1. {t \in 0 .. 2 : c \in NodesOf[t]} = {2} BY <1>4, <3>1, <3>4
      <4> QED BY <4>1
    <3> QED BY <2>1, <3>2, <3>3, <3>4 DEF Pris
  <2>3. {t \in 0 .. 2 : c \in Nodes(p, t)} = {t \in 0 .. 2 : c \in NodesOf[t]} BY <1>2
  <2> QED BY <2>2, <2>3, FS_Singleton
<1>6. ASSUME NEW s2 \in 0 .. 2, NEW a \in 0 .. 11, NEW b \in 0 .. 11, {a, b} \subseteq Nodes(p, s2)
      PROVE  Weight(p, a) = Weight(p, b)
  <2>1. a \in NodesOf[s2] /\ b \in NodesOf[s2] BY <1>2, <1>6
  <2>2. s2 = 0 \/ s2 = 1 \/ s2 = 2 OBVIOUS
  <2>3. a \in (0 .. 11) \ {3} /\ b \in (0 .. 11) \ {3} BY <1>4, <2>1, <2>2
  <2>4. S2Weights[a] = S2Weights[b] BY <1>4, <2>1, <2>2, <2>3 DEF S2Weights
  <2> QED BY <1>3, <2>3, <2>4
<1> QED BY <1>5, <1>6

\* After a pass without a failure, whatever earlier passes lost or left half
\* done, the tables of six phases name each other's entries for every sample
\* of the ports: a packet is charged to the same service pool on its way in
\* and on its way out, exactly the queues of pool 0 are limited, and each
\* class of service is served by one scheduling node (init_datapath.c,
\* phases 1 to 6).
THEOREM QueuesAreSound == Spec => []QueuesSound
<1>1. PassInv /\ TablesInv /\ QueuesInv => QueuesSound
  BY PoolsAgree, LimitsFollow, NodesServe DEF QueuesSound
<1> QED
  BY <1>1, HeldStart, HeldStep, AgentStart, AgentStep, ScriptStart, ScriptStep,
     PassStart, ReadyStart, ReadyStep, ReadyBus, PassStep, CellsStart, TablesStep, QueuesStart, QueuesStep, PTL DEF Spec
=============================================================================

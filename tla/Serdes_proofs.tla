--------------------------- MODULE Serdes_proofs ---------------------------
(***************************************************************************)
(* Proofs about module Serdes, for any set of ports, length of the         *)
(* firmware and number of failing accesses: what a bring-up leaves of its  *)
(* lane and of the WARPcore's firmware.                                    *)
(***************************************************************************)
EXTENDS Serdes, TLAPS

-----------------------------------------------------------------------------
(* Types, accesses and the lane program                                    *)

Types ==
  /\ port \in SerdesPorts /\ phy_inited \subseteq Wcs
  /\ pll \in [Wcs -> {"running", "stopped"}] /\ DOMAIN uc = Wcs /\ DOMAIN tmr = Wcs /\ DOMAIN ram = Wcs
  /\ DOMAIN garbled = Wcs /\ DOMAIN phyLost = Wcs
  /\ conf \in [Wcs \X Lanes -> SUBSET Wanted]
  /\ DOMAIN held = Wcs \X Lanes

\* Notes of what failed are only added to, and none is there if nothing failed.
LEMMA AccessLost ==
  ASSUME NEW r \in BOOLEAN, NEW w \in BOOLEAN, NEW reg, Access(r, w, reg)
  PROVE  /\ lost \subseteq lost'
         /\ lost' = {} => lost = {} /\ r /\ w
         /\ NoneFailed(lost') => NoneFailed(lost) /\ r /\ w
         /\ ~r => <<"r", reg>> \in lost'
         /\ ~w => <<"w", reg>> \in lost'
BY DEF Access, Reported, NoneFailed

LEMMA ReportedLost ==
  ASSUME NEW r \in BOOLEAN, NEW w \in BOOLEAN, NEW err \in BOOLEAN, NEW reg, Reported(r, w, err, reg)
  PROVE  /\ lost \subseteq lost'
         /\ NoneFailed(lost') => NoneFailed(lost) /\ r /\ w
         /\ lost' = {} => lost = {} /\ r /\ w /\ ~err
<1>1. lost \subseteq lost' /\ (lost' = {} => lost = {} /\ r /\ w /\ ~err) BY DEF Reported
<1>2. (~r => <<"r", reg>> \in lost') /\ (~w => <<"w", reg>> \in lost') BY DEF Reported
<1>3. <<"r", reg>>[1] # "err" /\ <<"w", reg>>[1] # "err" OBVIOUS
<1>4. NoneFailed(lost') => NoneFailed(lost) /\ r /\ w BY <1>1, <1>2, <1>3 DEF NoneFailed
<1> QED BY <1>1, <1>4

LEMMA Here ==
  ASSUME Types
  PROVE  W \in Wcs /\ L \in Lanes /\ <<W, L>> \in Wcs \X Lanes
BY DEF Types, Wcs, Lanes, W, L

LEMMA ProgramLength == Len(LaneProgram) = 13
BY DEF LaneProgram

\* MISC6 is written twice, to hold and to release the lane; every other register
\* of the program is wanted.
LEMMA ProgramNames ==
  /\ LaneProgram[8].name = "RELEASE" /\ LaneProgram[8].how = "loose"
  /\ \A i \in 1 .. 13 : (LaneProgram[i].name = "HOLD" => i = 1) /\ (LaneProgram[i].name = "RELEASE" => i = 8)
  /\ \A i \in 1 .. 13 : i \notin {1, 8} => LaneProgram[i].name \in Wanted
<1>1. /\ LaneProgram[8].name = "RELEASE" /\ LaneProgram[8].how = "loose"
      /\ \A i \in 1 .. 13 : (LaneProgram[i].name = "HOLD" => i = 1) /\ (LaneProgram[i].name = "RELEASE" => i = 8)
  BY DEF LaneProgram, Reg
<1>2. ASSUME NEW i \in 1 .. 13, i \notin {1, 8} PROVE LaneProgram[i].name \in Wanted
  <2>1. LaneProgram[i].name \notin {"HOLD", "RELEASE"} BY <1>1, <1>2
  <2> QED BY <2>1, ProgramLength DEF Wanted
<1> QED BY <1>1, <1>2

\* What the program wants is what it writes.
LEMMA WantedWritten ==
  ASSUME NEW c, c \subseteq Wanted, \A i \in 1 .. 13 : LaneProgram[i].name \in Wanted => LaneProgram[i].name \in c
  PROVE  c = Wanted
BY ProgramLength DEF Wanted

\* A field is written in the port's own lane.
LEMMA FieldSet ==
  ASSUME Types, NEW reg, NEW alien \in BOOLEAN, SetField(reg, alien)
  PROVE  /\ conf' \in [Wcs \X Lanes -> SUBSET Wanted]
         /\ DOMAIN held' = Wcs \X Lanes
         /\ conf'[<<W, L>>] = conf[<<W, L>>] \cup ({reg} \cap Wanted)
         /\ held'[<<W, L>>] = (CASE reg = "HOLD" -> TRUE [] reg = "RELEASE" -> FALSE [] OTHER -> held[<<W, L>>])
<1> DEFINE spoilt == IF alien /\ reg = "FW_MODE" THEN {W} \X Lanes ELSE {}
<1>1. <<W, L>> \in Wcs \X Lanes BY Here
<1>2. held' = CASE reg = "HOLD"    -> [held EXCEPT ![<<W, L>>] = TRUE]
                [] reg = "RELEASE" -> [held EXCEPT ![<<W, L>>] = FALSE]
                [] OTHER           -> held
  BY DEF SetField
<1>3. conf' = [wl \in Wcs \X Lanes |->
           IF wl = <<W, L>> THEN conf[wl] \cup ({reg} \cap Wanted)
                            ELSE IF wl \in spoilt THEN conf[wl] \ {reg} ELSE conf[wl]]
  BY DEF SetField, Types
<1> HIDE DEF spoilt
<1>4. PICK here : here = <<W, L>> OBVIOUS
<1>5. /\ DOMAIN held' = Wcs \X Lanes
      /\ held'[here] = (CASE reg = "HOLD" -> TRUE [] reg = "RELEASE" -> FALSE [] OTHER -> held[here])
  BY <1>1, <1>2, <1>4 DEF Types
<1>6. conf' \in [Wcs \X Lanes -> SUBSET Wanted]
  <2>1. conf \in [Wcs \X Lanes -> SUBSET Wanted] BY DEF Types
  <2> QED BY <1>3, <1>4, <2>1
<1>7. conf'[here] = conf[here] \cup ({reg} \cap Wanted) BY <1>1, <1>3, <1>4
<1> QED BY <1>4, <1>5, <1>6, <1>7

LEMMA TypesStart == Init => Types
BY DEF Init, Types

LEMMA TypesStep == Types /\ [Next]_vars => Types'
<1> SUFFICES ASSUME Types, [Next]_vars PROVE Types' OBVIOUS
<1> USE DEF Types
<1>1. W \in Wcs BY Here
<1>2. ASSUME NEW p \in SerdesPorts, serdes_init_10g(p) PROVE Types'
  BY <1>2 DEF serdes_init_10g, hwVars
<1>3. CASE ReadId \/ StopPll \/ DisablePrbs \/ SetPllMode \/ CheckVersion
  BY <1>3 DEF ReadId, StopPll, DisablePrbs, SetPllMode, CheckVersion, Goto, hwVars
<1>4. CASE UcHalt \/ UcClear \/ UcClearStatus \/ UcInit \/ UcInitDone \/ UcTimer \/ UcWrite
  BY <1>4 DEF UcHalt, UcClear, UcClearStatus, UcInit, UcInitDone, UcTimer, UcWrite, Goto, hwVars
<1>5. CASE UcWord \/ UcStop \/ UcStatus \/ UcStart
  BY <1>5 DEF UcWord, UcStop, UcStatus, UcStart, Goto, hwVars
<1>6. CASE StartPll \/ UcTimer2 \/ UcRestart
  BY <1>1, <1>6 DEF StartPll, UcTimer2, UcRestart, Goto, hwVars
<1>7. CASE ConfigureLane
  <2>1. UNCHANGED <<port, phy_inited, phyLost, pll, uc, tmr, ram, garbled>>
    BY <1>7 DEF ConfigureLane, Goto
  <2>2. UNCHANGED <<conf, held>> \/ \E r \in BOOLEAN : SetField(LaneProgram[n].name, ~r)
    BY <1>7 DEF ConfigureLane
  <2> QED BY <2>1, <2>2, FieldSet
<1>8. CASE retimer_unmute BY <1>8 DEF retimer_unmute, Goto
<1>9. CASE UNCHANGED vars BY <1>9 DEF vars, hwVars
<1> QED BY <1>2, <1>3, <1>4, <1>5, <1>6, <1>7, <1>8, <1>9 DEF Next, wc_phy_init

-----------------------------------------------------------------------------
(* The lane                                                                *)

\* Register by register: what has been written so far, if nothing failed, and
\* what the release of the lane has come to.
LaneInv ==
  LET here == <<W, L>>
  IN  /\ pc = "lane" => n \in 1 .. 13
      /\ (pc = "lane" /\ n > 8) \/ pc \in {"retimer", "done"} =>
            (held[here] => <<"w", "RELEASE">> \in lost)
      /\ pc = "lane" /\ lost = {} =>
            \A i \in 1 .. n - 1 : LaneProgram[i].name \in Wanted => LaneProgram[i].name \in conf[here]
      /\ pc \in {"retimer", "done"} /\ lost = {} => conf[here] = Wanted
      /\ pc = "done" /\ lost = {} /\ Retimer(port) => port \in unmuted

LEMMA LaneStart == Init => LaneInv
BY DEF Init, LaneInv

\* One register of the program.
LEMMA LaneConfigured ==
  ASSUME Types, LaneInv, ConfigureLane
  PROVE  LaneInv'
<1>1. PICK r \in BOOLEAN, w \in BOOLEAN :
        LET reg == LaneProgram[n]
        IN  /\ Access(r, w, reg.name)
            /\ IF w /\ ~(reg.how = "strict" /\ ~r) THEN SetField(reg.name, ~r) ELSE UNCHANGED <<conf, held>>
  BY DEF ConfigureLane
<1>2. PICK reg, here : reg = LaneProgram[n] /\ here = <<W, L>> OBVIOUS
<1>3. /\ pc = "lane" /\ n \in 1 .. 13 /\ UNCHANGED <<port, unmuted>>
      /\ here' = here /\ W' = W /\ L' = L
  BY <1>2 DEF ConfigureLane, LaneInv, Goto, W, L
<1>4. \/ n < 13 /\ n' = n + 1 /\ pc' = "lane"
      \/ n = 13 /\ n' = 1 /\ pc' = IF Retimer(port) THEN "retimer" ELSE "done"
  BY <1>3, ProgramLength DEF ConfigureLane, Goto
<1>5. /\ lost \subseteq lost' /\ (lost' = {} => lost = {} /\ r /\ w)
      /\ ~w => <<"w", reg.name>> \in lost'
  BY <1>1, <1>2, AccessLost
<1>6. \/ UNCHANGED <<conf, held>> /\ ~(w /\ ~(reg.how = "strict" /\ ~r))
      \/ /\ w
         /\ conf'[here] = conf[here] \cup ({reg.name} \cap Wanted)
         /\ held'[here] = (CASE reg.name = "HOLD" -> TRUE [] reg.name = "RELEASE" -> FALSE [] OTHER -> held[here])
  <2>1. CASE w /\ ~(reg.how = "strict" /\ ~r)
    <3>1. SetField(reg.name, ~r) BY <1>1, <1>2, <2>1
    <3>2. (~r) \in BOOLEAN OBVIOUS
    <3> QED BY <1>2, <2>1, <3>1, <3>2, FieldSet
  <2>2. CASE ~(w /\ ~(reg.how = "strict" /\ ~r)) BY <1>1, <1>2, <2>2
  <2> QED BY <2>1, <2>2
<1>7. n > 7 => (held'[here] => <<"w", "RELEASE">> \in lost')
  <2>1. CASE n = 8
    <3>1. reg.name = "RELEASE" /\ reg.how = "loose" BY <1>2, <2>1, ProgramNames
    <3> QED BY <1>5, <1>6, <3>1
  <2>2. CASE n > 8
    <3>1. reg.name # "HOLD" BY <1>2, <1>3, <2>2, ProgramNames
    <3>2. held[here] => <<"w", "RELEASE">> \in lost BY <1>2, <1>3, <2>2 DEF LaneInv
    <3>3. held'[here] => held[here] BY <1>6, <3>1
    <3> QED BY <1>5, <3>2, <3>3
  <2> QED BY <1>3, <2>1, <2>2
<1>8. lost' = {} => \A i \in 1 .. n : LaneProgram[i].name \in Wanted => LaneProgram[i].name \in conf'[here]
  <2> SUFFICES ASSUME lost' = {}, NEW i \in 1 .. n, LaneProgram[i].name \in Wanted
               PROVE  LaneProgram[i].name \in conf'[here]
    OBVIOUS
  <2>1. lost = {} /\ r /\ w BY <1>5
  <2>2. conf'[here] = conf[here] \cup ({reg.name} \cap Wanted) BY <1>6, <2>1
  <2>3. CASE i = n BY <1>2, <2>2, <2>3
  <2>4. CASE i # n
    <3>1. i \in 1 .. n - 1 BY <1>3, <2>4
    <3> QED BY <1>2, <1>3, <2>1, <2>2, <3>1 DEF LaneInv
  <2> QED BY <2>3, <2>4
<1>9. CASE n < 13 /\ n' = n + 1 /\ pc' = "lane"
  <2>1. 1 .. n' - 1 = 1 .. n /\ n' \in 1 .. 13 /\ (n' > 8 => n > 7) BY <1>3, <1>9
  <2> QED BY <1>2, <1>3, <1>7, <1>8, <1>9, <2>1 DEF LaneInv
<1>10. CASE n = 13 /\ n' = 1 /\ pc' = IF Retimer(port) THEN "retimer" ELSE "done"
  <2>1. lost' = {} => conf'[here] = Wanted
    <3>1. conf'[here] \subseteq Wanted
      <4>1. Types' BY TypesStep DEF Next
      <4>2. conf' \in [Wcs \X Lanes -> SUBSET Wanted] BY <4>1 DEF Types
      <4> QED BY <1>2, <4>2, Here
    <3> QED BY <1>8, <1>10, <3>1, WantedWritten
  <2>2. Retimer(port)' = Retimer(port) BY <1>3 DEF Retimer
  <2> QED BY <1>2, <1>3, <1>7, <1>10, <2>1, <2>2 DEF LaneInv
<1> QED BY <1>4, <1>9, <1>10

LEMMA LaneStep == Types /\ LaneInv /\ [Next]_vars => LaneInv'
<1> SUFFICES ASSUME Types, LaneInv, [Next]_vars PROVE LaneInv' OBVIOUS
<1>1. CASE pc' \notin {"lane", "retimer", "done"} BY <1>1 DEF LaneInv
<1>2. ASSUME NEW p \in SerdesPorts, serdes_init_10g(p) PROVE LaneInv'
  BY <1>1, <1>2 DEF serdes_init_10g, LaneInv
<1>3. CASE ReadId \/ StopPll \/ DisablePrbs \/ SetPllMode \/ CheckVersion
  BY <1>1, <1>3 DEF ReadId, StopPll, DisablePrbs, SetPllMode, CheckVersion, Goto
<1>4. CASE UcHalt \/ UcClear \/ UcClearStatus \/ UcInit \/ UcInitDone \/ UcTimer \/ UcWrite
  BY <1>1, <1>4 DEF UcHalt, UcClear, UcClearStatus, UcInit, UcInitDone, UcTimer, UcWrite, Goto
<1>5. CASE UcWord \/ UcStop \/ UcStatus \/ UcStart \/ StartPll \/ UcTimer2
  BY <1>1, <1>5 DEF UcWord, UcStop, UcStatus, UcStart, StartPll, UcTimer2, Goto
<1>6. CASE UcRestart BY <1>6 DEF UcRestart, LaneInv
<1>7. CASE ConfigureLane BY <1>7, LaneConfigured
<1>8. CASE retimer_unmute
  <2>1. PICK w \in BOOLEAN :
          Access(TRUE, w, "retimer") /\ unmuted' = IF w THEN unmuted \cup {port} ELSE unmuted
    BY <1>8 DEF retimer_unmute
  <2>2. lost \subseteq lost' /\ (lost' = {} => lost = {} /\ w) BY <2>1, AccessLost
  <2>3. /\ pc = "retimer" /\ pc' = "done" /\ UNCHANGED <<port, conf, held>>
        /\ W' = W /\ L' = L
    BY <1>8 DEF retimer_unmute, Goto, W, L
  <2> QED BY <2>1, <2>2, <2>3 DEF LaneInv
<1>9. CASE UNCHANGED vars
  <2>1. UNCHANGED <<pc, n, port, lost, conf, held, unmuted>> /\ W' = W /\ L' = L
    BY <1>9 DEF vars, hwVars, W, L
  <2> QED BY <2>1 DEF LaneInv, Retimer
<1> QED BY <1>2, <1>3, <1>4, <1>5, <1>6, <1>7, <1>8, <1>9 DEF Next, wc_phy_init

\* When serdes_init_10g() returns the lane is held in reset only if the write that
\* releases it was lost, and after a call in which nothing failed the lane is
\* configured whatever earlier calls left undone.
THEOREM LaneIsUp == Spec => []LaneComesUp
<1>1. LaneInv => LaneComesUp
  BY DEF LaneInv, LaneComesUp, ResetReleased, RetryConfigures
<1> QED BY <1>1, TypesStart, TypesStep, LaneStart, LaneStep, PTL DEF Spec

-----------------------------------------------------------------------------
(* The WARPcore                                                            *)

Stopping == {"prbs", "pll_mode", "version", "uc_halt", "uc_clear", "uc_clear_status", "uc_init", "uc_init_done",
             "uc_timer", "uc_write", "uc_words", "uc_stop", "uc_status", "uc_start", "start_pll"}

PhyPcs == {"id", "stop_pll", "uc_timer2", "uc_restart"} \cup Stopping

\* What a WARPcore looks like when no access of its wc_phy_init() failed, and when
\* besides it reported no error.
Runs(w) ==
  /\ NoneFailed(phyLost[w]) => pll[w] = "running" /\ uc[w] = "running" /\ tmr[w]
  /\ phyLost[w] = {} => ram[w] = Words /\ ~garbled[w]

\* How far wc_phy_init() has come with the firmware of the WARPcore at hand, if
\* nothing went wrong: the words downloaded so far, then the whole of it.
Progress ==
  /\ pc \in {"uc_init_done", "uc_timer", "uc_write"} => n = 1 /\ ram[W] = 0 /\ ~garbled[W]
  /\ pc = "uc_words" => n \in 1 .. Words /\ ram[W] = n - 1 /\ ~garbled[W]
  /\ pc \in {"uc_stop", "uc_status", "uc_start", "start_pll", "uc_timer2", "uc_restart"} =>
       ram[W] = Words /\ ~garbled[W]

\* And with its PLL and timers, if no access failed.
Restarting ==
  /\ pc \in {"uc_timer2", "uc_restart"} => pll[W] = "running"
  /\ pc = "uc_restart" => tmr[W]

\* The WARPcore being initialised is not one of those that count as done, so
\* these keep what they have.
FirmwareInv ==
  /\ pc \in PhyPcs \cup {"idle", "lane", "retimer", "done"}
  /\ pc \in PhyPcs => W \notin phy_inited
  /\ pc = "lane" => W \in phy_inited
  /\ pc \in Stopping => pll[W] = "stopped" \/ {<<"r", "stop_pll">>, <<"w", "stop_pll">>} \cap lost # {}
  /\ lost = {} => Progress
  /\ NoneFailed(lost) => Restarting
  /\ \A w \in phy_inited : Runs(w)

LEMMA FirmwareStart == Init => FirmwareInv
BY DEF Init, FirmwareInv, PhyPcs, Stopping, Progress, Restarting

\* A step of wc_phy_init() but the last leaves the WARPcores that are done alone.
LEMMA OthersRun ==
  ASSUME Types, FirmwareInv, pc \in PhyPcs, UNCHANGED <<phy_inited, phyLost>>,
         \A w \in Wcs \ {W} : /\ pll'[w] = pll[w] /\ uc'[w] = uc[w] /\ tmr'[w] = tmr[w]
                              /\ ram'[w] = ram[w] /\ garbled'[w] = garbled[w]
  PROVE  \A w \in phy_inited' : Runs(w)'
<1> SUFFICES ASSUME NEW w \in phy_inited PROVE Runs(w)' OBVIOUS
<1>1. w \in Wcs \ {W} /\ Runs(w) BY DEF FirmwareInv, Types
<1> QED BY <1>1 DEF Runs

\* A step that touches no more than `val' and the notes of what failed.
LEMMA QuietStep ==
  ASSUME Types, FirmwareInv, UNCHANGED <<hwVars, phy_inited, phyLost, port>>,
         pc \in PhyPcs, pc' \in Stopping \cup {"stop_pll"}, lost \subseteq lost',
         pc' \in Stopping => pc \in Stopping,
         lost' = {} => lost = {} /\ Progress'
  PROVE  FirmwareInv'
<1>1. W' = W /\ UNCHANGED <<pll, uc, tmr, ram, garbled>> BY DEF W, hwVars
<1>2. \A w \in phy_inited' : Runs(w)' BY <1>1, OthersRun
<1>3. "lane" \notin PhyPcs /\ pc' \notin {"lane", "uc_timer2", "uc_restart"} /\ pc' \in PhyPcs
  BY DEF PhyPcs, Stopping
<1> QED BY <1>1, <1>2, <1>3 DEF FirmwareInv, Restarting

LEMMA FirmwareStepPll ==
  ASSUME Types, FirmwareInv, ReadId \/ StopPll \/ DisablePrbs \/ SetPllMode
  PROVE  FirmwareInv'
<1> USE DEF PhyPcs, Stopping
<1>1. CASE ReadId
  <2>1. lost \subseteq lost' /\ (lost' = {} => lost = {}) BY <1>1, AccessLost DEF ReadId
  <2>2. Progress' BY <1>1 DEF ReadId, Goto, Progress
  <2> QED BY <1>1, <2>1, <2>2, QuietStep DEF ReadId, Goto
<1>2. CASE StopPll
  <2>1. PICK r \in BOOLEAN, w \in BOOLEAN, bit13 \in BOOLEAN :
          /\ r => (bit13 <=> pll[W] = "running")
          /\ ~bit13 => w
          /\ Access(r, w, "stop_pll")
          /\ pll' = IF bit13 /\ w THEN [pll EXCEPT ![W] = "stopped"] ELSE pll
    BY <1>2 DEF StopPll
  <2>2. /\ pc = "stop_pll" /\ pc' = "prbs" /\ W' = W
        /\ UNCHANGED <<port, phy_inited, phyLost, uc, tmr, ram, garbled>>
    BY <1>2 DEF StopPll, Goto, W
  <2>3. pll'[W] = "stopped" \/ {<<"r", "stop_pll">>, <<"w", "stop_pll">>} \cap lost' # {}
    <3>1. ~r => <<"r", "stop_pll">> \in lost' BY <2>1, AccessLost
    <3>2. ~w => <<"w", "stop_pll">> \in lost' BY <2>1, AccessLost
    <3>3. pll[W] \in {"running", "stopped"} /\ W \in DOMAIN pll BY Here DEF Types
    <3> QED BY <2>1, <3>1, <3>2, <3>3
  <2>4. \A w1 \in Wcs \ {W} : pll'[w1] = pll[w1] BY <2>1 DEF Types
  <2>5. \A w1 \in phy_inited' : Runs(w1)' BY <2>2, <2>4, OthersRun
  <2>6. Progress' BY <2>2 DEF Progress
  <2> QED BY <2>2, <2>3, <2>5, <2>6 DEF FirmwareInv, Restarting
<1>3. CASE DisablePrbs
  <2>1. lost \subseteq lost' /\ (lost' = {} => lost = {}) BY <1>3, AccessLost DEF DisablePrbs
  <2>2. Progress' BY <1>3 DEF DisablePrbs, Goto, Progress
  <2> QED BY <1>3, <2>1, <2>2, QuietStep DEF DisablePrbs, Goto
<1>4. CASE SetPllMode
  <2>1. lost \subseteq lost' /\ (lost' = {} => lost = {}) BY <1>4, AccessLost DEF SetPllMode
  <2>2. Progress' BY <1>4 DEF SetPllMode, Goto, Progress
  <2> QED BY <1>4, <2>1, <2>2, QuietStep DEF SetPllMode, Goto
<1> QED BY <1>1, <1>2, <1>3, <1>4

\* wc_firmware_download(): an attempt given up leaves a note of what failed.
LEMMA FirmwareStepLoad ==
  ASSUME Types, FirmwareInv,
         CheckVersion \/ UcHalt \/ UcClear \/ UcClearStatus \/ UcInit \/ UcInitDone \/ UcTimer \/ UcWrite
  PROVE  FirmwareInv'
<1> USE DEF PhyPcs, Stopping
<1>1. CASE CheckVersion
  <2>1. PICK r \in BOOLEAN :
          /\ Access(r, TRUE, "version")
          /\ Goto(IF r /\ uc[W] = "running" /\ ram[W] = Words /\ ~garbled[W] THEN "start_pll" ELSE "uc_halt")
    BY <1>1 DEF CheckVersion
  <2>2. lost \subseteq lost' /\ (lost' = {} => lost = {}) BY <2>1, AccessLost
  <2>3. pc = "version" /\ UNCHANGED <<hwVars, port>> BY <1>1 DEF CheckVersion, Goto
  <2>4. Progress' BY <2>1, <2>3 DEF Goto, Progress, hwVars, W
  <2> QED BY <2>1, <2>2, <2>3, <2>4, QuietStep DEF Goto
<1>2. CASE UcHalt \/ UcClear
  <2>1. PICK w \in BOOLEAN, l \in {"uc_halt", "uc_clear"} :
          Access(TRUE, w, l) /\ uc' = IF w THEN [uc EXCEPT ![W] = "halted"] ELSE uc
    BY <1>2 DEF UcHalt, UcClear
  <2>2. lost \subseteq lost' /\ (lost' = {} => lost = {}) BY <2>1, AccessLost
  <2>3. /\ pc \in {"uc_halt", "uc_clear"} /\ pc' \in {"uc_clear", "uc_clear_status"} /\ W' = W
        /\ UNCHANGED <<port, phy_inited, phyLost, pll, tmr, ram, garbled>>
    BY <1>2 DEF UcHalt, UcClear, Goto, W
  <2>4. \A w1 \in Wcs \ {W} : uc'[w1] = uc[w1] BY <2>1 DEF Types
  <2>5. \A w1 \in phy_inited' : Runs(w1)' BY <2>3, <2>4, OthersRun
  <2>6. Progress' BY <2>3 DEF Progress
  <2> QED BY <2>2, <2>3, <2>5, <2>6 DEF FirmwareInv, Restarting
<1>3. CASE UcInit
  <2>1. PICK w \in BOOLEAN :
          /\ Access(TRUE, w, "uc_init")
          /\ ram' = IF w THEN [ram EXCEPT ![W] = 0] ELSE ram
          /\ garbled' = IF w THEN [garbled EXCEPT ![W] = FALSE] ELSE garbled
    BY <1>3 DEF UcInit
  <2>2. lost \subseteq lost' /\ (lost' = {} => lost = {} /\ w) BY <2>1, AccessLost
  <2>3. /\ pc = "uc_init" /\ pc' = "uc_init_done" /\ W' = W /\ n' = 1
        /\ UNCHANGED <<port, phy_inited, phyLost, pll, tmr, uc>>
    BY <1>3 DEF UcInit, Goto, W
  <2>4. \A w1 \in Wcs \ {W} : ram'[w1] = ram[w1] /\ garbled'[w1] = garbled[w1] BY <2>1 DEF Types
  <2>5. \A w1 \in phy_inited' : Runs(w1)' BY <2>3, <2>4, OthersRun
  <2>6. w => ram'[W] = 0 /\ ~garbled'[W] BY <2>1, Here DEF Types
  <2>7. lost' = {} => Progress' BY <2>2, <2>3, <2>6 DEF Progress
  <2> QED BY <2>2, <2>3, <2>5, <2>7 DEF FirmwareInv, Restarting
<1>4. CASE UcInitDone
  <2>1. PICK r \in BOOLEAN, seen \in BOOLEAN :
          /\ Reported(r, TRUE, ~seen, "uc_init_done")
          /\ Goto(IF seen THEN "uc_timer" ELSE "start_pll")
    BY <1>4 DEF UcInitDone
  <2>2. PICK err \in BOOLEAN : err = ~seen OBVIOUS
  <2>3. lost \subseteq lost' /\ (lost' = {} => lost = {} /\ seen) BY <2>1, <2>2, ReportedLost
  <2>4. pc = "uc_init_done" /\ UNCHANGED <<hwVars, port, n>> BY <1>4 DEF UcInitDone, Goto
  <2>5. W' = W BY <2>4 DEF W
  <2>6. seen /\ Progress => Progress' BY <2>1, <2>4, <2>5 DEF Goto, Progress, hwVars
  <2>7. lost = {} => Progress BY DEF FirmwareInv
  <2> QED BY <2>1, <2>3, <2>4, <2>6, <2>7, QuietStep DEF Goto
<1>5. CASE UcTimer
  <2>1. PICK r \in BOOLEAN, w \in BOOLEAN :
          Access(r, w, "uc_timer") /\ tmr' = IF w THEN [tmr EXCEPT ![W] = TRUE] ELSE tmr
    BY <1>5 DEF UcTimer
  <2>2. lost \subseteq lost' /\ (lost' = {} => lost = {}) BY <2>1, AccessLost
  <2>3. /\ pc = "uc_timer" /\ pc' = "uc_write" /\ W' = W
        /\ UNCHANGED <<port, phy_inited, phyLost, pll, uc, ram, garbled, n>>
    BY <1>5 DEF UcTimer, Goto, W
  <2>4. \A w1 \in Wcs \ {W} : tmr'[w1] = tmr[w1] BY <2>1 DEF Types
  <2>5. \A w1 \in phy_inited' : Runs(w1)' BY <2>3, <2>4, OthersRun
  <2>6. lost' = {} => Progress' BY <2>2, <2>3 DEF FirmwareInv, Progress
  <2> QED BY <2>2, <2>3, <2>5, <2>6 DEF FirmwareInv, Restarting
<1>6. CASE UcWrite
  <2>1. lost \subseteq lost' /\ (lost' = {} => lost = {}) BY <1>6, AccessLost DEF UcWrite
  <2>2. /\ pc = "uc_write" /\ pc' = "uc_words" /\ UNCHANGED <<hwVars, port, n, phy_inited, phyLost>>
    BY <1>6 DEF UcWrite, Goto
  <2>3. W' = W BY <2>2 DEF W
  <2>4. 1 \in 1 .. Words /\ 0 = 1 - 1 BY SerdesAssumption
  <2>5. Progress => Progress' BY <2>2, <2>3, <2>4 DEF Progress, hwVars
  <2>6. lost = {} => Progress BY DEF FirmwareInv, Restarting
  <2> QED BY <2>1, <2>2, <2>5, <2>6, QuietStep
<1>7. CASE UcClearStatus
  <2>1. lost \subseteq lost' /\ (lost' = {} => lost = {}) BY <1>7, AccessLost DEF UcClearStatus
  <2>2. Progress' BY <1>7 DEF UcClearStatus, Goto, Progress
  <2> QED BY <1>7, <2>1, <2>2, QuietStep DEF UcClearStatus, Goto
<1> QED BY <1>1, <1>2, <1>3, <1>4, <1>5, <1>6, <1>7

\* A word, the end of the download, and its result.
LEMMA FirmwareStepWords ==
  ASSUME Types, FirmwareInv, UcWord \/ UcStop \/ UcStatus \/ UcStart
  PROVE  FirmwareInv'
<1> USE DEF PhyPcs, Stopping
<1>1. CASE UcWord
  <2>1. PICK w \in BOOLEAN, lands \in BOOLEAN :
          /\ lands = (w /\ <<"w", "uc_write">> \notin lost)
          /\ Access(TRUE, w, "uc_words")
          /\ ram' = IF lands /\ ram[W] < Words THEN [ram EXCEPT ![W] = @ + 1] ELSE ram
          /\ garbled' = IF lands THEN garbled ELSE [garbled EXCEPT ![W] = TRUE]
    BY <1>1 DEF UcWord
  <2>2. lost \subseteq lost' /\ (lost' = {} => lost = {} /\ lands) BY <2>1, AccessLost
  <2>3. /\ pc = "uc_words" /\ W' = W /\ n' = (IF n = Words THEN 1 ELSE n + 1)
        /\ pc' = IF n = Words THEN "uc_stop" ELSE "uc_words"
        /\ UNCHANGED <<port, phy_inited, phyLost, pll, uc, tmr>>
    BY <1>1 DEF UcWord, Goto, W
  <2>4. \A w1 \in Wcs \ {W} : ram'[w1] = ram[w1] /\ garbled'[w1] = garbled[w1] BY <2>1 DEF Types
  <2>5. \A w1 \in phy_inited' : Runs(w1)' BY <2>3, <2>4, OthersRun
  <2>6. ASSUME lost' = {} PROVE Progress'
    <3>1. n \in 1 .. Words /\ ram[W] = n - 1 /\ ~garbled[W] /\ lands
      BY <2>2, <2>3, <2>6 DEF FirmwareInv, Progress
    <3>2. ram'[W] = n /\ ~garbled'[W] BY <2>1, <3>1, Here, SerdesAssumption DEF Types
    <3>3. n # Words => n + 1 \in 1 .. Words /\ n = (n + 1) - 1 BY <3>1, SerdesAssumption
    <3> QED BY <2>3, <3>2, <3>3 DEF Progress
  <2> QED BY <2>2, <2>3, <2>5, <2>6 DEF FirmwareInv, Restarting
<1>2. CASE UcStop
  <2>1. lost \subseteq lost' /\ (lost' = {} => lost = {}) BY <1>2, AccessLost DEF UcStop
  <2>2. /\ pc = "uc_stop" /\ pc' = "uc_status" /\ UNCHANGED <<hwVars, port, n, phy_inited, phyLost>>
    BY <1>2 DEF UcStop, Goto
  <2>3. W' = W BY <2>2 DEF W
  <2>4. Progress => Progress' BY <2>2, <2>3 DEF Progress, hwVars
  <2>5. lost = {} => Progress BY DEF FirmwareInv, Restarting
  <2> QED BY <2>1, <2>2, <2>4, <2>5, QuietStep
<1>3. CASE UcStatus
  <2>1. PICK r \in BOOLEAN, err \in BOOLEAN :
          /\ Reported(r, TRUE, err, "uc_status")
          /\ garbled' = [garbled EXCEPT ![W] = @ \/ err]
    BY <1>3 DEF UcStatus
  <2>2. lost \subseteq lost' /\ (lost' = {} => lost = {} /\ ~err) BY <2>1, ReportedLost
  <2>3. /\ pc = "uc_status" /\ pc' \in {"start_pll", "uc_start"} /\ W' = W
        /\ UNCHANGED <<port, phy_inited, phyLost, pll, uc, tmr, ram>>
    BY <1>3 DEF UcStatus, Goto, W
  <2>4. \A w1 \in Wcs \ {W} : garbled'[w1] = garbled[w1] BY <2>1 DEF Types
  <2>5. \A w1 \in phy_inited' : Runs(w1)' BY <2>3, <2>4, OthersRun
  <2>6. ASSUME lost' = {} PROVE Progress'
    <3>1. ram[W] = Words /\ ~garbled[W] /\ ~err BY <2>2, <2>3, <2>6 DEF FirmwareInv, Progress
    <3>2. ~garbled'[W] BY <2>1, <3>1, Here DEF Types
    <3> QED BY <2>3, <3>1, <3>2 DEF Progress
  <2> QED BY <2>2, <2>3, <2>5, <2>6 DEF FirmwareInv, Restarting
<1>4. CASE UcStart
  <2>1. PICK w \in BOOLEAN, starts \in BOOLEAN :
          Access(TRUE, w, "uc_start") /\ uc' = IF starts THEN [uc EXCEPT ![W] = "running"] ELSE uc
    BY <1>4 DEF UcStart
  <2>2. lost \subseteq lost' /\ (lost' = {} => lost = {}) BY <2>1, AccessLost
  <2>3. /\ pc = "uc_start" /\ pc' = "start_pll" /\ W' = W
        /\ UNCHANGED <<port, phy_inited, phyLost, pll, tmr, ram, garbled>>
    BY <1>4 DEF UcStart, Goto, W
  <2>4. \A w1 \in Wcs \ {W} : uc'[w1] = uc[w1] BY <2>1 DEF Types
  <2>5. \A w1 \in phy_inited' : Runs(w1)' BY <2>3, <2>4, OthersRun
  <2>6. lost' = {} => Progress' BY <2>2, <2>3 DEF FirmwareInv, Progress
  <2> QED BY <2>2, <2>3, <2>5, <2>6 DEF FirmwareInv, Restarting
<1> QED BY <1>1, <1>2, <1>3, <1>4

\* Starting the PLL resets the 8051: its timers and then the 8051 itself are
\* started again, after which the WARPcore counts as done.
LEMMA FirmwareStepEnd ==
  ASSUME Types, FirmwareInv, StartPll \/ UcTimer2 \/ UcRestart
  PROVE  FirmwareInv'
<1> USE DEF PhyPcs, Stopping
<1>1. CASE StartPll
  <2>1. PICK r \in BOOLEAN, w \in BOOLEAN :
          /\ Access(r, w, "start_pll")
          /\ pll' = IF w THEN [pll EXCEPT ![W] = "running"] ELSE pll
          /\ uc' = IF w THEN [uc EXCEPT ![W] = "halted"] ELSE uc
          /\ tmr' = IF w THEN [tmr EXCEPT ![W] = FALSE] ELSE tmr
    BY <1>1 DEF StartPll
  <2>2. lost \subseteq lost' /\ (lost' = {} => lost = {}) /\ (NoneFailed(lost') => NoneFailed(lost) /\ w)
    BY <2>1, AccessLost
  <2>3. /\ pc = "start_pll" /\ pc' = "uc_timer2" /\ W' = W
        /\ UNCHANGED <<port, phy_inited, phyLost, ram, garbled>>
    BY <1>1 DEF StartPll, Goto, W
  <2>4. \A w1 \in Wcs \ {W} : pll'[w1] = pll[w1] /\ uc'[w1] = uc[w1] /\ tmr'[w1] = tmr[w1]
    BY <2>1 DEF Types
  <2>5. \A w1 \in phy_inited' : Runs(w1)' BY <2>3, <2>4, OthersRun
  <2>6. w => pll'[W] = "running" BY <2>1, Here DEF Types
  <2>7. lost' = {} => Progress' BY <2>2, <2>3 DEF FirmwareInv, Progress
  <2>8. NoneFailed(lost') => Restarting' BY <2>2, <2>3, <2>6 DEF FirmwareInv, Restarting
  <2> QED BY <2>2, <2>3, <2>5, <2>7, <2>8 DEF FirmwareInv
<1>2. CASE UcTimer2
  <2>1. PICK r \in BOOLEAN, w \in BOOLEAN :
          Access(r, w, "uc_timer2") /\ tmr' = IF w THEN [tmr EXCEPT ![W] = TRUE] ELSE tmr
    BY <1>2 DEF UcTimer2
  <2>2. lost \subseteq lost' /\ (lost' = {} => lost = {}) /\ (NoneFailed(lost') => NoneFailed(lost) /\ w)
    BY <2>1, AccessLost
  <2>3. /\ pc = "uc_timer2" /\ pc' = "uc_restart" /\ W' = W
        /\ UNCHANGED <<port, phy_inited, phyLost, pll, uc, ram, garbled>>
    BY <1>2 DEF UcTimer2, Goto, W
  <2>4. \A w1 \in Wcs \ {W} : tmr'[w1] = tmr[w1] BY <2>1 DEF Types
  <2>5. \A w1 \in phy_inited' : Runs(w1)' BY <2>3, <2>4, OthersRun
  <2>6. w => tmr'[W] BY <2>1, Here DEF Types
  <2>7. lost' = {} => Progress' BY <2>2, <2>3 DEF FirmwareInv, Progress
  <2>8. NoneFailed(lost') => Restarting' BY <2>2, <2>3, <2>6 DEF FirmwareInv, Restarting
  <2> QED BY <2>2, <2>3, <2>5, <2>7, <2>8 DEF FirmwareInv
<1>3. CASE UcRestart
  <2>1. PICK w \in BOOLEAN :
          /\ phyLost' = [phyLost EXCEPT ![W] = IF w THEN lost ELSE lost \cup {<<"w", "uc_restart">>}]
          /\ uc' = IF w THEN [uc EXCEPT ![W] = "running"] ELSE uc
    BY <1>3 DEF UcRestart
  <2>2. /\ pc = "uc_restart" /\ pc' = "lane" /\ W' = W /\ phy_inited' = phy_inited \cup {W}
        /\ UNCHANGED <<port, pll, tmr, ram, garbled>>
    BY <1>3 DEF UcRestart, W
  <2>3. ASSUME NEW v \in phy_inited' PROVE Runs(v)'
    <3>1. CASE v = W
      <4>1. phyLost'[W] = IF w THEN lost ELSE lost \cup {<<"w", "uc_restart">>}
        BY <2>1, Here DEF Types
      <4>2. NoneFailed(phyLost'[W]) => pll[W] = "running" /\ uc'[W] = "running" /\ tmr[W]
        <5>1. NoneFailed(phyLost'[W]) => w /\ NoneFailed(lost)
          <6>1. <<"w", "uc_restart">>[1] # "err" OBVIOUS
          <6>2. CASE w BY <4>1, <6>2
          <6>3. CASE ~w
            <7>1. <<"w", "uc_restart">> \in phyLost'[W] BY <4>1, <6>3
            <7> QED BY <6>1, <7>1 DEF NoneFailed
          <6> QED BY <6>2, <6>3
        <5>2. w => uc'[W] = "running" BY <2>1, Here DEF Types
        <5> QED BY <2>2, <5>1, <5>2 DEF FirmwareInv, Restarting
      <4>3. phyLost'[W] = {} => ram[W] = Words /\ ~garbled[W]
        BY <2>2, <4>1 DEF FirmwareInv, Progress
      <4> QED BY <2>2, <3>1, <4>2, <4>3 DEF Runs
    <3>2. CASE v # W
      <4>1. v \in phy_inited /\ v \in Wcs BY <2>2, <2>3, <3>2 DEF Types
      <4>2. phyLost'[v] = phyLost[v] /\ uc'[v] = uc[v] BY <2>1, <3>2, <4>1 DEF Types
      <4>3. Runs(v) BY <4>1 DEF FirmwareInv, Restarting
      <4> QED BY <2>2, <4>2, <4>3 DEF Runs
    <3> QED BY <3>1, <3>2
  <2>4. Progress' BY <2>2 DEF Progress
  <2> QED BY <2>2, <2>3, <2>4 DEF FirmwareInv, Restarting
<1> QED BY <1>1, <1>2, <1>3

LEMMA FirmwareStep == Types /\ FirmwareInv /\ [Next]_vars => FirmwareInv'
<1> SUFFICES ASSUME Types, FirmwareInv, [Next]_vars PROVE FirmwareInv' OBVIOUS
<1>1. ASSUME UNCHANGED <<hwVars, phy_inited, phyLost>>, pc' \in {"lane", "retimer", "done"}, pc' = "lane" => W' \in phy_inited
      PROVE  FirmwareInv'
  <2>1. UNCHANGED <<pll, uc, tmr, ram, garbled>> BY <1>1 DEF hwVars
  <2>2. \A w \in phy_inited' : Runs(w)' BY <1>1, <2>1 DEF FirmwareInv, Runs
  <2> QED BY <1>1, <2>2 DEF FirmwareInv, Progress, Restarting, PhyPcs, Stopping
<1>2. ASSUME NEW p \in SerdesPorts, serdes_init_10g(p) PROVE FirmwareInv'
  <2>1. W' = Wc(p) /\ UNCHANGED <<hwVars, phy_inited, phyLost>> BY <1>2 DEF serdes_init_10g, W
  <2>2. CASE Wc(p) \in phy_inited BY <1>1, <1>2, <2>1, <2>2 DEF serdes_init_10g
  <2>3. CASE Wc(p) \notin phy_inited
    <3>1. pc' = "id" BY <1>2, <2>3 DEF serdes_init_10g
    <3>2. UNCHANGED <<pll, uc, tmr, ram, garbled>> BY <2>1 DEF hwVars
    <3>3. \A w \in phy_inited' : Runs(w)' BY <2>1, <3>2 DEF FirmwareInv, Runs
    <3> QED BY <2>1, <2>3, <3>1, <3>3 DEF FirmwareInv, Progress, Restarting, PhyPcs, Stopping
  <2> QED BY <2>2, <2>3
<1>3. CASE wc_phy_init
  BY <1>3, FirmwareStepPll, FirmwareStepLoad, FirmwareStepWords, FirmwareStepEnd DEF wc_phy_init
<1>4. CASE ConfigureLane \/ retimer_unmute
  <2>1. /\ UNCHANGED <<pll, uc, tmr, ram, garbled, phy_inited, phyLost>> /\ W' = W
        /\ pc' \in {"lane", "retimer", "done"} /\ (pc' = "lane" => pc = "lane")
    BY <1>4 DEF ConfigureLane, retimer_unmute, Goto, W
  <2>2. \A w \in phy_inited' : Runs(w)' BY <2>1 DEF FirmwareInv, Runs
  <2> QED BY <2>1, <2>2 DEF FirmwareInv, Progress, Restarting, PhyPcs, Stopping
<1>5. CASE UNCHANGED vars
  <2>1. UNCHANGED <<pll, uc, tmr, ram, garbled, phy_inited, phyLost, pc, n, lost>> /\ W' = W
    BY <1>5 DEF vars, hwVars, W
  <2> QED BY <2>1 DEF FirmwareInv, Progress, Restarting, Runs
<1> QED BY <1>2, <1>3, <1>4, <1>5 DEF Next

\* The firmware is downloaded with the PLL stopped.  A WARPcore on which no access
\* failed ends up, and stays, with its PLL, its timers and its 8051 running, even
\* when it refused the firmware; and one that reported no error either has the
\* whole firmware, whatever length that has and whichever ports share it.
THEOREM FirmwareIsRun == Spec => []FirmwareRuns
<1>1. FirmwareInv => FirmwareRuns BY DEF FirmwareInv, FirmwareRuns, Runs, Stopping
<1> QED BY <1>1, TypesStart, TypesStep, FirmwareStart, FirmwareStep, PTL DEF Spec
=============================================================================

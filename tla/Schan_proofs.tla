---------------------------- MODULE Schan_proofs ----------------------------
(***************************************************************************)
(* The S-Channel's safety properties for any number of callers and any     *)
(* message lengths the ioctl admits.                                       *)
(***************************************************************************)
EXTENDS Schan, TLAPS

\* A caller is inside the critical section exactly when it owns the mutex.
MutexInv == \A c \in Callers : pc[c] \in Critical <=> schan_mutex = c

\* The engine works only on a message of the owner, which is polling or, after
\* a timeout, about to abort it; it has not signalled completion.
EngineInv ==
  engine # "idle" =>
    /\ schan_mutex \in Callers
    /\ pc[schan_mutex] \in {"poll", "abort"}
    /\ pc[schan_mutex] = "abort" => status[schan_mutex] = "ETIMEDOUT"
    /\ "DONE" \notin ctrl /\ "NAK" \notin ctrl
    /\ D[0] = Word(schan_mutex, 0, FALSE)
    /\ ran[schan_mutex] = IF engine = "started" THEN 0 ELSE 1

\* How far a caller has got in writing its message.
WrittenInv(c) ==
  /\ pc[c] \in {"lock", "save", "check"} => i[c] = 0
  /\ pc[c] \in {"abort", "clear"} /\ then[c] = "cmd" => i[c] = 0
  /\ pc[c] = "cmd" => /\ i[c] < len[c]
                      /\ \A k \in 0 .. i[c] - 1 : D[k] = Word(c, k, FALSE)
  /\ pc[c] \in {"misc", "start"} =>
       \A k \in 0 .. len[c] - 1 : k # MISC => D[k] = Word(c, k, FALSE)

\* Where MISC_CONTROL is safe: in the register, or in the caller's copy.
MiscInv(c) ==
  /\ pc[c] \in {"save", "check", "start", "unlock"} => D[MISC] = Config
  /\ pc[c] \in {"abort", "clear"} /\ then[c] = "cmd" => D[MISC] = Config
  /\ pc[c] = "cmd" /\ i[c] <= MISC => D[MISC] = Config
  /\ pc[c] = "misc" /\ len[c] <= MISC => D[MISC] = Config
  /\ pc[c] \in Critical \ {"save"} => saved_misc[c] = Config

\* What has become of a caller's message.
OutcomeInv(c) ==
  /\ pc[c] \in {"lock", "save", "check", "cmd", "misc", "start"} =>
       ran[c] = 0 /\ status[c] = "none"
  /\ pc[c] \in {"abort", "clear"} /\ then[c] = "cmd" => ran[c] = 0 /\ status[c] = "none"
  /\ pc[c] \in {"abort", "clear"} /\ then[c] = "restore" => status[c] # "none"
  /\ pc[c] = "poll" => status[c] = "none"
  /\ pc[c] = "poll" /\ engine = "idle" /\ "DONE" \in ctrl =>
       IF "NAK" \in ctrl THEN ran[c] = 0 ELSE ran[c] = 1 /\ D[0] = Word(c, 0, TRUE)
  /\ pc[c] = "poll" /\ engine = "idle" => "DONE" \in ctrl
  /\ pc[c] = "read" => /\ ran[c] = 1 /\ status[c] = "none" /\ then[c] = "restore"
                       /\ D[0] = Word(c, 0, TRUE)
  /\ pc[c] \in {"save", "check", "cmd", "misc", "start", "restore", "unlock"} =>
       ctrl \subseteq {"MIIM"}

CallerInv == \A c \in Callers : WrittenInv(c) /\ MiscInv(c) /\ OutcomeInv(c)

IInv ==
  /\ TypeOK
  /\ MutexInv
  /\ EngineInv
  /\ MessageOwned
  /\ CallerInv
  /\ OutcomeTruthful
  /\ ChannelClean






-----------------------------------------------------------------------------
(* Initial state                                                           *)

\* The channel starts enabled, idle and with the mutex free.
LEMMA InitIInv == Init => IInv
<1> SUFFICES ASSUME Init PROVE IInv
  OBVIOUS
<1>1. TypeOK
  BY SchanAssumption DEF Init, TypeOK, Untouched, Words, MaxWords
<1>2. MutexInv /\ EngineInv /\ MessageOwned
  BY SchanAssumption DEF Init, MutexInv, EngineInv, MessageOwned, Critical
<1>3. CallerInv
  BY DEF Init, CallerInv, WrittenInv, MiscInv, OutcomeInv, Critical
<1>4. OutcomeTruthful /\ ChannelClean
  BY DEF Init, OutcomeTruthful, ChannelClean, Untouched, Regs, MISC, MaxWords
<1> QED
  BY <1>1, <1>2, <1>3, <1>4 DEF IInv

-----------------------------------------------------------------------------
(* The caller's steps                                                      *)

\* bde_schan_op(): a new message, which the chip has not seen.
LEMMA Call_IInv ==
  ASSUME IInv, NEW c \in Callers, NEW l \in Lens, Call(c, l)
  PROVE  IInv'
<1> USE DEF Call, Goto, hwVars
<1>1. pc[c] \notin Critical /\ schan_mutex # c /\ c # NoCaller
  BY SchanAssumption DEF IInv, MutexInv, Critical
<1>2. TypeOK'
  BY SchanAssumption DEF IInv, TypeOK, Critical, Untouched, Words, Regs, MaxWords
<1>3. MutexInv'
  BY SchanAssumption, <1>1 DEF IInv, TypeOK, MutexInv, Critical
<1>4. EngineInv' /\ MessageOwned'
  BY <1>1 DEF IInv, TypeOK, MutexInv, EngineInv, MessageOwned, ChannelClean, Critical
<1>5. WrittenInv(c)' /\ MiscInv(c)' /\ OutcomeInv(c)'
  BY <1>1 DEF IInv, TypeOK, CallerInv, WrittenInv, MiscInv, OutcomeInv, ChannelClean, Critical
<1>6. ASSUME NEW d \in Callers \ {c}
      PROVE  WrittenInv(d)' /\ MiscInv(d)' /\ OutcomeInv(d)'
  BY DEF IInv, TypeOK, CallerInv, WrittenInv, MiscInv, OutcomeInv
<1>7. OutcomeTruthful'
  <2>1. \A d \in Callers \ {c} :
          ran'[d] = ran[d] /\ status'[d] = status[d] /\ data'[d] = data[d]
    BY DEF IInv, TypeOK
  <2>2. status'[c] = "none" /\ ran'[c] = 0
    BY DEF IInv, TypeOK
  <2>3. ASSUME NEW d \in Callers
        PROVE  /\ ran'[d] <= 1
               /\ status'[d] = "ok" => ran'[d] = 1 /\ data'[d][0] = Word(d, 0, TRUE)
               /\ status'[d] \in {"EIO", "EINTR"} => ran'[d] = 0
    <3> HIDE DEF Call
    <3>1. CASE d = c
      <4>1. ran'[d] = 0 /\ status'[d] = "none"
        BY <2>2, <3>1
      <4>2. ran'[d] <= 1
        BY <4>1
      <4> QED
        BY <4>1, <4>2
    <3>2. CASE d # c
      BY <2>1, <3>2 DEF IInv, OutcomeTruthful
    <3> QED
      BY <3>1, <3>2
  <2> QED
    BY <2>3 DEF OutcomeTruthful
<1>8. ChannelClean'
  BY <1>1 DEF IInv, ChannelClean
<1> QED
  BY <1>2, <1>3, <1>4, <1>5, <1>6, <1>7, <1>8 DEF IInv, CallerInv

\* The mutex was free, so the channel is clean.
LEMMA Lock_IInv ==
  ASSUME IInv, NEW c \in Callers, Lock(c)
  PROVE  IInv'
<1> USE DEF Lock, Goto, hwVars
<1>1. pc[c] \notin Critical /\ schan_mutex # c /\ c # NoCaller
  BY SchanAssumption DEF IInv, MutexInv, Critical
<1>2. TypeOK'
  BY SchanAssumption DEF IInv, TypeOK, Critical, Untouched, Words, Regs, MaxWords
<1>3. MutexInv'
  BY SchanAssumption, <1>1 DEF IInv, TypeOK, MutexInv, Critical
<1>4. EngineInv' /\ MessageOwned'
  BY <1>1 DEF IInv, TypeOK, MutexInv, EngineInv, MessageOwned, ChannelClean, Critical
<1>5. WrittenInv(c)' /\ MiscInv(c)' /\ OutcomeInv(c)'
  BY <1>1 DEF IInv, TypeOK, CallerInv, WrittenInv, MiscInv, OutcomeInv, ChannelClean, Critical
<1>6. ASSUME NEW d \in Callers \ {c}
      PROVE  WrittenInv(d)' /\ MiscInv(d)' /\ OutcomeInv(d)'
  BY DEF IInv, TypeOK, CallerInv, WrittenInv, MiscInv, OutcomeInv
<1>7. OutcomeTruthful'
  BY DEF IInv, TypeOK, CallerInv, OutcomeInv, OutcomeTruthful
<1>8. ChannelClean'
  BY <1>1 DEF IInv, ChannelClean
<1> QED
  BY <1>2, <1>3, <1>4, <1>5, <1>6, <1>7, <1>8 DEF IInv, CallerInv

\* A wait that is interrupted has touched nothing.
LEMMA Interrupted_IInv ==
  ASSUME IInv, NEW c \in Callers, Interrupted(c)
  PROVE  IInv'
<1> USE DEF Interrupted, Goto, hwVars
<1>1. pc[c] \notin Critical /\ schan_mutex # c /\ c # NoCaller
  BY SchanAssumption DEF IInv, MutexInv, Critical
<1>2. TypeOK'
  BY SchanAssumption DEF IInv, TypeOK, Critical, Untouched, Words, Regs, MaxWords
<1>3. MutexInv'
  BY SchanAssumption, <1>1 DEF IInv, TypeOK, MutexInv, Critical
<1>4. EngineInv' /\ MessageOwned'
  BY <1>1 DEF IInv, TypeOK, MutexInv, EngineInv, MessageOwned, ChannelClean, Critical
<1>5. WrittenInv(c)' /\ MiscInv(c)' /\ OutcomeInv(c)'
  BY <1>1 DEF IInv, TypeOK, CallerInv, WrittenInv, MiscInv, OutcomeInv, ChannelClean, Critical
<1>6. ASSUME NEW d \in Callers \ {c}
      PROVE  WrittenInv(d)' /\ MiscInv(d)' /\ OutcomeInv(d)'
  BY DEF IInv, TypeOK, CallerInv, WrittenInv, MiscInv, OutcomeInv
<1>7. OutcomeTruthful'
  BY DEF IInv, TypeOK, CallerInv, OutcomeInv, OutcomeTruthful
<1>8. ChannelClean'
  BY <1>1 DEF IInv, ChannelClean
<1> QED
  BY <1>2, <1>3, <1>4, <1>5, <1>6, <1>7, <1>8 DEF IInv, CallerInv

\* What is saved is the configured value.
LEMMA SaveMisc_IInv ==
  ASSUME IInv, NEW c \in Callers, SaveMisc(c)
  PROVE  IInv'
<1> USE DEF SaveMisc, Goto, hwVars
<1>1. schan_mutex = c /\ pc[c] \in Critical /\ c # NoCaller
  BY SchanAssumption DEF IInv, MutexInv, Critical
<1>2. \A d \in Callers \ {c} : pc[d] \in {"idle", "lock"} /\ pc'[d] = pc[d]
  BY <1>1 DEF IInv, TypeOK, MutexInv
<1>3. TypeOK'
  BY DEF IInv, TypeOK, CallerInv, WrittenInv, Critical, Untouched, Words, Word, Regs, MISC,
     MaxWords
<1>4. MutexInv'
  BY SchanAssumption, <1>1, <1>2 DEF IInv, TypeOK, MutexInv, Critical
<1>5. EngineInv' /\ MessageOwned'
  BY <1>1 DEF IInv, TypeOK, EngineInv, MessageOwned, CallerInv, OutcomeInv
<1>6. WrittenInv(c)'
  BY <1>1 DEF IInv, TypeOK, CallerInv, WrittenInv, Critical
<1>7. MiscInv(c)'
  BY <1>1 DEF IInv, TypeOK, CallerInv, MiscInv, Critical
<1>8. OutcomeInv(c)'
  BY <1>1 DEF IInv, TypeOK, CallerInv, OutcomeInv, Critical
<1>9. ASSUME NEW d \in Callers \ {c}
      PROVE  WrittenInv(d)' /\ MiscInv(d)' /\ OutcomeInv(d)'
  BY <1>2 DEF IInv, TypeOK, CallerInv, WrittenInv, MiscInv, OutcomeInv, Critical
<1>10. OutcomeTruthful'
  BY <1>1 DEF IInv, TypeOK, CallerInv, OutcomeInv, OutcomeTruthful, EngineInv
<1>11. ChannelClean'
  BY <1>1 DEF IInv, TypeOK, CallerInv, MiscInv, OutcomeInv, EngineInv, ChannelClean
<1> QED
  BY <1>3, <1>4, <1>5, <1>6, <1>7, <1>8, <1>9, <1>10, <1>11 DEF IInv, CallerInv

\* The engine is idle whichever way this goes.
LEMMA CheckCtrl_IInv ==
  ASSUME IInv, NEW c \in Callers, CheckCtrl(c)
  PROVE  IInv'
<1> USE DEF CheckCtrl, Goto, hwVars
<1>1. schan_mutex = c /\ pc[c] \in Critical /\ c # NoCaller
  BY SchanAssumption DEF IInv, MutexInv, Critical
<1>2. \A d \in Callers \ {c} : pc[d] \in {"idle", "lock"} /\ pc'[d] = pc[d]
  BY <1>1 DEF IInv, TypeOK, MutexInv
<1>3. TypeOK'
  BY DEF IInv, TypeOK, CallerInv, WrittenInv, Critical, Untouched, Words, Word, Regs, MISC,
     MaxWords
<1>4. MutexInv'
  BY SchanAssumption, <1>1, <1>2 DEF IInv, TypeOK, MutexInv, Critical
<1>5. EngineInv' /\ MessageOwned'
  BY <1>1 DEF IInv, TypeOK, EngineInv, MessageOwned, CallerInv, CallerInv, OutcomeInv
<1>6. WrittenInv(c)'
  <2>1. i'[c] = 0 /\ len'[c] \in 1 .. MaxWords
    BY DEF IInv, TypeOK, CallerInv, WrittenInv
  <2>2. i'[c] < len'[c] /\ 0 .. i'[c] - 1 = {}
    BY <2>1 DEF MaxWords
  <2>3. pc'[c] \in {"abort", "cmd"}
    BY DEF IInv, TypeOK
  <2> QED
    BY <2>1, <2>2, <2>3 DEF WrittenInv
<1>7. MiscInv(c)'
  BY <1>1 DEF IInv, TypeOK, CallerInv, MiscInv, Critical
<1>8. OutcomeInv(c)'
  BY <1>1 DEF IInv, TypeOK, CallerInv, OutcomeInv, Critical
<1>9. ASSUME NEW d \in Callers \ {c}
      PROVE  WrittenInv(d)' /\ MiscInv(d)' /\ OutcomeInv(d)'
  BY <1>2 DEF IInv, TypeOK, CallerInv, WrittenInv, MiscInv, OutcomeInv, Critical
<1>10. OutcomeTruthful'
  BY <1>1 DEF IInv, TypeOK, CallerInv, OutcomeInv, OutcomeTruthful, EngineInv
<1>11. ChannelClean'
  BY <1>1 DEF IInv, TypeOK, CallerInv, MiscInv, OutcomeInv, EngineInv, ChannelClean
<1> QED
  BY <1>3, <1>4, <1>5, <1>6, <1>7, <1>8, <1>9, <1>10, <1>11 DEF IInv, CallerInv

\* One more word of the message is in place.
LEMMA WriteCmd_IInv ==
  ASSUME IInv, NEW c \in Callers, WriteCmd(c)
  PROVE  IInv'
<1> USE DEF WriteCmd, Goto, hwVars
<1>1. schan_mutex = c /\ pc[c] \in Critical /\ c # NoCaller
  BY SchanAssumption DEF IInv, MutexInv, Critical
<1>2. \A d \in Callers \ {c} : pc[d] \in {"idle", "lock"} /\ pc'[d] = pc[d]
  BY <1>1 DEF IInv, TypeOK, MutexInv
<1>3. TypeOK'
  BY DEF IInv, TypeOK, CallerInv, WrittenInv, Critical, Untouched, Words, Word, Regs, MISC,
     MaxWords
<1>4. MutexInv'
  BY SchanAssumption, <1>1, <1>2 DEF IInv, TypeOK, MutexInv, Critical
<1>5. EngineInv' /\ MessageOwned'
  BY <1>1 DEF IInv, TypeOK, EngineInv, MessageOwned, CallerInv, OutcomeInv
<1>6. WrittenInv(c)'
  <2>1. /\ i[c] \in 0 .. MaxWords - 1 /\ i[c] < len[c] /\ len[c] \in 1 .. MaxWords
        /\ i'[c] = i[c] + 1 /\ len'[c] = len[c]
    <3>1. /\ i[c] \in 0 .. MaxWords /\ i[c] < len[c] /\ len[c] \in 1 .. MaxWords
          /\ i'[c] = i[c] + 1 /\ len'[c] = len[c]
      BY DEF IInv, TypeOK, CallerInv, WrittenInv
    <3> QED
      BY <3>1 DEF MaxWords
  <2>2. ASSUME NEW k \in 0 .. i[c] PROVE D'[k] = Word(c, k, FALSE)
    <3>1. CASE k = i[c]
      BY <2>1, <3>1 DEF IInv, TypeOK, Regs
    <3>2. CASE k # i[c]
      <4>1. k \in 0 .. i[c] - 1 /\ k \in Regs
        BY <2>1, <3>2 DEF Regs, MaxWords
      <4> QED
        BY <3>2, <4>1 DEF IInv, TypeOK, CallerInv, WrittenInv
    <3> QED
      BY <3>1, <3>2
  <2>3. CASE i[c] + 1 = len[c]
    <3>1. pc'[c] = "misc" /\ \A k \in 0 .. len'[c] - 1 : k \in 0 .. i[c]
      BY <2>1, <2>3 DEF IInv, TypeOK, MaxWords
    <3> QED
      BY <2>2, <3>1 DEF WrittenInv
  <2>4. CASE i[c] + 1 # len[c]
    <3>1. /\ pc'[c] = "cmd" /\ i'[c] < len'[c]
          /\ \A k \in 0 .. i'[c] - 1 : k \in 0 .. i[c]
      BY <2>1, <2>4 DEF IInv, TypeOK, MaxWords
    <3> QED
      BY <2>2, <3>1 DEF WrittenInv
  <2> QED
    BY <2>3, <2>4
<1>7. MiscInv(c)'
  <2>1. /\ i[c] \in 0 .. MaxWords /\ i'[c] = i[c] + 1
        /\ len[c] \in 1 .. MaxWords /\ len'[c] = len[c]
        /\ saved_misc'[c] = Config
    BY DEF IInv, TypeOK, CallerInv, MiscInv, Critical
  <2>2. i'[c] <= MISC => D'[MISC] = Config
    <3>1. i'[c] <= MISC => i[c] <= MISC /\ i[c] # MISC
      BY <2>1 DEF MISC, MaxWords
    <3>2. i[c] # MISC => D'[MISC] = D[MISC]
      <4>1. MISC \in Regs
        BY DEF Regs, MISC, MaxWords
      <4> QED
        BY <4>1 DEF IInv, TypeOK
    <3> QED
      BY <3>1, <3>2 DEF IInv, CallerInv, MiscInv
  <2>3. pc'[c] = "cmd" \/ (pc'[c] = "misc" /\ i'[c] = len'[c])
    BY <2>1 DEF IInv, TypeOK
  <2> QED
    BY <2>1, <2>2, <2>3 DEF MiscInv
<1>8. OutcomeInv(c)'
  BY <1>1 DEF IInv, TypeOK, CallerInv, OutcomeInv, Critical, WrittenInv
<1>9. ASSUME NEW d \in Callers \ {c}
      PROVE  WrittenInv(d)' /\ MiscInv(d)' /\ OutcomeInv(d)'
  BY <1>2 DEF IInv, TypeOK, CallerInv, WrittenInv, MiscInv, OutcomeInv, Critical
<1>10. OutcomeTruthful'
  BY <1>1 DEF IInv, TypeOK, CallerInv, OutcomeInv, OutcomeTruthful, EngineInv
<1>11. ChannelClean'
  BY <1>1 DEF IInv, TypeOK, CallerInv, MiscInv, OutcomeInv, EngineInv, ChannelClean
<1> QED
  BY <1>3, <1>4, <1>5, <1>6, <1>7, <1>8, <1>9, <1>10, <1>11 DEF IInv, CallerInv

\* MISC_CONTROL holds its value again before START.
LEMMA RestoreBeforeStart_IInv ==
  ASSUME IInv, NEW c \in Callers, RestoreBeforeStart(c)
  PROVE  IInv'
<1> USE DEF RestoreBeforeStart, Goto, hwVars
<1>1. schan_mutex = c /\ pc[c] \in Critical /\ c # NoCaller
  BY SchanAssumption DEF IInv, MutexInv, Critical
<1>2. \A d \in Callers \ {c} : pc[d] \in {"idle", "lock"} /\ pc'[d] = pc[d]
  BY <1>1 DEF IInv, TypeOK, MutexInv
<1>3. TypeOK'
  BY DEF IInv, TypeOK, CallerInv, WrittenInv, Critical, Untouched, Words, Word, Regs, MISC,
     MaxWords
<1>4. MutexInv'
  BY SchanAssumption, <1>1, <1>2 DEF IInv, TypeOK, MutexInv, Critical
<1>5. EngineInv' /\ MessageOwned'
  BY <1>1 DEF IInv, TypeOK, EngineInv, MessageOwned, CallerInv, OutcomeInv
<1>6. WrittenInv(c)'
  <2>1. \A k \in 0 .. len[c] - 1 : k # MISC => D'[k] = D[k]
    BY DEF IInv, TypeOK, Regs, MISC, MaxWords
  <2>2. \A k \in 0 .. len[c] - 1 : k # MISC => D[k] = Word(c, k, FALSE)
    BY DEF IInv, CallerInv, WrittenInv
  <2>3. pc'[c] = "start" /\ len' = len
    BY DEF IInv, TypeOK
  <2> QED
    BY <2>1, <2>2, <2>3 DEF WrittenInv
<1>7. MiscInv(c)'
  BY <1>1 DEF IInv, TypeOK, CallerInv, MiscInv, Critical, Regs, MISC, MaxWords
<1>8. OutcomeInv(c)'
  BY <1>1 DEF IInv, TypeOK, CallerInv, OutcomeInv, Critical
<1>9. ASSUME NEW d \in Callers \ {c}
      PROVE  WrittenInv(d)' /\ MiscInv(d)' /\ OutcomeInv(d)'
  BY <1>2 DEF IInv, TypeOK, CallerInv, WrittenInv, MiscInv, OutcomeInv, Critical
<1>10. OutcomeTruthful'
  BY <1>1 DEF IInv, TypeOK, CallerInv, OutcomeInv, OutcomeTruthful, EngineInv
<1>11. ChannelClean'
  BY <1>1 DEF IInv, TypeOK, CallerInv, MiscInv, OutcomeInv, EngineInv, ChannelClean
<1> QED
  BY <1>3, <1>4, <1>5, <1>6, <1>7, <1>8, <1>9, <1>10, <1>11 DEF IInv, CallerInv

\* The engine starts on the owner's message.
LEMMA Start_IInv ==
  ASSUME IInv, NEW c \in Callers, Start(c)
  PROVE  IInv'
<1> USE DEF Start, Goto, hwVars
<1>1. schan_mutex = c /\ pc[c] \in Critical /\ c # NoCaller
  BY SchanAssumption DEF IInv, MutexInv, Critical
<1>2. \A d \in Callers \ {c} : pc[d] \in {"idle", "lock"} /\ pc'[d] = pc[d]
  BY <1>1 DEF IInv, TypeOK, MutexInv
<1>3. TypeOK'
  BY DEF IInv, TypeOK, CallerInv, WrittenInv, Critical, Untouched, Words, Word, Regs, MISC,
     MaxWords
<1>4. MutexInv'
  BY SchanAssumption, <1>1, <1>2 DEF IInv, TypeOK, MutexInv, Critical
<1>5. EngineInv' /\ MessageOwned'
  <2>1. \A k \in 0 .. len[c] - 1 : k # MISC => D[k] = Word(c, k, FALSE)
    BY DEF IInv, CallerInv, WrittenInv
  <2>2. D[0] = Word(c, 0, FALSE)
    <3>1. 0 \in 0 .. len[c] - 1 /\ 0 # MISC
      <4>1. len[c] \in 1 .. MaxWords
        BY DEF IInv, TypeOK
      <4> QED
        BY <4>1 DEF MaxWords, MISC
    <3> QED
      BY <2>1, <3>1
  <2>3. engine' = "started" /\ pc'[c] = "poll"
    BY DEF IInv, TypeOK, CallerInv, MiscInv
  <2>4. ran[c] = 0 /\ "DONE" \notin ctrl' /\ "NAK" \notin ctrl'
    BY DEF IInv, CallerInv, OutcomeInv
  <2> QED
    BY <1>1, <2>1, <2>2, <2>3, <2>4 DEF EngineInv, MessageOwned
<1>6. WrittenInv(c)'
  BY <1>1 DEF IInv, TypeOK, CallerInv, WrittenInv, Critical
<1>7. MiscInv(c)'
  BY <1>1 DEF IInv, TypeOK, CallerInv, MiscInv, Critical
<1>8. OutcomeInv(c)'
  BY <1>1 DEF IInv, TypeOK, CallerInv, OutcomeInv, Critical, EngineInv, MiscInv
<1>9. ASSUME NEW d \in Callers \ {c}
      PROVE  WrittenInv(d)' /\ MiscInv(d)' /\ OutcomeInv(d)'
  BY <1>2 DEF IInv, TypeOK, CallerInv, WrittenInv, MiscInv, OutcomeInv, Critical
<1>10. OutcomeTruthful'
  BY <1>1 DEF IInv, TypeOK, CallerInv, OutcomeInv, OutcomeTruthful, EngineInv
<1>11. ChannelClean'
  BY <1>1 DEF IInv, TypeOK, CallerInv, MiscInv, OutcomeInv, EngineInv, ChannelClean
<1> QED
  BY <1>3, <1>4, <1>5, <1>6, <1>7, <1>8, <1>9, <1>10, <1>11 DEF IInv, CallerInv

\* DONE means the message ran and was answered, or was refused.
LEMMA PollDone_IInv ==
  ASSUME IInv, NEW c \in Callers, PollDone(c)
  PROVE  IInv'
<1> USE DEF PollDone, Goto, hwVars
<1>1. schan_mutex = c /\ pc[c] \in Critical /\ c # NoCaller
  BY SchanAssumption DEF IInv, MutexInv, Critical
<1>2. \A d \in Callers \ {c} : pc[d] \in {"idle", "lock"} /\ pc'[d] = pc[d]
  BY <1>1 DEF IInv, TypeOK, MutexInv
<1>3. TypeOK'
  BY DEF IInv, TypeOK, CallerInv, WrittenInv, Critical, Untouched, Words, Word, Regs, MISC,
     MaxWords
<1>4. MutexInv'
  BY SchanAssumption, <1>1, <1>2 DEF IInv, TypeOK, MutexInv, Critical
<1>5. EngineInv' /\ MessageOwned'
  BY <1>1 DEF IInv, TypeOK, EngineInv, MessageOwned, CallerInv
<1>6. WrittenInv(c)'
  BY <1>1 DEF IInv, TypeOK, CallerInv, WrittenInv, Critical
<1>7. MiscInv(c)'
  BY <1>1 DEF IInv, TypeOK, CallerInv, MiscInv, Critical
<1>8. OutcomeInv(c)'
  <2>1. engine = "idle" /\ status[c] = "none"
    BY <1>1 DEF IInv, EngineInv, CallerInv, OutcomeInv
  <2>2. then'[c] = "restore"
    BY DEF IInv, TypeOK
  <2>3. CASE "NAK" \in ctrl
    <3>1. pc'[c] = "abort" /\ status'[c] = "EIO"
      BY <2>3 DEF IInv, TypeOK
    <3> QED
      BY <2>2, <3>1 DEF OutcomeInv
  <2>4. CASE "NAK" \notin ctrl
    <3>1. pc'[c] = "read" /\ status'[c] = "none"
      BY <2>1, <2>4 DEF IInv, TypeOK
    <3>2. ran[c] = 1 /\ D[0] = Word(c, 0, TRUE)
      BY <2>1, <2>4 DEF IInv, CallerInv, OutcomeInv
    <3> QED
      BY <2>2, <3>1, <3>2 DEF OutcomeInv
  <2> QED
    BY <2>3, <2>4
<1>9. ASSUME NEW d \in Callers \ {c}
      PROVE  WrittenInv(d)' /\ MiscInv(d)' /\ OutcomeInv(d)'
  <2>1. status'[d] = status[d] /\ i' = i /\ ran' = ran
    BY DEF IInv, TypeOK
  <2> QED
    BY <1>2, <2>1 DEF IInv, CallerInv, WrittenInv, MiscInv, OutcomeInv, Critical
<1>10. OutcomeTruthful'
  BY <1>1 DEF IInv, TypeOK, CallerInv, OutcomeInv, OutcomeTruthful, EngineInv
<1>11. ChannelClean'
  BY <1>1 DEF IInv, TypeOK, CallerInv, MiscInv, OutcomeInv, EngineInv, ChannelClean
<1> QED
  BY <1>3, <1>4, <1>5, <1>6, <1>7, <1>8, <1>9, <1>10, <1>11 DEF IInv, CallerInv

\* The engine may still be running.
LEMMA PollTimeout_IInv ==
  ASSUME IInv, NEW c \in Callers, PollTimeout(c)
  PROVE  IInv'
<1> USE DEF PollTimeout, Goto, hwVars
<1>1. schan_mutex = c /\ pc[c] \in Critical /\ c # NoCaller
  BY SchanAssumption DEF IInv, MutexInv, Critical
<1>2. \A d \in Callers \ {c} : pc[d] \in {"idle", "lock"} /\ pc'[d] = pc[d]
  BY <1>1 DEF IInv, TypeOK, MutexInv
<1>3. TypeOK'
  BY DEF IInv, TypeOK, CallerInv, WrittenInv, Critical, Untouched, Words, Word, Regs, MISC,
     MaxWords
<1>4. MutexInv'
  BY SchanAssumption, <1>1, <1>2 DEF IInv, TypeOK, MutexInv, Critical
<1>5. EngineInv' /\ MessageOwned'
  BY <1>1 DEF IInv, TypeOK, EngineInv, MessageOwned, CallerInv, CallerInv, OutcomeInv
<1>6. WrittenInv(c)'
  BY <1>1 DEF IInv, TypeOK, CallerInv, WrittenInv, Critical
<1>7. MiscInv(c)'
  BY <1>1 DEF IInv, TypeOK, CallerInv, MiscInv, Critical
<1>8. OutcomeInv(c)'
  BY <1>1 DEF IInv, TypeOK, CallerInv, OutcomeInv, Critical
<1>9. ASSUME NEW d \in Callers \ {c}
      PROVE  WrittenInv(d)' /\ MiscInv(d)' /\ OutcomeInv(d)'
  BY <1>2 DEF IInv, TypeOK, CallerInv, WrittenInv, MiscInv, OutcomeInv, Critical
<1>10. OutcomeTruthful'
  BY <1>1 DEF IInv, TypeOK, CallerInv, OutcomeInv, OutcomeTruthful, EngineInv
<1>11. ChannelClean'
  BY <1>1 DEF IInv, TypeOK, CallerInv, MiscInv, OutcomeInv, EngineInv, ChannelClean
<1> QED
  BY <1>3, <1>4, <1>5, <1>6, <1>7, <1>8, <1>9, <1>10, <1>11 DEF IInv, CallerInv

\* The answer read is the caller's own.
LEMMA ReadAnswer_IInv ==
  ASSUME IInv, NEW c \in Callers, ReadAnswer(c)
  PROVE  IInv'
<1> USE DEF ReadAnswer, Goto, hwVars
<1>1. schan_mutex = c /\ pc[c] \in Critical /\ c # NoCaller
  BY SchanAssumption DEF IInv, MutexInv, Critical
<1>2. \A d \in Callers \ {c} : pc[d] \in {"idle", "lock"} /\ pc'[d] = pc[d]
  BY <1>1 DEF IInv, TypeOK, MutexInv
<1>3. TypeOK'
  BY DEF IInv, TypeOK, CallerInv, WrittenInv, Critical, Untouched, Words, Word, Regs, MISC,
     MaxWords
<1>4. MutexInv'
  BY SchanAssumption, <1>1, <1>2 DEF IInv, TypeOK, MutexInv, Critical
<1>5. EngineInv' /\ MessageOwned'
  BY <1>1 DEF IInv, TypeOK, EngineInv, MessageOwned, CallerInv, OutcomeInv
<1>6. WrittenInv(c)'
  BY <1>1 DEF IInv, TypeOK, CallerInv, WrittenInv, Critical, OutcomeInv
<1>7. MiscInv(c)'
  BY <1>1 DEF IInv, TypeOK, CallerInv, MiscInv, Critical, OutcomeInv
<1>8. OutcomeInv(c)'
  BY <1>1 DEF IInv, TypeOK, CallerInv, OutcomeInv, Critical
<1>9. ASSUME NEW d \in Callers \ {c}
      PROVE  WrittenInv(d)' /\ MiscInv(d)' /\ OutcomeInv(d)'
  BY <1>2 DEF IInv, TypeOK, CallerInv, WrittenInv, MiscInv, OutcomeInv, Critical
<1>10. OutcomeTruthful'
  BY <1>1 DEF IInv, TypeOK, CallerInv, OutcomeInv, OutcomeTruthful, EngineInv
<1>11. ChannelClean'
  BY <1>1 DEF IInv, TypeOK, CallerInv, MiscInv, OutcomeInv, EngineInv, ChannelClean
<1> QED
  BY <1>3, <1>4, <1>5, <1>6, <1>7, <1>8, <1>9, <1>10, <1>11 DEF IInv, CallerInv

\* From here on the engine is idle.
LEMMA cmice_schan_abort_IInv ==
  ASSUME IInv, NEW c \in Callers, cmice_schan_abort(c)
  PROVE  IInv'
<1> USE DEF cmice_schan_abort, Goto, hwVars
<1>1. schan_mutex = c /\ pc[c] \in Critical /\ c # NoCaller
  BY SchanAssumption DEF IInv, MutexInv, Critical
<1>2. \A d \in Callers \ {c} : pc[d] \in {"idle", "lock"} /\ pc'[d] = pc[d]
  BY <1>1 DEF IInv, TypeOK, MutexInv
<1>3. TypeOK'
  BY DEF IInv, TypeOK, CallerInv, WrittenInv, Critical, Untouched, Words, Word, Regs, MISC,
     MaxWords
<1>4. MutexInv'
  BY SchanAssumption, <1>1, <1>2 DEF IInv, TypeOK, MutexInv, Critical
<1>5. EngineInv' /\ MessageOwned'
  BY <1>1 DEF IInv, TypeOK, EngineInv, MessageOwned, CallerInv, OutcomeInv
<1>6. WrittenInv(c)'
  BY <1>1 DEF IInv, TypeOK, CallerInv, WrittenInv, Critical
<1>7. MiscInv(c)'
  BY <1>1 DEF IInv, TypeOK, CallerInv, MiscInv, Critical
<1>8. OutcomeInv(c)'
  BY <1>1 DEF IInv, TypeOK, CallerInv, OutcomeInv, Critical
<1>9. ASSUME NEW d \in Callers \ {c}
      PROVE  WrittenInv(d)' /\ MiscInv(d)' /\ OutcomeInv(d)'
  BY <1>2 DEF IInv, TypeOK, CallerInv, WrittenInv, MiscInv, OutcomeInv, Critical
<1>10. OutcomeTruthful'
  BY <1>1 DEF IInv, TypeOK, CallerInv, OutcomeInv, OutcomeTruthful, EngineInv
<1>11. ChannelClean'
  BY <1>1 DEF IInv, TypeOK, CallerInv, MiscInv, OutcomeInv, EngineInv, ChannelClean
<1> QED
  BY <1>3, <1>4, <1>5, <1>6, <1>7, <1>8, <1>9, <1>10, <1>11 DEF IInv, CallerInv

\* No bit of the channel is left set.
LEMMA ClearCtrl_IInv ==
  ASSUME IInv, NEW c \in Callers, ClearCtrl(c)
  PROVE  IInv'
<1> USE DEF ClearCtrl, Goto, hwVars
<1>1. schan_mutex = c /\ pc[c] \in Critical /\ c # NoCaller
  BY SchanAssumption DEF IInv, MutexInv, Critical
<1>2. \A d \in Callers \ {c} : pc[d] \in {"idle", "lock"} /\ pc'[d] = pc[d]
  BY <1>1 DEF IInv, TypeOK, MutexInv
<1>3. TypeOK'
  BY DEF IInv, TypeOK, CallerInv, WrittenInv, Critical, Untouched, Words, Word, Regs, MISC,
     MaxWords
<1>4. MutexInv'
  BY SchanAssumption, <1>1, <1>2 DEF IInv, TypeOK, MutexInv, Critical
<1>5. EngineInv' /\ MessageOwned'
  BY <1>1 DEF IInv, TypeOK, EngineInv, MessageOwned, CallerInv, OutcomeInv
<1>6. WrittenInv(c)'
  <2>1. CASE then[c] = "restore"
    BY <2>1 DEF IInv, TypeOK, WrittenInv
  <2>2. CASE then[c] = "cmd"
    <3>1. i'[c] = 0 /\ len'[c] \in 1 .. MaxWords /\ pc'[c] = "cmd"
      BY <2>2 DEF IInv, TypeOK, CallerInv, WrittenInv
    <3>2. i'[c] < len'[c] /\ 0 .. i'[c] - 1 = {}
      BY <3>1 DEF MaxWords
    <3> QED
      BY <3>1, <3>2 DEF WrittenInv
  <2> QED
    BY <2>1, <2>2 DEF IInv, TypeOK
<1>7. MiscInv(c)'
  BY <1>1 DEF IInv, TypeOK, CallerInv, MiscInv, Critical
<1>8. OutcomeInv(c)'
  BY <1>1 DEF IInv, TypeOK, CallerInv, OutcomeInv, Critical
<1>9. ASSUME NEW d \in Callers \ {c}
      PROVE  WrittenInv(d)' /\ MiscInv(d)' /\ OutcomeInv(d)'
  BY <1>2 DEF IInv, TypeOK, CallerInv, WrittenInv, MiscInv, OutcomeInv, Critical
<1>10. OutcomeTruthful'
  BY <1>1 DEF IInv, TypeOK, CallerInv, OutcomeInv, OutcomeTruthful, EngineInv
<1>11. ChannelClean'
  BY <1>1 DEF IInv, TypeOK, CallerInv, MiscInv, OutcomeInv, EngineInv, ChannelClean
<1> QED
  BY <1>3, <1>4, <1>5, <1>6, <1>7, <1>8, <1>9, <1>10, <1>11 DEF IInv, CallerInv

\* The copy goes back into the register.
LEMMA RestoreMisc_IInv ==
  ASSUME IInv, NEW c \in Callers, RestoreMisc(c)
  PROVE  IInv'
<1> USE DEF RestoreMisc, Goto, hwVars
<1>1. schan_mutex = c /\ pc[c] \in Critical /\ c # NoCaller
  BY SchanAssumption DEF IInv, MutexInv, Critical
<1>2. \A d \in Callers \ {c} : pc[d] \in {"idle", "lock"} /\ pc'[d] = pc[d]
  BY <1>1 DEF IInv, TypeOK, MutexInv
<1>3. TypeOK'
  BY DEF IInv, TypeOK, CallerInv, WrittenInv, Critical, Untouched, Words, Word, Regs, MISC,
     MaxWords
<1>4. MutexInv'
  BY SchanAssumption, <1>1, <1>2 DEF IInv, TypeOK, MutexInv, Critical
<1>5. EngineInv' /\ MessageOwned'
  BY <1>1 DEF IInv, TypeOK, EngineInv, MessageOwned, CallerInv, OutcomeInv
<1>6. WrittenInv(c)'
  BY <1>1 DEF IInv, TypeOK, CallerInv, WrittenInv, Critical
<1>7. MiscInv(c)'
  BY <1>1 DEF IInv, TypeOK, CallerInv, MiscInv, Critical, Regs, MISC, MaxWords
<1>8. OutcomeInv(c)'
  BY <1>1 DEF IInv, TypeOK, CallerInv, OutcomeInv, Critical
<1>9. ASSUME NEW d \in Callers \ {c}
      PROVE  WrittenInv(d)' /\ MiscInv(d)' /\ OutcomeInv(d)'
  BY <1>2 DEF IInv, TypeOK, CallerInv, WrittenInv, MiscInv, OutcomeInv, Critical
<1>10. OutcomeTruthful'
  BY <1>1 DEF IInv, TypeOK, CallerInv, OutcomeInv, OutcomeTruthful, EngineInv
<1>11. ChannelClean'
  BY <1>1 DEF IInv, TypeOK, CallerInv, MiscInv, OutcomeInv, EngineInv, ChannelClean
<1> QED
  BY <1>3, <1>4, <1>5, <1>6, <1>7, <1>8, <1>9, <1>10, <1>11 DEF IInv, CallerInv

\* The channel is clean when the mutex is released.
LEMMA Unlock_IInv ==
  ASSUME IInv, NEW c \in Callers, Unlock(c)
  PROVE  IInv'
<1> USE DEF Unlock, Goto, hwVars
<1>1. schan_mutex = c /\ pc[c] \in Critical /\ c # NoCaller
  BY SchanAssumption DEF IInv, MutexInv, Critical
<1>2. \A d \in Callers \ {c} : pc[d] \in {"idle", "lock"} /\ pc'[d] = pc[d]
  BY <1>1 DEF IInv, TypeOK, MutexInv
<1>3. TypeOK'
  BY DEF IInv, TypeOK, CallerInv, WrittenInv, Critical, Untouched, Words, Word, Regs, MISC,
     MaxWords
<1>4. MutexInv'
  BY SchanAssumption, <1>1, <1>2 DEF IInv, TypeOK, MutexInv, Critical
<1>5. EngineInv' /\ MessageOwned'
  BY <1>1 DEF IInv, TypeOK, EngineInv, MessageOwned, CallerInv, OutcomeInv
<1>6. WrittenInv(c)'
  BY <1>1 DEF IInv, TypeOK, CallerInv, WrittenInv, Critical
<1>7. MiscInv(c)'
  BY <1>1 DEF IInv, TypeOK, CallerInv, MiscInv, Critical
<1>8. OutcomeInv(c)'
  BY <1>1 DEF IInv, TypeOK, CallerInv, OutcomeInv, Critical
<1>9. ASSUME NEW d \in Callers \ {c}
      PROVE  WrittenInv(d)' /\ MiscInv(d)' /\ OutcomeInv(d)'
  BY <1>2 DEF IInv, TypeOK, CallerInv, WrittenInv, MiscInv, OutcomeInv, Critical
<1>10. OutcomeTruthful'
  BY <1>1 DEF IInv, TypeOK, CallerInv, OutcomeInv, OutcomeTruthful, EngineInv
<1>11. ChannelClean'
  BY <1>1 DEF IInv, TypeOK, CallerInv, MiscInv, OutcomeInv, EngineInv, ChannelClean
<1> QED
  BY <1>3, <1>4, <1>5, <1>6, <1>7, <1>8, <1>9, <1>10, <1>11 DEF IInv, CallerInv

-----------------------------------------------------------------------------
(* The chip's steps                                                        *)

\* The message that runs is the owner's, which had not run before.
LEMMA EngineRun_IInv ==
  ASSUME IInv, EngineRun
  PROVE  IInv'
<1> DEFINE c == schan_mutex
<1>0. /\ engine = "started" /\ engine' = "ran"
      /\ ran' = [ran EXCEPT ![D[0].caller] = IF @ = 2 THEN 2 ELSE @ + 1]
      /\ UNCHANGED <<schan_mutex, pc, then, len, i, saved_misc, status, data, D, ctrl>>
  BY DEF EngineRun
<1>1. /\ c \in Callers /\ pc[c] \in {"poll", "abort"}
      /\ pc[c] = "abort" => status[c] = "ETIMEDOUT"
      /\ pc[c] = "poll" => status[c] = "none"
      /\ D[0] = Word(c, 0, FALSE) /\ ran[c] = 0
  BY <1>0 DEF IInv, EngineInv, CallerInv, OutcomeInv
<1>2. D[0].caller = c
  BY <1>1 DEF Word
<1>3. ran' = [ran EXCEPT ![c] = 1]
  <2>1. ran' = [ran EXCEPT ![c] = IF ran[c] = 2 THEN 2 ELSE ran[c] + 1]
    BY <1>0, <1>2
  <2> QED
    BY <1>1, <2>1
<1>4. \A d \in Callers \ {c} : pc[d] \notin Critical /\ ran'[d] = ran[d]
  BY <1>3 DEF IInv, TypeOK, MutexInv
<1>5. ran'[c] = 1
  BY <1>1, <1>3 DEF IInv, TypeOK
<1> HIDE DEF c
<1>6. TypeOK'
  <2>1. ran' \in [Callers -> 0 .. 2]
    BY <1>1, <1>3 DEF IInv, TypeOK
  <2> QED
    BY <1>0, <2>1 DEF IInv, TypeOK
<1>7. MutexInv'
  BY <1>0 DEF IInv, MutexInv
<1>8. EngineInv' /\ MessageOwned'
  BY <1>0, <1>1, <1>5 DEF IInv, EngineInv, MessageOwned, c
<1>9. ASSUME NEW d \in Callers
      PROVE  WrittenInv(d)' /\ MiscInv(d)'
  BY <1>0 DEF IInv, CallerInv, WrittenInv, MiscInv
<1>10. ASSUME NEW d \in Callers
       PROVE  OutcomeInv(d)'
  <2>1. CASE d = c
    BY <1>0, <1>1, <2>1 DEF IInv, CallerInv, OutcomeInv
  <2>2. CASE d # c
    BY <1>0, <1>4, <2>2 DEF IInv, TypeOK, CallerInv, OutcomeInv, Critical
  <2> QED
    BY <2>1, <2>2
<1>11. OutcomeTruthful'
  <2>1. status'[c] \in {"none", "ETIMEDOUT"}
    BY <1>0, <1>1
  <2>2. ASSUME NEW d \in Callers
        PROVE  /\ ran'[d] <= 1
               /\ status'[d] = "ok" => ran'[d] = 1 /\ data'[d][0] = Word(d, 0, TRUE)
               /\ status'[d] \in {"EIO", "EINTR"} => ran'[d] = 0
    <3>1. CASE d = c
      <4>1. ran'[d] = 1 /\ status'[d] \in {"none", "ETIMEDOUT"}
        BY <1>5, <2>1, <3>1
      <4>2. ran'[d] <= 1
        BY <4>1
      <4> QED
        BY <4>1, <4>2
    <3>2. CASE d # c
      BY <1>0, <1>4, <3>2 DEF IInv, OutcomeTruthful
    <3> QED
      BY <3>1, <3>2
  <2> QED
    BY <2>2 DEF OutcomeTruthful
<1>12. ChannelClean'
  BY SchanAssumption, <1>0, <1>1 DEF ChannelClean, c
<1> QED
  BY <1>6, <1>7, <1>8, <1>9, <1>10, <1>11, <1>12 DEF IInv, CallerInv

\* The answer is addressed to the owner.
LEMMA EngineAnswer_IInv ==
  ASSUME IInv, NEW n \in Lens, EngineAnswer(n)
  PROVE  IInv'
<1> DEFINE c == schan_mutex
<1>0. /\ engine = "ran" /\ engine' = "idle"
      /\ D' = [k \in Regs |-> IF k < n THEN Word(D[0].caller, k, TRUE) ELSE D[k]]
      /\ ctrl' = ctrl \cup {"DONE"}
      /\ UNCHANGED <<schan_mutex, pc, then, len, i, saved_misc, status, data, ran>>
  BY DEF EngineAnswer
<1>1. /\ c \in Callers /\ pc[c] \in {"poll", "abort"}
      /\ pc[c] = "abort" => status[c] = "ETIMEDOUT"
      /\ D[0] = Word(c, 0, FALSE) /\ ran[c] = 1 /\ "NAK" \notin ctrl
  BY <1>0 DEF IInv, EngineInv
<1>2. D[0].caller = c
  BY <1>1 DEF Word
<1>3. D' = [k \in Regs |-> IF k < n THEN Word(c, k, TRUE) ELSE D[k]]
  BY <1>0, <1>2
<1>4. D'[0] = Word(c, 0, TRUE)
  <2>1. 0 \in Regs /\ 0 < n
    BY SchanAssumption DEF Regs, MaxWords
  <2> QED
    BY <1>3, <2>1
<1>5. \A d \in Callers \ {c} : pc[d] \in {"idle", "lock"}
  BY DEF IInv, TypeOK, MutexInv
<1> HIDE DEF c
<1>6. TypeOK'
  <2>1. \A k \in Regs : Word(c, k, TRUE) \in Words
    BY <1>1 DEF Words, Word
  <2>2. D' \in [Regs -> Words]
    BY <1>3, <2>1 DEF IInv, TypeOK
  <2> QED
    BY <1>0, <2>2 DEF IInv, TypeOK
<1>7. MutexInv' /\ EngineInv' /\ MessageOwned'
  BY <1>0 DEF IInv, MutexInv, EngineInv, MessageOwned
<1>8. ASSUME NEW d \in Callers
      PROVE  WrittenInv(d)' /\ MiscInv(d)' /\ OutcomeInv(d)'
  <2>1. CASE d = c
    <3>1. pc[c] = "abort" => then[c] = "restore"
      BY <1>1 DEF IInv, TypeOK, CallerInv, OutcomeInv
    <3>2. WrittenInv(d)' /\ MiscInv(d)'
      BY <1>0, <1>1, <2>1, <3>1 DEF IInv, CallerInv, WrittenInv, MiscInv, Critical
    <3>3. OutcomeInv(d)'
      BY <1>0, <1>1, <1>4, <2>1, <3>1 DEF IInv, CallerInv, OutcomeInv
    <3> QED
      BY <3>2, <3>3
  <2>2. CASE d # c
    <3>1. pc'[d] \in {"idle", "lock"} /\ pc'[d] = pc[d]
      BY <1>0, <1>5, <2>2
    <3>2. WrittenInv(d)'
      BY <1>0, <3>1 DEF IInv, CallerInv, WrittenInv
    <3>3. MiscInv(d)'
      BY <3>1 DEF MiscInv, Critical
    <3>4. OutcomeInv(d)'
      BY <1>0, <3>1 DEF IInv, CallerInv, OutcomeInv
    <3> QED
      BY <3>2, <3>3, <3>4
  <2> QED
    BY <2>1, <2>2
<1>9. OutcomeTruthful'
  BY <1>0 DEF IInv, OutcomeTruthful
<1>10. ChannelClean'
  BY SchanAssumption, <1>0, <1>1 DEF ChannelClean, c
<1> QED
  BY <1>6, <1>7, <1>8, <1>9, <1>10 DEF IInv, CallerInv

\* A message that is refused has not run.
LEMMA EngineNak_IInv ==
  ASSUME IInv, EngineNak
  PROVE  IInv'
<1> USE DEF EngineNak
<1> DEFINE c == schan_mutex
<1>1. /\ c \in Callers /\ pc[c] \in {"poll", "abort"} /\ ran[c] = 0
      /\ pc[c] = "abort" => status[c] = "ETIMEDOUT"
  BY DEF IInv, EngineInv
<1>2. \A d \in Callers \ {c} : pc[d] \in {"idle", "lock"}
  BY DEF IInv, TypeOK, MutexInv
<1> HIDE DEF c
<1>3. TypeOK'
  BY DEF IInv, TypeOK
<1>4. MutexInv' /\ EngineInv' /\ MessageOwned'
  BY DEF IInv, MutexInv, EngineInv, MessageOwned
<1>5. ASSUME NEW d \in Callers
      PROVE  WrittenInv(d)' /\ MiscInv(d)'
  BY DEF IInv, CallerInv, WrittenInv, MiscInv
<1>6. ASSUME NEW d \in Callers
      PROVE  OutcomeInv(d)'
  BY <1>1, <1>2 DEF IInv, CallerInv, OutcomeInv
<1>7. OutcomeTruthful' /\ ChannelClean'
  BY SchanAssumption, <1>1 DEF IInv, OutcomeTruthful, ChannelClean, c
<1> QED
  BY <1>3, <1>4, <1>5, <1>6, <1>7 DEF IInv, CallerInv

\* The MIIM engine's bits are none of the channel's.
LEMMA Miim_IInv ==
  ASSUME IInv, Miim
  PROVE  IInv'
<1> USE DEF Miim
<1>1. /\ \A b \in {"START", "DONE", "ABORT", "NAK"} : b \in ctrl' <=> b \in ctrl
      /\ ctrl \subseteq {"MIIM"} => ctrl' \subseteq {"MIIM"}
  OBVIOUS
<1>2. TypeOK'
  BY DEF IInv, TypeOK
<1>3. MutexInv' /\ MessageOwned' /\ OutcomeTruthful'
  BY DEF IInv, MutexInv, MessageOwned, OutcomeTruthful
<1>4. EngineInv' /\ ChannelClean'
  BY <1>1 DEF IInv, EngineInv, ChannelClean
<1>5. ASSUME NEW d \in Callers
      PROVE  WrittenInv(d)' /\ MiscInv(d)' /\ OutcomeInv(d)'
  BY <1>1 DEF IInv, CallerInv, WrittenInv, MiscInv, OutcomeInv
<1> QED
  BY <1>2, <1>3, <1>4, <1>5 DEF IInv, CallerInv

-----------------------------------------------------------------------------
(* Theorems                                                                *)

\* IInv is inductive: no interleaving of callers, chip and MIIM breaks it.
THEOREM Inductive == Spec => []IInv
<1>1. IInv /\ [Next]_vars => IInv'
  <2> SUFFICES ASSUME IInv, [Next]_vars PROVE IInv'
    OBVIOUS
  <2>1. ASSUME NEW c \in Callers, Step(c) PROVE IInv'
    BY <2>1, Lock_IInv, SaveMisc_IInv, CheckCtrl_IInv, WriteCmd_IInv,
       RestoreBeforeStart_IInv, Start_IInv, PollDone_IInv, PollTimeout_IInv,
       ReadAnswer_IInv, cmice_schan_abort_IInv, ClearCtrl_IInv, RestoreMisc_IInv,
       Unlock_IInv DEF Step
  <2>2. ASSUME NEW c \in Callers, Interrupted(c) \/ (\E l \in Lens : Call(c, l)) PROVE IInv'
    BY <2>2, Interrupted_IInv, Call_IInv
  <2>3. CASE Engine
    BY <2>3, EngineRun_IInv, EngineNak_IInv, EngineAnswer_IInv DEF Engine
  <2>4. CASE Miim
    BY <2>4, Miim_IInv
  <2>5. CASE UNCHANGED vars
    <3>1. TypeOK' /\ MutexInv' /\ OutcomeTruthful'
      BY <2>5 DEF vars, hwVars, IInv, TypeOK, MutexInv, OutcomeTruthful
    <3>2. EngineInv' /\ MessageOwned' /\ ChannelClean'
      BY <2>5 DEF vars, hwVars, IInv, EngineInv, MessageOwned, ChannelClean
    <3>3. CallerInv'
      BY <2>5 DEF vars, hwVars, IInv, CallerInv, WrittenInv, MiscInv, OutcomeInv
    <3> QED
      BY <3>1, <3>2, <3>3 DEF IInv
  <2> QED
    BY <2>1, <2>2, <2>3, <2>4, <2>5 DEF Next
<1> QED
  BY <1>1, InitIInv, PTL DEF Spec

\* Every register and every caller's state keeps its type; in particular no
\* message is written past the last SCHAN_D register.
THEOREM TypeCorrect == Spec => []TypeOK
<1>1. IInv => TypeOK
  BY DEF IInv
<1> QED
  BY <1>1, Inductive, PTL

\* The chip never starts on a message mixed from two callers' words.
THEOREM MessagesOwned == Spec => []MessageOwned
<1>1. IInv => MessageOwned
  BY DEF IInv
<1> QED
  BY <1>1, Inductive, PTL

\* A caller is told what became of its message.
THEOREM OutcomesTruthful == Spec => []OutcomeTruthful
<1>1. IInv => OutcomeTruthful
  BY DEF IInv
<1> QED
  BY <1>1, Inductive, PTL

\* Every exit path leaves the channel enabled, idle and clear.
THEOREM ChannelAlwaysClean == Spec => []ChannelClean
<1>1. IInv => ChannelClean
  BY DEF IInv
<1> QED
  BY <1>1, Inductive, PTL
=============================================================================

-------------------------------- MODULE Schan --------------------------------
(***************************************************************************)
(* The S-Channel: nos_bde_schan_op() of the kernel driver                  *)
(* (bde/nos_kernel_bde.c) called through the ioctl by the threads of       *)
(* nos-switchd (sdk/src/bde_ioctl.c, bde/nos_user_bde.c), and the chip's   *)
(* side of it (external).                                                  *)
(*                                                                         *)
(* A message is written word by word to the registers SCHAN_D(0..), one of *)
(* which, D(7), is also the CMIC_MISC_CONTROL register whose bit 0 enables *)
(* the channel.  The answer comes back in the same registers.  SCHAN_CTRL  *)
(* is shared with the MIIM engine, whose status bits other threads set and *)
(* clear without taking the mutex.                                         *)
(*                                                                         *)
(* Data abstraction: a word is known by the caller it was written for or   *)
(* read for, its position, and whether it is part of an answer.            *)
(***************************************************************************)
EXTENDS Naturals

CONSTANTS
  Callers,  \* the threads that call bde_schan_op()
  Lens,     \* the lengths of the messages they send, in words
  NoCaller, \* the mutex is free
  Config    \* the configured value of CMIC_MISC_CONTROL

MaxWords == 16 \* words the ioctl carries, either way
MISC == 7      \* CMIC_MISC_CONTROL is SCHAN_D(7)
Regs == 0 .. MaxWords - 1

ASSUME SchanAssumption ==
  /\ NoCaller \notin Callers
  /\ Lens \subseteq 1 .. MaxWords

VARIABLES
  schan_mutex, \* its owner, or NoCaller
  pc,          \* where each caller is
  then,        \* where it goes on after cmice_schan_abort()
  len,         \* cmd_words
  i,           \* the loop counter
  saved_misc,
  status,      \* what the caller gets: "none", "ok", "EIO", "ETIMEDOUT", "EINTR"
  data,        \* the answer it gets
  D,           \* hardware: SCHAN_D(0 .. 15)
  ctrl,        \* hardware: the bits of SCHAN_CTRL that are set
  engine,      \* hardware: "idle", "started" or "ran"
  ran          \* how often the chip has run the caller's current message

hwVars == <<D, ctrl, engine, ran>>
vars == <<schan_mutex, pc, then, len, i, saved_misc, status, data, hwVars>>

Word(c, k, answer) == [caller |-> c, at |-> k, answer |-> answer]
Words == [caller : Callers, at : Regs, answer : BOOLEAN] \cup {Config}
Untouched == [k \in Regs |-> Config] \* CMIC's own content

Critical == {"save", "check", "cmd", "misc", "start", "poll", "read", "abort", "clear",
             "restore", "unlock"}

TypeOK ==
  /\ schan_mutex \in Callers \cup {NoCaller}
  /\ pc \in [Callers -> {"idle", "lock"} \cup Critical]
  /\ then \in [Callers -> {"cmd", "restore"}]
  /\ len \in [Callers -> 1 .. MaxWords]
  /\ i \in [Callers -> 0 .. MaxWords]
  /\ saved_misc \in [Callers -> Words]
  /\ status \in [Callers -> {"none", "ok", "EIO", "ETIMEDOUT", "EINTR"}]
  /\ data \in [Callers -> [Regs -> Words]]
  /\ D \in [Regs -> Words]
  /\ ctrl \subseteq {"START", "DONE", "ABORT", "NAK", "MIIM"}
  /\ engine \in {"idle", "started", "ran"}
  /\ ran \in [Callers -> 0 .. 2]

\* After init: the channel is enabled and the registers hold nothing of ours.
Init ==
  /\ schan_mutex = NoCaller
  /\ pc = [c \in Callers |-> "idle"]
  /\ then = [c \in Callers |-> "cmd"]
  /\ len = [c \in Callers |-> 1]
  /\ i = [c \in Callers |-> 0]
  /\ saved_misc = [c \in Callers |-> Config]
  /\ status = [c \in Callers |-> "none"]
  /\ data = [c \in Callers |-> Untouched]
  /\ D = Untouched
  /\ ctrl = {}
  /\ engine = "idle"
  /\ ran = [c \in Callers |-> 0]

Goto(c, l) == pc' = [pc EXCEPT ![c] = l]

-----------------------------------------------------------------------------
(* The caller                                                              *)

\* bde_schan_op() and the ioctl: up to the mutex nothing is shared.
Call(c, l) ==
  /\ pc[c] = "idle"
  /\ Goto(c, "lock")
  /\ len' = [len EXCEPT ![c] = l]
  /\ i' = [i EXCEPT ![c] = 0]
  /\ status' = [status EXCEPT ![c] = "none"]
  /\ data' = [data EXCEPT ![c] = Untouched]
  /\ ran' = [ran EXCEPT ![c] = 0]
  /\ UNCHANGED <<schan_mutex, then, saved_misc, D, ctrl, engine>>

\* Bug: the mutex is not waited for.
Bug_Lock(c) ==
  /\ pc[c] = "lock"
  /\ schan_mutex' = c
  /\ Goto(c, "save")
  /\ UNCHANGED <<then, len, i, saved_misc, status, data, hwVars>>

\* mutex_lock_interruptible()
Lock(c) ==
  /\ pc[c] = "lock"
  /\ schan_mutex = NoCaller
  /\ schan_mutex' = c
  /\ Goto(c, "save")
  /\ UNCHANGED <<then, len, i, saved_misc, status, data, hwVars>>

Interrupted(c) ==
  /\ pc[c] = "lock"
  /\ Goto(c, "idle")
  /\ status' = [status EXCEPT ![c] = "EINTR"]
  /\ UNCHANGED <<schan_mutex, then, len, i, saved_misc, data, hwVars>>

SaveMisc(c) ==
  /\ pc[c] = "save"
  /\ saved_misc' = [saved_misc EXCEPT ![c] = D[MISC]]
  /\ Goto(c, "check")
  /\ UNCHANGED <<schan_mutex, then, len, i, status, data, hwVars>>

CheckCtrl(c) ==
  /\ pc[c] = "check"
  /\ Goto(c, IF ctrl # {} THEN "abort" ELSE "cmd")
  /\ then' = [then EXCEPT ![c] = "cmd"]
  /\ UNCHANGED <<schan_mutex, len, i, saved_misc, status, data, hwVars>>

\* Bug: the loop covers the ioctl's array and one word more.
Bug_WriteCmd(c) ==
  /\ pc[c] = "cmd"
  /\ D' = [D EXCEPT ![i[c]] = Word(c, i[c], FALSE)]
  /\ i' = [i EXCEPT ![c] = @ + 1]
  /\ Goto(c, IF i[c] = MaxWords THEN "misc" ELSE "cmd")
  /\ UNCHANGED <<schan_mutex, then, len, saved_misc, status, data, ctrl, engine, ran>>

WriteCmd(c) ==
  /\ pc[c] = "cmd"
  /\ D' = [D EXCEPT ![i[c]] = Word(c, i[c], FALSE)]
  /\ i' = [i EXCEPT ![c] = @ + 1]
  /\ Goto(c, IF i[c] + 1 = len[c] THEN "misc" ELSE "cmd")
  /\ UNCHANGED <<schan_mutex, then, len, saved_misc, status, data, ctrl, engine, ran>>

\* "cmd may have clobbered it"
RestoreBeforeStart(c) ==
  /\ pc[c] = "misc"
  /\ D' = IF len[c] > MISC THEN [D EXCEPT ![MISC] = saved_misc[c]] ELSE D
  /\ Goto(c, "start")
  /\ UNCHANGED <<schan_mutex, then, len, i, saved_misc, status, data, ctrl, engine, ran>>

Start(c) ==
  /\ pc[c] = "start"
  /\ ctrl' = ctrl \cup {"START"}
  /\ engine' = IF D[MISC] = Config THEN "started" ELSE engine
  /\ Goto(c, "poll")
  /\ UNCHANGED <<schan_mutex, then, len, i, saved_misc, status, data, D, ran>>

\* Bug: DONE alone is taken for success.
Bug_PollDone(c) ==
  /\ pc[c] = "poll"
  /\ "DONE" \in ctrl
  /\ Goto(c, "read")
  /\ then' = [then EXCEPT ![c] = "restore"]
  /\ UNCHANGED <<schan_mutex, len, i, saved_misc, status, data, hwVars>>

\* The poll that sees DONE.  TIMEOUT and NAK are treated alike.
PollDone(c) ==
  /\ pc[c] = "poll"
  /\ "DONE" \in ctrl
  /\ IF "NAK" \in ctrl
       THEN /\ status' = [status EXCEPT ![c] = "EIO"]
            /\ Goto(c, "abort")
       ELSE /\ Goto(c, "read")
            /\ UNCHANGED status
  /\ then' = [then EXCEPT ![c] = "restore"]
  /\ UNCHANGED <<schan_mutex, len, i, saved_misc, data, hwVars>>

\* Bug: a timeout returns at once.
Bug_PollTimeout(c) ==
  /\ pc[c] = "poll"
  /\ status' = [status EXCEPT ![c] = "ETIMEDOUT"]
  /\ Goto(c, "unlock")
  /\ UNCHANGED <<schan_mutex, then, len, i, saved_misc, data, hwVars>>

\* The deadline passes; DONE is not looked at again.
PollTimeout(c) ==
  /\ pc[c] = "poll"
  /\ status' = [status EXCEPT ![c] = "ETIMEDOUT"]
  /\ then' = [then EXCEPT ![c] = "restore"]
  /\ Goto(c, "abort")
  /\ UNCHANGED <<schan_mutex, len, i, saved_misc, data, hwVars>>

ReadAnswer(c) ==
  /\ pc[c] = "read"
  /\ data' = [data EXCEPT ![c] = D]
  /\ status' = [status EXCEPT ![c] = "ok"]
  /\ Goto(c, "abort")
  /\ UNCHANGED <<schan_mutex, then, len, i, saved_misc, hwVars>>

\* cmice_schan_abort(): the ABORT bit stops the engine; 100 us later the bits
\* of the channel, but not those of the MIIM engine, are cleared.
cmice_schan_abort(c) ==
  /\ pc[c] = "abort"
  /\ ctrl' = ctrl \cup {"ABORT"}
  /\ engine' = "idle"
  /\ Goto(c, "clear")
  /\ UNCHANGED <<schan_mutex, then, len, i, saved_misc, status, data, D, ran>>

ClearCtrl(c) ==
  /\ pc[c] = "clear"
  /\ ctrl' = ctrl \ {"ABORT", "START", "DONE", "NAK"}
  /\ Goto(c, then[c])
  /\ UNCHANGED <<schan_mutex, then, len, i, saved_misc, status, data, D, engine, ran>>

RestoreMisc(c) ==
  /\ pc[c] = "restore"
  /\ D' = [D EXCEPT ![MISC] = saved_misc[c]]
  /\ Goto(c, "unlock")
  /\ UNCHANGED <<schan_mutex, then, len, i, saved_misc, status, data, ctrl, engine, ran>>

\* Bug: a path that returns with the mutex held.
Bug_Unlock(c) ==
  /\ pc[c] = "unlock"
  /\ schan_mutex' = IF status[c] = "EIO" THEN c ELSE NoCaller
  /\ Goto(c, "idle")
  /\ UNCHANGED <<then, len, i, saved_misc, status, data, hwVars>>

Unlock(c) ==
  /\ pc[c] = "unlock"
  /\ schan_mutex' = NoCaller
  /\ Goto(c, "idle")
  /\ UNCHANGED <<then, len, i, saved_misc, status, data, hwVars>>

-----------------------------------------------------------------------------
(* The chip                                                                *)

\* The engine runs the message of the caller whose header is in D(0).
EngineRun ==
  /\ engine = "started"
  /\ engine' = "ran"
  /\ ran' = [ran EXCEPT ![D[0].caller] = IF @ = 2 THEN 2 ELSE @ + 1]
  /\ UNCHANGED <<schan_mutex, pc, then, len, i, saved_misc, status, data, D, ctrl>>

\* The answer, n words long, overwrites the message.
EngineAnswer(n) ==
  /\ engine = "ran"
  /\ engine' = "idle"
  /\ D' = [k \in Regs |-> IF k < n THEN Word(D[0].caller, k, TRUE) ELSE D[k]]
  /\ ctrl' = ctrl \cup {"DONE"}
  /\ UNCHANGED <<schan_mutex, pc, then, len, i, saved_misc, status, data, ran>>

\* The message is refused.
EngineNak ==
  /\ engine = "started"
  /\ engine' = "idle"
  /\ ctrl' = ctrl \cup {"DONE", "NAK"}
  /\ UNCHANGED <<schan_mutex, pc, then, len, i, saved_misc, status, data, D, ran>>

\* miim_read() and miim_write() of another thread use other bits of SCHAN_CTRL.
Miim ==
  /\ ctrl' = IF "MIIM" \in ctrl THEN ctrl \ {"MIIM"} ELSE ctrl \cup {"MIIM"}
  /\ UNCHANGED <<schan_mutex, pc, then, len, i, saved_misc, status, data, D, engine, ran>>

-----------------------------------------------------------------------------
Step(c) ==
  \/ Lock(c) \/ SaveMisc(c) \/ CheckCtrl(c) \/ WriteCmd(c) \/ RestoreBeforeStart(c)
  \/ Start(c) \/ PollDone(c) \/ PollTimeout(c) \/ ReadAnswer(c) \/ cmice_schan_abort(c)
  \/ ClearCtrl(c) \/ RestoreMisc(c) \/ Unlock(c)

Engine == EngineRun \/ EngineNak \/ (\E n \in Lens : EngineAnswer(n))

Next ==
  \/ \E c \in Callers : Step(c) \/ Interrupted(c) \/ (\E l \in Lens : Call(c, l))
  \/ Engine
  \/ Miim

Spec == Init /\ [][Next]_vars

\* A caller inside the function runs on, and the deadline of the poll passes.
\* The kernel hands the mutex to every waiter in turn.  Nothing is asked of the
\* chip, which may never answer.
FairSpec ==
  /\ Spec
  /\ \A c \in Callers : WF_vars(Step(c)) /\ SF_vars(Lock(c))

-----------------------------------------------------------------------------
(* Properties                                                              *)

\* nos_kernel_bde.c: without the mutex "concurrent callers ... corrupt each
\* other's MSG register writes".  With it, the message the chip starts on is
\* that of the mutex's owner, from its first word to its last (the word that
\* MISC_CONTROL is restored over set apart, see MessageIntact).
MessageOwned ==
  engine = "started" =>
    /\ schan_mutex \in Callers
    /\ \A k \in 0 .. len[schan_mutex] - 1 : k # MISC => D[k] = Word(schan_mutex, k, FALSE)

\* What a caller is told is what happened: success means the chip ran its
\* message, once, and the answer is its own; an error reported by the chip or
\* an interrupted wait means it was not run; only after a timeout may it have
\* been run or not.
OutcomeTruthful ==
  \A c \in Callers :
    /\ ran[c] <= 1
    /\ status[c] = "ok" => ran[c] = 1 /\ data[c][0] = Word(c, 0, TRUE)
    /\ status[c] \in {"EIO", "EINTR"} => ran[c] = 0

\* Every exit path leaves the channel usable: with the mutex free the engine is
\* idle, no bit of the channel is set, and MISC_CONTROL, which a long message
\* or a long answer overwrites, holds its configured value again.
ChannelClean ==
  schan_mutex = NoCaller =>
    engine = "idle" /\ ctrl \subseteq {"MIIM"} /\ D[MISC] = Config

\* A call returns even if the chip never answers, and whoever else is calling.
EveryCallReturns ==
  \A c \in Callers : pc[c] = "lock" ~> pc[c] = "idle"

\* nos_kernel_bde.c: the protocol writes "cmd[0..cmd_words-1] to
\* SCHAN_D(0..cmd_words-1)" and then triggers the operation: the chip starts on
\* the words the caller gave.
MessageIntact ==
  engine = "started" =>
    \A k \in 0 .. len[schan_mutex] - 1 : D[k] = Word(schan_mutex, k, FALSE)
=============================================================================

------------------------------ MODULE LinkLoop ------------------------------
(***************************************************************************)
(* The loop between the chip's link status and the kernel's interfaces:    *)
(* the link-state thread (switchd/src/link_state.c) polls the ports one    *)
(* after the other and, when a reading differs from the last one, sets or  *)
(* clears IFF_UP of the TAP device (tun_set_up() of switchd/src/tun.c);    *)
(* the kernel announces the change on the netlink socket; the netlink      *)
(* thread (handle_link()) enables or disables the port on the chip.  Cable *)
(* changes, the administrator, failing register reads and failing system   *)
(* calls interleave with the two threads.                                  *)
(*                                                                         *)
(* The chip's link status is taken to be that of the line, enabled or not  *)
(* (the PCS status, which ports 49 to 52 use, is: it lies before the MAC). *)
(***************************************************************************)
EXTENDS Port, Sequences

CONSTANTS
  OtherFlags, \* interface flags other than IFF_UP that an administrator sets
  \* Bounds on what the environment does:
  MaxFlaps,      \* changes of the lines
  MaxAdmin,      \* changes of flags by the administrator
  MaxReadFaults, \* failing reads of the link status
  MaxTunFaults   \* failing calls of tun_set_up()

ASSUME LinkLoopAssumption ==
  /\ Ports # {} /\ Ports \subseteq SwitchPorts
  /\ "UP" \notin OtherFlags
  /\ {MaxFlaps, MaxAdmin, MaxReadFaults, MaxTunFaults} \subseteq Nat

VARIABLES
  line,       \* does a signal arrive at the port?
  flags,      \* kernel: the flags of the port's TAP device
  nlq,        \* RTM_NEWLINK messages the netlink thread has not read
  lpc,        \* the link-state thread: "poll", "get" or "set"
  cur,        \* the port it is at
  last_up,    \* its last reading of each port, Never before the first
  ifr,        \* the flags tun_set_up() has read
  budget,     \* what the environment may still do
  announced   \* the ports a message has been handled for

threadVars == <<lpc, cur, last_up, ifr>>
vars == <<portVars, line, flags, nlq, threadVars, budget, announced>>

Never == "never"
Up    == "up"
Down  == "down"
Flags == {"UP"} \cup OtherFlags
Kinds == {"flap", "admin", "read", "tun"}

\* wc_cl45_read() selects lane 0 of the port's PHY, and port 52 is lane 1 of
\* the PHY whose lane 0 is port 51.
LinkSource(port) == IF port = 52 THEN 51 ELSE port

Lines == Ports \cup {LinkSource(p) : p \in Ports}

TypeOK ==
  /\ PortTypeOK
  /\ line \in [Lines -> BOOLEAN]
  /\ flags \in [Ports -> SUBSET Flags]
  /\ nlq \in Seq([port : Ports, up : BOOLEAN])
  /\ lpc \in {"poll", "get", "set"}
  /\ cur \in Ports
  /\ last_up \in [Ports -> {Never, Up, Down}]
  /\ ifr \subseteq Flags
  /\ budget \in [Kinds -> Nat]
  /\ announced \subseteq Ports

First == CHOOSE p \in Ports : \A q \in Ports : p <= q

\* main() has enabled every port; the TAP devices are created with IFF_UP
\* clear, before the netlink thread subscribes.
Init ==
  /\ xlport_enable_shadow = EnabledLanes(Ports)
  /\ port_enable = EnabledLanes(Ports)
  /\ serdes_called = Ports
  /\ line \in [Lines -> BOOLEAN]
  /\ flags = [p \in Ports |-> {}]
  /\ nlq = <<>>
  /\ lpc = "poll"
  /\ cur = First
  /\ last_up = [p \in Ports |-> Never]
  /\ ifr = {}
  /\ budget = [k \in Kinds |-> CASE k = "flap"  -> MaxFlaps
                                 [] k = "admin" -> MaxAdmin
                                 [] k = "read"  -> MaxReadFaults
                                 [] OTHER       -> MaxTunFaults]
  /\ announced = {}

Spend(k) == budget[k] > 0 /\ budget' = [budget EXCEPT ![k] = @ - 1]

-----------------------------------------------------------------------------
(* The link-state thread                                                   *)

\* The next port of the loop; after the last one the loop starts over.
NextPort ==
  LET later == {p \in Ports : p > cur}
  IN  IF later = {} THEN First ELSE CHOOSE p \in later : \A q \in later : p <= q

GoOn == lpc' = "poll" /\ cur' = NextPort

\* Bug: every reading is compared with the one of the first port.
Bug_Reading(up) ==
  LET seen == IF up THEN Up ELSE Down
  IN  /\ last_up' = [last_up EXCEPT ![First] = seen]
      /\ IF last_up[First] # seen THEN lpc' = "get" /\ cur' = cur ELSE GoOn

\* A reading is recorded before anything is done about it.
Reading(up) ==
  LET seen == IF up THEN Up ELSE Down
  IN  /\ last_up' = [last_up EXCEPT ![cur] = seen]
      /\ IF last_up[cur] # seen THEN lpc' = "get" /\ cur' = cur ELSE GoOn

\* bcm56846_port_link_status_get() with an answer of the chip
ReadLink ==
  /\ lpc = "poll"
  /\ Reading(line[LinkSource(cur)])
  /\ UNCHANGED <<portVars, line, flags, nlq, ifr, budget, announced>>

\* ... and without: up to port 48 the shadow of PORT_ENABLE stands in for the
\* link status, from port 49 on the reading is skipped.
ReadLinkFails ==
  /\ lpc = "poll"
  /\ Spend("read")
  /\ IF cur >= 49
       THEN GoOn /\ UNCHANGED last_up
       ELSE Reading(LaneOf(cur) \in xlport_enable_shadow[BlockOf(cur)])
  /\ UNCHANGED <<portVars, line, flags, nlq, ifr, announced>>

\* The kernel announces a change of flags to its listeners.
SetFlags(p, new) ==
  /\ flags' = [flags EXCEPT ![p] = new]
  /\ nlq' = IF new = flags[p] THEN nlq
                              ELSE Append(nlq, [port |-> p, up |-> "UP" \in new])

\* tun_set_up(): SIOCGIFFLAGS
GetFlags ==
  /\ lpc = "get"
  /\ ifr' = flags[cur]
  /\ lpc' = "set"
  /\ UNCHANGED <<portVars, line, flags, nlq, cur, last_up, budget, announced>>

\* tun_set_up(): SIOCSIFFLAGS writes all the flags back
WriteFlags ==
  /\ lpc = "set"
  /\ SetFlags(cur, IF last_up[cur] = Up THEN ifr \cup {"UP"} ELSE ifr \ {"UP"})
  /\ GoOn
  /\ UNCHANGED <<portVars, line, last_up, ifr, budget, announced>>

\* tun_set_up() fails in either call; its result is ignored.
TunFails ==
  /\ lpc \in {"get", "set"}
  /\ Spend("tun")
  /\ GoOn
  /\ UNCHANGED <<portVars, line, flags, nlq, last_up, ifr, announced>>

-----------------------------------------------------------------------------
(* The netlink thread                                                      *)

\* Bug: only the messages that bring a port up are acted upon.
Bug_handle_link ==
  /\ nlq # <<>>
  /\ nlq' = Tail(nlq)
  /\ announced' = announced \cup {Head(nlq).port}
  /\ IF Head(nlq).up THEN port_enable_set(Head(nlq).port, TRUE, "ok") ELSE UNCHANGED portVars
  /\ UNCHANGED <<line, flags, threadVars, budget>>

\* handle_link() for one RTM_NEWLINK
handle_link ==
  /\ nlq # <<>>
  /\ nlq' = Tail(nlq)
  /\ announced' = announced \cup {Head(nlq).port}
  /\ \E o \in Outcomes : port_enable_set(Head(nlq).port, Head(nlq).up, o)
  /\ UNCHANGED <<line, flags, threadVars, budget>>

-----------------------------------------------------------------------------
(* The environment                                                         *)

Flap(l) ==
  /\ Spend("flap")
  /\ line' = [line EXCEPT ![l] = ~@]
  /\ UNCHANGED <<portVars, flags, nlq, threadVars, announced>>

\* The administrator sets or clears one flag.
Admin(p, f) ==
  /\ Spend("admin")
  /\ SetFlags(p, IF f \in flags[p] THEN flags[p] \ {f} ELSE flags[p] \cup {f})
  /\ UNCHANGED <<portVars, line, threadVars, announced>>

link_state_thread == ReadLink \/ GetFlags \/ WriteFlags
Faults == ReadLinkFails \/ TunFails
Environment == (\E l \in Lines : Flap(l)) \/ (\E p \in Ports, f \in Flags : Admin(p, f))

Next == link_state_thread \/ handle_link \/ Faults \/ Environment

Spec == Init /\ [][Next]_vars

\* Both threads are scheduled again and again.
FairSpec == Spec /\ WF_vars(link_state_thread) /\ WF_vars(handle_link)

-----------------------------------------------------------------------------
(* Properties                                                              *)

\* The last message for a port that the netlink thread has not read yet, or the
\* chip if there is none, agrees with the kernel's IFF_UP: no interleaving of
\* the administrator, the link-state thread and the netlink thread leaves a
\* port of the chip in another state than its interface for good.
PortFollowsFlags ==
  \A p \in Ports :
    LET pending == {n \in 1 .. Len(nlq) : nlq[n].port = p}
    IN  IF pending = {}
          THEN p \in announced => (HwEnabled(p) <=> "UP" \in flags[p])
          ELSE \A n \in pending : (\A m \in pending : m <= n) =>
                 (nlq[n].up <=> "UP" \in flags[p])

LineDecides(p) ==
  /\ <>[]line[p] => <>[]("UP" \in flags[p] /\ HwEnabled(p))
  /\ <>[]~line[p] => <>[]("UP" \notin flags[p])

Undisturbed == budget["admin"] = MaxAdmin /\ budget["tun"] = MaxTunFaults

\* With no administrator and no failing system call, a line that stays up brings
\* its interface up and keeps the chip's port enabled, and one that stays down
\* takes the interface down: the loop through the kernel settles, whatever
\* flaps and failing register reads went before.
LoopSettles == []Undisturbed => \A p \in Ports : LineDecides(p)

\* link_state.c: the thread polls the link to "reflect to TUN admin state ... so
\* kernel/FRR see link up/down": the same, whether or not a system call fails.
TunFollowsLink == [](budget["admin"] = MaxAdmin) => \A p \in Ports : LineDecides(p)

\* tun.c: tun_set_up() is to "Set interface admin up/down": it changes no other
\* flag of the interface.
OnlyUpIsWritten ==
  [][lpc = "set" /\ lpc' = "poll" =>
       \A p \in Ports : flags'[p] \ {"UP"} = flags[p] \ {"UP"}]_vars
=============================================================================

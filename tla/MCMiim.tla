------------------------------- MODULE MCMiim -------------------------------
(* Instances of Miim: main() alone, before the daemon's threads start, and *)
(* the netlink thread configuring a lane while the link-state thread polls. *)
EXTENDS Miim

CONSTANTS main, netlink, link

AloneCalls == [t \in {main} |-> {"wc_read", "wc_write", "link_get"}]
RaceCalls == [t \in {netlink, link} |-> IF t = link THEN {"link_get"} ELSE {"wc_read", "wc_write"}]
=============================================================================

----------------------------- MODULE MCNetlink -----------------------------
(***************************************************************************)
(* Model-checking instances of Netlink.  Port numbers, MAX_PORTS and       *)
(* MAX_IFINDEX are the program's own; the tables are a few entries long so *)
(* that they fill up.  Ports 53 and 54 are ports to netlink.c and none to  *)
(* port.c: with them the port registers stay out of the state space.       *)
(***************************************************************************)
EXTENDS Netlink, TLC

Symmetry == Permutations(Keys) \cup Permutations(Addrs)
=============================================================================

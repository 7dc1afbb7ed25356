--------------------------------- MODULE Fib ---------------------------------
(***************************************************************************)
(* What the route handlers promise the rest of the system: a forwarding    *)
(* table, from which one message changes at most one prefix.  A route is   *)
(* where the chip sends a packet (a port) and to whom (a MAC address).     *)
(***************************************************************************)
CONSTANTS Keys, Hops, NoHop

VARIABLE fib

Init == fib = [k \in Keys |-> NoHop]

Install(k, h) == fib' = [fib EXCEPT ![k] = h]

Withdraw(k) == fib' = [fib EXCEPT ![k] = NoHop]

Next == \E k \in Keys : Withdraw(k) \/ \E h \in Hops : Install(k, h)

Spec == Init /\ [][Next]_fib
=============================================================================

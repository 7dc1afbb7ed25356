----------------------------- MODULE MCSwitchd -----------------------------
(***************************************************************************)
(* Module Switchd with traffic that is heavy in one direction at a time:   *)
(* a behaviour with a second frame from the chip has none from the kernel. *)
(* The two directions share the pool, from which both allocate in either   *)
(* case, and the order in which they are shut down.                        *)
(* Only the chip and epoll_wait() are restrained, never a step the code    *)
(* has to take, so the fairness of the threads is that of Spec.            *)
(***************************************************************************)
EXTENDS Switchd

OneWay == received > 1 => frame = 0 /\ events = {}

OneWaySpec == Init /\ [][Next /\ OneWay']_vars /\ Fairness
=============================================================================

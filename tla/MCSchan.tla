------------------------------ MODULE MCSchan ------------------------------
(***************************************************************************)
(* Model-checking instances of Schan: the threads that program the chip    *)
(* concurrently, with a message and an answer that end before              *)
(* MISC_CONTROL and ones that cover it.                                    *)
(***************************************************************************)
EXTENDS Schan, TLC

Symmetry == Permutations(Callers)
=============================================================================

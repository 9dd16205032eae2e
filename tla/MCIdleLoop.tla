----------------------------- MODULE MCIdleLoop -----------------------------
(***************************************************************************)
(* Instances of IdleLoop for TLC.                                          *)
(***************************************************************************)
EXTENDS IdleLoop, TLC

CONSTANTS t1, t2, main, x1, x2, e1

(* Workers are interchangeable in every invariant. *)
Symmetry == Permutations(Threads) \cup Permutations(Timers)
=============================================================================

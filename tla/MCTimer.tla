------------------------------ MODULE MCTimer ------------------------------
(***************************************************************************)
(* Instances of Timer for TLC.                                             *)
(***************************************************************************)
EXTENDS Timer, TLC

CONSTANTS x1, x2, p1, p2

(* The pollers are interchangeable in every property checked with two. *)
Symmetry == Permutations({p1, p2})
============================================================================

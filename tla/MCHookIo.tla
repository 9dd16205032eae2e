------------------------------ MODULE MCHookIo ------------------------------
(* Instances of HookIo.  The infinite timeout is a negative number here.    *)
EXTENDS HookIo

CONSTANTS f1, f2

MCInf == -1
MCTimeouts == {1}

(* Fibres are interchangeable: one makes a single call, the other more. *)
MCFewAndMany == [f \in Fibres |-> IF f = f1 THEN 1 ELSE 3]
MCTwoEach == [f \in Fibres |-> 2]
============================================================================

----------------------------- MODULE MCFdEvents -----------------------------
(***************************************************************************)
(* Instances of FdEvents and ContextTable for TLC.  `part` says which of   *)
(* the two a behaviour is about; they share no state.                      *)
(***************************************************************************)
EXTENDS FdEvents, ContextTable, TLC

CONSTANTS t1, t2, a, b, r1, r2, r3

VARIABLE part

MCInit == Init /\ TableInit /\ part \in {"events", "table"}
TableDone == lookups = MaxLookups /\ (\A t \in Callers : at[t] = Away) /\ UNCHANGED tableVars
MCNext ==
  \/ part = "events" /\ (Next \/ Exhausted) /\ UNCHANGED <<tableVars, part>>
  \/ part = "table" /\ (TableNext \/ TableDone) /\ UNCHANGED <<vars, part>>
MCSpec == MCInit /\ [][MCNext]_<<vars, tableVars, part>>

(* Threads and registrations are interchangeable. *)
Symmetry == Permutations(Threads) \cup Permutations(Regs)
=============================================================================

---------------------------- MODULE ContextTable ----------------------------
(***************************************************************************)
(* The table of FdContexts of IOManager (iomanager.cc): how addEvent finds *)
(* or makes the context of a descriptor, and how delEvent, cancelEvent and *)
(* cancelAll find it again.                                                *)
(*                                                                         *)
(* addEvent looks at the size under the read lock, lets go of it, and      *)
(* resizes under the write lock without looking again: by then the table   *)
(* may be larger than what it asks for, and shrinks.  What the context     *)
(* holds is the subject of FdEvents; here an event is registered through   *)
(* one of the contexts that were made for its descriptor, by number.       *)
(***************************************************************************)
EXTENDS Integers, FiniteSets

CONSTANTS
  Callers,      \* threads that call the manager
  EventKinds,   \* READ and WRITE
  Numbers,      \* descriptors in use
  FirstSize,    \* the size the constructor asks for, 32
  MaxLookups    \* bound: calls

ASSUME TableAssumption ==
  /\ Numbers \subseteq Nat /\ FirstSize \in Nat \ {0, 1} /\ MaxLookups \in Nat

VARIABLES
  size,         \* m_fdContexts.size()
  made,         \* contexts made for each descriptor: the last is in the table
  at,           \* where each thread is: its call, descriptor, kind and context
  through,      \* the context an event is registered through
  late,         \* history: the table had grown between the two locks
  lookups       \* calls so far

tableVars == <<size, made, at, through, late, lookups>>

NoCtx == 0
Away == [pc |-> "away", fd |-> -1, kind |-> "none", ctx |-> NoCtx]

TableInit ==
  /\ size = FirstSize
  /\ made = [d \in Numbers |-> IF d < FirstSize THEN 1 ELSE 0]
  /\ at = [t \in Callers |-> Away]
  /\ through = [d \in Numbers |-> [k \in EventKinds |-> NoCtx]]
  /\ late = FALSE /\ lookups = 0

(* Faults: wrong versions of the definitions named. *)

(* ContextResize: contexts that are there are made again. *)
ContextResizeAll(n) == [d \in Numbers |-> IF d < n THEN made[d] + 1 ELSE made[d]]

----------------------------------------------------------------------------
(* fd * 1.5 *)
GrownTo(fd) == (3 * fd) \div 2

(* Entries past the old size are null and get a context. *)
ContextResize(n) == [d \in Numbers |-> IF size <= d /\ d < n THEN made[d] + 1 ELSE made[d]]

(* The read lock.  A kind of event of a descriptor is added by one fibre   *)
(* at a time.  The calls that remove an event return when the descriptor   *)
(* is past the end.                                                        *)
LookUp(t, op, d, k) ==
  /\ at[t].pc = "away" /\ lookups < MaxLookups
  /\ op = "add" => /\ through[d][k] = NoCtx
                   /\ \A s \in Callers : at[s].fd = d => at[s].kind # k
  /\ op = "remove" => d < size
  /\ lookups' = lookups + 1
  /\ at' = [at EXCEPT ![t] = [pc |-> IF d < size THEN op ELSE "grow", fd |-> d, kind |-> k,
                              ctx |-> IF d < size THEN made[d] ELSE NoCtx]]
  /\ UNCHANGED <<size, made, through, late>>

(* The write lock: contextResize, then m_fdContexts[fd]. *)
Grow(t) ==
  /\ at[t].pc = "grow"
  /\ size' = GrownTo(at[t].fd)
  /\ made' = ContextResize(GrownTo(at[t].fd))
  /\ at' = [at EXCEPT ![t].pc = "add",
                      ![t].ctx = IF at[t].fd < size' THEN made'[at[t].fd] ELSE NoCtx]
  /\ late' = (late \/ at[t].fd < size)
  /\ UNCHANGED <<through, lookups>>

(* Under the mutex of the context: epoll_ctl refuses to add a descriptor   *)
(* that is watched through another context.                                *)
Register(t) ==
  /\ at[t].pc = "add"
  /\ LET d == at[t].fd
         watched == {through[d][k] : k \in EventKinds} \ {NoCtx}
     IN through' = IF watched \subseteq {at[t].ctx}
                   THEN [through EXCEPT ![d][at[t].kind] = at[t].ctx] ELSE through
  /\ at' = [at EXCEPT ![t] = Away]
  /\ UNCHANGED <<size, made, late, lookups>>

(* An event that is not registered in the context is not found. *)
Remove(t) ==
  /\ at[t].pc = "remove"
  /\ through' = IF through[at[t].fd][at[t].kind] = at[t].ctx
                THEN [through EXCEPT ![at[t].fd][at[t].kind] = NoCtx] ELSE through
  /\ at' = [at EXCEPT ![t] = Away]
  /\ UNCHANGED <<size, made, late, lookups>>

----------------------------------------------------------------------------
TableNext ==
  \/ \E t \in Callers, op \in {"add", "remove"}, d \in Numbers, k \in EventKinds : LookUp(t, op, d, k)
  \/ \E t \in Callers : Grow(t) \/ Register(t) \/ Remove(t)

TableSpec == TableInit /\ [][TableNext]_tableVars

----------------------------------------------------------------------------
(* Properties. *)

(* A descriptor past the size of the table is never used as an index into  *)
(* it: whoever goes on to the context has one that was made for that       *)
(* descriptor, also when the table has shrunk meanwhile.                   *)
IndexInRange ==
  /\ size \in Nat /\ size > 0
  /\ \A t \in Callers : at[t].pc \in {"add", "remove"}
       => at[t].fd \in Numbers /\ at[t].ctx \in 1..made[at[t].fd]

(* As long as no thread has resized a table that had grown since its       *)
(* look-up, an event is registered through the context that the table      *)
(* holds, and every thread works on that one: delEvent, cancelEvent and    *)
(* close() find what addEvent registered.                                  *)
ContextKept ==
  ~late =>
    /\ \A d \in Numbers, k \in EventKinds : through[d][k] # NoCtx
         => d < size /\ through[d][k] = made[d]
    /\ \A t \in Callers : at[t].pc \in {"add", "remove"}
         => at[t].fd < size /\ at[t].ctx = made[at[t].fd]

(* The table of contexts is sound: no index past its end, and, unless a    *)
(* resize came late, one context per descriptor in use.                    *)
TableSound == IndexInRange /\ ContextKept
============================================================================

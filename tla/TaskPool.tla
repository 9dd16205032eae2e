------------------------------ MODULE TaskPool ------------------------------
(***************************************************************************)
(* What Scheduler promises to whoever calls schedule() and stop(): a task  *)
(* waits, is run by one thread at a time, the one it is bound to until it  *)
(* first yields, and is run to its end once; when stop() has returned      *)
(* nothing is left and nothing happens any more.  There is no list, no     *)
(* counter and no idle fibre.                                              *)
(***************************************************************************)
CONSTANTS Threads, Tasks, NoTask, AnyThread

VARIABLES
  waiting,   \* tasks that somebody will run
  running,   \* the task each thread runs
  done,      \* tasks that have ended
  bound,     \* the thread each task has to run on
  closed     \* stop() has returned

poolVars == <<waiting, running, done, bound, closed>>

Init ==
  /\ waiting = {}
  /\ running = [t \in Threads |-> NoTask]
  /\ done = {}
  /\ bound = [x \in Tasks |-> AnyThread]
  /\ closed = FALSE

Submit(x, thread) ==
  /\ ~closed
  /\ x \notin waiting \cup done /\ \A t \in Threads : running[t] # x
  /\ waiting' = waiting \cup {x}
  /\ bound' = [bound EXCEPT ![x] = thread]
  /\ UNCHANGED <<running, done, closed>>

Begin(t, x) ==
  /\ ~closed
  /\ x \in waiting /\ running[t] = NoTask
  /\ bound[x] \in {AnyThread, t}
  /\ waiting' = waiting \ {x}
  /\ running' = [running EXCEPT ![t] = x]
  /\ UNCHANGED <<done, bound, closed>>

(* A task that yields may go on in any thread. *)
Yield(t) ==
  /\ ~closed
  /\ running[t] # NoTask
  /\ waiting' = waiting \cup {running[t]}
  /\ running' = [running EXCEPT ![t] = NoTask]
  /\ bound' = [bound EXCEPT ![running[t]] = AnyThread]
  /\ UNCHANGED <<done, closed>>

End(t) ==
  /\ ~closed
  /\ running[t] # NoTask
  /\ done' = done \cup {running[t]}
  /\ running' = [running EXCEPT ![t] = NoTask]
  /\ UNCHANGED <<waiting, bound, closed>>

Close ==
  /\ ~closed
  /\ waiting = {} /\ \A t \in Threads : running[t] = NoTask
  /\ closed' = TRUE
  /\ UNCHANGED <<waiting, running, done, bound>>

Next ==
  \/ \E x \in Tasks, thread \in Threads \cup {AnyThread} : Submit(x, thread)
  \/ \E t \in Threads : Yield(t) \/ End(t) \/ \E x \in Tasks : Begin(t, x)
  \/ Close

Spec == Init /\ [][Next]_poolVars
=============================================================================

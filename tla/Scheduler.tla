----------------------------- MODULE Scheduler -----------------------------
(***************************************************************************)
(* The fibre scheduler: Scheduler::start, stop, schedule, switchTo, run,   *)
(* stopping and idle (scheduler.cc), together with the part of Fibre that  *)
(* run() relies on: m_state, swapIn, YieldToReady, YieldToHold, MainFunc   *)
(* and CallerMainFunc (fibre.cc).                                          *)
(*                                                                         *)
(* A task is what one call of schedule() hands over: a fibre or a plain    *)
(* callback, for which run() takes a fibre of its own.  A task and the     *)
(* fibre that executes it are one value here.  Every region that holds     *)
(* m_mutex is one action; what is done outside it is split where another   *)
(* thread can tell the difference.                                         *)
(***************************************************************************)
EXTENDS Integers, Sequences, FiniteSets

CONSTANTS
  Pool,       \* threads created by start(): m_threads
  Caller,     \* the thread that constructs, fills and stops the scheduler
  UseCaller,  \* use_caller: the caller thread executes run() inside stop()
  Fibres,     \* tasks handed over as Fibre::ptr
  Callbacks,  \* tasks handed over as std::function
  NoTask,     \* the null fibre and callback
  AnyThread,  \* thread == -1: any thread may execute the task
  Bindings,   \* the thread arguments that schedule() is called with
  BodyOps,    \* what task bodies do besides running to their end
  MaxYields   \* bound: how often one body yields

Workers == Pool \cup (IF UseCaller THEN {Caller} ELSE {})
Tasks == Fibres \cup Callbacks
Ops == {"spawn", "ready", "wait", "switchTo", "throw"}

(* Fibre::State *)
State == {"INIT", "HOLD", "EXEC", "TERM", "READY", "EXCEPT"}
Ended == {"TERM", "EXCEPT"}

ASSUME SchedulerAssumption ==
  /\ IsFiniteSet(Pool)
  /\ Caller \notin Pool
  /\ UseCaller \in BOOLEAN
  /\ Pool # {} \/ UseCaller
  /\ Fibres \cap Callbacks = {}
  /\ NoTask \notin Tasks
  /\ AnyThread \notin Workers
  /\ Bindings \subseteq Workers \cup {AnyThread}
  /\ BodyOps \subseteq Ops
  /\ MaxYields \in Nat

VARIABLES
  m_fibres,             \* the task list
  m_activeThreadCount,
  m_idleThreadCount,
  m_stopping,
  m_autoStop,
  m_state,              \* Fibre::m_state of every task
  pc,                   \* where each worker is in run()
  ft,                   \* the task each worker has taken from the list
  idleTerm,             \* the idle fibre of the worker has ended
  mainpc,               \* where the caller is between start() and stop()
  wakers,               \* tasks some timer or event will schedule later
  aborted,              \* an HPGS_ASSERT has failed
  submitted,            \* history: tasks given to schedule()
  binding,              \* history: the thread each task was last bound to
  finished,             \* history: tasks whose body has ended
  yields                \* history: yields of each body, bounded by MaxYields

sharedVars == <<m_fibres, m_activeThreadCount, m_idleThreadCount, m_stopping, m_autoStop>>
threadVars == <<pc, ft, idleTerm>>
historyVars == <<submitted, binding, finished, yields>>
vars == <<sharedVars, m_state, threadVars, mainpc, wakers, aborted, historyVars>>

(* One element of m_fibres (FibreAndThread): isCb tells a callback from a  *)
(* fibre, whose state the scan can look at.                                *)
Entry == [task : Tasks, isCb : BOOLEAN, thread : Workers \cup {AnyThread}]

PCs == {"off", "scan", "dispatch", "run", "armed", "swapOut", "return", "post", "hold",
        "idle", "unidle", "exited"}
MainPCs == {"init", "started", "stop1", "stop2", "calling", "join", "stopped"}

(* Two threads on the stack of one fibre: from here on the program has no  *)
(* defined behaviour, and neither has the specification.                   *)
OnStack(t) == pc[t] \in {"run", "armed", "swapOut"}
Corrupt == \E t, u \in Workers : t # u /\ OnStack(t) /\ OnStack(u) /\ ft[t] = ft[u]
Alive == ~aborted /\ ~Corrupt
At(t, l) == Alive /\ pc[t] = l
MainAt(l) == Alive /\ mainpc = l

Init ==
  /\ m_fibres = <<>>
  /\ m_activeThreadCount = 0
  /\ m_idleThreadCount = 0
  /\ m_stopping = TRUE
  /\ m_autoStop = FALSE
  /\ m_state = [x \in Tasks |-> "INIT"]
  /\ pc = [t \in Workers |-> "off"]
  /\ ft = [t \in Workers |-> NoTask]
  /\ idleTerm = [t \in Workers |-> FALSE]
  /\ mainpc = "init"
  /\ wakers = {}
  /\ aborted = FALSE
  /\ submitted = {}
  /\ binding = [x \in Tasks |-> AnyThread]
  /\ finished = {}
  /\ yields = [x \in Tasks |-> 0]

----------------------------------------------------------------------------
(* Faults.  Each operator is a wrong version of the definition named, used *)
(* to confirm that a property notices; the specification uses none.        *)

(* Stopping: the active count is not looked at. *)
StoppingWhileActive == m_autoStop /\ m_stopping /\ m_fibres = <<>>

(* Eligible: only fresh fibres are taken. *)
EligibleFresh(t, e) == e.isCb \/ m_state[e.task] = "INIT"

(* RemoveEntry: nothing is erased. *)
RemoveNothing(q, i) == q

(* SkipEnded, Return: the unit is not given back. *)
SkipEndedKeepsCount(t) ==
  /\ At(t, "dispatch")
  /\ ft[t] # NoTask
  /\ m_state[ft[t]] \in Ended
  /\ ft' = [ft EXCEPT ![t] = NoTask]
  /\ pc' = [pc EXCEPT ![t] = "scan"]
  /\ UNCHANGED <<sharedVars, m_state, idleTerm, mainpc, wakers, aborted, historyVars>>

ReturnKeepsCount(t) ==
  /\ At(t, "return")
  /\ pc' = [pc EXCEPT ![t] = "post"]
  /\ UNCHANGED <<sharedVars, m_state, ft, idleTerm, mainpc, wakers, aborted, historyVars>>

(* Requeue: ft is reset before the fibre is queued. *)
RequeueAfterReset(t) ==
  /\ At(t, "post")
  /\ m_state[ft[t]] = "READY"
  /\ m_fibres' = Append(m_fibres, [task |-> NoTask, isCb |-> FALSE, thread |-> AnyThread])
  /\ ft' = [ft EXCEPT ![t] = NoTask]
  /\ pc' = [pc EXCEPT ![t] = "scan"]
  /\ UNCHANGED <<m_activeThreadCount, m_idleThreadCount, m_stopping, m_autoStop, m_state,
                 idleTerm, mainpc, wakers, aborted, historyVars>>

(* FoundWaiting: the state READY is not looked for. *)
FoundWaitingAny(t) ==
  /\ At(t, "post")
  /\ m_state[ft[t]] \notin Ended
  /\ pc' = [pc EXCEPT ![t] = "hold"]
  /\ UNCHANGED <<sharedVars, m_state, ft, idleTerm, mainpc, wakers, aborted, historyVars>>

----------------------------------------------------------------------------
(* Scheduler::schedule and scheduleNoLock: append under the lock.          *)
(* tickle() of the base class only logs.                                   *)
Schedule(x, isCb, thread) ==
  m_fibres' = Append(m_fibres, [task |-> x, isCb |-> isCb, thread |-> thread])

(* A task handed over for the first time. *)
Submit(x, thread) ==
  /\ x \notin submitted
  /\ submitted' = submitted \cup {x}
  /\ binding' = [binding EXCEPT ![x] = thread]
  /\ Schedule(x, x \in Callbacks, thread)

(* Scheduler::stopping: evaluated under the lock. *)
Stopping ==
  m_autoStop /\ m_stopping /\ m_fibres = <<>> /\ m_activeThreadCount = 0

----------------------------------------------------------------------------
(* The caller thread. *)

(* start(): clears m_stopping and creates the pool threads.  The lock is   *)
(* held until all of them exist, so none can scan before.                  *)
Start ==
  /\ MainAt("init")
  /\ m_stopping' = FALSE
  /\ pc' = [t \in Workers |-> IF t \in Pool THEN "scan" ELSE pc[t]]
  /\ mainpc' = "started"
  /\ UNCHANGED <<m_fibres, m_activeThreadCount, m_idleThreadCount, m_autoStop, m_state,
                 ft, idleTerm, wakers, aborted, historyVars>>

(* The caller hands over a task before it stops the scheduler. *)
CallerSchedule(x, thread) ==
  /\ MainAt("init") \/ MainAt("started")
  /\ Submit(x, thread)
  /\ UNCHANGED <<m_activeThreadCount, m_idleThreadCount, m_stopping, m_autoStop, m_state,
                 threadVars, mainpc, wakers, aborted, finished, yields>>

(* stop(), first line. *)
StopRequest ==
  /\ MainAt("started")
  /\ m_autoStop' = TRUE
  /\ mainpc' = "stop1"
  /\ UNCHANGED <<m_fibres, m_activeThreadCount, m_idleThreadCount, m_stopping, m_state,
                 threadVars, wakers, aborted, historyVars>>

(* stop() sets m_stopping; without pool threads it returns at once when    *)
(* there is nothing to do.                                                 *)
StopFlag ==
  /\ MainAt("stop1")
  /\ m_stopping' = TRUE
  /\ mainpc' = IF Pool = {} /\ m_autoStop /\ m_fibres = <<>> /\ m_activeThreadCount = 0
               THEN "stopped" ELSE "stop2"
  /\ UNCHANGED <<m_fibres, m_activeThreadCount, m_idleThreadCount, m_autoStop, m_state,
                 threadVars, wakers, aborted, historyVars>>

(* stop() switches to m_rootFibre, whose function is run(), if work is     *)
(* left; otherwise it goes on to join the pool.                            *)
StopCall ==
  /\ MainAt("stop2")
  /\ IF UseCaller /\ ~Stopping
     THEN /\ pc' = [pc EXCEPT ![Caller] = "scan"]
          /\ mainpc' = "calling"
     ELSE /\ mainpc' = "join"
          /\ UNCHANGED pc
  /\ UNCHANGED <<sharedVars, m_state, ft, idleTerm, wakers, aborted, historyVars>>

(* run() has returned on the caller: CallerMainFunc goes back to stop(). *)
RootReturn ==
  /\ MainAt("calling")
  /\ pc[Caller] = "exited"
  /\ mainpc' = "join"
  /\ UNCHANGED <<sharedVars, m_state, threadVars, wakers, aborted, historyVars>>

(* stop() joins every pool thread. *)
Join ==
  /\ MainAt("join")
  /\ \A t \in Pool : pc[t] = "exited"
  /\ mainpc' = "stopped"
  /\ UNCHANGED <<sharedVars, m_state, threadVars, wakers, aborted, historyVars>>

----------------------------------------------------------------------------
(* Scheduler::run on worker t. *)

(* The scan skips entries bound to another thread and fibres in EXEC. *)
Eligible(t, e) ==
  /\ e.thread \in {AnyThread, t}
  /\ e.isCb \/ m_state[e.task] # "EXEC"

RemoveEntry(q, i) == [j \in 1..(Len(q) - 1) |-> IF j < i THEN q[j] ELSE q[j + 1]]

FirstEligible(t, i) ==
  /\ Eligible(t, m_fibres[i])
  /\ \A j \in 1..(i - 1) : ~Eligible(t, m_fibres[j])

(* The first eligible entry is taken and counted active under the lock. *)
ScanTake(t) ==
  /\ At(t, "scan")
  /\ \E i \in 1..Len(m_fibres) :
       /\ FirstEligible(t, i)
       /\ ft' = [ft EXCEPT ![t] = m_fibres[i].task]
       /\ m_fibres' = RemoveEntry(m_fibres, i)
  /\ m_activeThreadCount' = m_activeThreadCount + 1
  /\ pc' = [pc EXCEPT ![t] = "dispatch"]
  /\ UNCHANGED <<m_idleThreadCount, m_stopping, m_autoStop, m_state, idleTerm,
                 mainpc, wakers, aborted, historyVars>>

ScanNothing(t) ==
  /\ At(t, "scan")
  /\ \A i \in 1..Len(m_fibres) : ~Eligible(t, m_fibres[i])
  /\ pc' = [pc EXCEPT ![t] = "dispatch"]
  /\ UNCHANGED <<sharedVars, m_state, ft, idleTerm, mainpc, wakers, aborted, historyVars>>

(* Fibre::swapIn asserts that the fibre is not executing, marks it EXEC    *)
(* and switches to it.                                                     *)
SwapIn(t) ==
  /\ At(t, "dispatch")
  /\ ft[t] # NoTask
  /\ m_state[ft[t]] \notin Ended
  /\ aborted' = (m_state[ft[t]] = "EXEC")
  /\ m_state' = [m_state EXCEPT ![ft[t]] = "EXEC"]
  /\ pc' = [pc EXCEPT ![t] = "run"]
  /\ UNCHANGED <<sharedVars, ft, idleTerm, mainpc, wakers, historyVars>>

(* The fibre taken from the list has ended: forget it and scan again. *)
SkipEnded(t) ==
  /\ At(t, "dispatch")
  /\ ft[t] # NoTask
  /\ m_state[ft[t]] \in Ended
  /\ m_activeThreadCount' = m_activeThreadCount - 1
  /\ ft' = [ft EXCEPT ![t] = NoTask]
  /\ pc' = [pc EXCEPT ![t] = "scan"]
  /\ UNCHANGED <<m_fibres, m_idleThreadCount, m_stopping, m_autoStop, m_state,
                 idleTerm, mainpc, wakers, aborted, historyVars>>

(* Nothing to run: leave run() if the idle fibre has ended, else enter it. *)
GoIdle(t) ==
  /\ At(t, "dispatch")
  /\ ft[t] = NoTask
  /\ ~idleTerm[t]
  /\ m_idleThreadCount' = m_idleThreadCount + 1
  /\ pc' = [pc EXCEPT ![t] = "idle"]
  /\ UNCHANGED <<m_fibres, m_activeThreadCount, m_stopping, m_autoStop, m_state, ft,
                 idleTerm, mainpc, wakers, aborted, historyVars>>

Exit(t) ==
  /\ At(t, "dispatch")
  /\ ft[t] = NoTask
  /\ idleTerm[t]
  /\ pc' = [pc EXCEPT ![t] = "exited"]
  /\ UNCHANGED <<sharedVars, m_state, ft, idleTerm, mainpc, wakers, aborted, historyVars>>

(* Scheduler::idle: the idle fibre ends when stopping() holds and yields   *)
(* to run() otherwise.                                                     *)
Idle(t) ==
  /\ At(t, "idle")
  /\ idleTerm' = [idleTerm EXCEPT ![t] = Stopping]
  /\ pc' = [pc EXCEPT ![t] = "unidle"]
  /\ UNCHANGED <<sharedVars, m_state, ft, mainpc, wakers, aborted, historyVars>>

LeaveIdle(t) ==
  /\ At(t, "unidle")
  /\ m_idleThreadCount' = m_idleThreadCount - 1
  /\ pc' = [pc EXCEPT ![t] = "scan"]
  /\ UNCHANGED <<m_fibres, m_activeThreadCount, m_stopping, m_autoStop, m_state, ft,
                 idleTerm, mainpc, wakers, aborted, historyVars>>

(* The context of the fibre is saved and run() continues: it decrements    *)
(* the active count, then looks at the state the fibre was left in.        *)
SwapOut(t) ==
  /\ At(t, "swapOut")
  /\ pc' = [pc EXCEPT ![t] = "return"]
  /\ UNCHANGED <<sharedVars, m_state, ft, idleTerm, mainpc, wakers, aborted, historyVars>>

Return(t) ==
  /\ At(t, "return")
  /\ m_activeThreadCount' = m_activeThreadCount - 1
  /\ pc' = [pc EXCEPT ![t] = "post"]
  /\ UNCHANGED <<m_fibres, m_idleThreadCount, m_stopping, m_autoStop, m_state, ft,
                 idleTerm, mainpc, wakers, aborted, historyVars>>

(* A fibre found READY is queued again, for any thread. *)
Requeue(t) ==
  /\ At(t, "post")
  /\ m_state[ft[t]] = "READY"
  /\ Schedule(ft[t], FALSE, AnyThread)
  /\ binding' = [binding EXCEPT ![ft[t]] = AnyThread]
  /\ ft' = [ft EXCEPT ![t] = NoTask]
  /\ pc' = [pc EXCEPT ![t] = "scan"]
  /\ UNCHANGED <<m_activeThreadCount, m_idleThreadCount, m_stopping, m_autoStop, m_state,
                 idleTerm, mainpc, wakers, aborted, submitted, finished, yields>>

(* A fibre found ended is let go.  The fibre a worker keeps for callbacks  *)
(* is reset here; its next INIT is that of the next callback.              *)
Forget(t) ==
  /\ At(t, "post")
  /\ m_state[ft[t]] \in Ended
  /\ ft' = [ft EXCEPT ![t] = NoTask]
  /\ pc' = [pc EXCEPT ![t] = "scan"]
  /\ UNCHANGED <<sharedVars, m_state, idleTerm, mainpc, wakers, aborted, historyVars>>

(* Anything else is marked HOLD, by a store that follows the look. *)
FoundWaiting(t) ==
  /\ At(t, "post")
  /\ m_state[ft[t]] \notin Ended \cup {"READY"}
  /\ pc' = [pc EXCEPT ![t] = "hold"]
  /\ UNCHANGED <<sharedVars, m_state, ft, idleTerm, mainpc, wakers, aborted, historyVars>>

MarkHold(t) ==
  /\ At(t, "hold")
  /\ m_state' = [m_state EXCEPT ![ft[t]] = "HOLD"]
  /\ ft' = [ft EXCEPT ![t] = NoTask]
  /\ pc' = [pc EXCEPT ![t] = "scan"]
  /\ UNCHANGED <<sharedVars, idleTerm, mainpc, wakers, aborted, historyVars>>

----------------------------------------------------------------------------
(* What the body of the task on worker t does while it is switched in. *)

(* The body schedules another task on its own scheduler. *)
Spawn(t, x, thread) ==
  /\ "spawn" \in BodyOps
  /\ At(t, "run")
  /\ Submit(x, thread)
  /\ UNCHANGED <<m_activeThreadCount, m_idleThreadCount, m_stopping, m_autoStop, m_state,
                 threadVars, mainpc, wakers, aborted, finished, yields>>

(* Fibre::MainFunc: the body returns or throws. *)
Finish(t) ==
  /\ At(t, "run")
  /\ \E s \in Ended :
       /\ s = "EXCEPT" => "throw" \in BodyOps
       /\ m_state' = [m_state EXCEPT ![ft[t]] = s]
  /\ finished' = finished \cup {ft[t]}
  /\ pc' = [pc EXCEPT ![t] = "return"]
  /\ UNCHANGED <<sharedVars, ft, idleTerm, mainpc, wakers, aborted, submitted, binding, yields>>

(* YieldToReady and YieldToHold assert EXEC and store the new state before *)
(* swapOut has saved the context.                                          *)
YieldTo(t, s) ==
  /\ aborted' = (m_state[ft[t]] # "EXEC")
  /\ m_state' = [m_state EXCEPT ![ft[t]] = s]
  /\ pc' = [pc EXCEPT ![t] = "swapOut"]
  /\ UNCHANGED <<sharedVars, ft, idleTerm, mainpc, wakers, submitted, binding, finished>>

YieldOnce(t) ==
  /\ yields[ft[t]] < MaxYields
  /\ yields' = [yields EXCEPT ![ft[t]] = @ + 1]

YieldToReady(t) ==
  /\ "ready" \in BodyOps
  /\ At(t, "run")
  /\ YieldOnce(t)
  /\ YieldTo(t, "READY")

(* The body hands its fibre to a timer or an event that will schedule it   *)
(* (sleep, usleep, nanosleep, do_io, connect), then yields.                *)
ArmWaker(t) ==
  /\ "wait" \in BodyOps
  /\ At(t, "run")
  /\ YieldOnce(t)
  /\ wakers' = wakers \cup {ft[t]}
  /\ pc' = [pc EXCEPT ![t] = "armed"]
  /\ UNCHANGED <<sharedVars, m_state, ft, idleTerm, mainpc, aborted, submitted, binding, finished>>

(* switchTo(thread): the fibre queues itself for another thread, then      *)
(* yields.                                                                 *)
SwitchTo(t, thread) ==
  /\ "switchTo" \in BodyOps
  /\ At(t, "run")
  /\ thread \notin {AnyThread, t}
  /\ YieldOnce(t)
  /\ Schedule(ft[t], FALSE, thread)
  /\ binding' = [binding EXCEPT ![ft[t]] = thread]
  /\ pc' = [pc EXCEPT ![t] = "armed"]
  /\ UNCHANGED <<m_activeThreadCount, m_idleThreadCount, m_stopping, m_autoStop, m_state,
                 ft, idleTerm, mainpc, wakers, aborted, submitted, finished>>

YieldToHold(t) ==
  /\ At(t, "armed")
  /\ YieldTo(t, "HOLD")
  /\ UNCHANGED yields

(* The timer or the event schedules the fibre, for any thread. *)
Wake(x) ==
  /\ Alive
  /\ x \in wakers
  /\ wakers' = wakers \ {x}
  /\ Schedule(x, FALSE, AnyThread)
  /\ binding' = [binding EXCEPT ![x] = AnyThread]
  /\ UNCHANGED <<m_activeThreadCount, m_idleThreadCount, m_stopping, m_autoStop, m_state,
                 threadVars, mainpc, aborted, submitted, finished, yields>>

----------------------------------------------------------------------------
Main ==
  \/ Start
  \/ StopRequest
  \/ StopFlag
  \/ StopCall
  \/ RootReturn
  \/ Join

Run(t) ==
  \/ ScanTake(t)
  \/ ScanNothing(t)
  \/ SwapIn(t)
  \/ SkipEnded(t)
  \/ GoIdle(t)
  \/ Exit(t)
  \/ Idle(t)
  \/ LeaveIdle(t)
  \/ SwapOut(t)
  \/ Return(t)
  \/ Requeue(t)
  \/ Forget(t)
  \/ FoundWaiting(t)
  \/ MarkHold(t)

Body(t) ==
  \/ \E x \in Tasks, b \in Bindings : Spawn(t, x, b)
  \/ Finish(t)
  \/ YieldToReady(t)
  \/ ArmWaker(t)
  \/ \E b \in Bindings : SwitchTo(t, b)
  \/ YieldToHold(t)

Next ==
  \/ Main
  \/ \E x \in Tasks, b \in Bindings : CallerSchedule(x, b)
  \/ \E t \in Workers : Run(t) \/ Body(t)
  \/ \E x \in Tasks : Wake(x)

(* stop() has returned, or the process is gone. *)
Halted ==
  /\ mainpc = "stopped" \/ ~Alive
  /\ UNCHANGED vars

(* The operating system runs every thread; a stop() that was called goes   *)
(* on; timers and events do fire.                                          *)
Fairness ==
  /\ WF_vars(StopFlag \/ StopCall \/ RootReturn \/ Join)
  /\ \A t \in Workers : WF_vars(Run(t) \/ Body(t))
  /\ \A x \in Tasks : WF_vars(Wake(x))

Spec == Init /\ [][Next \/ Halted]_vars
FairSpec == Spec /\ Fairness

----------------------------------------------------------------------------
(* Properties. *)

TypeOK ==
  /\ m_fibres \in Seq(Entry)
  /\ m_activeThreadCount \in Int
  /\ m_idleThreadCount \in Int
  /\ m_stopping \in BOOLEAN
  /\ m_autoStop \in BOOLEAN
  /\ m_state \in [Tasks -> State]
  /\ pc \in [Workers -> PCs]
  /\ ft \in [Workers -> Tasks \cup {NoTask}]
  /\ idleTerm \in [Workers -> BOOLEAN]
  /\ mainpc \in MainPCs
  /\ wakers \subseteq Tasks
  /\ aborted \in BOOLEAN
  /\ submitted \subseteq Tasks
  /\ binding \in [Tasks -> Workers \cup {AnyThread}]
  /\ finished \subseteq Tasks
  /\ yields \in [Tasks -> 0..MaxYields]

Queued(x) == \E i \in 1..Len(m_fibres) : m_fibres[i].task = x
Held(x) == \E t \in Workers : ft[t] = x

(* The counters run() keeps without the lock are exact: every path through *)
(* run() that takes a task or enters idle gives its unit back once, so     *)
(* neither counter ever wraps below zero.                                  *)
Counted(t) == ft[t] # NoTask /\ pc[t] \notin {"post", "hold"}
InIdle(t) == pc[t] \in {"idle", "unidle"}
CountsExact ==
  /\ m_activeThreadCount = Cardinality({t \in Workers : Counted(t)})
  /\ m_idleThreadCount = Cardinality({t \in Workers : InIdle(t)})

(* run() never loses a task: one that was scheduled and has not ended is   *)
(* in the list, in the hands of a worker, or waits for a timer or event.   *)
NoTaskDropped ==
  \A x \in submitted \ finished : Queued(x) \/ Held(x) \/ x \in wakers

(* Until a second thread enters run(), nothing that bodies do loses a      *)
(* fibre, resumes it on a stack in use or fails an assertion of swapIn and *)
(* the yields: the late HOLD of run() and the one that YieldToHold stores  *)
(* before its context is saved need another thread to do harm.             *)
SafeAlone ==
  Cardinality({t \in Workers : pc[t] # "off"}) <= 1 => Alive /\ NoTaskDropped

(* A scheduled task is in one place: it has one entry in the list and no   *)
(* worker, or one worker and no entry.                                     *)
OnePlace ==
  /\ \A i, j \in 1..Len(m_fibres) : m_fibres[i].task = m_fibres[j].task => i = j
  /\ \A t \in Workers : ft[t] # NoTask => ~Queued(ft[t])
  /\ \A t, u \in Workers : ft[t] # NoTask /\ ft[t] = ft[u] => t = u

(* stopping() holds only when every scheduled task has ended, waits for a  *)
(* timer or an event, or is about to be put back by the worker that gave   *)
(* up its unit of the active count before queueing it again.               *)
PutBack(x) == \E t \in Workers : pc[t] \in {"post", "hold"} /\ ft[t] = x
StoppingMeansDone ==
  Stopping => \A x \in submitted \ (wakers \cup finished) : PutBack(x)

(* When stop() returns the list is empty and every task has ended.         *)
StopDrains ==
  mainpc = "stopped" => m_fibres = <<>> /\ submitted \ wakers \subseteq finished

(* No task is lost, neither while the scheduler runs nor by shutting it    *)
(* down: run() keeps every one in sight, stopping() waits for all of them, *)
(* and stop() leaves none behind.                                          *)
NothingLost == TypeOK /\ NoTaskDropped /\ StoppingMeansDone /\ StopDrains

(* The task pool seen through the scheduler's state: what is on a stack is *)
(* running, what is in the list or in a worker's hands is waiting, and a   *)
(* fibre that has stored READY has left its thread behind.                 *)
OnThread(x) == \E t \in Workers : pc[t] = "run" /\ ft[t] = x
Waiting == {x \in Tasks \ finished : (Queued(x) \/ Held(x)) /\ ~OnThread(x)}
Running == [t \in Workers |-> IF pc[t] = "run" THEN ft[t] ELSE NoTask]
BoundTo == [x \in Tasks |-> IF m_state[x] = "READY" THEN AnyThread ELSE binding[x]]

Promise == INSTANCE TaskPool WITH
  Threads <- Workers, Tasks <- Tasks, NoTask <- NoTask, AnyThread <- AnyThread,
  waiting <- Waiting, running <- Running, done <- finished, bound <- BoundTo,
  closed <- (mainpc = "stopped")

(* The scheduler implements the task pool: whatever threads scan, yield,   *)
(* queue again, go idle and leave in between, every task is run once, by   *)
(* one thread at a time and by the right one, and after stop() nothing is  *)
(* left (run, schedule, stop, swapIn, YieldToReady, MainFunc).             *)
RunsOnce == Promise!Spec

(* stop() returns: run() ends on the caller and every pool thread joins.   *)
StopReturns == mainpc = "stop1" ~> mainpc = "stopped"

(* Every task scheduled on a running scheduler is executed to its end,     *)
(* whether or not stop() is ever called.                                   *)
EveryTaskEnds ==
  \A x \in Tasks : (x \in submitted /\ mainpc # "init") ~> (x \in finished)
============================================================================

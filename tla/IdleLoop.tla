------------------------------ MODULE IdleLoop ------------------------------
(***************************************************************************)
(* IOManager as a scheduler that sleeps (iomanager.cc): run() over the     *)
(* overridden idle(), tickle(), stopping() and onTimerInsertAtFront().     *)
(* Workers sleep in epoll_wait until a timer is due, an fd event happens   *)
(* or a byte arrives in the tickle pipe.                                   *)
(*                                                                         *)
(* The parts that Scheduler, Timer and FdEvents treat in detail appear     *)
(* here by their effect: the list is the number of its entries, a timer is *)
(* what is left of its time, a registered event is a member of pending.    *)
(* The active and idle counts are read off the program counters, which is  *)
(* what CountsExact of Scheduler says they are.                            *)
(***************************************************************************)
EXTENDS Integers, FiniteSets

CONSTANTS
  Threads,      \* m_threads
  Main,         \* the thread that schedules from outside and calls stop()
  MaxTasks,     \* bound: calls of schedule(), by Main or by a task
  Timers,       \* timers that tasks may add
  Events,       \* fd events that tasks may register
  MainAdds,     \* Main adds timers too
  Delays,       \* the ms arguments of addTimer
  Width,        \* an int has this many values: 2^32
  MAX_TIMEOUT,  \* 3000 ms
  MaxLate,      \* bound: time a worker loses before the epoll_wait it is in
  Never         \* ~0ull: getNextTimer has no timer

ASSUME IdleLoopAssumption ==
  /\ IsFiniteSet(Threads) /\ Threads # {} /\ Main \notin Threads
  /\ IsFiniteSet(Timers)
  /\ MaxTasks \in Nat
  /\ MainAdds \in BOOLEAN
  /\ Delays \subseteq Nat
  /\ Width \in Nat \ {0} /\ MAX_TIMEOUT \in Nat /\ 2 * MAX_TIMEOUT < Width
  /\ MaxLate \in Nat
  /\ Never \notin Nat

VARIABLES
  fibres,       \* m_fibres.size()
  m_stopping,   \* with m_autoStop, set by stop()
  pc,           \* where each worker is in run() or idle()
  idleTerm,     \* the idle fibre of the worker has ended
  next_timeout, \* what stopping(timeout) answered in idle()
  wait,         \* what is left of the epoll_wait timeout; negative: no timeout
  late,         \* history: time from getNextTimer to the last call of epoll_wait
  got,          \* what epoll_wait returned and is not handled yet
  cbs,          \* callbacks collected by listExpiredCb
  owes,         \* the thread is about to call tickle()
  pipe,         \* there are bytes in m_tickleFds
  edge,         \* epoll has an edge of m_tickleFds[0] to report
  left,         \* what is left of the time of each timer
  m_timers,
  m_tickled,
  pending,      \* registered events
  happened,     \* those that happened and no epoll_wait has reported
  counting,     \* events triggered and not yet taken off m_pendingEventCount
  mainpc,
  tickles,      \* tickles stop() has still to send
  used          \* history: calls of schedule(), timers and events used

workerVars == <<pc, idleTerm, next_timeout, wait, late, got, cbs>>
pipeVars == <<pipe, edge>>
timerVars == <<left, m_timers, m_tickled>>
eventVars == <<pending, happened, counting>>
mainVars == <<m_stopping, mainpc, tickles>>
vars == <<fibres, workerVars, owes, pipeVars, timerVars, eventVars, mainVars, used>>

Tickle == "tickle"
Actors == Threads \cup {Main}
IdlePCs == {"getNextTimer", "pending", "stopping", "epoll_wait", "expire", "cbs",
            "report", "count"}

Init ==
  /\ fibres = 0
  /\ m_stopping = FALSE
  /\ pc = [t \in Threads |-> "scan"]
  /\ idleTerm = [t \in Threads |-> FALSE]
  /\ next_timeout = [t \in Threads |-> 0]
  /\ wait = [t \in Threads |-> 0]
  /\ late = [t \in Threads |-> 0]
  /\ got = [t \in Threads |-> {}]
  /\ cbs = [t \in Threads |-> 0]
  /\ owes = [a \in Actors |-> FALSE]
  /\ pipe = FALSE
  /\ edge = FALSE
  /\ left = [x \in Timers |-> 0]
  /\ m_timers = {}
  /\ m_tickled = FALSE
  /\ pending = {}
  /\ happened = {}
  /\ counting = {}
  /\ mainpc = "started"
  /\ tickles = 0
  /\ used = [tasks |-> 0, timers |-> {}, events |-> {}]

At(t, l) == pc[t] = l /\ ~owes[t]
Goto(t, l) == pc' = [pc EXCEPT ![t] = l]

HasIdleThreads == \E t \in Threads : pc[t] \in IdlePCs
ActiveThreads == {t \in Threads : pc[t] = "run"}
PendingEventCount == Cardinality(pending) + Cardinality(counting)

(* What TimerManager::getNextTimer answers: the time of the first timer. *)
First ==
  IF m_timers = {} THEN {Never}
  ELSE {left[x] : x \in {y \in m_timers : \A z \in m_timers : left[y] <= left[z]}}

----------------------------------------------------------------------------
(* Faults: wrong versions of the definitions named, which the              *)
(* specification does not use.                                             *)

(* Stop: m_stopping is not set. *)
StopUnflagged ==
  /\ mainpc = "started"
  /\ ~owes[Main]
  /\ tickles' = Cardinality(Threads)
  /\ mainpc' = "stop"
  /\ UNCHANGED <<fibres, m_stopping, workerVars, owes, pipeVars, timerVars, eventVars, used>>

(* GetNextTimer: m_tickled is not cleared. *)
GetNextTimerKeepsTickled(t) ==
  /\ At(t, "getNextTimer")
  /\ \E n \in First : next_timeout' = [next_timeout EXCEPT ![t] = n]
  /\ Goto(t, "pending")
  /\ UNCHANGED <<fibres, idleTerm, wait, late, got, cbs, owes, pipeVars, timerVars, eventVars,
                 mainVars, used>>

(* ListExpired: the comparison is the wrong way round. *)
ListExpiredReversed(t) ==
  LET due == {x \in m_timers : left[x] > 0} IN
  /\ At(t, "expire")
  /\ m_timers' = m_timers \ due
  /\ cbs' = [cbs EXCEPT ![t] = Cardinality(due)]
  /\ Goto(t, IF due = {} THEN "report" ELSE "cbs")
  /\ UNCHANGED <<fibres, idleTerm, next_timeout, wait, late, got, owes, pipeVars, left, m_tickled,
                 eventVars, mainVars, used>>

----------------------------------------------------------------------------
(* Scheduler::schedule of n tasks by actor a: tickle if the list was empty. *)
Schedule(a, n) ==
  /\ fibres' = fibres + n
  /\ owes' = [owes EXCEPT ![a] = fibres = 0]

(* IOManager::tickle: a byte for the pipe, unless no thread is idle. *)
WriteTickle(a) ==
  /\ owes[a]
  /\ owes' = [owes EXCEPT ![a] = FALSE]
  /\ IF HasIdleThreads THEN pipe' = TRUE /\ edge' = TRUE ELSE UNCHANGED pipeVars
  /\ UNCHANGED <<fibres, workerVars, timerVars, eventVars, mainVars, used>>

(* Scheduler::stopping *)
SchedulerStopping == m_stopping /\ fibres = 0 /\ ActiveThreads = {}

----------------------------------------------------------------------------
(* Main: schedule() and addTimer() from outside, then stop(). *)

CallSchedule(a) ==
  /\ used.tasks < MaxTasks
  /\ used' = [used EXCEPT !.tasks = @ + 1]
  /\ Schedule(a, 1)
  /\ UNCHANGED <<workerVars, pipeVars, timerVars, eventVars, mainVars>>

(* addTimer: a timer that comes first tickles, once until getNextTimer. *)
AddTimer(a, x, ms) ==
  /\ x \notin used.timers
  /\ used' = [used EXCEPT !.timers = @ \cup {x}]
  /\ left' = [left EXCEPT ![x] = ms]
  /\ m_timers' = m_timers \cup {x}
  /\ \E first \in BOOLEAN :
       /\ first => \A y \in m_timers : ms <= left[y]
       /\ ~first => \E y \in m_timers : left[y] <= ms
       /\ m_tickled' = (m_tickled \/ first)
       /\ owes' = [owes EXCEPT ![a] = first /\ ~m_tickled]
  /\ UNCHANGED <<fibres, workerVars, pipeVars, eventVars, mainVars>>

MainSchedule == mainpc = "started" /\ ~owes[Main] /\ CallSchedule(Main)

MainAddTimer(x, ms) ==
  /\ MainAdds
  /\ mainpc = "started"
  /\ ~owes[Main]
  /\ AddTimer(Main, x, ms)

(* stop() sets the flags and then tickles once for every thread. *)
Stop ==
  /\ mainpc = "started"
  /\ ~owes[Main]
  /\ m_stopping' = TRUE
  /\ tickles' = Cardinality(Threads)
  /\ mainpc' = "stop"
  /\ UNCHANGED <<fibres, workerVars, owes, pipeVars, timerVars, eventVars, used>>

StopTickle ==
  /\ mainpc = "stop"
  /\ ~owes[Main]
  /\ tickles > 0
  /\ tickles' = tickles - 1
  /\ owes' = [owes EXCEPT ![Main] = TRUE]
  /\ UNCHANGED <<fibres, m_stopping, mainpc, workerVars, pipeVars, timerVars, eventVars, used>>

Join ==
  /\ mainpc = "stop"
  /\ ~owes[Main]
  /\ tickles = 0
  /\ \A t \in Threads : pc[t] = "exited"
  /\ mainpc' = "stopped"
  /\ UNCHANGED <<fibres, m_stopping, tickles, workerVars, owes, pipeVars, timerVars,
                 eventVars, used>>

----------------------------------------------------------------------------
(* Scheduler::run on worker t. *)

(* A task is taken; tickle_me if the list has more. *)
ScanTake(t) ==
  /\ At(t, "scan")
  /\ fibres > 0
  /\ fibres' = fibres - 1
  /\ owes' = [owes EXCEPT ![t] = fibres > 1]
  /\ Goto(t, "run")
  /\ UNCHANGED <<idleTerm, next_timeout, wait, late, got, cbs, pipeVars, timerVars, eventVars,
                 mainVars, used>>

(* The list is empty: leave run() or go on to enter idle, not counted yet. *)
ScanNothing(t) ==
  /\ At(t, "scan")
  /\ fibres = 0
  /\ Goto(t, IF idleTerm[t] THEN "exited" ELSE "goIdle")
  /\ UNCHANGED <<fibres, idleTerm, next_timeout, wait, late, got, cbs, owes, pipeVars, timerVars,
                 eventVars, mainVars, used>>

GoIdle(t) ==
  /\ At(t, "goIdle")
  /\ Goto(t, "getNextTimer")
  /\ UNCHANGED <<fibres, idleTerm, next_timeout, wait, late, got, cbs, owes, pipeVars, timerVars,
                 eventVars, mainVars, used>>

----------------------------------------------------------------------------
(* The body of a task: it schedules, adds a timer, registers an event or   *)
(* ends.  Between these it may be suspended, waiting for any of them.      *)

TaskSchedule(t) == At(t, "run") /\ CallSchedule(t)

TaskAddTimer(t, x, ms) == At(t, "run") /\ AddTimer(t, x, ms)

AddEvent(t, e) ==
  /\ At(t, "run")
  /\ e \notin used.events
  /\ used' = [used EXCEPT !.events = @ \cup {e}]
  /\ pending' = pending \cup {e}
  /\ UNCHANGED <<fibres, workerVars, owes, pipeVars, timerVars, happened, counting, mainVars>>

Finish(t) ==
  /\ At(t, "run")
  /\ Goto(t, "scan")
  /\ UNCHANGED <<fibres, idleTerm, next_timeout, wait, late, got, cbs, owes, pipeVars, timerVars,
                 eventVars, mainVars, used>>

----------------------------------------------------------------------------
(* IOManager::idle on worker t.  stopping(next_timeout) asks for the next  *)
(* timer, the pending count and the scheduler, one after the other.        *)

GetNextTimer(t) ==
  /\ At(t, "getNextTimer")
  /\ m_tickled' = FALSE
  /\ \E n \in First : next_timeout' = [next_timeout EXCEPT ![t] = n]
  /\ Goto(t, "pending")
  /\ UNCHANGED <<fibres, idleTerm, wait, late, got, cbs, owes, pipeVars, left, m_timers, eventVars,
                 mainVars, used>>

(* The cast to int, and the timeout epoll_wait is called with. *)
ToInt(n) == LET r == n % Width IN IF 2 * r < Width THEN r ELSE r - Width

Timeout(n) ==
  IF n = Never THEN MAX_TIMEOUT
  ELSE IF ToInt(n) > MAX_TIMEOUT THEN MAX_TIMEOUT ELSE ToInt(n)

Sleep(t) ==
  /\ wait' = [wait EXCEPT ![t] = Timeout(next_timeout[t])]
  /\ Goto(t, "epoll_wait")

CheckPending(t) ==
  /\ At(t, "pending")
  /\ IF next_timeout[t] = Never /\ PendingEventCount = 0
     THEN Goto(t, "stopping") /\ UNCHANGED wait
     ELSE Sleep(t)
  /\ UNCHANGED <<fibres, idleTerm, next_timeout, late, got, cbs, owes, pipeVars, timerVars,
                 eventVars, mainVars, used>>

(* If all three say so the idle fibre ends, else the worker sleeps. *)
CheckStopping(t) ==
  /\ At(t, "stopping")
  /\ idleTerm' = [idleTerm EXCEPT ![t] = SchedulerStopping]
  /\ IF SchedulerStopping
     THEN Goto(t, "report") /\ late' = [late EXCEPT ![t] = 0] /\ UNCHANGED wait
     ELSE Sleep(t) /\ UNCHANGED late
  /\ UNCHANGED <<fibres, next_timeout, got, cbs, owes, pipeVars, timerVars, eventVars,
                 mainVars, used>>

(* The kernel: external.  A registered event happens; epoll_wait returns  *)
(* what is ready, each edge to one caller, or nothing when time is over.   *)
Happen(e) ==
  /\ e \in pending \ (happened \cup UNION {got[t] : t \in Threads})
  /\ happened' = happened \cup {e}
  /\ UNCHANGED <<fibres, workerVars, owes, pipeVars, timerVars, pending, counting, mainVars,
                 used>>

Ready == happened \cup (IF pipe /\ edge THEN {Tickle} ELSE {})

Wake(t) ==
  /\ At(t, "epoll_wait")
  /\ Ready # {} \/ wait[t] = 0
  /\ got' = [got EXCEPT ![t] = Ready]
  /\ happened' = {}
  /\ edge' = FALSE
  /\ wait' = [wait EXCEPT ![t] = 0]
  /\ late' = [late EXCEPT ![t] = 0]
  /\ Goto(t, "expire")
  /\ UNCHANGED <<fibres, idleTerm, next_timeout, cbs, owes, pipe, timerVars, pending,
                 counting, mainVars, used>>

(* EINTR: the loop calls epoll_wait again with the whole timeout, whatever *)
(* part of it has passed.                                                  *)
Interrupt(t) ==
  LET slept == Timeout(next_timeout[t]) - wait[t] IN
  /\ At(t, "epoll_wait")
  /\ Ready = {}
  /\ late[t] + slept <= MaxLate
  /\ late' = [late EXCEPT ![t] = @ + slept]
  /\ Sleep(t)
  /\ UNCHANGED <<fibres, idleTerm, next_timeout, got, cbs, owes, pipeVars, timerVars,
                 eventVars, mainVars, used>>

(* listExpiredCb *)
ListExpired(t) ==
  LET due == {x \in m_timers : left[x] = 0} IN
  /\ At(t, "expire")
  /\ m_timers' = m_timers \ due
  /\ cbs' = [cbs EXCEPT ![t] = Cardinality(due)]
  /\ Goto(t, IF due = {} THEN "report" ELSE "cbs")
  /\ UNCHANGED <<fibres, idleTerm, next_timeout, wait, late, got, owes, pipeVars, left, m_tickled,
                 eventVars, mainVars, used>>

ScheduleCbs(t) ==
  /\ At(t, "cbs")
  /\ Schedule(t, cbs[t])
  /\ cbs' = [cbs EXCEPT ![t] = 0]
  /\ Goto(t, "report")
  /\ UNCHANGED <<idleTerm, next_timeout, wait, late, got, pipeVars, timerVars, eventVars, mainVars,
                 used>>

(* The worker reads the pipe until it is empty. *)
DrainPipe(t) ==
  /\ At(t, "report")
  /\ Tickle \in got[t]
  /\ got' = [got EXCEPT ![t] = @ \ {Tickle}]
  /\ pipe' = FALSE
  /\ UNCHANGED <<fibres, pc, idleTerm, next_timeout, wait, late, cbs, owes, edge, timerVars,
                 eventVars, mainVars, used>>

(* triggerEvent, then --m_pendingEventCount. *)
TriggerEvent(t, e) ==
  /\ At(t, "report")
  /\ e \in got[t] \cap pending
  /\ got' = [got EXCEPT ![t] = @ \ {e}]
  /\ pending' = pending \ {e}
  /\ counting' = counting \cup {e}
  /\ Schedule(t, 1)
  /\ Goto(t, "count")
  /\ UNCHANGED <<idleTerm, next_timeout, wait, late, cbs, pipeVars, timerVars, happened, mainVars, used>>

CountDown(t) ==
  /\ At(t, "count")
  /\ \E e \in counting : counting' = counting \ {e}
  /\ Goto(t, "report")
  /\ UNCHANGED <<fibres, idleTerm, next_timeout, wait, late, got, cbs, owes, pipeVars, timerVars,
                 pending, happened, mainVars, used>>

(* The idle fibre swaps out, or has ended: run() scans the list again. *)
LeaveIdle(t) ==
  /\ At(t, "report")
  /\ got[t] = {}
  /\ Goto(t, "scan")
  /\ UNCHANGED <<fibres, idleTerm, next_timeout, wait, late, got, cbs, owes, pipeVars, timerVars,
                 eventVars, mainVars, used>>

----------------------------------------------------------------------------
(* One unit of time.  It may pass between getNextTimer and epoll_wait too. *)
Less(n) == IF n > 0 THEN n - 1 ELSE n

Between(t) == pc[t] \in {"pending", "stopping"}

Tick ==
  /\ \A t \in Threads : Between(t) => late[t] < MaxLate
  /\ (\E x \in m_timers : left[x] > 0) \/ (\E t \in Threads : wait[t] > 0)
  /\ left' = [x \in Timers |-> Less(left[x])]
  /\ wait' = [t \in Threads |-> Less(wait[t])]
  /\ late' = [t \in Threads |-> IF Between(t) THEN late[t] + 1 ELSE late[t]]
  /\ UNCHANGED <<fibres, pc, idleTerm, next_timeout, got, cbs, owes, pipeVars, m_timers,
                 m_tickled, eventVars, mainVars, used>>

Stopper == Stop \/ StopTickle \/ Join

Work(t) ==
  \/ ScanTake(t)
  \/ ScanNothing(t)
  \/ GoIdle(t)
  \/ Finish(t)
  \/ GetNextTimer(t)
  \/ CheckPending(t)
  \/ CheckStopping(t)
  \/ Wake(t)
  \/ ListExpired(t)
  \/ ScheduleCbs(t)
  \/ DrainPipe(t)
  \/ \E e \in Events : TriggerEvent(t, e)
  \/ CountDown(t)
  \/ LeaveIdle(t)

Next ==
  \/ MainSchedule
  \/ \E x \in Timers, ms \in Delays : MainAddTimer(x, ms)
  \/ Stopper
  \/ \E a \in Actors : WriteTickle(a)
  \/ \E t \in Threads :
       \/ Work(t)
       \/ Interrupt(t)
       \/ TaskSchedule(t)
       \/ \E x \in Timers, ms \in Delays : TaskAddTimer(t, x, ms)
       \/ \E e \in Events : AddEvent(t, e)
  \/ \E e \in Events : Happen(e)
  \/ Tick

Halted == mainpc = "stopped" /\ UNCHANGED vars

(* Time passes, threads run, task bodies end and registered events happen; *)
(* MaxLate says that no wait is interrupted for ever.                      *)
Fairness ==
  /\ WF_vars(Tick)
  /\ \A e \in Events : WF_vars(Happen(e))
  /\ WF_vars(StopTickle \/ Join)
  /\ \A a \in Actors : WF_vars(WriteTickle(a))
  /\ \A t \in Threads : WF_vars(Work(t))

Spec == Init /\ [][Next \/ Halted]_vars
FairSpec == Spec /\ Fairness

----------------------------------------------------------------------------
(* Properties. *)

TypeOK ==
  /\ fibres \in Nat
  /\ m_stopping \in BOOLEAN
  /\ pc \in [Threads -> IdlePCs \cup {"scan", "goIdle", "run", "exited"}]
  /\ idleTerm \in [Threads -> BOOLEAN]
  /\ next_timeout \in [Threads -> Nat \cup {Never}]
  /\ wait \in [Threads -> Int]
  /\ late \in [Threads -> Nat]
  /\ got \in [Threads -> SUBSET (Events \cup {Tickle})]
  /\ cbs \in [Threads -> Nat]
  /\ owes \in [Actors -> BOOLEAN]
  /\ pipe \in BOOLEAN /\ edge \in BOOLEAN
  /\ left \in [Timers -> Nat]
  /\ m_timers \subseteq Timers
  /\ m_tickled \in BOOLEAN
  /\ pending \subseteq Events
  /\ happened \subseteq pending
  /\ counting \subseteq Events
  /\ mainpc \in {"started", "stop", "stopped"}
  /\ tickles \in 0..Cardinality(Threads)
  /\ used.tasks \in 0..MaxTasks /\ used.timers \subseteq Timers /\ used.events \subseteq Events

Asleep == \A t \in Threads : pc[t] = "epoll_wait"
NoTickleUnderWay == \A a \in Actors : ~owes[a]

(* When every worker sleeps, one of them wakes for the first timer, later  *)
(* than the timer is due by no more than the time that worker lost on the  *)
(* way from getNextTimer into the epoll_wait it is in: delays in between   *)
(* and waits that EINTR cut off, which the code never takes off the        *)
(* timeout.  A timer added after getNextTimer, or while others sleep, is   *)
(* announced through m_tickled and the pipe.                               *)
NoOversleep ==
  Asleep /\ NoTickleUnderWay =>
    \A x \in m_timers :
      (pipe /\ edge) \/ \E t \in Threads : wait[t] >= 0 /\ wait[t] <= left[x] + late[t]

(* The state of the sleepers is sound and wakes one of them for the timer. *)
SleepersWake == TypeOK /\ NoOversleep

(* What is in the list is taken from it, at the latest when an epoll_wait  *)
(* times out.                                                              *)
EveryTaskRuns == fibres > 0 ~> fibres = 0

(* A timer that is due is collected by some idle(), unless stop() comes.   *)
DueTimerRuns ==
  \A x \in Timers :
    (x \in m_timers /\ left[x] = 0) ~> (x \notin m_timers \/ m_stopping)

(* Idle threads do not leave work lying: queued tasks and due timers are   *)
(* taken up, whichever tickle was swallowed by somebody else.              *)
WorkIsTaken == EveryTaskRuns /\ DueTimerRuns

(* stop() returns although one worker may drain the bytes meant for all.   *)
StopReturns == mainpc = "stop" ~> mainpc = "stopped"

(* When stop() has returned no task, timer or registered event is left.    *)
StopDrains == mainpc = "stopped" => fibres = 0 /\ m_timers = {} /\ pending = {}
=============================================================================

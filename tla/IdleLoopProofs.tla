--------------------------- MODULE IdleLoopProofs ---------------------------
(***************************************************************************)
(* Theorems about IdleLoop, for any number of workers, timers, events and  *)
(* tasks.                                                                  *)
(***************************************************************************)
EXTENDS IdleLoop, FiniteSetTheorems, TLAPS

(* No delay is so long that the cast to int makes it negative, which       *)
(* epoll_wait takes for no timeout at all: with 32 bits, under 24.8 days.  *)
ShortDelays == \A ms \in Delays : 2 * ms < Width

Short ==
  /\ \A x \in Timers : 2 * left[x] < Width
  /\ \A t \in Threads : next_timeout[t] # Never => 2 * next_timeout[t] < Width

(* An event that some epoll_wait reported has not happened again. *)
Once == \A t \in Threads : got[t] \cap happened = {}

UsedOK == used \in [tasks : 0..MaxTasks, timers : SUBSET Timers, events : SUBSET Events]

(* Between getNextTimer and the return of epoll_wait a worker does not     *)
(* look at the timers.                                                     *)
SleepPCs == {"pending", "stopping", "epoll_wait"}
Committed == \A t \in Threads : pc[t] \in SleepPCs

(* A byte that wakes a sleeper is in the pipe, or about to be. *)
Rings == (pipe /\ edge) \/ owes[Main]

(* Worker t wakes, or will wake, for timer x, but for the time it lost. *)
Covers(t, x) ==
  \/ pc[t] = "epoll_wait" /\ 0 <= wait[t] /\ wait[t] <= left[x] + late[t]
  \/ pc[t] = "pending" /\ next_timeout[t] # Never /\ next_timeout[t] <= left[x] + late[t]

(* When nobody is going to look, the first timer was announced or somebody *)
(* wakes in time for it.                                                   *)
Covered ==
  Committed => /\ m_tickled => Rings
               /\ \A x \in m_timers : Rings \/ \E t \in Threads : Covers(t, x)

(* A wait is never longer than what epoll_wait was called with. *)
Slept == \A t \in Threads : pc[t] = "epoll_wait" => wait[t] <= Timeout(next_timeout[t])

IdleInv == TypeOK /\ UsedOK /\ Once /\ Short /\ Slept /\ Covered

LEMMA IdleInit == Init => IdleInv
<1> SUFFICES ASSUME Init PROVE IdleInv
  OBVIOUS
<1> USE IdleLoopAssumption DEF Init
<1>1. Cardinality(Threads) \in Nat
  BY FS_CardinalityType
<1>2. UsedOK
  BY DEF UsedOK
<1>3. owes \in [Actors -> BOOLEAN]
  OBVIOUS
<1>4. /\ m_stopping \in BOOLEAN /\ pipe \in BOOLEAN /\ edge \in BOOLEAN /\ m_tickled \in BOOLEAN
  BY Zenon
<1>5. TypeOK
  BY <1>1, <1>3, <1>4 DEF TypeOK, IdlePCs
<1>6. Once /\ Short /\ Slept
  BY DEF Once, Short, Slept
<1>7. ~Committed
  BY DEF Committed, SleepPCs
<1> QED
  BY <1>2, <1>5, <1>6, <1>7 DEF IdleInv, Covered

(* The timeout of epoll_wait: an int, and for a short delay between 0 and  *)
(* the delay.                                                              *)
LEMMA TimeoutOfShort ==
  ASSUME NEW n \in Nat, 2 * n < Width
  PROVE  Timeout(n) \in Int /\ 0 <= Timeout(n) /\ Timeout(n) <= n
<1> USE IdleLoopAssumption
<1>1. n # Never
  OBVIOUS
<1>2. n % Width = n
  OBVIOUS
<1>3. ToInt(n) = n
  BY <1>2 DEF ToInt
<1> QED
  BY <1>1, <1>3 DEF Timeout

LEMMA TimeoutOfAny ==
  ASSUME NEW n \in Nat \cup {Never}
  PROVE  Timeout(n) \in Int
<1> USE IdleLoopAssumption
<1>1. CASE n = Never
  BY <1>1 DEF Timeout
<1>2. CASE n \in Nat
  <2>1. n % Width \in Int
    BY <1>2
  <2>2. ToInt(n) \in Int
    BY <2>1 DEF ToInt
  <2> QED
    BY <1>2, <2>2 DEF Timeout
<1> QED
  BY <1>1, <1>2

(* While some worker will look at the timers, nothing is asked. *)
LEMMA SomebodyAwake ==
  ASSUME NEW t \in Threads, pc'[t] \notin SleepPCs
  PROVE  Covered'
BY DEF Covered, Committed

LEMMA StillCovered ==
  ASSUME Covered, UNCHANGED <<pc, m_tickled, pipeVars, owes, m_timers, left, wait, late, next_timeout>>
  PROVE  Covered'
BY DEF Covered, Committed, Rings, Covers, pipeVars

(* The announcement of a timer that comes first reaches the sleepers. *)
LEMMA AddTimerCovered ==
  ASSUME TypeOK, Covered, NEW x \in Timers, NEW ms \in Delays, AddTimer(Main, x, ms), ~owes[Main]
  PROVE  Covered'
<1> USE IdleLoopAssumption DEF workerVars, pipeVars
<1>1. PICK first \in BOOLEAN :
        /\ ~first => \E y \in m_timers : left[y] <= ms
        /\ m_tickled' = (m_tickled \/ first)
        /\ owes' = [owes EXCEPT ![Main] = first /\ ~m_tickled]
  BY DEF AddTimer
<1>2. /\ \A y \in Timers : left'[y] = IF y = x THEN ms ELSE left[y]
      /\ m_timers' = m_timers \cup {x} /\ m_timers \subseteq Timers
      /\ UNCHANGED <<pc, next_timeout, wait, late, pipe, edge>>
  BY DEF AddTimer, TypeOK
<1>3. owes'[Main] <=> first /\ ~m_tickled
  BY <1>1 DEF TypeOK, Actors
<1> SUFFICES ASSUME Committed
             PROVE  /\ m_tickled' => Rings'
                    /\ \A y \in m_timers' : Rings' \/ \E t \in Threads : Covers(t, y)'
  BY <1>2 DEF Covered, Committed
<1>4. CASE Rings
  BY <1>2, <1>4 DEF Rings
<1>5. CASE ~Rings /\ first
  BY <1>3, <1>5 DEF Covered, Rings
<1>6. CASE ~Rings /\ ~first
  <2>1. ~m_tickled'
    BY <1>1, <1>6 DEF Covered
  <2>2. ASSUME NEW y \in m_timers, NEW t \in Threads, Covers(t, y),
               NEW z \in Timers, left[y] <= left'[z]
        PROVE  Covers(t, z)'
    <3>1. /\ left[y] \in Nat /\ wait[t] \in Int /\ next_timeout[t] \in Nat \cup {Never}
          /\ left'[z] \in Nat /\ late[t] \in Nat
      BY <1>2 DEF TypeOK
    <3> QED
      BY <1>2, <2>2, <3>1 DEF Covers
  <2>3. PICK y \in m_timers : left[y] <= ms
    BY <1>1, <1>6
  <2>4. \E t \in Threads : Covers(t, x)'
    BY <1>2, <1>6, <2>2, <2>3 DEF Covered
  <2>5. ASSUME NEW z \in m_timers, z # x PROVE \E t \in Threads : Covers(t, z)'
    <3>1. left[z] <= left'[z]
      BY <1>2, <2>5 DEF TypeOK
    <3> QED
      BY <1>2, <1>6, <2>2, <2>5, <3>1 DEF Covered
  <2> QED
    BY <1>2, <2>1, <2>4, <2>5
<1> QED
  BY <1>4, <1>5, <1>6

(* A worker that asked for the first timer covers all of them. *)
LEMMA GetNextTimerCovered ==
  ASSUME TypeOK, NEW t \in Threads, GetNextTimer(t)
  PROVE  Covered'
<1> USE IdleLoopAssumption DEF timerVars
<1>1. PICK n \in First : next_timeout' = [next_timeout EXCEPT ![t] = n]
  BY DEF GetNextTimer
<1>2. next_timeout'[t] = n /\ pc'[t] = "pending" /\ UNCHANGED <<left, m_timers>> /\ ~m_tickled'
  BY <1>1 DEF GetNextTimer, Goto, TypeOK
<1>3. ASSUME NEW x \in m_timers PROVE n # Never /\ n <= left[x] + late'[t]
  <2>1. n \in Nat /\ n <= left[x] /\ left[x] \in Nat
    BY <1>3 DEF First, TypeOK
  <2>2. late'[t] \in Nat
    BY DEF GetNextTimer, TypeOK
  <2> QED
    BY <2>1, <2>2
<1>4. \A x \in m_timers' : Covers(t, x)'
  BY <1>2, <1>3 DEF Covers
<1> QED
  BY <1>2, <1>4 DEF Covered

(* Going to sleep keeps what the worker covers. *)
LEMMA SleepCovered ==
  ASSUME TypeOK, Short, Covered, NEW t \in Threads, Sleep(t),
         pc[t] = "pending" \/ next_timeout[t] = Never, pc[t] \in {"pending", "stopping"},
         UNCHANGED <<m_tickled, pipeVars, owes, m_timers, left, late, next_timeout>>
  PROVE  Covered'
<1> USE DEF pipeVars
<1>1. PICK n \in Nat \cup {Never} : n = next_timeout[t]
  BY DEF TypeOK
<1>2. /\ pc'[t] = "epoll_wait" /\ wait'[t] = Timeout(n)
      /\ \A u \in Threads : u # t => pc'[u] = pc[u] /\ wait'[u] = wait[u]
  BY <1>1 DEF Sleep, Goto, TypeOK
<1>3. ASSUME NEW x \in m_timers, NEW u \in Threads, Covers(u, x) PROVE Covers(u, x)'
  <2>1. CASE u # t
    BY <1>2, <1>3, <2>1 DEF Covers
  <2>2. CASE u = t
    <3>1. n \in Nat /\ n <= left[x] + late[t] /\ 2 * n < Width /\ left[x] \in Nat /\ late[t] \in Nat
      BY <1>1, <1>3, <2>2, IdleLoopAssumption DEF Covers, Short, TypeOK
    <3>2. Timeout(n) \in Int /\ 0 <= Timeout(n) /\ Timeout(n) <= n
      BY <3>1, TimeoutOfShort
    <3>3. 0 <= Timeout(n) /\ Timeout(n) <= left[x] + late[t]
      BY <3>1, <3>2
    <3> QED
      BY <1>2, <2>2, <3>3 DEF Covers
  <2> QED
    BY <2>1, <2>2
<1>4. Committed' => Committed
  BY <1>2 DEF Committed, SleepPCs
<1> QED
  BY <1>3, <1>4 DEF Covered, Rings

(* A wait that is cut off and begun again loses what it had slept. *)
LEMMA InterruptCovered ==
  ASSUME TypeOK, Slept, Covered, NEW t \in Threads, Interrupt(t)
  PROVE  Covered'
<1> USE IdleLoopAssumption DEF pipeVars, timerVars
<1>1. PICK n \in Nat \cup {Never} : n = next_timeout[t]
  BY DEF TypeOK
<1>2. PICK m \in Int : m = Timeout(n)
  BY TimeoutOfAny
<1>3. /\ pc[t] = "epoll_wait" /\ UNCHANGED <<pc, owes, pipe, edge, m_timers, m_tickled, left,
                                            next_timeout>>
      /\ wait'[t] = m /\ late'[t] = late[t] + (m - wait[t])
      /\ \A u \in Threads : u # t => wait'[u] = wait[u] /\ late'[u] = late[u]
  <2>1. pc[t] = "epoll_wait" /\ pc' = [pc EXCEPT ![t] = "epoll_wait"]
    BY DEF Interrupt, At, Sleep, Goto
  <2>2. pc' = pc
    BY <2>1 DEF TypeOK
  <2> QED
    BY <1>1, <1>2, <2>1, <2>2 DEF Interrupt, Sleep, TypeOK
<1>4. 0 <= wait[t] => 0 <= m
  <2>1. wait[t] <= m
    BY <1>1, <1>2, <1>3 DEF Slept
  <2> QED
    BY <2>1 DEF TypeOK
<1>5. ASSUME NEW x \in m_timers, NEW u \in Threads, Covers(u, x) PROVE Covers(u, x)'
  <2>1. CASE u # t
    BY <1>3, <1>5, <2>1 DEF Covers
  <2>2. CASE u = t
    <3>1. left[x] \in Nat /\ late[t] \in Nat /\ wait[t] \in Int
      BY DEF TypeOK
    <3>2. 0 <= wait[t] /\ wait[t] <= left[x] + late[t]
      BY <1>3, <1>5, <2>2 DEF Covers
    <3>3. m <= left[x] + (late[t] + (m - wait[t]))
      BY <3>1, <3>2
    <3> QED
      BY <1>3, <1>4, <2>2, <3>2, <3>3 DEF Covers
  <2> QED
    BY <2>1, <2>2
<1> QED
  BY <1>3, <1>5 DEF Covered, Committed, Rings

(* Time passes for sleepers and timers alike. *)
LEMMA TickCovered ==
  ASSUME TypeOK, Covered, Tick
  PROVE  Covered'
<1> USE IdleLoopAssumption DEF pipeVars
<1>1. /\ \A x \in Timers : left'[x] = Less(left[x])
      /\ \A t \in Threads :
           /\ wait'[t] = Less(wait[t])
           /\ late'[t] = IF Between(t) THEN late[t] + 1 ELSE late[t]
      /\ UNCHANGED <<pc, owes, pipe, edge, m_timers, m_tickled, next_timeout>>
  BY DEF Tick
<1>2. ASSUME NEW x \in m_timers, NEW t \in Threads, Covers(t, x) PROVE Covers(t, x)'
  <2>1. left[x] \in Nat /\ wait[t] \in Int /\ late[t] \in Nat /\ x \in Timers
    BY DEF TypeOK
  <2>2. CASE pc[t] = "epoll_wait"
    <3>1. 0 <= wait[t] /\ wait[t] <= left[x] + late[t]
      BY <1>2, <2>2 DEF Covers
    <3>2. 0 <= Less(wait[t]) /\ Less(wait[t]) <= Less(left[x]) + late[t]
      BY <2>1, <3>1 DEF Less
    <3>3. late'[t] = late[t]
      BY <1>1, <2>2 DEF Between
    <3> QED
      BY <1>1, <2>1, <2>2, <3>2, <3>3 DEF Covers
  <2>3. CASE pc[t] = "pending"
    <3>1. next_timeout[t] # Never /\ next_timeout[t] <= left[x] + late[t]
      BY <1>2, <2>3 DEF Covers
    <3>2. next_timeout[t] \in Nat
      BY <3>1 DEF TypeOK
    <3>3. next_timeout[t] <= Less(left[x]) + (late[t] + 1)
      BY <2>1, <3>1, <3>2 DEF Less
    <3>4. late'[t] = late[t] + 1
      BY <1>1, <2>3 DEF Between
    <3> QED
      BY <1>1, <2>1, <2>3, <3>1, <3>3, <3>4 DEF Covers
  <2> QED
    BY <1>2, <2>2, <2>3 DEF Covers
<1> QED
  BY <1>1, <1>2 DEF Covered, Committed, Rings

LEMMA CoveredStep == TypeOK /\ Short /\ Slept /\ Covered /\ [Next \/ Halted]_vars => Covered'
<1> SUFFICES ASSUME TypeOK, Short, Slept, Covered, [Next \/ Halted]_vars PROVE Covered'
  OBVIOUS
<1> USE IdleLoopAssumption DEF workerVars, pipeVars, timerVars, eventVars, mainVars, At, Goto
<1>1. CASE MainSchedule
  BY <1>1 DEF MainSchedule, CallSchedule, Schedule, Covered, Committed, Rings, Covers
<1>2. ASSUME NEW x \in Timers, NEW ms \in Delays, MainAddTimer(x, ms) PROVE Covered'
  BY <1>2, AddTimerCovered DEF MainAddTimer
<1>3. CASE Stop \/ Join
  BY <1>3, StillCovered DEF Stop, Join
<1>4. CASE StopTickle
  <2>1. owes'[Main] /\ UNCHANGED pc
    BY <1>4 DEF StopTickle, TypeOK, Actors
  <2> QED
    BY <2>1 DEF Covered, Rings
<1>5. ASSUME NEW a \in Actors, WriteTickle(a) PROVE Covered'
  <2>1. UNCHANGED pc
    BY <1>5 DEF WriteTickle
  <2>2. ASSUME Committed PROVE pipe' /\ edge'
    <3>1. PICK t \in Threads : TRUE
      OBVIOUS
    <3>2. pc[t] \in IdlePCs
      BY <2>2 DEF Committed, SleepPCs, IdlePCs
    <3>3. HasIdleThreads
      BY <3>2 DEF HasIdleThreads
    <3> QED
      BY <1>5, <3>3 DEF WriteTickle
  <2> QED
    BY <2>1, <2>2 DEF Covered, Committed, Rings
<1>6. ASSUME NEW t \in Threads, Work(t) PROVE Covered'
  <2>1. CASE ScanTake(t) \/ ScanNothing(t) \/ GoIdle(t) \/ Finish(t) \/ LeaveIdle(t)
    <3>1. pc'[t] \notin SleepPCs
      BY <2>1 DEF ScanTake, ScanNothing, GoIdle, Finish, LeaveIdle, TypeOK, SleepPCs
    <3> QED
      BY <3>1, SomebodyAwake
  <2>2. CASE GetNextTimer(t)
    BY <2>2, GetNextTimerCovered
  <2>3. CASE CheckPending(t)
    <3>1. CASE Sleep(t)
      BY <2>3, <3>1, SleepCovered DEF CheckPending
    <3>2. CASE ~Sleep(t)
      <4>1. /\ next_timeout[t] = Never /\ pc[t] = "pending"
            /\ pc' = [pc EXCEPT ![t] = "stopping"]
            /\ UNCHANGED <<wait, late, m_tickled, pipe, edge, owes, m_timers, left, next_timeout>>
        BY <2>3, <3>2 DEF CheckPending
      <4>2. \A u \in Threads : u # t => pc'[u] = pc[u]
        BY <4>1 DEF TypeOK
      <4>3. \A x \in m_timers, u \in Threads : Covers(u, x) => Covers(u, x)'
        BY <4>1, <4>2 DEF Covers
      <4>4. Committed' => Committed
        BY <4>1, <4>2 DEF Committed, SleepPCs
      <4> QED
        BY <4>1, <4>3, <4>4 DEF Covered, Rings
    <3> QED
      BY <3>1, <3>2
  <2>4. CASE CheckStopping(t)
    <3>1. CASE pc'[t] = "report"
      BY <3>1, SomebodyAwake DEF SleepPCs
    <3>2. CASE pc'[t] # "report"
      <4>1. /\ pc[t] = "stopping" /\ pc' = [pc EXCEPT ![t] = "epoll_wait"]
            /\ \A u \in Threads : u # t => wait'[u] = wait[u]
            /\ UNCHANGED <<late, m_tickled, pipe, edge, owes, m_timers, left, next_timeout>>
        BY <2>4, <3>2 DEF CheckStopping, Sleep, TypeOK
      <4>2. \A u \in Threads : u # t => pc'[u] = pc[u]
        BY <4>1 DEF TypeOK
      <4>3. \A x \in m_timers, u \in Threads : Covers(u, x) => Covers(u, x)'
        BY <4>1, <4>2 DEF Covers
      <4>4. Committed' => Committed
        BY <4>1, <4>2 DEF Committed, SleepPCs
      <4> QED
        BY <4>1, <4>3, <4>4 DEF Covered, Rings
    <3> QED
      BY <3>1, <3>2
  <2>5. CASE Wake(t) \/ ListExpired(t) \/ ScheduleCbs(t) \/ DrainPipe(t) \/ CountDown(t)
    <3>1. pc'[t] \notin SleepPCs
      BY <2>5 DEF Wake, ListExpired, ScheduleCbs, DrainPipe, CountDown, TypeOK, SleepPCs
    <3> QED
      BY <3>1, SomebodyAwake
  <2>6. ASSUME NEW e \in Events, TriggerEvent(t, e) PROVE Covered'
    <3>1. pc'[t] \notin SleepPCs
      BY <2>6 DEF TriggerEvent, TypeOK, SleepPCs
    <3> QED
      BY <3>1, SomebodyAwake
  <2> QED
    BY <1>6, <2>1, <2>2, <2>3, <2>4, <2>5, <2>6 DEF Work
<1>7. ASSUME NEW t \in Threads, \/ TaskSchedule(t)
                                \/ \E x \in Timers, ms \in Delays : TaskAddTimer(t, x, ms)
                                \/ \E e \in Events : AddEvent(t, e)
      PROVE  Covered'
  <2>1. pc'[t] \notin SleepPCs
    BY <1>7 DEF TaskSchedule, CallSchedule, TaskAddTimer, AddTimer, AddEvent, SleepPCs
  <2> QED
    BY <2>1, SomebodyAwake
<1>8. ASSUME NEW e \in Events, Happen(e) PROVE Covered'
  BY <1>8, StillCovered DEF Happen
<1>9. CASE Tick
  BY <1>9, TickCovered
<1>10. CASE UNCHANGED vars
  BY <1>10, StillCovered DEF vars
<1>11. ASSUME NEW t \in Threads, Interrupt(t) PROVE Covered'
  BY <1>11, InterruptCovered
<1> QED
  BY <1>1, <1>2, <1>3, <1>4, <1>5, <1>6, <1>7, <1>8, <1>9, <1>10, <1>11 DEF Next, Stopper, Halted

(* A sleeper's wait only gets shorter until epoll_wait is called anew. *)
LEMMA SleptStep == TypeOK /\ Slept /\ [Next \/ Halted]_vars => Slept'
<1> SUFFICES ASSUME TypeOK, Slept, [Next \/ Halted]_vars,
                    NEW t \in Threads, pc'[t] = "epoll_wait"
             PROVE  wait'[t] <= Timeout(next_timeout'[t])
  BY DEF Slept
<1> USE IdleLoopAssumption DEF workerVars, pipeVars, timerVars, eventVars, mainVars, At, Goto
<1>0. /\ wait[t] \in Int /\ Timeout(next_timeout[t]) \in Int
      /\ pc[t] = "epoll_wait" => wait[t] <= Timeout(next_timeout[t])
  BY TimeoutOfAny DEF TypeOK, Slept
<1>1. CASE UNCHANGED <<pc, wait, next_timeout>>
  BY <1>0, <1>1
<1>2. ASSUME NEW u \in Threads, Work(u) \/ Interrupt(u),
             pc'[u] # "epoll_wait" \/ Sleep(u)
      PROVE  wait'[t] <= Timeout(next_timeout'[t])
  <2>1. CASE u = t
    <3>1. Sleep(t) /\ UNCHANGED next_timeout
      BY <1>2, <2>1 DEF Work, Interrupt, ScanTake, ScanNothing, GoIdle, Finish, GetNextTimer,
           CheckPending, CheckStopping, Wake, ListExpired, ScheduleCbs, DrainPipe, TriggerEvent,
           CountDown, LeaveIdle, Sleep, TypeOK
    <3>2. wait'[t] = Timeout(next_timeout[t])
      BY <3>1 DEF Sleep, TypeOK
    <3> QED
      BY <1>0, <3>1, <3>2
  <2>2. CASE u # t
    <3>1. pc'[t] = pc[t] /\ wait'[t] = wait[t] /\ next_timeout'[t] = next_timeout[t]
      BY <1>2, <2>2 DEF Work, Interrupt, ScanTake, ScanNothing, GoIdle, Finish, GetNextTimer,
           CheckPending, CheckStopping, Wake, ListExpired, ScheduleCbs, DrainPipe, TriggerEvent,
           CountDown, LeaveIdle, Sleep, TypeOK
    <3> QED
      BY <1>0, <3>1
  <2> QED
    BY <2>1, <2>2
<1>3. ASSUME NEW u \in Threads, Work(u) \/ Interrupt(u)
      PROVE  pc'[u] # "epoll_wait" \/ Sleep(u)
  BY <1>3 DEF Work, Interrupt, ScanTake, ScanNothing, GoIdle, Finish, GetNextTimer,
       CheckPending, CheckStopping, Wake, ListExpired, ScheduleCbs, DrainPipe, TriggerEvent,
       CountDown, LeaveIdle, TypeOK
<1>4. CASE Tick
  <2>1. wait'[t] = Less(wait[t]) /\ UNCHANGED <<pc, next_timeout>>
    BY <1>4 DEF Tick
  <2> QED
    BY <1>0, <2>1 DEF Less
<1>5. ASSUME ~Tick, \A u \in Threads : ~Work(u) /\ ~Interrupt(u)
      PROVE  UNCHANGED <<pc, wait, next_timeout>>
  BY <1>5 DEF Next, Stopper, Halted, vars, MainSchedule, MainAddTimer, CallSchedule, AddTimer,
       Stop, StopTickle, Join, WriteTickle, TaskSchedule, TaskAddTimer, AddEvent, Happen
<1> QED
  BY <1>1, <1>2, <1>3, <1>4, <1>5

----------------------------------------------------------------------------
(* Types.  What a call of schedule() or addTimer changes. *)
LEMMA ScheduleType ==
  ASSUME TypeOK, NEW a \in Actors, NEW n \in Nat, Schedule(a, n)
  PROVE  fibres' \in Nat /\ owes' \in [Actors -> BOOLEAN]
<1>1. fibres' \in Nat
  BY DEF Schedule, TypeOK
<1>2. (fibres = 0) \in BOOLEAN
  OBVIOUS
<1>3. owes' \in [Actors -> BOOLEAN]
  BY <1>2 DEF Schedule, TypeOK
<1> QED
  BY <1>1, <1>3

LEMMA CallScheduleType ==
  ASSUME TypeOK, UsedOK, Once, Short, NEW a \in Actors, CallSchedule(a)
  PROVE  TypeOK' /\ UsedOK' /\ Once' /\ Short'
<1> USE IdleLoopAssumption DEF workerVars, pipeVars, timerVars, eventVars, mainVars
<1>1. fibres' \in Nat /\ owes' \in [Actors -> BOOLEAN]
  BY ScheduleType DEF CallSchedule
<1>2. UsedOK'
  BY DEF CallSchedule, UsedOK
<1>3. TypeOK'
  BY <1>1, <1>2 DEF CallSchedule, TypeOK, UsedOK
<1> QED
  BY <1>2, <1>3 DEF CallSchedule, Once, Short

LEMMA AddTimerTypes ==
  ASSUME TypeOK, UsedOK, Once, Short, ShortDelays, NEW a \in Actors, NEW x \in Timers,
         NEW ms \in Delays, AddTimer(a, x, ms)
  PROVE  TypeOK' /\ UsedOK' /\ Once' /\ Short'
<1> USE IdleLoopAssumption DEF workerVars, pipeVars, timerVars, eventVars, mainVars
<1>1. UsedOK'
  BY DEF AddTimer, UsedOK
<1>2. m_tickled' \in BOOLEAN
  BY Zenon DEF AddTimer
<1>3. PICK first \in BOOLEAN : owes' = [owes EXCEPT ![a] = first /\ ~m_tickled]
  BY DEF AddTimer
<1>4. (first /\ ~m_tickled) \in BOOLEAN
  BY Zenon
<1>5. owes' \in [Actors -> BOOLEAN]
  BY <1>3, <1>4 DEF TypeOK
<1>6. TypeOK'
  BY <1>1, <1>2, <1>5 DEF AddTimer, TypeOK, UsedOK
<1> QED
  BY <1>1, <1>6 DEF AddTimer, Once, Short, ShortDelays, TypeOK

(* A step that only moves worker t and what it has in hand. *)
LEMMA MoveTypes ==
  ASSUME TypeOK, UsedOK, Once, Short, NEW t \in Threads, late' \in [Threads -> Nat],
         pc' \in [Threads -> IdlePCs \cup {"scan", "goIdle", "run", "exited"}],
         idleTerm' \in [Threads -> BOOLEAN], wait' \in [Threads -> Int],
         UNCHANGED <<fibres, next_timeout, got, cbs, owes, pipeVars, timerVars, eventVars,
                     mainVars, used>>
  PROVE  TypeOK' /\ UsedOK' /\ Once' /\ Short'
<1> USE DEF pipeVars, timerVars, eventVars, mainVars
<1>1. TypeOK'
  BY DEF TypeOK
<1> QED
  BY <1>1 DEF UsedOK, Once, Short

LEMMA TypesStep ==
  ShortDelays /\ TypeOK /\ UsedOK /\ Once /\ Short /\ Slept /\ [Next \/ Halted]_vars
    => TypeOK' /\ UsedOK' /\ Once' /\ Short'
<1> SUFFICES ASSUME ShortDelays, TypeOK, UsedOK, Once, Short, Slept, [Next \/ Halted]_vars
             PROVE  TypeOK' /\ UsedOK' /\ Once' /\ Short'
  OBVIOUS
<1> USE IdleLoopAssumption DEF workerVars, pipeVars, timerVars, eventVars, mainVars, At, Goto
<1>0. Cardinality(Threads) \in Nat /\ Main \in Actors /\ \A t \in Threads : t \in Actors
  BY FS_CardinalityType DEF Actors
<1>1. CASE MainSchedule
  BY <1>0, <1>1, CallScheduleType DEF MainSchedule
<1>2. ASSUME NEW x \in Timers, NEW ms \in Delays, MainAddTimer(x, ms)
      PROVE  TypeOK' /\ UsedOK' /\ Once' /\ Short'
  BY <1>0, <1>2, AddTimerTypes DEF MainAddTimer
<1>3. CASE Stop \/ StopTickle \/ Join
  <2>1. ASSUME Stop PROVE TypeOK'
    <3>1. m_stopping' \in BOOLEAN
      BY <2>1, Zenon DEF Stop
    <3> QED
      BY <1>0, <2>1, <3>1 DEF Stop, TypeOK
  <2>2. ASSUME StopTickle PROVE TypeOK'
    BY <1>0, <2>2 DEF StopTickle, TypeOK
  <2>3. ASSUME Join PROVE TypeOK'
    BY <2>3 DEF Join, TypeOK
  <2>4. TypeOK'
    BY <1>3, <2>1, <2>2, <2>3
  <2> QED
    BY <1>3, <2>4 DEF Stop, StopTickle, Join, UsedOK, Once, Short
<1>4. ASSUME NEW a \in Actors, WriteTickle(a)
      PROVE  TypeOK' /\ UsedOK' /\ Once' /\ Short'
  <2>1. owes' \in [Actors -> BOOLEAN] /\ pipe' \in BOOLEAN /\ edge' \in BOOLEAN
    BY <1>4 DEF WriteTickle, TypeOK
  <2>2. TypeOK'
    BY <1>4, <2>1 DEF WriteTickle, TypeOK
  <2> QED
    BY <1>4, <2>2 DEF WriteTickle, UsedOK, Once, Short
<1>5. ASSUME NEW t \in Threads, Work(t)
      PROVE  TypeOK' /\ UsedOK' /\ Once' /\ Short'
  <2>1. CASE ScanTake(t)
    <3>1. PICK more \in BOOLEAN : owes' = [owes EXCEPT ![t] = more]
      <4>1. (fibres > 1) \in BOOLEAN
        OBVIOUS
      <4> QED
        BY <2>1, <4>1, Zenon DEF ScanTake
    <3>2. owes' \in [Actors -> BOOLEAN] /\ fibres' \in Nat
      <4>1. owes' \in [Actors -> BOOLEAN]
        BY <3>1 DEF TypeOK
      <4>2. fibres \in Nat /\ fibres > 0 /\ fibres' = fibres - 1
        BY <2>1 DEF ScanTake, TypeOK
      <4> QED
        BY <4>1, <4>2
    <3>3. TypeOK'
      BY <2>1, <3>2 DEF ScanTake, TypeOK
    <3> QED
      BY <2>1, <3>3 DEF ScanTake, UsedOK, Once, Short
  <2>2. CASE ScanNothing(t) \/ GoIdle(t) \/ Finish(t) \/ LeaveIdle(t)
    <3>1. pc' \in [Threads -> IdlePCs \cup {"scan", "goIdle", "run", "exited"}]
      BY <2>2 DEF ScanNothing, GoIdle, Finish, LeaveIdle, TypeOK, IdlePCs
    <3> QED
      BY <2>2, <3>1, MoveTypes DEF ScanNothing, GoIdle, Finish, LeaveIdle, TypeOK
  <2>3. CASE GetNextTimer(t)
    <3>1. PICK n \in First : next_timeout' = [next_timeout EXCEPT ![t] = n]
      BY <2>3 DEF GetNextTimer
    <3>2. n = Never \/ \E x \in Timers : n = left[x]
      BY DEF First, TypeOK
    <3>3. n \in Nat \cup {Never} /\ (n # Never => 2 * n < Width)
      BY <3>2 DEF TypeOK, Short
    <3>4. m_tickled' \in BOOLEAN
      BY <2>3, Zenon DEF GetNextTimer
    <3>5. TypeOK'
      BY <2>3, <3>1, <3>3, <3>4 DEF GetNextTimer, TypeOK, IdlePCs
    <3>6. Short'
      BY <2>3, <3>1, <3>3 DEF GetNextTimer, TypeOK, Short
    <3> QED
      BY <2>3, <3>5, <3>6 DEF GetNextTimer, UsedOK, Once
  <2>4. CASE CheckPending(t) \/ CheckStopping(t)
    <3>1. Timeout(next_timeout[t]) \in Int
      BY TimeoutOfAny DEF TypeOK
    <3>2. wait' \in [Threads -> Int]
      BY <2>4, <3>1 DEF CheckPending, CheckStopping, Sleep, TypeOK
    <3>3. SchedulerStopping \in BOOLEAN
      BY Zenon DEF SchedulerStopping
    <3>4. idleTerm' \in [Threads -> BOOLEAN]
      BY <2>4, <3>3 DEF CheckPending, CheckStopping, TypeOK
    <3>5. pc' \in [Threads -> IdlePCs \cup {"scan", "goIdle", "run", "exited"}]
      BY <2>4 DEF CheckPending, CheckStopping, Sleep, TypeOK, IdlePCs
    <3>6. late' \in [Threads -> Nat]
      BY <2>4 DEF CheckPending, CheckStopping, TypeOK
    <3> QED
      BY <2>4, <3>2, <3>4, <3>5, <3>6, MoveTypes DEF CheckPending, CheckStopping
  <2>5. CASE Wake(t)
    <3>1. Ready \subseteq Events \cup {Tickle}
      BY DEF Ready, TypeOK
    <3>2. edge' \in BOOLEAN
      BY <2>5, Zenon DEF Wake
    <3>3. TypeOK'
      BY <2>5, <3>1, <3>2 DEF Wake, TypeOK, IdlePCs
    <3> QED
      BY <2>5, <3>3 DEF Wake, UsedOK, Once, Short
  <2>6. CASE ListExpired(t)
    <3>1. Cardinality({x \in m_timers : left[x] = 0}) \in Nat
      BY FS_Subset, FS_CardinalityType DEF TypeOK
    <3>2. cbs' \in [Threads -> Nat]
      BY <2>6, <3>1 DEF ListExpired, TypeOK
    <3>3. pc' \in [Threads -> IdlePCs \cup {"scan", "goIdle", "run", "exited"}]
      BY <2>6 DEF ListExpired, TypeOK, IdlePCs
    <3>4. m_timers' \subseteq Timers
      BY <2>6 DEF ListExpired, TypeOK
    <3>5. TypeOK'
      BY <2>6, <3>2, <3>3, <3>4 DEF ListExpired, TypeOK
    <3> QED
      BY <2>6, <3>5 DEF ListExpired, UsedOK, Once, Short
  <2>7. CASE ScheduleCbs(t)
    <3>1. cbs[t] \in Nat
      BY DEF TypeOK
    <3>2. fibres' \in Nat /\ owes' \in [Actors -> BOOLEAN]
      BY <1>0, <2>7, <3>1, ScheduleType DEF ScheduleCbs
    <3>3. TypeOK'
      BY <2>7, <3>2 DEF ScheduleCbs, TypeOK, IdlePCs
    <3> QED
      BY <2>7, <3>3 DEF ScheduleCbs, UsedOK, Once, Short
  <2>8. CASE DrainPipe(t)
    <3>1. pipe' \in BOOLEAN
      BY <2>8, Zenon DEF DrainPipe
    <3>2. TypeOK'
      BY <2>8, <3>1 DEF DrainPipe, TypeOK
    <3> QED
      BY <2>8, <3>2 DEF DrainPipe, TypeOK, UsedOK, Once, Short
  <2>9. ASSUME NEW e \in Events, TriggerEvent(t, e)
        PROVE  TypeOK' /\ UsedOK' /\ Once' /\ Short'
    <3>1. fibres' \in Nat /\ owes' \in [Actors -> BOOLEAN]
      BY <1>0, <2>9, ScheduleType DEF TriggerEvent
    <3>2. e \notin happened
      BY <2>9 DEF TriggerEvent, Once
    <3>3. TypeOK'
      BY <2>9, <3>1, <3>2 DEF TriggerEvent, TypeOK, IdlePCs
    <3> QED
      BY <2>9, <3>3 DEF TriggerEvent, TypeOK, UsedOK, Once, Short
  <2>10. CASE CountDown(t)
    <3>1. TypeOK'
      BY <2>10 DEF CountDown, TypeOK, IdlePCs
    <3> QED
      BY <2>10, <3>1 DEF CountDown, UsedOK, Once, Short
  <2> QED
    BY <1>5, <2>1, <2>2, <2>3, <2>4, <2>5, <2>6, <2>7, <2>8, <2>9, <2>10 DEF Work
<1>6. ASSUME NEW t \in Threads, TaskSchedule(t)
      PROVE  TypeOK' /\ UsedOK' /\ Once' /\ Short'
  BY <1>0, <1>6, CallScheduleType DEF TaskSchedule
<1>7. ASSUME NEW t \in Threads, NEW x \in Timers, NEW ms \in Delays, TaskAddTimer(t, x, ms)
      PROVE  TypeOK' /\ UsedOK' /\ Once' /\ Short'
  BY <1>0, <1>7, AddTimerTypes DEF TaskAddTimer
<1>8. ASSUME NEW t \in Threads, NEW e \in Events, AddEvent(t, e)
      PROVE  TypeOK' /\ UsedOK' /\ Once' /\ Short'
  <2>1. UsedOK'
    BY <1>8 DEF AddEvent, UsedOK
  <2>2. TypeOK'
    BY <1>8, <2>1 DEF AddEvent, TypeOK, UsedOK
  <2> QED
    BY <1>8, <2>1, <2>2 DEF AddEvent, Once, Short
<1>9. ASSUME NEW e \in Events, Happen(e)
      PROVE  TypeOK' /\ UsedOK' /\ Once' /\ Short'
  <2>1. TypeOK'
    BY <1>9 DEF Happen, TypeOK
  <2>2. Once'
    BY <1>9 DEF Happen, Once
  <2> QED
    BY <1>9, <2>1, <2>2 DEF Happen, UsedOK, Short
<1>10. CASE Tick
  <2>1. \A n \in Int : Less(n) \in Int /\ (n \in Nat => Less(n) \in Nat /\ Less(n) <= n)
    BY DEF Less
  <2>2. TypeOK'
    BY <1>10, <2>1 DEF Tick, TypeOK
  <2>3. Short'
    BY <1>10, <2>1 DEF Tick, TypeOK, Short
  <2> QED
    BY <1>10, <2>2, <2>3 DEF Tick, UsedOK, Once
<1>11. CASE UNCHANGED vars
  <2>1. TypeOK'
    BY <1>11 DEF vars, TypeOK
  <2> QED
    BY <1>11, <2>1 DEF vars, UsedOK, Once, Short
<1>12. ASSUME NEW t \in Threads, Interrupt(t)
       PROVE  TypeOK' /\ UsedOK' /\ Once' /\ Short'
  <2>1. PICK m \in Int : m = Timeout(next_timeout[t])
    BY TimeoutOfAny DEF TypeOK
  <2>2. wait' \in [Threads -> Int]
    BY <1>12, <2>1 DEF Interrupt, Sleep, TypeOK
  <2>3. wait[t] \in Int /\ late[t] \in Nat /\ wait[t] <= m
    BY <1>12, <2>1 DEF Interrupt, Slept, TypeOK
  <2>4. late[t] + (m - wait[t]) \in Nat
    BY <2>3
  <2>5. late' = [late EXCEPT ![t] = late[t] + (m - wait[t])]
    BY <1>12, <2>1 DEF Interrupt
  <2>6. late' \in [Threads -> Nat]
    BY <2>4, <2>5 DEF TypeOK
  <2>7. pc' \in [Threads -> IdlePCs \cup {"scan", "goIdle", "run", "exited"}]
    BY <1>12 DEF Interrupt, Sleep, TypeOK, IdlePCs
  <2>8. idleTerm' \in [Threads -> BOOLEAN]
    BY <1>12 DEF Interrupt, TypeOK
  <2> QED
    BY <1>12, <2>2, <2>6, <2>7, <2>8, MoveTypes DEF Interrupt
<1> QED
  BY <1>1, <1>2, <1>3, <1>4, <1>5, <1>6, <1>7, <1>8, <1>9, <1>10, <1>11, <1>12 DEF Next, Stopper, Halted

----------------------------------------------------------------------------
(* When every worker sleeps, one of them wakes for the first timer, late   *)
(* by no more than it lost since getNextTimer to delays and to waits that  *)
(* EINTR cut off, however many workers there are and whoever adds timers   *)
(* when: the announcement of IOManager::onTimerInsertAtFront gets through  *)
(* although m_tickled suppresses all but the first one, tickle() writes    *)
(* nothing when no thread is idle, and one thread reads the bytes of all.  *)
THEOREM SleepersWakeCorrect ==
  ASSUME ShortDelays
  PROVE  Spec => []SleepersWake
<1>1. IdleInv /\ [Next \/ Halted]_vars => IdleInv'
  BY TypesStep, CoveredStep, SleptStep DEF IdleInv
<1>2. IdleInv => SleepersWake
  <2> SUFFICES ASSUME IdleInv, Asleep, NoTickleUnderWay, NEW x \in m_timers, ~(pipe /\ edge)
               PROVE  \E t \in Threads : wait[t] >= 0 /\ wait[t] <= left[x] + late[t]
    BY DEF SleepersWake, NoOversleep, IdleInv
  <2>1. Committed /\ ~Rings
    BY DEF Asleep, NoTickleUnderWay, Committed, SleepPCs, Rings, Actors
  <2>2. PICK t \in Threads : Covers(t, x)
    BY <2>1 DEF IdleInv, Covered
  <2>3. pc[t] = "epoll_wait" /\ 0 <= wait[t] /\ wait[t] <= left[x] + late[t]
    BY <2>2 DEF Covers, Asleep
  <2>4. wait[t] >= 0
    BY <2>3 DEF IdleInv, TypeOK
  <2> QED
    BY <2>3, <2>4
<1> QED
  BY IdleInit, <1>1, <1>2, PTL DEF Spec
=============================================================================

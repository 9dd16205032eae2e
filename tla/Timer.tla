------------------------------- MODULE Timer -------------------------------
(***************************************************************************)
(* Timer and TimerManager (timer.cc): timers are created, cancelled,       *)
(* refreshed and reset by any thread while the pollers, the threads in     *)
(* IOManager::idle, ask for the next deadline and collect what is due.     *)
(*                                                                         *)
(* A region that holds m_mutex is one action.  addTimer and listExpiredCb  *)
(* read the clock before they take the lock, and are split there.          *)
(***************************************************************************)
EXTENDS Integers, FiniteSets

CONSTANTS
  Timers,     \* the Timer objects that may be created
  Recurring,  \* those created with recurring = true
  Pollers,    \* threads that call getNextTimer and listExpiredCb
  Periods,    \* values of m_ms, in clock units
  Hour,       \* a set-back of the clock by more than this is noticed
  Start,      \* the clock when the manager is created
  MaxTime,    \* bound: the clock stops here
  MaxSetBacks,\* bound: how often the clock is set back
  Never       \* getNextTimer's ~0ull: no timer

ASSUME TimerAssumption ==
  /\ Recurring \subseteq Timers
  /\ Periods \subseteq Nat
  /\ Hour \in Nat
  /\ Start \in Nat
  /\ MaxTime \in Nat
  /\ MaxSetBacks \in Nat
  /\ Never \notin Nat

VARIABLES
  now,             \* the system clock
  setBacks,        \* how often it has been set back
  m_timers,        \* the ordered set: the key a timer was inserted with, and the timer
  m_tickled,
  m_previousTime,
  stage,           \* a timer is unborn, built (not yet inserted) or live (handed out)
  m_cb,            \* the timer has a callback
  m_ms,
  m_next,
  pc,              \* where each poller is in listExpiredCb
  now_ms,          \* the clock as it read it, 0 outside listExpiredCb
  told,            \* history: the deadline the last getNextTimer answered
  announced,       \* history: onTimerInsertAtFront was called since
  rolled,          \* history: the clock was set back, or listExpiredCb took it to be
  fires,           \* history: how often a one-shot timer was handed over
  cancelled        \* history: the timers for which cancel() returned true

setVars == <<m_timers, m_tickled, m_previousTime>>
timerVars == <<stage, m_cb, m_ms, m_next>>
pollVars == <<pc, now_ms>>
askVars == <<told, announced>>
outcomeVars == <<fires, cancelled>>
clockVars == <<now, setBacks, rolled>>
vars == <<clockVars, setVars, timerVars, pollVars, askVars, outcomeVars>>

Init ==
  /\ now = Start
  /\ setBacks = 0
  /\ rolled = FALSE
  /\ m_timers = {}
  /\ m_tickled = FALSE
  /\ m_previousTime = Start
  /\ stage = [x \in Timers |-> "unborn"]
  /\ m_cb = [x \in Timers |-> FALSE]
  /\ m_ms = [x \in Timers |-> 0]
  /\ m_next = [x \in Timers |-> 0]
  /\ pc = [p \in Pollers |-> "out"]
  /\ now_ms = [p \in Pollers |-> 0]
  /\ told = 0
  /\ announced = FALSE
  /\ fires = [x \in Timers |-> 0]
  /\ cancelled = {}

----------------------------------------------------------------------------
(* Faults: wrong versions of the definitions named, which the              *)
(* specification does not use.                                             *)

(* Cancel: the entry stays in the set. *)
CancelKeepsEntry(x) ==
  /\ stage[x] = "live"
  /\ m_cb[x]
  /\ m_cb' = [m_cb EXCEPT ![x] = FALSE]
  /\ cancelled' = cancelled \cup {x}
  /\ UNCHANGED <<clockVars, setVars, stage, m_ms, m_next, pollVars, askVars, fires>>

(* GetNextTimer: m_tickled is not cleared. *)
GetNextTimerKeepsTickled ==
  /\ announced' = FALSE
  /\ \/ m_timers = {} /\ told' = Never
     \/ \E e \in m_timers : /\ \A d \in m_timers : e.next <= d.next
                            /\ told' = e.next
  /\ UNCHANGED <<clockVars, setVars, timerVars, pollVars, outcomeVars>>

(* Spent: no timer loses its callback. *)
SpentNone(timers) == {}

(* Expired: one unit too soon; a timer due at this very moment is missed. *)
ExpiredEarly(t) == {e \in m_timers : e.next <= t + 1}
ExpiredStrictly(t) == {e \in m_timers : e.next < t}

----------------------------------------------------------------------------
(* The clock. *)

Tick ==
  /\ now < MaxTime
  /\ now' = now + 1
  /\ UNCHANGED <<setBacks, rolled, setVars, timerVars, pollVars, askVars, outcomeVars>>

SetBack(n) ==
  /\ setBacks < MaxSetBacks
  /\ n < now
  /\ now' = n
  /\ setBacks' = setBacks + 1
  /\ rolled' = TRUE
  /\ UNCHANGED <<setVars, timerVars, pollVars, askVars, outcomeVars>>

----------------------------------------------------------------------------
(* The ordered set.  Comparator orders by m_next, then by address: find()  *)
(* reaches a timer only under the m_next it was inserted with, and of two  *)
(* timers with one m_next either may come first.                           *)

Entry(x, next) == [next |-> next, timer |-> x]
Find(x) == Entry(x, m_next[x])

(* TimerManager::addTimer(val, lock): insert and, if the timer comes first *)
(* and nobody was told since the last getNextTimer, tell the subclass.     *)
AddTimer(x, next, rest) ==
  /\ m_timers' = rest \cup {Entry(x, next)}
  /\ \E first \in BOOLEAN :
       /\ first => \A e \in rest : next <= e.next
       /\ ~first => \E e \in rest : e.next <= next
       /\ m_tickled' = (m_tickled \/ first)
       /\ announced' = (announced \/ (first /\ ~m_tickled))
  /\ UNCHANGED <<m_previousTime, told>>

----------------------------------------------------------------------------
(* Any thread. *)

(* addTimer(ms, cb, recurring): the constructor reads the clock... *)
Build(x, ms) ==
  /\ stage[x] = "unborn"
  /\ stage' = [stage EXCEPT ![x] = "built"]
  /\ m_cb' = [m_cb EXCEPT ![x] = TRUE]
  /\ m_ms' = [m_ms EXCEPT ![x] = ms]
  /\ m_next' = [m_next EXCEPT ![x] = now + ms]
  /\ UNCHANGED <<clockVars, setVars, pollVars, askVars, outcomeVars>>

(* ... and the timer is inserted under the lock. *)
Insert(x) ==
  /\ stage[x] = "built"
  /\ stage' = [stage EXCEPT ![x] = "live"]
  /\ AddTimer(x, m_next[x], m_timers)
  /\ UNCHANGED <<clockVars, m_cb, m_ms, m_next, pollVars, outcomeVars>>

(* Timer::cancel: erases what find() returns, whatever it is. *)
Cancel(x) ==
  /\ stage[x] = "live"
  /\ m_cb[x]
  /\ m_cb' = [m_cb EXCEPT ![x] = FALSE]
  /\ m_timers' = m_timers \ {Find(x)}
  /\ cancelled' = cancelled \cup {x}
  /\ UNCHANGED <<clockVars, m_tickled, m_previousTime, stage, m_ms, m_next, pollVars, askVars,
                 fires>>

(* Timer::refresh: moved to a full period from now; nobody is told. *)
Refresh(x) ==
  /\ stage[x] = "live"
  /\ m_cb[x]
  /\ Find(x) \in m_timers
  /\ m_next' = [m_next EXCEPT ![x] = now + m_ms[x]]
  /\ m_timers' = (m_timers \ {Find(x)}) \cup {Entry(x, now + m_ms[x])}
  /\ UNCHANGED <<clockVars, m_tickled, m_previousTime, stage, m_cb, m_ms, pollVars, askVars,
                 outcomeVars>>

(* Timer::reset: a new period, counted from now or from the old start. *)
Reset(x, ms, fromNow) ==
  /\ stage[x] = "live"
  /\ ms # m_ms[x] \/ fromNow
  /\ m_cb[x]
  /\ Find(x) \in m_timers
  /\ LET start == IF fromNow THEN now ELSE m_next[x] - m_ms[x] IN
       /\ m_ms' = [m_ms EXCEPT ![x] = ms]
       /\ m_next' = [m_next EXCEPT ![x] = start + ms]
       /\ AddTimer(x, start + ms, m_timers \ {Find(x)})
  /\ UNCHANGED <<clockVars, stage, m_cb, pollVars, outcomeVars>>

----------------------------------------------------------------------------
(* The pollers. *)

(* getNextTimer: from now on a first timer is announced again. *)
GetNextTimer ==
  /\ m_tickled' = FALSE
  /\ announced' = FALSE
  /\ \/ m_timers = {} /\ told' = Never
     \/ \E e \in m_timers : /\ \A d \in m_timers : e.next <= d.next
                            /\ told' = e.next
  /\ UNCHANGED <<clockVars, m_timers, m_previousTime, timerVars, pollVars, outcomeVars>>

(* listExpiredCb reads the clock, looks under the read lock ...            *)
ReadClock(p) ==
  /\ pc[p] = "out"
  /\ now_ms' = [now_ms EXCEPT ![p] = now]
  /\ pc' = [pc EXCEPT ![p] = "read"]
  /\ UNCHANGED <<clockVars, setVars, timerVars, askVars, outcomeVars>>

Peek(p) ==
  /\ pc[p] = "read"
  /\ pc' = [pc EXCEPT ![p] = IF m_timers = {} THEN "out" ELSE "peeked"]
  /\ now_ms' = IF m_timers = {} THEN [now_ms EXCEPT ![p] = 0] ELSE now_ms
  /\ UNCHANGED <<clockVars, setVars, timerVars, askVars, outcomeVars>>

(* detectClockRollover *)
Rollover(t) == t < m_previousTime /\ t < m_previousTime - Hour

(* Of the expired timers, those that lose their callback. *)
Spent(timers) == timers \ Recurring

(* The timers from begin() up to the end of those due at t. *)
Expired(t) == {e \in m_timers : Rollover(t) \/ e.next <= t}

(* ... and under the write lock hands over the callbacks of what is due;   *)
(* recurring timers are inserted again, others lose their callback.        *)
Expire(p) ==
  /\ pc[p] = "peeked"
  /\ pc' = [pc EXCEPT ![p] = "out"]
  /\ LET t == now_ms[p]
         due == Expired(t)
         dueTimers == {e.timer : e \in due}
         again == dueTimers \cap Recurring
     IN /\ m_previousTime' = IF m_timers = {} THEN m_previousTime ELSE t
        /\ m_next' = [x \in Timers |-> IF x \in again THEN t + m_ms[x] ELSE m_next[x]]
        /\ m_cb' = [x \in Timers |-> m_cb[x] /\ x \notin Spent(dueTimers)]
        /\ m_timers' = (m_timers \ due) \cup {Entry(x, t + m_ms[x]) : x \in again}
        /\ fires' = [x \in Timers |->
                       IF x \in dueTimers \ Recurring THEN fires[x] + 1 ELSE fires[x]]
  /\ rolled' = (rolled \/ Rollover(now_ms[p]))
  /\ now_ms' = [now_ms EXCEPT ![p] = 0]
  /\ UNCHANGED <<now, setBacks, m_tickled, stage, m_ms, askVars, cancelled>>

----------------------------------------------------------------------------
Next ==
  \/ Tick
  \/ \E n \in 0..MaxTime : SetBack(n)
  \/ \E x \in Timers, ms \in Periods : Build(x, ms)
  \/ \E x \in Timers : Insert(x) \/ Cancel(x) \/ Refresh(x)
  \/ \E x \in Timers, ms \in Periods, fromNow \in BOOLEAN : Reset(x, ms, fromNow)
  \/ GetNextTimer
  \/ \E p \in Pollers : ReadClock(p) \/ Peek(p) \/ Expire(p)

(* Time passes, and every idle thread polls again and again. *)
Fairness ==
  /\ WF_vars(Tick)
  /\ \A p \in Pollers : WF_vars(ReadClock(p) \/ Peek(p) \/ Expire(p))

Spec == Init /\ [][Next]_vars
FairSpec == Spec /\ Fairness

----------------------------------------------------------------------------
(* Properties. *)

(* m_next stays a natural number: reset() subtracts the old period from it *)
(* in unsigned arithmetic.                                                 *)
TypeOK ==
  /\ now \in Nat
  /\ setBacks \in 0..MaxSetBacks
  /\ rolled \in BOOLEAN
  /\ m_timers \subseteq [next : Nat, timer : Timers]
  /\ m_tickled \in BOOLEAN
  /\ m_previousTime \in Nat
  /\ stage \in [Timers -> {"unborn", "built", "live"}]
  /\ m_cb \in [Timers -> BOOLEAN]
  /\ m_ms \in [Timers -> Nat]
  /\ m_next \in [Timers -> Nat]
  /\ pc \in [Pollers -> {"out", "read", "peeked"}]
  /\ now_ms \in [Pollers -> Nat]
  /\ told \in Nat \cup {Never}
  /\ announced \in BOOLEAN
  /\ fires \in [Timers -> Nat]
  /\ cancelled \subseteq Timers

(* A live timer has a callback exactly while it is in the set, under its   *)
(* own m_next and once: so cancel(), refresh() and reset() find it, and    *)
(* cancel() never erases end().                                            *)
FoundIffArmed ==
  /\ \A x \in Timers : stage[x] = "live" /\ m_cb[x] => Find(x) \in m_timers
  /\ \A e \in m_timers : /\ stage[e.timer] = "live" /\ m_cb[e.timer]
                         /\ e = Find(e.timer)

(* A one-shot timer is handed over once, or cancelled, never both: what    *)
(* cancel() answers is what happened.                                      *)
FireOrCancel ==
  \A x \in Timers \ Recurring :
    /\ fires[x] <= 1
    /\ fires[x] = 1 => ~m_cb[x] /\ x \notin cancelled

(* While the clock is not set back, nor taken to be, a timer handed over   *)
(* has reached its time, although listExpiredCb reads the clock before it  *)
(* takes the lock.  (A poller that is delayed there by more than an hour   *)
(* while another one polls takes its own reading for a set-back.)          *)
NeverEarly ==
  [][\A x \in Timers : ~rolled' /\ fires'[x] > fires[x] => m_next[x] <= now]_vars

(* When a timer comes before the deadline that the last getNextTimer       *)
(* answered, onTimerInsertAtFront has been called since: a thread that     *)
(* sleeps on that answer is woken.  (A clock set back makes the answer     *)
(* itself stale.)                                                          *)
FrontAnnounced ==
  (~rolled /\ \E e \in m_timers : told = Never \/ e.next < told) => announced

(* A timer that is due is handed over, re-armed or cancelled. *)
DueIsServed ==
  \A x \in Timers : (Find(x) \in m_timers /\ m_next[x] <= now)
                      ~> ~(Find(x) \in m_timers /\ m_next[x] <= now)
============================================================================

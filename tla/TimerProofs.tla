----------------------------- MODULE TimerProofs -----------------------------
(***************************************************************************)
(* Theorems about Timer, for every set of timers, periods and pollers and  *)
(* for every behaviour of the clock.                                       *)
(***************************************************************************)
EXTENDS Timer, TLAPS

(* A timer's time is never before the start of its period. *)
Started == \A x \in Timers : m_ms[x] <= m_next[x]

(* A cancelled timer has no callback, one just built has one, and one not  *)
(* born has no past.                                                       *)
Past ==
  /\ \A x \in Timers : stage[x] = "built" => m_cb[x]
  /\ \A x \in cancelled : ~m_cb[x]
  /\ \A x \in Timers : stage[x] = "unborn" => fires[x] = 0 /\ x \notin cancelled

TimerInv == TypeOK /\ Started /\ FoundIffArmed /\ FireOrCancel /\ Past

LEMMA TimerInit == Init => TimerInv
<1> SUFFICES ASSUME Init PROVE TimerInv
  OBVIOUS
<1> USE TimerAssumption DEF Init
<1>1. m_tickled \in BOOLEAN /\ announced \in BOOLEAN /\ rolled \in BOOLEAN
  BY Zenon
<1>2. m_cb \in [Timers -> BOOLEAN]
  OBVIOUS
<1>3. TypeOK
  BY <1>1, <1>2 DEF TypeOK
<1>4. Started /\ FoundIffArmed /\ FireOrCancel /\ Past
  BY DEF Started, FoundIffArmed, FireOrCancel, Past
<1> QED
  BY <1>3, <1>4 DEF TimerInv

(* Inserting a timer that is not in the set. *)
LEMMA AddTimerType ==
  ASSUME TypeOK, NEW x \in Timers, NEW next \in Nat,
         NEW rest \in SUBSET [next : Nat, timer : Timers], AddTimer(x, next, rest)
  PROVE  /\ m_timers' \subseteq [next : Nat, timer : Timers]
         /\ m_tickled' \in BOOLEAN /\ announced' \in BOOLEAN
         /\ m_previousTime' \in Nat /\ told' \in Nat \cup {Never}
<1>1. Entry(x, next) \in [next : Nat, timer : Timers]
  BY DEF Entry
<1>2. m_timers' = rest \cup {Entry(x, next)}
  BY DEF AddTimer
<1>3. m_timers' \subseteq [next : Nat, timer : Timers]
  BY <1>1, <1>2
<1>4. m_previousTime' \in Nat /\ told' \in Nat \cup {Never}
  BY DEF AddTimer, TypeOK
<1>5. m_tickled' \in BOOLEAN /\ announced' \in BOOLEAN
  BY Zenon DEF AddTimer
<1> QED
  BY <1>3, <1>4, <1>5

LEMMA TimerStep == TimerInv /\ [Next]_vars => TimerInv'
<1> SUFFICES ASSUME TypeOK, Started, FoundIffArmed, FireOrCancel, Past, [Next]_vars
             PROVE  TimerInv'
  BY DEF TimerInv
<1> USE TimerAssumption DEF clockVars, setVars, timerVars, pollVars, askVars, outcomeVars
<1>1. CASE UNCHANGED <<m_timers, timerVars, fires, cancelled>> /\ TypeOK'
  BY <1>1 DEF TimerInv, Started, FoundIffArmed, FireOrCancel, Past, Find
<1>2. CASE Tick
  <2>1. TypeOK'
    BY <1>2 DEF Tick, TypeOK
  <2> QED
    BY <1>1, <1>2, <2>1 DEF Tick
<1>3. ASSUME NEW n \in 0..MaxTime, SetBack(n) PROVE TimerInv'
  <2>1. TypeOK'
    BY <1>3, n \in Nat DEF SetBack, TypeOK
  <2> QED
    BY <1>1, <1>3, <2>1 DEF SetBack
<1>4. ASSUME NEW x \in Timers, NEW ms \in Periods, Build(x, ms) PROVE TimerInv'
  <2>1. TypeOK'
    BY <1>4 DEF Build, TypeOK
  <2>2. Started' /\ FireOrCancel' /\ Past'
    BY <1>4 DEF Build, TypeOK, Started, FireOrCancel, Past
  <2>3. FoundIffArmed'
    BY <1>4 DEF Build, TypeOK, FoundIffArmed, Find, Entry
  <2> QED
    BY <2>1, <2>2, <2>3 DEF TimerInv
<1>5. ASSUME NEW x \in Timers, Insert(x) PROVE TimerInv'
  <2>1. TypeOK'
    BY <1>5, AddTimerType DEF Insert, TypeOK
  <2>2. Started' /\ FireOrCancel' /\ Past'
    BY <1>5 DEF Insert, TypeOK, Started, FireOrCancel, Past
  <2>3. FoundIffArmed'
    <3>1. m_timers' = m_timers \cup {Find(x)} /\ stage[x] = "built"
      BY <1>5 DEF Insert, AddTimer, Find
    <3>2. stage' = [stage EXCEPT ![x] = "live"] /\ UNCHANGED <<m_cb, m_next>>
      BY <1>5 DEF Insert
    <3>3. \A y \in Timers : Find(y)' = Find(y) /\ Find(y).timer = y
      BY <3>2 DEF Find, Entry
    <3>4. m_cb[x]
      BY <3>1 DEF Past
    <3> QED
      BY <3>1, <3>2, <3>3, <3>4 DEF FoundIffArmed, TypeOK
  <2> QED
    BY <2>1, <2>2, <2>3 DEF TimerInv
<1>6. ASSUME NEW x \in Timers, Cancel(x) PROVE TimerInv'
  <2>1. TypeOK'
    BY <1>6 DEF Cancel, TypeOK
  <2>2. Started' /\ FireOrCancel' /\ Past'
    BY <1>6 DEF Cancel, TypeOK, Started, FireOrCancel, Past
  <2>3. FoundIffArmed'
    BY <1>6 DEF Cancel, TypeOK, FoundIffArmed, Find, Entry
  <2> QED
    BY <2>1, <2>2, <2>3 DEF TimerInv
<1>7. ASSUME NEW x \in Timers, Refresh(x) PROVE TimerInv'
  <2>1. TypeOK'
    BY <1>7 DEF Refresh, Entry, TypeOK
  <2>2. Started' /\ FireOrCancel' /\ Past'
    BY <1>7 DEF Refresh, TypeOK, Started, FireOrCancel, Past
  <2>3. FoundIffArmed'
    BY <1>7 DEF Refresh, TypeOK, FoundIffArmed, Find, Entry
  <2> QED
    BY <2>1, <2>2, <2>3 DEF TimerInv
<1>8. ASSUME NEW x \in Timers, NEW ms \in Periods, NEW fromNow \in BOOLEAN,
             Reset(x, ms, fromNow)
      PROVE  TimerInv'
  <2> DEFINE start == IF fromNow THEN now ELSE m_next[x] - m_ms[x]
             next == start + ms
  <2>1. ms \in Nat /\ start \in Nat /\ next \in Nat /\ ms <= next
    BY DEF TypeOK, Started
  <2>2. /\ m_ms' = [m_ms EXCEPT ![x] = ms]
        /\ m_next' = [m_next EXCEPT ![x] = next]
        /\ AddTimer(x, next, m_timers \ {Find(x)})
        /\ UNCHANGED <<clockVars, stage, m_cb, pollVars, outcomeVars>>
        /\ stage[x] = "live" /\ m_cb[x] /\ Find(x) \in m_timers
    BY <1>8 DEF Reset
  <2> HIDE DEF start, next
  <2>3. m_timers \ {Find(x)} \in SUBSET [next : Nat, timer : Timers]
    BY DEF TypeOK
  <2>4. TypeOK'
    BY <2>1, <2>2, <2>3, AddTimerType DEF TypeOK
  <2>5. Started' /\ FireOrCancel' /\ Past'
    BY <2>1, <2>2 DEF TypeOK, Started, FireOrCancel, Past
  <2>6. FoundIffArmed'
    BY <2>1, <2>2 DEF AddTimer, TypeOK, FoundIffArmed, Find, Entry
  <2> QED
    BY <2>4, <2>5, <2>6 DEF TimerInv
<1>9. CASE GetNextTimer
  <2>1. told' \in Nat \cup {Never}
    BY <1>9 DEF GetNextTimer, TypeOK
  <2>2. m_tickled' \in BOOLEAN /\ announced' \in BOOLEAN
    BY <1>9, Zenon DEF GetNextTimer
  <2>3. TypeOK'
    BY <1>9, <2>1, <2>2 DEF GetNextTimer, TypeOK
  <2> QED
    BY <1>1, <1>9, <2>3 DEF GetNextTimer
<1>10. ASSUME NEW p \in Pollers, ReadClock(p) \/ Peek(p) PROVE TimerInv'
  <2>1. TypeOK'
    BY <1>10 DEF ReadClock, Peek, TypeOK
  <2> QED
    BY <1>1, <1>10, <2>1 DEF ReadClock, Peek
<1>11. ASSUME NEW p \in Pollers, Expire(p) PROVE TimerInv'
  <2> DEFINE t == now_ms[p]
             due == Expired(t)
             dueTimers == {e.timer : e \in due}
             again == dueTimers \cap Recurring
             once == dueTimers \ Recurring
  <2>1. t \in Nat
    BY DEF TypeOK
  <2>2. /\ m_previousTime' = IF m_timers = {} THEN m_previousTime ELSE t
        /\ m_next' = [x \in Timers |-> IF x \in again THEN t + m_ms[x] ELSE m_next[x]]
        /\ m_cb' = [x \in Timers |-> m_cb[x] /\ x \notin once]
        /\ m_timers' = (m_timers \ due) \cup {Entry(x, t + m_ms[x]) : x \in again}
        /\ fires' = [x \in Timers |-> IF x \in once THEN fires[x] + 1 ELSE fires[x]]
        /\ pc' = [pc EXCEPT ![p] = "out"]
        /\ now_ms' = [now_ms EXCEPT ![p] = 0]
        /\ UNCHANGED <<now, setBacks, m_tickled, stage, m_ms, askVars, cancelled>>
    BY <1>11 DEF Expire, Spent
  <2>r. rolled' \in BOOLEAN
    BY <1>11, Zenon DEF Expire
  <2>3. due \subseteq m_timers /\ dueTimers \subseteq Timers
    BY DEF Expired, TypeOK
  <2>4. \A x \in dueTimers : stage[x] = "live" /\ m_cb[x] /\ Find(x) \in due
    BY <2>3 DEF FoundIffArmed
  <2>5. \A e \in m_timers : e.timer \in dueTimers => e \in due
    BY <2>4 DEF FoundIffArmed
  <2>6. \A x \in Timers : Entry(x, t + m_ms[x]).timer = x
    BY DEF Entry
  <2> HIDE DEF t, due, dueTimers
  <2>7. m_timers' \subseteq [next : Nat, timer : Timers]
    BY <2>1, <2>2, <2>3 DEF TypeOK, Entry
  <2>8. TypeOK'
    BY <2>1, <2>2, <2>7, <2>r DEF TypeOK
  <2>9. Started'
    BY <2>1, <2>2 DEF TypeOK, Started
  <2>10. FireOrCancel'
    <3> SUFFICES ASSUME NEW x \in Timers \ Recurring
                 PROVE  /\ fires'[x] <= 1
                        /\ fires'[x] = 1 => ~m_cb'[x] /\ x \notin cancelled'
      BY DEF FireOrCancel
    <3>1. fires[x] \in Nat /\ fires[x] <= 1 /\ (fires[x] = 1 => ~m_cb[x] /\ x \notin cancelled)
      BY DEF TypeOK, FireOrCancel
    <3>2. CASE x \in dueTimers
      <4>1. fires[x] = 0 /\ x \notin cancelled
        BY <2>4, <3>1, <3>2 DEF Past
      <4>2. x \in once
        BY <3>2
      <4>3. fires'[x] = 1
        BY <2>2, <4>1, <4>2
      <4>4. ~m_cb'[x] /\ x \notin cancelled'
        BY <2>2, <4>1, <4>2
      <4> QED
        BY <4>3, <4>4
    <3>3. CASE x \notin dueTimers
      BY <2>2, <3>1, <3>3
    <3> QED
      BY <3>2, <3>3
  <2>11. Past'
    BY <2>2, <2>3, <2>4 DEF TypeOK, Past
  <2>12. \A x \in Timers : (stage[x] = "live" /\ m_cb[x])' => Find(x)' \in m_timers'
    <3> SUFFICES ASSUME NEW x \in Timers, stage[x] = "live", m_cb[x], x \notin once
                 PROVE  Find(x)' \in m_timers'
      BY <2>2 DEF TypeOK
    <3>1. CASE x \in again
      BY <2>2, <3>1 DEF Find
    <3>2. CASE x \notin dueTimers
      <4>1. Find(x) \in m_timers /\ Find(x).timer = x
        BY DEF FoundIffArmed, Find, Entry
      <4>2. Find(x) \notin due
        BY <3>2, <4>1 DEF dueTimers
      <4>3. Find(x)' = Find(x)
        BY <2>2, <3>2 DEF Find
      <4> QED
        BY <2>2, <4>1, <4>2, <4>3
    <3> QED
      BY <3>1, <3>2
  <2>13. \A e \in m_timers' : /\ stage'[e.timer] = "live" /\ m_cb'[e.timer]
                              /\ e = Entry(e.timer, m_next'[e.timer])
    <3> SUFFICES ASSUME NEW e \in m_timers'
                 PROVE  /\ stage'[e.timer] = "live" /\ m_cb'[e.timer]
                        /\ e = Entry(e.timer, m_next'[e.timer])
      OBVIOUS
    <3>1. CASE e \in m_timers \ due
      <4>1. e.timer \in Timers /\ e.timer \notin dueTimers
        BY <2>5, <3>1 DEF TypeOK
      <4>2. stage[e.timer] = "live" /\ m_cb[e.timer] /\ e = Entry(e.timer, m_next[e.timer])
        BY <3>1 DEF FoundIffArmed, Find
      <4> QED
        BY <2>2, <4>1, <4>2
    <3>2. ASSUME NEW x \in again, e = Entry(x, t + m_ms[x])
          PROVE  /\ stage'[e.timer] = "live" /\ m_cb'[e.timer]
                 /\ e = Entry(e.timer, m_next'[e.timer])
      <4>1. x \in Timers /\ e.timer = x
        BY <2>3, <2>6, <3>2
      <4> QED
        BY <2>2, <2>4, <3>2, <4>1
    <3> QED
      BY <2>2, <3>1, <3>2
  <2>14. FoundIffArmed'
    BY <2>12, <2>13 DEF FoundIffArmed, Find
  <2> QED
    BY <2>8, <2>9, <2>10, <2>11, <2>14 DEF TimerInv
<1>12. CASE UNCHANGED vars
  <2>1. TypeOK'
    BY <1>12 DEF vars, TypeOK
  <2> QED
    BY <1>1, <1>12, <2>1 DEF vars
<1> QED
  BY <1>2, <1>3, <1>4, <1>5, <1>6, <1>7, <1>8, <1>9, <1>10, <1>11, <1>12 DEF Next

LEMMA TimerInvCorrect == Spec => []TimerInv
BY TimerInit, TimerStep, PTL DEF Spec

(* The variables of Timer keep their types; the subtraction in reset()     *)
(* never goes below zero.                                                  *)
THEOREM TimerTypeCorrect == Spec => []TypeOK
<1>1. TimerInv => TypeOK
  BY DEF TimerInv
<1> QED
  BY <1>1, TimerInvCorrect, PTL

(* find() reaches every timer that has a callback, whatever the clock and  *)
(* the other threads do: the unchecked erase in cancel() is safe.          *)
THEOREM FoundIffArmedCorrect == Spec => []FoundIffArmed
<1>1. TimerInv => FoundIffArmed
  BY DEF TimerInv
<1> QED
  BY <1>1, TimerInvCorrect, PTL

(* A one-shot timer is handed over at most once, and never after cancel()  *)
(* has returned true.                                                      *)
THEOREM FireOrCancelCorrect == Spec => []FireOrCancel
<1>1. TimerInv => FireOrCancel
  BY DEF TimerInv
<1> QED
  BY <1>1, TimerInvCorrect, PTL
----------------------------------------------------------------------------
(* Until the clock goes back nobody has read a time that is still to come, *)
(* and no timer is further away than its period.                           *)
Steady ==
  ~rolled => /\ \A p \in Pollers : now_ms[p] <= now
             /\ \A x \in Timers : m_next[x] <= now + m_ms[x]

(* The flag that keeps addTimer from announcing twice is set exactly when  *)
(* something was announced since the last getNextTimer.                    *)
TickledExact == m_tickled <=> announced

Before(e) == told = Never \/ e.next < told

FrontInv == Steady /\ TickledExact /\ FrontAnnounced

(* Inserting a timer announces it if it now comes before the answer. *)
LEMMA AddTimerAnnounces ==
  ASSUME TypeOK, TickledExact, FrontAnnounced, NEW x \in Timers, NEW next \in Nat,
         NEW rest \in SUBSET m_timers, AddTimer(x, next, rest), rolled' = rolled
  PROVE  TickledExact' /\ FrontAnnounced'
<1>1. PICK first \in BOOLEAN :
        /\ ~first => \E e \in rest : e.next <= next
        /\ m_tickled' = (m_tickled \/ first)
        /\ announced' = (announced \/ (first /\ ~m_tickled))
  BY DEF AddTimer
<1>2. m_timers' = rest \cup {Entry(x, next)} /\ told' = told
  BY DEF AddTimer
<1>3. TickledExact'
  BY <1>1 DEF TickledExact
<1>4. CASE first
  BY <1>1, <1>4 DEF TickledExact, FrontAnnounced
<1>5. ASSUME ~first, ~rolled, NEW e \in m_timers', Before(e)'
      PROVE  announced
  <2>1. \E d \in rest : Before(d)
    <3>1. CASE e \in rest
      BY <1>2, <1>5, <3>1 DEF Before
    <3>2. CASE e = Entry(x, next)
      <4>1. PICK d \in rest : d.next <= next
        BY <1>1, <1>5
      <4>2. d.next \in Nat /\ e.next = next /\ told \in Nat \cup {Never}
        BY <3>2 DEF TypeOK, Entry
      <4>3. told = Never \/ next < told
        BY <1>2, <1>5, <4>2 DEF Before
      <4>4. Before(d)
        BY <4>1, <4>2, <4>3, TimerAssumption DEF Before
      <4> QED
        BY <4>4
    <3> QED
      BY <1>2, <3>1, <3>2
  <2> QED
    BY <1>5, <2>1 DEF Before, FrontAnnounced
<1> QED
  BY <1>1, <1>3, <1>4, <1>5 DEF FrontAnnounced, Before

(* Timers that go, or move away, do not come before the answer. *)
LEMMA NoneComesBefore ==
  ASSUME TypeOK, TickledExact, FrontAnnounced,
         UNCHANGED <<m_tickled, announced, told>>,
         ~rolled' => ~rolled /\ \A e \in m_timers' : \E d \in m_timers : d.next <= e.next /\ e.next \in Nat
  PROVE  TickledExact' /\ FrontAnnounced'
<1>1. TickledExact'
  BY DEF TickledExact
<1>2. ASSUME ~rolled', NEW e \in m_timers', Before(e)'
      PROVE  announced'
  <2>1. PICK d \in m_timers : d.next <= e.next /\ e.next \in Nat
    BY <1>2
  <2>2. d.next \in Nat
    BY DEF TypeOK
  <2>3. Before(d)
    BY <1>2, <2>1, <2>2, TimerAssumption DEF Before, TypeOK
  <2> QED
    BY <1>2, <2>3 DEF Before, FrontAnnounced
<1> QED
  BY <1>1, <1>2 DEF FrontAnnounced, Before

(* Rolled or not, no timer moves before where it was. *)
LEMMA ExpiryLate ==
  ASSUME TimerInv, Steady, NEW p \in Pollers, Expire(p), ~rolled'
  PROVE  /\ ~rolled /\ now_ms[p] <= now
         /\ Expired(now_ms[p]) = {e \in m_timers : e.next <= now_ms[p]}
<1>1. ~rolled /\ ~Rollover(now_ms[p])
  BY DEF Expire
<1> QED
  BY <1>1 DEF Expired, Steady

LEMMA FrontStep == TimerInv /\ FrontInv /\ [Next]_vars => FrontInv'
<1> SUFFICES ASSUME TimerInv, Steady, TickledExact, FrontAnnounced, [Next]_vars
             PROVE  FrontInv'
  BY DEF FrontInv
<1> USE TimerAssumption DEF TimerInv, clockVars, setVars, timerVars, pollVars, askVars, outcomeVars
<1>1. CASE UNCHANGED vars
  BY <1>1 DEF vars, FrontInv, Steady, TickledExact, FrontAnnounced
<1>2. CASE Tick
  <2>1. Steady'
    BY <1>2 DEF Tick, Steady, TypeOK
  <2> QED
    BY <1>2, <2>1 DEF Tick, FrontInv, TickledExact, FrontAnnounced
<1>3. ASSUME NEW n \in 0..MaxTime, SetBack(n) PROVE FrontInv'
  BY <1>3 DEF SetBack, FrontInv, Steady, TickledExact, FrontAnnounced
<1>4. ASSUME NEW x \in Timers, NEW ms \in Periods, Build(x, ms) PROVE FrontInv'
  <2>1. Steady'
    BY <1>4 DEF Build, Steady, TypeOK
  <2> QED
    BY <1>4, <2>1 DEF Build, FrontInv, TickledExact, FrontAnnounced
<1>5. ASSUME NEW x \in Timers, Insert(x) PROVE FrontInv'
  <2>1. Steady'
    BY <1>5 DEF Insert, Steady, TypeOK
  <2>2. m_next[x] \in Nat /\ AddTimer(x, m_next[x], m_timers) /\ rolled' = rolled
    BY <1>5 DEF Insert, TypeOK
  <2>3. TickledExact' /\ FrontAnnounced'
    BY <2>2, AddTimerAnnounces
  <2> QED
    BY <2>1, <2>3 DEF FrontInv
<1>6. ASSUME NEW x \in Timers, Cancel(x) PROVE FrontInv'
  <2>1. Steady'
    BY <1>6 DEF Cancel, Steady, TypeOK
  <2>2. UNCHANGED <<m_tickled, announced, told, rolled>> /\ m_timers' \subseteq m_timers
    BY <1>6 DEF Cancel
  <2>3. \A e \in m_timers' : e \in m_timers /\ e.next <= e.next /\ e.next \in Nat
    BY <2>2 DEF TypeOK
  <2>4. TickledExact' /\ FrontAnnounced'
    BY <2>2, <2>3, NoneComesBefore
  <2> QED
    BY <2>1, <2>4 DEF FrontInv
<1>7. ASSUME NEW x \in Timers, Refresh(x) PROVE FrontInv'
  <2>1. Steady'
    BY <1>7 DEF Refresh, Steady, TypeOK
  <2>2. /\ UNCHANGED <<m_tickled, announced, told, rolled>>
        /\ Find(x) \in m_timers
        /\ m_timers' = (m_timers \ {Find(x)}) \cup {Entry(x, now + m_ms[x])}
    BY <1>7 DEF Refresh
  <2>3. ASSUME NEW e \in m_timers', ~rolled
        PROVE  \E d \in m_timers : d.next <= e.next /\ e.next \in Nat
    <3>1. CASE e \in m_timers
      <4>1. e.next \in Nat /\ e.next <= e.next
        BY <3>1 DEF TypeOK
      <4> QED
        BY <3>1, <4>1
    <3>2. CASE e = Entry(x, now + m_ms[x])
      <4>1. Find(x).next = m_next[x] /\ e.next = now + m_ms[x]
        BY <3>2 DEF Find, Entry
      <4>2. m_next[x] <= now + m_ms[x] /\ now + m_ms[x] \in Nat
        BY <2>3 DEF Steady, TypeOK
      <4> QED
        BY <2>2, <4>1, <4>2
    <3> QED
      BY <2>2, <3>1, <3>2
  <2>4. TickledExact' /\ FrontAnnounced'
    BY <2>2, <2>3, NoneComesBefore
  <2> QED
    BY <2>1, <2>4 DEF FrontInv
<1>8. ASSUME NEW x \in Timers, NEW ms \in Periods, NEW fromNow \in BOOLEAN,
             Reset(x, ms, fromNow)
      PROVE  FrontInv'
  <2>1. PICK start \in Nat : start = IF fromNow THEN now ELSE m_next[x] - m_ms[x]
    BY DEF TypeOK, Started
  <2>2. /\ m_ms' = [m_ms EXCEPT ![x] = ms]
        /\ m_next' = [m_next EXCEPT ![x] = start + ms]
        /\ AddTimer(x, start + ms, m_timers \ {Find(x)})
        /\ UNCHANGED <<clockVars, pollVars>>
    BY <1>8, <2>1 DEF Reset
  <2>3. ms \in Nat /\ start + ms \in Nat
    OBVIOUS
  <2>4. Steady'
    <3>1. ~rolled => start <= now
      BY <2>1 DEF Steady, TypeOK
    <3> QED
      BY <2>2, <2>3, <3>1 DEF Steady, TypeOK
  <2>5. TickledExact' /\ FrontAnnounced'
    BY <2>2, <2>3, AddTimerAnnounces
  <2> QED
    BY <2>4, <2>5 DEF FrontInv
<1>9. CASE GetNextTimer
  <2>1. Steady'
    BY <1>9 DEF GetNextTimer, Steady
  <2>2. TickledExact'
    BY <1>9 DEF GetNextTimer, TickledExact
  <2>3. \A e \in m_timers' : told' # Never /\ ~(e.next < told')
    BY <1>9 DEF GetNextTimer, TypeOK
  <2>4. FrontAnnounced'
    BY <2>3 DEF FrontAnnounced
  <2> QED
    BY <2>1, <2>2, <2>4 DEF FrontInv
<1>10. ASSUME NEW p \in Pollers, ReadClock(p) \/ Peek(p) PROVE FrontInv'
  <2>1. Steady'
    BY <1>10 DEF ReadClock, Peek, Steady, TypeOK
  <2> QED
    BY <1>10, <2>1 DEF ReadClock, Peek, FrontInv, TickledExact, FrontAnnounced
<1>11. ASSUME NEW p \in Pollers, Expire(p) PROVE FrontInv'
  <2>1. PICK t \in Nat : t = now_ms[p]
    BY DEF TypeOK
  <2>2. PICK again \in SUBSET Timers : again = {e.timer : e \in Expired(t)} \cap Recurring
    OBVIOUS
  <2>3. /\ m_next' = [x \in Timers |-> IF x \in again THEN t + m_ms[x] ELSE m_next[x]]
        /\ m_timers' = (m_timers \ Expired(t)) \cup {Entry(x, t + m_ms[x]) : x \in again}
        /\ now_ms' = [now_ms EXCEPT ![p] = 0]
        /\ UNCHANGED <<now, m_tickled, m_ms, told, announced>>
    BY <1>11, <2>1, <2>2 DEF Expire
  <2>4. ~rolled' => ~rolled /\ t <= now /\ Expired(t) = {e \in m_timers : e.next <= t}
    BY <1>11, <2>1, ExpiryLate
  <2>5. Steady'
    BY <2>3, <2>4 DEF Steady, TypeOK
  <2>6. ASSUME NEW e \in m_timers', ~rolled'
        PROVE  \E d \in m_timers : d.next <= e.next /\ e.next \in Nat
    <3>1. CASE e \in m_timers
      <4>1. e.next \in Nat /\ e.next <= e.next
        BY <3>1 DEF TypeOK
      <4> QED
        BY <3>1, <4>1
    <3>2. ASSUME NEW x \in again, e = Entry(x, t + m_ms[x])
          PROVE  \E d \in m_timers : d.next <= e.next /\ e.next \in Nat
      <4>1. PICK d \in m_timers : d.next <= t
        BY <2>2, <2>4, <2>6
      <4>2. e.next = t + m_ms[x] /\ m_ms[x] \in Nat /\ d.next \in Nat
        BY <3>2 DEF Entry, TypeOK
      <4> QED
        BY <4>1, <4>2
    <3> QED
      BY <2>3, <3>1, <3>2
  <2>7. TickledExact' /\ FrontAnnounced'
    BY <2>3, <2>4, <2>6, NoneComesBefore
  <2> QED
    BY <2>5, <2>7 DEF FrontInv
<1> QED
  BY <1>1, <1>2, <1>3, <1>4, <1>5, <1>6, <1>7, <1>8, <1>9, <1>10, <1>11 DEF Next

LEMMA FrontAlways == Spec => [](TimerInv /\ FrontInv)
<1>1. Init => FrontInv
  BY TimerAssumption DEF Init, FrontInv, Steady, TickledExact, FrontAnnounced
<1> QED
  BY <1>1, TimerInit, TimerStep, FrontStep, PTL DEF Spec

(* A timer that comes before the deadline some getNextTimer answered has   *)
(* been announced since, for any number of threads that add, refresh,      *)
(* reset and poll: addTimer's m_tickled loses no announcement.             *)
THEOREM FrontAnnouncedCorrect == Spec => []FrontAnnounced
<1>1. FrontInv => FrontAnnounced
  BY DEF FrontInv
<1> QED
  BY <1>1, FrontAlways, PTL

(* Only listExpiredCb hands a timer over, and what it takes is due at the  *)
(* time it read, which is not later than now.                              *)
THEOREM NeverEarlyCorrect == Spec => NeverEarly
<1>1. ASSUME TimerInv, FrontInv, [Next]_vars, NEW x \in Timers, ~rolled', fires'[x] > fires[x]
      PROVE  m_next[x] <= now
  <2> USE TimerAssumption DEF TimerInv, outcomeVars
  <2>0. ~(fires[x] > fires[x])
    BY <1>1 DEF TypeOK
  <2>1. PICK p \in Pollers : Expire(p)
    BY <1>1, <2>0 DEF Next, vars, Tick, SetBack, Build, Insert, Cancel, Refresh, Reset,
                      GetNextTimer, ReadClock, Peek
  <2>2. PICK t \in Nat : t = now_ms[p]
    BY <1>1 DEF TypeOK
  <2>3. t <= now /\ Expired(t) = {e \in m_timers : e.next <= t}
    BY <1>1, <2>1, <2>2, ExpiryLate DEF FrontInv
  <2>4. x \in {e.timer : e \in Expired(t)}
    BY <1>1, <2>0, <2>1, <2>2 DEF Expire
  <2>5. PICK e \in m_timers : e.timer = x /\ e.next <= t
    BY <2>3, <2>4
  <2>6. e = Find(x)
    BY <1>1, <2>5 DEF FoundIffArmed
  <2>7. m_next[x] <= t
    BY <2>5, <2>6 DEF Find, Entry
  <2> QED
    BY <1>1, <2>3, <2>7 DEF TypeOK
<1>2. TimerInv /\ FrontInv /\ [Next]_vars
        => [\A x \in Timers : ~rolled' /\ fires'[x] > fires[x] => m_next[x] <= now]_vars
  BY <1>1
<1> QED
  BY <1>2, FrontAlways, PTL DEF Spec, NeverEarly

==============================================================================

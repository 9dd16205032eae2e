--------------------------- MODULE SchedulerProofs ---------------------------
(***************************************************************************)
(* Theorems about Scheduler, for every pool and every set of tasks.        *)
(***************************************************************************)
EXTENDS Scheduler, SequenceTheorems, FiniteSetTheorems, TLAPS

(* Where a worker is tells whether it has a task; before start() every     *)
(* worker is off, and the caller is until stop() switches to run().        *)
Empty == {"off", "scan", "idle", "unidle", "exited"}
Busy == {"run", "armed", "swapOut", "return", "post", "hold"}
Placed ==
  /\ \A t \in Workers : pc[t] \in Empty => ft[t] = NoTask
  /\ \A t \in Workers : pc[t] \in Busy => ft[t] \in Tasks
  /\ mainpc = "init" => \A t \in Workers : pc[t] = "off"
  /\ UseCaller /\ mainpc \in {"init", "started", "stop1", "stop2"} => pc[Caller] = "off"

TypeInv == TypeOK /\ Placed

(* Erasing one element of the task list leaves a list, one shorter. *)
LEMMA RemoveEntryType ==
  ASSUME NEW S, NEW q \in Seq(S), NEW i \in 1..Len(q)
  PROVE  /\ RemoveEntry(q, i) \in Seq(S)
         /\ Len(RemoveEntry(q, i)) = Len(q) - 1
         /\ \A j \in 1..(Len(q) - 1) :
              RemoveEntry(q, i)[j] = IF j < i THEN q[j] ELSE q[j + 1]
<1> DEFINE n == Len(q) - 1
           r == RemoveEntry(q, i)
<1>1. n \in Nat
  BY LenProperties
<1>2. r \in [1..n -> S]
  BY <1>1, ElementOfSeq DEF RemoveEntry
<1>3. r \in Seq(S)
  BY <1>1, <1>2, SeqDef
<1>4. DOMAIN r = 1..n
  BY <1>2
<1>5. Len(r) = n
  BY <1>1, <1>3, <1>4, LenProperties
<1> QED
  BY <1>3, <1>5 DEF RemoveEntry

(* Queueing a task keeps the list a list of entries. *)
LEMMA ScheduleType ==
  ASSUME TypeOK, NEW x \in Tasks, NEW c \in BOOLEAN,
         NEW thread \in Workers \cup {AnyThread}, Schedule(x, c, thread)
  PROVE  m_fibres' \in Seq(Entry)
BY AppendProperties DEF TypeOK, Schedule, Entry

(* Every step keeps the types. *)
LEMMA TypeStep == TypeInv /\ [Next \/ Halted]_vars => TypeOK'
<1> SUFFICES ASSUME TypeOK, Placed, [Next \/ Halted]_vars PROVE TypeOK'
  BY DEF TypeInv
<1> USE SchedulerAssumption
<1>1. CASE Main
  <2>1. CASE Start
    BY <2>1 DEF Start, TypeOK, PCs, MainPCs, historyVars
  <2>2. CASE StopRequest \/ StopFlag
    BY <2>2 DEF StopRequest, StopFlag, TypeOK, MainPCs, threadVars, historyVars
  <2>3. CASE StopCall
    BY <2>3 DEF StopCall, TypeOK, Workers, PCs, MainPCs, sharedVars, historyVars
  <2>4. CASE RootReturn \/ Join
    BY <2>4 DEF RootReturn, Join, TypeOK, MainPCs, sharedVars, threadVars, historyVars
  <2> QED
    BY <1>1, <2>1, <2>2, <2>3, <2>4 DEF Main
<1>2. ASSUME NEW x \in Tasks, NEW b \in Bindings, CallerSchedule(x, b) PROVE TypeOK'
  <2>1. (x \in Callbacks) \in BOOLEAN
    OBVIOUS
  <2>2. m_fibres' \in Seq(Entry)
    BY <1>2, <2>1, ScheduleType DEF CallerSchedule, Submit
  <2> QED
    BY <1>2, <2>2 DEF CallerSchedule, Submit, TypeOK, threadVars
<1>3. ASSUME NEW t \in Workers, Run(t) PROVE TypeOK'
  <2>1. CASE ScanTake(t)
    <3>1. PICK i \in 1..Len(m_fibres) :
            ft' = [ft EXCEPT ![t] = m_fibres[i].task] /\ m_fibres' = RemoveEntry(m_fibres, i)
      BY <2>1 DEF ScanTake
    <3>2. m_fibres' \in Seq(Entry) /\ m_fibres[i] \in Entry
      BY <3>1, RemoveEntryType, ElementOfSeq DEF TypeOK
    <3> QED
      BY <2>1, <3>1, <3>2 DEF ScanTake, TypeOK, Entry, PCs, historyVars
  <2>2. CASE Requeue(t)
    <3>1. m_fibres' \in Seq(Entry)
      BY <2>2, ScheduleType DEF Requeue, TypeOK, Placed, Busy, At
    <3> QED
      BY <2>2, <3>1 DEF Requeue, TypeOK, PCs
  <2>3. CASE SwapIn(t)
    BY <2>3 DEF SwapIn, At, TypeOK, PCs, State, sharedVars, historyVars
  <2>4. CASE MarkHold(t)
    BY <2>4 DEF MarkHold, At, Placed, Busy, TypeOK, PCs, State, sharedVars, historyVars
  <2>5. CASE Idle(t)
    <3>1. Stopping \in BOOLEAN
      BY Zenon DEF Stopping
    <3>2. idleTerm' \in [Workers -> BOOLEAN]
      BY <2>5, <3>1 DEF Idle, TypeOK
    <3> QED
      BY <2>5, <3>2 DEF Idle, TypeOK, PCs, sharedVars, historyVars
  <2>6. CASE SkipEnded(t)
    BY <2>6 DEF SkipEnded, TypeOK, PCs, historyVars
  <2>7. CASE GoIdle(t)
    BY <2>7 DEF GoIdle, TypeOK, PCs, historyVars
  <2>8. CASE LeaveIdle(t)
    BY <2>8 DEF LeaveIdle, TypeOK, PCs, historyVars
  <2>9. CASE Return(t)
    BY <2>9 DEF Return, TypeOK, PCs, historyVars
  <2>10. CASE ScanNothing(t)
    BY <2>10 DEF ScanNothing, TypeOK, PCs, sharedVars, historyVars
  <2>11. CASE Exit(t)
    BY <2>11 DEF Exit, TypeOK, PCs, sharedVars, historyVars
  <2>12. CASE SwapOut(t)
    BY <2>12 DEF SwapOut, TypeOK, PCs, sharedVars, historyVars
  <2>13. CASE Forget(t)
    BY <2>13 DEF Forget, TypeOK, PCs, sharedVars, historyVars
  <2>14. CASE FoundWaiting(t)
    BY <2>14 DEF FoundWaiting, TypeOK, PCs, sharedVars, historyVars
  <2> QED
    BY <1>3, <2>1, <2>2, <2>3, <2>4, <2>5, <2>6, <2>7, <2>8, <2>9,
       <2>10, <2>11, <2>12, <2>13, <2>14 DEF Run
<1>4. ASSUME NEW t \in Workers, Body(t) PROVE TypeOK'
  <2>1. ASSUME NEW x \in Tasks, NEW b \in Bindings, Spawn(t, x, b) PROVE TypeOK'
    <3>1. (x \in Callbacks) \in BOOLEAN
      OBVIOUS
    <3>2. m_fibres' \in Seq(Entry)
      BY <2>1, <3>1, ScheduleType DEF Spawn, Submit
    <3> QED
      BY <2>1, <3>2 DEF Spawn, Submit, TypeOK, threadVars
  <2>2. CASE Finish(t)
    BY <2>2 DEF Finish, At, Placed, Busy, TypeOK, PCs, State, Ended, sharedVars
  <2>3. CASE YieldToReady(t)
    BY <2>3 DEF YieldToReady, YieldTo, YieldOnce, At, Placed, Busy, TypeOK, PCs, State, sharedVars
  <2>4. CASE ArmWaker(t)
    BY <2>4 DEF ArmWaker, YieldOnce, At, Placed, Busy, TypeOK, PCs, sharedVars
  <2>5. ASSUME NEW b \in Bindings, SwitchTo(t, b) PROVE TypeOK'
    <3>1. m_fibres' \in Seq(Entry)
      BY <2>5, ScheduleType DEF SwitchTo, TypeOK, At, Placed, Busy
    <3> QED
      BY <2>5, <3>1 DEF SwitchTo, YieldOnce, At, Placed, Busy, TypeOK, PCs
  <2>6. CASE YieldToHold(t)
    BY <2>6 DEF YieldToHold, YieldTo, At, Placed, Busy, TypeOK, PCs, State, sharedVars
  <2> QED
    BY <1>4, <2>1, <2>2, <2>3, <2>4, <2>5, <2>6 DEF Body
<1>5. ASSUME NEW x \in Tasks, Wake(x) PROVE TypeOK'
  <2>1. m_fibres' \in Seq(Entry)
    BY <1>5, ScheduleType DEF Wake
  <2> QED
    BY <1>5, <2>1 DEF Wake, TypeOK, threadVars
<1>6. CASE UNCHANGED vars
  BY <1>6 DEF TypeOK, vars, sharedVars, threadVars, historyVars
<1> QED
  BY <1>1, <1>2, <1>3, <1>4, <1>5, <1>6 DEF Next, Halted

(* Every step keeps workers and tasks matched. *)
LEMMA PlacedStep == TypeInv /\ [Next \/ Halted]_vars => Placed'
<1> SUFFICES ASSUME TypeOK, Placed, [Next \/ Halted]_vars PROVE Placed'
  BY DEF TypeInv
<1> USE SchedulerAssumption DEF Empty, Busy, At, MainAt
<1>1. CASE Main
  <2>1. CASE Start
    BY <2>1 DEF Start, TypeOK, Placed, Workers
  <2>2. CASE StopRequest \/ StopFlag
    BY <2>2 DEF StopRequest, StopFlag, TypeOK, Placed, threadVars
  <2>3. CASE StopCall
    BY <2>3 DEF StopCall, TypeOK, Placed, Workers
  <2>4. CASE RootReturn \/ Join
    BY <2>4 DEF RootReturn, Join, TypeOK, Placed, threadVars
  <2> QED
    BY <1>1, <2>1, <2>2, <2>3, <2>4 DEF Main
<1>2. ASSUME NEW x \in Tasks, NEW b \in Bindings, CallerSchedule(x, b) PROVE Placed'
  BY <1>2 DEF CallerSchedule, TypeOK, Placed, threadVars
<1>3. ASSUME NEW t \in Workers, Run(t) PROVE Placed'
  <2>1. pc[t] # "off" /\ pc'[t] # "off" /\ UNCHANGED mainpc
    BY <1>3 DEF Run, ScanTake, ScanNothing, SwapIn, SkipEnded, GoIdle, Exit, Idle,
       LeaveIdle, SwapOut, Return, Requeue, Forget, FoundWaiting, MarkHold, TypeOK
  <2>2. CASE ScanTake(t)
    <3>1. PICK i \in 1..Len(m_fibres) : ft' = [ft EXCEPT ![t] = m_fibres[i].task]
      BY <2>2 DEF ScanTake
    <3>2. m_fibres[i] \in Entry
      BY <3>1, ElementOfSeq DEF TypeOK
    <3> QED
      BY <2>1, <2>2, <3>1, <3>2 DEF ScanTake, TypeOK, Placed, Entry
  <2>3. CASE ScanNothing(t)
    BY <2>1, <2>3 DEF ScanNothing, TypeOK, Placed
  <2>4. CASE SwapIn(t)
    BY <2>1, <2>4 DEF SwapIn, TypeOK, Placed
  <2>5. CASE SkipEnded(t)
    BY <2>1, <2>5 DEF SkipEnded, TypeOK, Placed
  <2>6. CASE GoIdle(t)
    BY <2>1, <2>6 DEF GoIdle, TypeOK, Placed
  <2>7. CASE Exit(t)
    BY <2>1, <2>7 DEF Exit, TypeOK, Placed
  <2>8. CASE Idle(t)
    BY <2>1, <2>8 DEF Idle, TypeOK, Placed
  <2>9. CASE LeaveIdle(t)
    BY <2>1, <2>9 DEF LeaveIdle, TypeOK, Placed
  <2>10. CASE SwapOut(t)
    BY <2>1, <2>10 DEF SwapOut, TypeOK, Placed
  <2>11. CASE Return(t)
    BY <2>1, <2>11 DEF Return, TypeOK, Placed
  <2>12. CASE Requeue(t)
    BY <2>1, <2>12 DEF Requeue, TypeOK, Placed
  <2>13. CASE Forget(t)
    BY <2>1, <2>13 DEF Forget, TypeOK, Placed
  <2>14. CASE FoundWaiting(t)
    BY <2>1, <2>14 DEF FoundWaiting, TypeOK, Placed
  <2>15. CASE MarkHold(t)
    BY <2>1, <2>15 DEF MarkHold, TypeOK, Placed
  <2> QED
    BY <1>3, <2>2, <2>3, <2>4, <2>5, <2>6, <2>7, <2>8, <2>9,
       <2>10, <2>11, <2>12, <2>13, <2>14, <2>15 DEF Run
<1>4. ASSUME NEW t \in Workers, Body(t) PROVE Placed'
  <2>1. ASSUME NEW x \in Tasks, NEW b \in Bindings, Spawn(t, x, b) PROVE Placed'
    BY <2>1 DEF Spawn, TypeOK, Placed, threadVars
  <2>2. CASE Finish(t)
    BY <2>2 DEF Finish, TypeOK, Placed
  <2>4. CASE YieldToReady(t)
    BY <2>4 DEF YieldToReady, YieldTo, TypeOK, Placed
  <2>5. CASE ArmWaker(t)
    BY <2>5 DEF ArmWaker, TypeOK, Placed
  <2>6. CASE YieldToHold(t)
    BY <2>6 DEF YieldToHold, YieldTo, TypeOK, Placed
  <2>3. ASSUME NEW b \in Bindings, SwitchTo(t, b) PROVE Placed'
    BY <2>3 DEF SwitchTo, TypeOK, Placed
  <2> QED
    BY <1>4, <2>1, <2>2, <2>3, <2>4, <2>5, <2>6 DEF Body
<1>5. ASSUME NEW x \in Tasks, Wake(x) PROVE Placed'
  BY <1>5 DEF Wake, TypeOK, Placed, threadVars
<1>6. CASE UNCHANGED vars
  BY <1>6 DEF Placed, vars, threadVars
<1> QED
  BY <1>1, <1>2, <1>3, <1>4, <1>5, <1>6 DEF Next, Halted

LEMMA TypeInvCorrect == Spec => []TypeInv
<1>1. Init => TypeInv
  <2> SUFFICES ASSUME Init PROVE TypeInv
    OBVIOUS
  <2>1. m_fibres \in Seq(Entry)
    BY EmptySeq DEF Init
  <2>2. yields \in [Tasks -> 0..MaxYields]
    BY SchedulerAssumption DEF Init
  <2>3. /\ m_state \in [Tasks -> State]
        /\ binding \in [Tasks -> Workers \cup {AnyThread}]
        /\ pc \in [Workers -> PCs]
        /\ ft \in [Workers -> Tasks \cup {NoTask}]
        /\ idleTerm \in [Workers -> BOOLEAN]
    BY DEF Init, State, PCs
  <2>4. m_activeThreadCount \in Int /\ m_idleThreadCount \in Int /\ mainpc \in MainPCs
    BY DEF Init, MainPCs
  <2>5. m_stopping \in BOOLEAN /\ m_autoStop \in BOOLEAN /\ aborted \in BOOLEAN
    BY Zenon DEF Init
  <2>6. wakers \subseteq Tasks /\ submitted \subseteq Tasks /\ finished \subseteq Tasks
    BY DEF Init
  <2>7. TypeOK
    BY <2>1, <2>2, <2>3, <2>4, <2>5, <2>6, Zenon DEF TypeOK
  <2>8. Placed
    BY SchedulerAssumption DEF Init, Placed, Empty, Busy, Workers
  <2> QED
    BY <2>7, <2>8 DEF TypeInv
<1>2. TypeInv /\ [Next \/ Halted]_vars => TypeInv'
  BY TypeStep, PlacedStep DEF TypeInv
<1> QED
  BY <1>1, <1>2, PTL DEF Spec

(* The variables of Scheduler keep their types in every behaviour. *)
THEOREM TypeCorrect == Spec => []TypeOK
<1>1. TypeInv => TypeOK
  BY DEF TypeInv
<1> QED
  BY <1>1, TypeInvCorrect, PTL

------------------------------------------------------------------------------
(* The workers behind the two counters. *)
Active == {t \in Workers : Counted(t)}
Idlers == {t \in Workers : InIdle(t)}

LEMMA WorkersFinite == IsFiniteSet(Workers)
<1>1. IsFiniteSet({Caller}) /\ IsFiniteSet({})
  BY FS_Singleton, FS_EmptySet
<1>2. IsFiniteSet(IF UseCaller THEN {Caller} ELSE {})
  BY <1>1
<1> QED
  BY <1>2, SchedulerAssumption, FS_Union DEF Workers

LEMMA SetsFinite ==
  /\ IsFiniteSet(Active) /\ Cardinality(Active) \in Nat
  /\ IsFiniteSet(Idlers) /\ Cardinality(Idlers) \in Nat
<1>1. Active \subseteq Workers /\ Idlers \subseteq Workers
  BY DEF Active, Idlers
<1> QED
  BY <1>1, WorkersFinite, FS_Subset, FS_CardinalityType

LEMMA CountIn ==
  ASSUME NEW S, IsFiniteSet(S), NEW t, t \notin S
  PROVE  Cardinality(S \cup {t}) = Cardinality(S) + 1
BY FS_AddElement

LEMMA CountOut ==
  ASSUME NEW S, IsFiniteSet(S), NEW t, t \in S
  PROVE  Cardinality(S \ {t}) = Cardinality(S) - 1
BY FS_RemoveElement

(* A step that changes neither the counters nor the sets behind them. *)
Steady ==
  /\ UNCHANGED <<m_activeThreadCount, m_idleThreadCount>>
  /\ Active' = Active
  /\ Idlers' = Idlers

LEMMA SteadyCounts == CountsExact /\ Steady => CountsExact'
BY DEF CountsExact, Steady, Active, Idlers

(* Every path through run() gives back the unit it took. *)
LEMMA CountStep == TypeInv /\ CountsExact /\ [Next \/ Halted]_vars => CountsExact'
<1> SUFFICES ASSUME TypeOK, Placed, CountsExact, [Next \/ Halted]_vars PROVE CountsExact'
  BY DEF TypeInv
<1> USE SchedulerAssumption DEF Empty, Busy, At, MainAt, Counted, InIdle
<1>1. CASE Main
  <2>1. CASE Start
    BY <2>1, SteadyCounts DEF Start, TypeOK, Placed, Steady, Active, Idlers
  <2>2. CASE StopRequest \/ StopFlag
    BY <2>2, SteadyCounts DEF StopRequest, StopFlag, Steady, Active, Idlers, threadVars
  <2>3. CASE StopCall
    BY <2>3, SteadyCounts DEF StopCall, TypeOK, Placed, Workers, Steady, Active, Idlers, sharedVars
  <2>4. CASE RootReturn \/ Join
    BY <2>4, SteadyCounts DEF RootReturn, Join, Steady, Active, Idlers, sharedVars, threadVars
  <2> QED
    BY <1>1, <2>1, <2>2, <2>3, <2>4 DEF Main
<1>2. ASSUME NEW x \in Tasks, NEW b \in Bindings, CallerSchedule(x, b) PROVE CountsExact'
  BY <1>2, SteadyCounts DEF CallerSchedule, Steady, Active, Idlers, threadVars
<1>3. ASSUME NEW t \in Workers, Run(t) PROVE CountsExact'
  <2>1. CASE ScanTake(t)
    <3>1. PICK i \in 1..Len(m_fibres) : ft' = [ft EXCEPT ![t] = m_fibres[i].task]
      BY <2>1 DEF ScanTake
    <3>2. m_fibres[i] \in Entry
      BY <3>1, ElementOfSeq DEF TypeOK
    <3>3. t \notin Active /\ Active' = Active \cup {t} /\ Idlers' = Idlers
      BY <2>1, <3>1, <3>2 DEF ScanTake, TypeOK, Entry, Placed, Active, Idlers
    <3>4. Cardinality(Active') = Cardinality(Active) + 1
      BY <3>3, CountIn, SetsFinite
    <3> QED
      BY <2>1, <3>3, <3>4 DEF ScanTake, CountsExact, Active, Idlers
  <2>2. CASE SkipEnded(t)
    <3>1. t \in Active /\ Active' = Active \ {t} /\ Idlers' = Idlers
      BY <2>2 DEF SkipEnded, TypeOK, Active, Idlers
    <3>2. Cardinality(Active') = Cardinality(Active) - 1
      BY <3>1, CountOut, SetsFinite
    <3> QED
      BY <2>2, <3>1, <3>2 DEF SkipEnded, CountsExact, Active, Idlers
  <2>3. CASE Return(t)
    <3>1. t \in Active /\ Active' = Active \ {t} /\ Idlers' = Idlers
      BY <2>3 DEF Return, TypeOK, Placed, Active, Idlers
    <3>2. Cardinality(Active') = Cardinality(Active) - 1
      BY <3>1, CountOut, SetsFinite
    <3> QED
      BY <2>3, <3>1, <3>2 DEF Return, CountsExact, Active, Idlers
  <2>4. CASE GoIdle(t)
    <3>1. t \notin Idlers /\ Idlers' = Idlers \cup {t} /\ Active' = Active
      BY <2>4 DEF GoIdle, TypeOK, Active, Idlers
    <3>2. Cardinality(Idlers') = Cardinality(Idlers) + 1
      BY <3>1, CountIn, SetsFinite
    <3> QED
      BY <2>4, <3>1, <3>2 DEF GoIdle, CountsExact, Active, Idlers
  <2>5. CASE LeaveIdle(t)
    <3>1. t \in Idlers /\ Idlers' = Idlers \ {t} /\ Active' = Active
      BY <2>5 DEF LeaveIdle, TypeOK, Placed, Active, Idlers
    <3>2. Cardinality(Idlers') = Cardinality(Idlers) - 1
      BY <3>1, CountOut, SetsFinite
    <3> QED
      BY <2>5, <3>1, <3>2 DEF LeaveIdle, CountsExact, Active, Idlers
  <2>6. CASE ScanNothing(t)
    BY <2>6, SteadyCounts DEF ScanNothing, TypeOK, Placed, Steady, Active, Idlers, sharedVars
  <2>7. CASE SwapIn(t)
    BY <2>7, SteadyCounts DEF SwapIn, TypeOK, Placed, Steady, Active, Idlers, sharedVars
  <2>8. CASE Exit(t)
    BY <2>8, SteadyCounts DEF Exit, TypeOK, Placed, Steady, Active, Idlers, sharedVars
  <2>9. CASE Idle(t)
    BY <2>9, SteadyCounts DEF Idle, TypeOK, Placed, Steady, Active, Idlers, sharedVars
  <2>10. CASE SwapOut(t)
    BY <2>10, SteadyCounts DEF SwapOut, TypeOK, Placed, Steady, Active, Idlers, sharedVars
  <2>11. CASE Requeue(t)
    BY <2>11, SteadyCounts DEF Requeue, TypeOK, Placed, Steady, Active, Idlers, sharedVars
  <2>12. CASE Forget(t)
    BY <2>12, SteadyCounts DEF Forget, TypeOK, Placed, Steady, Active, Idlers, sharedVars
  <2>13. CASE FoundWaiting(t)
    BY <2>13, SteadyCounts DEF FoundWaiting, TypeOK, Placed, Steady, Active, Idlers, sharedVars
  <2>14. CASE MarkHold(t)
    BY <2>14, SteadyCounts DEF MarkHold, TypeOK, Placed, Steady, Active, Idlers, sharedVars
  <2> QED
    BY <1>3, <2>1, <2>2, <2>3, <2>4, <2>5, <2>6, <2>7, <2>8,
       <2>9, <2>10, <2>11, <2>12, <2>13, <2>14 DEF Run
<1>4. ASSUME NEW t \in Workers, Body(t) PROVE CountsExact'
  <2>1. ASSUME NEW x \in Tasks, NEW b \in Bindings, Spawn(t, x, b) PROVE CountsExact'
    BY <2>1, SteadyCounts DEF Spawn, Steady, Active, Idlers, threadVars
  <2>2. CASE Finish(t)
    BY <2>2, SteadyCounts DEF Finish, TypeOK, Placed, Steady, Active, Idlers, sharedVars
  <2>3. CASE YieldToReady(t)
    BY <2>3, SteadyCounts DEF YieldToReady, YieldTo, TypeOK, Placed, Steady, Active, Idlers,
       sharedVars
  <2>4. CASE ArmWaker(t)
    BY <2>4, SteadyCounts DEF ArmWaker, TypeOK, Placed, Steady, Active, Idlers, sharedVars
  <2>5. ASSUME NEW b \in Bindings, SwitchTo(t, b) PROVE CountsExact'
    BY <2>5, SteadyCounts DEF SwitchTo, TypeOK, Placed, Steady, Active, Idlers
  <2>6. CASE YieldToHold(t)
    BY <2>6, SteadyCounts DEF YieldToHold, YieldTo, TypeOK, Placed, Steady, Active, Idlers,
       sharedVars
  <2> QED
    BY <1>4, <2>1, <2>2, <2>3, <2>4, <2>5, <2>6 DEF Body
<1>5. ASSUME NEW x \in Tasks, Wake(x) PROVE CountsExact'
  BY <1>5, SteadyCounts DEF Wake, Steady, Active, Idlers, threadVars
<1>6. CASE UNCHANGED vars
  BY <1>6, SteadyCounts DEF Steady, Active, Idlers, vars, sharedVars, threadVars
<1> QED
  BY <1>1, <1>2, <1>3, <1>4, <1>5, <1>6 DEF Next, Halted

(* m_activeThreadCount and m_idleThreadCount are exact in every reachable  *)
(* state, for any number of threads and tasks and whatever the bodies do;  *)
(* in particular the unsigned counters never wrap.                         *)
THEOREM CountsCorrect == Spec => []CountsExact
<1>1. Init => CountsExact
  <2> SUFFICES ASSUME Init PROVE CountsExact
    OBVIOUS
  <2>1. {t \in Workers : Counted(t)} = {} /\ {t \in Workers : InIdle(t)} = {}
    BY DEF Init, Counted, InIdle
  <2> QED
    BY <2>1, FS_EmptySet DEF Init, CountsExact
<1> QED
  BY <1>1, TypeInvCorrect, CountStep, PTL DEF Spec

------------------------------------------------------------------------------
(* Bodies that only run to their end, throw, schedule other tasks or call  *)
(* YieldToReady: no fibre is put in the hands of anyone else while it is   *)
(* on a stack.                                                             *)
NoSelfSchedule == BodyOps \cap {"wait", "switchTo"} = {}

(* A task is in one place, and its state fits that place. *)
Places ==
  /\ OnePlace
  /\ wakers = {}
  /\ \A i \in 1..Len(m_fibres) : m_fibres[i].task \in submitted
  /\ \A t \in Workers : ft[t] # NoTask => ft[t] \in submitted

States ==
  /\ ~aborted
  /\ \A t \in Workers : pc[t] \notin {"armed", "hold"}
  /\ \A t \in Workers : pc[t] = "run" => m_state[ft[t]] = "EXEC"
  /\ \A x \in Tasks : m_state[x] = "EXEC" => \E t \in Workers : pc[t] = "run" /\ ft[t] = x
  /\ \A t \in Workers : pc[t] \in {"swapOut", "return", "post"} =>
                          m_state[ft[t]] \in Ended \cup {"READY"}

Exclusive == Places /\ States

LEMMA ScheduleList ==
  ASSUME TypeOK, NEW x \in Tasks, NEW c \in BOOLEAN,
         NEW thread \in Workers \cup {AnyThread}, Schedule(x, c, thread)
  PROVE  /\ Len(m_fibres') = Len(m_fibres) + 1
         /\ \A i \in 1..Len(m_fibres) : m_fibres'[i] = m_fibres[i]
         /\ m_fibres'[Len(m_fibres) + 1].task = x
BY AppendProperties, LenProperties DEF TypeOK, Schedule, Entry

(* Queueing a task nobody else has keeps every task in one place. *)
LEMMA SchedulePlaces ==
  ASSUME TypeOK, Places, NEW x \in Tasks, NEW c \in BOOLEAN,
         NEW thread \in Workers \cup {AnyThread}, Schedule(x, c, thread),
         ~Queued(x), x \in submitted', submitted \subseteq submitted', wakers' = wakers,
         \A t \in Workers : ft'[t] # NoTask => ft'[t] = ft[t] /\ ft'[t] # x
  PROVE  Places'
<1> DEFINE n == Len(m_fibres)
<1>1. n \in Nat
  BY LenProperties DEF TypeOK
<1>2. /\ Len(m_fibres') = n + 1
      /\ \A i \in 1..n : m_fibres'[i] = m_fibres[i]
      /\ m_fibres'[n + 1].task = x
  BY ScheduleList
<1>3. \A i \in 1..n : m_fibres[i].task # x
  BY DEF Queued
<1>4. \A i \in 1..(n + 1) : i \in 1..n \/ i = n + 1
  BY <1>1
<1> HIDE DEF n
<1>5. \A i, j \in 1..Len(m_fibres') : m_fibres'[i].task = m_fibres'[j].task => i = j
  BY <1>2, <1>3, <1>4 DEF Places, OnePlace, n
<1>6. \A t \in Workers : ft'[t] # NoTask => ~Queued(ft[t])' 
  BY <1>2, <1>4 DEF Places, OnePlace, Queued, n
<1>7. \A i \in 1..Len(m_fibres') : m_fibres'[i].task \in submitted'
  BY <1>2, <1>4 DEF Places, n
<1> QED
  BY <1>5, <1>6, <1>7 DEF Places, OnePlace

(* Taking an entry out of the list moves its task to one worker. *)
LEMMA TakePlaces ==
  ASSUME TypeOK, Placed, Places, NEW t \in Workers, ScanTake(t)
  PROVE  Places'
<1> DEFINE n == Len(m_fibres)
<1>1. PICK i \in 1..n : /\ ft' = [ft EXCEPT ![t] = m_fibres[i].task]
                        /\ m_fibres' = RemoveEntry(m_fibres, i)
  BY DEF ScanTake
<1>2. n \in Nat
  BY LenProperties DEF TypeOK
<1>3. /\ Len(m_fibres') = n - 1
      /\ \A j \in 1..(n - 1) : m_fibres'[j] = IF j < i THEN m_fibres[j] ELSE m_fibres[j + 1]
  BY <1>1, RemoveEntryType DEF TypeOK
<1>4. \A j \in 1..(n - 1) : \E k \in 1..n : /\ k # i
                                           /\ m_fibres'[j] = m_fibres[k]
                                           /\ k = IF j < i THEN j ELSE j + 1
  BY <1>2, <1>3
<1>5. UNCHANGED <<submitted, wakers>>
  BY DEF ScanTake, historyVars
<1>6. /\ \A j, k \in 1..n : m_fibres[j].task = m_fibres[k].task => j = k
      /\ \A j \in 1..n : m_fibres[j].task \in submitted
      /\ \A u \in Workers : ft[u] # NoTask => \A j \in 1..n : m_fibres[j].task # ft[u]
      /\ \A u, v \in Workers : ft[u] # NoTask /\ ft[u] = ft[v] => u = v
  BY DEF Places, OnePlace, Queued
<1>7. \A u \in Workers : ft'[u] = IF u = t THEN m_fibres[i].task ELSE ft[u]
  BY <1>1 DEF TypeOK
<1> HIDE DEF n
<1>8. \A j, k \in 1..Len(m_fibres') : m_fibres'[j].task = m_fibres'[k].task => j = k
  <2> SUFFICES ASSUME NEW j \in 1..(n - 1), NEW k \in 1..(n - 1),
                      m_fibres'[j].task = m_fibres'[k].task
               PROVE  j = k
    BY <1>3
  <2>1. PICK a \in 1..n : m_fibres'[j] = m_fibres[a] /\ a = IF j < i THEN j ELSE j + 1
    BY <1>4
  <2>2. PICK b \in 1..n : m_fibres'[k] = m_fibres[b] /\ b = IF k < i THEN k ELSE k + 1
    BY <1>4
  <2>3. a = b
    BY <1>6, <2>1, <2>2
  <2> QED
    BY <1>1, <1>2, <2>1, <2>2, <2>3
<1>9. \A u \in Workers : ft'[u] # NoTask => ~Queued(ft[u])'
  <2> SUFFICES ASSUME NEW u \in Workers, ft'[u] # NoTask,
                      NEW j \in 1..(n - 1), m_fibres'[j].task = ft'[u]
               PROVE  FALSE
    BY <1>3 DEF Queued
  <2>1. PICK k \in 1..n : k # i /\ m_fibres'[j] = m_fibres[k]
    BY <1>4
  <2> QED
    BY <1>1, <1>6, <1>7, <2>1
<1>10. \A j \in 1..Len(m_fibres') : m_fibres'[j].task \in submitted'
  BY <1>3, <1>4, <1>5, <1>6
<1>11. \A u, v \in Workers : ft'[u] # NoTask /\ ft'[u] = ft'[v] => u = v
  BY <1>1, <1>6, <1>7
<1>12. \A u \in Workers : ft'[u] # NoTask => ft'[u] \in submitted'
  BY <1>1, <1>5, <1>6, <1>7 DEF Places
<1> QED
  BY <1>5, <1>8, <1>9, <1>10, <1>11, <1>12 DEF Places, OnePlace

(* A step that leaves the list alone and at most lets a task go. *)
LEMMA LetGoPlaces ==
  ASSUME Places, UNCHANGED <<m_fibres, wakers, submitted>>,
         \A t \in Workers : ft'[t] # NoTask => ft'[t] = ft[t]
  PROVE  Places'
<1>1. \A x : Queued(x)' <=> Queued(x)
  BY DEF Queued
<1> QED
  BY <1>1 DEF Places, OnePlace

LEMMA PlacesStep ==
  NoSelfSchedule /\ TypeInv /\ Exclusive /\ [Next \/ Halted]_vars => Places'
<1> SUFFICES ASSUME NoSelfSchedule, TypeOK, Placed, Places, States, [Next \/ Halted]_vars
             PROVE  Places'
  BY DEF TypeInv, Exclusive
<1> USE SchedulerAssumption DEF At, sharedVars, threadVars, historyVars
<1>1. CASE Main
  BY <1>1, LetGoPlaces DEF Main, Start, StopRequest, StopFlag, StopCall, RootReturn, Join
<1>2. ASSUME NEW x \in Tasks, NEW b \in Bindings, Submit(x, b), UNCHANGED <<ft, wakers>>
      PROVE  Places'
  <2>1. (x \in Callbacks) \in BOOLEAN /\ b \in Workers \cup {AnyThread}
    OBVIOUS
  <2>2. ~Queued(x) /\ \A t \in Workers : ft[t] # NoTask => ft[t] # x
    BY <1>2 DEF Submit, Places, Queued
  <2> QED
    BY <1>2, <2>1, <2>2, SchedulePlaces DEF Submit
<1>3. ASSUME NEW x \in Tasks, NEW b \in Bindings, CallerSchedule(x, b) PROVE Places'
  BY <1>2, <1>3 DEF CallerSchedule
<1>4. ASSUME NEW t \in Workers, Run(t) PROVE Places'
  <2>1. CASE ScanTake(t)
    BY <2>1, TakePlaces
  <2>2. CASE Requeue(t)
    <3>1. ft[t] \in Tasks /\ ft[t] \in submitted /\ ~Queued(ft[t])
      BY <2>2 DEF Requeue, Placed, Busy, Places, OnePlace, TypeOK
    <3>2. \A u \in Workers : ft'[u] # NoTask => ft'[u] = ft[u] /\ ft'[u] # ft[t]
      BY <2>2, <3>1 DEF Requeue, Places, OnePlace, TypeOK
    <3> QED
      BY <2>2, <3>1, <3>2, SchedulePlaces DEF Requeue
  <2>3. CASE ScanNothing(t)
    BY <2>3, LetGoPlaces DEF ScanNothing, TypeOK
  <2>4. CASE SwapIn(t)
    BY <2>4, LetGoPlaces DEF SwapIn, TypeOK
  <2>5. CASE SkipEnded(t)
    BY <2>5, LetGoPlaces DEF SkipEnded, TypeOK
  <2>6. CASE GoIdle(t)
    BY <2>6, LetGoPlaces DEF GoIdle, TypeOK
  <2>7. CASE Exit(t)
    BY <2>7, LetGoPlaces DEF Exit, TypeOK
  <2>8. CASE Idle(t)
    BY <2>8, LetGoPlaces DEF Idle, TypeOK
  <2>9. CASE LeaveIdle(t)
    BY <2>9, LetGoPlaces DEF LeaveIdle, TypeOK
  <2>10. CASE SwapOut(t)
    BY <2>10, LetGoPlaces DEF SwapOut, TypeOK
  <2>11. CASE Return(t)
    BY <2>11, LetGoPlaces DEF Return, TypeOK
  <2>12. CASE Forget(t)
    BY <2>12, LetGoPlaces DEF Forget, TypeOK
  <2>13. CASE FoundWaiting(t)
    BY <2>13, LetGoPlaces DEF FoundWaiting, TypeOK
  <2>14. CASE MarkHold(t)
    BY <2>14, LetGoPlaces DEF MarkHold, TypeOK
  <2> QED
    BY <1>4, <2>1, <2>2, <2>3, <2>4, <2>5, <2>6, <2>7, <2>8,
       <2>9, <2>10, <2>11, <2>12, <2>13, <2>14 DEF Run
<1>5. ASSUME NEW t \in Workers, Body(t) PROVE Places'
  <2>1. ASSUME NEW x \in Tasks, NEW b \in Bindings, Spawn(t, x, b) PROVE Places'
    BY <1>2, <2>1 DEF Spawn
  <2>2. CASE Finish(t)
    BY <2>2, LetGoPlaces DEF Finish
  <2>3. CASE YieldToReady(t) \/ YieldToHold(t)
    BY <2>3, LetGoPlaces DEF YieldToReady, YieldToHold, YieldTo
  <2>4. ~ArmWaker(t) /\ \A b \in Bindings : ~SwitchTo(t, b)
    BY DEF NoSelfSchedule, ArmWaker, SwitchTo
  <2> QED
    BY <1>5, <2>1, <2>2, <2>3, <2>4 DEF Body
<1>6. \A x \in Tasks : ~Wake(x)
  BY DEF Wake, Places
<1>7. CASE UNCHANGED vars
  BY <1>7, LetGoPlaces DEF vars
<1> QED
  BY <1>1, <1>3, <1>4, <1>5, <1>6, <1>7 DEF Next, Halted

(* A step that leaves the fibre states and the workers' places alone. *)
LEMMA QuietStates ==
  States /\ UNCHANGED <<m_state, pc, ft, aborted>> => States'
BY DEF States

LEMMA StatesStep ==
  NoSelfSchedule /\ TypeInv /\ Exclusive /\ [Next \/ Halted]_vars => States'
<1> SUFFICES ASSUME NoSelfSchedule, TypeOK, Placed, Places, States, [Next \/ Halted]_vars
             PROVE  States'
  BY DEF TypeInv, Exclusive
<1> USE SchedulerAssumption DEF At, MainAt, Ended, sharedVars, threadVars, historyVars
<1>a. \A t, u \in Workers : ft[t] # NoTask /\ ft[t] = ft[u] => t = u
  BY DEF Places, OnePlace
<1>1. CASE Main
  <2>1. CASE Start
    BY <2>1 DEF Start, TypeOK, Placed, States
  <2>2. CASE StopCall
    BY <2>2 DEF StopCall, TypeOK, Placed, States, Workers
  <2>3. CASE StopRequest \/ StopFlag \/ RootReturn \/ Join
    BY <2>3, QuietStates DEF StopRequest, StopFlag, RootReturn, Join
  <2> QED
    BY <1>1, <2>1, <2>2, <2>3 DEF Main
<1>2. ASSUME NEW x \in Tasks, NEW b \in Bindings, CallerSchedule(x, b) PROVE States'
  BY <1>2, QuietStates DEF CallerSchedule
<1>3. ASSUME NEW t \in Workers, Run(t) PROVE States'
  <2>1. CASE ScanTake(t)
    BY <2>1 DEF ScanTake, TypeOK, States
  <2>2. CASE SwapIn(t)
    <3>1. ft[t] \in Tasks /\ \A u \in Workers : ft[u] = ft[t] => u = t
      BY <2>2, <1>a DEF SwapIn, TypeOK
    <3>2. m_state[ft[t]] # "EXEC"
      BY <2>2, <3>1 DEF SwapIn, States
    <3> QED
      BY <2>2, <3>1, <3>2 DEF SwapIn, TypeOK, States
  <2>3. CASE Requeue(t)
    BY <2>3 DEF Requeue, TypeOK, States
  <2>4. CASE FoundWaiting(t)
    BY <2>4 DEF FoundWaiting, States
  <2>5. CASE MarkHold(t)
    BY <2>5 DEF MarkHold, States
  <2>6. CASE ScanNothing(t)
    BY <2>6 DEF ScanNothing, TypeOK, States
  <2>7. CASE SkipEnded(t)
    BY <2>7 DEF SkipEnded, TypeOK, States
  <2>8. CASE GoIdle(t)
    BY <2>8 DEF GoIdle, TypeOK, States
  <2>9. CASE Exit(t)
    BY <2>9 DEF Exit, TypeOK, States
  <2>10. CASE Idle(t)
    BY <2>10 DEF Idle, TypeOK, States
  <2>11. CASE LeaveIdle(t)
    BY <2>11 DEF LeaveIdle, TypeOK, States
  <2>12. CASE SwapOut(t)
    BY <2>12 DEF SwapOut, TypeOK, States
  <2>13. CASE Return(t)
    BY <2>13 DEF Return, TypeOK, States
  <2>14. CASE Forget(t)
    BY <2>14 DEF Forget, TypeOK, States
  <2> QED
    BY <1>3, <2>1, <2>2, <2>3, <2>4, <2>5, <2>6, <2>7, <2>8, <2>9,
       <2>10, <2>11, <2>12, <2>13, <2>14 DEF Run
<1>4. ASSUME NEW t \in Workers, Body(t) PROVE States'
  <2>1. ASSUME NEW x \in Tasks, NEW b \in Bindings, Spawn(t, x, b) PROVE States'
    BY <2>1, QuietStates DEF Spawn
  <2>2. pc[t] = "run" => ft[t] \in Tasks /\ \A u \in Workers : ft[u] = ft[t] => u = t
    BY <1>a DEF Placed, Busy
  <2>3. CASE Finish(t)
    BY <2>2, <2>3 DEF Finish, TypeOK, States
  <2>4. CASE YieldToReady(t)
    BY <2>2, <2>4 DEF YieldToReady, YieldTo, TypeOK, States
  <2>5. ~YieldToHold(t) /\ ~ArmWaker(t) /\ \A b \in Bindings : ~SwitchTo(t, b)
    BY DEF NoSelfSchedule, YieldToHold, ArmWaker, SwitchTo, States
  <2> QED
    BY <1>4, <2>1, <2>3, <2>4, <2>5 DEF Body
<1>5. \A x \in Tasks : ~Wake(x)
  BY DEF Wake, Places
<1>6. CASE UNCHANGED vars
  BY <1>6, QuietStates DEF vars
<1> QED
  BY <1>1, <1>2, <1>3, <1>4, <1>5, <1>6 DEF Next, Halted

(* The invariant behind OnePlace. *)
LEMMA ExclusiveCorrect ==
  ASSUME NoSelfSchedule
  PROVE  Spec => []Exclusive
<1>1. Init => Exclusive
  <2> SUFFICES ASSUME Init PROVE Exclusive
    OBVIOUS
  <2>1. Len(m_fibres) = 0
    BY EmptySeq DEF Init
  <2>2. Places
    BY <2>1 DEF Init, Places, OnePlace, Queued
  <2>3. States
    BY DEF Init, States
  <2> QED
    BY <2>2, <2>3 DEF Exclusive
<1>2. TypeInv /\ Exclusive /\ [Next \/ Halted]_vars => Exclusive'
  BY PlacesStep, StatesStep DEF Exclusive
<1> QED
  BY <1>1, <1>2, TypeInvCorrect, PTL DEF Spec

(* As long as no body gives its own fibre away before it yields, a task is *)
(* in one place at a time: run() neither duplicates it nor takes it twice. *)
THEOREM OnePlaceCorrect ==
  ASSUME NoSelfSchedule
  PROVE  Spec => []OnePlace
<1>1. Exclusive => OnePlace
  BY DEF Exclusive, Places
<1> QED
  BY <1>1, ExclusiveCorrect, PTL

------------------------------------------------------------------------------
(* Under the same hypothesis: an entry carries the binding its task was    *)
(* last given, and so does the task a worker is about to dispatch.         *)
DispatchedWhereBound ==
  \A t \in Workers : pc[t] = "dispatch" /\ ft[t] # NoTask => binding[ft[t]] \in {AnyThread, t}
Bound ==
  /\ \A i \in 1..Len(m_fibres) : m_fibres[i].thread = binding[m_fibres[i].task]
  /\ DispatchedWhereBound

(* A task that was scheduled and has not ended is in the list or in hand;  *)
(* one whose fibre has ended has ended.                                    *)
Tracked ==
  /\ \A x \in submitted \ finished : Queued(x) \/ Held(x)
  /\ \A x \in Tasks : m_state[x] \in Ended => x \in finished

LEMMA ScheduleQueued ==
  ASSUME TypeOK, NEW x \in Tasks, NEW c \in BOOLEAN,
         NEW thread \in Workers \cup {AnyThread}, Schedule(x, c, thread)
  PROVE  /\ \A y : Queued(y)' <=> Queued(y) \/ y = x
         /\ \A i \in 1..Len(m_fibres') :
              \/ m_fibres'[i].task = x /\ m_fibres'[i].thread = thread
              \/ i \in 1..Len(m_fibres) /\ m_fibres'[i] = m_fibres[i]
<1>1. PICK n \in Nat : n = Len(m_fibres)
  BY LenProperties DEF TypeOK
<1>2. /\ Len(m_fibres') = n + 1
      /\ \A i \in 1..n : m_fibres'[i] = m_fibres[i]
      /\ m_fibres'[n + 1].task = x
  BY <1>1, ScheduleList
<1>3. m_fibres'[n + 1].thread = thread
  BY <1>1, AppendProperties DEF TypeOK, Schedule, Entry
<1>4. \A i \in 1..(n + 1) : i \in 1..n \/ i = n + 1
  OBVIOUS
<1>5. n + 1 \in 1..(n + 1) /\ \A i \in 1..n : i \in 1..(n + 1)
  OBVIOUS
<1>6. ASSUME NEW y PROVE Queued(y)' <=> Queued(y) \/ y = x
  BY <1>1, <1>2, <1>4, <1>5 DEF Queued
<1> QED
  BY <1>1, <1>2, <1>3, <1>4, <1>6

LEMMA TakeQueued ==
  ASSUME TypeOK, NEW t \in Workers, ScanTake(t)
  PROVE  \E i \in 1..Len(m_fibres) :
           /\ Eligible(t, m_fibres[i]) /\ m_fibres[i] \in Entry
           /\ \A u \in Workers : ft'[u] = IF u = t THEN m_fibres[i].task ELSE ft[u]
           /\ \A y : Queued(y) => Queued(y)' \/ y = m_fibres[i].task
           /\ \A j \in 1..Len(m_fibres') : \E k \in 1..Len(m_fibres) : m_fibres'[j] = m_fibres[k]
<1>1. PICK n \in Nat : n = Len(m_fibres)
  BY LenProperties DEF TypeOK
<1>2. PICK i \in 1..n : /\ Eligible(t, m_fibres[i])
                        /\ ft' = [ft EXCEPT ![t] = m_fibres[i].task]
                        /\ m_fibres' = RemoveEntry(m_fibres, i)
  BY <1>1 DEF ScanTake, FirstEligible
<1>3. /\ Len(m_fibres') = n - 1
      /\ \A j \in 1..(n - 1) : m_fibres'[j] = IF j < i THEN m_fibres[j] ELSE m_fibres[j + 1]
  BY <1>1, <1>2, RemoveEntryType DEF TypeOK
<1>4. m_fibres[i] \in Entry
  BY <1>1, ElementOfSeq DEF TypeOK
<1>5. \A u \in Workers : ft'[u] = IF u = t THEN m_fibres[i].task ELSE ft[u]
  BY <1>2 DEF TypeOK
<1>6. ASSUME NEW y, Queued(y), y # m_fibres[i].task PROVE Queued(y)'
  <2>1. PICK k \in 1..n : m_fibres[k].task = y
    BY <1>1, <1>6 DEF Queued
  <2>2. CASE k < i
    <3>1. k \in 1..(n - 1) /\ m_fibres'[k] = m_fibres[k]
      BY <1>3, <2>2
    <3> QED
      BY <1>3, <2>1, <3>1 DEF Queued
  <2>3. CASE k > i
    <3>1. k - 1 \in 1..(n - 1) /\ m_fibres'[k - 1] = m_fibres[k]
      BY <1>3, <2>3
    <3> QED
      BY <1>3, <2>1, <3>1 DEF Queued
  <2> QED
    BY <1>6, <2>1, <2>2, <2>3
<1>7. \A j \in 1..(n - 1) : \E k \in 1..n : m_fibres'[j] = m_fibres[k]
  <2> TAKE j \in 1..(n - 1)
  <2>1. CASE j < i
    <3>1. j \in 1..n
      OBVIOUS
    <3> QED
      BY <1>3, <2>1, <3>1
  <2>2. CASE ~(j < i)
    <3>1. j + 1 \in 1..n
      OBVIOUS
    <3> QED
      BY <1>3, <2>2, <3>1
  <2> QED
    BY <2>1, <2>2
<1> QED
  BY <1>1, <1>2, <1>3, <1>4, <1>5, <1>6, <1>7

(* A step that leaves the list and the bindings alone. *)
LEMMA QuietBound ==
  ASSUME Bound, UNCHANGED <<m_fibres, binding>>,
         \A t \in Workers : pc'[t] = "dispatch" /\ ft'[t] # NoTask => pc[t] = "dispatch" /\ ft'[t] = ft[t]
  PROVE  Bound'
BY DEF Bound, DispatchedWhereBound

(* A task is queued, with its new binding, while it is not in the list and *)
(* nobody is about to dispatch it.                                         *)
LEMMA ScheduleBound ==
  ASSUME TypeOK, Bound, NEW x \in Tasks, NEW c \in BOOLEAN,
         NEW thread \in Workers \cup {AnyThread}, Schedule(x, c, thread),
         binding' = [binding EXCEPT ![x] = thread], ~Queued(x),
         \A t \in Workers : pc'[t] = "dispatch" /\ ft'[t] # NoTask =>
                              pc[t] = "dispatch" /\ ft'[t] = ft[t] /\ ft[t] # x
  PROVE  Bound'
<1>1. \A y \in Tasks : binding'[y] = IF y = x THEN thread ELSE binding[y]
  BY DEF TypeOK
<1>2. \A i \in 1..Len(m_fibres) : m_fibres[i].task # x /\ m_fibres[i].task \in Tasks
  <2> TAKE i \in 1..Len(m_fibres)
  <2>1. m_fibres[i] \in Entry
    BY ElementOfSeq DEF TypeOK
  <2> QED
    BY <2>1 DEF Queued, Entry
<1>3. \A i \in 1..Len(m_fibres') : m_fibres'[i].thread = binding'[m_fibres'[i].task]
  BY <1>1, <1>2, ScheduleQueued DEF Bound
<1>4. DispatchedWhereBound'
  BY <1>1 DEF Bound, DispatchedWhereBound, TypeOK
<1> QED
  BY <1>3, <1>4 DEF Bound

LEMMA BoundStep ==
  NoSelfSchedule /\ TypeInv /\ Exclusive /\ Bound /\ [Next \/ Halted]_vars => Bound'
<1> SUFFICES ASSUME NoSelfSchedule, TypeOK, Placed, Places, States, Bound, [Next \/ Halted]_vars
             PROVE  Bound'
  BY DEF TypeInv, Exclusive
<1> USE SchedulerAssumption DEF At, sharedVars, threadVars, historyVars
<1>1. CASE Main
  BY <1>1, QuietBound DEF Main, Start, StopRequest, StopFlag, StopCall, RootReturn, Join, TypeOK
<1>2. ASSUME NEW x \in Tasks, NEW b \in Bindings, Submit(x, b), UNCHANGED <<ft, pc>>
      PROVE  Bound'
  <2>1. (x \in Callbacks) \in BOOLEAN /\ b \in Workers \cup {AnyThread}
    OBVIOUS
  <2>2. ~Queued(x) /\ \A t \in Workers : ft[t] # x
    BY <1>2 DEF Submit, Places, Queued
  <2>3. Schedule(x, x \in Callbacks, b) /\ binding' = [binding EXCEPT ![x] = b]
    BY <1>2 DEF Submit
  <2> QED
    BY <1>2, <2>1, <2>2, <2>3, ScheduleBound
<1>3. ASSUME NEW x \in Tasks, NEW b \in Bindings, CallerSchedule(x, b) PROVE Bound'
  BY <1>2, <1>3 DEF CallerSchedule
<1>4. ASSUME NEW t \in Workers, Run(t) PROVE Bound'
  <2>1. CASE ScanTake(t)
    <3>1. PICK i \in 1..Len(m_fibres) :
             /\ Eligible(t, m_fibres[i]) /\ m_fibres[i] \in Entry
             /\ \A u \in Workers : ft'[u] = IF u = t THEN m_fibres[i].task ELSE ft[u]
             /\ \A j \in 1..Len(m_fibres') : \E k \in 1..Len(m_fibres) : m_fibres'[j] = m_fibres[k]
      BY <2>1, TakeQueued
    <3>2. binding' = binding /\ \A u \in Workers : u # t => pc'[u] = pc[u]
      BY <2>1 DEF ScanTake, TypeOK
    <3>3. binding[m_fibres[i].task] \in {AnyThread, t}
      BY <3>1 DEF Bound, Eligible
    <3>4. DispatchedWhereBound'
      BY <3>1, <3>2, <3>3 DEF Bound, DispatchedWhereBound
    <3>5. \A j \in 1..Len(m_fibres') : m_fibres'[j].thread = binding'[m_fibres'[j].task]
      BY <3>1, <3>2 DEF Bound
    <3> QED
      BY <3>4, <3>5 DEF Bound
  <2>2. CASE Requeue(t)
    <3>1. ft[t] \in Tasks /\ ~Queued(ft[t]) /\ \A u \in Workers : ft[u] = ft[t] => u = t
      BY <2>2 DEF Requeue, Placed, Busy, Places, OnePlace
    <3>2. \A u \in Workers : pc'[u] = "dispatch" => u # t /\ pc[u] = "dispatch" /\ ft'[u] = ft[u]
      BY <2>2 DEF Requeue, TypeOK
    <3>3. PICK x \in Tasks : x = ft[t]
      BY <3>1
    <3>4. Schedule(x, FALSE, AnyThread) /\ binding' = [binding EXCEPT ![x] = AnyThread]
      BY <2>2, <3>3 DEF Requeue
    <3>5. \A u \in Workers : pc'[u] = "dispatch" /\ ft'[u] # NoTask =>
                               pc[u] = "dispatch" /\ ft'[u] = ft[u] /\ ft[u] # x
      BY <3>1, <3>2, <3>3
    <3> QED
      BY <3>1, <3>3, <3>4, <3>5, ScheduleBound
  <2>3. CASE ScanNothing(t)
    <3>1. ft[t] = NoTask
      BY <2>3 DEF ScanNothing, Placed, Empty
    <3> QED
      BY <2>3, <3>1, QuietBound DEF ScanNothing, TypeOK
  <2>4. CASE SwapIn(t) \/ SkipEnded(t) \/ GoIdle(t) \/ Exit(t) \/ Idle(t) \/ LeaveIdle(t)
    BY <2>4, QuietBound DEF SwapIn, SkipEnded, GoIdle, Exit, Idle, LeaveIdle, TypeOK
  <2>5. CASE SwapOut(t) \/ Return(t) \/ Forget(t) \/ FoundWaiting(t) \/ MarkHold(t)
    BY <2>5, QuietBound DEF SwapOut, Return, Forget, FoundWaiting, MarkHold, TypeOK
  <2> QED
    BY <1>4, <2>1, <2>2, <2>3, <2>4, <2>5 DEF Run
<1>5. ASSUME NEW t \in Workers, Body(t) PROVE Bound'
  <2>1. ASSUME NEW x \in Tasks, NEW b \in Bindings, Spawn(t, x, b) PROVE Bound'
    BY <1>2, <2>1 DEF Spawn
  <2>2. CASE Finish(t)
    BY <2>2, QuietBound DEF Finish, TypeOK
  <2>3. CASE YieldToReady(t) \/ YieldToHold(t)
    BY <2>3, QuietBound DEF YieldToReady, YieldToHold, YieldTo, TypeOK
  <2> QED
    BY <1>5, <2>1, <2>2, <2>3 DEF Body, NoSelfSchedule, ArmWaker, SwitchTo
<1>6. ASSUME NEW x \in Tasks, Wake(x) PROVE Bound'
  BY <1>6 DEF Wake, Places
<1>7. CASE UNCHANGED vars
  BY <1>7, QuietBound DEF vars
<1> QED
  BY <1>1, <1>3, <1>4, <1>5, <1>6, <1>7 DEF Next, Halted

LEMMA BoundCorrect ==
  ASSUME NoSelfSchedule
  PROVE  Spec => []Bound
<1>1. Init => Bound
  <2> SUFFICES ASSUME Init PROVE Bound
    OBVIOUS
  <2>1. Len(m_fibres) = 0
    BY EmptySeq DEF Init
  <2> QED
    BY <2>1 DEF Init, Bound, DispatchedWhereBound
<1>2. TypeInv /\ Exclusive /\ Bound /\ [Next \/ Halted]_vars => Bound'
  BY BoundStep
<1> QED
  BY <1>1, <1>2, TypeInvCorrect, ExclusiveCorrect, PTL DEF Spec

------------------------------------------------------------------------------
(* Tasks are not lost.  A step that keeps every task where it is, or in    *)
(* hand, and ends only what it notes as finished.                          *)
LEMMA QuietTracked ==
  ASSUME Tracked, UNCHANGED <<m_fibres, submitted>>, finished \subseteq finished',
         \A t \in Workers : ft'[t] = ft[t] \/ ft[t] = NoTask \/ ft[t] \in finished',
         \A x \in Tasks : m_state'[x] \in Ended => m_state[x] \in Ended \/ x \in finished',
         NoTask \notin submitted
  PROVE  Tracked'
<1>1. \A x : Queued(x)' <=> Queued(x)
  BY DEF Queued
<1>2. ASSUME NEW x \in submitted \ finished', Held(x) PROVE Held(x)'
  <2>1. PICK t \in Workers : ft[t] = x
    BY <1>2 DEF Held
  <2>2. ft'[t] = x
    BY <1>2, <2>1
  <2> QED
    BY <2>2 DEF Held
<1> QED
  BY <1>1, <1>2 DEF Tracked

LEMMA ScheduleTracked ==
  ASSUME TypeOK, Tracked, NEW x \in Tasks, NEW c \in BOOLEAN,
         NEW thread \in Workers \cup {AnyThread}, Schedule(x, c, thread),
         submitted' \subseteq submitted \cup {x}, UNCHANGED <<finished, m_state>>,
         \A t \in Workers : ft'[t] = ft[t] \/ ft[t] = x
  PROVE  Tracked'
<1>1. \A y : Queued(y)' <=> Queued(y) \/ y = x
  BY ScheduleQueued
<1>2. ASSUME NEW y, y # x, Held(y) PROVE Held(y)'
  BY <1>2 DEF Held
<1> QED
  BY <1>1, <1>2 DEF Tracked

LEMMA TrackedStep ==
  NoSelfSchedule /\ TypeInv /\ Exclusive /\ Tracked /\ [Next \/ Halted]_vars => Tracked'
<1> SUFFICES ASSUME NoSelfSchedule, TypeOK, Placed, Places, States, Tracked, [Next \/ Halted]_vars
             PROVE  Tracked'
  BY DEF TypeInv, Exclusive
<1> USE SchedulerAssumption DEF At, sharedVars, threadVars, historyVars
<1>0. NoTask \notin submitted
  BY DEF TypeOK
<1>1. CASE Main
  BY <1>0, <1>1, QuietTracked DEF Main, Start, StopRequest, StopFlag, StopCall, RootReturn, Join
<1>2. ASSUME NEW x \in Tasks, NEW b \in Bindings, Submit(x, b), UNCHANGED <<ft, finished, m_state>>
      PROVE  Tracked'
  <2>1. (x \in Callbacks) \in BOOLEAN /\ b \in Workers \cup {AnyThread}
    OBVIOUS
  <2>2. Schedule(x, x \in Callbacks, b) /\ submitted' = submitted \cup {x}
    BY <1>2 DEF Submit
  <2> QED
    BY <1>2, <2>1, <2>2, ScheduleTracked
<1>3. ASSUME NEW x \in Tasks, NEW b \in Bindings, CallerSchedule(x, b) PROVE Tracked'
  BY <1>2, <1>3 DEF CallerSchedule
<1>4. ASSUME NEW t \in Workers, Run(t) PROVE Tracked'
  <2>1. CASE ScanTake(t)
    <3>1. PICK i \in 1..Len(m_fibres) :
             /\ \A u \in Workers : ft'[u] = IF u = t THEN m_fibres[i].task ELSE ft[u]
             /\ \A y : Queued(y) => Queued(y)' \/ y = m_fibres[i].task
      BY <2>1, TakeQueued
    <3>2. UNCHANGED <<submitted, finished, m_state>> /\ ft[t] = NoTask
      BY <2>1 DEF ScanTake, Placed, Empty
    <3>3. ASSUME NEW x \in submitted \ finished PROVE Queued(x)' \/ Held(x)'
      <4>1. CASE Held(x)
        <5>1. PICK u \in Workers : ft[u] = x
          BY <4>1 DEF Held
        <5>2. u # t
          BY <1>0, <3>2, <5>1
        <5> QED
          BY <3>1, <5>1, <5>2 DEF Held
      <4>2. CASE Queued(x) /\ x = m_fibres[i].task
        BY <3>1, <4>2 DEF Held
      <4>3. CASE Queued(x) /\ x # m_fibres[i].task
        BY <3>1, <4>3
      <4> QED
        BY <4>1, <4>2, <4>3 DEF Tracked
    <3> QED
      BY <3>2, <3>3 DEF Tracked
  <2>2. CASE Requeue(t)
    <3>1. PICK x \in Tasks : x = ft[t]
      BY <2>2 DEF Requeue, Placed, Busy
    <3>2. Schedule(x, FALSE, AnyThread) /\ UNCHANGED <<submitted, finished, m_state>>
      BY <2>2, <3>1 DEF Requeue
    <3>3. \A u \in Workers : ft'[u] = ft[u] \/ ft[u] = x
      BY <2>2, <3>1 DEF Requeue, TypeOK
    <3> QED
      BY <3>2, <3>3, ScheduleTracked
  <2>3. CASE ScanNothing(t) \/ GoIdle(t) \/ Exit(t) \/ Idle(t) \/ LeaveIdle(t)
    BY <1>0, <2>3, QuietTracked DEF ScanNothing, GoIdle, Exit, Idle, LeaveIdle
  <2>4. CASE SwapOut(t) \/ Return(t) \/ FoundWaiting(t)
    BY <1>0, <2>4, QuietTracked DEF SwapOut, Return, FoundWaiting
  <2>5. CASE SkipEnded(t) \/ Forget(t)
    <3>1. ft[t] \in Tasks /\ m_state[ft[t]] \in Ended
      BY <2>5 DEF SkipEnded, Forget, TypeOK, Placed, Busy
    <3>2. ft[t] \in finished
      BY <3>1 DEF Tracked
    <3>3. \A u \in Workers : u # t => ft'[u] = ft[u]
      BY <2>5 DEF SkipEnded, Forget, TypeOK
    <3>4. UNCHANGED <<m_fibres, submitted, finished, m_state>>
      BY <2>5 DEF SkipEnded, Forget
    <3> QED
      BY <1>0, <3>2, <3>3, <3>4, QuietTracked
  <2>6. CASE SwapIn(t)
    BY <1>0, <2>6, QuietTracked DEF SwapIn, TypeOK, Ended
  <2>7. CASE MarkHold(t)
    BY <2>7 DEF MarkHold, States
  <2> QED
    BY <1>4, <2>1, <2>2, <2>3, <2>4, <2>5, <2>6, <2>7 DEF Run
<1>5. ASSUME NEW t \in Workers, Body(t) PROVE Tracked'
  <2>1. ASSUME NEW x \in Tasks, NEW b \in Bindings, Spawn(t, x, b) PROVE Tracked'
    BY <1>2, <2>1 DEF Spawn
  <2>2. CASE Finish(t)
    BY <1>0, <2>2, QuietTracked DEF Finish, TypeOK
  <2>3. CASE YieldToReady(t) \/ YieldToHold(t)
    BY <1>0, <2>3, QuietTracked DEF YieldToReady, YieldToHold, YieldTo, TypeOK, Ended
  <2> QED
    BY <1>5, <2>1, <2>2, <2>3 DEF Body, NoSelfSchedule, ArmWaker, SwitchTo
<1>6. ASSUME NEW x \in Tasks, Wake(x) PROVE Tracked'
  BY <1>6 DEF Wake, Places
<1>7. CASE UNCHANGED vars
  BY <1>0, <1>7, QuietTracked DEF vars
<1> QED
  BY <1>1, <1>3, <1>4, <1>5, <1>6, <1>7 DEF Next, Halted

LEMMA TrackedCorrect ==
  ASSUME NoSelfSchedule
  PROVE  Spec => []Tracked
<1>1. Init => Tracked
  BY DEF Init, Tracked, Ended
<1>2. TypeInv /\ Exclusive /\ Tracked /\ [Next \/ Halted]_vars => Tracked'
  BY TrackedStep
<1> QED
  BY <1>1, <1>2, TypeInvCorrect, ExclusiveCorrect, PTL DEF Spec

------------------------------------------------------------------------------
(* Tasks bound to a thread come from the caller only.  One that a body     *)
(* binds to a thread that has left run() would stay in the list for ever.  *)
BoundByCaller == Bindings = {AnyThread} \/ "spawn" \notin BodyOps

(* A worker that will look at the list again before it leaves run(): all   *)
(* but those that found nothing after their idle fibre had ended, and the  *)
(* caller once stop() has not needed it.                                   *)
Looks(t) ==
  \/ pc[t] = "off" /\ mainpc \in {"init", "started", "stop1", "stop2"}
  \/ pc[t] \notin {"off", "exited", "dispatch"}
  \/ pc[t] = "dispatch" /\ (ft[t] # NoTask \/ ~idleTerm[t])

MayTake(t, e) == e.thread \in {AnyThread, t}

(* Every entry of the list has a worker that may take it and will look;    *)
(* workers leave run() only after stop() was called, and stop() returns    *)
(* only when all of them have left.                                        *)
Drains ==
  /\ \A i \in 1..Len(m_fibres) : \E t \in Workers : Looks(t) /\ MayTake(t, m_fibres[i])
  /\ mainpc \in {"init", "started"} => ~m_autoStop
  /\ \A t \in Workers : idleTerm[t] => m_autoStop
  /\ \A t \in Workers : pc[t] = "exited" => idleTerm[t]
  /\ mainpc # "init" => \A t \in Pool : pc[t] # "off"
  /\ mainpc \in {"join", "stopped"} /\ UseCaller => pc[Caller] \in {"off", "exited"}
  /\ mainpc = "stopped" => \A t \in Pool : pc[t] = "exited"

LEMMA EverybodyLooks ==
  ASSUME TypeInv, Drains, mainpc \in {"init", "started"}
  PROVE  Workers # {} /\ \A t \in Workers : Looks(t)
<1> USE SchedulerAssumption DEF TypeInv
<1>1. \A t \in Workers : ~idleTerm[t] /\ pc[t] # "exited"
  BY DEF Drains
<1>2. Workers # {}
  BY DEF Workers
<1> QED
  BY <1>1, <1>2 DEF Looks

(* A step of worker t inside run() that keeps it looking and adds nothing  *)
(* to the list, or something that it may take itself.                      *)
LEMMA WorkerDrains ==
  ASSUME TypeInv, Drains, NEW t \in Workers, pc[t] \notin {"off", "exited"},
         pc'[t] \notin {"off", "exited"}, Looks(t)',
         \A i \in 1..Len(m_fibres') : \/ MayTake(t, m_fibres'[i])
                                      \/ \E k \in 1..Len(m_fibres) : m_fibres'[i] = m_fibres[k],
         \A u \in Workers \ {t} : pc'[u] = pc[u] /\ ft'[u] = ft[u] /\ idleTerm'[u] = idleTerm[u],
         idleTerm'[t] => m_autoStop, UNCHANGED <<mainpc, m_autoStop>>
  PROVE  Drains'
<1> USE SchedulerAssumption
<1>1. \A u \in Pool : u \in Workers
  BY DEF Workers
<1>2. UseCaller => Caller \in Workers
  BY DEF Workers
<1>3. ASSUME NEW u \in Workers, Looks(u) PROVE Looks(u)'
  BY <1>3 DEF Looks
<1>4. ASSUME NEW i \in 1..Len(m_fibres')
      PROVE  \E u \in Workers : Looks(u)' /\ MayTake(u, m_fibres'[i])
  BY <1>3 DEF Drains
<1> QED
  BY <1>1, <1>2, <1>4 DEF Drains, MayTake

LEMMA QuietDrains ==
  ASSUME TypeInv, Drains, NEW t \in Workers, pc[t] \notin {"off", "exited"}, NEW l \in PCs,
         l \notin {"off", "exited", "dispatch"}, pc' = [pc EXCEPT ![t] = l],
         \A u \in Workers \ {t} : ft'[u] = ft[u],
         UNCHANGED <<m_fibres, idleTerm, mainpc, m_autoStop>>
  PROVE  Drains'
<1>1. pc'[t] = l /\ \A u \in Workers \ {t} : pc'[u] = pc[u]
  BY DEF TypeInv, TypeOK
<1>2. Looks(t)'
  BY <1>1 DEF Looks
<1>3. \A i \in 1..Len(m_fibres') : \E k \in 1..Len(m_fibres) : m_fibres'[i] = m_fibres[k]
  OBVIOUS
<1>4. idleTerm'[t] => m_autoStop
  BY DEF Drains
<1> QED
  BY <1>1, <1>2, <1>3, <1>4, WorkerDrains

(* A scan that takes nothing leaves nothing that the worker may take: no   *)
(* fibre in the list is executing.                                         *)
LEMMA ScanNothingLeft ==
  ASSUME TypeInv, Exclusive, NEW t \in Workers, ScanNothing(t), NEW i \in 1..Len(m_fibres)
  PROVE  ~MayTake(t, m_fibres[i])
<1> SUFFICES ASSUME MayTake(t, m_fibres[i]) PROVE FALSE
  OBVIOUS
<1> USE SchedulerAssumption DEF TypeInv, Exclusive
<1>1. m_fibres[i] \in Entry
  BY ElementOfSeq DEF TypeOK
<1>2. m_state[m_fibres[i].task] = "EXEC"
  BY DEF ScanNothing, Eligible, MayTake
<1>3. PICK u \in Workers : pc[u] = "run" /\ ft[u] = m_fibres[i].task
  BY <1>1, <1>2 DEF States, Entry
<1>4. ft[u] # NoTask
  BY <1>3 DEF Placed, Busy
<1> QED
  BY <1>3, <1>4 DEF Places, OnePlace, Queued

LEMMA DrainsStep ==
  NoSelfSchedule /\ BoundByCaller /\ TypeInv /\ Exclusive /\ Drains /\ [Next \/ Halted]_vars
    => Drains'
<1> SUFFICES ASSUME NoSelfSchedule, BoundByCaller, TypeInv, Exclusive, Drains,
                    [Next \/ Halted]_vars
             PROVE  Drains'
  OBVIOUS
<1> USE SchedulerAssumption DEF At, MainAt, sharedVars, threadVars, historyVars
<1>0. /\ TypeOK /\ Placed /\ Places /\ States
      /\ IF UseCaller THEN Workers = Pool \cup {Caller} ELSE Workers = Pool
  BY DEF TypeInv, Exclusive, Workers
<1>1. CASE Start
  <2>1. ASSUME NEW u \in Workers, Looks(u) PROVE Looks(u)'
    BY <1>0, <1>1, <2>1 DEF Start, Looks, TypeOK, Placed
  <2> QED
    BY <1>0, <1>1, <2>1 DEF Start, Drains, MayTake, TypeOK, Placed
<1>2. CASE StopRequest
  BY <1>0, <1>2 DEF StopRequest, Drains, Looks, MayTake, TypeOK, Placed
<1>3. CASE StopFlag
  <2>1. CASE mainpc' = "stop2"
    BY <1>0, <1>3, <2>1 DEF StopFlag, Drains, Looks, MayTake, TypeOK, Placed
  <2>2. CASE mainpc' = "stopped" /\ Pool = {} /\ m_fibres = <<>>
    <3>1. Len(m_fibres') = 0
      BY <1>3, <2>2, EmptySeq DEF StopFlag
    <3> QED
      BY <1>0, <1>3, <2>2, <3>1 DEF StopFlag, Drains, TypeOK, Placed
  <2> QED
    BY <1>3, <2>1, <2>2 DEF StopFlag
<1>4. CASE StopCall
  <2>1. CASE ~(UseCaller /\ Stopping)
    <3>1. ASSUME NEW u \in Workers, Looks(u) PROVE Looks(u)'
      BY <1>0, <1>4, <2>1, <3>1 DEF StopCall, Drains, Looks, TypeOK, Placed
    <3> QED
      BY <1>0, <1>4, <2>1, <3>1 DEF StopCall, Drains, MayTake, TypeOK, Placed
  <2>2. CASE UseCaller /\ Stopping
    <3>1. Len(m_fibres') = 0
      BY <1>4, <2>2, EmptySeq DEF StopCall, Stopping
    <3> QED
      BY <1>0, <1>4, <2>2, <3>1 DEF StopCall, Drains, TypeOK, Placed
  <2> QED
    BY <2>1, <2>2
<1>5. CASE RootReturn \/ Join
  <2>1. ASSUME NEW u \in Workers, Looks(u) PROVE Looks(u)'
    BY <1>5, <2>1 DEF RootReturn, Join, Looks
  <2> QED
    BY <1>0, <1>5, <2>1 DEF RootReturn, Join, Drains, MayTake
<1>6. ASSUME NEW x \in Tasks, NEW b \in Bindings, CallerSchedule(x, b) PROVE Drains'
  <2>1. Workers # {} /\ \A t \in Workers : Looks(t)'
    BY <1>6, EverybodyLooks DEF CallerSchedule, Looks
  <2>2. (x \in Callbacks) \in BOOLEAN /\ b \in Workers \cup {AnyThread}
    OBVIOUS
  <2>3. \A i \in 1..Len(m_fibres') :
          \/ m_fibres'[i].thread = b
          \/ i \in 1..Len(m_fibres) /\ m_fibres'[i] = m_fibres[i]
    <3>1. PICK c \in BOOLEAN : Schedule(x, c, b)
      BY <1>6, <2>2 DEF CallerSchedule, Submit
    <3> QED
      BY <1>0, <2>2, <3>1, ScheduleQueued
  <2>4. \A i \in 1..Len(m_fibres') : \E t \in Workers : MayTake(t, m_fibres'[i])
    BY <2>1, <2>2, <2>3 DEF Drains, MayTake
  <2> QED
    BY <1>6, <2>1, <2>4 DEF CallerSchedule, Drains, MayTake
<1>7. ASSUME NEW t \in Workers, Run(t) PROVE Drains'
  <2>1. CASE ScanTake(t)
    <3>1. PICK i \in 1..Len(m_fibres) :
             /\ m_fibres[i] \in Entry /\ ft'[t] = m_fibres[i].task
             /\ \A j \in 1..Len(m_fibres') : \E k \in 1..Len(m_fibres) : m_fibres'[j] = m_fibres[k]
      BY <1>0, <2>1, TakeQueued
    <3>2. ft'[t] # NoTask
      BY <3>1 DEF Entry
    <3>3. \A u \in Workers \ {t} : pc'[u] = pc[u] /\ ft'[u] = ft[u] /\ idleTerm'[u] = idleTerm[u]
      BY <1>0, <2>1 DEF ScanTake, TypeOK
    <3>4. /\ pc[t] = "scan" /\ pc'[t] = "dispatch" /\ (idleTerm'[t] => m_autoStop)
          /\ UNCHANGED <<mainpc, m_autoStop>>
      BY <1>0, <2>1 DEF ScanTake, Drains, TypeOK
    <3>5. Looks(t)'
      BY <3>2, <3>4 DEF Looks
    <3> QED
      BY <3>1, <3>3, <3>4, <3>5, WorkerDrains
  <2>2. CASE ScanNothing(t)
    <3>1. ASSUME NEW u \in Workers, u # t, Looks(u) PROVE Looks(u)'
      BY <1>0, <2>2, <3>1 DEF ScanNothing, Looks, TypeOK
    <3>2. ASSUME NEW i \in 1..Len(m_fibres)
          PROVE  \E u \in Workers : Looks(u)' /\ MayTake(u, m_fibres[i])
      BY <2>2, <3>1, ScanNothingLeft DEF Drains
    <3> QED
      BY <1>0, <2>2, <3>2 DEF ScanNothing, Drains, MayTake, TypeOK
  <2>3. CASE Exit(t)
    <3>1. ASSUME NEW u \in Workers, Looks(u) PROVE Looks(u)'
      BY <1>0, <2>3, <3>1 DEF Exit, Looks, TypeOK
    <3> QED
      BY <1>0, <2>3, <3>1 DEF Exit, Drains, MayTake, TypeOK
  <2>4. CASE Idle(t)
    BY <1>0, <2>4, WorkerDrains DEF Idle, Looks, Stopping, TypeOK
  <2>5. CASE SwapIn(t) \/ SkipEnded(t) \/ GoIdle(t) \/ LeaveIdle(t)
    BY <1>0, <2>5, QuietDrains DEF SwapIn, SkipEnded, GoIdle, LeaveIdle, PCs, TypeOK
  <2>6. CASE SwapOut(t) \/ Return(t) \/ FoundWaiting(t)
    BY <1>0, <2>6, QuietDrains DEF SwapOut, Return, FoundWaiting, PCs
  <2>7. CASE Requeue(t)
    <3>1. PICK x \in Tasks : x = ft[t]
      BY <1>0, <2>7 DEF Requeue, Placed, Busy
    <3>2. Schedule(x, FALSE, AnyThread)
      BY <2>7, <3>1 DEF Requeue
    <3>3. \A i \in 1..Len(m_fibres') : \/ MayTake(t, m_fibres'[i])
                                       \/ \E k \in 1..Len(m_fibres) : m_fibres'[i] = m_fibres[k]
      BY <1>0, <3>2, ScheduleQueued DEF MayTake
    <3>4. \A u \in Workers \ {t} : pc'[u] = pc[u] /\ ft'[u] = ft[u] /\ idleTerm'[u] = idleTerm[u]
      BY <1>0, <2>7 DEF Requeue, TypeOK
    <3>5. /\ pc[t] = "post" /\ pc'[t] = "scan" /\ (idleTerm'[t] => m_autoStop)
          /\ UNCHANGED <<mainpc, m_autoStop>>
      BY <1>0, <2>7 DEF Requeue, Drains, TypeOK
    <3>6. Looks(t)'
      BY <3>5 DEF Looks
    <3> QED
      BY <3>3, <3>4, <3>5, <3>6, WorkerDrains
  <2>8. CASE Forget(t) \/ MarkHold(t)
    BY <1>0, <2>8, QuietDrains DEF Forget, MarkHold, PCs, TypeOK
  <2> QED
    BY <1>7, <2>1, <2>2, <2>3, <2>4, <2>5, <2>6, <2>7, <2>8 DEF Run
<1>8. ASSUME NEW t \in Workers, Body(t) PROVE Drains'
  <2>1. ASSUME NEW x \in Tasks, NEW b \in Bindings, Spawn(t, x, b) PROVE Drains'
    <3>1. (x \in Callbacks) \in BOOLEAN /\ b = AnyThread
      BY <2>1 DEF Spawn, BoundByCaller
    <3>2. \A i \in 1..Len(m_fibres') : \/ MayTake(t, m_fibres'[i])
                                       \/ \E k \in 1..Len(m_fibres) : m_fibres'[i] = m_fibres[k]
      <4>1. PICK c \in BOOLEAN : Schedule(x, c, AnyThread)
        BY <2>1, <3>1 DEF Spawn, Submit
      <4> QED
        BY <1>0, <3>1, <4>1, ScheduleQueued DEF MayTake
    <3> QED
      BY <1>0, <2>1, <3>2, WorkerDrains DEF Spawn, Looks, Drains, TypeOK
  <2>2. CASE Finish(t)
    BY <1>0, <2>2, QuietDrains DEF Finish, PCs
  <2>3. CASE YieldToReady(t) \/ YieldToHold(t)
    BY <1>0, <2>3, QuietDrains DEF YieldToReady, YieldToHold, YieldTo, PCs
  <2> QED
    BY <1>8, <2>1, <2>2, <2>3 DEF Body, NoSelfSchedule, ArmWaker, SwitchTo
<1>9. ASSUME NEW x \in Tasks, Wake(x) PROVE Drains'
  BY <1>0, <1>9 DEF Wake, Places
<1>10. CASE UNCHANGED vars
  BY <1>10 DEF vars, Drains, Looks, MayTake
<1> QED
  BY <1>1, <1>2, <1>3, <1>4, <1>5, <1>6, <1>7, <1>8, <1>9, <1>10 DEF Next, Main, Halted

(* With exact counts, stopping() sees every task that is not put back. *)
LEMMA StoppingSound ==
  ASSUME TypeInv, Exclusive, Tracked, CountsExact
  PROVE  StoppingMeansDone
<1> SUFFICES ASSUME Stopping, NEW x \in submitted, x \notin wakers \cup finished
             PROVE  PutBack(x)
  BY DEF StoppingMeansDone
<1> USE SchedulerAssumption DEF TypeInv
<1>1. ~Queued(x)
  BY EmptySeq DEF Stopping, Queued
<1>2. PICK t \in Workers : ft[t] = x
  BY <1>1 DEF Tracked, Held
<1>3. x # NoTask
  BY DEF TypeOK
<1>4. IsFiniteSet({u \in Workers : Counted(u)})
  <2>1. IsFiniteSet(Workers)
    BY FS_EmptySet, FS_Singleton, FS_Union DEF Workers
  <2> QED
    BY <2>1, FS_Subset
<1>5. {u \in Workers : Counted(u)} = {}
  BY <1>4, FS_EmptySet DEF Stopping, CountsExact
<1>6. ~Counted(t)
  BY <1>5
<1> QED
  BY <1>2, <1>3, <1>6 DEF Counted, PutBack

(* No task is lost: run() keeps every one in sight, stopping() waits for   *)
(* all of them, and stop() leaves none behind, for any number of threads   *)
(* and tasks, with or without the caller as a worker, as long as no body   *)
(* gives its own fibre away before it yields or binds a task to a thread.  *)
THEOREM NothingLostCorrect ==
  ASSUME NoSelfSchedule, BoundByCaller
  PROVE  Spec => []NothingLost
<1>1. Init => Drains
  <2> SUFFICES ASSUME Init PROVE Drains
    OBVIOUS
  <2>1. Len(m_fibres) = 0
    BY EmptySeq DEF Init
  <2> QED
    BY <2>1, SchedulerAssumption DEF Init, Drains, Workers
<1>2. TypeInv /\ Exclusive /\ Tracked /\ Drains /\ [Next \/ Halted]_vars => Drains'
  BY DrainsStep
<1>3. TypeInv /\ Exclusive /\ CountsExact /\ Tracked /\ Drains => NothingLost
  <2> SUFFICES ASSUME TypeInv, Exclusive, CountsExact, Tracked, Drains PROVE NothingLost
    OBVIOUS
  <2>1. NoTaskDropped
    BY DEF Tracked, NoTaskDropped
  <2>2. StoppingMeansDone
    BY StoppingSound
  <2>3. ASSUME mainpc = "stopped" PROVE m_fibres = <<>> /\ submitted \ wakers \subseteq finished
    <3>1. \A t \in Workers : pc[t] \in {"off", "exited"}
      BY <2>3, SchedulerAssumption DEF Drains, Workers
    <3>2. ~ \E i \in 1..Len(m_fibres) : TRUE
      BY <2>3, <3>1 DEF Drains, Looks
    <3>3. m_fibres \in Seq(Entry)
      BY DEF TypeInv, TypeOK
    <3>4. Len(m_fibres) = 0
      BY <3>2, <3>3, LenProperties
    <3>5. m_fibres = <<>>
      BY <3>3, <3>4, EmptySeq
    <3>6. \A t \in Workers : ft[t] = NoTask
      BY <3>1 DEF TypeInv, Placed, Empty
    <3>7. \A x \in submitted : ~Queued(x) /\ ~Held(x)
      BY <3>2, <3>6, SchedulerAssumption DEF Queued, Held, TypeInv, TypeOK
    <3> QED
      BY <3>5, <3>7 DEF Tracked
  <2> QED
    BY <2>1, <2>2, <2>3 DEF NothingLost, StopDrains, TypeInv
<1> QED
  BY <1>1, <1>2, <1>3, TypeInvCorrect, ExclusiveCorrect, CountsCorrect, TrackedCorrect, PTL DEF Spec

------------------------------------------------------------------------------
(* The task pool.  How far a task has come agrees with its fibre's state:  *)
(* one not handed over is INIT, one that has ended stays so, and one that  *)
(* is READY is bound to nobody once its worker has let go of it.           *)
Leaving(x) == \E t \in Workers : ft[t] = x /\ pc[t] \in {"swapOut", "return", "post"}
Lives ==
  /\ \A x \in Tasks \ submitted : m_state[x] = "INIT"
  /\ \A x \in finished : x \in submitted /\ m_state[x] \in Ended
  /\ \A x \in Tasks : m_state[x] = "READY" => binding[x] = AnyThread \/ Leaving(x)

(* A step that leaves states and bindings alone and lets nobody out of     *)
(* the part of run() that follows a yield.                                 *)
LEMMA QuietLives ==
  ASSUME Lives, UNCHANGED <<m_state, binding, submitted, finished>>,
         \A t \in Workers : pc[t] \in {"swapOut", "return", "post"} =>
            \/ ft'[t] = ft[t] /\ pc'[t] \in {"swapOut", "return", "post"}
            \/ m_state[ft[t]] # "READY"
  PROVE  Lives'
<1>1. \A x \in Tasks : m_state[x] = "READY" /\ Leaving(x) => Leaving(x)'
  BY DEF Leaving
<1> QED
  BY <1>1 DEF Lives

LEMMA LivesStep ==
  NoSelfSchedule /\ TypeInv /\ Exclusive /\ Lives /\ [Next \/ Halted]_vars => Lives'
<1> SUFFICES ASSUME NoSelfSchedule, TypeOK, Placed, Places, States, Lives, [Next \/ Halted]_vars
             PROVE  Lives'
  BY DEF TypeInv, Exclusive
<1> USE SchedulerAssumption DEF At, MainAt, sharedVars, threadVars, historyVars
<1>a. \A t, u \in Workers : ft[t] # NoTask /\ ft[t] = ft[u] => t = u
  BY DEF Places, OnePlace
<1>1. CASE Main
  <2>1. CASE Start
    BY <2>1, QuietLives DEF Start, TypeOK, Placed
  <2>2. CASE StopCall
    BY <2>2, QuietLives DEF StopCall, TypeOK, Placed, Workers
  <2>3. CASE StopRequest \/ StopFlag \/ RootReturn \/ Join
    BY <2>3, QuietLives DEF StopRequest, StopFlag, RootReturn, Join
  <2> QED
    BY <1>1, <2>1, <2>2, <2>3 DEF Main
<1>2. ASSUME NEW x \in Tasks, NEW b \in Bindings, Submit(x, b), UNCHANGED <<ft, pc, finished, m_state>>
      PROVE  Lives'
  <2>1. m_state[x] = "INIT" /\ \A y \in Tasks : y # x => binding'[y] = binding[y]
    BY <1>2 DEF Submit, Lives, TypeOK
  <2>2. \A y : Leaving(y)' <=> Leaving(y)
    BY <1>2 DEF Leaving
  <2> QED
    BY <1>2, <2>1, <2>2 DEF Submit, Lives
<1>3. ASSUME NEW x \in Tasks, NEW b \in Bindings, CallerSchedule(x, b) PROVE Lives'
  BY <1>2, <1>3 DEF CallerSchedule
<1>4. ASSUME NEW t \in Workers, Run(t) PROVE Lives'
  <2>1. CASE ScanTake(t) \/ ScanNothing(t) \/ GoIdle(t) \/ Exit(t) \/ Idle(t) \/ LeaveIdle(t)
    <3>1. UNCHANGED <<m_state, binding, submitted, finished>>
      BY <2>1 DEF ScanTake, ScanNothing, GoIdle, Exit, Idle, LeaveIdle
    <3>2. pc[t] \notin {"swapOut", "return", "post"}
      BY <2>1 DEF ScanTake, ScanNothing, GoIdle, Exit, Idle, LeaveIdle
    <3>3. \A u \in Workers : u # t => pc'[u] = pc[u] /\ ft'[u] = ft[u]
      BY <2>1 DEF ScanTake, ScanNothing, GoIdle, Exit, Idle, LeaveIdle, TypeOK
    <3> QED
      BY <3>1, <3>2, <3>3, QuietLives
  <2>2. CASE SkipEnded(t)
    BY <2>2, QuietLives DEF SkipEnded, TypeOK
  <2>3. CASE SwapOut(t) \/ Return(t)
    BY <2>3, QuietLives DEF SwapOut, Return, TypeOK
  <2>4. CASE Forget(t)
    BY <2>4, QuietLives DEF Forget, TypeOK, Ended
  <2>5. CASE SwapIn(t)
    <3>1. PICK x \in Tasks : x = ft[t] /\ x \in submitted
      BY <2>5 DEF SwapIn, TypeOK, Places
    <3>2. \A y \in Tasks : m_state'[y] = IF y = x THEN "EXEC" ELSE m_state[y]
      BY <2>5, <3>1 DEF SwapIn, TypeOK
    <3>3. x \notin finished /\ UNCHANGED <<submitted, finished, binding>>
      BY <2>5, <3>1 DEF SwapIn, Lives
    <3>4. \A y \in Tasks : y # x /\ Leaving(y) => Leaving(y)'
      BY <2>5, <3>1 DEF SwapIn, TypeOK, Leaving
    <3>5. finished \subseteq Tasks
      BY DEF TypeOK
    <3> QED
      BY <3>1, <3>2, <3>3, <3>4, <3>5 DEF Lives
  <2>6. CASE Requeue(t)
    <3>1. PICK x \in Tasks : x = ft[t]
      BY <2>6 DEF Requeue, Placed, Busy
    <3>2. \A y \in Tasks : binding'[y] = IF y = x THEN AnyThread ELSE binding[y]
      BY <2>6, <3>1 DEF Requeue, TypeOK
    <3>3. UNCHANGED <<m_state, submitted, finished>>
      BY <2>6 DEF Requeue
    <3>4. \A y \in Tasks : y # x /\ Leaving(y) => Leaving(y)'
      BY <2>6, <3>1 DEF Requeue, TypeOK, Leaving
    <3> QED
      BY <3>2, <3>3, <3>4 DEF Lives
  <2>7. CASE FoundWaiting(t)
    BY <2>7 DEF FoundWaiting, States
  <2>8. CASE MarkHold(t)
    BY <2>8 DEF MarkHold, States
  <2> QED
    BY <1>4, <2>1, <2>2, <2>3, <2>4, <2>5, <2>6, <2>7, <2>8 DEF Run
<1>5. ASSUME NEW t \in Workers, Body(t) PROVE Lives'
  <2>1. ASSUME NEW x \in Tasks, NEW b \in Bindings, Spawn(t, x, b) PROVE Lives'
    BY <1>2, <2>1 DEF Spawn
  <2>2. CASE Finish(t)
    <3>1. PICK x \in Tasks : x = ft[t] /\ x \in submitted
      BY <2>2 DEF Finish, Placed, Busy, Places
    <3>2. PICK s \in Ended : \A y \in Tasks : m_state'[y] = IF y = x THEN s ELSE m_state[y]
      BY <2>2, <3>1 DEF Finish, TypeOK
    <3>3. finished' = finished \cup {x} /\ UNCHANGED <<submitted, binding>>
      BY <2>2, <3>1 DEF Finish
    <3>4. \A y \in Tasks : y # x /\ Leaving(y) => Leaving(y)'
      BY <2>2, <3>1 DEF Finish, TypeOK, Leaving
    <3>5. finished \subseteq Tasks /\ s # "READY"
      BY DEF TypeOK, Ended
    <3> QED
      BY <3>1, <3>2, <3>3, <3>4, <3>5 DEF Lives
  <2>3. CASE YieldToReady(t)
    <3>1. PICK x \in Tasks : x = ft[t] /\ x \in submitted
      BY <2>3 DEF YieldToReady, Placed, Busy, Places
    <3>2. \A y \in Tasks : m_state'[y] = IF y = x THEN "READY" ELSE m_state[y]
      BY <2>3, <3>1 DEF YieldToReady, YieldTo, TypeOK
    <3>3. UNCHANGED <<submitted, binding, finished>>
      BY <2>3 DEF YieldToReady, YieldTo
    <3>4. x \notin finished
      BY <2>3, <3>1 DEF YieldToReady, States, Lives, Ended
    <3>5. \A y \in Tasks : y # x /\ Leaving(y) => Leaving(y)'
      BY <2>3, <3>1 DEF YieldToReady, YieldTo, TypeOK, Leaving
    <3>6. Leaving(x)'
      BY <2>3, <3>1 DEF YieldToReady, YieldTo, TypeOK, Leaving
    <3>7. finished \subseteq Tasks
      BY DEF TypeOK
    <3> QED
      BY <3>1, <3>2, <3>3, <3>4, <3>5, <3>6, <3>7 DEF Lives
  <2>4. ~YieldToHold(t)
    BY DEF YieldToHold, States
  <2> QED
    BY <1>5, <2>1, <2>2, <2>3, <2>4 DEF Body, NoSelfSchedule, ArmWaker, SwitchTo
<1>6. ASSUME NEW x \in Tasks, Wake(x) PROVE Lives'
  BY <1>6 DEF Wake, Places
<1>7. CASE UNCHANGED vars
  BY <1>7, QuietLives DEF vars
<1> QED
  BY <1>1, <1>3, <1>4, <1>5, <1>6, <1>7 DEF Next, Halted

LEMMA LivesCorrect ==
  ASSUME NoSelfSchedule
  PROVE  Spec => []Lives
<1>1. Init => Lives
  BY DEF Init, Lives
<1>2. TypeInv /\ Exclusive /\ Lives /\ [Next \/ Halted]_vars => Lives'
  BY LivesStep
<1> QED
  BY <1>1, <1>2, TypeInvCorrect, ExclusiveCorrect, PTL DEF Spec

(* What the refinement needs of a state. *)
PoolInv ==
  /\ TypeOK /\ Placed /\ Places /\ States
  /\ Bound /\ Tracked /\ Lives /\ StopDrains

(* The tasks in the list or in hand are those handed over and not ended. *)
Unended == {x \in submitted \ finished : ~OnThread(x)}

LEMMA WaitingIsUnended == PoolInv => Waiting = Unended
<1> SUFFICES ASSUME PoolInv PROVE Waiting = Unended
  OBVIOUS
<1>1. submitted \subseteq Tasks
  BY DEF PoolInv, TypeOK
<1>2. ASSUME NEW x \in Tasks \ finished, Queued(x) \/ Held(x) PROVE x \in submitted
  BY <1>2, SchedulerAssumption DEF PoolInv, Places, Queued, Held
<1>3. \A x \in submitted \ finished : Queued(x) \/ Held(x)
  BY DEF PoolInv, Tracked
<1> QED
  BY <1>1, <1>2, <1>3 DEF Waiting, Unended

(* A task on a thread has not ended, so stop() has not returned. *)
LEMMA RunningIsOpen ==
  ASSUME PoolInv, NEW t \in Workers, pc[t] = "run"
  PROVE  /\ ft[t] \in submitted \ finished /\ ft[t] \in Tasks /\ m_state[ft[t]] = "EXEC"
         /\ \A u \in Workers : ft[u] = ft[t] => u = t
         /\ mainpc # "stopped"
<1>1. ft[t] \in Tasks /\ m_state[ft[t]] = "EXEC"
  BY DEF PoolInv, Placed, Busy, States
<1>2. ft[t] \in submitted /\ ft[t] # NoTask
  BY <1>1, SchedulerAssumption DEF PoolInv, Places
<1>3. ft[t] \notin finished
  BY <1>1 DEF PoolInv, Lives, Ended
<1>4. \A u \in Workers : ft[u] = ft[t] => u = t
  BY <1>2 DEF PoolInv, Places, OnePlace
<1> QED
  BY <1>1, <1>2, <1>3, <1>4 DEF PoolInv, Places, StopDrains

(* A step that puts nobody on or off a stack changes nothing of the pool. *)
LEMMA QuietPool ==
  ASSUME PoolInv, PoolInv', Waiting = Unended, Waiting' = Unended',
         UNCHANGED <<submitted, finished>>, BoundTo' = BoundTo,
         \A t \in Workers : (pc'[t] = "run" <=> pc[t] = "run") /\ (pc[t] = "run" => ft'[t] = ft[t]),
         mainpc' = "stopped" <=> mainpc = "stopped"
  PROVE  UNCHANGED Promise!poolVars
<1>1. Running' = Running
  BY DEF Running
<1>2. \A x : OnThread(x)' <=> OnThread(x)
  BY DEF OnThread
<1>3. Unended' = Unended
  BY <1>2 DEF Unended
<1>4. (mainpc = "stopped")' = (mainpc = "stopped")
  OBVIOUS
<1> QED
  BY <1>1, <1>3, <1>4 DEF Promise!poolVars

LEMMA SubmitRefines ==
  ASSUME PoolInv, Waiting = Unended, Waiting' = Unended',
         NEW x \in Tasks, NEW b \in Bindings, Submit(x, b), mainpc # "stopped",
         UNCHANGED <<pc, ft, mainpc, finished, m_state>>
  PROVE  Promise!Next
<1>1. b \in Workers \cup {AnyThread}
  BY SchedulerAssumption
<1>2. x \notin submitted /\ submitted' = submitted \cup {x} /\ x \notin finished
  BY DEF Submit, PoolInv, Lives
<1>3. \A t \in Workers : ft[t] # x
  BY <1>2, SchedulerAssumption DEF PoolInv, Places
<1>4. Waiting' = Waiting \cup {x} /\ x \notin Waiting
  BY <1>2, <1>3 DEF Unended, OnThread
<1>5. BoundTo' = [BoundTo EXCEPT ![x] = b]
  BY <1>2 DEF BoundTo, Submit, PoolInv, Lives, TypeOK
<1>6. Running' = Running /\ \A t \in Workers : Running[t] # x
  BY <1>3, SchedulerAssumption DEF Running
<1>7. Promise!Submit(x, b)
  BY <1>2, <1>4, <1>5, <1>6 DEF Promise!Submit
<1> QED
  BY <1>1, <1>7 DEF Promise!Next

LEMMA SwapInRefines ==
  ASSUME PoolInv, Waiting = Unended, Waiting' = Unended', NEW t \in Workers, SwapIn(t)
  PROVE  Promise!Next
<1> USE DEF At, historyVars
<1>1. PICK x \in Tasks : x = ft[t] /\ x # NoTask /\ x \in submitted
  BY SchedulerAssumption DEF SwapIn, PoolInv, TypeOK, Places
<1>2. pc[t] = "dispatch" /\ m_state[x] \notin Ended
  BY <1>1 DEF SwapIn
<1>3. x \notin finished
  BY <1>2 DEF PoolInv, Lives
<1>4. \A u \in Workers : ft[u] = x => u = t
  BY <1>1 DEF PoolInv, Places, OnePlace
<1>5. /\ \A u \in Workers : pc'[u] = IF u = t THEN "run" ELSE pc[u]
      /\ UNCHANGED <<ft, submitted, finished, binding, mainpc>>
  BY DEF SwapIn, PoolInv, TypeOK
<1>6. x \in Waiting
  BY <1>1, <1>2, <1>3, <1>4 DEF Unended, OnThread
<1>7. \A y : OnThread(y)' <=> OnThread(y) \/ y = x
  BY <1>1, <1>2, <1>4, <1>5 DEF OnThread
<1>8. Waiting' = Waiting \ {x}
  BY <1>5, <1>7 DEF Unended
<1>9. Running[t] = NoTask
  BY <1>2 DEF Running
<1>10. Running' = [Running EXCEPT ![t] = x]
  BY <1>1, <1>5 DEF Running
<1>11. BoundTo[x] \in {AnyThread, t}
  BY <1>1, <1>2 DEF BoundTo, PoolInv, Bound, DispatchedWhereBound
<1>12. m_state[x] = "READY" => binding[x] = AnyThread
  BY <1>1, <1>2, <1>4 DEF PoolInv, Lives, Leaving
<1>13. \A y \in Tasks : m_state'[y] = IF y = x THEN "EXEC" ELSE m_state[y]
  BY <1>1 DEF SwapIn, PoolInv, TypeOK
<1>14. BoundTo' = BoundTo
  BY <1>5, <1>12, <1>13 DEF BoundTo
<1>15. mainpc # "stopped"
  BY <1>1, <1>3 DEF PoolInv, StopDrains, Places
<1>16. Promise!Begin(t, x)
  BY <1>5, <1>6, <1>8, <1>9, <1>10, <1>11, <1>14, <1>15 DEF Promise!Begin
<1> QED
  BY <1>16 DEF Promise!Next

(* Leaving the stack, by a yield or at the end of the body. *)
LEMMA OffThread ==
  ASSUME PoolInv, NEW t \in Workers, pc[t] = "run", ft' = ft,
         NEW l, l # "run", pc' = [pc EXCEPT ![t] = l]
  PROVE  /\ \A y : OnThread(y)' <=> OnThread(y) /\ y # ft[t]
         /\ Running' = [Running EXCEPT ![t] = NoTask]
         /\ Running[t] = ft[t]
         /\ OnThread(ft[t])
<1>1. \A u \in Workers : pc'[u] = IF u = t THEN l ELSE pc[u]
  BY DEF PoolInv, TypeOK
<1>2. \A u \in Workers : ft[u] = ft[t] => u = t
  BY RunningIsOpen
<1>3. \A y : OnThread(y)' <=> OnThread(y) /\ y # ft[t]
  BY <1>1, <1>2 DEF OnThread
<1>4. Running[t] = ft[t] /\ OnThread(ft[t])
  BY DEF Running, OnThread
<1>5. Running' = [Running EXCEPT ![t] = NoTask]
  BY <1>1 DEF Running
<1> QED
  BY <1>3, <1>4, <1>5

LEMMA FinishRefines ==
  ASSUME PoolInv, Waiting = Unended, Waiting' = Unended', NEW t \in Workers, Finish(t)
  PROVE  Promise!Next
<1> USE DEF At
<1>1. pc[t] = "run" /\ pc' = [pc EXCEPT ![t] = "return"] /\ UNCHANGED <<ft, submitted, binding, mainpc>>
  BY DEF Finish
<1>2. PICK x \in Tasks : x = ft[t] /\ x \in submitted \ finished /\ m_state[x] = "EXEC"
  BY <1>1, RunningIsOpen
<1>3. mainpc # "stopped" /\ x # NoTask
  BY <1>1, <1>2, RunningIsOpen, SchedulerAssumption
<1>4. /\ \A y : OnThread(y)' <=> OnThread(y) /\ y # x
      /\ Running' = [Running EXCEPT ![t] = NoTask]
      /\ Running[t] = x
      /\ OnThread(x)
  BY <1>1, <1>2, OffThread
<1>5. finished' = finished \cup {x}
  BY <1>2 DEF Finish
<1>6. Waiting' = Waiting
  BY <1>1, <1>4, <1>5 DEF Unended
<1>7. PICK s \in Ended : \A y \in Tasks : m_state'[y] = IF y = x THEN s ELSE m_state[y]
  BY <1>2 DEF Finish, PoolInv, TypeOK
<1>8. BoundTo' = BoundTo
  BY <1>1, <1>2, <1>7 DEF BoundTo, Ended
<1>9. Promise!End(t)
  BY <1>1, <1>3, <1>4, <1>5, <1>6, <1>8 DEF Promise!End
<1> QED
  BY <1>9 DEF Promise!Next

LEMMA YieldRefines ==
  ASSUME PoolInv, Waiting = Unended, Waiting' = Unended', NEW t \in Workers, YieldToReady(t)
  PROVE  Promise!Next
<1> USE DEF At
<1>1. /\ pc[t] = "run" /\ pc' = [pc EXCEPT ![t] = "swapOut"]
      /\ UNCHANGED <<ft, submitted, finished, binding, mainpc>>
  BY DEF YieldToReady, YieldTo
<1>2. PICK x \in Tasks : x = ft[t] /\ x \in submitted \ finished
  BY <1>1, RunningIsOpen
<1>3. mainpc # "stopped" /\ x # NoTask
  BY <1>1, <1>2, RunningIsOpen, SchedulerAssumption
<1>4. /\ \A y : OnThread(y)' <=> OnThread(y) /\ y # x
      /\ Running' = [Running EXCEPT ![t] = NoTask]
      /\ Running[t] = x
      /\ OnThread(x)
  BY <1>1, <1>2, OffThread
<1>5. Waiting' = Waiting \cup {x}
  BY <1>1, <1>2, <1>4 DEF Unended
<1>6. \A y \in Tasks : m_state'[y] = IF y = x THEN "READY" ELSE m_state[y]
  BY <1>2 DEF YieldToReady, YieldTo, PoolInv, TypeOK
<1>7. BoundTo' = [BoundTo EXCEPT ![x] = AnyThread]
  BY <1>1, <1>6 DEF BoundTo
<1>8. Promise!Yield(t)
  BY <1>1, <1>3, <1>4, <1>5, <1>7 DEF Promise!Yield
<1> QED
  BY <1>8 DEF Promise!Next

(* stop() returns, from its early return or after the last join. *)
LEMMA CloseRefines ==
  ASSUME PoolInv, PoolInv', Waiting = Unended, Waiting' = Unended',
         mainpc # "stopped", mainpc' = "stopped",
         UNCHANGED <<m_state, pc, ft, wakers, submitted, binding, finished>>
  PROVE  Promise!Next
<1>1. submitted \subseteq finished
  BY DEF PoolInv, StopDrains, Places
<1>2. \A t \in Workers : pc[t] # "run"
  BY <1>1, RunningIsOpen
<1>3. Waiting = {} /\ Waiting' = {}
  BY <1>1 DEF Unended
<1>4. Running' = Running /\ \A t \in Workers : Running[t] = NoTask
  BY <1>2 DEF Running
<1>5. BoundTo' = BoundTo
  BY DEF BoundTo
<1>6. Promise!Close
  BY <1>3, <1>4, <1>5 DEF Promise!Close
<1> QED
  BY <1>6 DEF Promise!Next

(* Every step of the scheduler is one of the pool, or a stutter. *)
LEMMA PoolStep ==
  ASSUME NoSelfSchedule, PoolInv, PoolInv', Waiting = Unended, Waiting' = Unended',
         [Next \/ Halted]_vars
  PROVE  [Promise!Next]_(Promise!poolVars)
<1> USE SchedulerAssumption DEF At, MainAt, sharedVars, threadVars, historyVars
<1>0. TypeOK /\ Placed /\ States
  BY DEF PoolInv
<1>1. CASE Main
  <2>1. CASE Start
    <3>1. \A t \in Workers : pc[t] # "run" /\ pc'[t] # "run"
      BY <1>0, <2>1 DEF Start, Placed
    <3>2. BoundTo' = BoundTo /\ UNCHANGED <<submitted, finished>>
      BY <2>1 DEF Start, BoundTo
    <3> QED
      BY <2>1, <3>1, <3>2, QuietPool DEF Start
  <2>2. CASE StopCall
    <3>1. \A t \in Workers : pc'[t] = pc[t] \/ (pc[t] = "off" /\ pc'[t] = "scan")
      BY <1>0, <2>2 DEF StopCall, Placed, TypeOK, Workers
    <3>2. BoundTo' = BoundTo /\ UNCHANGED <<submitted, finished, ft>>
      BY <2>2 DEF StopCall, BoundTo
    <3> QED
      BY <2>2, <3>1, <3>2, QuietPool DEF StopCall
  <2>3. CASE StopRequest \/ RootReturn \/ (StopFlag /\ mainpc' # "stopped")
    <3>1. BoundTo' = BoundTo /\ UNCHANGED <<submitted, finished, pc, ft>>
      BY <2>3 DEF StopRequest, StopFlag, RootReturn, BoundTo
    <3>2. mainpc # "stopped" /\ mainpc' # "stopped"
      BY <2>3 DEF StopRequest, StopFlag, RootReturn
    <3> QED
      BY <3>1, <3>2, QuietPool
  <2>4. CASE Join \/ (StopFlag /\ mainpc' = "stopped")
    BY <2>4, CloseRefines DEF Join, StopFlag
  <2> QED
    BY <1>1, <2>1, <2>2, <2>3, <2>4 DEF Main
<1>2. ASSUME NEW x \in Tasks, NEW b \in Bindings, CallerSchedule(x, b) PROVE Promise!Next
  BY <1>2, SubmitRefines DEF CallerSchedule
<1>3. ASSUME NEW t \in Workers, Run(t) PROVE [Promise!Next]_(Promise!poolVars)
  <2>1. ASSUME BoundTo' = BoundTo, UNCHANGED <<submitted, finished, mainpc>>,
               pc[t] # "run", pc'[t] # "run",
               \A u \in Workers : u # t => pc'[u] = pc[u] /\ ft'[u] = ft[u]
        PROVE  UNCHANGED Promise!poolVars
    BY <2>1, QuietPool
  <2>2. CASE ScanTake(t) \/ ScanNothing(t) \/ GoIdle(t) \/ Exit(t) \/ Idle(t) \/ LeaveIdle(t)
    <3>1. BoundTo' = BoundTo /\ UNCHANGED <<submitted, finished, mainpc>>
      BY <2>2 DEF ScanTake, ScanNothing, GoIdle, Exit, Idle, LeaveIdle, BoundTo
    <3>2. pc[t] # "run" /\ pc'[t] # "run"
      BY <1>0, <2>2 DEF ScanTake, ScanNothing, GoIdle, Exit, Idle, LeaveIdle, TypeOK
    <3>3. \A u \in Workers : u # t => pc'[u] = pc[u] /\ ft'[u] = ft[u]
      BY <1>0, <2>2 DEF ScanTake, ScanNothing, GoIdle, Exit, Idle, LeaveIdle, TypeOK
    <3> QED
      BY <2>1, <3>1, <3>2, <3>3
  <2>3. CASE SkipEnded(t) \/ SwapOut(t) \/ Return(t) \/ Forget(t)
    <3>1. BoundTo' = BoundTo /\ UNCHANGED <<submitted, finished, mainpc>>
      BY <2>3 DEF SkipEnded, SwapOut, Return, Forget, BoundTo
    <3>2. pc[t] # "run" /\ pc'[t] # "run"
      BY <1>0, <2>3 DEF SkipEnded, SwapOut, Return, Forget, TypeOK
    <3>3. \A u \in Workers : u # t => pc'[u] = pc[u] /\ ft'[u] = ft[u]
      BY <1>0, <2>3 DEF SkipEnded, SwapOut, Return, Forget, TypeOK
    <3> QED
      BY <2>1, <3>1, <3>2, <3>3
  <2>4. CASE Requeue(t)
    <3>1. PICK x \in Tasks : x = ft[t] /\ m_state[x] = "READY"
      BY <1>0, <2>4 DEF Requeue, Placed, Busy
    <3>2. \A y \in Tasks : y # x => binding'[y] = binding[y]
      BY <1>0, <2>4, <3>1 DEF Requeue, TypeOK
    <3>3. BoundTo' = BoundTo /\ UNCHANGED <<submitted, finished, mainpc>>
      BY <2>4, <3>1, <3>2 DEF Requeue, BoundTo
    <3>4. pc[t] # "run" /\ pc'[t] # "run"
      BY <1>0, <2>4 DEF Requeue, TypeOK
    <3>5. \A u \in Workers : u # t => pc'[u] = pc[u] /\ ft'[u] = ft[u]
      BY <1>0, <2>4 DEF Requeue, TypeOK
    <3> QED
      BY <2>1, <3>3, <3>4, <3>5
  <2>5. CASE SwapIn(t)
    BY <2>5, SwapInRefines
  <2>6. ~FoundWaiting(t) /\ ~MarkHold(t)
    BY <1>0 DEF FoundWaiting, MarkHold, States
  <2> QED
    BY <1>3, <2>2, <2>3, <2>4, <2>5, <2>6 DEF Run
<1>4. ASSUME NEW t \in Workers, Body(t) PROVE Promise!Next
  <2>1. ASSUME NEW x \in Tasks, NEW b \in Bindings, Spawn(t, x, b) PROVE Promise!Next
    <3>1. mainpc # "stopped"
      BY <2>1, RunningIsOpen DEF Spawn
    <3> QED
      BY <2>1, <3>1, SubmitRefines DEF Spawn
  <2>2. CASE Finish(t)
    BY <2>2, FinishRefines
  <2>3. CASE YieldToReady(t)
    BY <2>3, YieldRefines
  <2>4. ~YieldToHold(t) /\ ~ArmWaker(t) /\ \A b \in Bindings : ~SwitchTo(t, b)
    BY <1>0 DEF NoSelfSchedule, YieldToHold, ArmWaker, SwitchTo, States
  <2> QED
    BY <1>4, <2>1, <2>2, <2>3, <2>4 DEF Body
<1>5. \A x \in Tasks : ~Wake(x)
  BY DEF Wake, PoolInv, Places
<1>6. CASE UNCHANGED vars
  <2>1. BoundTo' = BoundTo
    BY <1>6 DEF vars, BoundTo
  <2> QED
    BY <1>6, <2>1, QuietPool DEF vars
<1> QED
  BY <1>1, <1>2, <1>3, <1>4, <1>5, <1>6 DEF Next, Halted

LEMMA PoolStart == Init => Promise!Init
<1> SUFFICES ASSUME Init PROVE Promise!Init
  OBVIOUS
<1>1. Len(m_fibres) = 0
  BY EmptySeq DEF Init
<1>2. \A x \in Tasks : ~Queued(x) /\ ~Held(x)
  BY <1>1, SchedulerAssumption DEF Init, Queued, Held
<1>3. Waiting = {}
  BY <1>2 DEF Waiting
<1>4. Running = [t \in Workers |-> NoTask]
  BY DEF Init, Running
<1>5. BoundTo = [x \in Tasks |-> AnyThread]
  BY DEF Init, BoundTo
<1> QED
  BY <1>3, <1>4, <1>5 DEF Init, Promise!Init

(* The scheduler is a task pool: for any number of threads and tasks, with *)
(* or without the caller as a worker, run() runs every task once, to its   *)
(* end, in one thread at a time and in the one it was bound to until it    *)
(* first yields, and when stop() has returned nothing is left; as long as  *)
(* no body gives its own fibre away before it yields or binds a task.      *)
THEOREM RunsOnceCorrect ==
  ASSUME NoSelfSchedule, BoundByCaller
  PROVE  Spec => RunsOnce
<1>1. NothingLost => StopDrains
  BY DEF NothingLost
<1>2. TypeInv /\ Exclusive /\ Bound /\ Tracked /\ Lives /\ StopDrains => PoolInv
  BY DEF TypeInv, Exclusive, PoolInv
<1>3. Spec => []PoolInv
  BY <1>1, <1>2, TypeInvCorrect, ExclusiveCorrect, BoundCorrect, TrackedCorrect, LivesCorrect,
     NothingLostCorrect, PTL
<1>4. (PoolInv => Waiting = Unended)'
  BY WaitingIsUnended, PTL
<1>5. PoolInv /\ PoolInv' /\ [Next \/ Halted]_vars => [Promise!Next]_(Promise!poolVars)
  BY <1>4, WaitingIsUnended, PoolStep
<1> QED
  BY <1>3, <1>5, PoolStart, PTL DEF Spec, RunsOnce, Promise!Spec

------------------------------------------------------------------------------
(* One thread in run(), bodies that do anything.  A fibre is EXEC exactly  *)
(* while it runs, and one that is on its way out as HOLD has been given to *)
(* the list or to a waker already.                                         *)
Few == \A t, u \in Workers : pc[t] # "off" /\ pc[u] # "off" => t = u
Kept(x) == Queued(x) \/ x \in wakers
Marked ==
  /\ ~aborted
  /\ \A t \in Workers : pc[t] \in {"run", "armed"} => m_state[ft[t]] = "EXEC"
  /\ \A x \in Tasks : m_state[x] = "EXEC" =>
       \E t \in Workers : ft[t] = x /\ pc[t] \in {"run", "armed"}
  /\ \A x \in Tasks : m_state[x] \in Ended => x \in finished
  /\ \A t \in Workers : pc[t] \in {"swapOut", "return", "post"} => m_state[ft[t]] # "INIT"
  /\ \A t \in Workers : pc[t] = "hold" => m_state[ft[t]] = "HOLD"
Handed ==
  /\ NoTaskDropped
  /\ \A t \in Workers : pc[t] = "armed" => Kept(ft[t])
  /\ \A t \in Workers :
       pc[t] \in {"swapOut", "return", "post", "hold"} /\ m_state[ft[t]] = "HOLD" => Kept(ft[t])

LEMMA FewIsOne ==
  ASSUME Cardinality({t \in Workers : pc[t] # "off"}) <= 1
  PROVE  Few
<1> SUFFICES ASSUME NEW t \in Workers, NEW u \in Workers, pc[t] # "off", pc[u] # "off", t # u
             PROVE  FALSE
  BY DEF Few
<1> DEFINE S == {v \in Workers : pc[v] # "off"}
<1>1. IsFiniteSet(S) /\ {t, u} \subseteq S
  BY WorkersFinite, FS_Subset
<1>2. Cardinality({t, u}) <= Cardinality(S) /\ Cardinality(S) \in Nat
  BY <1>1, FS_Subset, FS_CardinalityType
<1>3. Cardinality({t}) = 1 /\ IsFiniteSet({t}) /\ {t, u} = {t} \cup {u}
  BY FS_Singleton
<1>4. Cardinality({t} \cup {u}) = 2
  BY <1>3, FS_AddElement
<1> QED
  BY <1>2, <1>3, <1>4

(* Nobody who has entered run() is off again. *)
LEMMA FewBefore ==
  ASSUME TypeInv, [Next \/ Halted]_vars, Few'
  PROVE  Few
<1> SUFFICES ASSUME NEW s \in Workers, pc[s] # "off"
             PROVE  pc'[s] # "off"
  BY DEF Few
<1> USE SchedulerAssumption DEF TypeInv, TypeOK, At, threadVars
<1>1. CASE Main
  BY <1>1 DEF Main, Start, StopRequest, StopFlag, StopCall, RootReturn, Join, Placed, MainAt
<1>2. ASSUME NEW t \in Workers, Run(t) PROVE pc'[s] # "off"
  <2>1. CASE ScanTake(t) \/ ScanNothing(t) \/ SwapIn(t) \/ SkipEnded(t) \/ GoIdle(t)
    BY <2>1 DEF ScanTake, ScanNothing, SwapIn, SkipEnded, GoIdle
  <2>2. CASE Exit(t) \/ Idle(t) \/ LeaveIdle(t) \/ SwapOut(t) \/ Return(t)
    BY <2>2 DEF Exit, Idle, LeaveIdle, SwapOut, Return
  <2>3. CASE Requeue(t)
    BY <2>3 DEF Requeue
  <2>4. CASE Forget(t) \/ FoundWaiting(t)
    BY <2>4 DEF Forget, FoundWaiting
  <2>5. CASE MarkHold(t)
    BY <2>5 DEF MarkHold
  <2> QED
    BY <1>2, <2>1, <2>2, <2>3, <2>4, <2>5 DEF Run
<1>3. ASSUME NEW t \in Workers, Body(t) PROVE pc'[s] # "off"
  <2>1. CASE (\E x \in Tasks, b \in Bindings : Spawn(t, x, b)) \/ Finish(t) \/ ArmWaker(t)
    BY <2>1 DEF Spawn, Finish, ArmWaker
  <2>2. CASE YieldToReady(t) \/ YieldToHold(t) \/ \E b \in Bindings : SwitchTo(t, b)
    BY <2>2 DEF YieldToReady, YieldToHold, YieldTo, SwitchTo
  <2> QED
    BY <1>3, <2>1, <2>2 DEF Body
<1>4. CASE \E x \in Tasks, b \in Bindings : CallerSchedule(x, b)
  BY <1>4 DEF CallerSchedule
<1>5. CASE \E x \in Tasks : Wake(x)
  BY <1>5 DEF Wake
<1>6. CASE UNCHANGED vars
  BY <1>6 DEF vars
<1> QED
  BY <1>1, <1>2, <1>3, <1>4, <1>5, <1>6 DEF Next, Halted

LEMMA MarkedStep ==
  TypeInv /\ Few /\ Marked /\ [Next \/ Halted]_vars => Marked'
<1> SUFFICES ASSUME TypeOK, Placed, Few, Marked, [Next \/ Halted]_vars
             PROVE  Marked'
  BY DEF TypeInv
<1> USE SchedulerAssumption DEF At, sharedVars, threadVars, historyVars
<1>1. ASSUME UNCHANGED <<m_state, ft, finished, aborted>>,
             \A t \in Workers : \/ pc'[t] = pc[t]
                                \/ pc'[t] \notin {"run", "armed", "swapOut", "return", "post", "hold"}
                                   /\ pc[t] \notin {"run", "armed"}
      PROVE  Marked'
  BY <1>1 DEF Marked
<1>2. CASE Main
  BY <1>1, <1>2 DEF Main, Start, StopRequest, StopFlag, StopCall, RootReturn, Join, Placed, TypeOK,
     MainAt
<1>3. CASE \E x \in Tasks, b \in Bindings : CallerSchedule(x, b)
  BY <1>1, <1>3 DEF CallerSchedule
<1>4. ASSUME NEW t \in Workers, Run(t) \/ Body(t) PROVE Marked'
  <2>1. pc[t] # "off" /\ \A u \in Workers : u # t => pc[u] = "off"
    BY <1>4 DEF Few, Run, Body, ScanTake, ScanNothing, SwapIn, SkipEnded, GoIdle, Exit, Idle,
       LeaveIdle, SwapOut, Return, Requeue, Forget, FoundWaiting, MarkHold, Spawn, Finish,
       YieldToReady, ArmWaker, SwitchTo, YieldToHold
  <2>2. CASE ScanTake(t)
    <3>1. UNCHANGED <<m_state, finished, aborted>> /\ pc[t] = "scan"
      BY <2>2 DEF ScanTake
    <3>2. \A u \in Workers : pc'[u] = IF u = t THEN "dispatch" ELSE pc[u]
      BY <2>2 DEF ScanTake, TypeOK
    <3>3. \A x \in Tasks : m_state[x] # "EXEC"
      BY <2>1, <3>1 DEF Marked
    <3> QED
      BY <2>1, <3>1, <3>2, <3>3 DEF Marked
  <2>3. CASE ScanNothing(t) \/ GoIdle(t) \/ Exit(t) \/ Idle(t) \/ LeaveIdle(t)
    BY <1>1, <2>3 DEF ScanNothing, GoIdle, Exit, Idle, LeaveIdle, TypeOK
  <2>4. CASE SwapIn(t)
    <3>1. ft[t] \in Tasks /\ m_state[ft[t]] # "EXEC" /\ \A x \in Tasks : m_state[x] # "EXEC"
      BY <2>1, <2>4 DEF SwapIn, Marked, TypeOK
    <3>2. \A u \in Workers : pc'[u] = IF u = t THEN "run" ELSE pc[u]
      BY <2>4 DEF SwapIn, TypeOK
    <3>3. \A x \in Tasks : m_state'[x] = IF x = ft[t] THEN "EXEC" ELSE m_state[x]
      BY <2>4, <3>1 DEF SwapIn, TypeOK
    <3>4. UNCHANGED <<ft, finished>> /\ ~aborted'
      BY <2>4, <3>1 DEF SwapIn
    <3> QED
      BY <2>1, <3>1, <3>2, <3>3, <3>4 DEF Marked, Ended
  <2>5. CASE SkipEnded(t) \/ Forget(t) \/ Requeue(t)
    <3>1. pc[t] \in {"dispatch", "post"} /\ UNCHANGED <<m_state, finished, aborted>>
      BY <2>5 DEF SkipEnded, Forget, Requeue
    <3>2. \A u \in Workers : pc'[u] = IF u = t THEN "scan" ELSE pc[u]
      BY <2>5 DEF SkipEnded, Forget, Requeue, TypeOK
    <3>3. \A x \in Tasks : m_state[x] # "EXEC"
      BY <2>1, <3>1 DEF Marked
    <3> QED
      BY <2>1, <3>1, <3>2, <3>3 DEF Marked
  <2>6. CASE SwapOut(t) \/ Return(t)
    <3>1. pc[t] \in {"swapOut", "return"} /\ UNCHANGED <<m_state, ft, finished, aborted>>
      BY <2>6 DEF SwapOut, Return
    <3>2. \A u \in Workers : pc'[u] = pc[u] \/ (u = t /\ pc'[u] \in {"return", "post"})
      BY <2>6 DEF SwapOut, Return, TypeOK
    <3> QED
      BY <2>1, <3>1, <3>2 DEF Marked
  <2>7. CASE FoundWaiting(t)
    <3>1. pc[t] = "post" /\ UNCHANGED <<m_state, ft, finished, aborted>> /\ ft[t] \in Tasks
      BY <2>7 DEF FoundWaiting, Placed, Busy
    <3>2. \A u \in Workers : pc'[u] = IF u = t THEN "hold" ELSE pc[u]
      BY <2>7 DEF FoundWaiting, TypeOK
    <3>3. m_state[ft[t]] = "HOLD"
      BY <2>1, <2>7, <3>1 DEF FoundWaiting, Marked, TypeOK, State, Ended
    <3> QED
      BY <2>1, <3>1, <3>2, <3>3 DEF Marked
  <2>8. CASE MarkHold(t)
    <3>1. pc[t] = "hold" /\ UNCHANGED <<finished, aborted>> /\ ft[t] \in Tasks
      BY <2>8 DEF MarkHold, Placed, Busy
    <3>2. \A u \in Workers : pc'[u] = IF u = t THEN "scan" ELSE pc[u]
      BY <2>8 DEF MarkHold, TypeOK
    <3>3. \A x \in Tasks : m_state'[x] = IF x = ft[t] THEN "HOLD" ELSE m_state[x]
      BY <2>8, <3>1 DEF MarkHold, TypeOK
    <3> QED
      BY <2>1, <3>1, <3>2, <3>3 DEF Marked, Ended
  <2>9. CASE \E x \in Tasks, b \in Bindings : Spawn(t, x, b)
    BY <1>1, <2>9 DEF Spawn
  <2>10. CASE Finish(t)
    <3>1. pc[t] = "run" /\ UNCHANGED <<ft, aborted>> /\ ft[t] \in Tasks
      BY <2>10 DEF Finish, Placed, Busy
    <3>2. \A u \in Workers : pc'[u] = IF u = t THEN "return" ELSE pc[u]
      BY <2>10 DEF Finish, TypeOK
    <3>3. PICK s \in Ended : \A x \in Tasks : m_state'[x] = IF x = ft[t] THEN s ELSE m_state[x]
      BY <2>10, <3>1 DEF Finish, TypeOK
    <3>4. finished' = finished \cup {ft[t]}
      BY <2>10 DEF Finish
    <3>5. \A x \in Tasks : x # ft[t] => m_state[x] # "EXEC"
      BY <2>1 DEF Marked
    <3> QED
      BY <2>1, <3>1, <3>2, <3>3, <3>4, <3>5 DEF Marked, Ended
  <2>11. CASE YieldToReady(t) \/ YieldToHold(t)
    <3>1. pc[t] \in {"run", "armed"} /\ UNCHANGED <<ft, finished>> /\ ft[t] \in Tasks
      BY <2>11 DEF YieldToReady, YieldToHold, YieldTo, Placed, Busy
    <3>2. \A u \in Workers : pc'[u] = IF u = t THEN "swapOut" ELSE pc[u]
      BY <2>11 DEF YieldToReady, YieldToHold, YieldTo, TypeOK
    <3>3. PICK s \in {"READY", "HOLD"} :
             \A x \in Tasks : m_state'[x] = IF x = ft[t] THEN s ELSE m_state[x]
      BY <2>11, <3>1 DEF YieldToReady, YieldToHold, YieldTo, TypeOK
    <3>4. ~aborted'
      BY <2>11, <3>1 DEF YieldToReady, YieldToHold, YieldTo, Marked
    <3>5. \A x \in Tasks : x # ft[t] => m_state[x] # "EXEC"
      BY <2>1 DEF Marked
    <3> QED
      BY <2>1, <3>1, <3>2, <3>3, <3>4, <3>5 DEF Marked, Ended
  <2>12. CASE ArmWaker(t) \/ \E b \in Bindings : SwitchTo(t, b)
    <3>1. pc[t] = "run" /\ UNCHANGED <<m_state, ft, finished, aborted>>
      BY <2>12 DEF ArmWaker, SwitchTo
    <3>2. \A u \in Workers : pc'[u] = IF u = t THEN "armed" ELSE pc[u]
      BY <2>12 DEF ArmWaker, SwitchTo, TypeOK
    <3> QED
      BY <2>1, <3>1, <3>2 DEF Marked
  <2> QED
    BY <1>4, <2>2, <2>3, <2>4, <2>5, <2>6, <2>7, <2>8, <2>9, <2>10, <2>11, <2>12 DEF Run, Body
<1>5. CASE \E x \in Tasks : Wake(x)
  BY <1>1, <1>5 DEF Wake
<1>6. CASE UNCHANGED vars
  BY <1>1, <1>6 DEF vars
<1> QED
  BY <1>2, <1>3, <1>4, <1>5, <1>6 DEF Next, Halted

(* Steps that leave the list, the wakers and what is in hand alone. *)
LEMMA QuietHanded ==
  ASSUME Handed, UNCHANGED <<m_fibres, wakers, ft, submitted>>, finished \subseteq finished',
         \A t \in Workers : pc'[t] = "armed" => pc[t] = "armed",
         \A t \in Workers :
           pc'[t] \in {"swapOut", "return", "post", "hold"} /\ m_state'[ft[t]] = "HOLD"
             => \/ pc[t] = "armed"
                \/ pc[t] \in {"swapOut", "return", "post", "hold"} /\ m_state[ft[t]] = "HOLD"
  PROVE  Handed'
<1>1. \A x : Queued(x)' <=> Queued(x)
  BY DEF Queued
<1>2. \A x : Held(x)' <=> Held(x)
  BY DEF Held
<1> QED
  BY <1>1, <1>2 DEF Handed, NoTaskDropped, Kept

(* One task more in the list. *)
LEMMA ScheduleHanded ==
  ASSUME TypeOK, Handed, NEW x \in Tasks, NEW c \in BOOLEAN,
         NEW thread \in Workers \cup {AnyThread}, Schedule(x, c, thread),
         wakers \subseteq wakers' \cup {x},
         submitted' \subseteq submitted \cup {x}, UNCHANGED <<finished, m_state>>,
         \A t \in Workers : ft'[t] = ft[t] \/ (ft[t] = x /\ pc'[t] = "scan"),
         \A t \in Workers : pc'[t] = pc[t] \/ (ft[t] = x /\ pc'[t] \in {"armed", "scan"})
  PROVE  Handed'
<1>1. \A y : Queued(y)' <=> Queued(y) \/ y = x
  BY ScheduleQueued
<1>2. ASSUME NEW y, Kept(y) PROVE Kept(y)'
  BY <1>1, <1>2 DEF Kept
<1>3. ASSUME NEW y, y # x, Held(y) PROVE Held(y)'
  BY <1>3 DEF Held
<1>4. Kept(x)'
  BY <1>1 DEF Kept
<1>5. NoTaskDropped'
  BY <1>1, <1>2, <1>3 DEF Handed, NoTaskDropped, Kept
<1> QED
  BY <1>2, <1>4, <1>5 DEF Handed

LEMMA HandedStep ==
  TypeInv /\ Few /\ Marked /\ Handed /\ [Next \/ Halted]_vars => Handed'
<1> SUFFICES ASSUME TypeOK, Placed, Few, Marked, Handed, [Next \/ Halted]_vars
             PROVE  Handed'
  BY DEF TypeInv
<1> USE SchedulerAssumption DEF At, sharedVars, threadVars, historyVars
<1>1. CASE Main
  BY <1>1, QuietHanded DEF Main, Start, StopRequest, StopFlag, StopCall, RootReturn, Join,
     Placed, TypeOK, MainAt
<1>2. ASSUME NEW x \in Tasks, NEW b \in Bindings, Submit(x, b),
             UNCHANGED <<pc, ft, wakers, finished, m_state>>
      PROVE  Handed'
  <2>1. (x \in Callbacks) \in BOOLEAN /\ b \in Workers \cup {AnyThread}
    OBVIOUS
  <2>2. Schedule(x, x \in Callbacks, b) /\ submitted' = submitted \cup {x}
    BY <1>2 DEF Submit
  <2> QED
    BY <1>2, <2>1, <2>2, ScheduleHanded
<1>3. ASSUME NEW x \in Tasks, NEW b \in Bindings, CallerSchedule(x, b) PROVE Handed'
  BY <1>2, <1>3 DEF CallerSchedule
<1>4. ASSUME NEW t \in Workers, Run(t) PROVE Handed'
  <2>1. CASE ScanTake(t)
    <3>1. PICK i \in 1..Len(m_fibres) :
             /\ \A u \in Workers : ft'[u] = IF u = t THEN m_fibres[i].task ELSE ft[u]
             /\ \A y : Queued(y) => Queued(y)' \/ y = m_fibres[i].task
      BY <2>1, TakeQueued
    <3>2. UNCHANGED <<submitted, finished, m_state, wakers>> /\ pc[t] = "scan"
      BY <2>1 DEF ScanTake
    <3>3. \A u \in Workers : pc'[u] = IF u = t THEN "dispatch" ELSE pc[u]
      BY <2>1 DEF ScanTake, TypeOK
    <3>4. \A u \in Workers : u # t => pc[u] = "off" /\ ft[u] = NoTask
      BY <3>2 DEF Few, Placed, Empty
    <3>5. ft[t] = NoTask /\ NoTask \notin submitted
      BY <3>2 DEF Placed, Empty, TypeOK
    <3>6. ASSUME NEW x \in submitted \ finished PROVE Queued(x)' \/ Held(x)' \/ x \in wakers'
      <4>1. ~Held(x)
        BY <3>4, <3>5 DEF Held
      <4>2. CASE Queued(x) /\ x = m_fibres[i].task
        BY <3>1, <4>2 DEF Held
      <4>3. CASE Queued(x) /\ x # m_fibres[i].task
        BY <3>1, <4>3
      <4> QED
        BY <3>2, <4>1, <4>2, <4>3 DEF Handed, NoTaskDropped
    <3> QED
      BY <3>2, <3>3, <3>4, <3>6 DEF Handed, NoTaskDropped
  <2>2. CASE Requeue(t)
    <3>1. PICK x \in Tasks : x = ft[t]
      BY <2>2 DEF Requeue, Placed, Busy
    <3>2. Schedule(x, FALSE, AnyThread) /\ UNCHANGED <<submitted, finished, m_state, wakers>>
      BY <2>2, <3>1 DEF Requeue
    <3>3. \A u \in Workers : /\ ft'[u] = ft[u] \/ (ft[u] = x /\ pc'[u] = "scan")
                             /\ pc'[u] = pc[u] \/ (ft[u] = x /\ pc'[u] \in {"armed", "scan"})
      BY <2>2, <3>1 DEF Requeue, TypeOK
    <3> QED
      BY <3>2, <3>3, ScheduleHanded
  <2>3. CASE ScanNothing(t) \/ GoIdle(t) \/ Exit(t) \/ Idle(t) \/ LeaveIdle(t)
    BY <2>3, QuietHanded DEF ScanNothing, GoIdle, Exit, Idle, LeaveIdle, TypeOK
  <2>4. CASE SwapOut(t) \/ Return(t) \/ FoundWaiting(t)
    BY <2>4, QuietHanded DEF SwapOut, Return, FoundWaiting, TypeOK
  <2>5. CASE SkipEnded(t) \/ Forget(t) \/ MarkHold(t)
    <3>1. ft[t] \in Tasks /\ pc[t] \in {"dispatch", "post", "hold"}
      BY <2>5 DEF SkipEnded, Forget, MarkHold, TypeOK, Placed, Busy
    <3>2. ft[t] \in finished \/ Kept(ft[t])
      BY <2>5, <3>1 DEF SkipEnded, Forget, MarkHold, Marked, Handed
    <3>3. \A u \in Workers : u # t => ft'[u] = ft[u] /\ pc'[u] = pc[u] /\ pc[u] = "off"
      BY <2>5, <3>1 DEF SkipEnded, Forget, MarkHold, TypeOK, Few
    <3>4. UNCHANGED <<m_fibres, wakers, submitted, finished>> /\ pc'[t] = "scan"
      BY <2>5 DEF SkipEnded, Forget, MarkHold, TypeOK
    <3>5. \A x : Queued(x)' <=> Queued(x)
      BY <3>4 DEF Queued
    <3>6. ASSUME NEW x, Held(x), x # ft[t] PROVE Held(x)'
      BY <3>3, <3>6 DEF Held
    <3> QED
      BY <3>2, <3>3, <3>4, <3>5, <3>6 DEF Handed, NoTaskDropped, Kept
  <2>6. CASE SwapIn(t)
    <3>1. pc[t] = "dispatch" /\ UNCHANGED <<m_fibres, wakers, ft, submitted, finished>>
      BY <2>6 DEF SwapIn
    <3>2. \A u \in Workers : IF u = t THEN pc'[u] = "run" ELSE pc'[u] = pc[u] /\ pc[u] = "off"
      BY <2>6, <3>1 DEF SwapIn, TypeOK, Few
    <3> QED
      BY <3>1, <3>2, QuietHanded
  <2> QED
    BY <1>4, <2>1, <2>2, <2>3, <2>4, <2>5, <2>6 DEF Run
<1>5. ASSUME NEW t \in Workers, Body(t) PROVE Handed'
  <2>1. ASSUME NEW x \in Tasks, NEW b \in Bindings, Spawn(t, x, b) PROVE Handed'
    BY <1>2, <2>1 DEF Spawn
  <2>2. CASE Finish(t) \/ YieldToReady(t) \/ YieldToHold(t)
    <3>1. /\ pc[t] \in {"run", "armed"} /\ ft[t] \in Tasks /\ finished \subseteq finished'
          /\ UNCHANGED <<m_fibres, wakers, ft, submitted>>
      BY <2>2 DEF Finish, YieldToReady, YieldToHold, YieldTo, Placed, Busy
    <3>2. \A u \in Workers : IF u = t THEN pc'[u] \in {"return", "swapOut"}
                             ELSE pc'[u] = pc[u] /\ pc[u] = "off"
      BY <2>2, <3>1 DEF Finish, YieldToReady, YieldToHold, YieldTo, TypeOK, Few
    <3>3. m_state'[ft[t]] = "HOLD" => pc[t] = "armed"
      BY <2>2, <3>1 DEF Finish, YieldToReady, YieldToHold, YieldTo, TypeOK, Ended
    <3> QED
      BY <3>1, <3>2, <3>3, QuietHanded
  <2>3. CASE ArmWaker(t)
    <3>1. /\ pc[t] = "run" /\ UNCHANGED <<m_fibres, ft, submitted, finished, m_state>>
          /\ wakers' = wakers \cup {ft[t]}
      BY <2>3 DEF ArmWaker
    <3>2. \A u \in Workers : IF u = t THEN pc'[u] = "armed" ELSE pc'[u] = pc[u] /\ pc[u] = "off"
      BY <2>3, <3>1 DEF ArmWaker, TypeOK, Few
    <3>3. \A x : (Queued(x)' <=> Queued(x)) /\ (Held(x)' <=> Held(x))
      BY <3>1 DEF Queued, Held
    <3> QED
      BY <3>1, <3>2, <3>3 DEF Handed, NoTaskDropped, Kept
  <2>4. ASSUME NEW b \in Bindings, SwitchTo(t, b) PROVE Handed'
    <3>1. PICK x \in Tasks : x = ft[t]
      BY <2>4 DEF SwitchTo, Placed, Busy
    <3>2. /\ Schedule(x, FALSE, b) /\ b \in Workers \cup {AnyThread}
          /\ UNCHANGED <<ft, submitted, finished, m_state, wakers>>
      BY <2>4, <3>1 DEF SwitchTo
    <3>3. \A u \in Workers : pc'[u] = pc[u] \/ (ft[u] = x /\ pc'[u] \in {"armed", "scan"})
      BY <2>4, <3>1 DEF SwitchTo, TypeOK
    <3> QED
      BY <3>2, <3>3, ScheduleHanded
  <2> QED
    BY <1>5, <2>1, <2>2, <2>3, <2>4 DEF Body
<1>6. ASSUME NEW x \in Tasks, Wake(x) PROVE Handed'
  <2>1. /\ Schedule(x, FALSE, AnyThread) /\ wakers \subseteq wakers' \cup {x}
        /\ UNCHANGED <<pc, ft, submitted, finished, m_state>>
    BY <1>6 DEF Wake
  <2> QED
    BY <2>1, ScheduleHanded
<1>7. CASE UNCHANGED vars
  BY <1>7, QuietHanded DEF vars
<1> QED
  BY <1>1, <1>3, <1>4, <1>5, <1>6, <1>7 DEF Next, Halted

(* Until a second thread enters run(), whatever bodies do (YieldToHold     *)
(* with a waker, switchTo, throw), no fibre is lost by the HOLD that run() *)
(* stores late, none is resumed on a stack in use, and the assertions of   *)
(* swapIn and of the yields hold.                                          *)
THEOREM SafeAloneCorrect == Spec => []SafeAlone
<1> DEFINE Inv == Few => Marked /\ Handed
<1>1. Init => Inv
  <2> SUFFICES ASSUME Init PROVE Marked /\ Handed
    OBVIOUS
  <2> QED
    BY DEF Init, Marked, Handed, NoTaskDropped, Ended
<1>2. TypeInv /\ Inv /\ [Next \/ Halted]_vars => Inv'
  BY FewBefore, MarkedStep, HandedStep
<1>3. TypeInv /\ Inv => SafeAlone
  <2> SUFFICES ASSUME Inv, Cardinality({t \in Workers : pc[t] # "off"}) <= 1
               PROVE  Alive /\ NoTaskDropped
    BY DEF SafeAlone
  <2>1. Few
    BY FewIsOne
  <2> QED
    BY <2>1 DEF Alive, Corrupt, OnStack, Few, Marked, Handed
<1> QED
  BY <1>1, <1>2, <1>3, TypeInvCorrect, PTL DEF Spec
==============================================================================

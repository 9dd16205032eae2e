--------------------------- MODULE FdEventsProofs ---------------------------
(***************************************************************************)
(* Theorems about FdEvents, for every set of threads, file descriptors and *)
(* registrations, and about ContextTable, for every set of threads and     *)
(* descriptors and every first size of at least 2.                         *)
(***************************************************************************)
EXTENDS FdEvents, ContextTable, FiniteSetTheorems, TLAPS

(* FdEvents. *)

Holding == {"trigger", "count"}

(* A context is locked exactly by the thread that triggers its events, and *)
(* the kernel already watches what will be left when that thread is done.  *)
Held ==
  /\ \A t \in Threads : pc[t] \in Holding => work[t].fd \in Fds /\ mutex[work[t].fd] = t
  /\ \A f \in Fds : mutex[f] # None =>
       /\ pc[mutex[f]] \in Holding
       /\ work[mutex[f]].fd = f
       /\ epoll[f] = events[f] \ work[mutex[f]].todo

FdInv == TypeOK /\ Held /\ WatchedIsRegistered /\ PendingExact /\ OneOutcome

----------------------------------------------------------------------------
(* The books are finite, and change by one pair or one thread at a time.   *)

LEMMA SpaceFinite == IsFiniteSet(Fds \X Kinds)
<1>1. IsFiniteSet({"READ"} \cup {"WRITE"})
  BY FS_Singleton, FS_AddElement
<1>2. Kinds \subseteq {"READ"} \cup {"WRITE"}
  BY FdEventsAssumption
<1>3. IsFiniteSet(Kinds)
  BY <1>1, <1>2, FS_Subset
<1> QED
  BY <1>3, FS_Product, FdEventsAssumption

LEMMA BooksFinite ==
  /\ IsFiniteSet(Pending) /\ Cardinality(Pending) \in Nat
  /\ IsFiniteSet(Counting) /\ Cardinality(Counting) \in Nat
<1>1. Pending \subseteq Fds \X Kinds /\ Counting \subseteq Threads
  BY DEF Pending, Counting
<1> QED
  BY <1>1, SpaceFinite, FS_Subset, FS_CardinalityType, FdEventsAssumption

LEMMA BooksFinitePrime == Cardinality(Pending') \in Nat /\ Cardinality(Counting') \in Nat
<1>1. Pending' \subseteq Fds \X Kinds /\ Counting' \subseteq Threads
  BY DEF Pending, Counting
<1> QED
  BY <1>1, SpaceFinite, FS_Subset, FS_CardinalityType, FdEventsAssumption

(* Setting the bit of an event adds one pair, clearing it removes one. *)
LEMMA PendingAdd ==
  ASSUME TypeOK, NEW f \in Fds, NEW e \in Kinds, e \notin events[f],
         events' = [events EXCEPT ![f] = @ \cup {e}]
  PROVE  Cardinality(Pending') = Cardinality(Pending) + 1
<1>1. \A g \in Fds : events'[g] = IF g = f THEN events[f] \cup {e} ELSE events[g]
  BY DEF TypeOK
<1>2. Pending' = Pending \cup {<<f, e>>}
  BY <1>1 DEF Pending
<1>3. <<f, e>> \notin Pending
  BY DEF Pending
<1> QED
  BY <1>2, <1>3, BooksFinite, FS_AddElement

LEMMA PendingRemove ==
  ASSUME TypeOK, NEW f \in Fds, NEW e \in Kinds, e \in events[f],
         events' = [events EXCEPT ![f] = @ \ {e}]
  PROVE  Cardinality(Pending') = Cardinality(Pending) - 1
<1>1. \A g \in Fds : events'[g] = IF g = f THEN events[f] \ {e} ELSE events[g]
  BY DEF TypeOK
<1>2. Pending' = Pending \ {<<f, e>>}
  BY <1>1 DEF Pending
<1>3. <<f, e>> \in Pending
  BY DEF Pending
<1> QED
  BY <1>2, <1>3, BooksFinite, FS_RemoveElement

(* A thread that goes elsewhere than to the decrement leaves the count of  *)
(* those who are at it as it was, unless it comes from there.              *)
LEMMA CountingMove ==
  ASSUME TypeOK, NEW t \in Threads, NEW l, pc' = [pc EXCEPT ![t] = l]
  PROVE  /\ pc[t] # "count" /\ l # "count" => Counting' = Counting
         /\ pc[t] # "count" /\ l = "count" => Cardinality(Counting') = Cardinality(Counting) + 1
         /\ pc[t] = "count" /\ l # "count" => Cardinality(Counting') = Cardinality(Counting) - 1
<1>1. \A s \in Threads : pc'[s] = IF s = t THEN l ELSE pc[s]
  BY DEF TypeOK
<1>2. ASSUME pc[t] # "count", l # "count"
      PROVE  Counting' = Counting
  BY <1>1, <1>2 DEF Counting
<1>3. ASSUME pc[t] # "count", l = "count"
      PROVE  Cardinality(Counting') = Cardinality(Counting) + 1
  <2>1. Counting' = Counting \cup {t} /\ t \notin Counting
    BY <1>1, <1>3 DEF Counting
  <2> QED
    BY <2>1, BooksFinite, FS_AddElement
<1>4. ASSUME pc[t] = "count", l # "count"
      PROVE  Cardinality(Counting') = Cardinality(Counting) - 1
  <2>1. Counting' = Counting \ {t} /\ t \in Counting
    BY <1>1, <1>4 DEF Counting
  <2> QED
    BY <2>1, BooksFinite, FS_RemoveElement
<1> QED
  BY <1>2, <1>3, <1>4

----------------------------------------------------------------------------
LEMMA FdInitInv == Init => FdInv
<1> SUFFICES ASSUME Init
             PROVE  FdInv
  OBVIOUS
<1> USE FdEventsAssumption DEF Init
<1>1. TypeOK
  BY Zenon DEF TypeOK, Idle
<1>2. Held /\ WatchedIsRegistered
  BY DEF Held, Holding, WatchedIsRegistered
<1>3. Pending = {} /\ Counting = {}
  BY DEF Pending, Counting
<1>4. PendingExact
  BY <1>3, FS_EmptySet DEF PendingExact
<1>5. Registered = {}
  BY DEF Registered
<1>6. OneOutcome
  BY <1>5 DEF OneOutcome
<1> QED
  BY <1>1, <1>2, <1>4, <1>6 DEF FdInv

LEMMA AddEventInv ==
  ASSUME FdInv, NEW t \in Threads, NEW f \in Fds, NEW e \in Kinds, NEW r \in Regs,
         AddEvent(t, f, e, r)
  PROVE  FdInv'
<1> USE FdEventsAssumption DEF FdInv, At
<1>1. \A g \in Fds : events'[g] = IF g = f THEN events[f] \cup {e} ELSE events[g]
  BY DEF AddEvent, TypeOK
<1>2. \A g \in Fds, d \in Kinds : context'[g][d] = IF g = f /\ d = e THEN r ELSE context[g][d]
  BY DEF AddEvent, TypeOK
<1>3. \A g \in Fds : epoll'[g] = IF g = f THEN events[f] \cup {e} ELSE epoll[g]
  BY DEF AddEvent, EpollCtl, TypeOK
<1>4. ~aborted /\ context[f][e] = None /\ aborted' = FALSE
  BY DEF AddEvent, OneOutcome
<1>5. UNCHANGED <<mutex, pc, report, work, queue, done, deleted>>
  BY DEF AddEvent, outVars
<1>6. PendingExact'
  <2>1. Cardinality(Pending') = Cardinality(Pending) + 1
    BY PendingAdd DEF AddEvent
  <2>2. Counting' = Counting
    BY <1>5 DEF Counting
  <2> QED
    BY <2>1, <2>2, <1>4, BooksFinite DEF PendingExact, AddEvent
<1>7. TypeOK'
  <2>1. aborted' \in BOOLEAN
    BY <1>4, Zenon
  <2>2. context' \in [Fds -> [Kinds -> Regs \cup {None}]]
    BY DEF AddEvent, TypeOK
  <2> QED
    BY <1>5, <2>1, <2>2 DEF TypeOK, AddEvent, EpollCtl
<1>8. mutex[f] = None
  BY DEF AddEvent
<1>9. Held' /\ WatchedIsRegistered'
  BY <1>1, <1>3, <1>5, <1>8 DEF Held, WatchedIsRegistered
<1>10. Registered' = Registered \cup {r} /\ r \notin Registered /\ r \notin queue \cup done \cup deleted
  <2>1. r \notin Registered /\ r \notin queue \cup done \cup deleted
    BY DEF AddEvent, Used
  <2>2. ASSUME NEW x PROVE x \in Registered' <=> x \in Registered \cup {r}
    BY <1>2, <1>4 DEF Registered
  <2> QED
    BY <2>1, <2>2
<1>11. OneOutcome'
  <2>1. \A g \in Fds, d \in Kinds : d \in events'[g] <=> context'[g][d] # None
    BY <1>1, <1>2, <1>4 DEF OneOutcome
  <2>2. \A g \in Fds, d \in Kinds : context[g][d] # r
    <3>1. ASSUME NEW g \in Fds, NEW d \in Kinds, context[g][d] = r
          PROVE  FALSE
      <4>1. r # None
        BY FdEventsAssumption
      <4>2. context[g][d] \in Registered
        BY <3>1, <4>1 DEF Registered
      <4> QED
        BY <1>10, <3>1, <4>2
    <3> QED
      BY <3>1
  <2>3. \A g, h \in Fds, d, k \in Kinds :
          context'[g][d] # None /\ context'[g][d] = context'[h][k] => g = h /\ d = k
    BY <1>2, <1>4, <2>2 DEF OneOutcome
  <2> QED
    BY <1>4, <1>5, <1>10, <2>1, <2>3 DEF OneOutcome
<1> QED
  BY <1>6, <1>7, <1>9, <1>11

LEMMA AddTwiceInv ==
  ASSUME FdInv, NEW t \in Threads, NEW f \in Fds, NEW e \in Kinds, AddTwice(t, f, e)
  PROVE  FdInv'
<1>1. aborted' = TRUE
  BY DEF AddTwice
<1>2. aborted' \in BOOLEAN
  BY <1>1, Zenon
<1>3. UNCHANGED <<fdVars, mutex, m_pendingEventCount, pc, report, work, outVars>>
  BY DEF AddTwice
<1> QED
  BY <1>1, <1>2, <1>3 DEF FdInv, TypeOK, Held, WatchedIsRegistered, PendingExact, OneOutcome,
     fdVars, outVars

(* Clearing a bit and its context takes the registration out of the books. *)
LEMMA ContextReset ==
  ASSUME TypeOK, OneOutcome, ~aborted, NEW f \in Fds, NEW e \in Kinds, e \in events[f],
         events' = [events EXCEPT ![f] = @ \ {e}],
         context' = [context EXCEPT ![f][e] = None]
  PROVE  /\ context[f][e] \in Registered
         /\ Registered' = Registered \ {context[f][e]}
         /\ \A g \in Fds, d \in Kinds : d \in events'[g] <=> context'[g][d] # None
         /\ \A g, h \in Fds, d, k \in Kinds :
              context'[g][d] # None /\ context'[g][d] = context'[h][k] => g = h /\ d = k
<1>1. \A g \in Fds : events'[g] = IF g = f THEN events[f] \ {e} ELSE events[g]
  BY DEF TypeOK
<1>2. \A g \in Fds, d \in Kinds : context'[g][d] = IF g = f /\ d = e THEN None ELSE context[g][d]
  BY DEF TypeOK
<1>3. context[f][e] # None /\ context[f][e] \in Registered
  BY DEF OneOutcome, Registered
<1>4. \A g \in Fds, d \in Kinds : context[g][d] = context[f][e] => g = f /\ d = e
  BY <1>3 DEF OneOutcome
<1>5. Registered' = Registered \ {context[f][e]}
  <2>1. ASSUME NEW x PROVE x \in Registered' <=> x \in Registered \ {context[f][e]}
    <3>1. x \in Registered' <=> x # None /\ \E g \in Fds, d \in Kinds : x = context'[g][d]
      BY DEF Registered
    <3>2. x \in Registered <=> x # None /\ \E g \in Fds, d \in Kinds : x = context[g][d]
      BY DEF Registered
    <3> QED
      BY <1>2, <1>3, <1>4, <3>1, <3>2
  <2> QED
    BY <2>1
<1>6. \A g \in Fds, d \in Kinds : d \in events'[g] <=> context'[g][d] # None
  BY <1>1, <1>2 DEF OneOutcome
<1>7. \A g, h \in Fds, d, k \in Kinds :
        context'[g][d] # None /\ context'[g][d] = context'[h][k] => g = h /\ d = k
  BY <1>2 DEF OneOutcome
<1> QED
  BY <1>3, <1>5, <1>6, <1>7

LEMMA DelEventInv ==
  ASSUME FdInv, NEW t \in Threads, NEW f \in Fds, NEW e \in Kinds, DelEvent(t, f, e)
  PROVE  FdInv'
<1> USE FdEventsAssumption DEF FdInv, At
<1>1. \A g \in Fds : events'[g] = IF g = f THEN events[f] \ {e} ELSE events[g]
  BY DEF DelEvent, TypeOK
<1>2. \A g \in Fds : epoll'[g] = IF g = f THEN events[f] \ {e} ELSE epoll[g]
  BY DEF DelEvent, EpollCtl, TypeOK
<1>3. ~aborted /\ UNCHANGED <<mutex, pc, report, work, queue, done, aborted>>
  BY DEF DelEvent
<1>4. /\ context[f][e] \in Registered
      /\ Registered' = Registered \ {context[f][e]}
      /\ \A g \in Fds, d \in Kinds : d \in events'[g] <=> context'[g][d] # None
      /\ \A g, h \in Fds, d, k \in Kinds :
           context'[g][d] # None /\ context'[g][d] = context'[h][k] => g = h /\ d = k
  BY <1>3, ContextReset DEF DelEvent
<1>5. deleted' = deleted \cup {context[f][e]}
  BY DEF DelEvent
<1>6. context[f][e] \in Regs
  BY <1>4 DEF Registered, TypeOK
<1>7. PendingExact'
  <2>1. Cardinality(Pending') = Cardinality(Pending) - 1
    BY PendingRemove DEF DelEvent
  <2>2. Counting' = Counting
    BY <1>3 DEF Counting
  <2> QED
    BY <2>1, <2>2, <1>3, BooksFinite DEF PendingExact, DelEvent
<1>8. m_pendingEventCount' \in Nat
  BY <1>3, <1>7, BooksFinitePrime DEF PendingExact
<1>9. TypeOK'
  <2>1. context' \in [Fds -> [Kinds -> Regs \cup {None}]]
    BY DEF DelEvent, TypeOK
  <2> QED
    BY <1>3, <1>5, <1>6, <1>8, <2>1 DEF TypeOK, DelEvent, EpollCtl
<1>10. mutex[f] = None
  BY DEF DelEvent
<1>11. Held' /\ WatchedIsRegistered'
  BY <1>1, <1>2, <1>3, <1>10 DEF Held, WatchedIsRegistered
<1>12. OneOutcome'
  BY <1>3, <1>4, <1>5 DEF OneOutcome
<1> QED
  BY <1>7, <1>9, <1>11, <1>12

(* What cancelEvent, cancelAll and idle() share: the context is locked and *)
(* the kernel watches what is left without the events to be triggered.     *)
LEMMA BeginTriggerInv ==
  ASSUME FdInv, NEW t \in Threads, NEW f \in Fds, NEW todo \in SUBSET Kinds,
         pc[t] \notin Holding, mutex[f] = None,
         EpollCtl(f, events[f] \ todo), BeginTrigger(t, f, todo),
         report' \in [Threads -> SUBSET Reports],
         UNCHANGED <<events, context, m_pendingEventCount, queue, done, deleted, aborted>>
  PROVE  FdInv'
<1> USE FdEventsAssumption DEF FdInv
<1> DEFINE w == [fd |-> f, todo |-> todo]
<1>1. \A s \in Threads : work'[s] = IF s = t THEN w ELSE work[s]
  BY DEF BeginTrigger, TypeOK
<1>2. \A s \in Threads : pc'[s] = IF s = t THEN "trigger" ELSE pc[s]
  BY DEF BeginTrigger, TypeOK
<1>3. \A g \in Fds : mutex'[g] = IF g = f THEN t ELSE mutex[g]
  BY DEF BeginTrigger, TypeOK
<1>4. \A g \in Fds : epoll'[g] = IF g = f THEN events[f] \ todo ELSE epoll[g]
  BY DEF EpollCtl, TypeOK
<1>5. w.fd = f /\ w.todo = todo
  OBVIOUS
<1>6. TypeOK'
  BY DEF TypeOK, BeginTrigger, EpollCtl
<1> HIDE DEF w
<1>7. t # None /\ \A g \in Fds : mutex[g] # t
  BY DEF Held
<1>8. \A s \in Threads : pc'[s] \in Holding => work'[s].fd \in Fds /\ mutex'[work'[s].fd] = s
  <2> SUFFICES ASSUME NEW s \in Threads, pc'[s] \in Holding
               PROVE  work'[s].fd \in Fds /\ mutex'[work'[s].fd] = s
    OBVIOUS
  <2>1. CASE s = t
    BY <2>1, <1>1, <1>3, <1>5
  <2>2. CASE s # t
    <3>1. work[s].fd \in Fds /\ mutex[work[s].fd] = s
      BY <2>2, <1>2 DEF Held
    <3>2. work[s].fd # f
      BY <3>1
    <3> QED
      BY <2>2, <3>1, <3>2, <1>1, <1>3
  <2> QED
    BY <2>1, <2>2
<1>9. \A g \in Fds : mutex'[g] # None =>
        /\ pc'[mutex'[g]] \in Holding
        /\ work'[mutex'[g]].fd = g
        /\ epoll'[g] = events'[g] \ work'[mutex'[g]].todo
  <2> SUFFICES ASSUME NEW g \in Fds, mutex'[g] # None
               PROVE  /\ pc'[mutex'[g]] \in Holding
                      /\ work'[mutex'[g]].fd = g
                      /\ epoll'[g] = events'[g] \ work'[mutex'[g]].todo
    OBVIOUS
  <2>1. CASE g = f
    BY <2>1, <1>1, <1>2, <1>3, <1>4, <1>5 DEF Holding
  <2>2. CASE g # f
    <3>1. mutex'[g] = mutex[g] /\ mutex[g] \in Threads /\ mutex[g] # t
      BY <2>2, <1>3, <1>7 DEF TypeOK
    <3> QED
      BY <2>2, <3>1, <1>1, <1>2, <1>4 DEF Held
  <2> QED
    BY <2>1, <2>2
<1>10. Held'
  BY <1>8, <1>9 DEF Held
<1>11. WatchedIsRegistered'
  BY <1>3, <1>4, <1>7 DEF WatchedIsRegistered
<1>12. PendingExact'
  <2>1. Counting' = Counting
    BY <1>2 DEF Counting, Holding
  <2>2. Pending' = Pending
    BY DEF Pending
  <2> QED
    BY <2>1, <2>2 DEF PendingExact
<1>13. OneOutcome'
  <2>1. Registered' = Registered
    BY DEF Registered
  <2> QED
    BY <2>1 DEF OneOutcome
<1> QED
  BY <1>6, <1>10, <1>11, <1>12, <1>13

LEMMA CancelInv ==
  ASSUME FdInv, NEW t \in Threads, NEW f \in Fds,
         CancelAll(t, f) \/ \E e \in Kinds : CancelEvent(t, f, e)
  PROVE  FdInv'
<1>0. report \in [Threads -> SUBSET Reports] /\ events[f] \in SUBSET Kinds
  BY DEF FdInv, TypeOK
<1>1. CASE CancelAll(t, f)
  <2>1. events[f] \ events[f] = {}
    OBVIOUS
  <2> QED
    BY <1>0, <1>1, <2>1, BeginTriggerInv DEF CancelAll, At, outVars, Holding
<1>2. CASE \E e \in Kinds : CancelEvent(t, f, e)
  <2>1. PICK e \in Kinds : CancelEvent(t, f, e)
    BY <1>2
  <2>2. {e} \in SUBSET Kinds
    OBVIOUS
  <2> QED
    BY <1>0, <2>1, <2>2, BeginTriggerInv DEF CancelEvent, At, outVars, Holding
<1> QED
  BY <1>1, <1>2

LEMMA ReportTyped ==
  ASSUME FdInv, NEW t \in Threads, NEW a \in report[t]
  PROVE  /\ a.fd \in Fds /\ RealEvents(a) \in SUBSET Kinds
         /\ [report EXCEPT ![t] = @ \ {a}] \in [Threads -> SUBSET Reports]
<1>1. a \in Reports
  BY DEF FdInv, TypeOK
<1>2. a.fd \in Fds /\ a.mask \in SUBSET Kinds
  BY <1>1 DEF Reports
<1>3. RealEvents(a) \in SUBSET Kinds
  BY <1>2 DEF RealEvents, FdInv, TypeOK
<1> QED
  BY <1>2, <1>3 DEF FdInv, TypeOK

LEMMA HandleReportInv ==
  ASSUME FdInv, NEW t \in Threads, NEW a \in report[t], HandleReport(t, a)
  PROVE  FdInv'
BY ReportTyped, BeginTriggerInv DEF HandleReport, At, outVars, Holding

(* The steps of the loop that leave the contexts alone. *)
LEMMA LoopInv ==
  ASSUME FdInv, NEW t \in Threads, NEW l \in {"free", "loop"},
         pc[t] \notin Holding, pc' = [pc EXCEPT ![t] = l],
         report' \in [Threads -> SUBSET Reports],
         UNCHANGED <<fdVars, mutex, m_pendingEventCount, work, outVars, aborted>>
  PROVE  FdInv'
<1> USE FdEventsAssumption DEF FdInv, fdVars, outVars
<1>1. \A s \in Threads : pc'[s] = IF s = t THEN l ELSE pc[s]
  BY DEF TypeOK
<1>2. TypeOK'
  BY DEF TypeOK
<1>3. \A f \in Fds : mutex[f] # t
  BY DEF Held
<1>4. Held'
  BY <1>1, <1>3 DEF Held, TypeOK, Holding
<1>5. WatchedIsRegistered' /\ OneOutcome'
  BY DEF WatchedIsRegistered, OneOutcome, Registered
<1>6. Counting' = Counting
  BY CountingMove DEF Holding
<1>7. PendingExact'
  BY <1>6 DEF PendingExact, Pending
<1> QED
  BY <1>2, <1>4, <1>5, <1>7

LEMMA PassReportInv ==
  ASSUME FdInv, NEW t \in Threads, NEW a \in report[t], SkipReport(t, a) \/ FailReport(t, a)
  PROVE  FdInv'
<1>1. PICK l \in {"free", "loop"} : pc' = [pc EXCEPT ![t] = l]
  BY DEF SkipReport, FailReport, NextReport
<1>2. /\ pc[t] \notin Holding
      /\ report' = [report EXCEPT ![t] = @ \ {a}]
      /\ UNCHANGED <<fdVars, mutex, m_pendingEventCount, work, outVars, aborted>>
  BY DEF SkipReport, FailReport, NextReport, At, Holding
<1>3. report' \in [Threads -> SUBSET Reports]
  BY <1>2, ReportTyped
<1> QED
  BY <1>1, <1>2, <1>3, LoopInv

LEMMA EpollWaitInv ==
  ASSUME FdInv, NEW t \in Threads, EpollWait(t)
  PROVE  FdInv'
<1>1. report' \in [Threads -> SUBSET Reports]
  <2>1. PICK ready \in SUBSET {f \in Fds : epoll[f] # {}} :
        \E mask \in [ready -> SUBSET Kinds], err \in [ready -> BOOLEAN] :
          report' = [report EXCEPT ![t] =
                       {[fd |-> f, mask |-> mask[f], err |-> err[f]] : f \in ready}]
    BY DEF EpollWait
  <2>2. PICK mask \in [ready -> SUBSET Kinds], err \in [ready -> BOOLEAN] :
          report' = [report EXCEPT ![t] =
                       {[fd |-> f, mask |-> mask[f], err |-> err[f]] : f \in ready}]
    BY <2>1
  <2>3. {[fd |-> f, mask |-> mask[f], err |-> err[f]] : f \in ready} \in SUBSET Reports
    BY DEF Reports
  <2> QED
    BY <2>2, <2>3 DEF FdInv, TypeOK
<1> QED
  BY <1>1, LoopInv DEF EpollWait, At, Holding

(* triggerEvent: the bit and the context go together, whether or not the   *)
(* assertion holds.                                                        *)
LEMMA TriggerEventInv ==
  ASSUME FdInv, NEW t \in Threads, NEW e \in Kinds, TriggerEvent(t, e)
  PROVE  FdInv'
<1> USE FdEventsAssumption DEF FdInv, At
<1> DEFINE f == work[t].fd
           w == [work[t] EXCEPT !.todo = @ \ {e}]
<1>1. f \in Fds /\ mutex[f] = t /\ pc[t] = "trigger" /\ ~aborted /\ e \in work[t].todo
  BY DEF TriggerEvent, Held, Holding
<1>2. /\ events' = [events EXCEPT ![f] = @ \ {e}]
      /\ context' = [context EXCEPT ![f][e] = None]
      /\ work' = [work EXCEPT ![t] = w]
      /\ pc' = [pc EXCEPT ![t] = "count"]
      /\ queue' = queue \cup ({context[f][e]} \ {None})
      /\ aborted' = (e \notin events[f])
      /\ UNCHANGED <<mutex, epoll, m_pendingEventCount, report, done, deleted>>
  BY DEF TriggerEvent
<1>3. w.fd = f /\ w.todo = work[t].todo \ {e} /\ w \in [fd : Fds \cup {None}, todo : SUBSET Kinds]
  BY DEF TypeOK
<1> HIDE DEF f, w
<1>4. \A g \in Fds : events'[g] = IF g = f THEN events[f] \ {e} ELSE events[g]
  BY <1>2 DEF TypeOK
<1>5. \A s \in Threads : pc'[s] = IF s = t THEN "count" ELSE pc[s]
  BY <1>2 DEF TypeOK
<1>6. \A s \in Threads : work'[s] = IF s = t THEN w ELSE work[s]
  BY <1>2 DEF TypeOK
<1>7. work[t].fd = f
  BY DEF f
<1>8. TypeOK'
  <2>1. aborted' \in BOOLEAN
    BY <1>2, Zenon
  <2>2. context[f][e] \in Regs \cup {None}
    BY <1>1 DEF TypeOK
  <2>3. context' \in [Fds -> [Kinds -> Regs \cup {None}]]
    BY <1>1, <1>2 DEF TypeOK
  <2> QED
    BY <1>1, <1>2, <1>3, <2>1, <2>2, <2>3 DEF TypeOK
<1>9. Held'
  <2>1. \A s \in Threads : pc'[s] \in Holding => work'[s].fd \in Fds /\ mutex'[work'[s].fd] = s
    BY <1>1, <1>2, <1>3, <1>5, <1>6, <1>7 DEF Held
  <2>2. ASSUME NEW g \in Fds, mutex[g] # None
        PROVE  /\ pc'[mutex[g]] \in Holding
               /\ work'[mutex[g]].fd = g
               /\ epoll[g] = events'[g] \ work'[mutex[g]].todo
    <3>0. mutex[g] \in Threads /\ work[mutex[g]].fd = g /\ epoll[g] = events[g] \ work[mutex[g]].todo
      BY <2>2 DEF Held, TypeOK
    <3>1. CASE g = f
      <4>1. mutex[g] = t
        BY <3>1, <1>1
      <4>2. events'[f] \ w.todo = events[f] \ work[t].todo
        BY <1>1, <1>3, <1>4
      <4> QED
        BY <3>0, <3>1, <4>1, <4>2, <1>3, <1>5, <1>6 DEF Holding
    <3>2. CASE g # f
      <4>1. mutex[g] # t
        BY <3>0, <3>2, <1>7
      <4> QED
        BY <2>2, <3>0, <3>2, <4>1, <1>4, <1>5, <1>6 DEF Held
    <3> QED
      BY <3>1, <3>2
  <2> QED
    BY <2>1, <2>2, <1>2 DEF Held
<1>10. WatchedIsRegistered'
  BY <1>1, <1>2, <1>4 DEF WatchedIsRegistered
<1>11. CASE e \notin events[f]
  <2>1. aborted'
    BY <1>2, <1>11
  <2> QED
    BY <2>1, <1>8, <1>9, <1>10 DEF PendingExact, OneOutcome
<1>12. CASE e \in events[f]
  <2>1. ~aborted'
    BY <1>2, <1>12
  <2>2. PendingExact'
    <3>1. Cardinality(Pending') = Cardinality(Pending) - 1
      BY <1>1, <1>2, <1>12, PendingRemove
    <3>2. Cardinality(Counting') = Cardinality(Counting) + 1
      BY <1>1, <1>2, CountingMove
    <3> QED
      BY <1>1, <1>2, <2>1, <3>1, <3>2, BooksFinite DEF PendingExact
  <2>3. /\ context[f][e] \in Registered
        /\ Registered' = Registered \ {context[f][e]}
        /\ \A g \in Fds, d \in Kinds : d \in events'[g] <=> context'[g][d] # None
        /\ \A g, h \in Fds, d, k \in Kinds :
             context'[g][d] # None /\ context'[g][d] = context'[h][k] => g = h /\ d = k
    BY <1>1, <1>2, <1>12, ContextReset
  <2>4. queue' = queue \cup {context[f][e]}
    BY <1>2, <2>3 DEF Registered
  <2>5. OneOutcome'
    BY <1>1, <1>2, <2>3, <2>4 DEF OneOutcome
  <2> QED
    BY <2>2, <2>5, <1>8, <1>9, <1>10
<1> QED
  BY <1>11, <1>12

(* The decrement: the last one unlocks the context, whose kernel entry is  *)
(* by then what is registered.                                             *)
LEMMA CountDownInv ==
  ASSUME FdInv, NEW t \in Threads, CountDown(t)
  PROVE  FdInv'
<1> USE FdEventsAssumption DEF FdInv, At
<1> DEFINE f == work[t].fd
<1>1. f \in Fds /\ mutex[f] = t /\ pc[t] = "count" /\ ~aborted /\ epoll[f] = events[f] \ work[t].todo
  BY DEF CountDown, Held, Holding
<1>2. UNCHANGED <<events, context, epoll, report, queue, done, deleted, aborted>>
        /\ m_pendingEventCount' = m_pendingEventCount - 1
  BY DEF CountDown, fdVars, outVars
<1>3. PICK l \in {"trigger", "free", "loop"} : pc' = [pc EXCEPT ![t] = l]
  BY DEF CountDown
<1>4. PendingExact'
  <2>1. Cardinality(Counting') = Cardinality(Counting) - 1
    BY <1>1, <1>3, CountingMove
  <2>2. Pending' = Pending
    BY <1>2 DEF Pending
  <2> QED
    BY <1>1, <1>2, <2>1, <2>2, BooksFinite DEF PendingExact
<1>5. m_pendingEventCount' \in Nat
  BY <1>1, <1>2, <1>4, BooksFinitePrime DEF PendingExact
<1>6. TypeOK'
  <2>1. pc' \in [Threads -> {"free", "loop", "trigger", "count"}]
    BY <1>3 DEF TypeOK
  <2>2. mutex' \in [Fds -> Threads \cup {None}]
    BY DEF CountDown, TypeOK
  <2>3. work' \in [Threads -> [fd : Fds \cup {None}, todo : SUBSET Kinds]]
    BY DEF CountDown, TypeOK, Idle
  <2> QED
    BY <1>2, <1>5, <2>1, <2>2, <2>3 DEF TypeOK
<1>7. OneOutcome'
  <2>1. Registered' = Registered
    BY <1>2 DEF Registered
  <2>2. UNCHANGED <<events, context, queue, done, deleted, aborted>>
    BY <1>2
  <2> QED
    BY <2>1, <2>2 DEF OneOutcome
<1>8. \A g \in Fds : mutex[g] = t => g = f
  BY DEF Held
<1>9. Held' /\ WatchedIsRegistered'
  <2>1. CASE work[t].todo # {}
    <3>1. pc' = [pc EXCEPT ![t] = "trigger"] /\ UNCHANGED <<mutex, work>>
      BY <2>1 DEF CountDown
    <3>2. \A s \in Threads : pc'[s] = IF s = t THEN "trigger" ELSE pc[s]
      BY <3>1 DEF TypeOK
    <3> QED
      BY <1>1, <1>2, <3>1, <3>2 DEF Held, WatchedIsRegistered, Holding, TypeOK
  <2>2. CASE work[t].todo = {}
    <3>1. /\ mutex' = [mutex EXCEPT ![f] = None]
          /\ work' = [work EXCEPT ![t] = Idle]
      BY <2>2 DEF CountDown
    <3>2. \A s \in Threads : s # t => pc'[s] = pc[s] /\ work'[s] = work[s]
      BY <1>3, <3>1 DEF TypeOK
    <3>3. pc'[t] \notin Holding
      BY <2>2 DEF CountDown, Holding, TypeOK
    <3>4. \A g \in Fds : mutex'[g] = IF g = f THEN None ELSE mutex[g]
      BY <1>1, <3>1 DEF TypeOK
    <3>5. epoll[f] = events[f]
      BY <1>1, <2>2
    <3>6. \A s \in Threads : pc'[s] \in Holding => work'[s].fd \in Fds /\ mutex'[work'[s].fd] = s
      <4> SUFFICES ASSUME NEW s \in Threads, pc'[s] \in Holding
                   PROVE  work'[s].fd \in Fds /\ mutex'[work'[s].fd] = s
        OBVIOUS
      <4>1. s # t
        BY <3>3
      <4>2. work[s].fd \in Fds /\ mutex[work[s].fd] = s
        BY <4>1, <3>2 DEF Held
      <4>3. work[s].fd # f
        BY <4>1, <4>2, <1>1
      <4> QED
        BY <3>2, <3>4, <4>1, <4>2, <4>3
    <3>7. ASSUME NEW g \in Fds, mutex'[g] # None
          PROVE  /\ pc'[mutex'[g]] \in Holding
                 /\ work'[mutex'[g]].fd = g
                 /\ epoll'[g] = events'[g] \ work'[mutex'[g]].todo
      <4>1. g # f /\ mutex'[g] = mutex[g] /\ mutex[g] \in Threads /\ mutex[g] # t
        BY <3>4, <3>7, <1>8 DEF TypeOK
      <4> QED
        BY <3>2, <3>7, <4>1, <1>2 DEF Held
    <3>8. Held'
      BY <3>6, <3>7 DEF Held
    <3> QED
      BY <3>4, <3>5, <3>8, <1>2 DEF WatchedIsRegistered
  <2> QED
    BY <2>1, <2>2
<1> QED
  BY <1>4, <1>6, <1>7, <1>9

LEMMA RunCallbackInv ==
  ASSUME FdInv, NEW r \in Regs, RunCallback(r)
  PROVE  FdInv'
<1> USE DEF FdInv, RunCallback, fdVars
<1>1. TypeOK' /\ Held' /\ WatchedIsRegistered'
  BY DEF TypeOK, Held, WatchedIsRegistered
<1>2. PendingExact'
  BY DEF PendingExact, Pending, Counting
<1>3. OneOutcome'
  BY DEF OneOutcome, Registered
<1> QED
  BY <1>1, <1>2, <1>3

LEMMA FdInvStep == FdInv /\ [Next \/ Exhausted]_vars => FdInv'
<1> SUFFICES ASSUME FdInv, [Next \/ Exhausted]_vars
             PROVE  FdInv'
  OBVIOUS
<1>1. CASE UNCHANGED vars
  BY <1>1 DEF vars, fdVars, outVars, FdInv, TypeOK, Held, WatchedIsRegistered, PendingExact,
     Pending, Counting, OneOutcome, Registered
<1>2. CASE Next
  BY <1>2, AddEventInv, AddTwiceInv, DelEventInv, CancelInv, TriggerEventInv, CountDownInv, EpollWaitInv,
     PassReportInv, HandleReportInv, RunCallbackInv DEF Next
<1> QED
  BY <1>1, <1>2 DEF Exhausted

LEMMA FdInvAlways == Spec => []FdInv
BY FdInitInv, FdInvStep, PTL DEF Spec

(* Between any calls of addEvent, delEvent, cancelEvent and cancelAll and  *)
(* the loop of idle(), in any number of threads: m_pendingEventCount, on   *)
(* which stopping() relies, counts the registered events and the callbacks *)
(* queued but not yet taken back, and an unlocked context is watched by    *)
(* the kernel for exactly the events registered in it.                     *)
THEOREM RegistrationBooks == Spec => []BooksAgree
<1>1. FdInv => BooksAgree
  BY DEF FdInv, BooksAgree
<1> QED
  BY <1>1, FdInvAlways, PTL

(* triggerEvent and delEvent give every registered callback one outcome:   *)
(* it waits in the context whose bit is set, is queued once, ran or was    *)
(* deleted; it is never in two contexts, dropped or queued again.          *)
THEOREM CallbackOnce == Spec => []OneOutcome
<1>1. FdInv => OneOutcome
  BY DEF FdInv
<1> QED
  BY <1>1, FdInvAlways, PTL

-----------------------------------------------------------------------------
(* ContextTable. *)

Places == [pc : {"away", "add", "remove", "grow"}, fd : Nat \cup {-1},
           kind : EventKinds \cup {"none"}, ctx : Nat]

Typed ==
  /\ size \in Nat /\ size >= FirstSize
  /\ made \in [Numbers -> Nat]
  /\ at \in [Callers -> Places]
  /\ through \in [Numbers -> [EventKinds -> Nat]]
  /\ late \in BOOLEAN

(* What is in the table was made; who grows it was beyond its first size.  *)
Grounded ==
  /\ \A d \in Numbers : d < size => made[d] > 0
  /\ \A t \in Callers : at[t].pc # "away" => at[t].fd \in Numbers /\ at[t].kind \in EventKinds
  /\ \A t \in Callers : at[t].pc = "grow" => at[t].fd >= FirstSize

TableInv == Typed /\ Grounded /\ IndexInRange /\ ContextKept

(* Growing makes room for the descriptor it is for. *)
LEMMA GrownToFits ==
  ASSUME NEW d \in Nat, d >= 2
  PROVE  GrownTo(d) \in Nat /\ GrownTo(d) > d
BY DEF GrownTo

LEMMA TableInitInv == TableInit => TableInv
<1> SUFFICES ASSUME TableInit
             PROVE  TableInv
  OBVIOUS
<1> USE TableAssumption DEF TableInit
<1>1. Away \in Places /\ Away.pc = "away" /\ NoCtx \in Nat
  BY DEF Away, Places, NoCtx
<1>2. Typed
  <2>1. made \in [Numbers -> Nat] /\ at \in [Callers -> Places]
    BY <1>1
  <2>2. through \in [Numbers -> [EventKinds -> Nat]]
    BY <1>1
  <2>3. size \in Nat /\ size >= FirstSize
    OBVIOUS
  <2>4. late \in BOOLEAN
    BY Zenon
  <2> QED
    BY <2>1, <2>2, <2>3, <2>4 DEF Typed
<1>3. Grounded
  BY <1>1 DEF Grounded
<1>4. IndexInRange
  BY <1>1 DEF IndexInRange
<1>5. ContextKept
  BY <1>1 DEF ContextKept
<1> QED
  BY <1>2, <1>3, <1>4, <1>5 DEF TableInv

LEMMA LookUpInv ==
  ASSUME TableInv, NEW t \in Callers, NEW op \in {"add", "remove"}, NEW d \in Numbers,
         NEW k \in EventKinds, LookUp(t, op, d, k)
  PROVE  TableInv'
<1> USE TableAssumption DEF TableInv
<1> d \in Nat
  OBVIOUS
<1> DEFINE p == [pc |-> IF d < size THEN op ELSE "grow", fd |-> d, kind |-> k,
                 ctx |-> IF d < size THEN made[d] ELSE NoCtx]
<1>1. p \in Places
  BY DEF Typed, Places, NoCtx
<1>2. at' = [at EXCEPT ![t] = p] /\ UNCHANGED <<size, made, through, late>>
  BY DEF LookUp
<1>3. \A s \in Callers : at'[s] = IF s = t THEN p ELSE at[s]
  BY <1>2 DEF Typed
<1> HIDE DEF p
<1>4. Typed'
  BY <1>1, <1>2 DEF Typed
<1>5. p.fd = d /\ p.kind = k /\ (p.pc # "grow" => d < size /\ p.ctx = made[d])
        /\ (p.pc = "grow" => d >= size)
  BY DEF p, Typed
<1>6. Grounded'
  BY <1>2, <1>3, <1>5 DEF Grounded, Typed
<1>7. IndexInRange'
  BY <1>2, <1>3, <1>5 DEF IndexInRange, Grounded, Typed
<1>8. ContextKept'
  BY <1>2, <1>3, <1>5 DEF ContextKept, Typed
<1> QED
  BY <1>4, <1>6, <1>7, <1>8

LEMMA GrowInv ==
  ASSUME TableInv, NEW t \in Callers, Grow(t)
  PROVE  TableInv'
<1> USE TableAssumption DEF TableInv
<1> DEFINE fd == at[t].fd
<1>1. fd \in Numbers /\ fd \in Nat /\ fd >= FirstSize /\ fd >= 2
  BY DEF Grow, Grounded
<1>2. size' = GrownTo(fd) /\ size' \in Nat /\ size' > fd
  BY <1>1, GrownToFits DEF Grow
<1>3. made' = [d \in Numbers |-> IF size <= d /\ d < size' THEN made[d] + 1 ELSE made[d]]
  BY <1>2 DEF Grow, ContextResize
<1>4. \A d \in Numbers : made'[d] \in Nat /\ made'[d] >= made[d]
  BY <1>3 DEF Typed
<1> DEFINE p == [at[t] EXCEPT !.pc = "add", !.ctx = made'[fd]]
<1>5. at' = [at EXCEPT ![t] = p]
  BY <1>2 DEF Grow, Typed, Places
<1>6. p \in Places /\ p.pc = "add" /\ p.fd = fd /\ p.kind = at[t].kind /\ p.ctx = made'[fd]
  BY <1>1, <1>4 DEF Typed, Places
<1> HIDE DEF p
<1>7. \A s \in Callers : at'[s] = IF s = t THEN p ELSE at[s]
  BY <1>5 DEF Typed
<1>8. UNCHANGED through /\ late' = (late \/ fd < size)
  BY DEF Grow
<1>9. Typed'
  <2>1. made' \in [Numbers -> Nat]
    BY <1>3, <1>4
  <2>2. at' \in [Callers -> Places]
    BY <1>5, <1>6 DEF Typed
  <2> QED
    BY <1>1, <1>2, <1>8, <2>1, <2>2 DEF Typed
<1>10. \A d \in Numbers : d < size' => made'[d] > 0
  BY <1>2, <1>3 DEF Typed, Grounded
<1>11. at[t].kind \in EventKinds
  BY DEF Grow, Grounded
<1>12. Grounded'
  BY <1>1, <1>6, <1>7, <1>10, <1>11 DEF Grounded
<1>13. IndexInRange'
  <2>1. ASSUME NEW s \in Callers, at'[s].pc \in {"add", "remove"}
        PROVE  at'[s].fd \in Numbers /\ at'[s].ctx \in 1..made'[at'[s].fd]
    <3>1. CASE s = t
      BY <3>1, <1>1, <1>2, <1>4, <1>6, <1>7, <1>10
    <3>2. CASE s # t
      <4>1. at'[s] = at[s] /\ at[s].pc \in {"add", "remove"}
        BY <3>2, <2>1, <1>7
      <4>2. at[s].fd \in Numbers /\ at[s].ctx \in 1..made[at[s].fd]
        BY <4>1 DEF IndexInRange
      <4>3. made[at[s].fd] \in Nat /\ made'[at[s].fd] \in Nat /\ made'[at[s].fd] >= made[at[s].fd]
        BY <4>2, <1>4 DEF Typed
      <4> QED
        BY <4>1, <4>2, <4>3
    <3> QED
      BY <3>1, <3>2
  <2> QED
    BY <2>1, <1>1, <1>2 DEF IndexInRange
<1>14. ContextKept'
  <2> SUFFICES ASSUME ~late'
               PROVE  ContextKept'
    BY DEF ContextKept
  <2>0. ~late /\ ~(fd < size)
    BY <1>8 DEF Typed
  <2>1. ~late /\ size <= fd /\ size < size'
    <3>1. size \in Nat
      BY DEF Typed
    <3> HIDE DEF fd
    <3> QED
      BY <3>1, <2>0, <1>1, <1>2
  <2>2. \A d \in Numbers : d < size => d < size' /\ made'[d] = made[d]
    BY <2>1, <1>2, <1>3 DEF Typed
  <2>3. ASSUME NEW s \in Callers, at'[s].pc \in {"add", "remove"}
        PROVE  at'[s].fd < size' /\ at'[s].ctx = made'[at'[s].fd]
    <3>1. CASE s = t
      BY <3>1, <1>2, <1>6, <1>7
    <3>2. CASE s # t
      BY <3>2, <2>1, <2>2, <2>3, <1>7 DEF ContextKept, Grounded
    <3> QED
      BY <3>1, <3>2
  <2> QED
    BY <2>1, <2>2, <2>3, <1>8 DEF ContextKept
<1> QED
  BY <1>9, <1>12, <1>13, <1>14

(* Register and Remove end a call: they touch one event. *)
LEMMA EndInv ==
  ASSUME TableInv, NEW t \in Callers, Register(t) \/ Remove(t)
  PROVE  TableInv'
<1> USE TableAssumption DEF TableInv
<1> DEFINE fd == at[t].fd
           kind == at[t].kind
<1>1. at[t].pc \in {"add", "remove"} /\ fd \in Numbers /\ kind \in EventKinds
  BY DEF Register, Remove, Grounded
<1>2. at' = [at EXCEPT ![t] = Away] /\ UNCHANGED <<size, made, late>>
  BY DEF Register, Remove
<1>3. Away \in Places /\ Away.pc = "away"
  BY DEF Away, Places, NoCtx
<1>4. \A s \in Callers : at'[s] = IF s = t THEN Away ELSE at[s]
  BY <1>2 DEF Typed
<1>5. \E c \in {at[t].ctx, NoCtx} :
        through' = through \/ through' = [through EXCEPT ![fd][kind] = c]
  BY DEF Register, Remove
<1>6. at[t].ctx \in Nat /\ NoCtx \in Nat
  BY DEF Typed, Places, NoCtx
<1>7. Typed'
  BY <1>1, <1>2, <1>3, <1>5, <1>6 DEF Typed
<1>8. Grounded'
  BY <1>2, <1>3, <1>4 DEF Grounded
<1>9. IndexInRange'
  BY <1>2, <1>3, <1>4 DEF IndexInRange
<1>10. ContextKept'
  <2> SUFFICES ASSUME ~late'
               PROVE  ContextKept'
    BY DEF ContextKept
  <2>1. ASSUME NEW d \in Numbers, NEW k \in EventKinds, through'[d][k] # NoCtx
        PROVE  d < size' /\ through'[d][k] = made'[d]
    <3>1. through'[d][k] = through[d][k] \/ (d = fd /\ through'[d][k] = at[t].ctx)
      BY <2>1, <1>1, <1>5 DEF Typed
    <3> QED
      BY <3>1, <2>1, <1>1, <1>2 DEF ContextKept
  <2> QED
    BY <2>1, <1>2, <1>3, <1>4 DEF ContextKept
<1> QED
  BY <1>7, <1>8, <1>9, <1>10

LEMMA TableInvAlways == TableSpec => []TableInv
<1>1. TableInit => TableInv
  BY TableInitInv
<1>2. TableInv /\ [TableNext]_tableVars => TableInv'
  <2> SUFFICES ASSUME TableInv, [TableNext]_tableVars
               PROVE  TableInv'
    OBVIOUS
  <2>1. CASE TableNext
    BY <2>1, LookUpInv, GrowInv, EndInv DEF TableNext
  <2>2. CASE UNCHANGED tableVars
    BY <2>2 DEF tableVars, TableInv, Typed, Grounded, IndexInRange, ContextKept
  <2> QED
    BY <2>1, <2>2
<1> QED
  BY <1>1, <1>2, PTL DEF TableSpec

(* No look-up or resize of IOManager's table indexes past its end, however *)
(* the threads' locks interleave.                                          *)
THEOREM IndexInRangeCorrect == TableSpec => []IndexInRange
<1>1. TableInv => IndexInRange
  BY DEF TableInv
<1> QED
  BY <1>1, TableInvAlways, PTL

(* Unless a thread resizes a table that has grown since its look-up, the   *)
(* context an event is registered through stays the one the table holds.   *)
THEOREM ContextKeptCorrect == TableSpec => []ContextKept
<1>1. TableInv => ContextKept
  BY DEF TableInv
<1> QED
  BY <1>1, TableInvAlways, PTL

(* Both together: the table of contexts is sound (IOManager::addEvent,     *)
(* contextResize), for any callers and descriptors.                        *)
THEOREM TableSoundCorrect == TableSpec => []TableSound
<1>1. TableInv => TableSound
  BY DEF TableInv, TableSound
<1> QED
  BY <1>1, TableInvAlways, PTL
=============================================================================

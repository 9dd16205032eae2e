--------------------------- MODULE LibraryProofs ----------------------------
(***************************************************************************)
(* Theorems about Config, for any threads, variables, listeners and        *)
(* documents, and about Log, for any loggers, appenders, threads, patterns,*)
(* levels and moments.                                                     *)
(***************************************************************************)
EXTENDS Config, Log, SequenceTheorems, TLAPS

(* Config. *)

(* The inductive invariant: the old value a thread announces can only go   *)
(* stale while somebody else stores, which the exact set of readers rules  *)
(* out; and the readers can be told from the threads only if every thread  *)
(* that is in setValue has a variable.                                     *)
IInv == TypeOK /\ ReadersExact /\ OldValueCurrent

(* Where a thread goes after setValue: out of it, the others unmoved. *)
LEMMA DoneMoves ==
  ASSUME TypeOK, NEW t \in Threads
  PROVE  /\ Done(t) \in [Threads -> ThreadState]
         /\ Done(t)[t].pc \in {"idle", "load"}
         /\ \A s \in Threads \ {t} : Done(t)[s] = th[s]
<1>1. Idle \in ThreadState /\ [Idle EXCEPT !.pc = "load"] \in ThreadState
  BY DEF Idle, ThreadState
<1>2. Idle.pc = "idle" /\ [Idle EXCEPT !.pc = "load"].pc = "load"
  BY DEF Idle
<1> QED
  BY <1>1, <1>2 DEF TypeOK, Done

LEMMA InitIInv == Init => IInv
BY ConfigAssumption DEF Init, IInv, TypeOK, ThreadState, ReadersExact, OldValueCurrent, Idle

(* The beginning of setValue, whoever calls it. *)
Starts(t, n, v) == th' = [th EXCEPT ![t] = [Idle EXCEPT !.pc = "lock", !.var = n, !.new = v]]

(* The next node of a document is passed over, or begins a setValue of one *)
(* of the variables.                                                       *)
LEMMA NextStarts ==
  ASSUME NEW t \in Threads, LoadNext(t)
  PROVE  th' = th \/ \E n \in Names, v \in Values : Starts(t, n, v)
<1> DEFINE n == Lower(Head(load[t].todo).key)
           v == FromString(n, Head(load[t].todo).text)
<1>1. th' = IF v \notin Values THEN th
            ELSE [th EXCEPT ![t] = [Idle EXCEPT !.pc = "lock", !.var = n, !.new = v]]
  BY DEF LoadNext
<1>2. v \in Values => n \in Names
  BY ConfigAssumption DEF FromString
<1> HIDE DEF n, v
<1> QED
  BY <1>1, <1>2 DEF Starts

LEMMA StartTyped ==
  ASSUME TypeOK, NEW t \in Threads, NEW n \in Names, NEW v \in Values, Starts(t, n, v),
         UNCHANGED <<type, val, cbs, readers, heard>>
  PROVE  TypeOK'
BY ConfigAssumption DEF Starts, TypeOK, ThreadState, Idle

(* Every step keeps the types. *)
LEMMA TypeStep == TypeOK /\ [Next]_vars => TypeOK'
<1> SUFFICES ASSUME TypeOK, [Next]_vars PROVE TypeOK'
  OBVIOUS
<1> USE ConfigAssumption
<1>1. ASSUME NEW n \in Names, NEW ty \in Types, Lookup(n, ty) PROVE TypeOK'
  BY <1>1 DEF Lookup, Create, TypeOK
<1>2. ASSUME NEW n \in Names, NEW l \in Listeners, AddListener(n, l) PROVE TypeOK'
  BY <1>2 DEF AddListener, CanWrite, TypeOK
<1>3. ASSUME NEW n \in Names, NEW ls \in SUBSET Listeners, DelListeners(n, ls) PROVE TypeOK'
  BY <1>3 DEF DelListeners, TypeOK
<1>4. ASSUME NEW t \in Threads, NEW n \in Names, NEW v \in Values, CallSet(t, n, v)
      PROVE  TypeOK'
  BY <1>4, StartTyped DEF CallSet, Starts
<1>5. ASSUME NEW t \in Threads, NEW doc \in Docs, LoadFromYaml(t, doc) PROVE TypeOK'
  BY <1>5 DEF LoadFromYaml, TypeOK, ThreadState, Idle
<1>6. ASSUME NEW t \in Threads, ThreadStep(t) PROVE TypeOK'
  <2>1. CASE Lock(t)
    <3>1. CASE th[t].new = val[th[t].var]
      BY <2>1, <3>1, DoneMoves DEF Lock, TypeOK
    <3>2. CASE th[t].new # val[th[t].var]
      BY <2>1, <3>2 DEF Lock, ToTell, TypeOK, ThreadState
    <3> QED
      BY <3>1, <3>2
  <2>2. CASE Notify(t)
    <3>1. CASE th' = Done(t) /\ readers' = Unlocked(t) /\ UNCHANGED heard
      BY <2>2, <3>1, DoneMoves DEF Notify, Unlocked, TypeOK
    <3>2. ASSUME NEW l \in th[t].left, heard' = [heard EXCEPT ![l] = th[t].new],
                 th' = [th EXCEPT ![t].left = @ \ {l}], UNCHANGED readers
          PROVE  TypeOK'
      BY <2>2, <3>2 DEF Notify, TypeOK, ThreadState
    <3> QED
      BY <2>2, <3>1, <3>2 DEF Notify
  <2>3. CASE Notified(t)
    BY <2>3 DEF Notified, Unlocked, TypeOK, ThreadState
  <2>4. CASE Store(t)
    BY <2>4, DoneMoves DEF Store, TypeOK
  <2>5. CASE LoadNext(t)
    <3>1. CASE th' = th
      BY <2>5, <3>1 DEF LoadNext, TypeOK
    <3>2. CASE \E n \in Names, v \in Values : Starts(t, n, v)
      BY <2>5, <3>2, StartTyped DEF LoadNext
    <3> QED
      BY <2>5, <3>1, <3>2, NextStarts
  <2>6. CASE LoadEnd(t)
    BY <2>6 DEF LoadEnd, TypeOK, ThreadState, Idle
  <2> QED
    BY <1>6, <2>1, <2>2, <2>3, <2>4, <2>5, <2>6 DEF ThreadStep
<1>7. CASE UNCHANGED vars
  BY <1>7 DEF vars, TypeOK
<1> QED
  BY <1>1, <1>2, <1>3, <1>4, <1>5, <1>6, <1>7 DEF Next

(* What a step may do to the other threads: nothing.  And a step that is   *)
(* no setValue's leaves the readers, and who is telling, as they are.      *)
LEMMA ReadersStep == TypeOK /\ ReadersExact /\ [Next]_vars => ReadersExact'
<1> SUFFICES ASSUME TypeOK, ReadersExact, [Next]_vars PROVE ReadersExact'
  OBVIOUS
<1> USE ConfigAssumption
<1>1. CASE UNCHANGED <<th, readers>>
  BY <1>1 DEF ReadersExact
<1>2. ASSUME NEW t \in Threads, th[t].pc # "notify", UNCHANGED readers,
             \A s \in Threads \ {t} : th'[s] = th[s], th'[t].pc # "notify"
      PROVE  ReadersExact'
  BY <1>2 DEF ReadersExact
<1>3. ASSUME NEW t \in Threads, th[t].pc = "notify", readers' = Unlocked(t),
             \A s \in Threads \ {t} : th'[s] = th[s], th'[t].pc # "notify"
      PROVE  ReadersExact'
  <2> SUFFICES ASSUME NEW n \in Names
               PROVE  readers'[n] = {s \in Threads : th'[s].pc = "notify" /\ th'[s].var = n}
    BY DEF ReadersExact
  <2>1. readers'[n] = IF n = th[t].var THEN readers[n] \ {t} ELSE readers[n]
    BY <1>3 DEF Unlocked, TypeOK
  <2>2. readers[n] = {s \in Threads : th[s].pc = "notify" /\ th[s].var = n}
    BY DEF ReadersExact
  <2> QED
    BY <1>3, <2>1, <2>2
<1>4. ASSUME NEW t \in Threads, NEW n \in Names, NEW v \in Values, Starts(t, n, v),
             th[t].pc # "notify", UNCHANGED readers
      PROVE  ReadersExact'
  BY <1>4, <1>2 DEF Starts, Idle, TypeOK
<1>5. ASSUME NEW t \in Threads, NEW n \in Names, NEW v \in Values, CallSet(t, n, v)
      PROVE  ReadersExact'
  <2>1. th[t].pc # "notify"
    BY <1>5 DEF CallSet, Idle
  <2> QED
    BY <1>5, <1>4, <2>1 DEF CallSet, Starts
<1>6. ASSUME NEW t \in Threads, NEW doc \in Docs, LoadFromYaml(t, doc) PROVE ReadersExact'
  BY <1>6, <1>2 DEF LoadFromYaml, Idle, TypeOK
<1>7. ASSUME NEW t \in Threads, ThreadStep(t) PROVE ReadersExact'
  <2>1. CASE Lock(t)
    <3>1. CASE th[t].new = val[th[t].var]
      BY <2>1, <3>1, <1>2, DoneMoves DEF Lock
    <3>2. CASE th[t].new # val[th[t].var]
      <4>1. /\ th'[t].pc = "notify" /\ th'[t].var = th[t].var
            /\ \A s \in Threads \ {t} : th'[s] = th[s]
        BY <2>1, <3>2 DEF Lock, TypeOK, ThreadState
      <4>2. readers' = [readers EXCEPT ![th[t].var] = @ \cup {t}]
        BY <2>1, <3>2 DEF Lock
      <4> SUFFICES ASSUME NEW n \in Names
                   PROVE  readers'[n] = {s \in Threads : th'[s].pc = "notify" /\ th'[s].var = n}
        BY DEF ReadersExact
      <4>3. readers'[n] = IF n = th[t].var THEN readers[n] \cup {t} ELSE readers[n]
        BY <4>2 DEF TypeOK
      <4>4. readers[n] = {s \in Threads : th[s].pc = "notify" /\ th[s].var = n}
        BY DEF ReadersExact
      <4>5. th[t].pc # "notify"
        BY <2>1 DEF Lock
      <4> QED
        BY <4>1, <4>3, <4>4, <4>5
    <3> QED
      BY <3>1, <3>2
  <2>2. CASE Notify(t)
    <3>1. CASE th' = Done(t) /\ readers' = Unlocked(t) /\ UNCHANGED heard
      BY <2>2, <3>1, <1>3, DoneMoves DEF Notify
    <3>2. ASSUME NEW l \in th[t].left, heard' = [heard EXCEPT ![l] = th[t].new],
                 th' = [th EXCEPT ![t].left = @ \ {l}], UNCHANGED readers
          PROVE  ReadersExact'
      <4>1. /\ th'[t].pc = th[t].pc /\ th'[t].var = th[t].var /\ readers' = readers
            /\ \A s \in Threads \ {t} : th'[s] = th[s]
        BY <2>2, <3>2 DEF Notify, TypeOK, ThreadState
      <4> QED
        BY <4>1 DEF ReadersExact
    <3> QED
      BY <2>2, <3>1, <3>2 DEF Notify
  <2>3. CASE Notified(t)
    BY <2>3, <1>3 DEF Notified, TypeOK, ThreadState
  <2>4. CASE Store(t)
    BY <2>4, <1>2, DoneMoves DEF Store
  <2>5. CASE LoadNext(t)
    BY <2>5, <1>1, <1>4, NextStarts DEF LoadNext
  <2>6. CASE LoadEnd(t)
    BY <2>6, <1>2 DEF LoadEnd, TypeOK, Idle
  <2> QED
    BY <1>7, <2>1, <2>2, <2>3, <2>4, <2>5, <2>6 DEF ThreadStep
<1> QED
  BY <1>1, <1>5, <1>6, <1>7 DEF Next, Lookup, AddListener, DelListeners, vars

(* Only Lookup and Store write a value: Lookup when nobody runs, Store     *)
(* when, by ReadersExact, nobody tells.                                    *)
LEMMA OldValueStep == TypeOK /\ ReadersExact /\ OldValueCurrent /\ [Next]_vars => OldValueCurrent'
<1> SUFFICES ASSUME TypeOK, ReadersExact, OldValueCurrent, [Next]_vars PROVE OldValueCurrent'
  OBVIOUS
<1> USE ConfigAssumption
<1>1. CASE UNCHANGED <<th, val>>
  BY <1>1 DEF OldValueCurrent
<1>2. ASSUME NEW t \in Threads, UNCHANGED val,
             \A s \in Threads \ {t} : th'[s] = th[s], th'[t].pc # "notify"
      PROVE  OldValueCurrent'
  BY <1>2 DEF OldValueCurrent
<1>3. ASSUME NEW t \in Threads, NEW n \in Names, NEW v \in Values, Starts(t, n, v),
             UNCHANGED val
      PROVE  OldValueCurrent'
  BY <1>3, <1>2 DEF Starts, Idle, TypeOK
<1>4. ASSUME NEW n \in Names, NEW ty \in Types, Lookup(n, ty) PROVE OldValueCurrent'
  BY <1>4 DEF Lookup, NoThreads, Idle, OldValueCurrent
<1>5. ASSUME NEW t \in Threads, NEW n \in Names, NEW v \in Values, CallSet(t, n, v)
      PROVE  OldValueCurrent'
  BY <1>5, <1>3 DEF CallSet, Starts
<1>6. ASSUME NEW t \in Threads, NEW doc \in Docs, LoadFromYaml(t, doc) PROVE OldValueCurrent'
  BY <1>6, <1>2 DEF LoadFromYaml, Idle, TypeOK
<1>7. ASSUME NEW t \in Threads, ThreadStep(t) PROVE OldValueCurrent'
  <2>1. CASE Lock(t)
    <3>1. CASE th[t].new = val[th[t].var]
      BY <2>1, <3>1, <1>2, DoneMoves DEF Lock
    <3>2. CASE th[t].new # val[th[t].var]
      BY <2>1, <3>2 DEF Lock, TypeOK, ThreadState, OldValueCurrent
    <3> QED
      BY <3>1, <3>2
  <2>2. CASE Notify(t)
    <3>1. CASE th' = Done(t) /\ readers' = Unlocked(t) /\ UNCHANGED heard
      BY <2>2, <3>1, <1>2, DoneMoves DEF Notify
    <3>2. ASSUME NEW l \in th[t].left, heard' = [heard EXCEPT ![l] = th[t].new],
                 th' = [th EXCEPT ![t].left = @ \ {l}], UNCHANGED readers
          PROVE  OldValueCurrent'
      BY <2>2, <3>2 DEF Notify, TypeOK, ThreadState, OldValueCurrent
    <3> QED
      BY <2>2, <3>1, <3>2 DEF Notify
  <2>3. CASE Notified(t)
    BY <2>3, <1>2 DEF Notified, TypeOK, ThreadState
  <2>4. CASE Store(t)
    <3>1. th' = Done(t) /\ th[t].var \in Names /\ readers[th[t].var] = {}
      BY <2>4 DEF Store, MayStore, TypeOK
    <3>2. ASSUME NEW s \in Threads, th'[s].pc = "notify" PROVE val'[th'[s].var] = th'[s].old
      <4>1. s # t /\ th'[s] = th[s]
        BY <3>1, <3>2, DoneMoves
      <4>2. th[s].var # th[t].var /\ th[s].var \in Names
        BY <3>1, <3>2, <4>1 DEF ReadersExact, TypeOK
      <4> QED
        BY <2>4, <3>2, <4>1, <4>2 DEF Store, TypeOK, OldValueCurrent
    <3> QED
      BY <3>2 DEF OldValueCurrent
  <2>5. CASE LoadNext(t)
    BY <2>5, <1>1, <1>3, NextStarts DEF LoadNext
  <2>6. CASE LoadEnd(t)
    BY <2>6, <1>2 DEF LoadEnd, TypeOK, Idle
  <2> QED
    BY <1>7, <2>1, <2>2, <2>3, <2>4, <2>5, <2>6 DEF ThreadStep
<1> QED
  BY <1>1, <1>4, <1>5, <1>6, <1>7 DEF Next, AddListener, DelListeners, vars

LEMMA IInvAlways == Spec => []IInv
<1>1. IInv /\ [Next]_vars => IInv'
  BY TypeStep, ReadersStep, OldValueStep DEF IInv
<1> QED
  BY InitIInv, <1>1, PTL DEF Spec

(* Every behaviour keeps the types: in particular a variable that has been *)
(* looked up has a value, and a thread in setValue has one of the          *)
(* variables and a value to store.                                         *)
THEOREM ConfigTypeCorrect == Spec => []TypeOK
<1>1. IInv => TypeOK
  BY DEF IInv
<1> QED
  BY IInvAlways, <1>1, PTL

(* A thread holds the read lock of a variable exactly while it tells its   *)
(* listeners (ConfigVar::setValue), also when a listener throws.           *)
THEOREM ReadersExactCorrect == Spec => []ReadersExact
<1>1. IInv => ReadersExact
  BY DEF IInv
<1> QED
  BY IInvAlways, <1>1, PTL

(* The old value that listeners are told is the variable's value until the *)
(* last of them has been told (ConfigVar::setValue), for any threads,      *)
(* listeners and documents.                                                *)
THEOREM OldValueCorrect == Spec => []OldValueCurrent
<1>1. IInv => OldValueCurrent
  BY DEF IInv
<1> QED
  BY IInvAlways, <1>1, PTL

(* setValue tells the listeners of a variable under its read lock and      *)
(* nobody stores meanwhile, for any threads, listeners and documents.      *)
THEOREM ToldUnderLockCorrect == Spec => []ToldUnderLock
<1>1. IInv => ToldUnderLock
  BY DEF IInv, ToldUnderLock
<1> QED
  BY IInvAlways, <1>1, PTL

----------------------------------------------------------------------------
(* What listeners know.  One is registered with one variable, so that what *)
(* it hears is about that one; whoever tells still has listeners of the    *)
(* variable before it, since the read lock keeps them from changing.       *)
Registered ==
  /\ \A n, m \in Names : \A l \in cbs[n] \cap cbs[m] : n = m
  /\ \A n \in Names : type[n] = None => cbs[n] = {}
  /\ \A t \in Threads : th[t].pc = "notify" => th[t].left \subseteq cbs[th[t].var]
  /\ \A t \in Threads : th[t].pc = "store" => th[t].left = {}

(* While a variable's history is undisturbed, it has one setter at most;   *)
(* without one the listeners know the value, with one those it has told    *)
(* know the value that it will store.                                      *)
Sets(t, n) == th[t].var = n /\ th[t].pc \in {"notify", "store"}
KnownTo(n) ==
  /\ \A s, t \in Threads : Sets(s, n) /\ Sets(t, n) => s = t
  /\ (\A t \in Threads : ~Sets(t, n)) => \A l \in cbs[n] : heard[l] = val[n]
  /\ \A t \in Threads : Sets(t, n) => \A l \in cbs[n] : l \in th[t].left \/ heard[l] = th[t].new
Known == \A n \in Names : n \notin unheard => KnownTo(n)

(* A thread goes elsewhere, before or after setValue's announcement. *)
LEMMA QuietMove ==
  ASSUME TypeOK, Registered, Known, NEW t \in Threads,
         \A s \in Threads \ {t} : th'[s] = th[s],
         th[t].pc \notin {"notify", "store"}, th'[t].pc \notin {"notify", "store"},
         UNCHANGED <<type, val, cbs, heard, unheard>>
  PROVE  Registered' /\ Known'
<1>1. \A s \in Threads, n \in Names : Sets(s, n)' <=> Sets(s, n)
  BY DEF Sets
<1>2. \A s \in Threads, n \in Names : Sets(s, n) => th'[s] = th[s]
  BY DEF Sets
<1>3. Registered'
  BY DEF Registered
<1>4. Known'
  BY <1>1, <1>2 DEF Known, KnownTo
<1> QED
  BY <1>3, <1>4

LEMMA QuietStart ==
  ASSUME TypeOK, Registered, Known, NEW t \in Threads, NEW n \in Names, NEW v \in Values,
         Starts(t, n, v), th[t].pc \notin {"notify", "store"},
         UNCHANGED <<type, val, cbs, heard, unheard>>
  PROVE  Registered' /\ Known'
<1>1. /\ \A s \in Threads \ {t} : th'[s] = th[s]
      /\ th'[t].pc = "lock"
  BY DEF Starts, Idle, TypeOK
<1> QED
  BY <1>1, QuietMove

LEMMA LookupKnown ==
  ASSUME TypeOK, Registered, Known, NEW n \in Names, NEW ty \in Types, Lookup(n, ty)
  PROVE  Registered' /\ Known'
<1>1. cbs[n] = {} /\ UNCHANGED <<cbs, th, heard, unheard>>
  BY DEF Registered, Lookup
<1>2. \A m \in Names : m # n => val'[m] = val[m] /\ type'[m] = type[m]
  BY DEF Lookup, Create, TypeOK
<1>3. Registered'
  BY <1>1, <1>2 DEF Registered
<1>4. Known'
  BY <1>1, <1>2 DEF Known, KnownTo, Sets
<1> QED
  BY <1>3, <1>4

(* Registering waits for whoever tells the variable's listeners. *)
LEMMA NobodyTells ==
  ASSUME ReadersExact, NEW n \in Names, CanWrite(n)
  PROVE  \A t \in Threads : th[t].pc = "notify" => th[t].var # n
BY DEF ReadersExact, CanWrite

LEMMA AddListenerKnown ==
  ASSUME IInv, Registered, Known, NEW n \in Names, NEW l \in Listeners, AddListener(n, l)
  PROVE  Registered' /\ Known'
<1> USE DEF IInv
<1>1. /\ \A m \in Names : cbs'[m] = IF m = n THEN cbs[n] \cup {l} ELSE cbs[m]
      /\ \A k \in Listeners : heard'[k] = IF k = l THEN val[n] ELSE heard[k]
      /\ \A m \in Names : l \notin cbs[m] /\ cbs[m] \subseteq Listeners
      /\ type[n] # None /\ UNCHANGED <<type, val, th>>
  BY DEF AddListener, CanWrite, TypeOK
<1>2. \A t \in Threads : th[t].pc = "notify" => th[t].var # n /\ th[t].var \in Names
  BY NobodyTells DEF AddListener, TypeOK
<1>3. Registered'
  BY <1>1, <1>2 DEF Registered
<1>4. ASSUME NEW m \in Names, m \notin unheard'
      PROVE  KnownTo(m)'
  <2>1. m \notin unheard /\ KnownTo(m)
    BY <1>4 DEF AddListener, Known
  <2>2. \A t \in Threads : Sets(t, m)' <=> Sets(t, m)
    BY <1>1 DEF Sets
  <2>3. CASE m # n
    <3>1. \A k \in cbs'[m] : k \in cbs[m] /\ heard'[k] = heard[k]
      BY <1>1, <2>3
    <3> QED
      BY <1>1, <2>1, <2>2, <2>3, <3>1 DEF KnownTo
  <2>4. CASE m = n
    <3>1. \A t \in Threads : ~Sets(t, n)
      BY <1>4, <2>4 DEF AddListener, Setting, Sets
    <3>2. \A k \in cbs'[n] : heard'[k] = val[n]
      BY <1>1, <2>1, <2>4, <3>1 DEF KnownTo
    <3> QED
      BY <1>1, <2>2, <2>4, <3>1, <3>2 DEF KnownTo
  <2> QED
    BY <2>3, <2>4
<1> QED
  BY <1>3, <1>4 DEF Known

LEMMA DelListenersKnown ==
  ASSUME IInv, Registered, Known, NEW n \in Names, NEW ls \in SUBSET Listeners, DelListeners(n, ls)
  PROVE  Registered' /\ Known'
<1> USE DEF IInv
<1>1. /\ \A m \in Names : cbs'[m] = IF m = n THEN cbs[n] \ ls ELSE cbs[m]
      /\ UNCHANGED <<type, val, th, heard, unheard>>
  BY DEF DelListeners, TypeOK
<1>2. \A t \in Threads : th[t].pc = "notify" => th[t].var # n /\ th[t].var \in Names
  BY NobodyTells DEF DelListeners, TypeOK
<1>3. Registered'
  BY <1>1, <1>2 DEF Registered
<1>4. Known'
  BY <1>1 DEF Known, KnownTo, Sets
<1> QED
  BY <1>3, <1>4

(* A change is found: the thread will tell all the listeners, unless there *)
(* is another setter, in which case the history counts as disturbed.       *)
LEMMA AnnounceKnown ==
  ASSUME IInv, Registered, Known, NEW t \in Threads, Lock(t), th[t].new # val[th[t].var]
  PROVE  Registered' /\ Known'
<1> USE DEF IInv
<1> DEFINE n == th[t].var
<1>1. n \in Names /\ th[t].pc = "lock"
  BY DEF Lock, TypeOK
<1>2. /\ \A s \in Threads \ {t} : th'[s] = th[s]
      /\ th'[t].pc = "notify" /\ th'[t].var = n /\ th'[t].left = cbs[n] /\ th'[t].new = th[t].new
      /\ UNCHANGED <<type, val, cbs, heard>>
      /\ unheard' = IF Setting(n) # {} THEN unheard \cup {n} ELSE unheard
  BY DEF Lock, ToTell, TypeOK, ThreadState
<1> HIDE DEF n
<1>3. Registered'
  BY <1>2 DEF Registered
<1>4. ASSUME NEW m \in Names, m \notin unheard'
      PROVE  KnownTo(m)'
  <2>1. m \notin unheard /\ KnownTo(m)
    BY <1>2, <1>4 DEF Known
  <2>2. \A s \in Threads : s # t => (Sets(s, m)' <=> Sets(s, m)) /\ th'[s] = th[s]
    BY <1>2 DEF Sets
  <2>3. CASE m # n
    BY <1>1, <1>2, <2>1, <2>2, <2>3 DEF KnownTo, Sets, n
  <2>4. CASE m = n
    <3>1. \A s \in Threads : ~Sets(s, n)
      BY <1>2, <1>4, <2>4 DEF Setting, Sets
    <3>2. \A s \in Threads : Sets(s, m)' <=> s = t
      BY <1>2, <2>2, <2>4, <3>1 DEF Sets
    <3> QED
      BY <1>2, <2>4, <3>2 DEF KnownTo
  <2> QED
    BY <2>3, <2>4
<1> QED
  BY <1>3, <1>4 DEF Known

LEMMA NotifyKnown ==
  ASSUME IInv, Registered, Known, NEW t \in Threads, Notify(t)
  PROVE  Registered' /\ Known'
<1> USE DEF IInv
<1> DEFINE n == th[t].var
<1>1. n \in Names /\ th[t].pc = "notify" /\ UNCHANGED <<type, val, cbs>>
  BY DEF Notify, TypeOK
<1>2. CASE th' = Done(t) /\ UNCHANGED heard /\ unheard' = unheard \cup {n}
  <2>1. \A s \in Threads : s # t => th'[s] = th[s]
    BY <1>2, DoneMoves
  <2>2. th'[t].pc \in {"idle", "load"}
    BY <1>2, DoneMoves
  <2>3. Registered'
    BY <1>1, <2>1, <2>2 DEF Registered
  <2>4. ASSUME NEW m \in Names, m \notin unheard'
        PROVE  KnownTo(m)'
    <3>1. m # n /\ KnownTo(m)
      BY <1>2, <2>4 DEF Known
    <3>2. \A s \in Threads : Sets(s, m)' <=> Sets(s, m)
      BY <2>1, <2>2, <3>1 DEF Sets
    <3>3. \A s \in Threads : Sets(s, m) => th'[s] = th[s]
      BY <2>1, <3>1 DEF Sets
    <3> QED
      BY <1>1, <1>2, <3>1, <3>2, <3>3 DEF KnownTo
  <2> QED
    BY <2>3, <2>4 DEF Known
<1>3. ASSUME NEW l \in th[t].left, heard' = [heard EXCEPT ![l] = th[t].new],
             th' = [th EXCEPT ![t].left = @ \ {l}], UNCHANGED unheard
      PROVE  Registered' /\ Known'
  <2>1. /\ \A s \in Threads : s # t => th'[s] = th[s]
        /\ th'[t].pc = "notify" /\ th'[t].var = n /\ th'[t].new = th[t].new
        /\ th'[t].left = th[t].left \ {l}
    BY <1>1, <1>3 DEF TypeOK, ThreadState
  <2>2. l \in cbs[n] /\ l \in Listeners
    BY <1>1, <1>3 DEF Registered, TypeOK, ThreadState
  <2>3. \A k \in Listeners : heard'[k] = IF k = l THEN th[t].new ELSE heard[k]
    BY <1>3 DEF TypeOK
  <2> HIDE DEF n
  <2>4. Registered'
    BY <1>1, <2>1 DEF Registered, n
  <2>5. ASSUME NEW m \in Names, m \notin unheard
        PROVE  KnownTo(m)'
    <3>1. KnownTo(m) /\ cbs[m] \subseteq Listeners
      BY <2>5 DEF Known, TypeOK
    <3>2. \A s \in Threads : Sets(s, m)' <=> Sets(s, m)
      BY <1>1, <2>1 DEF Sets, n
    <3>3. CASE m # n
      <4>1. l \notin cbs[m]
        BY <1>1, <2>2, <3>3 DEF Registered
      <4>2. \A s \in Threads : Sets(s, m) => th'[s] = th[s]
        BY <2>1, <3>3 DEF Sets, n
      <4> QED
        BY <1>1, <2>3, <3>1, <3>2, <4>1, <4>2 DEF KnownTo
    <3>4. CASE m = n
      <4>1. \A s \in Threads : Sets(s, n) <=> s = t
        BY <1>1, <3>1, <3>4 DEF KnownTo, Sets, n
      <4>2. \A k \in cbs[n] : k \in th[t].left \/ heard[k] = th[t].new
        BY <3>1, <3>4, <4>1 DEF KnownTo
      <4>3. \A k \in cbs[n] : k \in th'[t].left \/ heard'[k] = th'[t].new
        BY <2>1, <2>3, <3>1, <3>4, <4>2
      <4> QED
        BY <1>1, <3>2, <3>4, <4>1, <4>3 DEF KnownTo
    <3> QED
      BY <3>3, <3>4
  <2> QED
    BY <1>3, <2>4, <2>5 DEF Known
<1> QED
  BY <1>2, <1>3 DEF Notify

LEMMA NotifiedKnown ==
  ASSUME IInv, Registered, Known, NEW t \in Threads, Notified(t)
  PROVE  Registered' /\ Known'
<1> USE DEF IInv
<1>1. /\ \A s \in Threads : s # t => th'[s] = th[s]
      /\ th[t].pc = "notify" /\ th[t].left = {}
      /\ th'[t].pc = "store" /\ th'[t].var = th[t].var /\ th'[t].new = th[t].new
      /\ th'[t].left = th[t].left
      /\ UNCHANGED <<type, val, cbs, heard, unheard>>
  BY DEF Notified, TypeOK, ThreadState
<1>2. Registered'
  BY <1>1 DEF Registered
<1>3. \A s \in Threads, n \in Names : Sets(s, n)' <=> Sets(s, n)
  BY <1>1 DEF Sets
<1>4. \A s \in Threads : th'[s].left = th[s].left /\ th'[s].new = th[s].new
  BY <1>1
<1>5. Known'
  BY <1>1, <1>3, <1>4 DEF Known, KnownTo
<1> QED
  BY <1>2, <1>5

(* The only setter has told everybody when it stores. *)
LEMMA StoreKnown ==
  ASSUME IInv, Registered, Known, NEW t \in Threads, Store(t)
  PROVE  Registered' /\ Known'
<1> USE DEF IInv
<1> DEFINE n == th[t].var
<1>1. n \in Names /\ th[t].pc = "store" /\ th[t].left = {} /\ UNCHANGED <<type, cbs, heard, unheard>>
  BY DEF Store, TypeOK, Registered
<1>2. \A s \in Threads : s # t => th'[s] = th[s]
  BY DoneMoves DEF Store
<1>3. th'[t].pc \in {"idle", "load"}
  BY DoneMoves DEF Store
<1>4. \A m \in Names : val'[m] = IF m = n THEN th[t].new ELSE val[m]
  BY <1>1 DEF Store, TypeOK
<1> HIDE DEF n
<1>5. Registered'
  BY <1>1, <1>2, <1>3 DEF Registered
<1>6. ASSUME NEW m \in Names, m \notin unheard
      PROVE  KnownTo(m)'
  <2>1. KnownTo(m)
    BY <1>6 DEF Known
  <2>2. CASE m # n
    <3>1. \A s \in Threads : Sets(s, m)' <=> Sets(s, m)
      BY <1>2, <1>3, <2>2 DEF Sets, n
    <3>2. \A s \in Threads : Sets(s, m) => th'[s] = th[s]
      BY <1>2, <2>2 DEF Sets, n
    <3> QED
      BY <1>1, <1>4, <2>1, <2>2, <3>1, <3>2 DEF KnownTo
  <2>3. CASE m = n
    <3>1. Sets(t, n)
      BY <1>1 DEF Sets, n
    <3>2. \A s \in Threads : ~Sets(s, m)'
      BY <1>2, <1>3, <2>1, <2>3, <3>1 DEF KnownTo, Sets
    <3>3. \A l \in cbs[n] : heard[l] = th[t].new
      BY <1>1, <2>1, <2>3, <3>1 DEF KnownTo
    <3> QED
      BY <1>1, <1>4, <2>3, <3>2, <3>3 DEF KnownTo
  <2> QED
    BY <2>2, <2>3
<1> QED
  BY <1>1, <1>5, <1>6 DEF Known

LEMMA KnownStep == IInv /\ Registered /\ Known /\ [Next]_vars => Registered' /\ Known'
<1> SUFFICES ASSUME IInv, Registered, Known, [Next]_vars
             PROVE  Registered' /\ Known'
  OBVIOUS
<1>0. TypeOK
  BY DEF IInv
<1>1. ASSUME NEW t \in Threads, NEW n \in Names, NEW v \in Values, CallSet(t, n, v)
      PROVE  Registered' /\ Known'
  <2>1. th[t].pc = "idle"
    BY <1>1 DEF CallSet, Idle
  <2> QED
    BY <1>0, <1>1, <2>1, QuietStart DEF CallSet, Starts
<1>2. ASSUME NEW t \in Threads, NEW doc \in Docs, LoadFromYaml(t, doc)
      PROVE  Registered' /\ Known'
  <2>1. th[t].pc = "idle" /\ th'[t].pc = "load" /\ \A s \in Threads \ {t} : th'[s] = th[s]
    BY <1>0, <1>2 DEF LoadFromYaml, Idle, TypeOK
  <2> QED
    BY <1>0, <1>2, <2>1, QuietMove DEF LoadFromYaml
<1>3. ASSUME NEW t \in Threads, ThreadStep(t)
      PROVE  Registered' /\ Known'
  <2>1. CASE Lock(t) /\ th[t].new = val[th[t].var]
    <3>1. th[t].pc = "lock" /\ th' = Done(t) /\ UNCHANGED <<type, val, cbs, heard, unheard>>
      BY <2>1 DEF Lock
    <3>2. th'[t].pc \in {"idle", "load"} /\ \A s \in Threads \ {t} : th'[s] = th[s]
      BY <1>0, <3>1, DoneMoves
    <3> QED
      BY <1>0, <3>1, <3>2, QuietMove
  <2>2. CASE LoadNext(t)
    <3>1. th[t].pc = "load" /\ UNCHANGED <<type, val, cbs, heard, unheard>>
      BY <2>2 DEF LoadNext
    <3>2. CASE th' = th
      BY <1>0, <3>1, <3>2, QuietMove
    <3>3. CASE \E n \in Names, v \in Values : Starts(t, n, v)
      BY <1>0, <3>1, <3>3, QuietStart
    <3> QED
      BY <2>2, <3>2, <3>3, NextStarts
  <2>3. CASE LoadEnd(t)
    <3>1. th[t].pc = "load" /\ th'[t].pc = "idle" /\ \A s \in Threads \ {t} : th'[s] = th[s]
      BY <1>0, <2>3 DEF LoadEnd, Idle, TypeOK
    <3> QED
      BY <1>0, <2>3, <3>1, QuietMove DEF LoadEnd
  <2> QED
    BY <1>3, <2>1, <2>2, <2>3, AnnounceKnown, NotifyKnown, NotifiedKnown, StoreKnown DEF ThreadStep
<1>4. CASE UNCHANGED vars
  BY <1>4 DEF vars, Registered, Known, KnownTo, Sets
<1> QED
  BY <1>0, <1>1, <1>2, <1>3, <1>4, LookupKnown, AddListenerKnown, DelListenersKnown DEF Next

(* Whoever listens to a variable knows its value whenever nobody is        *)
(* setting it, unless two threads set it at once, a listener was added     *)
(* between an announcement and its store, or one threw: setValue announces *)
(* before it stores, and exactly what it stores.                           *)
THEOREM ListenersAgreeCorrect == Spec => []ListenersAgree
<1>1. Init => Registered /\ Known
  BY DEF Init, Registered, Known, KnownTo, Sets, Idle
<1>2. Spec => [](Registered /\ Known)
  BY <1>1, IInvAlways, KnownStep, PTL DEF Spec
<1>3. Known => ListenersAgree
  BY DEF Known, KnownTo, Sets, ListenersAgree, Setting
<1> QED
  BY <1>2, <1>3, PTL

-----------------------------------------------------------------------------
(* Log. *)

Appender == [level : Levels, own : BOOLEAN, formatter : Formatters \cup {Unset}]

(* The invariants below, the counters and the disk aside. *)
CountersOK ==
    /\ clock \in Moments /\ disk \in [opens : BOOLEAN, room : BOOLEAN]
    /\ calls \in 0..MaxCalls /\ events \in 0..MaxEvents /\ faults \in 0..MaxFaults

ObjectsOK ==
    /\ loggers \in [Loggers -> Logger \cup {Unset}]
    /\ appenders \in [Appenders -> Appender]
    /\ loyal \in [Appenders -> Loggers \cup {Unset, Shared, Bare}]

EventsOK ==
    /\ pending \in [LogThreads -> Event \cup {Unset}]
    /\ handing \in HandOver \cup {Unset}
    /\ handing # Unset => pending[handing.thread] # Unset

(* A sink is a record of four fields; what it has for its last line matters *)
(* only by its event.                                                      *)
SinkOK(s) ==
    /\ s = [stream |-> s.stream, lines |-> s.lines, lastTime |-> s.lastTime, last |-> s.last]
    /\ s.stream \in {"good", "shut", "stuck"}
    /\ s.lines \in Seq(Event)
    /\ s.lastTime \in Nat /\ s.lastTime \in Moments \cup {0}

SinksOK == DOMAIN sink = Appenders /\ \A a \in Appenders : SinkOK(sink[a])

(* What a file holds, of one sink. *)
SinkKept(s) ==
    /\ (s.stream = "good" /\ s.last # Unset)
          => s.lines # <<>> /\ Last(s.lines) = s.last.event
    /\ \A k \in 1..Len(s.lines) : s.lines[k].time < s.lastTime + ReopenEvery

(* Where an appender is follows from its history: nowhere and without a    *)
(* formatter of another, or in the list of one logger only.                *)
In(a, n) == Made(n) /\ a \in Range(loggers[n].appenders)
Placed ==
    \A a \in Appenders :
        /\ loyal[a] = Unset =>
              /\ \A n \in Loggers : ~In(a, n)
              /\ appenders[a].own \/ appenders[a].formatter = Unset
        /\ loyal[a] \in Loggers =>
              \A n \in Loggers : In(a, n) <=> n = loyal[a]

(* The loggers that Logger::log may be called for have been made. *)
Reachable ==
    /\ Made(Root)
    /\ \A t \in LogThreads : pending[t] # Unset => Made(pending[t].logger)

LogInv ==
    /\ CountersOK /\ ObjectsOK /\ EventsOK /\ SinksOK /\ Reachable
    /\ Placed /\ Printable /\ InheritsWhileAttached
    /\ \A a \in Files : SinkKept(sink[a])

LEMMA InvGivesProperties == LogInv => FormattersKept /\ FileKept
<1> SUFFICES ASSUME LogInv
             PROVE  FormattersKept /\ FileKept
  OBVIOUS
<1>1. LogTypeOK
  BY DEF LogInv, CountersOK, ObjectsOK, EventsOK, SinksOK, SinkOK, LogTypeOK, Appender
<1>2. FileKept
  BY DEF LogInv, SinkKept, FileKept, LastLineKept, FileWindow
<1> QED
  BY <1>1, <1>2 DEF LogInv, FormattersKept

----------------------------------------------------------------------------
(* Sinks. *)

LEMMA FreshSinkKept == SinkOK(FreshSink) /\ SinkKept(FreshSink)
<1>1. <<>> \in Seq(Event) /\ Len(<<>>) = 0
  OBVIOUS
<1> QED
  BY <1>1 DEF FreshSink, SinkOK, SinkKept

(* What AppenderLog gives to StdOutLog and FileLog. *)
LEMMA LastSet ==
  ASSUME NEW s, SinkOK(s), NEW x
  PROVE  [s EXCEPT !.last = x] =
             [stream |-> s.stream, lines |-> s.lines, lastTime |-> s.lastTime, last |-> x]
BY DEF SinkOK

LEMMA WrittenIs ==
  ASSUME NEW s, SinkOK(s), NEW event \in Event
  PROVE  /\ SinkOK(Written(s, event))
         /\ Written(s, event).lastTime = s.lastTime /\ Written(s, event).last = s.last
         /\ Written(s, event).stream = "good" => Written(s, event).lines = Append(s.lines, event)
         /\ Written(s, event).lines \in {s.lines, Append(s.lines, event)}
<1>1. Append(s.lines, event) \in Seq(Event)
  BY DEF SinkOK
<1>2. CASE s.stream # "good"
  <2>1. Written(s, event) = s
    BY <1>2 DEF Written
  <2> QED
    BY <1>2, <2>1
<1>3. CASE s.stream = "good" /\ disk.room
  <2>1. Written(s, event) = [stream |-> s.stream, lines |-> Append(s.lines, event),
                             lastTime |-> s.lastTime, last |-> s.last]
    BY <1>3 DEF Written, SinkOK
  <2> QED
    BY <1>1, <2>1 DEF SinkOK
<1>4. CASE s.stream = "good" /\ ~disk.room
  <2>1. Written(s, event) = [stream |-> "stuck", lines |-> s.lines,
                             lastTime |-> s.lastTime, last |-> s.last]
    BY <1>4 DEF Written, SinkOK
  <2> QED
    BY <2>1 DEF SinkOK
<1> QED
  BY <1>2, <1>3, <1>4

(* The sink FileLog writes to once it has opened the file again. *)
Again(s, time) == [Reopened(s) EXCEPT !.lastTime = time]

LEMMA ReopenedIs ==
  ASSUME NEW s, SinkOK(s), NEW time \in Moments
  PROVE  /\ SinkOK(Again(s, time)) /\ Again(s, time).lastTime = time
         /\ Again(s, time).last = s.last
         /\ Again(s, time).lines = <<>> \/ Again(s, time).lines = s.lines
<1> PICK r : r = Again(s, time)
  OBVIOUS
<1>0. time \in Nat /\ <<>> \in Seq(Event)
  BY MomentsAssumption
<1>1. CASE s.stream = "stuck"
  <2>1. r = [stream |-> s.stream, lines |-> s.lines, lastTime |-> time, last |-> s.last]
    BY <1>1 DEF Again, Reopened, SinkOK
  <2> QED
    BY <1>0, <2>1 DEF SinkOK
<1>2. CASE s.stream # "stuck" /\ disk.opens
  <2>1. Reopened(s) = [stream |-> "good", lines |-> <<>>, lastTime |-> s.lastTime, last |-> s.last]
    <3>1. Reopened(s) = [s EXCEPT !.stream = "good", !.lines = <<>>]
      BY <1>2 DEF Reopened
    <3>2. s = [stream |-> s.stream, lines |-> s.lines, lastTime |-> s.lastTime, last |-> s.last]
      BY DEF SinkOK
    <3> QED
      BY <3>1, <3>2
  <2>2. r = [stream |-> "good", lines |-> <<>>, lastTime |-> time, last |-> s.last]
    BY <2>1 DEF Again
  <2> QED
    BY <1>0, <2>2 DEF SinkOK
<1>3. CASE s.stream # "stuck" /\ ~disk.opens
  <2>1. Reopened(s) = [stream |-> "shut", lines |-> s.lines, lastTime |-> s.lastTime, last |-> s.last]
    BY <1>3 DEF Reopened, SinkOK
  <2>2. r = [stream |-> "shut", lines |-> s.lines, lastTime |-> time, last |-> s.last]
    BY <2>1 DEF Again
  <2> QED
    BY <1>0, <2>2 DEF SinkOK
<1> QED
  BY <1>1, <1>2, <1>3

(* A line more, and none of it beyond the period. *)
LEMMA LineAdded ==
  ASSUME NEW ls \in Seq(Event), NEW event \in Event, NEW lt \in Nat,
         \A k \in 1..Len(ls) : ls[k].time < lt + ReopenEvery,
         event.time < lt + ReopenEvery
  PROVE  /\ \A k \in 1..Len(Append(ls, event)) : Append(ls, event)[k].time < lt + ReopenEvery
         /\ Append(ls, event) # <<>> /\ Last(Append(ls, event)) = event
BY DEF Last

(* FileLogAppender::log keeps the line it accepts, and the period. *)
LEMMA FileLogKept ==
  ASSUME NEW s, SinkOK(s), NEW event \in Event,
         s.last.event = event,
         \A k \in 1..Len(s.lines) : s.lines[k].time < s.lastTime + ReopenEvery
  PROVE  SinkOK(FileLog(s, event)) /\ SinkKept(FileLog(s, event))
<1>0. event.time \in Moments /\ event.time \in Nat
  BY MomentsAssumption DEF Event
<1>1. CASE event.time >= s.lastTime + ReopenEvery
  <2>1. PICK r : r = Again(s, event.time)
    OBVIOUS
  <2>2. SinkOK(r) /\ r.lastTime = event.time /\ r.last = s.last
        /\ (r.lines = <<>> \/ r.lines = s.lines)
    BY <1>0, <2>1, ReopenedIs
  <2>3. \A k \in 1..Len(r.lines) : r.lines[k].time < r.lastTime + ReopenEvery
    <3>1. CASE r.lines = <<>>
      BY <3>1
    <3>2. CASE r.lines = s.lines
      <4> SUFFICES ASSUME NEW k \in 1..Len(s.lines)
                   PROVE  s.lines[k].time < event.time + ReopenEvery
        BY <2>2, <3>2
      <4>1. s.lines[k] \in Event
        BY DEF SinkOK
      <4>2. s.lines[k].time \in Nat
        BY <4>1, MomentsAssumption DEF Event
      <4> QED
        BY <1>0, <1>1, <4>2 DEF SinkOK, ReopenEvery
    <3> QED
      BY <2>2, <3>1, <3>2
  <2>4. event.time < r.lastTime + ReopenEvery
    BY <1>0, <2>2 DEF ReopenEvery
  <2>5. FileLog(s, event) = Written(r, event)
    BY <1>1, <2>1 DEF FileLog, Again
  <2>6. PICK w : w = Written(r, event)
    OBVIOUS
  <2>7. /\ SinkOK(w) /\ w.lastTime = r.lastTime /\ w.last = s.last
        /\ w.stream = "good" => w.lines = Append(r.lines, event)
        /\ w.lines \in {r.lines, Append(r.lines, event)}
    BY <2>2, <2>6, WrittenIs
  <2>8. /\ \A k \in 1..Len(Append(r.lines, event)) :
               Append(r.lines, event)[k].time < r.lastTime + ReopenEvery
        /\ Append(r.lines, event) # <<>> /\ Last(Append(r.lines, event)) = event
    BY <2>2, <2>3, <2>4, LineAdded DEF SinkOK
  <2>9. SinkKept(w)
    BY <2>3, <2>7, <2>8 DEF SinkKept
  <2> QED
    BY <2>5, <2>6, <2>7, <2>9
<1>2. CASE ~(event.time >= s.lastTime + ReopenEvery)
  <2>1. FileLog(s, event) = Written(s, event)
    BY <1>2 DEF FileLog
  <2>2. event.time < s.lastTime + ReopenEvery
    BY <1>0, <1>2 DEF SinkOK, ReopenEvery
  <2>3. PICK w : w = Written(s, event)
    OBVIOUS
  <2>4. /\ SinkOK(w) /\ w.lastTime = s.lastTime /\ w.last = s.last
        /\ w.stream = "good" => w.lines = Append(s.lines, event)
        /\ w.lines \in {s.lines, Append(s.lines, event)}
    BY <2>3, WrittenIs
  <2>5. /\ \A k \in 1..Len(Append(s.lines, event)) :
               Append(s.lines, event)[k].time < s.lastTime + ReopenEvery
        /\ Append(s.lines, event) # <<>> /\ Last(Append(s.lines, event)) = event
    BY <2>2, LineAdded DEF SinkOK
  <2>6. SinkKept(w)
    BY <2>4, <2>5 DEF SinkKept
  <2> QED
    BY <2>1, <2>3, <2>4, <2>6
<1> QED
  BY <1>1, <1>2

(* One turn of the loop in Logger::log, for the sink of its appender. *)
LEMMA AppenderLogKept ==
  ASSUME NEW a \in Appenders, NEW n, NEW event \in Event, SinkOK(sink[a]),
         a \in Files => SinkKept(sink[a])
  PROVE  /\ SinkOK(AppenderLog(a, n, event))
         /\ a \in Files => SinkKept(AppenderLog(a, n, event))
<1>1. CASE event.level < appenders[a].level
  BY <1>1 DEF AppenderLog
<1>2. CASE ~(event.level < appenders[a].level)
  <2>1. PICK x : x = [event |-> event, text |-> Format(appenders[a].formatter, n, event.level, event)]
    OBVIOUS
  <2>2. x.event = event
    BY <2>1
  <2>3. PICK s : s = [sink[a] EXCEPT !.last = x]
    OBVIOUS
  <2>4. s = [stream |-> sink[a].stream, lines |-> sink[a].lines,
             lastTime |-> sink[a].lastTime, last |-> x]
    BY <2>3, LastSet
  <2>5. SinkOK(s) /\ s.last.event = event /\ s.lines = sink[a].lines /\ s.lastTime = sink[a].lastTime
    BY <2>2, <2>4 DEF SinkOK
  <2>6. AppenderLog(a, n, event) = IF a = Console THEN StdOutLog(s, event) ELSE FileLog(s, event)
    BY <1>2, <2>1, <2>3 DEF AppenderLog
  <2>7. CASE a = Console
    <3>1. StdOutLog(s, event) = [stream |-> s.stream, lines |-> <<event>>,
                                 lastTime |-> s.lastTime, last |-> s.last]
      BY <2>5 DEF StdOutLog, SinkOK
    <3>2. <<event>> \in Seq(Event)
      OBVIOUS
    <3>3. SinkOK(StdOutLog(s, event))
      BY <2>5, <3>1, <3>2 DEF SinkOK
    <3> QED
      BY <2>6, <2>7, <3>3, NamesAssumption
  <2>8. CASE a # Console
    <3>1. a \in Files
      BY <2>8 DEF Appenders
    <3>2. \A k \in 1..Len(s.lines) : s.lines[k].time < s.lastTime + ReopenEvery
      BY <2>5, <3>1 DEF SinkKept
    <3> QED
      BY <2>5, <2>6, <2>8, <3>1, <3>2, FileLogKept
  <2> QED
    BY <2>7, <2>8
<1> QED
  BY <1>1, <1>2

----------------------------------------------------------------------------
(* What a step leaves alone stays true. *)

FormatInv == ObjectsOK /\ Placed /\ Printable /\ InheritsWhileAttached
SinkInv == SinksOK /\ \A a \in Files : SinkKept(sink[a])

LEMMA LogInvParts == LogInv <=> CountersOK /\ EventsOK /\ FormatInv /\ SinkInv /\ Reachable
BY DEF LogInv, FormatInv, SinkInv

LEMMA FormatFrame ==
  ASSUME FormatInv, UNCHANGED <<loggers, appenders, loyal>>
  PROVE  FormatInv'
<1>1. ObjectsOK'
  BY DEF FormatInv, ObjectsOK
<1>2. Placed'
  BY DEF FormatInv, Placed, In, Made
<1>3. Printable'
  BY DEF FormatInv, Printable, Attached, Made
<1>4. InheritsWhileAttached'
  BY DEF FormatInv, InheritsWhileAttached
<1> QED
  BY <1>1, <1>2, <1>3, <1>4 DEF FormatInv

LEMMA SinkFrame ==
  ASSUME SinkInv, UNCHANGED sink
  PROVE  SinkInv'
BY DEF SinkInv, SinksOK, SinkOK, SinkKept

LEMMA EventsFrame ==
  ASSUME EventsOK, UNCHANGED <<pending, handing>>
  PROVE  EventsOK'
BY DEF EventsOK

LEMMA CountersFrame ==
  ASSUME CountersOK, UNCHANGED <<clock, disk, calls, events, faults>>
  PROVE  CountersOK'
BY DEF CountersOK

LEMMA ReachableKept ==
  ASSUME ObjectsOK, EventsOK, Reachable, UNCHANGED pending,
         \A m \in Loggers : Made(m) => loggers'[m] # Unset
  PROVE  Reachable'
<1>1. Root \in Loggers
  BY DEF Loggers
<1>2. \A t \in LogThreads : pending[t] # Unset => pending[t].logger \in Loggers
  BY DEF EventsOK, Event
<1> QED
  BY <1>1, <1>2 DEF Reachable, Made

LEMMA ConfiguresKeeps ==
  ASSUME LogInv, Configures
  PROVE  CountersOK' /\ EventsOK' /\ SinkInv'
<1>1. CountersOK'
  BY BoundsAssumption DEF LogInv, CountersOK, Configures
<1> QED
  BY <1>1, EventsFrame, SinkFrame DEF LogInv, SinkInv, Configures

----------------------------------------------------------------------------
(* The initial state. *)

LEMMA RecordsTyped ==
  /\ \A n : NewLogger(n) \in Logger
  /\ \A l \in Levels : NewAppender(l) \in Appender
  /\ \A l \in Levels :
        /\ [NewAppender(l) EXCEPT !.formatter = DefaultPattern] \in Appender
        /\ [NewAppender(l) EXCEPT !.formatter = DefaultPattern] =
              [level |-> l, own |-> FALSE, formatter |-> DefaultPattern]
  /\ \A n : /\ [NewLogger(n) EXCEPT !.appenders = <<Console>>] \in Logger
            /\ [NewLogger(n) EXCEPT !.appenders = <<Console>>].appenders = <<Console>>
            /\ [NewLogger(n) EXCEPT !.appenders = <<Console>>].formatter = DefaultPattern
<1>1. <<>> \in Seq(Appenders) /\ <<Console>> \in Seq(Appenders)
  BY DEF Appenders
<1>2. DEBUG \in Levels /\ DefaultPattern \in Formatters
  BY LevelsAssumption DEF DEBUG, Formatters
<1>3. \A n : NewLogger(n) \in Logger
  BY <1>1, <1>2 DEF NewLogger, Logger
<1>4. \A l \in Levels, f \in Formatters \cup {Unset}, b \in BOOLEAN :
         [level |-> l, own |-> b, formatter |-> f] \in Appender
  BY DEF Appender
<1>5. \A l \in Levels : [NewAppender(l) EXCEPT !.formatter = DefaultPattern] =
                           [level |-> l, own |-> FALSE, formatter |-> DefaultPattern]
  <2>1. \A l, b, f, g : [[level |-> l, own |-> b, formatter |-> f] EXCEPT !.formatter = g] =
                           [level |-> l, own |-> b, formatter |-> g]
    OBVIOUS
  <2> QED
    BY <2>1, Zenon DEF NewAppender
<1>6. \A n : [NewLogger(n) EXCEPT !.appenders = <<Console>>] =
               [level |-> DEBUG, formatter |-> DefaultPattern, appenders |-> <<Console>>]
  BY DEF NewLogger
<1>7. [level |-> DEBUG, formatter |-> DefaultPattern, appenders |-> <<Console>>] \in Logger
  BY <1>1, <1>2 DEF Logger
<1>8. FALSE \in BOOLEAN
  OBVIOUS
<1>9. \A l \in Levels : NewAppender(l) \in Appender
  BY <1>4, <1>8, Zenon DEF NewAppender
<1>10. \A l \in Levels : [level |-> l, own |-> FALSE, formatter |-> DefaultPattern] \in Appender
  BY <1>2, <1>4, <1>8, Zenon
<1> QED
  BY <1>3, <1>5, <1>6, <1>7, <1>9, <1>10

LEMMA LogInvInit == LogInit => LogInv
<1> SUFFICES ASSUME LogInit
             PROVE  LogInv
  OBVIOUS
<1>1. CountersOK
  <2>1. disk \in [opens : BOOLEAN, room : BOOLEAN]
    BY Zenon DEF LogInit
  <2> QED
    BY <2>1, BoundsAssumption DEF LogInit, CountersOK
<1>2. EventsOK
  BY DEF LogInit, EventsOK
<1>3. SinksOK /\ \A a \in Files : SinkKept(sink[a])
  BY FreshSinkKept DEF LogInit, SinksOK, Appenders
<1>4. PICK level \in [Appenders -> Levels] :
         appenders = [a \in Appenders |->
                        IF a = Console
                        THEN [NewAppender(level[a]) EXCEPT !.formatter = DefaultPattern]
                        ELSE NewAppender(level[a])]
  BY DEF LogInit
<1>5. \A a \in Appenders : appenders[a] \in Appender /\ appenders[a].own = FALSE
  BY <1>4, RecordsTyped DEF NewAppender
<1>6. Console \in Appenders /\ appenders[Console].formatter = DefaultPattern
  <2>1. Console \in Appenders
    BY DEF Appenders
  <2> QED
    BY <1>4, <2>1, RecordsTyped
<1>7. \A a \in Appenders : a # Console => appenders[a].formatter = Unset
  BY <1>4 DEF NewAppender
<1>8. Root \in Loggers /\ loggers[Root] \in Logger
      /\ loggers[Root].appenders = <<Console>> /\ loggers[Root].formatter = DefaultPattern
  <2>1. Root \in Loggers
    BY DEF Loggers
  <2> QED
    BY <2>1, RecordsTyped DEF LogInit
<1>9. \A n \in Loggers : n # Root => loggers[n] = Unset
  BY DEF LogInit
<1>10. ObjectsOK
  <2>1. loggers \in [Loggers -> Logger \cup {Unset}]
    BY RecordsTyped DEF LogInit
  <2>2. appenders \in [Appenders -> Appender]
    BY <1>4, <1>5
  <2>3. loyal \in [Appenders -> Loggers \cup {Unset, Shared, Bare}]
    BY DEF LogInit, Loggers
  <2> QED
    BY <2>1, <2>2, <2>3 DEF ObjectsOK
<1>11. Range(<<Console>>) = {Console}
  BY DEF Range
<1>12. \A a \in Appenders, n \in Loggers : In(a, n) <=> a = Console /\ n = Root
  BY <1>8, <1>9, <1>11, NamesAssumption DEF In, Made
<1>13. \A a \in Appenders : loyal[a] = IF a = Console THEN Root ELSE Unset
  BY DEF LogInit
<1>14. Placed
  BY <1>7, <1>8, <1>12, <1>13, NamesAssumption DEF Placed
<1>15. Printable
  BY <1>6, <1>12, NamesAssumption DEF Printable, Attached, In, Formatters
<1>16. InheritsWhileAttached
  BY <1>6, <1>8, <1>13, NamesAssumption DEF InheritsWhileAttached
<1>17. Reachable
  BY <1>8, NamesAssumption DEF Reachable, Made, LogInit
<1> QED
  BY <1>1, <1>2, <1>3, <1>10, <1>14, <1>15, <1>16, <1>17 DEF LogInv

----------------------------------------------------------------------------
(* Configuration. *)

LEMMA GetLoggerInv ==
  ASSUME LogInv, NEW n \in LoggerNames, GetLogger(n)
  PROVE  LogInv'
<1>0. FormatInv /\ SinkInv /\ EventsOK /\ CountersOK /\ Reachable
  BY LogInvParts
<1>1. n \in Loggers /\ loggers[n] = Unset
  BY DEF GetLogger, Loggers, Made
<1>2. NewLogger(n) \in Logger /\ NewLogger(n).appenders = <<>> /\ NewLogger(n) # Unset
  BY RecordsTyped, NamesAssumption DEF NewLogger
<1>3. \A m \in Loggers : loggers'[m] = IF m = n THEN NewLogger(n) ELSE loggers[m]
  BY <1>0 DEF GetLogger, FormatInv, ObjectsOK
<1>4. ObjectsOK'
  BY <1>0, <1>1, <1>2 DEF GetLogger, FormatInv, ObjectsOK
<1>5. Range(<<>>) = {}
  BY DEF Range
<1>6. \A a \in Appenders, m \in Loggers : In(a, m)' <=> In(a, m)
  BY <1>1, <1>2, <1>3, <1>5 DEF In, Made
<1>7. UNCHANGED <<appenders, loyal>>
  BY DEF GetLogger
<1>8. Placed'
  BY <1>0, <1>6, <1>7 DEF FormatInv, Placed
<1>9. Printable'
  BY <1>0, <1>6, <1>7 DEF FormatInv, Printable, Attached, In
<1>10. InheritsWhileAttached'
  <2> SUFFICES ASSUME NEW a \in Appenders, loyal'[a] \in Loggers, ~appenders'[a].own
               PROVE  appenders'[a].formatter = loggers'[loyal'[a]].formatter
    BY DEF InheritsWhileAttached
  <2>1. In(a, loyal[a])
    BY <1>0, <1>7 DEF FormatInv, Placed
  <2>2. loyal[a] # n
    BY <1>1, <2>1 DEF In, Made
  <2> QED
    BY <1>0, <1>3, <1>7, <2>2 DEF FormatInv, InheritsWhileAttached
<1>11. CountersOK' /\ EventsOK' /\ SinkInv'
  BY <1>0, CountersFrame, EventsFrame, SinkFrame DEF GetLogger
<1>r. Reachable'
  BY <1>0, <1>2, <1>3, ReachableKept DEF GetLogger, FormatInv, Made
<1> QED
  BY <1>4, <1>8, <1>9, <1>10, <1>11, <1>r DEF LogInv, SinkInv

LEMMA SetLoggerLevelInv ==
  ASSUME LogInv, NEW n \in Loggers, NEW level \in Levels, SetLoggerLevel(n, level)
  PROVE  LogInv'
<1>0. FormatInv
  BY LogInvParts
<1>1. loggers[n] \in Logger
  BY <1>0 DEF SetLoggerLevel, FormatInv, ObjectsOK, Made
<1>2. PICK g : g = [loggers[n] EXCEPT !.level = level]
  OBVIOUS
<1>3. g \in Logger /\ g.appenders = loggers[n].appenders /\ g.formatter = loggers[n].formatter
      /\ g # Unset
  BY <1>1, <1>2, NamesAssumption DEF Logger
<1>4. \A m \in Loggers : loggers'[m] = IF m = n THEN g ELSE loggers[m]
  BY <1>0, <1>2 DEF SetLoggerLevel, FormatInv, ObjectsOK
<1>5. ObjectsOK'
  BY <1>0, <1>2, <1>3 DEF SetLoggerLevel, FormatInv, ObjectsOK
<1>6. \A a \in Appenders, m \in Loggers : In(a, m)' <=> In(a, m)
  BY <1>3, <1>4 DEF In, Made, SetLoggerLevel
<1>7. UNCHANGED <<appenders, loyal>>
  BY DEF SetLoggerLevel
<1>8. Placed'
  BY <1>0, <1>6, <1>7 DEF FormatInv, Placed
<1>9. Printable'
  BY <1>0, <1>6, <1>7 DEF FormatInv, Printable, Attached, In
<1>10. InheritsWhileAttached'
  BY <1>0, <1>3, <1>4, <1>7 DEF FormatInv, InheritsWhileAttached
<1>11. CountersOK' /\ EventsOK' /\ SinkInv'
  BY ConfiguresKeeps DEF SetLoggerLevel
<1>r. Reachable'
  BY <1>0, <1>3, <1>4, ReachableKept DEF SetLoggerLevel, Configures, FormatInv, LogInv, Made
<1> QED
  BY <1>5, <1>8, <1>9, <1>10, <1>11, <1>r DEF LogInv, SinkInv

LEMMA SetAppenderLevelInv ==
  ASSUME LogInv, NEW a \in Files, NEW level \in Levels, SetAppenderLevel(a, level)
  PROVE  LogInv'
<1>0. FormatInv /\ a \in Appenders
  BY LogInvParts DEF Appenders
<1>1. appenders[a] \in Appender
  BY <1>0 DEF FormatInv, ObjectsOK
<1>2. PICK g : g = [appenders[a] EXCEPT !.level = level]
  OBVIOUS
<1>3. g \in Appender /\ g.own = appenders[a].own /\ g.formatter = appenders[a].formatter
  BY <1>1, <1>2 DEF Appender
<1>4. \A b \in Appenders : appenders'[b] = IF b = a THEN g ELSE appenders[b]
  BY <1>0, <1>2 DEF SetAppenderLevel, FormatInv, ObjectsOK
<1>5. ObjectsOK'
  BY <1>0, <1>2, <1>3 DEF SetAppenderLevel, FormatInv, ObjectsOK
<1>6. UNCHANGED <<loggers, loyal>>
  BY DEF SetAppenderLevel
<1>7. \A b \in Appenders, m \in Loggers : In(b, m)' <=> In(b, m)
  BY <1>6 DEF In, Made
<1>8. Placed'
  BY <1>0, <1>3, <1>4, <1>6, <1>7 DEF FormatInv, Placed
<1>9. Printable'
  BY <1>0, <1>3, <1>4, <1>6, <1>7 DEF FormatInv, Printable, Attached, In
<1>10. InheritsWhileAttached'
  BY <1>0, <1>3, <1>4, <1>6 DEF FormatInv, InheritsWhileAttached
<1>11. CountersOK' /\ EventsOK' /\ SinkInv'
  BY ConfiguresKeeps DEF SetAppenderLevel
<1>r. Reachable'
  BY <1>0, <1>6, ReachableKept DEF SetAppenderLevel, Configures, FormatInv, LogInv, Made
<1> QED
  BY <1>5, <1>8, <1>9, <1>10, <1>11, <1>r DEF LogInv, SinkInv

LEMMA SetAppenderFormatterInv ==
  ASSUME LogInv, NEW a \in Files, NEW f \in Patterns \cup {Unset}, SetAppenderFormatter(a, f)
  PROVE  LogInv'
<1>0. FormatInv /\ a \in Appenders
  BY LogInvParts DEF Appenders
<1>1. appenders[a] \in Appender
  BY <1>0 DEF FormatInv, ObjectsOK
<1>2. PICK o \in BOOLEAN : o = (f # Unset)
  OBVIOUS
<1>3. PICK g : g = [level |-> appenders[a].level, own |-> o, formatter |-> f]
  OBVIOUS
<1>4. g \in Appender /\ g.own = o /\ g.formatter = f
  BY <1>1, <1>3 DEF Appender, Formatters
<1>5. appenders' = [appenders EXCEPT ![a] = g]
  BY <1>2, <1>3, Zenon DEF SetAppenderFormatter
<1>6. \A b \in Appenders : appenders'[b] = IF b = a THEN g ELSE appenders[b]
  BY <1>0, <1>5 DEF FormatInv, ObjectsOK
<1>7. UNCHANGED loggers
  BY DEF SetAppenderFormatter
<1>8. PICK y : y = IF f = Unset /\ Attached(a) THEN Bare ELSE loyal[a]
  OBVIOUS
<1>9. loyal' = [loyal EXCEPT ![a] = y]
  BY <1>8 DEF SetAppenderFormatter
<1>10. \A b \in Appenders : loyal'[b] = IF b = a THEN y ELSE loyal[b]
  BY <1>0, <1>9 DEF FormatInv, ObjectsOK
<1>11. ObjectsOK'
  <2>1. loyal' \in [Appenders -> Loggers \cup {Unset, Shared, Bare}]
    BY <1>0, <1>8, <1>9 DEF FormatInv, ObjectsOK
  <2> QED
    BY <1>0, <1>4, <1>5, <1>7, <2>1 DEF FormatInv, ObjectsOK
<1>12. \A b \in Appenders, m \in Loggers : In(b, m)' <=> In(b, m)
  BY <1>7 DEF In, Made
<1>13. Attached(a) <=> \E m \in Loggers : In(a, m)
  BY DEF Attached, In
<1>14. y # loyal[a] => y = Bare /\ f = Unset
  BY <1>8
<1>15. Bare # Unset /\ Bare \notin Loggers
  BY NamesAssumption
<1>16. Placed'
  <2> SUFFICES ASSUME NEW b \in Appenders
               PROVE  /\ loyal'[b] = Unset =>
                           /\ \A m \in Loggers : ~In(b, m)'
                           /\ appenders'[b].own \/ appenders'[b].formatter = Unset
                      /\ loyal'[b] \in Loggers =>
                           \A m \in Loggers : In(b, m)' <=> m = loyal'[b]
    BY DEF Placed
  <2>1. loyal'[b] \in Loggers \cup {Unset} => loyal'[b] = loyal[b]
    BY <1>10, <1>14, <1>15
  <2>2. loyal[b] = Unset => appenders'[b].own \/ appenders'[b].formatter = Unset
    BY <1>0, <1>2, <1>4, <1>6 DEF FormatInv, Placed
  <2> QED
    BY <1>0, <1>12, <2>1, <2>2 DEF FormatInv, Placed
<1>17. Printable'
  <2> SUFFICES ASSUME NEW b \in Appenders, Attached(b)', loyal'[b] # Bare
               PROVE  appenders'[b].formatter # Unset
    BY DEF Printable
  <2>1. Attached(b)
    BY <1>12 DEF Attached, In
  <2>2. CASE b # a
    BY <1>0, <1>6, <1>10, <2>1, <2>2 DEF FormatInv, Printable
  <2>3. CASE b = a
    BY <1>4, <1>6, <1>8, <1>10, <2>1, <2>3
  <2> QED
    BY <2>2, <2>3
<1>18. InheritsWhileAttached'
  <2> SUFFICES ASSUME NEW b \in Appenders, loyal'[b] \in Loggers, ~appenders'[b].own
               PROVE  appenders'[b].formatter = loggers'[loyal'[b]].formatter
    BY DEF InheritsWhileAttached
  <2>1. loyal'[b] = loyal[b]
    BY <1>10, <1>14, <1>15
  <2>2. In(b, loyal[b])
    BY <1>0, <2>1 DEF FormatInv, Placed
  <2>3. b # a
    <3> SUFFICES ASSUME b = a
                 PROVE  FALSE
      OBVIOUS
    <3>1. f = Unset
      BY <1>2, <1>4, <1>6
    <3>2. Attached(a)
      BY <1>13, <2>1, <2>2
    <3> QED
      BY <1>8, <1>10, <1>15, <3>1, <3>2
  <2> QED
    BY <1>0, <1>6, <1>7, <2>1, <2>3 DEF FormatInv, InheritsWhileAttached
<1>19. CountersOK' /\ EventsOK' /\ SinkInv'
  BY ConfiguresKeeps DEF SetAppenderFormatter
<1>20. Reachable'
  BY <1>0, <1>7, ReachableKept DEF SetAppenderFormatter, Configures, FormatInv, LogInv, Made
<1> QED
  BY <1>11, <1>16, <1>17, <1>18, <1>19, <1>20 DEF LogInv, SinkInv

LEMMA SetFormatterInv ==
  ASSUME LogInv, NEW n \in Loggers, NEW p \in Patterns, SetFormatter(n, p)
  PROVE  LogInv'
<1>0. FormatInv
  BY LogInvParts
<1>1. CountersOK' /\ EventsOK' /\ SinkInv'
  BY ConfiguresKeeps DEF SetFormatter
<1>2. UNCHANGED loyal /\ Made(n)
  BY DEF SetFormatter
<1>3. CASE UNCHANGED <<loggers, appenders>>
  <2>1. Reachable'
    BY <1>0, <1>3, ReachableKept DEF SetFormatter, Configures, FormatInv, LogInv, Made
  <2> QED
    BY <1>0, <1>1, <1>2, <1>3, <2>1, FormatFrame DEF LogInv, SinkInv, FormatInv
<1>4. CASE SetFormatterPtr(n, p)
  <2>1. loggers[n] \in Logger
    BY <1>0, <1>2 DEF FormatInv, ObjectsOK, Made
  <2>2. PICK g : g = [loggers[n] EXCEPT !.formatter = p]
    OBVIOUS
  <2>3. p \in Formatters /\ p # Unset
    BY NamesAssumption DEF Formatters
  <2>4. g \in Logger /\ g.appenders = loggers[n].appenders /\ g.formatter = p /\ g # Unset
    BY <2>1, <2>2, <2>3, NamesAssumption DEF Logger
  <2>5. loggers' = [loggers EXCEPT ![n] = g]
    BY <1>4, <2>2 DEF SetFormatterPtr
  <2>6. \A m \in Loggers : loggers'[m] = IF m = n THEN g ELSE loggers[m]
    BY <1>0, <2>5 DEF FormatInv, ObjectsOK
  <2>7. \A b \in Appenders : /\ appenders'[b] \in Appender
                             /\ appenders'[b].own = appenders[b].own
                             /\ appenders'[b].formatter =
                                  IF In(b, n) /\ ~appenders[b].own THEN p
                                  ELSE appenders[b].formatter
    <3> SUFFICES ASSUME NEW b \in Appenders
                 PROVE  /\ appenders'[b] \in Appender
                        /\ appenders'[b].own = appenders[b].own
                        /\ appenders'[b].formatter =
                             IF In(b, n) /\ ~appenders[b].own THEN p ELSE appenders[b].formatter
      OBVIOUS
    <3>1. appenders[b] \in Appender
      BY <1>0 DEF FormatInv, ObjectsOK
    <3>2. Follows(b, n) <=> In(b, n) /\ ~appenders[b].own
      BY <1>2 DEF Follows, In
    <3>3. appenders'[b] = IF Follows(b, n) THEN [appenders[b] EXCEPT !.formatter = p]
                          ELSE appenders[b]
      BY <1>4 DEF SetFormatterPtr
    <3>4. PICK h : h = [appenders[b] EXCEPT !.formatter = p]
      OBVIOUS
    <3>5. h \in Appender /\ h.own = appenders[b].own /\ h.formatter = p
      BY <2>3, <3>1, <3>4 DEF Appender
    <3> QED
      BY <3>1, <3>2, <3>3, <3>4, <3>5
  <2>8. ObjectsOK'
    <3>1. loggers' \in [Loggers -> Logger \cup {Unset}]
      BY <1>0, <2>4, <2>5 DEF FormatInv, ObjectsOK
    <3>2. appenders' = [b \in Appenders |-> appenders'[b]]
      BY <1>4 DEF SetFormatterPtr
    <3>3. appenders' \in [Appenders -> Appender]
      BY <2>7, <3>2
    <3> QED
      BY <1>0, <1>2, <3>1, <3>3 DEF FormatInv, ObjectsOK
  <2>9. \A b \in Appenders, m \in Loggers : In(b, m)' <=> In(b, m)
    BY <1>2, <2>4, <2>6 DEF In, Made
  <2>10. Placed'
    <3> SUFFICES ASSUME NEW b \in Appenders
                 PROVE  /\ loyal'[b] = Unset =>
                             /\ \A m \in Loggers : ~In(b, m)'
                             /\ appenders'[b].own \/ appenders'[b].formatter = Unset
                        /\ loyal'[b] \in Loggers =>
                             \A m \in Loggers : In(b, m)' <=> m = loyal'[b]
      BY DEF Placed
    <3> QED
      BY <1>0, <1>2, <2>7, <2>9 DEF FormatInv, Placed
  <2>11. Printable'
    BY <1>0, <1>2, <2>3, <2>7, <2>9 DEF FormatInv, Printable, Attached, In
  <2>12. InheritsWhileAttached'
    <3> SUFFICES ASSUME NEW b \in Appenders, loyal[b] \in Loggers, ~appenders[b].own
                 PROVE  appenders'[b].formatter = loggers'[loyal[b]].formatter
      BY <1>2, <2>7 DEF InheritsWhileAttached
    <3>1. In(b, n) <=> n = loyal[b]
      BY <1>0 DEF FormatInv, Placed
    <3> QED
      BY <1>0, <2>4, <2>6, <2>7, <3>1 DEF FormatInv, InheritsWhileAttached
  <2>r. Reachable'
    BY <1>0, <2>4, <2>6, ReachableKept DEF SetFormatter, Configures, FormatInv, LogInv, Made
  <2> QED
    BY <1>1, <2>8, <2>10, <2>11, <2>12, <2>r DEF LogInv, SinkInv
<1> QED
  BY <1>3, <1>4 DEF SetFormatter

LEMMA AddAppenderInv ==
  ASSUME LogInv, NEW n \in Loggers, NEW a \in Files, AddAppender(n, a)
  PROVE  LogInv'
<1>0. FormatInv /\ a \in Appenders
  BY LogInvParts DEF Appenders
<1>1. CountersOK' /\ EventsOK' /\ SinkInv'
  BY ConfiguresKeeps DEF AddAppender
<1>2. loggers[n] \in Logger /\ Made(n)
  BY <1>0 DEF AddAppender, FormatInv, ObjectsOK, Made
<1>3. PICK apps \in Seq(Appenders) : apps = loggers[n].appenders
  BY <1>2 DEF Logger
<1>4. Append(apps, a) \in Seq(Appenders) /\ Range(Append(apps, a)) = Range(apps) \cup {a}
  <2>1. Append(apps, a) \in Seq(Appenders) /\ Len(Append(apps, a)) = Len(apps) + 1
        /\ Append(apps, a)[Len(apps) + 1] = a /\ \A k \in 1..Len(apps) : Append(apps, a)[k] = apps[k]
    BY <1>0
  <2>2. Range(Append(apps, a)) = {Append(apps, a)[k] : k \in 1..Len(apps) + 1}
    BY <2>1 DEF Range
  <2>3. Range(apps) = {apps[k] : k \in 1..Len(apps)}
    BY DEF Range
  <2> QED
    BY <2>1, <2>2, <2>3
<1>5. PICK g : g = [loggers[n] EXCEPT !.appenders = Append(apps, a)]
  OBVIOUS
<1>6. g \in Logger /\ g.appenders = Append(apps, a) /\ g.formatter = loggers[n].formatter /\ g # Unset
  BY <1>2, <1>4, <1>5, NamesAssumption DEF Logger
<1>7. loggers' = [loggers EXCEPT ![n] = g]
  BY <1>3, <1>5 DEF AddAppender
<1>8. \A m \in Loggers : loggers'[m] = IF m = n THEN g ELSE loggers[m]
  BY <1>0, <1>7 DEF FormatInv, ObjectsOK
<1>9. appenders[a] \in Appender
  BY <1>0 DEF FormatInv, ObjectsOK
<1>10. PICK f : f = GivenFormatter(a, n)
  OBVIOUS
<1>11. /\ f \in Formatters /\ f # Unset
       /\ appenders[a].formatter = Unset => f = loggers[n].formatter
       /\ appenders[a].formatter # Unset => f = appenders[a].formatter
  BY <1>2, <1>9, <1>10, NamesAssumption DEF GivenFormatter, Logger, Appender
<1>12. PICK h : h = [appenders[a] EXCEPT !.formatter = f]
  OBVIOUS
<1>13. h \in Appender /\ h.own = appenders[a].own /\ h.formatter = f
  BY <1>9, <1>11, <1>12 DEF Appender
<1>14. appenders' = [appenders EXCEPT ![a] = h]
  BY <1>10, <1>12 DEF AddAppender
<1>15. \A b \in Appenders : appenders'[b] = IF b = a THEN h ELSE appenders[b]
  BY <1>0, <1>14 DEF FormatInv, ObjectsOK
<1>16. PICK y : y = IF loyal[a] \in {Unset, n} THEN n ELSE Shared
  OBVIOUS
<1>17. loyal' = [loyal EXCEPT ![a] = y]
  BY <1>16 DEF AddAppender
<1>18. \A b \in Appenders : loyal'[b] = IF b = a THEN y ELSE loyal[b]
  BY <1>0, <1>17 DEF FormatInv, ObjectsOK
<1>19. ObjectsOK'
  <2>1. loggers' \in [Loggers -> Logger \cup {Unset}]
    BY <1>0, <1>6, <1>7 DEF FormatInv, ObjectsOK
  <2>2. appenders' \in [Appenders -> Appender]
    BY <1>0, <1>13, <1>14 DEF FormatInv, ObjectsOK
  <2>3. loyal' \in [Appenders -> Loggers \cup {Unset, Shared, Bare}]
    BY <1>0, <1>16, <1>17 DEF FormatInv, ObjectsOK
  <2> QED
    BY <2>1, <2>2, <2>3 DEF ObjectsOK
<1>20. \A b \in Appenders, m \in Loggers : In(b, m)' <=> In(b, m) \/ (b = a /\ m = n)
  <2> SUFFICES ASSUME NEW b \in Appenders, NEW m \in Loggers
               PROVE  In(b, m)' <=> In(b, m) \/ (b = a /\ m = n)
    OBVIOUS
  <2>1. CASE m # n
    BY <1>8, <2>1 DEF In, Made
  <2>2. CASE m = n
    <3>1. In(b, n)' <=> b \in Range(Append(apps, a))
      BY <1>6, <1>8 DEF In, Made
    <3>2. In(b, n) <=> b \in Range(apps)
      BY <1>2, <1>3 DEF In
    <3> QED
      BY <1>4, <2>2, <3>1, <3>2
  <2> QED
    BY <2>1, <2>2
<1>21. Placed'
  <2> SUFFICES ASSUME NEW b \in Appenders
               PROVE  /\ loyal'[b] = Unset =>
                           /\ \A m \in Loggers : ~In(b, m)'
                           /\ appenders'[b].own \/ appenders'[b].formatter = Unset
                      /\ loyal'[b] \in Loggers =>
                           \A m \in Loggers : In(b, m)' <=> m = loyal'[b]
    BY DEF Placed
  <2>1. CASE b # a
    BY <1>0, <1>15, <1>18, <1>20, <2>1 DEF FormatInv, Placed
  <2>2. CASE b = a
    <3>1. loyal'[a] # Unset
      BY <1>0, <1>16, <1>18, NamesAssumption
    <3>2. loyal'[a] \in Loggers => loyal'[a] = n /\ loyal[a] \in {Unset, n}
      BY <1>0, <1>16, <1>18, NamesAssumption
    <3>3. loyal[a] \in {Unset, n} => \A m \in Loggers : In(a, m) => m = n
      BY <1>0 DEF FormatInv, Placed
    <3> QED
      BY <1>20, <2>2, <3>1, <3>2, <3>3
  <2> QED
    BY <2>1, <2>2
<1>22. Printable'
  BY <1>0, <1>11, <1>13, <1>15, <1>18, <1>20 DEF FormatInv, Printable, Attached, In
<1>23. InheritsWhileAttached'
  <2> SUFFICES ASSUME NEW b \in Appenders, loyal'[b] \in Loggers, ~appenders'[b].own
               PROVE  appenders'[b].formatter = loggers'[loyal'[b]].formatter
    BY DEF InheritsWhileAttached
  <2>1. CASE b # a
    BY <1>0, <1>6, <1>8, <1>15, <1>18, <2>1 DEF FormatInv, InheritsWhileAttached
  <2>2. CASE b = a
    <3>1. loyal'[a] = n /\ loyal[a] \in {Unset, n} /\ ~appenders[a].own
      BY <1>0, <1>13, <1>15, <1>16, <1>18, <2>2, NamesAssumption
    <3>2. CASE loyal[a] = Unset
      <4>1. appenders[a].formatter = Unset
        BY <1>0, <3>1, <3>2 DEF FormatInv, Placed
      <4> QED
        BY <1>0, <1>6, <1>8, <1>11, <1>13, <1>15, <2>2, <3>1, <4>1
    <3>3. CASE loyal[a] = n
      <4>1. appenders[a].formatter = loggers[n].formatter
        BY <1>0, <3>1, <3>3 DEF FormatInv, InheritsWhileAttached
      <4> QED
        BY <1>0, <1>6, <1>8, <1>11, <1>13, <1>15, <2>2, <3>1, <4>1
    <3> QED
      BY <3>1, <3>2, <3>3
  <2> QED
    BY <2>1, <2>2
<1>r. Reachable'
  BY <1>0, <1>6, <1>8, ReachableKept DEF AddAppender, Configures, FormatInv, LogInv, Made
<1> QED
  BY <1>1, <1>19, <1>21, <1>22, <1>23, <1>r DEF LogInv, SinkInv

(* A list with one place taken out. *)
LEMMA RemovedOne ==
  ASSUME NEW apps \in Seq(Appenders), NEW k \in 1..Len(apps)
  PROVE  /\ RemoveAt(apps, k) \in Seq(Appenders)
         /\ Range(RemoveAt(apps, k)) \subseteq Range(apps)
         /\ Range(apps) \subseteq Range(RemoveAt(apps, k)) \cup {apps[k]}
<1>1. PICK l : l = SubSeq(apps, 1, k - 1)
  OBVIOUS
<1>2. PICK r : r = SubSeq(apps, k + 1, Len(apps))
  OBVIOUS
<1>3. l \in Seq(Appenders) /\ Len(l) = k - 1 /\ \A i \in 1..k - 1 : l[i] = apps[i]
  BY <1>1, SubSeqProperties
<1>4. r \in Seq(Appenders) /\ Len(r) = Len(apps) - k /\ \A i \in 1..Len(apps) - k : r[i] = apps[k + i]
  BY <1>2, SubSeqProperties
<1>5. PICK c : c = l \o r
  OBVIOUS
<1>c. /\ c \in Seq(Appenders) /\ Len(c) = Len(l) + Len(r)
      /\ \A i \in 1..Len(l) + Len(r) : c[i] = IF i <= Len(l) THEN l[i] ELSE r[i - Len(l)]
  BY <1>3, <1>4, <1>5, ConcatProperties
<1>6. /\ c \in Seq(Appenders) /\ Len(c) = Len(apps) - 1
      /\ \A i \in 1..Len(apps) - 1 : c[i] = IF i < k THEN apps[i] ELSE apps[i + 1]
  <2>1. Len(l) + Len(r) = Len(apps) - 1
    BY <1>3, <1>4
  <2>2. ASSUME NEW i \in 1..Len(apps) - 1
        PROVE  c[i] = IF i < k THEN apps[i] ELSE apps[i + 1]
    <3>1. CASE i < k
      <4>1. i <= Len(l) /\ i \in 1..k - 1
        BY <1>3, <3>1
      <4> QED
        BY <1>3, <1>c, <2>1, <3>1, <4>1
    <3>2. CASE ~(i < k)
      <4>1. ~(i <= Len(l)) /\ i - Len(l) \in 1..Len(apps) - k /\ k + (i - Len(l)) = i + 1
        BY <1>3, <3>2
      <4>2. c[i] = r[i - Len(l)]
        BY <1>c, <2>1, <4>1
      <4>3. r[i - Len(l)] = apps[i + 1]
        BY <1>4, <4>1
      <4> QED
        BY <3>2, <4>2, <4>3
    <3> QED
      BY <3>1, <3>2
  <2> QED
    BY <1>c, <2>1, <2>2
<1>7. RemoveAt(apps, k) = c
  BY <1>1, <1>2, <1>5 DEF RemoveAt
<1>8. Range(c) = {c[i] : i \in 1..Len(apps) - 1} /\ Range(apps) = {apps[i] : i \in 1..Len(apps)}
  BY <1>6 DEF Range
<1>9. \A i \in 1..Len(apps) - 1 : c[i] \in Range(apps)
  BY <1>6, <1>8
<1>10. \A i \in 1..Len(apps) : i # k => \E j \in 1..Len(apps) - 1 : c[j] = apps[i]
  <2> SUFFICES ASSUME NEW i \in 1..Len(apps), i # k
               PROVE  \E j \in 1..Len(apps) - 1 : c[j] = apps[i]
    OBVIOUS
  <2>1. CASE i < k
    BY <1>6, <2>1
  <2>2. CASE i > k
    <3>1. i - 1 \in 1..Len(apps) - 1 /\ ~(i - 1 < k) /\ (i - 1) + 1 = i
      BY <2>2
    <3> QED
      BY <1>6, <3>1
  <2> QED
    BY <2>1, <2>2
<1>11. Range(c) \subseteq Range(apps)
  BY <1>8, <1>9
<1>12. Range(apps) \subseteq Range(c) \cup {apps[k]}
  BY <1>8, <1>10
<1> QED
  BY <1>6, <1>7, <1>11, <1>12

LEMMA DelAppenderInv ==
  ASSUME LogInv, NEW n \in Loggers, NEW a \in Files, DelAppender(n, a)
  PROVE  LogInv'
<1>0. FormatInv /\ a \in Appenders
  BY LogInvParts DEF Appenders
<1>1. CountersOK' /\ EventsOK' /\ SinkInv'
  BY ConfiguresKeeps DEF DelAppender
<1>2. loggers[n] \in Logger /\ Made(n)
  BY <1>0 DEF DelAppender, FormatInv, ObjectsOK, Made
<1>3. PICK apps \in Seq(Appenders) : apps = loggers[n].appenders
  BY <1>2 DEF Logger
<1>4. PICK k \in 1..Len(apps) : /\ apps[k] = a
                              /\ loggers' = [loggers EXCEPT ![n].appenders = RemoveAt(@, k)]
  BY <1>3 DEF DelAppender
<1>5. PICK g : g = [loggers[n] EXCEPT !.appenders = RemoveAt(apps, k)]
  OBVIOUS
<1>r1. PICK rest \in Seq(Appenders) : rest = RemoveAt(apps, k)
  BY RemovedOne
<1>6. g \in Logger /\ g.appenders = RemoveAt(apps, k) /\ g.formatter = loggers[n].formatter
      /\ g # Unset
  <2>1. g = [loggers[n] EXCEPT !.appenders = rest]
    BY <1>5, <1>r1
  <2>2. g \in Logger /\ g.appenders = rest /\ g.formatter = loggers[n].formatter
    BY <1>2, <2>1 DEF Logger
  <2> QED
    BY <1>r1, <2>2, NamesAssumption
<1>7. loggers' = [loggers EXCEPT ![n] = g]
  BY <1>3, <1>4, <1>5
<1>8. \A m \in Loggers : loggers'[m] = IF m = n THEN g ELSE loggers[m]
  BY <1>0, <1>7 DEF FormatInv, ObjectsOK
<1>y. PICK y \in {Shared, Bare} : y = IF loyal[a] = Bare THEN Bare ELSE Shared
  OBVIOUS
<1>9. UNCHANGED appenders /\ loyal' = [loyal EXCEPT ![a] = y]
  BY <1>y DEF DelAppender
<1>10. \A b \in Appenders : loyal'[b] = IF b = a THEN y ELSE loyal[b]
  BY <1>0, <1>9 DEF FormatInv, ObjectsOK
<1>11. ObjectsOK'
  BY <1>0, <1>6, <1>7, <1>9 DEF FormatInv, ObjectsOK
<1>12. \A b \in Appenders, m \in Loggers : In(b, m)' => In(b, m)
  BY <1>2, <1>3, <1>6, <1>8, RemovedOne DEF In, Made
<1>13. \A b \in Appenders, m \in Loggers : In(b, m) => In(b, m)' \/ b = a
  BY <1>2, <1>3, <1>4, <1>6, <1>8, RemovedOne DEF In, Made
<1>14. Placed'
  BY <1>0, <1>9, <1>10, <1>12, <1>13, NamesAssumption DEF FormatInv, Placed
<1>15. Printable'
  <2> SUFFICES ASSUME NEW b \in Appenders, Attached(b)', loyal'[b] # Bare
               PROVE  appenders'[b].formatter # Unset
    BY DEF Printable
  <2>1. Attached(b)
    BY <1>12 DEF Attached, In
  <2>2. loyal[b] # Bare
    BY <1>10, <1>y
  <2> QED
    BY <1>0, <1>9, <2>1, <2>2 DEF FormatInv, Printable
<1>16. InheritsWhileAttached'
  BY <1>0, <1>6, <1>8, <1>9, <1>10, NamesAssumption DEF FormatInv, InheritsWhileAttached
<1>r. Reachable'
  BY <1>0, <1>6, <1>8, ReachableKept DEF DelAppender, Configures, FormatInv, LogInv, Made
<1> QED
  BY <1>1, <1>11, <1>14, <1>15, <1>16, <1>r DEF LogInv, SinkInv

----------------------------------------------------------------------------
(* Logging. *)

LEMMA StartEventInv ==
  ASSUME LogInv, NEW t \in LogThreads, NEW n \in Loggers, NEW level \in Levels,
         StartEvent(t, n, level)
  PROVE  LogInv'
<1>0. FormatInv /\ SinkInv /\ EventsOK /\ CountersOK /\ Reachable
  BY LogInvParts
<1>1. CountersOK'
  BY <1>0, BoundsAssumption DEF StartEvent, CountersOK
<1>2. PICK e : e = [content |-> events + 1, logger |-> n, level |-> level,
                    time |-> clock, thread |-> t]
  OBVIOUS
<1>3. e \in Event /\ e # Unset
  BY <1>0, <1>2, BoundsAssumption, NamesAssumption DEF StartEvent, CountersOK, Event
<1>4. pending' = [pending EXCEPT ![t] = e]
  BY <1>2 DEF StartEvent
<1>5. EventsOK'
  BY <1>0, <1>3, <1>4 DEF StartEvent, EventsOK, HandOver
<1>6. FormatInv' /\ SinkInv'
  BY <1>0, FormatFrame, SinkFrame DEF StartEvent
<1>r. Reachable'
  BY <1>0, <1>2, <1>4 DEF Reachable, Made, StartEvent, EventsOK
<1> QED
  BY <1>1, <1>5, <1>6, <1>r DEF LogInv, FormatInv, SinkInv

LEMMA DeliverInv ==
  ASSUME LogInv, NEW t \in LogThreads, Deliver(t)
  PROVE  LogInv'
<1>0. FormatInv /\ SinkInv /\ EventsOK /\ CountersOK /\ Reachable
  BY LogInvParts
<1>1. FormatInv' /\ SinkInv' /\ CountersOK'
  BY <1>0, FormatFrame, SinkFrame, CountersFrame DEF Deliver
<1>2. EventsOK'
  <2>1. CASE pending' = [pending EXCEPT ![t] = Unset] /\ UNCHANGED handing
    BY <1>0, <2>1 DEF EventsOK, Deliver
  <2>2. ASSUME NEW m \in Loggers, Calls(pending[t].logger, m, pending[t]),
               handing' = [thread |-> t, logger |-> m, left |-> loggers[m].appenders],
               UNCHANGED pending
        PROVE  EventsOK'
    <3>1. PICK e \in Event : e = pending[t]
      BY <1>0 DEF EventsOK, Deliver
    <3>2. e.logger \in Loggers
      BY DEF Event
    <3>3. loggers[m].appenders # <<>>
      BY <2>2 DEF Calls
    <3>4. Made(m)
      BY <1>0, <2>2, <3>1 DEF Calls, Reachable, Deliver
    <3>6. loggers[m] \in Logger
      BY <1>0, <3>4 DEF FormatInv, ObjectsOK, Made
    <3>7. loggers[m].appenders \in Seq(Appenders)
      BY <3>6 DEF Logger
    <3>5. handing' \in HandOver /\ handing'.thread = t
      BY <2>2, <3>3, <3>7 DEF HandOver
    <3> QED
      BY <1>0, <2>2, <3>5 DEF EventsOK, Deliver
  <2> QED
    BY <2>1, <2>2 DEF Deliver
<1>r. Reachable'
  BY <1>0 DEF Reachable, Made, Deliver, EventsOK
<1> QED
  BY <1>1, <1>2, <1>r DEF LogInv, FormatInv, SinkInv

LEMMA CallAppenderInv ==
  ASSUME LogInv, CallAppender
  PROVE  LogInv'
<1>0. FormatInv /\ SinkInv /\ EventsOK /\ CountersOK /\ Reachable
  BY LogInvParts
<1>1. FormatInv' /\ CountersOK'
  BY <1>0, FormatFrame, CountersFrame DEF CallAppender
<1>2. PICK h \in HandOver : h = handing
  BY <1>0 DEF CallAppender, EventsOK
<1>3. PICK t \in LogThreads : t = h.thread
  BY DEF HandOver
<1>4. PICK left \in Seq(Appenders) : left = h.left /\ left # <<>>
  BY DEF HandOver
<1>5. PICK a \in Appenders : a = Head(left)
  BY <1>4, HeadTailProperties
<1>6. PICK e \in Event : e = pending[t]
  BY <1>0, <1>2, <1>3 DEF CallAppender, EventsOK
<1>7. PICK w : w = AppenderLog(a, h.logger, e)
  OBVIOUS
<1>8. SinkOK(w) /\ (a \in Files => SinkKept(w))
  BY <1>0, <1>7, AppenderLogKept DEF SinkInv, SinksOK
<1>9. sink' = [sink EXCEPT ![a] = w]
  BY <1>2, <1>3, <1>4, <1>5, <1>6, <1>7 DEF CallAppender
<1>10. DOMAIN sink' = Appenders /\ \A b \in Appenders : sink'[b] = IF b = a THEN w ELSE sink[b]
  BY <1>0, <1>9 DEF SinkInv, SinksOK
<1>11. \A b \in Appenders : SinkOK(sink'[b])
  BY <1>0, <1>8, <1>10 DEF SinkInv, SinksOK
<1>12. \A b \in Files : SinkKept(sink'[b])
  <2>1. \A b \in Files : b \in Appenders
    BY DEF Appenders
  <2> QED
    BY <1>0, <1>8, <1>10, <2>1 DEF SinkInv
<1>13. SinksOK'
  BY <1>10, <1>11 DEF SinksOK, SinkOK
<1>14. SinkInv'
  BY <1>12, <1>13 DEF SinkInv, SinkKept
<1>15. CASE Tail(left) = <<>>
  <2>1. handing' = Unset /\ pending' = [pending EXCEPT ![t] = Unset]
    BY <1>2, <1>3, <1>4, <1>15 DEF CallAppender
  <2>2. EventsOK'
    BY <1>0, <2>1 DEF EventsOK
  <2>3. Reachable'
    BY <1>0, <2>1 DEF Reachable, Made, EventsOK, CallAppender
  <2> QED
    BY <1>1, <1>14, <2>2, <2>3 DEF LogInv, FormatInv, SinkInv
<1>16. CASE Tail(left) # <<>>
  <2>1. handing' = [handing EXCEPT !.left = Tail(left)] /\ UNCHANGED pending
    BY <1>2, <1>3, <1>4, <1>16 DEF CallAppender
  <2>2. Tail(left) \in Seq(Appenders)
    BY <1>4, HeadTailProperties
  <2>3. handing' \in HandOver /\ handing'.thread = t
    BY <1>2, <1>3, <1>16, <2>1, <2>2 DEF HandOver
  <2>4. EventsOK'
    BY <1>0, <1>2, <1>3, <2>1, <2>3 DEF EventsOK, CallAppender
  <2>5. Reachable'
    BY <1>0, <2>1 DEF Reachable, Made, CallAppender
  <2> QED
    BY <1>1, <1>14, <2>4, <2>5 DEF LogInv, FormatInv, SinkInv
<1> QED
  BY <1>15, <1>16

LEMMA SurroundingsInv ==
  ASSUME LogInv, Tick \/ (\E what \in {"opens", "room"} : DiskChanges(what)) \/ UNCHANGED logVars
  PROVE  LogInv'
<1>0. FormatInv /\ SinkInv /\ EventsOK /\ CountersOK /\ Reachable
  BY LogInvParts
<1>1. UNCHANGED <<loggers, appenders, loyal, sink, pending, handing>>
  BY DEF Tick, DiskChanges, logVars
<1>2. FormatInv' /\ SinkInv' /\ EventsOK'
  BY <1>0, <1>1, FormatFrame, SinkFrame, EventsFrame
<1>3. Reachable'
  BY <1>0, <1>1 DEF Reachable, Made
<1>4. CountersOK'
  <2>1. CASE Tick
    BY <1>0, <2>1 DEF Tick, CountersOK
  <2>2. ASSUME NEW what \in {"opens", "room"}, DiskChanges(what)
        PROVE  CountersOK'
    <3>1. disk' = [disk EXCEPT ![what] = ~@] /\ faults' \in 0..MaxFaults
      BY <1>0, <2>2, BoundsAssumption DEF DiskChanges, CountersOK
    <3>2. PICK b \in BOOLEAN : b = ~disk[what]
      BY Zenon
    <3>3. disk' = [disk EXCEPT ![what] = b]
      BY <3>1, <3>2, Zenon
    <3>4. disk' \in [opens : BOOLEAN, room : BOOLEAN]
      BY <1>0, <3>3 DEF CountersOK
    <3> QED
      BY <1>0, <2>2, <3>1, <3>4 DEF DiskChanges, CountersOK
  <2>3. CASE UNCHANGED logVars
    BY <1>0, <2>3, CountersFrame DEF logVars
  <2> QED
    BY <2>1, <2>2, <2>3
<1> QED
  BY <1>2, <1>3, <1>4 DEF LogInv, FormatInv, SinkInv

LEMMA LogInvStep == LogInv /\ [LogNext]_logVars => LogInv'
BY GetLoggerInv, SetLoggerLevelInv, SetAppenderLevelInv, SetAppenderFormatterInv,
   SetFormatterInv, AddAppenderInv, DelAppenderInv, StartEventInv, DeliverInv,
   CallAppenderInv, SurroundingsInv DEF LogNext

LEMMA LogInvAlways == LogSpec => []LogInv
<1>1. LogInit => LogInv
  BY LogInvInit
<1>2. LogInv /\ [~Crashing /\ LogNext]_logVars => LogInv'
  BY LogInvStep
<1> QED
  BY <1>1, <1>2, PTL DEF LogSpec

(* However appenders are added, taken out, shared and configured between   *)
(* hand-overs, an appender that is in a list has a formatter, unless it    *)
(* was taken from it there, and one that has none of its own and has       *)
(* stayed in one logger has that                                           *)
(* logger's (Logger::addAppender, delAppender, setFormatter,               *)
(* LogAppender::setFormatter): the loggers' objects as the run checks them.*)
THEOREM FormattersKeptAlways == LogSpec => []FormattersKept
<1>1. LogInv => FormattersKept
  BY InvGivesProperties
<1> QED
  BY <1>1, LogInvAlways, PTL

(* FileLogAppender::log and reopen never lose the line they accept while   *)
(* the stream is in order, and no file holds a line of a later period,     *)
(* whatever order the events arrive in, with disks that fill up or vanish  *)
(* between any two appenders of a hand-over.                               *)
THEOREM FileKeptAlways == LogSpec => []FileKept
<1>1. LogInv => FileKept
  BY InvGivesProperties
<1> QED
  BY <1>1, LogInvAlways, PTL
=============================================================================

---------------------------- MODULE HookIoProofs ----------------------------
(***************************************************************************)
(* Proofs about HookIo, for every set of fibres and file descriptors and   *)
(* every number of worker threads.                                         *)
(***************************************************************************)
EXTENDS HookIo, FiniteSetTheorems, TLAPS

Spans == Timeouts \cup {ConnectTimeout, Inf}
Stored == [userNonblock : BOOLEAN, recvTimeout : Timeouts \cup {Inf},
           sendTimeout : Timeouts \cup {Inf}]
CallRecs == [op : Calls \cup {"none", "socket", "close"}, fd : Fds \cup {None}, to : Spans,
             seq : Nat, round : Nat]
TimerRecs == [owner : Fibres, seq : Nat, round : Nat, fd : Fds, kind : EventKinds, left : Nat,
              stage : {"armed", "queued", "marked"}]

PCs == {"idle", "get", "try", "direct", "blocked", "arm", "add", "wait",
        "soerror", "cancelAll", "del", "close"}

(* TypeOK, and what it says nothing of: the calls, the timers and the      *)
(* stored contexts; a fibre that is not idle works on a file descriptor.   *)
CallsTyped ==
  /\ pc \in [Fibres -> PCs] /\ call \in [Fibres -> CallRecs]
  /\ cancelled \in [Fibres -> BOOLEAN] /\ elapsed \in [Fibres -> 0..MaxTime]
  /\ \A f \in Fibres : pc[f] # "idle" => call[f].fd \in Fds
KernelTyped ==
  /\ isOpen \in [Fds -> BOOLEAN] /\ nonblock \in [Fds -> BOOLEAN]
  /\ ready \in [Fds -> SUBSET EventKinds]
  /\ cleared \subseteq Fds /\ arrivals \in 0..MaxArrivals
TableTyped == table \in [Fds -> Stored \cup {None}]
EventsTyped ==
  /\ ev \in [Fds -> [EventKinds -> Fibres \cup {None}]] /\ wakes \in [Fibres -> Nat]
TimersTyped == timers \subseteq TimerRecs /\ IsFiniteSet(timers)
OthersTyped == threads \in Nat \ {0} /\ aborted \in BOOLEAN
Typed ==
  CallsTyped /\ KernelTyped /\ TableTyped /\ EventsTyped /\ TimersTyped /\ OthersTyped

(* A waiting fibre is registered, for the event of its call and nowhere     *)
(* else, or has been queued once; no other fibre is in either place.        *)
Unseen(f) == \A d \in Fds, k \in EventKinds : ev[d][k] # f
Waits ==
  \A f \in Fibres :
    \/ pc[f] # "wait" /\ wakes[f] = 0 /\ Unseen(f)
    \/ pc[f] = "wait" /\ wakes[f] = 1 /\ Unseen(f)
    \/ /\ pc[f] = "wait" /\ wakes[f] = 0
       /\ \A d \in Fds, k \in EventKinds : ev[d][k] = f <=> d = Fd(f) /\ k = Kind(f)

(* Who opens or closes a descriptor has it to itself; a closed one has no  *)
(* context, an open one that nobody owns has one.                          *)
Owners == {"get", "cancelAll", "del", "close"}
Unowned(d) == \A f \in Fibres : pc[f] \in Owners => Fd(f) # d
Owned ==
  /\ \A f \in Fibres : pc[f] \in Owners => isOpen[Fd(f)]
  /\ \A f, g \in Fibres : pc[f] \in Owners /\ pc[g] \in Owners /\ Fd(f) = Fd(g) => f = g
  /\ \A f \in Fibres : pc[f] \in {"get", "close"} => table[Fd(f)] = None
  /\ \A d \in Fds : ~isOpen[d] => table[d] = None
  /\ \A d \in Fds : isOpen[d] /\ Unowned(d) => table[d] # None /\ (nonblock[d] \/ d \in cleared)

(* One worker thread runs one fibre, so nobody registers between cancelAll  *)
(* and the close of the descriptor.                                         *)
Running(f) == pc[f] \notin {"idle", "wait"}
Alone ==
  threads = 1 =>
    /\ \A f, g \in Fibres : Running(f) /\ Running(g) => f = g
    /\ \A f \in Fibres : pc[f] \in {"del", "close"} => \A k \in EventKinds : ev[Fd(f)][k] = None
    /\ \A d \in Fds : ~isOpen[d] => \A k \in EventKinds : ev[d][k] = None

(* The timer of a live call has no less left than the call has to wait; the *)
(* callback runs when nothing is left, and marks calls that are due.        *)
Due(f) == call[f].to # Inf /\ elapsed[f] >= call[f].to
Clocked ==
  /\ \A tm \in timers :
       /\ tm.seq <= call[tm.owner].seq
       /\ tm.stage # "armed" => tm.left = 0
       /\ Live(tm) => call[tm.owner].to # Inf /\ elapsed[tm.owner] + tm.left >= call[tm.owner].to
  /\ \A f \in Fibres : cancelled[f] => pc[f] \notin {"idle", "cancelAll", "del", "close"} /\ Due(f)

HookInv == Typed /\ Waits /\ Owned /\ Alone /\ Clocked

----------------------------------------------------------------------------
(* Types. *)

LEMMA SpanFacts ==
  /\ Timeouts \cup {Inf} \subseteq Spans /\ Spans \subseteq Nat \cup {Inf}
  /\ Stored \subseteq Ctxs /\ None \notin Stored
  /\ \A v \in Spans : v # Inf => v \in Nat /\ v <= MaxTime
<1> USE HookAssumption DEF Spans
<1>1. Timeouts \cup {Inf} \subseteq Spans /\ Spans \subseteq Nat \cup {Inf}
  OBVIOUS
<1>2. Stored \subseteq Ctxs
  BY DEF Stored, Ctxs
<1>3. \A v \in Spans : v # Inf => v \in Nat /\ v <= MaxTime
  BY <1>1
<1> QED
  BY <1>1, <1>2, <1>3

LEMMA TypedIsTypeOK == Typed => TypeOK
<1> SUFFICES ASSUME Typed
             PROVE  TypeOK
  OBVIOUS
<1>1. \A d \in Fds : table[d] = None \/ table[d] \in Ctxs
  BY SpanFacts DEF Typed, TableTyped
<1> QED
  BY <1>1, Zenon DEF Typed, TypeOK, CallsTyped, KernelTyped, TableTyped, EventsTyped, OthersTyped, PCs

LEMMA NoCallTyped == NoCall \in CallRecs
BY SpanFacts DEF NoCall, CallRecs, Spans

LEMMA ReturnTyped ==
  ASSUME CallsTyped, NEW f \in Fibres, Return(f)
  PROVE  CallsTyped'
<1> USE HookAssumption
<1> DEFINE c == [NoCall EXCEPT !.seq = call[f].seq]
<1>1. c \in CallRecs
  BY NoCallTyped DEF CallsTyped, CallRecs, NoCall
<1> HIDE DEF c
<1>2. /\ pc' = [pc EXCEPT ![f] = "idle"] /\ call' = [call EXCEPT ![f] = c]
      /\ cancelled' = [cancelled EXCEPT ![f] = FALSE] /\ elapsed' = [elapsed EXCEPT ![f] = 0]
  BY DEF Return, Goto, c
<1>3. pc' \in [Fibres -> PCs] /\ call' \in [Fibres -> CallRecs] /\ elapsed' \in [Fibres -> 0..MaxTime]
  BY <1>1, <1>2 DEF CallsTyped, PCs
<1>4. cancelled' \in [Fibres -> BOOLEAN]
  BY <1>2 DEF CallsTyped
<1>5. \A g \in Fibres : pc'[g] # "idle" => call'[g].fd \in Fds
  BY <1>2 DEF CallsTyped
<1> QED
  BY <1>3, <1>4, <1>5 DEF CallsTyped

(* A fibre that goes on, with the same call or another on a descriptor. *)
LEMMA GoOnTyped ==
  ASSUME CallsTyped, NEW f \in Fibres, NEW l \in PCs, NEW c \in CallRecs,
         l = "idle" \/ c.fd \in Fds, Goto(f, l),
         call' = [call EXCEPT ![f] = c], UNCHANGED <<cancelled, elapsed>>
  PROVE  CallsTyped'
BY DEF CallsTyped, Goto

LEMMA GotoTyped ==
  ASSUME CallsTyped, NEW f \in Fibres, NEW l \in PCs, pc[f] # "idle", Goto(f, l), UNCHANGED callVars
  PROVE  CallsTyped'
BY DEF CallsTyped, Goto, callVars

LEMMA StartedTyped ==
  ASSUME CallsTyped, NEW f \in Fibres, NEW op \in Calls \cup {"socket", "close"}, NEW d \in Fds,
         NEW v \in Spans
  PROVE  /\ Started(f, op, d) \in CallRecs
         /\ [Started(f, op, d) EXCEPT !.to = v] =
              [op |-> op, fd |-> d, to |-> v, seq |-> call[f].seq + 1, round |-> 0]
         /\ [Started(f, op, d) EXCEPT !.to = v] \in CallRecs
<1>1. call[f].seq \in Nat /\ Inf \in Spans
  BY DEF CallsTyped, CallRecs, Spans
<1>2. [Started(f, op, d) EXCEPT !.to = v] =
        [op |-> op, fd |-> d, to |-> v, seq |-> call[f].seq + 1, round |-> 0]
  BY DEF Started
<1> QED
  BY <1>1, <1>2 DEF CallRecs, Started

LEMMA SucceedTyped ==
  ASSUME CallsTyped, KernelTyped, NEW f \in Fibres, pc[f] # "idle", Succeed(f),
         UNCHANGED <<cleared, arrivals>>
  PROVE  CallsTyped' /\ KernelTyped'
<1>1. ready' \in [Fds -> SUBSET EventKinds]
  <2>1. Fd(f) \in Fds /\ Kind(f) \in EventKinds
    BY DEF CallsTyped, Fd, Kind, KindOf, EventKinds
  <2> QED
    BY <2>1 DEF Succeed, KernelTyped
<1>2. CASE Return(f) /\ UNCHANGED <<isOpen, nonblock>>
  BY <1>1, <1>2, ReturnTyped DEF KernelTyped
<1>3. ASSUME NEW d \in Fds, NewFd(f, d), call' = [call EXCEPT ![f].fd = d],
             UNCHANGED <<cancelled, elapsed>>
      PROVE  CallsTyped' /\ KernelTyped'
  <2> DEFINE c == [call[f] EXCEPT !.fd = d]
  <2>1. c \in CallRecs /\ c.fd \in Fds
    BY DEF CallsTyped, CallRecs
  <2>2. call' = [call EXCEPT ![f] = c]
    BY <1>3
  <2> HIDE DEF c
  <2>3. CallsTyped'
    BY <1>3, <2>1, <2>2, GoOnTyped DEF NewFd, PCs
  <2>4. isOpen' \in [Fds -> BOOLEAN] /\ nonblock' \in [Fds -> BOOLEAN]
    BY <1>3 DEF NewFd, KernelTyped
  <2> QED
    BY <1>1, <2>3, <2>4 DEF KernelTyped
<1> QED
  BY <1>2, <1>3 DEF Succeed

LEMMA FailTyped ==
  ASSUME CallsTyped, KernelTyped, NEW f \in Fibres, pc[f] # "idle", Fail(f),
         UNCHANGED <<cleared, arrivals>>
  PROVE  CallsTyped' /\ KernelTyped'
<1>1. KernelTyped'
  BY DEF Fail, KernelTyped, kernelVars
<1>2. CASE Return(f)
  BY <1>1, <1>2, ReturnTyped
<1>3. ASSUME NEW l \in {"blocked", "arm"}, Goto(f, l), UNCHANGED callVars
      PROVE  CallsTyped'
  BY <1>3, GotoTyped DEF PCs
<1> QED
  BY <1>1, <1>2, <1>3 DEF Fail

LEMMA TimerMoveTyped ==
  ASSUME TimersTyped, NEW tm \in timers, NEW stage \in {"queued", "marked"}
  PROVE  /\ (timers \ {tm}) \cup {[tm EXCEPT !.stage = stage]} \subseteq TimerRecs
         /\ IsFiniteSet((timers \ {tm}) \cup {[tm EXCEPT !.stage = stage]})
         /\ timers \ {tm} \subseteq TimerRecs /\ IsFiniteSet(timers \ {tm})
<1>1. [tm EXCEPT !.stage = stage] \in TimerRecs
  BY DEF TimersTyped, TimerRecs
<1>2. IsFiniteSet(timers \ {tm})
  BY FS_RemoveElement DEF TimersTyped
<1> QED
  BY <1>1, <1>2, FS_AddElement DEF TimersTyped

Passed(tm) == IF tm.left > 0 THEN [tm EXCEPT !.left = @ - 1] ELSE tm

LEMMA TickTyped ==
  ASSUME TimersTyped, timers' = {Passed(tm) : tm \in timers}
  PROVE  TimersTyped'
<1>1. ASSUME NEW tm \in timers PROVE Passed(tm) \in TimerRecs
  BY DEF TimersTyped, TimerRecs, Passed
<1> DEFINE F == [tm \in timers |-> Passed(tm)]
<1>2. F \in Surjection(timers, timers')
  BY DEF Surjection
<1>3. IsFiniteSet(timers')
  BY <1>2, FS_Surjection DEF TimersTyped
<1> QED
  BY <1>1, <1>3 DEF TimersTyped

LEMMA TriggerTyped ==
  ASSUME EventsTyped, NEW d \in Fds, NEW k \in EventKinds, ev[d][k] # None, Trigger(d, k)
  PROVE  EventsTyped'
<1>1. ev[d][k] \in Fibres
  BY DEF EventsTyped
<1>2. ev' \in [Fds -> [EventKinds -> Fibres \cup {None}]]
  BY DEF EventsTyped, Trigger, Unregister
<1> QED
  BY <1>1, <1>2 DEF EventsTyped, Trigger

LEMMA SettingTyped ==
  ASSUME CallsTyped, NEW f \in Fibres, NEW d \in Fds, Setting(f, d)
  PROVE  CallsTyped'
<1> DEFINE c == [call[f] EXCEPT !.seq = @ + 1]
<1>1. c \in CallRecs /\ c.fd = call[f].fd
  BY DEF CallsTyped, CallRecs
<1>2. call' = [call EXCEPT ![f] = c]
  BY DEF Setting
<1> HIDE DEF c
<1>3. call' \in [Fibres -> CallRecs]
  BY <1>1, <1>2 DEF CallsTyped
<1>4. \A g \in Fibres : call'[g].fd = call[g].fd
  BY <1>1, <1>2 DEF CallsTyped
<1> QED
  BY <1>3, <1>4 DEF CallsTyped, Setting

LEMMA FibreStepTyped ==
  ASSUME Typed, NEW f \in Fibres, FibreStep(f) \/ Unblock(f)
  PROVE  Typed'
<1> USE HookAssumption DEF Typed, At, kernelVars, callVars
<1>1. CASE Get(f)
  <2>0. Fd(f) \in Fds
    BY <1>1 DEF Get, CallsTyped, Fd
  <2>1. CallsTyped'
    BY <1>1, ReturnTyped DEF Get
  <2>2. NewCtx \in Stored
    BY DEF NewCtx, Stored
  <2>3. TableTyped'
    BY <1>1, <2>0, <2>2 DEF Get, TableTyped
  <2>4. nonblock' \in [Fds -> BOOLEAN]
    BY <1>1, <2>0 DEF Get, KernelTyped
  <2>5. KernelTyped'
    BY <1>1, <2>4 DEF Get, KernelTyped
  <2>6. (EventsTyped /\ TimersTyped /\ OthersTyped)'
    BY <1>1 DEF Get, EventsTyped, TimersTyped, OthersTyped
  <2> QED
    BY <2>1, <2>3, <2>5, <2>6
<1>2. CASE Try(f) \/ Unblock(f)
  <2>1. pc[f] # "idle" /\ (Succeed(f) \/ Fail(f)) /\ UNCHANGED <<cleared, arrivals>>
    BY <1>2 DEF Try, Unblock
  <2>2. CallsTyped' /\ KernelTyped'
    BY <2>1, SucceedTyped, FailTyped
  <2>3. (TableTyped /\ EventsTyped /\ TimersTyped /\ OthersTyped)'
    BY <1>2 DEF Try, Unblock, TableTyped, EventsTyped, TimersTyped, OthersTyped
  <2> QED
    BY <2>2, <2>3
<1>3. CASE Arm(f)
  <2>1. CallsTyped'
    BY <1>3, GotoTyped DEF Arm, PCs
  <2> DEFINE tm == [owner |-> f, seq |-> call[f].seq, round |-> call[f].round,
                    fd |-> Fd(f), kind |-> Kind(f), left |-> call[f].to, stage |-> "armed"]
  <2>2. ASSUME call[f].to # Inf PROVE tm \in TimerRecs
    <3>1. call[f] \in CallRecs /\ call[f].fd \in Fds
      BY <1>3 DEF Arm, CallsTyped
    <3>2. call[f].to \in Nat
      BY <2>2, <3>1, SpanFacts DEF CallRecs
    <3> QED
      BY <3>1, <3>2 DEF TimerRecs, CallRecs, Fd, Kind, KindOf, EventKinds
  <2> HIDE DEF tm
  <2>3. timers' = timers \/ (call[f].to # Inf /\ timers' = timers \cup {tm})
    BY <1>3 DEF Arm, tm
  <2>4. TimersTyped'
    BY <2>2, <2>3, FS_AddElement DEF TimersTyped
  <2>5. (KernelTyped /\ TableTyped /\ EventsTyped /\ OthersTyped)'
    BY <1>3 DEF Arm, KernelTyped, TableTyped, EventsTyped, OthersTyped
  <2> QED
    BY <2>1, <2>4, <2>5
<1>4. CASE AddEvent(f)
  <2>0. Fd(f) \in Fds /\ Kind(f) \in EventKinds
    BY <1>4 DEF AddEvent, CallsTyped, Fd, Kind, KindOf, EventKinds
  <2>1. CallsTyped'
    BY <1>4, GotoTyped, ReturnTyped DEF AddEvent, PCs
  <2>2. EventsTyped'
    BY <1>4, <2>0 DEF AddEvent, EventsTyped
  <2>3. timers' = timers \/ timers' = timers \ OwnTimer(f)
    BY <1>4 DEF AddEvent
  <2>4. TimersTyped'
    BY <2>3, FS_Difference, FS_Subset DEF TimersTyped
  <2>5. aborted' \in BOOLEAN
    BY <1>4, Zenon DEF AddEvent
  <2>6. (KernelTyped /\ TableTyped /\ OthersTyped)'
    BY <1>4, <2>5 DEF AddEvent, KernelTyped, TableTyped, OthersTyped
  <2> QED
    BY <2>1, <2>2, <2>4, <2>6
<1>5. CASE Resume(f)
  <2>1. CallsTyped'
    <3>1. CASE Return(f)
      BY <3>1, ReturnTyped
    <3>2. CASE Goto(f, "soerror") /\ UNCHANGED callVars
      BY <1>5, <3>2, GotoTyped DEF Resume, PCs
    <3>3. CASE /\ Goto(f, "try") /\ UNCHANGED <<cancelled, elapsed>>
               /\ call' = [call EXCEPT ![f].round = @ + 1]
      <4> DEFINE c == [call[f] EXCEPT !.round = @ + 1]
      <4>1. c \in CallRecs /\ c.fd \in Fds
        BY <1>5 DEF Resume, CallsTyped, CallRecs
      <4>2. call' = [call EXCEPT ![f] = c]
        BY <3>3
      <4> QED
        BY <3>3, <4>1, <4>2, GoOnTyped DEF PCs
    <3> QED
      BY <1>5, <3>1, <3>2, <3>3 DEF Resume
  <2>2. EventsTyped'
    BY <1>5 DEF Resume, EventsTyped
  <2>3. TimersTyped'
    BY <1>5, FS_Difference DEF Resume, TimersTyped
  <2>4. (KernelTyped /\ TableTyped /\ OthersTyped)'
    BY <1>5 DEF Resume, KernelTyped, TableTyped, OthersTyped
  <2> QED
    BY <2>1, <2>2, <2>3, <2>4
<1>6. CASE SoError(f)
  <2>1. CallsTyped'
    BY <1>6, ReturnTyped DEF SoError
  <2>2. (KernelTyped /\ TableTyped /\ EventsTyped /\ TimersTyped /\ OthersTyped)'
    BY <1>6 DEF SoError, KernelTyped, TableTyped, EventsTyped, TimersTyped, OthersTyped
  <2> QED
    BY <2>1, <2>2
<1>7. CASE CloseStep(f)
  <2>0. pc[f] \in {"cancelAll", "del", "close"} /\ Fd(f) \in Fds
    BY <1>7 DEF CloseStep, CallsTyped, Fd
  <2>1. CallsTyped'
    BY <1>7, <2>0, GotoTyped DEF CloseStep, CloseOrder, PCs
  <2>2. KernelTyped'
    BY <1>7, <2>0 DEF CloseStep, KernelTyped
  <2>3. TableTyped'
    BY <1>7, <2>0 DEF CloseStep, TableTyped
  <2>4. EventsTyped'
    <3>1. ASSUME NEW g \in Fibres, NEW S \in SUBSET EventKinds
          PROVE  Cardinality({k \in S : ev[Fd(f)][k] = g}) \in Nat
      <4>1. IsFiniteSet({"READ"} \cup {"WRITE"})
        BY FS_Singleton, FS_AddElement
      <4>2. {k \in S : ev[Fd(f)][k] = g} \subseteq {"READ"} \cup {"WRITE"}
        BY DEF EventKinds
      <4> QED
        BY <4>1, <4>2, FS_Subset, FS_CardinalityType
    <3> DEFINE hit == {k \in EventKinds : ev[Fd(f)][k] # None}
               woken(g) == Cardinality({k \in hit : ev[Fd(f)][k] = g})
    <3>2. ASSUME NEW g \in Fibres PROVE woken(g) \in Nat
      BY <3>1
    <3>3. UNCHANGED <<ev, wakes>> \/
          /\ wakes' = [g \in Fibres |-> wakes[g] + woken(g)]
          /\ ev' = [ev EXCEPT ![Fd(f)] = [k \in EventKinds |-> IF k \in hit THEN None ELSE @[k]]]
      BY <1>7 DEF CloseStep
    <3> HIDE DEF woken
    <3> QED
      BY <3>2, <3>3, <2>0 DEF EventsTyped
  <2>5. (TimersTyped /\ OthersTyped)'
    BY <1>7 DEF CloseStep, TimersTyped, OthersTyped
  <2> QED
    BY <2>1, <2>2, <2>3, <2>4, <2>5
<1> QED
  BY <1>1, <1>2, <1>3, <1>4, <1>5, <1>6, <1>7 DEF FibreStep

LEMMA CallStartTyped ==
  ASSUME Typed, NEW f \in Fibres, NEW d \in Fds,
         Socket(f, d) \/ Close(f, d) \/ \E op \in Calls : Begin(f, op, d)
  PROVE  Typed'
<1> USE HookAssumption DEF Typed, kernelVars
<1>0. Inf \in Spans
  BY DEF Spans
<1>1. CASE Socket(f, d)
  <2>1. Started(f, "socket", d) \in CallRecs /\ Started(f, "socket", d).fd = d
    BY <1>0, StartedTyped DEF Started
  <2>2. CallsTyped'
    BY <1>1, <2>1, GoOnTyped DEF Socket, NewFd, PCs
  <2>3. isOpen' \in [Fds -> BOOLEAN] /\ nonblock' \in [Fds -> BOOLEAN]
    BY <1>1 DEF Socket, NewFd, KernelTyped
  <2>4. (KernelTyped /\ TableTyped /\ EventsTyped /\ TimersTyped /\ OthersTyped)'
    BY <1>1, <2>3 DEF Socket, KernelTyped, TableTyped, EventsTyped, TimersTyped, OthersTyped
  <2> QED
    BY <2>2, <2>4
<1>2. CASE Close(f, d)
  <2>1. Started(f, "close", d) \in CallRecs /\ Started(f, "close", d).fd = d
    BY <1>0, StartedTyped DEF Started
  <2>2. CallsTyped'
    BY <1>2, <2>1, GoOnTyped DEF Close, PCs
  <2>3. (KernelTyped /\ TableTyped /\ EventsTyped /\ TimersTyped /\ OthersTyped)'
    BY <1>2 DEF Close, KernelTyped, TableTyped, EventsTyped, TimersTyped, OthersTyped
  <2> QED
    BY <2>2, <2>3
<1>3. ASSUME NEW op \in Calls, Begin(f, op, d)
      PROVE  Typed'
  <2> DEFINE hooked == table[d] # None /\ ~table[d].userNonblock
             v == IF hooked THEN TimeoutOf(op, table[d]) ELSE Inf
             c == [Started(f, op, d) EXCEPT !.to = v]
  <2>1. v \in Spans
    BY <1>0 DEF TableTyped, Stored, Spans, TimeoutOf
  <2>2. call' = [call EXCEPT ![f] = c] /\ UNCHANGED <<cancelled, elapsed>>
    BY <1>3 DEF Begin
  <2>3. c \in CallRecs /\ c.fd = d
    BY <2>1, StartedTyped DEF Started
  <2>4. UNCHANGED pc \/ \E l \in {"try", "direct"} : Goto(f, l)
    BY <1>3 DEF Begin
  <2> HIDE DEF c
  <2>5. CallsTyped'
    <3>1. CASE UNCHANGED pc
      BY <2>2, <2>3, <3>1 DEF CallsTyped
    <3>2. ASSUME NEW l \in {"try", "direct"}, Goto(f, l) PROVE CallsTyped'
      BY <2>2, <2>3, <3>2, GoOnTyped DEF PCs
    <3> QED
      BY <2>4, <3>1, <3>2
  <2>6. (KernelTyped /\ TableTyped /\ EventsTyped /\ TimersTyped /\ OthersTyped)'
    BY <1>3 DEF Begin, KernelTyped, TableTyped, EventsTyped, TimersTyped, OthersTyped
  <2> QED
    BY <2>5, <2>6
<1> QED
  BY <1>1, <1>2, <1>3

LEMMA TimerStepTyped ==
  ASSUME Typed, NEW tm \in timers, TimerStep(tm)
  PROVE  Typed'
<1> USE HookAssumption DEF Typed, kernelVars, callVars
<1>0. tm \in TimerRecs /\ tm.owner \in Fibres /\ tm.fd \in Fds /\ tm.kind \in EventKinds
  BY DEF TimersTyped, TimerRecs
<1>1. CASE Expire(tm)
  <2>1. TimersTyped'
    BY <1>1, TimerMoveTyped DEF Expire, TimersTyped
  <2> QED
    BY <1>1, <2>1 DEF Expire, KernelTyped, TableTyped, EventsTyped, CallsTyped, OthersTyped
<1>2. CASE CallbackMark(tm)
  <2>1. TimersTyped'
    BY <1>2, TimerMoveTyped DEF CallbackMark, TimersTyped
  <2>2. cancelled' \in [Fibres -> BOOLEAN]
    BY <1>0, <1>2 DEF CallbackMark, CallsTyped
  <2> QED
    BY <1>2, <2>1, <2>2 DEF CallbackMark, KernelTyped, TableTyped, EventsTyped, CallsTyped, OthersTyped
<1>3. CASE CallbackCancel(tm)
  <2>1. TimersTyped'
    BY <1>3, TimerMoveTyped DEF CallbackCancel, TimersTyped
  <2>2. EventsTyped'
    <3>1. CASE CancelHits(tm)
      BY <1>0, <1>3, <3>1, TriggerTyped DEF CallbackCancel, CancelHits
    <3>2. CASE ~CancelHits(tm)
      BY <1>3, <3>2 DEF CallbackCancel, EventsTyped
    <3> QED
      BY <3>1, <3>2
  <2> QED
    BY <1>3, <2>1, <2>2 DEF CallbackCancel, KernelTyped, TableTyped, CallsTyped, OthersTyped
<1> QED
  BY <1>1, <1>2, <1>3 DEF TimerStep

LEMMA KernelStepTyped ==
  ASSUME Typed, NEW d \in Fds, NEW k \in EventKinds, Event(d, k) \/ Arrive(d, k) \/ Withdraw(d, k)
  PROVE  Typed'
<1> USE HookAssumption DEF Typed, kernelVars, callVars
<1>1. CASE Event(d, k)
  <2>1. EventsTyped'
    BY <1>1, TriggerTyped DEF Event
  <2> QED
    BY <1>1, <2>1 DEF Event, KernelTyped, TableTyped, CallsTyped, TimersTyped, OthersTyped
<1>2. CASE Arrive(d, k)
  <2>1. KernelTyped'
    BY <1>2 DEF Arrive, KernelTyped
  <2> QED
    BY <1>2, <2>1 DEF Arrive, TableTyped, EventsTyped, CallsTyped, TimersTyped, OthersTyped
<1>3. CASE Withdraw(d, k)
  <2>1. KernelTyped'
    BY <1>3 DEF Withdraw, KernelTyped
  <2> QED
    BY <1>3, <2>1 DEF Withdraw, TableTyped, EventsTyped, CallsTyped, TimersTyped, OthersTyped
<1> QED
  BY <1>1, <1>2, <1>3

LEMMA SettingStepTyped ==
  ASSUME Typed, NEW f \in Fibres, NEW d \in Fds,
         \/ \E v \in Timeouts, field \in Options : SetSockOpt(f, d, field, v)
         \/ \E v \in BOOLEAN : Fcntl(f, d, v) \/ Ioctl(f, d, v)
  PROVE  Typed'
<1> USE HookAssumption DEF Typed, kernelVars
<1>1. ASSUME NEW v \in Timeouts, NEW field \in Options, SetSockOpt(f, d, field, v)
      PROVE  Typed'
  <2>1. CallsTyped'
    BY <1>1, SettingTyped DEF SetSockOpt
  <2>2. table[d] \in Stored
    BY <1>1 DEF SetSockOpt, Setting, TableTyped
  <2>3. /\ [table[d] EXCEPT !.recvTimeout = v] \in Stored
        /\ [table[d] EXCEPT !.sendTimeout = v] \in Stored
    BY <2>2 DEF Stored
  <2>4. TableTyped'
    BY <1>1, <2>3 DEF SetSockOpt, TableTyped
  <2> QED
    BY <1>1, <2>1, <2>4 DEF SetSockOpt, KernelTyped, EventsTyped, TimersTyped, OthersTyped
<1>2. ASSUME NEW v \in BOOLEAN, Fcntl(f, d, v) \/ Ioctl(f, d, v)
      PROVE  Typed'
  <2>1. CallsTyped'
    BY <1>2, SettingTyped DEF Fcntl, Ioctl
  <2>2. table[d] \in Stored
    BY <1>2 DEF Fcntl, Ioctl, Setting, TableTyped
  <2>3. [table[d] EXCEPT !.userNonblock = v] \in Stored
    BY <2>2 DEF Stored
  <2>4. table' = [table EXCEPT ![d] = [table[d] EXCEPT !.userNonblock = v]]
    BY <1>2 DEF Fcntl, Ioctl
  <2>5. TableTyped'
    BY <2>3, <2>4 DEF TableTyped
  <2>6. nonblock' \in [Fds -> BOOLEAN]
    BY <1>2 DEF Fcntl, Ioctl, KernelFlag, KernelTyped
  <2>7. KernelTyped'
    BY <1>2, <2>6 DEF Fcntl, Ioctl, KernelTyped
  <2> QED
    BY <1>2, <2>1, <2>5, <2>7 DEF Fcntl, Ioctl, EventsTyped, TimersTyped, OthersTyped
<1> QED
  BY <1>1, <1>2

LEMMA TickStepTyped ==
  ASSUME Typed, Tick
  PROVE  Typed'
<1> USE HookAssumption DEF Typed, kernelVars
<1>1. timers' = {Passed(tm) : tm \in timers}
  BY DEF Tick, Passed
<1>2. TimersTyped'
  BY <1>1, TickTyped
<1>3. elapsed' \in [Fibres -> 0..MaxTime]
  BY DEF Tick, CallsTyped
<1> QED
  BY <1>2, <1>3 DEF Tick, KernelTyped, TableTyped, EventsTyped, CallsTyped, OthersTyped

LEMMA TypedInit == Init => Typed
<1> SUFFICES ASSUME Init
             PROVE  Typed
  OBVIOUS
<1> USE HookAssumption DEF Init
<1>1. CallsTyped
  <2>1. cancelled \in [Fibres -> BOOLEAN]
    BY Zenon
  <2> QED
    BY <2>1, NoCallTyped DEF CallsTyped, PCs
<1>2. KernelTyped
  <2>1. \A d \in Fds : (d \in Opened) \in BOOLEAN
    OBVIOUS
  <2>2. isOpen \in [Fds -> BOOLEAN] /\ nonblock \in [Fds -> BOOLEAN]
    BY <2>1
  <2> QED
    BY <2>2 DEF KernelTyped
<1>3. TableTyped /\ EventsTyped
  <2>1. NewCtx \in Stored
    BY DEF NewCtx, Stored
  <2>2. TableTyped
    BY <2>1 DEF TableTyped
  <2> QED
    BY <2>2 DEF EventsTyped
<1>4. TimersTyped
  BY FS_EmptySet DEF TimersTyped
<1>5. aborted \in BOOLEAN
  BY Zenon
<1>6. OthersTyped
  BY <1>5 DEF OthersTyped
<1> QED
  BY <1>1, <1>2, <1>3, <1>4, <1>6 DEF Typed

LEMMA TypedStep == Typed /\ [Next]_vars => Typed'
<1> SUFFICES ASSUME Typed, [Next]_vars
             PROVE  Typed'
  OBVIOUS
<1>1. CASE UNCHANGED vars
  BY <1>1 DEF vars, kernelVars, callVars, Typed, KernelTyped, TableTyped, EventsTyped, CallsTyped,
     TimersTyped, OthersTyped
<1>2. CASE Next
  BY <1>2, FibreStepTyped, CallStartTyped, TimerStepTyped, KernelStepTyped, SettingStepTyped,
     TickStepTyped DEF Next
<1> QED
  BY <1>1, <1>2

LEMMA TypedAlways == Spec => []Typed
BY TypedInit, TypedStep, PTL DEF Spec

----------------------------------------------------------------------------
(* Steps by what they do to the fibres: one that acts, or none. *)

Alike(f) == \A g \in Fibres \ {f} : /\ pc'[g] = pc[g] /\ call'[g] = call[g]
                                     /\ cancelled'[g] = cancelled[g] /\ elapsed'[g] = elapsed[g]
Setter(f) ==
  \E d \in Fds : \/ \E v \in Timeouts, field \in Options : SetSockOpt(f, d, field, v)
                 \/ \E v \in BOOLEAN : Fcntl(f, d, v) \/ Ioctl(f, d, v)
Starter(f) == \E d \in Fds : Socket(f, d) \/ Close(f, d) \/ \E op \in Calls : Begin(f, op, d)

LEMMA ReturnAlike ==
  ASSUME Typed, NEW f \in Fibres, Return(f)
  PROVE  /\ Alike(f) /\ pc'[f] = "idle" /\ cancelled'[f] = FALSE /\ call'[f].seq = call[f].seq
         /\ call'[f].fd = None
BY DEF Typed, CallsTyped, Return, Goto, Alike, NoCall

LEMMA GotoAlike ==
  ASSUME Typed, NEW f \in Fibres, NEW l, Goto(f, l), UNCHANGED callVars
  PROVE  Alike(f) /\ pc'[f] = l
BY DEF Typed, CallsTyped, Goto, Alike, callVars

LEMMA GoOnAlike ==
  ASSUME Typed, NEW f \in Fibres, NEW l, NEW c, Goto(f, l), UNCHANGED <<cancelled, elapsed>>,
         call' = [call EXCEPT ![f] = c]
  PROVE  Alike(f) /\ pc'[f] = l /\ call'[f] = c
BY DEF Typed, CallsTyped, Goto, Alike

(* Where the system call leads: it is done, it fails, or it must wait. *)
LEMMA SucceedAlike ==
  ASSUME Typed, NEW f \in Fibres, Succeed(f)
  PROVE  /\ Alike(f) /\ pc'[f] \in {"idle", "get"} /\ call'[f].seq = call[f].seq
         /\ pc'[f] = "idle" => cancelled'[f] = FALSE /\ UNCHANGED <<isOpen, nonblock>>
         /\ pc'[f] = "get" => /\ call'[f].fd \in Fds /\ NewFd(f, call'[f].fd)
                              /\ call'[f].to = call[f].to /\ UNCHANGED <<cancelled, elapsed>>
<1>1. CASE Return(f) /\ UNCHANGED <<isOpen, nonblock>>
  BY <1>1, ReturnAlike
<1>2. ASSUME NEW d \in Fds, NewFd(f, d), call' = [call EXCEPT ![f].fd = d],
             UNCHANGED <<cancelled, elapsed>>
      PROVE  /\ Alike(f) /\ pc'[f] = "get" /\ call'[f].seq = call[f].seq
             /\ call'[f].fd = d /\ call'[f].to = call[f].to
  <2>1. call' = [call EXCEPT ![f] = [call[f] EXCEPT !.fd = d]]
    BY <1>2
  <2>2. Alike(f) /\ pc'[f] = "get"
    BY <1>2, <2>1, GoOnAlike DEF NewFd
  <2> QED
    BY <2>1, <2>2 DEF Typed, CallsTyped, CallRecs
<1> QED
  BY <1>1, <1>2 DEF Succeed

LEMMA FailAlike ==
  ASSUME Typed, NEW f \in Fibres, Fail(f)
  PROVE  /\ Alike(f) /\ pc'[f] \in {"idle", "blocked", "arm"} /\ call'[f].seq = call[f].seq
         /\ pc'[f] = "idle" => cancelled'[f] = FALSE
         /\ pc'[f] # "idle" => UNCHANGED callVars
         /\ pc'[f] = "arm" => pc[f] # "direct"
<1>1. CASE Return(f)
  BY <1>1, ReturnAlike
<1>2. ASSUME NEW l \in {"blocked", "arm"}, Goto(f, l), UNCHANGED callVars
      PROVE  Alike(f) /\ pc'[f] = l /\ call'[f].seq = call[f].seq
  BY <1>2, GotoAlike DEF callVars
<1>3. \/ Return(f)
      \/ UNCHANGED callVars /\ Goto(f, "blocked")
      \/ UNCHANGED callVars /\ pc[f] # "direct" /\ Goto(f, "arm")
  BY DEF Fail
<1> QED
  BY <1>1, <1>2, <1>3

LEMMA ResumeAlike ==
  ASSUME Typed, NEW f \in Fibres, Resume(f)
  PROVE  /\ Alike(f) /\ pc'[f] \in {"idle", "soerror", "try"} /\ call'[f].seq = call[f].seq
         /\ pc'[f] = "idle" => cancelled[f] /\ ~cancelled'[f]
         /\ pc'[f] # "idle" => call'[f].to = call[f].to /\ UNCHANGED <<cancelled, elapsed>>
<1>1. CASE Return(f) /\ cancelled[f]
  BY <1>1, ReturnAlike
<1>2. CASE Goto(f, "soerror") /\ UNCHANGED callVars
  BY <1>2, GotoAlike DEF callVars
<1>3. CASE /\ Goto(f, "try") /\ UNCHANGED <<cancelled, elapsed>>
           /\ call' = [call EXCEPT ![f].round = @ + 1]
  <2> DEFINE c == [call[f] EXCEPT !.round = @ + 1]
  <2>1. call' = [call EXCEPT ![f] = c]
    BY <1>3
  <2>2. c.seq = call[f].seq /\ c.to = call[f].to
    BY DEF Typed, CallsTyped, CallRecs
  <2> HIDE DEF c
  <2>3. Alike(f) /\ pc'[f] = "try" /\ call'[f] = c
    BY <1>3, <2>1, GoOnAlike
  <2> QED
    BY <1>3, <2>2, <2>3
<1> QED
  BY <1>1, <1>2, <1>3 DEF Resume

LEMMA StarterAlike ==
  ASSUME Typed, NEW f \in Fibres, Starter(f)
  PROVE  /\ Alike(f) /\ pc[f] = "idle" /\ pc'[f] \notin {"wait", "arm", "add", "del", "soerror"}
         /\ call'[f].seq = call[f].seq + 1 /\ UNCHANGED <<cancelled, elapsed>>
<1>1. PICK d \in Fds : Socket(f, d) \/ Close(f, d) \/ \E op \in Calls : Begin(f, op, d)
  BY DEF Starter
<1>2. CASE Socket(f, d)
  <2>1. Goto(f, "get") /\ UNCHANGED <<cancelled, elapsed>> /\ pc[f] = "idle"
          /\ call' = [call EXCEPT ![f] = Started(f, "socket", d)]
    BY <1>2 DEF Socket, NewFd, MayCall
  <2>2. Alike(f) /\ pc'[f] = "get"
    BY <2>1, GoOnAlike
  <2> QED
    BY <2>1, <2>2 DEF Started, Typed, CallsTyped
<1>3. CASE Close(f, d)
  <2>1. PICK l \in {"close", "cancelAll"} : Goto(f, l)
    BY <1>3 DEF Close
  <2>2. UNCHANGED <<cancelled, elapsed>> /\ pc[f] = "idle"
          /\ call' = [call EXCEPT ![f] = Started(f, "close", d)]
    BY <1>3 DEF Close, MayCall
  <2> QED
    BY <2>1, <2>2, GoOnAlike DEF Started, Typed, CallsTyped
<1>4. ASSUME NEW op \in Calls, Begin(f, op, d)
      PROVE  /\ Alike(f) /\ pc[f] = "idle" /\ pc'[f] \notin {"wait", "arm", "add", "del", "soerror"}
             /\ call'[f].seq = call[f].seq + 1 /\ UNCHANGED <<cancelled, elapsed>>
  <2> DEFINE v == IF table[d] # None /\ ~table[d].userNonblock THEN TimeoutOf(op, table[d]) ELSE Inf
             c == [Started(f, op, d) EXCEPT !.to = v]
  <2>1. call' = [call EXCEPT ![f] = c] /\ UNCHANGED <<cancelled, elapsed>> /\ pc[f] = "idle"
    BY <1>4 DEF Begin, MayCall
  <2>2. c.seq = call[f].seq + 1
    BY DEF Started
  <2> HIDE DEF c
  <2>3. call'[f].seq = call[f].seq + 1
    BY <2>1, <2>2 DEF Typed, CallsTyped
  <2>4. UNCHANGED pc \/ \E l \in {"try", "direct"} : Goto(f, l)
    BY <1>4 DEF Begin
  <2>5. CASE UNCHANGED pc
    BY <2>1, <2>3, <2>5 DEF Alike, Typed, CallsTyped
  <2>6. ASSUME NEW l \in {"try", "direct"}, Goto(f, l)
        PROVE  Alike(f) /\ pc'[f] = l
    BY <2>1, <2>6, GoOnAlike
  <2> QED
    BY <2>1, <2>3, <2>4, <2>5, <2>6
<1> QED
  BY <1>1, <1>2, <1>3, <1>4

LEMMA SetterAlike ==
  ASSUME Typed, NEW f \in Fibres, Setter(f)
  PROVE  /\ Alike(f) /\ UNCHANGED <<pc, cancelled, elapsed, isOpen, ready, ev, timers, wakes, threads>>
         /\ pc[f] = "idle" /\ call'[f].seq = call[f].seq + 1
         /\ \A g \in Fibres : call'[g].fd = call[g].fd
<1>1. PICK d \in Fds : Setting(f, d)
  BY DEF Setter, SetSockOpt, Fcntl, Ioctl
<1>2. UNCHANGED <<isOpen, ready, ev, timers, wakes, threads>>
  BY DEF Setter, SetSockOpt, Fcntl, Ioctl, kernelVars
<1>3. call' = [call EXCEPT ![f] = [call[f] EXCEPT !.seq = @ + 1]]
  BY <1>1 DEF Setting
<1>4. call[f] \in CallRecs
  BY DEF Typed, CallsTyped
<1>5. call'[f].seq = call[f].seq + 1 /\ call'[f].fd = call[f].fd /\ \A g \in Fibres \ {f} : call'[g] = call[g]
  BY <1>3, <1>4 DEF Typed, CallsTyped, CallRecs
<1> QED
  BY <1>1, <1>2, <1>5 DEF Alike, Setting, MayCall

----------------------------------------------------------------------------
(* Waits. *)

(* A step of a fibre that neither begins nor ends a wait. *)
LEMMA WaitsFrame ==
  ASSUME Typed, Waits, NEW f \in Fibres, Alike(f), pc[f] # "wait", pc'[f] # "wait",
         UNCHANGED <<ev, wakes>>
  PROVE  Waits'
<1> SUFFICES ASSUME NEW g \in Fibres
             PROVE  \/ pc'[g] # "wait" /\ wakes'[g] = 0 /\ Unseen(g)'
                    \/ pc'[g] = "wait" /\ wakes'[g] = 1 /\ Unseen(g)'
                    \/ /\ pc'[g] = "wait" /\ wakes'[g] = 0
                       /\ \A d \in Fds, k \in EventKinds : ev'[d][k] = g <=> d = Fd(g)' /\ k = Kind(g)'
  BY DEF Waits
<1>1. CASE g = f
  BY <1>1 DEF Waits, Unseen
<1>2. CASE g # f
  BY <1>2 DEF Waits, Unseen, Alike, Fd, Kind
<1> QED
  BY <1>1, <1>2

LEMMA WaitsStill ==
  ASSUME Waits, UNCHANGED <<pc, call, ev, wakes>>
  PROVE  Waits'
BY DEF Waits, Unseen, Fd, Kind

(* triggerEvent: the one who is registered is queued. *)
LEMMA WaitsTrigger ==
  ASSUME Typed, Waits, NEW d \in Fds, NEW k \in EventKinds, ev[d][k] # None, Trigger(d, k),
         UNCHANGED <<pc, call>>
  PROVE  Waits'
<1>1. PICK g \in Fibres : g = ev[d][k]
  BY DEF Typed, EventsTyped
<1>2. /\ pc[g] = "wait" /\ wakes[g] = 0 /\ d = Fd(g) /\ k = Kind(g)
      /\ \A e \in Fds, j \in EventKinds : ev[e][j] = g => e = d /\ j = k
  BY <1>1 DEF Waits, Unseen
<1>3. \A e \in Fds, j \in EventKinds : ev'[e][j] = IF e = d /\ j = k THEN None ELSE ev[e][j]
  BY DEF Trigger, Unregister, Typed, EventsTyped
<1>4. \A h \in Fibres : wakes'[h] = IF h = g THEN wakes[h] + 1 ELSE wakes[h]
  BY <1>1 DEF Trigger, Typed, EventsTyped
<1>5. \A h \in Fibres : h # None
  BY HookAssumption
<1>6. pc'[g] = "wait" /\ wakes'[g] = 1 /\ Unseen(g)'
  BY <1>1, <1>2, <1>3, <1>4, <1>5 DEF Unseen
<1>7. ASSUME NEW h \in Fibres, h # g
      PROVE  wakes'[h] = wakes[h] /\ \A e \in Fds, j \in EventKinds : ev'[e][j] = h <=> ev[e][j] = h
  BY <1>1, <1>3, <1>4, <1>5, <1>7
<1> QED
  BY <1>6, <1>7 DEF Waits, Unseen, Fd, Kind

LEMMA WaitsAdd ==
  ASSUME Typed, Waits, NEW f \in Fibres, AddEvent(f)
  PROVE  Waits'
<1> USE DEF callVars
<1>0. pc[f] = "add" /\ Fd(f) \in Fds /\ Kind(f) \in EventKinds /\ UNCHANGED wakes
  BY DEF AddEvent, At, Typed, CallsTyped, Fd, Kind, KindOf, EventKinds
<1>1. CASE /\ ev' = [ev EXCEPT ![Fd(f)][Kind(f)] = f] /\ ev[Fd(f)][Kind(f)] = None
           /\ Goto(f, "wait") /\ UNCHANGED callVars
  <2>1. \A d \in Fds, k \in EventKinds :
          ev'[d][k] = IF d = Fd(f) /\ k = Kind(f) THEN f ELSE ev[d][k]
    BY <1>0, <1>1 DEF Typed, EventsTyped
  <2>2. Alike(f) /\ pc'[f] = "wait"
    BY <1>1, GotoAlike
  <2>3. \A g \in Fibres : Fd(g)' = Fd(g) /\ Kind(g)' = Kind(g) /\ g # None
    BY <1>1, HookAssumption DEF Fd, Kind
  <2>4. wakes'[f] = 0 /\ \A d \in Fds, k \in EventKinds : ev'[d][k] = f <=> d = Fd(f)' /\ k = Kind(f)'
    BY <1>0, <2>1, <2>3 DEF Waits, Unseen
  <2>5. ASSUME NEW g \in Fibres, g # f
        PROVE  /\ pc'[g] = pc[g] /\ wakes'[g] = wakes[g]
               /\ \A d \in Fds, k \in EventKinds : ev'[d][k] = g <=> ev[d][k] = g
    BY <1>0, <1>1, <2>1, <2>2, <2>3, <2>5 DEF Alike
  <2> QED
    BY <2>2, <2>3, <2>4, <2>5 DEF Waits, Unseen
<1>2. CASE UNCHANGED ev /\ ((Goto(f, "soerror") /\ UNCHANGED callVars) \/ Return(f))
  <2>1. ASSUME Goto(f, "soerror"), UNCHANGED callVars PROVE Alike(f) /\ pc'[f] = "soerror"
    BY <2>1, GotoAlike
  <2>2. Alike(f) /\ pc'[f] # "wait"
    BY <1>2, <2>1, ReturnAlike
  <2> QED
    BY <1>0, <1>2, <2>2, WaitsFrame
<1> QED
  BY <1>1, <1>2 DEF AddEvent

LEMMA WaitsResume ==
  ASSUME Typed, Waits, NEW f \in Fibres, Resume(f)
  PROVE  Waits'
<1>0. pc[f] = "wait" /\ wakes[f] > 0 /\ wakes' = [wakes EXCEPT ![f] = @ - 1] /\ UNCHANGED ev
  BY DEF Resume, At
<1>1. Alike(f) /\ pc'[f] # "wait"
  BY ResumeAlike
<1>2. wakes[f] = 1 /\ Unseen(f)
  BY <1>0 DEF Waits
<1>3. wakes'[f] = 0 /\ Unseen(f)'
  BY <1>0, <1>2 DEF Unseen, Typed, EventsTyped
<1>4. ASSUME NEW g \in Fibres, g # f
      PROVE  pc'[g] = pc[g] /\ wakes'[g] = wakes[g] /\ Fd(g)' = Fd(g) /\ Kind(g)' = Kind(g)
  BY <1>0, <1>1, <1>4 DEF Alike, Fd, Kind, Typed, EventsTyped
<1> QED
  BY <1>0, <1>1, <1>3, <1>4 DEF Waits, Unseen

(* cancelAll: everyone registered for the descriptor is queued, once. *)
LEMMA WaitsClose ==
  ASSUME Typed, Waits, NEW f \in Fibres, CloseStep(f)
  PROVE  Waits'
<1>0. /\ pc[f] \in {"cancelAll", "del", "close"} /\ Fd(f) \in Fds
      /\ Goto(f, CloseOrder(pc[f])) /\ UNCHANGED callVars
  BY DEF CloseStep, Typed, CallsTyped, Fd
<1>1. Alike(f) /\ pc'[f] # "wait"
  BY <1>0, GotoAlike DEF CloseOrder, callVars
<1>2. CASE UNCHANGED <<ev, wakes>>
  BY <1>0, <1>1, <1>2, WaitsFrame
<1> DEFINE d == Fd(f)
           hit == {k \in EventKinds : ev[d][k] # None}
<1>3. CASE /\ wakes' = [g \in Fibres |-> wakes[g] + Cardinality({k \in hit : ev[d][k] = g})]
           /\ ev' = [ev EXCEPT ![d] = [k \in EventKinds |-> IF k \in hit THEN None ELSE @[k]]]
  <2> HIDE DEF d
  <2>1. \A e \in Fds, k \in EventKinds : ev'[e][k] = IF e = d THEN None ELSE ev[e][k]
    BY <1>0, <1>3 DEF Typed, EventsTyped
  <2>2. \A g \in Fibres : g # None /\ Fd(g)' = Fd(g) /\ Kind(g)' = Kind(g)
    BY <1>0, HookAssumption DEF callVars, Fd, Kind
  <2>3. ASSUME NEW g \in Fibres, \A k \in EventKinds : ev[d][k] # g
        PROVE  wakes'[g] = wakes[g] /\ \A e \in Fds, k \in EventKinds : ev'[e][k] = g <=> ev[e][k] = g
    <3>1. {k \in hit : ev[d][k] = g} = {}
      BY <2>3
    <3> QED
      BY <1>3, <2>1, <2>2, <2>3, <3>1, FS_EmptySet DEF Typed, EventsTyped
  <2>4. ASSUME NEW g \in Fibres, NEW j \in EventKinds, ev[d][j] = g
        PROVE  pc'[g] = "wait" /\ wakes'[g] = 1 /\ Unseen(g)'
    <3>0. d \in Fds
      BY <1>0 DEF d
    <3>1. /\ pc[g] = "wait" /\ wakes[g] = 0 /\ d = Fd(g) /\ j = Kind(g)
          /\ \A e \in Fds, k \in EventKinds : ev[e][k] = g <=> e = d /\ k = j
      BY <2>4, <3>0 DEF Waits, Unseen
    <3>2. {k \in hit : ev[d][k] = g} = {j}
      BY <2>2, <2>4, <3>0, <3>1
    <3>3. wakes'[g] = 1
      <4> DEFINE woken == {k \in hit : ev[d][k] = g}
      <4>1. wakes'[g] = wakes[g] + Cardinality(woken)
        BY <1>3
      <4>2. Cardinality(woken) = 1
        BY <3>2, FS_Singleton
      <4> HIDE DEF woken
      <4> QED
        BY <3>1, <4>1, <4>2
    <3>4. g # f
      BY <1>0, <3>1
    <3> QED
      BY <1>1, <2>1, <2>2, <3>1, <3>3, <3>4 DEF Alike, Unseen
  <2>5. ASSUME NEW g \in Fibres
        PROVE  pc'[g] = pc[g] \/ (g = f /\ pc[g] # "wait" /\ pc'[g] # "wait")
    BY <1>0, <1>1, <2>5 DEF Alike
  <2> QED
    BY <2>2, <2>3, <2>4, <2>5 DEF Waits, Unseen
<1> QED
  BY <1>2, <1>3 DEF CloseStep

LEMMA WaitsStep == Typed /\ Waits /\ [Next]_vars => Waits'
<1> SUFFICES ASSUME Typed, Waits, [Next]_vars
             PROVE  Waits'
  OBVIOUS
<1>1. ASSUME NEW f \in Fibres, Get(f) \/ Try(f) \/ Arm(f) \/ SoError(f) \/ Unblock(f)
      PROVE  Waits'
  <2>1. UNCHANGED <<ev, wakes>> /\ pc[f] # "wait"
    BY <1>1 DEF Get, Try, Arm, SoError, Unblock, At
  <2>2. Return(f) \/ Succeed(f) \/ Fail(f) \/ (Goto(f, "add") /\ UNCHANGED callVars)
    BY <1>1 DEF Get, Try, Arm, SoError, Unblock
  <2>3. Alike(f) /\ pc'[f] # "wait"
    <3>1. ASSUME Goto(f, "add"), UNCHANGED callVars PROVE Alike(f) /\ pc'[f] = "add"
      BY <3>1, GotoAlike
    <3> QED
      BY <2>2, <3>1, ReturnAlike, SucceedAlike, FailAlike
  <2> QED
    BY <2>1, <2>3, WaitsFrame
<1>2. ASSUME NEW f \in Fibres, Starter(f) \/ Setter(f)
      PROVE  Waits'
  <2>1. Alike(f) /\ pc[f] # "wait" /\ pc'[f] # "wait"
    BY <1>2, StarterAlike, SetterAlike
  <2>2. UNCHANGED <<ev, wakes>>
    BY <1>2, SetterAlike DEF Starter, Socket, Close, Begin
  <2> QED
    BY <2>1, <2>2, WaitsFrame
<1>3. ASSUME NEW tm \in timers, TimerStep(tm)
      PROVE  Waits'
  <2>1. tm.fd \in Fds /\ tm.kind \in EventKinds
    BY DEF Typed, TimersTyped, TimerRecs
  <2>2. CASE UNCHANGED <<pc, call, ev, wakes>>
    BY <2>2, WaitsStill
  <2>3. CASE CancelHits(tm) /\ CallbackCancel(tm)
    BY <2>1, <2>3, WaitsTrigger DEF CallbackCancel, CancelHits, callVars
  <2> QED
    BY <1>3, <2>2, <2>3 DEF TimerStep, Expire, CallbackMark, CallbackCancel, callVars
<1>4. ASSUME NEW d \in Fds, NEW k \in EventKinds, Event(d, k) \/ Arrive(d, k) \/ Withdraw(d, k)
      PROVE  Waits'
  <2>1. CASE Event(d, k)
    BY <2>1, WaitsTrigger DEF Event, callVars
  <2>2. CASE Arrive(d, k) \/ Withdraw(d, k)
    BY <2>2, WaitsStill DEF Arrive, Withdraw, callVars
  <2> QED
    BY <1>4, <2>1, <2>2
<1>5. CASE Tick \/ UNCHANGED vars
  BY <1>5, WaitsStill DEF Tick, vars, callVars
<1> QED
  BY <1>1, <1>2, <1>3, <1>4, <1>5, WaitsAdd, WaitsResume, WaitsClose DEF Next, FibreStep, Starter, Setter

----------------------------------------------------------------------------
(* Owned. *)

tableVars == <<isOpen, nonblock, table, cleared>>

(* Steps that open and close nothing and store nothing. *)
LEMMA OwnedStill ==
  ASSUME Owned, UNCHANGED <<isOpen, nonblock, table, cleared, pc, call>>
  PROVE  Owned'
BY DEF Owned, Unowned, Fd

LEMMA OwnedFrame ==
  ASSUME Owned, NEW f \in Fibres, Alike(f), pc[f] \notin Owners, pc'[f] \notin Owners,
         UNCHANGED tableVars
  PROVE  Owned'
<1>1. \A g \in Fibres : /\ pc[g] \in Owners <=> pc'[g] \in Owners
                        /\ pc[g] \in Owners => pc'[g] = pc[g] /\ Fd(g)' = Fd(g)
  BY DEF Alike, Fd
<1>2. \A d \in Fds : Unowned(d)' <=> Unowned(d)
  BY <1>1 DEF Unowned
<1> QED
  BY <1>1, <1>2 DEF Owned, tableVars, Owners

(* setsockopt, fcntl and ioctl: on a descriptor that nobody opens or closes. *)
LEMMA OwnedSetter ==
  ASSUME Typed, Owned, NEW f \in Fibres, Setter(f)
  PROVE  Owned'
<1>1. UNCHANGED <<pc, isOpen>> /\ \A g \in Fibres : Fd(g)' = Fd(g)
  BY SetterAlike DEF Fd
<1>2. PICK d \in Fds : \/ \E v \in Timeouts, field \in Options : SetSockOpt(f, d, field, v)
                       \/ \E v \in BOOLEAN : Fcntl(f, d, v) \/ Ioctl(f, d, v)
  BY DEF Setter
<1>3. table[d] # None
  BY <1>2 DEF SetSockOpt, Fcntl, Ioctl, Setting
<1>4. TableTyped'
  BY <1>2, SettingStepTyped DEF Typed
<1>5. \A e \in Fds : e # d => table'[e] = table[e] /\ nonblock'[e] = nonblock[e]
                                /\ (e \in cleared' <=> e \in cleared)
  BY <1>2 DEF SetSockOpt, Fcntl, Ioctl, Typed, KernelTyped, TableTyped, kernelVars
<1>6. table'[d] # None
  <2>1. table[d] \in Stored
    BY <1>3 DEF Typed, TableTyped
  <2>2. table'[d] \in Stored
    BY <1>2, <2>1 DEF SetSockOpt, Fcntl, Ioctl, Typed, TableTyped, Stored
  <2> QED
    BY <2>2, SpanFacts
<1>7. nonblock[d] \/ d \in cleared => nonblock'[d] \/ d \in cleared'
  BY <1>2 DEF SetSockOpt, Fcntl, Ioctl, KernelFlag, Typed, KernelTyped, kernelVars
<1>8. \A e \in Fds : Unowned(e)' <=> Unowned(e)
  BY <1>1 DEF Unowned
<1>9. \A g \in Fibres : Fd(g) \in Fds \/ pc[g] = "idle"
  BY DEF Typed, CallsTyped, Fd
<1> QED
  BY <1>1, <1>3, <1>5, <1>6, <1>7, <1>8, <1>9 DEF Owned, Owners

(* The kernel gives a descriptor that was closed, so nobody owned it and    *)
(* it has no context.                                                       *)
LEMMA OwnedNewFd ==
  ASSUME Typed, Owned, NEW f \in Fibres, NEW d \in Fds, NewFd(f, d), Alike(f),
         pc[f] \notin Owners, pc'[f] = "get", call'[f].fd = d, UNCHANGED <<table, cleared>>
  PROVE  Owned'
<1>1. /\ ~isOpen[d]
      /\ \A e \in Fds : isOpen'[e] = IF e = d THEN TRUE ELSE isOpen[e]
      /\ \A e \in Fds : nonblock'[e] = IF e = d THEN FALSE ELSE nonblock[e]
  BY DEF NewFd, Typed, KernelTyped
<1>2. \A g \in Fibres : g # f => pc'[g] = pc[g] /\ Fd(g)' = Fd(g)
  BY DEF Alike, Fd
<1>3. Fd(f)' = d
  BY DEF Fd
<1>4. \A g \in Fibres : pc[g] \in Owners => Fd(g) \in Fds /\ Fd(g) # d
  BY <1>1 DEF Owned, Owners, Typed, CallsTyped, Fd
<1>5. \A e \in Fds : e # d /\ Unowned(e)' => Unowned(e)
  BY <1>2 DEF Unowned
<1>6. ~Unowned(d)'
  BY <1>3 DEF Unowned, Owners
<1>7. \A g \in Fibres : pc'[g] \in Owners => isOpen'[Fd(g)']
  BY <1>1, <1>2, <1>3, <1>4 DEF Owned
<1>8. \A g, h \in Fibres : pc'[g] \in Owners /\ pc'[h] \in Owners /\ Fd(g)' = Fd(h)' => g = h
  BY <1>2, <1>3, <1>4 DEF Owned
<1>9. \A g \in Fibres : pc'[g] \in {"get", "close"} => table[Fd(g)'] = None
  BY <1>1, <1>2, <1>3 DEF Owned
<1>10. \A e \in Fds : /\ ~isOpen'[e] => table[e] = None
                      /\ isOpen'[e] /\ Unowned(e)' => table[e] # None /\ (nonblock'[e] \/ e \in cleared)
  BY <1>1, <1>5, <1>6 DEF Owned
<1> QED
  BY <1>7, <1>8, <1>9, <1>10 DEF Owned

LEMMA OwnedGet ==
  ASSUME Typed, Owned, NEW f \in Fibres, Get(f)
  PROVE  Owned'
<1> DEFINE d == Fd(f)
<1>1. pc[f] = "get" /\ d \in Fds /\ table[d] = None /\ UNCHANGED <<isOpen, cleared>> /\ Return(f)
  BY DEF Get, At, Owned, Owners, Typed, CallsTyped, Fd
<1>2. /\ \A e \in Fds : table'[e] = IF e = d THEN NewCtx ELSE table[e]
      /\ \A e \in Fds : nonblock'[e] = IF e = d THEN TRUE ELSE nonblock[e]
  BY <1>1 DEF Get, Typed, TableTyped, KernelTyped
<1>3. NewCtx # None
  <2>1. NewCtx \in Stored
    BY DEF NewCtx, Stored
  <2> QED
    BY <2>1, SpanFacts
<1>4. pc'[f] = "idle" /\ \A g \in Fibres : g # f => pc'[g] = pc[g] /\ Fd(g)' = Fd(g)
  BY <1>1, ReturnAlike DEF Alike, Fd
<1> HIDE DEF d
<1>5. \A g \in Fibres : g # f /\ pc[g] \in Owners => Fd(g) # d /\ Fd(g) \in Fds
  BY <1>1 DEF Owned, Owners, d, Typed, CallsTyped, Fd
<1>6. \A e \in Fds : e # d /\ Unowned(e)' => Unowned(e)
  BY <1>1, <1>4 DEF Unowned, Owners, d
<1>7. isOpen[d]
  BY <1>1 DEF Owned, Owners, d
<1>8. \A g \in Fibres : pc'[g] \in Owners => isOpen'[Fd(g)']
  BY <1>1, <1>4 DEF Owned, Owners
<1>9. \A g, h \in Fibres : pc'[g] \in Owners /\ pc'[h] \in Owners /\ Fd(g)' = Fd(h)' => g = h
  BY <1>4 DEF Owned, Owners
<1>10. \A g \in Fibres : pc'[g] \in {"get", "close"} => table'[Fd(g)'] = None
  BY <1>2, <1>4, <1>5 DEF Owned, Owners
<1>11. \A e \in Fds : /\ ~isOpen'[e] => table'[e] = None
                      /\ isOpen'[e] /\ Unowned(e)' => table'[e] # None /\ (nonblock'[e] \/ e \in cleared')
  BY <1>1, <1>2, <1>3, <1>6, <1>7 DEF Owned
<1> QED
  BY <1>8, <1>9, <1>10, <1>11 DEF Owned

(* close(), setsockopt() and the like find a context: the branches of the  *)
(* code for a descriptor without one are not taken on one it handed out.   *)
LEMMA UsableHasCtx ==
  ASSUME Owned, NEW d \in Fds, Usable(d), ~aborted
  PROVE  table[d] # None /\ Unowned(d)
<1>1. \A g \in Fibres : pc[g] \in Owners => Fd(g) # d
  BY DEF Usable, Closing, At, Owners
<1> QED
  BY <1>1 DEF Owned, Unowned, Usable

LEMMA OwnedClose ==
  ASSUME Typed, Owned, NEW f \in Fibres, NEW d \in Fds, Close(f, d)
  PROVE  Owned'
<1>1. isOpen[d] /\ pc[f] = "idle" /\ UNCHANGED tableVars
  BY DEF Close, Usable, MayCall, tableVars, kernelVars
<1>2. \A g \in Fibres : pc[g] \in Owners => Fd(g) # d
  BY UsableHasCtx DEF Close, MayCall, FreeThread, Unowned
<1>3. table[d] # None
  BY UsableHasCtx DEF Close, MayCall, FreeThread
<1> DEFINE c == Started(f, "close", d)
<1>4. c.fd = d /\ Goto(f, "cancelAll") /\ UNCHANGED <<cancelled, elapsed>>
        /\ call' = [call EXCEPT ![f] = c]
  BY <1>3 DEF Close, Started
<1> HIDE DEF c
<1>5. Alike(f) /\ pc'[f] = "cancelAll" /\ Fd(f)' = d
  BY <1>4, GoOnAlike DEF Fd
<1>6. \A g \in Fibres : g # f => pc'[g] = pc[g] /\ Fd(g)' = Fd(g)
  BY <1>5 DEF Alike, Fd
<1>7. \A e \in Fds : Unowned(e)' => Unowned(e)
  BY <1>1, <1>6 DEF Unowned, Owners
<1>8. \A g \in Fibres : pc'[g] \in Owners => isOpen'[Fd(g)']
  BY <1>1, <1>5, <1>6 DEF Owned, tableVars
<1>9. \A g, h \in Fibres : pc'[g] \in Owners /\ pc'[h] \in Owners /\ Fd(g)' = Fd(h)' => g = h
  BY <1>2, <1>5, <1>6 DEF Owned
<1>10. \A g \in Fibres : pc'[g] \in {"get", "close"} => table'[Fd(g)'] = None
  BY <1>1, <1>5, <1>6 DEF Owned, tableVars
<1> QED
  BY <1>1, <1>7, <1>8, <1>9, <1>10 DEF Owned, tableVars

LEMMA OwnedCloseStep ==
  ASSUME Typed, Owned, NEW f \in Fibres, CloseStep(f)
  PROVE  Owned'
<1> DEFINE d == Fd(f)
<1>0. /\ pc[f] \in {"cancelAll", "del", "close"} /\ d \in Fds
      /\ Goto(f, CloseOrder(pc[f])) /\ UNCHANGED callVars
  BY DEF CloseStep, Typed, CallsTyped, Fd
<1>1. Alike(f) /\ pc'[f] = CloseOrder(pc[f])
  BY <1>0, GotoAlike
<1>2. \A g \in Fibres : Fd(g)' = Fd(g) /\ (g # f => pc'[g] = pc[g])
  BY <1>0, <1>1 DEF Alike, Fd, callVars
<1>3. isOpen[d] /\ \A g \in Fibres : g # f /\ pc[g] \in Owners => Fd(g) # d
  BY <1>0 DEF Owned, Owners
<1>4. \A g \in Fibres : pc[g] \in Owners => Fd(g) \in Fds
  BY DEF Typed, CallsTyped, Fd, Owners
<1>5. \A e \in Fds : e # d /\ Unowned(e)' => Unowned(e)
  BY <1>0, <1>2 DEF Unowned, Owners
<1>6. CASE pc[f] = "cancelAll"
  <2>1. pc'[f] = "del" /\ UNCHANGED tableVars
    BY <1>1, <1>6 DEF CloseStep, CloseOrder, tableVars, kernelVars
  <2>2. \A e \in Fds : Unowned(e)' <=> Unowned(e)
    BY <1>2, <1>6, <2>1 DEF Unowned, Owners
  <2> QED
    BY <1>0, <1>2, <1>6, <2>1, <2>2 DEF Owned, tableVars, Owners
<1>7. CASE pc[f] = "del"
  <2>1. pc'[f] = "close" /\ table' = [table EXCEPT ![d] = None] /\ UNCHANGED <<isOpen, nonblock, cleared>>
    BY <1>1, <1>7 DEF CloseStep, CloseOrder, kernelVars
  <2>2. \A e \in Fds : table'[e] = IF e = d THEN None ELSE table[e]
    BY <2>1 DEF Typed, TableTyped
  <2>3. \A e \in Fds : Unowned(e)' <=> Unowned(e)
    BY <1>2, <1>7, <2>1 DEF Unowned, Owners
  <2>4. ~Unowned(d)
    BY <1>7 DEF Unowned, Owners
  <2>5. \A g \in Fibres : pc'[g] \in {"get", "close"} => table'[Fd(g)'] = None
    BY <1>0, <1>2, <1>4, <2>1, <2>2 DEF Owned, Owners
  <2>6. \A g, h \in Fibres : pc'[g] \in Owners /\ pc'[h] \in Owners /\ Fd(g)' = Fd(h)' => g = h
    BY <1>2, <1>7 DEF Owned, Owners
  <2>7. \A g \in Fibres : pc'[g] \in Owners => isOpen'[Fd(g)']
    BY <1>2, <1>7, <2>1 DEF Owned, Owners
  <2> QED
    BY <2>1, <2>2, <2>3, <2>4, <2>5, <2>6, <2>7 DEF Owned
<1>8. CASE pc[f] = "close"
  <2>1. /\ pc'[f] = "idle" /\ isOpen' = [isOpen EXCEPT ![d] = FALSE] /\ cleared' = cleared \ {d}
        /\ UNCHANGED <<nonblock, table>>
    BY <1>1, <1>8 DEF CloseStep, CloseOrder
  <2>2. \A e \in Fds : isOpen'[e] = IF e = d THEN FALSE ELSE isOpen[e]
    BY <2>1 DEF Typed, KernelTyped
  <2>3. table[d] = None
    BY <1>8 DEF Owned
  <2>4. \A g \in Fibres : pc'[g] \in Owners => g # f /\ pc'[g] = pc[g] /\ Fd(g) # d
    BY <1>2, <1>3, <2>1 DEF Owners
  <2>5. \A g \in Fibres : pc'[g] \in Owners => isOpen'[Fd(g)']
    BY <1>2, <1>4, <2>2, <2>4 DEF Owned
  <2>6. \A g, h \in Fibres : pc'[g] \in Owners /\ pc'[h] \in Owners /\ Fd(g)' = Fd(h)' => g = h
    BY <1>2, <2>4 DEF Owned
  <2>7. \A g \in Fibres : pc'[g] \in {"get", "close"} => table'[Fd(g)'] = None
    BY <1>2, <2>1, <2>4 DEF Owned, Owners
  <2>8. \A e \in Fds : /\ ~isOpen'[e] => table'[e] = None
                       /\ isOpen'[e] /\ Unowned(e)' => table'[e] # None /\ (nonblock'[e] \/ e \in cleared')
    BY <1>5, <2>1, <2>2, <2>3 DEF Owned
  <2> QED
    BY <2>5, <2>6, <2>7, <2>8 DEF Owned
<1> QED
  BY <1>0, <1>6, <1>7, <1>8

LEMMA OwnedStep == Typed /\ Owned /\ [Next]_vars => Owned'
<1> SUFFICES ASSUME Typed, Owned, [Next]_vars
             PROVE  Owned'
  OBVIOUS
<1>1. ASSUME NEW f \in Fibres, Try(f) \/ Unblock(f)
      PROVE  Owned'
  <2>1. pc[f] \notin Owners /\ UNCHANGED <<table, cleared>>
    BY <1>1 DEF Try, Unblock, At, Owners
  <2>2. CASE Fail(f)
    <3>1. Alike(f) /\ pc'[f] \notin Owners
      BY <2>2, FailAlike DEF Owners
    <3> QED
      BY <2>1, <2>2, <3>1, OwnedFrame DEF Fail, kernelVars, tableVars
  <2>3. CASE Succeed(f) /\ pc'[f] = "idle"
    BY <2>1, <2>3, SucceedAlike, OwnedFrame DEF Owners, tableVars
  <2>4. CASE Succeed(f) /\ pc'[f] = "get"
    BY <2>1, <2>4, SucceedAlike, OwnedNewFd
  <2> QED
    BY <1>1, <2>2, <2>3, <2>4, SucceedAlike DEF Try, Unblock
<1>2. ASSUME NEW f \in Fibres, Arm(f) \/ AddEvent(f) \/ Resume(f) \/ SoError(f)
      PROVE  Owned'
  <2>1. pc[f] \notin Owners /\ UNCHANGED tableVars
    BY <1>2 DEF Arm, AddEvent, Resume, SoError, At, Owners, tableVars, kernelVars
  <2>2. \/ Return(f)
        \/ UNCHANGED callVars /\ \E l \in {"add", "wait", "soerror"} : Goto(f, l)
        \/ Goto(f, "try") /\ UNCHANGED <<cancelled, elapsed>> /\ call' = [call EXCEPT ![f].round = @ + 1]
    BY <1>2 DEF Arm, AddEvent, Resume, SoError
  <2>3. ASSUME NEW l \in {"add", "wait", "soerror"}, Goto(f, l), UNCHANGED callVars
        PROVE  Alike(f) /\ pc'[f] \notin Owners
    BY <2>3, GotoAlike DEF Owners
  <2>4. ASSUME Return(f) PROVE Alike(f) /\ pc'[f] \notin Owners
    BY <2>4, ReturnAlike DEF Owners
  <2>5. ASSUME Goto(f, "try"), UNCHANGED <<cancelled, elapsed>>, call' = [call EXCEPT ![f].round = @ + 1]
        PROVE  Alike(f) /\ pc'[f] \notin Owners
    BY <2>5 DEF Alike, Goto, Owners, Typed, CallsTyped
  <2>6. Alike(f) /\ pc'[f] \notin Owners
    BY <2>2, <2>3, <2>4, <2>5
  <2> QED
    BY <2>1, <2>6, OwnedFrame
<1>3. ASSUME NEW f \in Fibres, NEW d \in Fds, Socket(f, d)
      PROVE  Owned'
  <2> DEFINE c == Started(f, "socket", d)
  <2>1. pc[f] = "idle" /\ NewFd(f, d) /\ UNCHANGED <<table, cleared, cancelled, elapsed>>
          /\ call' = [call EXCEPT ![f] = c]
    BY <1>3 DEF Socket, MayCall
  <2>2. c.fd = d
    BY DEF Started
  <2> HIDE DEF c
  <2>3. Alike(f) /\ pc'[f] = "get" /\ call'[f].fd = d
    BY <2>1, <2>2, GoOnAlike DEF NewFd
  <2> QED
    BY <2>1, <2>3, OwnedNewFd DEF Owners
<1>4. ASSUME NEW f \in Fibres, NEW d \in Fds, NEW op \in Calls, Begin(f, op, d)
      PROVE  Owned'
  <2>1. Alike(f) /\ pc[f] = "idle"
    BY <1>4, StarterAlike DEF Starter
  <2>2. UNCHANGED tableVars /\ pc'[f] \notin Owners
    BY <1>4, <2>1 DEF Begin, Goto, tableVars, kernelVars, Owners, Typed, CallsTyped
  <2> QED
    BY <2>1, <2>2, OwnedFrame DEF Owners
<1>5. ASSUME NEW tm \in timers, TimerStep(tm)
      PROVE  Owned'
  BY <1>5, OwnedStill DEF TimerStep, Expire, CallbackMark, CallbackCancel, kernelVars, callVars
<1>6. ASSUME NEW d \in Fds, NEW k \in EventKinds, Event(d, k) \/ Arrive(d, k) \/ Withdraw(d, k)
      PROVE  Owned'
  BY <1>6, OwnedStill DEF Event, Arrive, Withdraw, kernelVars, callVars
<1>7. CASE Tick \/ UNCHANGED vars
  BY <1>7, OwnedStill DEF Tick, vars, kernelVars, callVars
<1> QED
  BY <1>1, <1>2, <1>3, <1>4, <1>5, <1>6, <1>7, OwnedGet, OwnedClose, OwnedCloseStep, OwnedSetter
     DEF Next, FibreStep, Setter

----------------------------------------------------------------------------
(* Alone. *)

LEMMA FreeAlone ==
  ASSUME Typed, threads = 1, FreeThread
  PROVE  \A f \in Fibres : ~Running(f)
<1> DEFINE R == {f \in Fibres : pc[f] \notin {"idle", "wait"}}
           M == {tm \in timers : tm.stage = "marked"}
<1>1. IsFiniteSet(R) /\ Cardinality(R) \in Nat
  BY FS_Subset, FS_CardinalityType, HookAssumption
<1>2. IsFiniteSet(M) /\ Cardinality(M) \in Nat
  BY FS_Subset, FS_CardinalityType DEF Typed, TimersTyped
<1>3. Cardinality(R) + Cardinality(M) < 1
  BY DEF FreeThread
<1>4. R = {}
  <2>1. Cardinality(R) = 0
    <3> HIDE DEF R, M
    <3> QED
      BY <1>1, <1>2, <1>3
  <2> QED
    BY <1>1, <2>1, FS_EmptySet
<1> QED
  BY <1>4 DEF Running

(* A fibre that runs, or gets a free thread, goes on without registering.  *)
LEMMA AloneFrame ==
  ASSUME Typed, Alone, NEW f \in Fibres, Alike(f), Running(f) \/ FreeThread,
         pc'[f] \notin {"del", "close"}, UNCHANGED <<threads, ev>>,
         \A d \in Fds : isOpen[d] => isOpen'[d]
  PROVE  Alone'
<1> SUFFICES ASSUME threads = 1
             PROVE  /\ \A g, h \in Fibres : Running(g)' /\ Running(h)' => g = h
                    /\ \A g \in Fibres : pc'[g] \in {"del", "close"} =>
                         \A k \in EventKinds : ev'[Fd(g)'][k] = None
                    /\ \A d \in Fds : ~isOpen'[d] => \A k \in EventKinds : ev'[d][k] = None
  BY DEF Alone
<1>1. \A g \in Fibres : g # f => pc'[g] = pc[g] /\ Fd(g)' = Fd(g) /\ (Running(g)' <=> Running(g))
  BY DEF Alike, Fd, Running
<1>2. \A g \in Fibres : Running(g) => g = f
  BY FreeAlone DEF Alone
<1>3. \A g \in Fibres : Running(g)' => g = f
  BY <1>1, <1>2
<1> QED
  BY <1>1, <1>3 DEF Alone

LEMMA AloneStill ==
  ASSUME Typed, Alone, UNCHANGED <<threads, isOpen, pc, call>>,
         \A d \in Fds, k \in EventKinds : ev'[d][k] \in {ev[d][k], None}
  PROVE  Alone'
<1>1. \A f \in Fibres : /\ Fd(f)' = Fd(f) /\ (Running(f)' <=> Running(f))
                        /\ pc[f] \in {"del", "close"} => Fd(f) \in Fds
  BY DEF Fd, Running, Typed, CallsTyped
<1> QED
  BY <1>1 DEF Alone

LEMMA AloneAdd ==
  ASSUME Typed, Alone, NEW f \in Fibres, AddEvent(f)
  PROVE  Alone'
<1>0. /\ pc[f] = "add" /\ Fd(f) \in Fds /\ Kind(f) \in EventKinds
      /\ UNCHANGED <<threads, isOpen>>
  BY DEF AddEvent, At, Typed, CallsTyped, Fd, Kind, KindOf, EventKinds, kernelVars
<1>1. Running(f)
  BY <1>0 DEF Running
<1>2. CASE UNCHANGED ev /\ ((Goto(f, "soerror") /\ UNCHANGED callVars) \/ Return(f))
  <2>1. ASSUME Goto(f, "soerror"), UNCHANGED callVars PROVE Alike(f) /\ pc'[f] = "soerror"
    BY <2>1, GotoAlike
  <2>2. Alike(f) /\ pc'[f] \notin {"del", "close"}
    BY <1>2, <2>1, ReturnAlike
  <2> QED
    BY <1>0, <1>1, <1>2, <2>2, AloneFrame
<1>3. CASE /\ isOpen[Fd(f)] /\ ev' = [ev EXCEPT ![Fd(f)][Kind(f)] = f]
           /\ Goto(f, "wait") /\ UNCHANGED callVars
  <2> SUFFICES ASSUME threads = 1
               PROVE  Alone'
    BY <1>0 DEF Alone
  <2>1. Alike(f) /\ pc'[f] = "wait"
    BY <1>3, GotoAlike
  <2>2. \A g \in Fibres : Running(g) => g = f
    BY <1>1 DEF Alone
  <2>3. \A g \in Fibres : ~Running(g)'
    BY <2>1, <2>2 DEF Running, Alike
  <2>4. \A d \in Fds : ~isOpen'[d] => \A k \in EventKinds : ev'[d][k] = None
    BY <1>0, <1>3 DEF Alone, Typed, EventsTyped
  <2>5. \A g \in Fibres : pc'[g] \notin {"del", "close"}
    BY <2>3 DEF Running
  <2> QED
    BY <2>3, <2>4, <2>5 DEF Alone
<1> QED
  BY <1>2, <1>3 DEF AddEvent

LEMMA AloneClose ==
  ASSUME Typed, Alone, NEW f \in Fibres, CloseStep(f)
  PROVE  Alone'
<1> DEFINE d == Fd(f)
           hit == {k \in EventKinds : ev[d][k] # None}
<1>0. /\ pc[f] \in {"cancelAll", "del", "close"} /\ d \in Fds
      /\ Goto(f, CloseOrder(pc[f])) /\ UNCHANGED callVars /\ UNCHANGED threads
  BY DEF CloseStep, Typed, CallsTyped, Fd
<1> SUFFICES ASSUME threads = 1
             PROVE  Alone'
  BY <1>0 DEF Alone
<1>1. Alike(f) /\ pc'[f] = CloseOrder(pc[f])
  BY <1>0, GotoAlike
<1>2. \A g \in Fibres : Fd(g)' = Fd(g) /\ (g # f => pc'[g] = pc[g])
  BY <1>0, <1>1 DEF Alike, Fd, callVars
<1>3. \A g \in Fibres : Running(g)' => g = f
  BY <1>0, <1>2 DEF Alone, Running
<1>4. /\ \A g \in Fibres : pc'[g] \in {"del", "close"} => g = f
      /\ \A g, h \in Fibres : Running(g)' /\ Running(h)' => g = h
  BY <1>3 DEF Running
<1>5. CASE pc[f] = "cancelAll"
  <2>1. UNCHANGED isOpen /\
        ev' = [ev EXCEPT ![d] = [k \in EventKinds |-> IF k \in hit THEN None ELSE @[k]]]
    BY <1>5 DEF CloseStep, kernelVars
  <2>2. \A e \in Fds, k \in EventKinds : ev'[e][k] = IF e = d THEN None ELSE ev[e][k]
    BY <1>0, <2>1 DEF Typed, EventsTyped
  <2> QED
    BY <1>0, <1>2, <1>4, <2>1, <2>2 DEF Alone
<1>6. CASE pc[f] = "del"
  <2>1. UNCHANGED <<isOpen, ev>>
    BY <1>6 DEF CloseStep, kernelVars
  <2> QED
    BY <1>0, <1>2, <1>4, <1>6, <2>1 DEF Alone
<1>7. CASE pc[f] = "close"
  <2>1. UNCHANGED ev /\ \A e \in Fds : isOpen'[e] = IF e = d THEN FALSE ELSE isOpen[e]
    BY <1>7 DEF CloseStep, Typed, KernelTyped
  <2>2. pc'[f] = "idle"
    BY <1>1, <1>7 DEF CloseOrder
  <2> QED
    BY <1>0, <1>2, <1>4, <1>7, <2>1, <2>2 DEF Alone
<1> QED
  BY <1>0, <1>5, <1>6, <1>7

LEMMA AloneStep == Typed /\ Owned /\ Alone /\ [Next]_vars => Alone'
<1> SUFFICES ASSUME Typed, Owned, Alone, [Next]_vars
             PROVE  Alone'
  OBVIOUS
<1>1. ASSUME NEW f \in Fibres, Get(f) \/ Try(f) \/ Arm(f) \/ SoError(f) \/ Unblock(f)
      PROVE  Alone'
  <2>1. UNCHANGED <<threads, ev>> /\ Running(f)
    BY <1>1 DEF Get, Try, Arm, SoError, Unblock, At, Running
  <2>2. \/ Return(f) /\ UNCHANGED isOpen
        \/ Succeed(f)
        \/ Fail(f)
        \/ Goto(f, "add") /\ UNCHANGED callVars /\ UNCHANGED isOpen
    BY <1>1 DEF Get, Try, Arm, SoError, Unblock, kernelVars
  <2>3. Alike(f) /\ pc'[f] \notin {"del", "close"}
    <3>1. ASSUME Goto(f, "add"), UNCHANGED callVars PROVE Alike(f) /\ pc'[f] = "add"
      BY <3>1, GotoAlike
    <3> QED
      BY <2>2, <3>1, ReturnAlike, SucceedAlike, FailAlike
  <2>4. \A d \in Fds : isOpen[d] => isOpen'[d]
    <3>1. CASE Succeed(f)
      <4>1. CASE pc'[f] = "get"
        BY <3>1, <4>1, SucceedAlike DEF NewFd, Typed, KernelTyped
      <4> QED
        BY <3>1, <4>1, SucceedAlike
    <3> QED
      BY <2>2, <3>1 DEF Fail, kernelVars
  <2> QED
    BY <2>1, <2>3, <2>4, AloneFrame
<1>2. ASSUME NEW f \in Fibres, Resume(f)
      PROVE  Alone'
  <2>1. FreeThread /\ UNCHANGED <<threads, ev, isOpen>>
    BY <1>2 DEF Resume, kernelVars
  <2>2. Alike(f) /\ pc'[f] \notin {"del", "close"}
    BY <1>2, ResumeAlike
  <2> QED
    BY <2>1, <2>2, AloneFrame
<1>3. ASSUME NEW f \in Fibres, Setter(f)
      PROVE  Alone'
  <2>1. FreeThread /\ pc[f] = "idle"
    BY <1>3 DEF Setter, SetSockOpt, Fcntl, Ioctl, Setting, MayCall
  <2> QED
    BY <1>3, <2>1, SetterAlike, AloneFrame
<1>4. ASSUME NEW f \in Fibres, NEW d \in Fds, Socket(f, d) \/ Close(f, d) \/ \E op \in Calls : Begin(f, op, d)
      PROVE  Alone'
  <2>1. FreeThread /\ Alike(f) /\ UNCHANGED <<threads, ev>>
    BY <1>4, StarterAlike DEF Starter, Socket, Close, Begin, MayCall
  <2>2. \A e \in Fds : isOpen[e] => isOpen'[e]
    BY <1>4 DEF Socket, NewFd, Close, Begin, kernelVars, Typed, KernelTyped
  <2>3. pc'[f] \notin {"del", "close"}
    <3>1. CASE Close(f, d)
      <4>1. table[d] # None
        BY <3>1, UsableHasCtx DEF Close, MayCall, FreeThread
      <4> QED
        BY <3>1, <4>1 DEF Close, Goto, Typed, CallsTyped
    <3>2. CASE Socket(f, d)
      BY <3>2 DEF Socket, NewFd, Goto, Typed, CallsTyped
    <3>3. ASSUME NEW op \in Calls, Begin(f, op, d)
          PROVE  pc'[f] \notin {"del", "close"}
      BY <3>3 DEF Begin, MayCall, Goto, Typed, CallsTyped
    <3> QED
      BY <1>4, <3>1, <3>2, <3>3
  <2> QED
    BY <2>1, <2>2, <2>3, AloneFrame
<1>5. ASSUME NEW tm \in timers, TimerStep(tm)
      PROVE  Alone'
  <2>1. UNCHANGED <<threads, isOpen, pc, call>>
    BY <1>5 DEF TimerStep, Expire, CallbackMark, CallbackCancel, kernelVars, callVars
  <2>2. UNCHANGED ev \/ ev' = Unregister(tm.fd, tm.kind)
    BY <1>5 DEF TimerStep, Expire, CallbackMark, CallbackCancel, Trigger
  <2>3. \A e \in Fds, j \in EventKinds : ev'[e][j] \in {ev[e][j], None}
    BY <2>2 DEF Unregister, Typed, EventsTyped
  <2> QED
    BY <2>1, <2>3, AloneStill
<1>6. ASSUME NEW d \in Fds, NEW k \in EventKinds, Event(d, k) \/ Arrive(d, k) \/ Withdraw(d, k)
      PROVE  Alone'
  <2>1. UNCHANGED <<threads, isOpen, pc, call>> /\ (UNCHANGED ev \/ ev' = Unregister(d, k))
    BY <1>6 DEF Event, Trigger, Arrive, Withdraw, kernelVars, callVars
  <2>2. \A e \in Fds, j \in EventKinds : ev'[e][j] \in {ev[e][j], None}
    BY <2>1 DEF Unregister, Typed, EventsTyped
  <2> QED
    BY <2>1, <2>2, AloneStill
<1>7. CASE Tick \/ UNCHANGED vars
  BY <1>7, AloneStill DEF Tick, vars, kernelVars, callVars
<1> QED
  BY <1>1, <1>2, <1>3, <1>4, <1>5, <1>6, <1>7, AloneAdd, AloneClose DEF Next, FibreStep, Setter

----------------------------------------------------------------------------
(* Clocked. *)

Unmarked == {"idle", "cancelAll", "del", "close"}
TimerRight(tm) ==
  /\ tm.seq <= call[tm.owner].seq
  /\ tm.stage # "armed" => tm.left = 0
  /\ Live(tm) => call[tm.owner].to # Inf /\ elapsed[tm.owner] + tm.left >= call[tm.owner].to

(* A fibre goes on with its call, ends it, or begins one with a new number: *)
(* the timers of its earlier calls are not live in that one.                *)
LEMMA ClockedFrame ==
  ASSUME Typed, Clocked, NEW f \in Fibres, Alike(f), timers' \subseteq timers,
         \/ call'[f].seq = call[f].seq /\ (InCall(f)' => InCall(f) /\ call'[f].to = call[f].to
                                                            /\ elapsed'[f] = elapsed[f])
         \/ call'[f].seq = call[f].seq + 1,
         cancelled'[f] => /\ cancelled[f] /\ pc'[f] \notin Unmarked
                          /\ call'[f].to = call[f].to /\ elapsed'[f] = elapsed[f]
  PROVE  Clocked'
<1>1. ASSUME NEW tm \in timers'
      PROVE  TimerRight(tm)'
  <2>0. tm \in timers /\ tm \in TimerRecs /\ tm.owner \in Fibres /\ tm.seq \in Nat /\ TimerRight(tm)
    BY <1>1 DEF Typed, TimersTyped, TimerRecs, Clocked, TimerRight
  <2>1. CASE tm.owner # f
    BY <2>0, <2>1 DEF Alike, TimerRight, Live, InCall
  <2>2. CASE tm.owner = f
    <3>0. call[f].seq \in Nat
      BY DEF Typed, CallsTyped, CallRecs
    <3>1. CASE call'[f].seq = call[f].seq + 1
      BY <2>0, <2>2, <3>0, <3>1 DEF TimerRight, Live
    <3>2. CASE call'[f].seq = call[f].seq /\ (InCall(f)' => InCall(f) /\ call'[f].to = call[f].to
                                                                      /\ elapsed'[f] = elapsed[f])
      BY <2>0, <2>2, <3>0, <3>2 DEF TimerRight, Live, InCall
    <3> QED
      BY <3>1, <3>2
  <2> QED
    BY <2>1, <2>2
<1>2. ASSUME NEW g \in Fibres, cancelled'[g]
      PROVE  pc'[g] \notin Unmarked /\ Due(g)'
  <2>1. CASE g = f
    BY <1>2, <2>1 DEF Clocked, Due
  <2>2. CASE g # f
    BY <1>2, <2>2 DEF Clocked, Due, Alike, Unmarked
  <2> QED
    BY <2>1, <2>2
<1> QED
  BY <1>1, <1>2 DEF Clocked, TimerRight, Unmarked

LEMMA ClockedStill ==
  ASSUME Clocked, UNCHANGED <<pc, call, cancelled, elapsed>>, timers' \subseteq timers
  PROVE  Clocked'
BY DEF Clocked, Live, InCall, Due

LEMMA ClockedArm ==
  ASSUME Typed, Clocked, NEW f \in Fibres, Arm(f)
  PROVE  Clocked'
<1>0. call[f].seq \in Nat /\ elapsed[f] \in Nat /\ (call[f].to # Inf => call[f].to \in Nat)
  <2>1. call[f] \in CallRecs /\ elapsed[f] \in 0..MaxTime
    BY DEF Typed, CallsTyped
  <2>2. call[f].to \in Spans /\ call[f].seq \in Nat
    BY <2>1 DEF CallRecs
  <2>3. elapsed[f] \in Nat
    BY <2>1, HookAssumption
  <2>4. call[f].to # Inf => call[f].to \in Nat
    BY <2>2, SpanFacts
  <2> QED
    BY <2>2, <2>3, <2>4
<1>1. \/ timers' = timers
      \/ /\ call[f].to # Inf
         /\ \E n : /\ n.owner = f /\ n.seq = call[f].seq /\ n.left = call[f].to /\ n.stage = "armed"
                   /\ timers' = timers \cup {n}
  <2> DEFINE tm == [owner |-> f, seq |-> call[f].seq, round |-> call[f].round,
                    fd |-> Fd(f), kind |-> Kind(f), left |-> call[f].to, stage |-> "armed"]
  <2>1. tm.owner = f /\ tm.seq = call[f].seq /\ tm.left = call[f].to /\ tm.stage = "armed"
    OBVIOUS
  <2>2. timers' = timers \/ (call[f].to # Inf /\ timers' = timers \cup {tm})
    BY DEF Arm
  <2> HIDE DEF tm
  <2> QED
    BY <2>1, <2>2
<1>2. /\ pc[f] = "arm" /\ pc'[f] = "add" /\ \A g \in Fibres : g # f => pc'[g] = pc[g]
      /\ UNCHANGED <<call, cancelled, elapsed>>
  BY DEF Arm, At, Goto, callVars, Typed, CallsTyped
<1>3. \A g \in Fibres : InCall(g)' <=> InCall(g)
  BY <1>2 DEF InCall
<1>4. ASSUME NEW t \in timers PROVE TimerRight(t)'
  <2>1. t.owner \in Fibres /\ TimerRight(t)
    BY <1>4 DEF Typed, TimersTyped, TimerRecs, Clocked, TimerRight
  <2> QED
    BY <1>2, <1>3, <2>1 DEF TimerRight, Live
<1>5. ASSUME call[f].to # Inf, NEW n, n.owner = f, n.seq = call[f].seq, n.left = call[f].to,
             n.stage = "armed"
      PROVE  TimerRight(n)'
  BY <1>0, <1>2, <1>5 DEF TimerRight
<1>6. \A g \in Fibres : cancelled'[g] => pc'[g] \notin Unmarked /\ Due(g)'
  BY <1>2 DEF Clocked, Due, Unmarked
<1>7. \A t \in timers' : TimerRight(t)'
  BY <1>1, <1>4, <1>5
<1> QED
  BY <1>6, <1>7 DEF Clocked, TimerRight, Unmarked

(* The callback marks a call only when its timer has nothing left. *)
LEMMA ClockedTimer ==
  ASSUME Typed, Clocked, NEW tm \in timers, TimerStep(tm)
  PROVE  Clocked'
<1>0. tm.owner \in Fibres /\ tm \in TimerRecs /\ TimerRight(tm)
  BY DEF Typed, TimersTyped, TimerRecs, Clocked, TimerRight
<1>1. UNCHANGED <<pc, call, elapsed>>
  BY DEF TimerStep, Expire, CallbackMark, CallbackCancel, callVars
<1>2. ASSUME NEW st \in {"queued", "marked"}, tm.left = 0,
             timers' = (timers \ {tm}) \cup {[tm EXCEPT !.stage = st]}
      PROVE  \A t \in timers' : TimerRight(t)'
  <2> DEFINE n == [tm EXCEPT !.stage = st]
  <2>1. n.owner = tm.owner /\ n.seq = tm.seq /\ n.left = tm.left /\ n.stage = st
    BY <1>0 DEF TimerRecs
  <2> HIDE DEF n
  <2>2. TimerRight(n)'
    BY <1>0, <1>1, <1>2, <2>1 DEF TimerRight, Live, InCall
  <2>3. ASSUME NEW t \in timers PROVE TimerRight(t)'
    BY <1>1, <2>3 DEF Clocked, TimerRight, Live, InCall
  <2> QED
    BY <1>2, <2>2, <2>3 DEF n
<1>3. CASE timers' = timers \ {tm} /\ UNCHANGED cancelled
  BY <1>1, <1>3, ClockedStill
<1>4. CASE Expire(tm)
  <2>1. \A t \in timers' : TimerRight(t)'
    BY <1>2, <1>4 DEF Expire
  <2> QED
    BY <1>1, <1>4, <2>1 DEF Expire, callVars, Clocked, TimerRight, Due
<1>5. CASE CallbackMark(tm) /\ Marks(tm)
  <2>1. tm.left = 0 /\ Live(tm)
    BY <1>0, <1>5 DEF CallbackMark, Marks, TimerRight
  <2>2. \A t \in timers' : TimerRight(t)'
    BY <1>2, <1>5, <2>1 DEF CallbackMark
  <2>3. elapsed[tm.owner] \in Nat
    BY <1>0, HookAssumption DEF Typed, CallsTyped
  <2>4. Due(tm.owner) /\ pc[tm.owner] \notin Unmarked
    BY <1>0, <2>1, <2>3 DEF TimerRight, Due, Live, InCall, Unmarked
  <2>5. \A g \in Fibres : g # tm.owner => cancelled'[g] = cancelled[g]
    BY <1>5 DEF CallbackMark, Typed, CallsTyped
  <2>6. \A g \in Fibres : cancelled'[g] => pc'[g] \notin Unmarked /\ Due(g)'
    BY <1>1, <2>4, <2>5 DEF Clocked, Due, Unmarked
  <2> QED
    BY <2>2, <2>6 DEF Clocked, TimerRight, Unmarked
<1> QED
  BY <1>3, <1>4, <1>5 DEF TimerStep, CallbackMark, CallbackCancel, callVars

LEMMA ClockedTick ==
  ASSUME Typed, Clocked, Tick
  PROVE  Clocked'
<1> USE HookAssumption
<1>1. UNCHANGED <<pc, call, cancelled>>
  BY DEF Tick
<1>2. timers' = {Passed(tm) : tm \in timers}
  BY DEF Tick, Passed
<1>3. ASSUME NEW f \in Fibres
      PROVE  /\ elapsed[f] \in Nat /\ elapsed'[f] \in Nat /\ elapsed'[f] >= elapsed[f]
             /\ Timed(f) => elapsed'[f] = MaxTime \/ elapsed'[f] = elapsed[f] + 1
             /\ call[f].to # Inf => call[f].to \in Nat /\ call[f].to <= MaxTime
  <2>1. elapsed[f] \in 0..MaxTime
    BY DEF Typed, CallsTyped
  <2>2. elapsed'[f] = IF Timed(f) /\ elapsed[f] < MaxTime THEN elapsed[f] + 1 ELSE elapsed[f]
    BY DEF Tick
  <2>3. call[f].to # Inf => call[f].to \in Nat /\ call[f].to <= MaxTime
    BY SpanFacts DEF Typed, CallsTyped, CallRecs
  <2> QED
    BY <2>1, <2>2, <2>3
<1>4. ASSUME NEW tm \in timers
      PROVE  TimerRight(Passed(tm))'
  <2> DEFINE n == Passed(tm)
  <2>0. tm \in TimerRecs /\ tm.owner \in Fibres /\ tm.left \in Nat /\ TimerRight(tm)
    BY DEF Typed, TimersTyped, TimerRecs, Clocked, TimerRight
  <2>1. /\ n.owner = tm.owner /\ n.seq = tm.seq /\ n.stage = tm.stage
        /\ n.left = IF tm.left > 0 THEN tm.left - 1 ELSE tm.left
    BY <2>0 DEF Passed, TimerRecs
  <2> HIDE DEF n
  <2>2. Live(n)' <=> Live(tm)
    BY <1>1, <2>1 DEF Live, InCall
  <2>3. Live(tm) => Timed(tm.owner)
    BY <2>0 DEF Live, Timed, TimerRight
  <2>4. Live(tm) => elapsed'[tm.owner] + n.left >= call[tm.owner].to
    BY <1>3, <2>0, <2>1, <2>3 DEF TimerRight
  <2>5. TimerRight(n)'
    BY <1>1, <2>0, <2>1, <2>2, <2>4 DEF TimerRight
  <2> QED
    BY <2>5 DEF n
<1>5. \A t \in timers' : TimerRight(t)'
  BY <1>2, <1>4
<1>6. \A f \in Fibres : cancelled'[f] => pc'[f] \notin Unmarked /\ Due(f)'
  BY <1>1, <1>3 DEF Clocked, Due, Unmarked
<1> QED
  BY <1>5, <1>6 DEF Clocked, TimerRight, Unmarked

LEMMA ClockedStep == Typed /\ Clocked /\ [Next]_vars => Clocked'
<1> SUFFICES ASSUME Typed, Clocked, [Next]_vars
             PROVE  Clocked'
  OBVIOUS
<1>1. ASSUME NEW f \in Fibres, Get(f) \/ SoError(f)
      PROVE  Clocked'
  <2>1. Return(f) /\ UNCHANGED timers
    BY <1>1 DEF Get, SoError
  <2> QED
    BY <2>1, ReturnAlike, ClockedFrame DEF InCall
<1>2. ASSUME NEW f \in Fibres, Try(f) \/ Unblock(f)
      PROVE  Clocked'
  <2>1. UNCHANGED timers /\ pc[f] \in {"try", "direct", "blocked"}
    BY <1>2 DEF Try, Unblock, At
  <2>2. CASE Succeed(f)
    <3>1. ~InCall(f)'
      BY <2>2, SucceedAlike DEF InCall
    <3>2. cancelled'[f] => /\ cancelled[f] /\ pc'[f] \notin Unmarked
                           /\ call'[f].to = call[f].to /\ elapsed'[f] = elapsed[f]
      BY <2>2, SucceedAlike DEF Unmarked
    <3> QED
      BY <2>1, <2>2, <3>1, <3>2, SucceedAlike, ClockedFrame
  <2>3. CASE Fail(f) /\ ~Unblock(f)
    <3>1. pc[f] \in {"try", "direct"}
      BY <1>2, <2>3 DEF Try, At
    <3>2. InCall(f)' => InCall(f) /\ UNCHANGED callVars
      BY <2>3, <3>1, FailAlike DEF InCall
    <3>3. cancelled'[f] => /\ cancelled[f] /\ pc'[f] \notin Unmarked
                           /\ call'[f].to = call[f].to /\ elapsed'[f] = elapsed[f]
      BY <2>3, FailAlike DEF Unmarked, callVars
    <3> QED
      BY <2>1, <2>3, <3>2, <3>3, FailAlike, ClockedFrame DEF callVars
  <2> QED
    BY <1>2, <2>2, <2>3 DEF Try, Unblock
<1>3. ASSUME NEW f \in Fibres, AddEvent(f)
      PROVE  Clocked'
  <2>1. pc[f] = "add" /\ timers' \subseteq timers
    BY <1>3 DEF AddEvent, At
  <2>2. CASE Return(f)
    BY <2>1, <2>2, ReturnAlike, ClockedFrame DEF InCall
  <2>3. ASSUME NEW l \in {"wait", "soerror"}, Goto(f, l), UNCHANGED callVars
        PROVE  Clocked'
    <3>1. Alike(f) /\ pc'[f] = l
      BY <2>3, GotoAlike
    <3> QED
      BY <2>1, <2>3, <3>1, ClockedFrame DEF InCall, callVars, Unmarked
  <2> QED
    BY <1>3, <2>2, <2>3 DEF AddEvent
<1>4. ASSUME NEW f \in Fibres, Resume(f)
      PROVE  Clocked'
  <2>1. pc[f] = "wait" /\ timers' \subseteq timers
    BY <1>4 DEF Resume, At
  <2>2. InCall(f)' => InCall(f) /\ call'[f].to = call[f].to /\ elapsed'[f] = elapsed[f]
    BY <1>4, <2>1, ResumeAlike DEF InCall
  <2>3. cancelled'[f] => /\ cancelled[f] /\ pc'[f] \notin Unmarked
                         /\ call'[f].to = call[f].to /\ elapsed'[f] = elapsed[f]
    BY <1>4, ResumeAlike DEF Unmarked
  <2> QED
    BY <1>4, <2>1, <2>2, <2>3, ResumeAlike, ClockedFrame
<1>5. ASSUME NEW f \in Fibres, CloseStep(f)
      PROVE  Clocked'
  <2>1. /\ pc[f] \in {"cancelAll", "del", "close"} /\ UNCHANGED timers
        /\ Goto(f, CloseOrder(pc[f])) /\ UNCHANGED callVars
    BY <1>5 DEF CloseStep
  <2>2. Alike(f) /\ pc'[f] = CloseOrder(pc[f])
    BY <2>1, GotoAlike
  <2>3. ~InCall(f)' /\ call'[f].seq = call[f].seq /\ ~cancelled'[f]
    BY <2>1, <2>2 DEF InCall, CloseOrder, Clocked, callVars
  <2> QED
    BY <2>1, <2>2, <2>3, ClockedFrame
<1>6. ASSUME NEW f \in Fibres, Starter(f) \/ Setter(f)
      PROVE  Clocked'
  <2>1. /\ Alike(f) /\ pc[f] = "idle" /\ call'[f].seq = call[f].seq + 1
        /\ UNCHANGED <<cancelled, timers>>
    BY <1>6, StarterAlike, SetterAlike DEF Starter, Socket, Close, Begin
  <2>2. ~cancelled'[f]
    BY <2>1 DEF Clocked
  <2> QED
    BY <2>1, <2>2, ClockedFrame
<1>7. ASSUME NEW d \in Fds, NEW k \in EventKinds, Event(d, k) \/ Arrive(d, k) \/ Withdraw(d, k)
      PROVE  Clocked'
  BY <1>7, ClockedStill DEF Event, Arrive, Withdraw, callVars
<1>8. CASE UNCHANGED vars
  BY <1>8, ClockedStill DEF vars, callVars
<1> QED
  BY <1>1, <1>2, <1>3, <1>4, <1>5, <1>6, <1>7, <1>8, ClockedArm, ClockedTimer, ClockedTick
     DEF Next, FibreStep, Starter, Setter

----------------------------------------------------------------------------
LEMMA HookInitInv == Init => HookInv
<1> SUFFICES ASSUME Init
             PROVE  HookInv
  OBVIOUS
<1>1. Typed
  BY TypedInit
<1> USE HookAssumption DEF Init
<1>2. Waits
  BY DEF Waits, Unseen
<1>3. Owned
  <2>1. NewCtx \in Ctxs
    BY DEF NewCtx, Ctxs
  <2>2. NewCtx # None
    BY <2>1
  <2>3. \A d \in Fds :
          /\ (isOpen[d] <=> d \in Opened) /\ (nonblock[d] <=> d \in Opened)
          /\ table[d] = IF d \in Opened THEN NewCtx ELSE None
    OBVIOUS
  <2> QED
    BY <2>2, <2>3 DEF Owned, Owners
<1>4. Alone
  BY DEF Alone, Running
<1>5. Clocked
  BY DEF Clocked
<1> QED
  BY <1>1, <1>2, <1>3, <1>4, <1>5 DEF HookInv

LEMMA HookInvAlways == Spec => []HookInv
<1>1. HookInv /\ [Next]_vars => HookInv'
  BY TypedStep, WaitsStep, OwnedStep, AloneStep, ClockedStep DEF HookInv
<1> QED
  BY <1>1, HookInitInv, PTL DEF Spec

(* do_io and connect_with_timeout: whatever the order of data, the timer's *)
(* callback, cancelEvent and close(), a fibre that has yielded in its wait *)
(* is registered with the IOManager or queued in the scheduler, once; a    *)
(* fibre that runs is in neither place.                                    *)
THEOREM WokenOnce == Spec => []OneWake
<1>1. ASSUME HookInv PROVE OneWake
  <2> SUFFICES ASSUME NEW f \in Fibres
               PROVE  wakes[f] + Cardinality(Registered(f)) = IF pc[f] = "wait" THEN 1 ELSE 0
    BY DEF OneWake
  <2>1. CASE Unseen(f) /\ wakes[f] = IF pc[f] = "wait" THEN 1 ELSE 0
    <3>1. Registered(f) = {}
      BY <2>1 DEF Registered, Unseen
    <3> QED
      BY <2>1, <3>1, FS_EmptySet
  <2>2. CASE /\ pc[f] = "wait" /\ wakes[f] = 0
             /\ \A d \in Fds, k \in EventKinds : ev[d][k] = f <=> d = Fd(f) /\ k = Kind(f)
    <3>1. Fd(f) \in Fds /\ Kind(f) \in EventKinds
      BY <1>1, <2>2 DEF HookInv, Typed, CallsTyped, Fd, Kind, KindOf, EventKinds
    <3>2. Registered(f) = {<<Fd(f), Kind(f)>>}
      BY <2>2, <3>1 DEF Registered
    <3>3. Cardinality(Registered(f)) = 1
      BY <3>2, FS_Singleton
    <3> QED
      BY <2>2, <3>3
  <2> QED
    BY <1>1, <2>1, <2>2 DEF HookInv, Waits
<1> QED
  BY <1>1, HookInvAlways, PTL

(* FdManager's table follows the kernel: a descriptor in use has an FdCtx  *)
(* and is nonblocking unless ioctl() cleared that, a closed one has none,  *)
(* and with one worker thread nobody stays registered for it.              *)
THEOREM TableIsKept == Spec => []TableFollows
<1>1. ASSUME HookInv PROVE TableFollows
  <2>1. TypeOK
    BY <1>1, TypedIsTypeOK DEF HookInv
  <2>2. Managed
    BY <1>1 DEF HookInv, Owned, Unowned, Owners, Managed, Closing
  <2>3. ClosedIsForgotten
    BY <1>1 DEF HookInv, Owned, Alone, ClosedIsForgotten
  <2> QED
    BY <2>1, <2>2, <2>3 DEF TableFollows
<1> QED
  BY <1>1, HookInvAlways, PTL

(* A wait that ends its call ends it with ETIMEDOUT, after the timeout of  *)
(* the call: a callback that outlived its call (timer_info is gone, or the *)
(* fibre has begun another one) never times out the next.                  *)
THEOREM TimeoutsAreHonest == Spec => TimeoutHonest
<1>1. HookInv /\ [Next]_vars =>
        [\A f \in Fibres : pc[f] = "wait" /\ pc'[f] = "idle"
                             => call[f].to # Inf /\ elapsed[f] >= call[f].to]_vars
  <2> SUFFICES ASSUME HookInv, Next, NEW f \in Fibres, pc[f] = "wait", pc'[f] = "idle"
               PROVE  Due(f)
    BY DEF Due
  <2>1. cancelled[f] => Due(f)
    BY DEF HookInv, Clocked
  <2>2. ASSUME NEW g \in Fibres, Alike(g), pc[g] # "wait"
        PROVE  FALSE
    BY <2>2 DEF Alike
  <2>3. ASSUME NEW g \in Fibres, FibreStep(g) \/ Unblock(g)
        PROVE  Due(f)
    <3>0. Typed
      BY DEF HookInv
    <3>1. CASE Resume(g)
      <4>1. g = f
        BY <3>0, <3>1, ResumeAlike DEF Alike
      <4> QED
        BY <3>0, <3>1, <4>1, <2>1, ResumeAlike
    <3>2. CASE Get(g) \/ Try(g) \/ Arm(g) \/ AddEvent(g) \/ SoError(g) \/ CloseStep(g) \/ Unblock(g)
      <4>1. pc[g] # "wait"
        BY <3>2 DEF Get, Try, Arm, AddEvent, SoError, CloseStep, Unblock, At
      <4>2. \/ Return(g) \/ Succeed(g) \/ Fail(g)
            \/ \E l \in PCs : Goto(g, l)
        BY <3>2 DEF Get, Try, Arm, AddEvent, SoError, CloseStep, Unblock, CloseOrder, PCs
      <4>3. g # f => pc'[f] = pc[f]
        BY <3>0, <4>2, ReturnAlike, SucceedAlike, FailAlike DEF Alike, Goto, Typed, CallsTyped
      <4> QED
        BY <4>1, <4>3
    <3> QED
      BY <2>3, <3>1, <3>2 DEF FibreStep
  <2>4. ASSUME NEW g \in Fibres, Starter(g) \/ Setter(g)
        PROVE  Due(f)
    BY <2>2, <2>4, StarterAlike, SetterAlike DEF HookInv
  <2>5. CASE UNCHANGED pc
    BY <2>5
  <2>6. ASSUME NEW tm \in timers, TimerStep(tm) PROVE UNCHANGED pc
    BY <2>6 DEF TimerStep, Expire, CallbackMark, CallbackCancel
  <2>7. ASSUME NEW d \in Fds, NEW k \in EventKinds, Event(d, k) \/ Arrive(d, k) \/ Withdraw(d, k)
        PROVE  UNCHANGED pc
    BY <2>7 DEF Event, Arrive, Withdraw
  <2>8. Tick => UNCHANGED pc
    BY DEF Tick
  <2> QED
    BY <2>3, <2>4, <2>5, <2>6, <2>7, <2>8 DEF Next, Starter, Setter
<1> QED
  BY <1>1, HookInvAlways, PTL DEF Spec, TimeoutHonest
=============================================================================

------------------------------- MODULE HookIo -------------------------------
(***************************************************************************)
(* The hooked system calls (hook.cc) and the table of FdCtx (fd_manager.cc)*)
(* over the kernel and an IOManager reduced to what they use: a fibre that *)
(* finds nothing to read or write registers an event and perhaps a timer,  *)
(* yields, and is scheduled by the event, by the timer's callback through  *)
(* cancelEvent, or by close() through cancelAll.                           *)
(*                                                                         *)
(* The callback of a timer is a task of its own: it may have left the set  *)
(* of timers, where cancel() finds it no more, and run much later.  It     *)
(* marks the call and cancels the event in two steps.                      *)
(***************************************************************************)
EXTENDS Integers, FiniteSets

CONSTANTS
  Fibres, Fds, None,
  Inf,           \* (uint64_t)-1: no timeout
  Timeouts,      \* values given to setsockopt
  Options,       \* the timeouts that programs set: of "recv", of "send"
  ConnectTimeout,\* s_connect_timeout
  Calls,         \* the system calls that programs make
  PoolSizes,     \* numbers of worker threads
  Opened,        \* sockets made before the behaviour begins
  MaxTime,       \* bound: ticks of one call
  MaxCalls,      \* bound: calls of each fibre
  MaxArrivals    \* bound: how often an fd becomes ready

IoCalls == {"read", "recv", "write", "send", "accept"}

Ctxs == [userNonblock : BOOLEAN, recvTimeout : Nat \cup {Inf}, sendTimeout : Nat \cup {Inf}]

ASSUME HookAssumption ==
  /\ IsFiniteSet(Fibres) /\ IsFiniteSet(Fds) /\ Fds \subseteq Nat
  /\ None \notin Fibres \cup Fds /\ None \notin Ctxs
  /\ Timeouts \cup {ConnectTimeout} \subseteq (Nat \ {0}) \cup {Inf} /\ Inf \notin Nat
  /\ Options \subseteq {"recv", "send"} /\ Calls \subseteq IoCalls \cup {"connect"}
  /\ PoolSizes \subseteq Nat \ {0} /\ Opened \subseteq Fds
  /\ MaxTime \in Nat /\ MaxCalls \in [Fibres -> Nat] /\ MaxArrivals \in Nat
  /\ \A v \in Timeouts \cup {ConnectTimeout} : v # Inf => v <= MaxTime

VARIABLES
  threads,    \* worker threads of the IOManager
  isOpen, nonblock, ready, \* the kernel's side of an fd
  table,      \* FdManager::m_datas: an FdCtx or None
  ev,         \* FdContext of IOManager: the fibre registered for each event
  pc,         \* where each fibre is
  call,       \* its call: operation, fd, timeout, which of its calls, which wait
  cancelled,  \* timer_info::cancelled of its call
  timers,     \* condition timers, and their callbacks on the way
  wakes,      \* how often a fibre is queued in the scheduler
  elapsed,    \* ticks since a call with a timeout began
  cleared,    \* history: fds whose O_NONBLOCK ioctl() has taken away
  arrivals,   \* how often some fd has become ready
  aborted     \* the assertion of addEvent has failed

kernelVars == <<isOpen, nonblock, ready>>
callVars == <<call, cancelled, elapsed>>
vars == <<threads, kernelVars, table, ev, pc, callVars, timers, wakes, cleared, arrivals, aborted>>

EventKinds == {"READ", "WRITE"}
NoCall == [op |-> "none", fd |-> None, to |-> Inf, seq |-> 0, round |-> 0]
NewCtx == [userNonblock |-> FALSE, recvTimeout |-> Inf, sendTimeout |-> Inf]

(* The event a call waits for, and the timeout do_io asks the FdCtx for:   *)
(* write() asks for that of receiving.                                     *)
KindOf(op) == IF op \in {"read", "recv", "accept"} THEN "READ" ELSE "WRITE"
TimeoutOf(op, ctx) ==
  CASE op = "connect" -> ConnectTimeout
    [] op = "send" -> ctx.sendTimeout
    [] OTHER -> ctx.recvTimeout

Init ==
  /\ threads \in PoolSizes
  /\ isOpen = [d \in Fds |-> d \in Opened] /\ nonblock = [d \in Fds |-> d \in Opened]
  /\ ready = [d \in Fds |-> {}]
  /\ table = [d \in Fds |-> IF d \in Opened THEN NewCtx ELSE None]
  /\ ev = [d \in Fds |-> [k \in EventKinds |-> None]]
  /\ pc = [f \in Fibres |-> "idle"]
  /\ call = [f \in Fibres |-> NoCall]
  /\ cancelled = [f \in Fibres |-> FALSE]
  /\ timers = {}
  /\ wakes = [f \in Fibres |-> 0]
  /\ elapsed = [f \in Fibres |-> 0]
  /\ cleared = {} /\ arrivals = 0 /\ aborted = FALSE

At(f, l) == ~aborted /\ pc[f] = l

(* A fibre keeps its thread from the start of a call, or from its resume,  *)
(* until it yields or returns; so does a callback.                         *)
FreeThread ==
  /\ ~aborted
  /\ Cardinality({f \in Fibres : pc[f] \notin {"idle", "wait"}})
       + Cardinality({tm \in timers : tm.stage = "marked"}) < threads
MayCall(f) == pc[f] = "idle" /\ FreeThread /\ call[f].seq < MaxCalls[f]
Started(f, op, d) == [op |-> op, fd |-> d, to |-> Inf, seq |-> call[f].seq + 1, round |-> 0]
Goto(f, l) == pc' = [pc EXCEPT ![f] = l]
Fd(f) == call[f].fd
Kind(f) == KindOf(call[f].op)
InCall(f) == pc[f] \in {"try", "arm", "add", "wait", "soerror"}
Timed(f) == InCall(f) /\ call[f].to # Inf
Closing(d) == \E f \in Fibres : pc[f] \in {"cancelAll", "del", "close"} /\ Fd(f) = d
Return(f) ==
  /\ Goto(f, "idle")
  /\ call' = [call EXCEPT ![f] = [NoCall EXCEPT !.seq = call[f].seq]]
  /\ cancelled' = [cancelled EXCEPT ![f] = FALSE]
  /\ elapsed' = [elapsed EXCEPT ![f] = 0]

(* A call of fibre f that has not returned; its timer_info lives as long. *)
Live(tm) == call[tm.owner].seq = tm.seq /\ InCall(tm.owner)
OwnTimer(f) ==
  {tm \in timers : /\ tm.owner = f /\ tm.seq = call[f].seq
                   /\ tm.round = call[f].round /\ tm.stage = "armed"}

(* Faults: wrong versions of the definitions named. *)

(* CancelHits: connect()'s callback cancels the wrong event. *)
CancelHitsRead(tm) == isOpen[tm.fd] /\ tm.kind = "READ" /\ ev[tm.fd]["READ"] # None
(* CloseOrder: the table entry is removed after the fd has been closed. *)
CloseOrderSwapped(l) == CASE l = "cancelAll" -> "close" [] l = "close" -> "del" [] OTHER -> "idle"
(* Unregister: the event stays registered. *)
UnregisterNot(d, k) == ev
(* Marks: a callback marks whatever call its fibre makes now. *)
MarksAny(tm) == InCall(tm.owner) /\ ~cancelled[tm.owner]

----------------------------------------------------------------------------
(* The IOManager and the kernel, external to hook.cc. *)

Unregister(d, k) == [ev EXCEPT ![d][k] = None]

(* triggerEvent: the registered fibre is scheduled. *)
Trigger(d, k) ==
  /\ wakes' = [wakes EXCEPT ![ev[d][k]] = @ + 1]
  /\ ev' = Unregister(d, k)

(* idle(): an fd that is ready triggers its event. *)
Event(d, k) ==
  /\ FreeThread /\ isOpen[d] /\ k \in ready[d] /\ ev[d][k] # None
  /\ Trigger(d, k)
  /\ UNCHANGED <<kernelVars, table, pc, callVars, timers, cleared, arrivals, aborted, threads>>

Arrive(d, k) ==
  /\ ~aborted /\ isOpen[d] /\ k \notin ready[d] /\ arrivals < MaxArrivals
  /\ ready' = [ready EXCEPT ![d] = @ \cup {k}]
  /\ arrivals' = arrivals + 1
  /\ UNCHANGED <<isOpen, nonblock, table, ev, pc, callVars, timers, wakes, cleared, aborted, threads>>

(* A datagram fails its checksum, or another process takes the data: an    *)
(* event that was reported may find nothing.                               *)
Withdraw(d, k) ==
  /\ ~aborted /\ isOpen[d] /\ k \in ready[d]
  /\ ready' = [ready EXCEPT ![d] = @ \ {k}]
  /\ UNCHANGED <<isOpen, nonblock, table, ev, pc, callVars, timers, wakes, cleared, arrivals,
                 aborted, threads>>

(* Time passes for every call and every timer. *)
Tick ==
  /\ ~aborted
  /\ \/ \E f \in Fibres : Timed(f) /\ elapsed[f] < MaxTime
     \/ \E tm \in timers : tm.left > 0
  /\ elapsed' = [f \in Fibres |->
       IF Timed(f) /\ elapsed[f] < MaxTime THEN elapsed[f] + 1 ELSE elapsed[f]]
  /\ timers' = {IF tm.left > 0 THEN [tm EXCEPT !.left = @ - 1] ELSE tm : tm \in timers}
  /\ UNCHANGED <<kernelVars, table, ev, pc, call, cancelled, wakes, cleared, arrivals,
                 aborted, threads>>

(* listExpiredCb takes a timer that is due; its callback is queued. *)
Expire(tm) ==
  /\ FreeThread /\ tm.stage = "armed" /\ tm.left = 0
  /\ timers' = (timers \ {tm}) \cup {[tm EXCEPT !.stage = "queued"]}
  /\ UNCHANGED <<kernelVars, table, ev, pc, callVars, wakes, cleared, arrivals, aborted, threads>>

----------------------------------------------------------------------------
(* The callback of do_io's and connect_with_timeout's timer. *)

Marks(tm) == Live(tm) /\ ~cancelled[tm.owner]

(* winfo.lock() and the test of cancelled ... *)
CallbackMark(tm) ==
  /\ FreeThread /\ tm.stage = "queued"
  /\ IF Marks(tm)
     THEN /\ cancelled' = [cancelled EXCEPT ![tm.owner] = TRUE]
          /\ timers' = (timers \ {tm}) \cup {[tm EXCEPT !.stage = "marked"]}
     ELSE timers' = timers \ {tm} /\ UNCHANGED cancelled
  /\ UNCHANGED <<kernelVars, table, ev, pc, call, elapsed, wakes, cleared, arrivals,
                 aborted, threads>>

(* ... then cancelEvent, which finds the event or not; epoll_ctl refuses a *)
(* closed fd.                                                              *)
CancelHits(tm) == isOpen[tm.fd] /\ ev[tm.fd][tm.kind] # None
CallbackCancel(tm) ==
  /\ ~aborted /\ tm.stage = "marked"
  /\ timers' = timers \ {tm}
  /\ IF CancelHits(tm)
     THEN Trigger(tm.fd, tm.kind)
     ELSE UNCHANGED <<ev, wakes>>
  /\ UNCHANGED <<kernelVars, table, pc, callVars, cleared, arrivals, aborted, threads>>

----------------------------------------------------------------------------
(* socket(), and the end of accept(): the kernel has given the lowest free *)
(* fd; it is entered in the table.  FdManager::get finds an old FdCtx or   *)
(* makes one, whose init() makes the fd nonblocking.                       *)
NewFd(f, d) ==
  /\ ~isOpen[d] /\ \A e \in Fds : ~isOpen[e] => d <= e
  /\ isOpen' = [isOpen EXCEPT ![d] = TRUE]
  /\ nonblock' = [nonblock EXCEPT ![d] = FALSE]
  /\ Goto(f, "get")

Socket(f, d) ==
  /\ MayCall(f)
  /\ NewFd(f, d)
  /\ call' = [call EXCEPT ![f] = Started(f, "socket", d)]
  /\ UNCHANGED <<ready, table, ev, cancelled, elapsed, timers, wakes, cleared, arrivals,
                 aborted, threads>>

Get(f) ==
  /\ At(f, "get")
  /\ IF table[Fd(f)] = None
     THEN /\ table' = [table EXCEPT ![Fd(f)] = NewCtx]
          /\ nonblock' = [nonblock EXCEPT ![Fd(f)] = TRUE]
     ELSE UNCHANGED <<table, nonblock>>
  /\ Return(f)
  /\ UNCHANGED <<isOpen, ready, ev, timers, wakes, cleared, arrivals, aborted, threads>>

(* The beginning of do_io and of connect_with_timeout.  Nothing keeps two  *)
(* fibres from reading, or writing, one fd at a time: the second may have  *)
(* been handed the number while the first, woken by close(), has not run   *)
(* yet and will try again on it.                                           *)
Usable(d) == isOpen[d] /\ ~Closing(d) /\ \A g \in Fibres : At(g, "get") => Fd(g) # d
Begin(f, op, d) ==
  /\ MayCall(f)
  /\ Usable(d)
  /\ LET ctx == table[d]
         hooked == ctx # None /\ ~ctx.userNonblock
     IN /\ call' = [call EXCEPT ![f] =
              [Started(f, op, d) EXCEPT !.to = IF hooked THEN TimeoutOf(op, ctx) ELSE Inf]]
        /\ IF ctx = None /\ op = "connect"
           THEN UNCHANGED pc
           ELSE Goto(f, IF hooked THEN "try" ELSE "direct")
  /\ UNCHANGED <<cancelled, elapsed, kernelVars, table, ev, timers, wakes, cleared,
                 arrivals, aborted, threads>>

(* The system call itself: done, refused, nothing there, or, on an fd      *)
(* without O_NONBLOCK, the thread sleeps in the kernel.  A signal (EINTR)  *)
(* only repeats it.                                                        *)
Succeed(f) ==
  /\ isOpen[Fd(f)] /\ Kind(f) \in ready[Fd(f)]
  /\ \E rest \in SUBSET {Kind(f)} : ready' = [ready EXCEPT ![Fd(f)] = (@ \ {Kind(f)}) \cup rest]
  /\ IF call[f].op = "accept" /\ \E d \in Fds : ~isOpen[d]
     THEN /\ \E d \in Fds : NewFd(f, d) /\ call' = [call EXCEPT ![f].fd = d]
          /\ UNCHANGED <<cancelled, elapsed>>
     ELSE Return(f) /\ UNCHANGED <<isOpen, nonblock>>
Fail(f) ==
  /\ \/ ~isOpen[Fd(f)] /\ Return(f)
     \/ /\ isOpen[Fd(f)] /\ Kind(f) \notin ready[Fd(f)]
        /\ IF ~nonblock[Fd(f)] THEN Goto(f, "blocked") /\ UNCHANGED callVars
           ELSE IF pc[f] = "direct" THEN Return(f)
           ELSE Goto(f, "arm") /\ UNCHANGED callVars
  /\ UNCHANGED kernelVars
Try(f) ==
  /\ At(f, "try") \/ At(f, "direct")
  /\ Succeed(f) \/ Fail(f)
  /\ UNCHANGED <<table, ev, timers, wakes, cleared, arrivals, aborted, threads>>
Unblock(f) ==
  /\ At(f, "blocked")
  /\ Succeed(f)
  /\ UNCHANGED <<table, ev, timers, wakes, cleared, arrivals, aborted, threads>>

(* EAGAIN or EINPROGRESS: addConditionTimer, if there is a timeout ... *)
Arm(f) ==
  /\ At(f, "arm")
  /\ timers' = IF call[f].to = Inf THEN timers
               ELSE timers \cup {[owner |-> f, seq |-> call[f].seq, round |-> call[f].round,
                                  fd |-> Fd(f), kind |-> Kind(f), left |-> call[f].to,
                                  stage |-> "armed"]}
  /\ Goto(f, "add")
  /\ UNCHANGED <<kernelVars, table, ev, callVars, wakes, cleared, arrivals, aborted, threads>>

(* ... then addEvent, which asserts that nobody is registered, and fails   *)
(* on a closed fd; connect() goes on to ask for SO_ERROR all the same.     *)
AddEvent(f) ==
  /\ At(f, "add")
  /\ LET free == ev[Fd(f)][Kind(f)] = None
     IN /\ aborted' = ~free
        /\ IF free /\ isOpen[Fd(f)]
           THEN /\ ev' = [ev EXCEPT ![Fd(f)][Kind(f)] = f]
                /\ Goto(f, "wait")
                /\ UNCHANGED <<timers, callVars>>
           ELSE /\ timers' = timers \ OwnTimer(f)
                /\ UNCHANGED ev
                /\ IF call[f].op = "connect" THEN Goto(f, "soerror") /\ UNCHANGED callVars
                   ELSE Return(f)
  /\ UNCHANGED <<kernelVars, table, wakes, cleared, arrivals, threads>>

(* After YieldToHold: timer->cancel() finds a timer still armed only. *)
Resume(f) ==
  /\ At(f, "wait") /\ FreeThread /\ wakes[f] > 0
  /\ wakes' = [wakes EXCEPT ![f] = @ - 1]
  /\ timers' = timers \ OwnTimer(f)
  /\ IF cancelled[f] THEN Return(f)
     ELSE IF call[f].op = "connect" THEN Goto(f, "soerror") /\ UNCHANGED callVars
     ELSE /\ Goto(f, "try")
          /\ call' = [call EXCEPT ![f].round = @ + 1]
          /\ UNCHANGED <<cancelled, elapsed>>
  /\ UNCHANGED <<kernelVars, table, ev, cleared, arrivals, aborted, threads>>

(* getsockopt(SO_ERROR) decides what connect() returns. *)
SoError(f) ==
  /\ At(f, "soerror")
  /\ Return(f)
  /\ UNCHANGED <<kernelVars, table, ev, timers, wakes, cleared, arrivals, aborted, threads>>

(* close(): cancelAll, FdManager::del, close, in this order; without an    *)
(* FdCtx only close.                                                       *)
CloseOrder(l) == CASE l = "cancelAll" -> "del" [] l = "del" -> "close" [] OTHER -> "idle"
Close(f, d) ==
  /\ MayCall(f)
  /\ Usable(d)
  /\ call' = [call EXCEPT ![f] = Started(f, "close", d)]
  /\ Goto(f, IF table[d] = None THEN "close" ELSE "cancelAll")
  /\ UNCHANGED <<kernelVars, table, ev, cancelled, elapsed, timers, wakes, cleared,
                 arrivals, aborted, threads>>
CloseStep(f) ==
  /\ ~aborted
  /\ LET d == Fd(f)
         hit == {k \in EventKinds : ev[d][k] # None}
     IN \/ /\ pc[f] = "cancelAll"
           /\ wakes' = [g \in Fibres |-> wakes[g] + Cardinality({k \in hit : ev[d][k] = g})]
           /\ ev' = [ev EXCEPT ![d] = [k \in EventKinds |-> IF k \in hit THEN None ELSE @[k]]]
           /\ UNCHANGED <<kernelVars, table, cleared>>
        \/ /\ pc[f] = "del"
           /\ table' = [table EXCEPT ![d] = None]
           /\ UNCHANGED <<kernelVars, ev, wakes, cleared>>
        \/ /\ pc[f] = "close"
           /\ isOpen' = [isOpen EXCEPT ![d] = FALSE]
           /\ ready' = [ready EXCEPT ![d] = {}]
           /\ cleared' = cleared \ {d}
           /\ UNCHANGED <<nonblock, table, ev, wakes>>
  /\ Goto(f, CloseOrder(pc[f]))
  /\ UNCHANGED <<callVars, timers, arrivals, aborted, threads>>

(* A call that only stores something in the FdCtx. *)
Setting(f, d) ==
  /\ MayCall(f) /\ Usable(d) /\ table[d] # None
  /\ call' = [call EXCEPT ![f].seq = @ + 1]
  /\ UNCHANGED <<pc, cancelled, elapsed>>

(* setsockopt(SO_RCVTIMEO, SO_SNDTIMEO) stores the timeout in the FdCtx. *)
SetSockOpt(f, d, field, v) ==
  /\ Setting(f, d)
  /\ table' = [table EXCEPT ![d] = IF field = "recv" THEN [@ EXCEPT !.recvTimeout = v]
                                   ELSE [@ EXCEPT !.sendTimeout = v]]
  /\ UNCHANGED <<kernelVars, ev, timers, wakes, cleared, arrivals, aborted, threads>>

(* fcntl(F_SETFL): the user's wish is stored, the kernel's flag stays set. *)
KernelFlag(v) == TRUE
Fcntl(f, d, v) ==
  /\ Setting(f, d)
  /\ table' = [table EXCEPT ![d].userNonblock = v]
  /\ nonblock' = [nonblock EXCEPT ![d] = KernelFlag(v)]
  /\ cleared' = cleared \ {d}
  /\ UNCHANGED <<isOpen, ready, ev, timers, wakes, arrivals, aborted, threads>>

(* ioctl(FIONBIO): the user's wish is stored and passed to the kernel. *)
Ioctl(f, d, v) ==
  /\ Setting(f, d)
  /\ table' = [table EXCEPT ![d].userNonblock = v]
  /\ nonblock' = [nonblock EXCEPT ![d] = v]
  /\ cleared' = IF v THEN cleared \ {d} ELSE cleared \cup {d}
  /\ UNCHANGED <<isOpen, ready, ev, timers, wakes, arrivals, aborted, threads>>

----------------------------------------------------------------------------
FibreStep(f) ==
  Get(f) \/ Try(f) \/ Arm(f) \/ AddEvent(f) \/ Resume(f) \/ SoError(f) \/ CloseStep(f)
TimerStep(tm) == Expire(tm) \/ CallbackMark(tm) \/ CallbackCancel(tm)

Next ==
  \/ \E f \in Fibres : FibreStep(f) \/ Unblock(f)
  \/ \E f \in Fibres, d \in Fds : Socket(f, d) \/ Close(f, d)
  \/ \E f \in Fibres, d \in Fds, op \in Calls : Begin(f, op, d)
  \/ \E tm \in timers : TimerStep(tm)
  \/ \E d \in Fds, k \in EventKinds : Event(d, k) \/ Arrive(d, k) \/ Withdraw(d, k)
  \/ \E f \in Fibres, d \in Fds, v \in Timeouts, field \in Options : SetSockOpt(f, d, field, v)
  \/ \E f \in Fibres, d \in Fds, v \in BOOLEAN : Fcntl(f, d, v) \/ Ioctl(f, d, v)
  \/ Tick

Fairness ==
  /\ \A f \in Fibres : WF_vars(FibreStep(f))
  /\ \A d \in Fds, k \in EventKinds : WF_vars(Event(d, k))
  /\ WF_vars(\E tm \in timers : TimerStep(tm))
  /\ WF_vars(Tick)

Spec == Init /\ [][Next]_vars
FairSpec == Spec /\ Fairness

----------------------------------------------------------------------------
(* Properties. *)

TypeOK ==
  /\ isOpen \in [Fds -> BOOLEAN] /\ nonblock \in [Fds -> BOOLEAN]
  /\ ready \in [Fds -> SUBSET EventKinds]
  /\ \A d \in Fds : table[d] = None \/ table[d] \in Ctxs
  /\ ev \in [Fds -> [EventKinds -> Fibres \cup {None}]]
  /\ pc \in [Fibres -> {"idle", "get", "try", "direct", "blocked", "arm", "add", "wait",
                        "soerror", "cancelAll", "del", "close"}]
  /\ cancelled \in [Fibres -> BOOLEAN]
  /\ wakes \in [Fibres -> Nat] /\ elapsed \in [Fibres -> 0..MaxTime]
  /\ cleared \subseteq Fds /\ arrivals \in 0..MaxArrivals /\ aborted \in BOOLEAN

(* A fibre that waits is registered with its event or queued to run, once  *)
(* in all: data, timeout and close() never resume one wait twice, and none *)
(* of them forgets it.                                                     *)
Registered(f) == {p \in Fds \X EventKinds : ev[p[1]][p[2]] = f}
OneWake ==
  \A f \in Fibres :
    wakes[f] + Cardinality(Registered(f)) = IF pc[f] = "wait" THEN 1 ELSE 0

(* A call that returns from its wait returns ETIMEDOUT, and does so only   *)
(* after the timeout has passed since it began: the callback of an earlier *)
(* wait may end a later one of the same call, that of an earlier call      *)
(* never (timer_info in do_io and connect_with_timeout).                   *)
TimeoutHonest ==
  [][\A f \in Fibres : pc[f] = "wait" /\ pc'[f] = "idle"
                         => call[f].to # Inf /\ elapsed[f] >= call[f].to]_vars

(* An fd that socket() or accept() has returned and nobody closes has an   *)
(* FdCtx, and the kernel has it nonblocking unless ioctl() changed that:   *)
(* a fibre's thread never sleeps in the kernel.                            *)
Managed ==
  \A d \in Fds :
    isOpen[d] /\ ~Closing(d) /\ ~(\E f \in Fibres : pc[f] = "get" /\ Fd(f) = d)
      => table[d] # None /\ (nonblock[d] \/ d \in cleared)

(* A closed fd has no FdCtx, and with one worker thread nobody is left     *)
(* registered for it.  With more, a fibre woken by cancelAll may be back   *)
(* in addEvent before close_f, and waits on a closed fd.                   *)
ClosedIsForgotten ==
  \A d \in Fds : ~isOpen[d] =>
    /\ table[d] = None
    /\ threads = 1 => \A k \in EventKinds : ev[d][k] = None

(* The table of FdCtx follows the kernel: an entry for every descriptor in *)
(* use, with the flags hook.cc relies on, and none for a closed one.       *)
TableFollows == TypeOK /\ Managed /\ ClosedIsForgotten

(* With one worker thread every wait of a call with a timeout ends, by     *)
(* data, close() or the timer, also when its number has been handed out    *)
(* again and the callback meets another fibre there; unless ioctl() and a  *)
(* blocking call put the thread to sleep, or addEvent's assertion ends the *)
(* program.  The call itself has no such bound: each wait that ends with   *)
(* nothing to read is followed by one with the whole timeout.              *)
Asleep == \E f \in Fibres : pc[f] = "blocked"
TimedWaitEnds ==
  \A f \in Fibres :
    (threads = 1 /\ Timed(f) /\ pc[f] = "wait") ~> (pc[f] # "wait" \/ Asleep \/ aborted)

(* The same for every number of threads, as the comment in                 *)
(* connect_with_timeout (hook.cc:275) says of it and do_io repeats.        *)
TimeoutAlwaysEnds ==
  \A f \in Fibres : Timed(f) ~> (~Timed(f) \/ Asleep \/ aborted)
============================================================================

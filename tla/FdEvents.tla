------------------------------ MODULE FdEvents ------------------------------
(***************************************************************************)
(* The fd events of IOManager (iomanager.cc): addEvent, delEvent,          *)
(* cancelEvent and cancelAll called by any thread, and the loop of idle()  *)
(* that turns what epoll_wait reports into scheduled callbacks.            *)
(*                                                                         *)
(* The mutex of a file descriptor context is held across several steps     *)
(* where the pending count and the scheduler's list, which it does not     *)
(* protect, change one after the other.  The kernel is external: it may    *)
(* report any of the events it was asked to watch, at any time.            *)
(***************************************************************************)
EXTENDS Integers, FiniteSets

CONSTANTS
  Threads,     \* threads that call the manager or sit in its idle()
  Fds,         \* file descriptors, whose contexts exist
  Kinds,       \* the events used: a subset of {"READ", "WRITE"}
  Regs,        \* registrations: the callback or fibre of one addEvent
  None,        \* no thread, no file descriptor, no registration
  CtlMayFail   \* epoll_ctl may return an error

ASSUME FdEventsAssumption ==
  /\ IsFiniteSet(Fds)
  /\ IsFiniteSet(Threads)
  /\ Kinds \subseteq {"READ", "WRITE"}
  /\ None \notin Threads \cup Fds \cup Regs
  /\ CtlMayFail \in BOOLEAN

VARIABLES
  events,               \* FdContext::events
  context,              \* FdContext::read and write: the registration to schedule
  mutex,                \* FdContext::mutex: the thread that holds it
  epoll,                \* what the kernel watches for each fd
  m_pendingEventCount,
  pc,                   \* where each thread is
  report,               \* what epoll_wait gave the thread and it has not handled
  work,                 \* the fd and the events the thread is triggering
  queue,                \* registrations handed to the scheduler and not yet run
  done,                 \* history: registrations run
  deleted,              \* history: registrations removed by delEvent
  aborted               \* an HPGS_ASSERT has failed

fdVars == <<events, context, epoll>>
outVars == <<queue, done, deleted>>
vars == <<fdVars, mutex, m_pendingEventCount, pc, report, work, outVars, aborted>>

Idle == [fd |-> None, todo |-> {}]
Reports == [fd : Fds, mask : SUBSET Kinds, err : BOOLEAN]

Init ==
  /\ events = [f \in Fds |-> {}]
  /\ context = [f \in Fds |-> [e \in Kinds |-> None]]
  /\ mutex = [f \in Fds |-> None]
  /\ epoll = [f \in Fds |-> {}]
  /\ m_pendingEventCount = 0
  /\ pc = [t \in Threads |-> "free"]
  /\ report = [t \in Threads |-> {}]
  /\ work = [t \in Threads |-> Idle]
  /\ queue = {}
  /\ done = {}
  /\ deleted = {}
  /\ aborted = FALSE

At(t, l) == ~aborted /\ pc[t] = l
Registered == {context[f][e] : f \in Fds, e \in Kinds} \ {None}
Used == Registered \cup queue \cup done \cup deleted

(* Faults: wrong versions of the definitions named, which the              *)
(* specification does not use.                                             *)

(* DelEvent: the context is not reset. *)
DelEventKeepsContext(t, f, e) ==
  /\ At(t, "free")
  /\ mutex[f] = None
  /\ e \in events[f]
  /\ epoll' = [epoll EXCEPT ![f] = @ \ {e}]
  /\ m_pendingEventCount' = m_pendingEventCount - 1
  /\ events' = [events EXCEPT ![f] = @ \ {e}]
  /\ deleted' = deleted \cup {context[f][e]}
  /\ UNCHANGED <<context, mutex, pc, report, work, queue, done, aborted>>

(* CancelEvent: the count is taken back before the callback is queued. *)
CancelEventCountsFirst(t, f, e) ==
  /\ At(t, "free")
  /\ mutex[f] = None
  /\ e \in events[f]
  /\ epoll' = [epoll EXCEPT ![f] = @ \ {e}]
  /\ m_pendingEventCount' = m_pendingEventCount - 1
  /\ mutex' = [mutex EXCEPT ![f] = t]
  /\ work' = [work EXCEPT ![t] = [fd |-> f, todo |-> {e}]]
  /\ pc' = [pc EXCEPT ![t] = "trigger"]
  /\ UNCHANGED <<events, context, report, outVars, aborted>>

----------------------------------------------------------------------------
(* epoll_ctl: external. *)
EpollCtl(f, mask) == epoll' = [epoll EXCEPT ![f] = mask]
EpollCtlFails == CtlMayFail

----------------------------------------------------------------------------
(* Calls. *)

AddEvent(t, f, e, r) ==
  /\ At(t, "free")
  /\ mutex[f] = None
  /\ e \notin events[f]
  /\ r \notin Used
  /\ EpollCtl(f, events[f] \cup {e})
  /\ m_pendingEventCount' = m_pendingEventCount + 1
  /\ events' = [events EXCEPT ![f] = @ \cup {e}]
  /\ aborted' = (context[f][e] # None)
  /\ context' = [context EXCEPT ![f][e] = r]
  /\ UNCHANGED <<mutex, pc, report, work, outVars>>

(* addEvent of an event that is already registered: the assertion fails    *)
(* before anything is changed.                                             *)
AddTwice(t, f, e) ==
  /\ At(t, "free")
  /\ mutex[f] = None
  /\ e \in events[f]
  /\ aborted' = TRUE
  /\ UNCHANGED <<fdVars, mutex, m_pendingEventCount, pc, report, work, outVars>>

DelEvent(t, f, e) ==
  /\ At(t, "free")
  /\ mutex[f] = None
  /\ e \in events[f]
  /\ EpollCtl(f, events[f] \ {e})
  /\ m_pendingEventCount' = m_pendingEventCount - 1
  /\ events' = [events EXCEPT ![f] = @ \ {e}]
  /\ deleted' = deleted \cup {context[f][e]}
  /\ context' = [context EXCEPT ![f][e] = None]
  /\ UNCHANGED <<mutex, pc, report, work, queue, done, aborted>>

(* The context is locked and todo is triggered, step by step. *)
BeginTrigger(t, f, todo) ==
  /\ mutex' = [mutex EXCEPT ![f] = t]
  /\ work' = [work EXCEPT ![t] = [fd |-> f, todo |-> todo]]
  /\ pc' = [pc EXCEPT ![t] = "trigger"]

CancelEvent(t, f, e) ==
  /\ At(t, "free")
  /\ mutex[f] = None
  /\ e \in events[f]
  /\ EpollCtl(f, events[f] \ {e})
  /\ BeginTrigger(t, f, {e})
  /\ UNCHANGED <<events, context, m_pendingEventCount, report, outVars, aborted>>

CancelAll(t, f) ==
  /\ At(t, "free")
  /\ mutex[f] = None
  /\ events[f] # {}
  /\ EpollCtl(f, {})
  /\ BeginTrigger(t, f, events[f])
  /\ UNCHANGED <<events, context, m_pendingEventCount, report, outVars, aborted>>

(* FdContext::triggerEvent: asserts the bit, clears it and schedules the   *)
(* callback or fibre; READ comes before WRITE.                             *)
TriggerEvent(t, e) ==
  LET f == work[t].fd IN
  /\ At(t, "trigger")
  /\ e \in work[t].todo
  /\ e = "WRITE" => "READ" \notin work[t].todo
  /\ aborted' = (e \notin events[f])
  /\ events' = [events EXCEPT ![f] = @ \ {e}]
  /\ queue' = queue \cup ({context[f][e]} \ {None})
  /\ context' = [context EXCEPT ![f][e] = None]
  /\ work' = [work EXCEPT ![t].todo = @ \ {e}]
  /\ pc' = [pc EXCEPT ![t] = "count"]
  /\ UNCHANGED <<mutex, epoll, m_pendingEventCount, report, done, deleted>>

(* --m_pendingEventCount; after the last event the context is unlocked and *)
(* the thread goes on with what epoll_wait gave it.                        *)
CountDown(t) ==
  /\ At(t, "count")
  /\ m_pendingEventCount' = m_pendingEventCount - 1
  /\ IF work[t].todo # {}
     THEN /\ pc' = [pc EXCEPT ![t] = "trigger"]
          /\ UNCHANGED <<mutex, work>>
     ELSE /\ pc' = [pc EXCEPT ![t] = IF report[t] = {} THEN "free" ELSE "loop"]
          /\ mutex' = [mutex EXCEPT ![work[t].fd] = None]
          /\ work' = [work EXCEPT ![t] = Idle]
  /\ UNCHANGED <<fdVars, report, outVars, aborted>>

----------------------------------------------------------------------------
(* idle(). *)

(* epoll_wait: external.  One entry for each fd, with watched events that  *)
(* happened, or an error or hang-up, which is always watched.              *)
EpollWait(t) ==
  /\ At(t, "free")
  /\ \E ready \in SUBSET {f \in Fds : epoll[f] # {}} :
     \E mask \in [ready -> SUBSET Kinds], err \in [ready -> BOOLEAN] :
       /\ ready # {}
       /\ \A f \in ready : mask[f] \subseteq epoll[f] /\ (mask[f] # {} \/ err[f])
       /\ report' = [report EXCEPT ![t] =
                        {[fd |-> f, mask |-> mask[f], err |-> err[f]] : f \in ready}]
  /\ pc' = [pc EXCEPT ![t] = "loop"]
  /\ UNCHANGED <<fdVars, mutex, m_pendingEventCount, work, outVars, aborted>>

(* real_events: an error or hang-up stands for every registered event. *)
RealEvents(a) == a.mask \cup (IF a.err THEN events[a.fd] ELSE {})

NextReport(t, a) ==
  /\ report' = [report EXCEPT ![t] = @ \ {a}]
  /\ pc' = [pc EXCEPT ![t] = IF report[t] = {a} THEN "free" ELSE "loop"]

(* None of the events is registered any more. *)
SkipReport(t, a) ==
  /\ At(t, "loop")
  /\ mutex[a.fd] = None
  /\ events[a.fd] \cap RealEvents(a) = {}
  /\ NextReport(t, a)
  /\ UNCHANGED <<fdVars, mutex, m_pendingEventCount, work, outVars, aborted>>

(* What remains is watched again and the events reported are triggered. *)
HandleReport(t, a) ==
  /\ At(t, "loop")
  /\ mutex[a.fd] = None
  /\ events[a.fd] \cap RealEvents(a) # {}
  /\ EpollCtl(a.fd, events[a.fd] \ RealEvents(a))
  /\ BeginTrigger(t, a.fd, RealEvents(a))
  /\ report' = [report EXCEPT ![t] = @ \ {a}]
  /\ UNCHANGED <<events, context, m_pendingEventCount, outVars, aborted>>

(* epoll_ctl fails: the report is passed over. *)
FailReport(t, a) ==
  /\ At(t, "loop")
  /\ mutex[a.fd] = None
  /\ events[a.fd] \cap RealEvents(a) # {}
  /\ EpollCtlFails
  /\ NextReport(t, a)
  /\ UNCHANGED <<fdVars, mutex, m_pendingEventCount, work, outVars, aborted>>

----------------------------------------------------------------------------
(* The scheduler runs what was queued: external to this module. *)
RunCallback(r) ==
  /\ ~aborted
  /\ r \in queue
  /\ queue' = queue \ {r}
  /\ done' = done \cup {r}
  /\ UNCHANGED <<fdVars, mutex, m_pendingEventCount, pc, report, work, deleted, aborted>>

Next ==
  \/ \E t \in Threads, f \in Fds, e \in Kinds :
       \/ \E r \in Regs : AddEvent(t, f, e, r)
       \/ AddTwice(t, f, e)
       \/ DelEvent(t, f, e)
       \/ CancelEvent(t, f, e)
  \/ \E t \in Threads, f \in Fds : CancelAll(t, f)
  \/ \E t \in Threads, e \in Kinds : TriggerEvent(t, e)
  \/ \E t \in Threads : CountDown(t) \/ EpollWait(t)
  \/ \E t \in Threads : \E a \in report[t] :
       SkipReport(t, a) \/ HandleReport(t, a) \/ FailReport(t, a)
  \/ \E r \in Regs : RunCallback(r)

(* Every registration of the instance is used up, or the process is gone. *)
Exhausted ==
  /\ aborted \/ Regs \subseteq done \cup deleted
  /\ UNCHANGED vars

Spec == Init /\ [][Next \/ Exhausted]_vars

----------------------------------------------------------------------------
(* Properties. *)

TypeOK ==
  /\ events \in [Fds -> SUBSET Kinds]
  /\ context \in [Fds -> [Kinds -> Regs \cup {None}]]
  /\ mutex \in [Fds -> Threads \cup {None}]
  /\ epoll \in [Fds -> SUBSET Kinds]
  /\ m_pendingEventCount \in Nat
  /\ pc \in [Threads -> {"free", "loop", "trigger", "count"}]
  /\ report \in [Threads -> SUBSET Reports]
  /\ work \in [Threads -> [fd : Fds \cup {None}, todo : SUBSET Kinds]]
  /\ queue \subseteq Regs
  /\ done \subseteq Regs
  /\ deleted \subseteq Regs
  /\ aborted \in BOOLEAN

Pending == {p \in Fds \X Kinds : p[2] \in events[p[1]]}
Counting == {t \in Threads : pc[t] = "count"}

(* The pending count is the number of registered events plus the callbacks *)
(* already queued whose count is about to be taken back: it never drops to *)
(* zero, where stopping() may end the manager, while a callback is in      *)
(* neither place, and it never wraps.                                      *)
PendingExact ==
  ~aborted => m_pendingEventCount = Cardinality(Pending) + Cardinality(Counting)

(* A registration is in one place: waiting in a context whose bit is set,  *)
(* in the scheduler's list, run, or deleted; none is lost or run twice.    *)
OneOutcome ==
  ~aborted =>
    /\ \A f \in Fds, e \in Kinds : e \in events[f] <=> context[f][e] # None
    /\ \A f, g \in Fds, e, d \in Kinds :
         context[f][e] # None /\ context[f][e] = context[g][d] => f = g /\ e = d
    /\ Registered \cap (queue \cup done \cup deleted) = {}
    /\ queue \cap done = {} /\ (queue \cup done) \cap deleted = {}

(* While nobody holds the context, the kernel watches what is registered:  *)
(* no registered event goes unwatched.                                     *)
WatchedIsRegistered == \A f \in Fds : mutex[f] = None => epoll[f] = events[f]

(* The three books of registrations agree: the kernel's interest set, the  *)
(* contexts, and the pending count that stopping() relies on.              *)
BooksAgree == TypeOK /\ PendingExact /\ WatchedIsRegistered

(* idle() triggers only events that are still registered: the assertion of *)
(* triggerEvent holds.  It does not, when an event reported was deleted or *)
(* cancelled before its context could be locked.                           *)
TriggersRegistered ==
  \A t \in Threads : pc[t] = "trigger" => work[t].todo \subseteq events[work[t].fd]
=============================================================================

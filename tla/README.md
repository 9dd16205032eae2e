# HPGS: a TLA+ verification project

HPGS is a C++ framework of fibres over threads: a scheduler runs fibres and
callbacks on a pool of threads, an I/O manager puts idle threads to sleep in
`epoll_wait` and turns timers and fd events into scheduled callbacks, hooked
system calls suspend a fibre instead of its thread, and sockets, a TCP server,
byte arrays, logging and configuration are built on top. The modules here
model the concurrent core, the network layer above it and the state and
algorithms of the library; TLC checks them on small instances and TLAPS proves
the main properties of the ten stateful ones for every instance.

Paths are relative to the repository; module names are files of this
directory. `PROJECT.json` maps every definition to the lines it models.

## 1. Inventory

| Component | State | Operations | Hard behaviour | What makes it correct |
|---|---|---|---|---|
| Fibre (`fibre.cc`) | `m_state`, a stack and a context | `swapIn`, `swapOut`, `call`, `back`, `YieldToReady`, `YieldToHold`, `reset` | the state is stored before the context is saved | a fibre is resumed by one thread at a time |
| Scheduler (`scheduler.cc`) | `m_fibres`, `m_activeThreadCount`, `m_idleThreadCount`, `m_stopping`, `m_autoStop` | `start`, `stop`, `schedule`, `run`, `stopping`, `idle`, `switchTo` | several threads scan one list; counters outside the lock; shutdown | no task lost or run twice; counters exact; `stop` drains and returns |
| Timer, TimerManager (`timer.cc`) | ordered set `m_timers`, `m_tickled`, `m_previousTime`; per timer `m_cb`, `m_ms`, `m_next` | `addTimer`, `cancel`, `refresh`, `reset`, `getNextTimer`, `listExpiredCb` | clock read before the lock; clock set back; wake-ups suppressed by `m_tickled` | fires once or is cancelled; never early; sleepers are told of a nearer deadline |
| IOManager, fd events (`iomanager.cc`) | the table of `FdContext`s, `m_pendingEventCount`, the kernel's interest set | `addEvent`, `delEvent`, `cancelEvent`, `cancelAll`, `contextResize`, the event loop of `idle` | a report is handled after others changed the registration; the table is resized after its lock was dropped | a registration is served once or deleted; the pending count is exact; a context is found again |
| IOManager, idle loop (`iomanager.cc`) | tickle pipe, `epoll_wait` timeouts | `idle`, `tickle`, `stopping`, `onTimerInsertAtFront` | lost wake-ups, three-step test for stopping, cast of the timeout | nobody oversleeps; work is taken; `stop` returns |
| Hooked system calls (`hook.cc`) | per call: a timer and a shared `timer_info` | `do_io`, `connect_with_timeout`, `accept`, `socket`, `close`, `fcntl`, `ioctl`, `setsockopt`, sleeps | a timeout racing the event, a late callback, `close` in three steps | one wake per wait; a timeout is honest and does end the call |
| FdManager (`fd_manager.cc`) | table of `FdCtx`: flags and timeouts | `get`, `del` | numbers are used again after `close` | an entry for every descriptor in use, none for a closed one |
| Socket, SSLSocket (`socket.cc`) | fd, connected flag, cached addresses, `m_ssl` | create, `bind`, `listen`, `connect`, `reconnect`, `accept`, `close`, destruction | failures half way; a unix path taken over; objects used again | no descriptor leaked or shared; what the object believes is what the kernel knows |
| TcpServer (`tcp_server.cc`) | `m_socks`, `m_isStop`, accept loops | `bind`, `start`, `stop`, `startAccept`, `handleClient` | `bind` failing half way, `stop` as a queued task | every socket listens and has one loop; `stop` reaches them all |
| ByteArray (`bytearray.cc`) | node list, `m_cur`, position, size, capacity, byte order | fixed, variable and string writes and reads, `setPosition`, `clear`, files, iovecs | node boundaries, the position at the capacity, integers at their limits | it behaves like one flat array; what is written is read back |
| Config (`config.h`, `config.cc`) | variables, their type and value, listeners, a read-write lock each | `Lookup`, `setValue`, `fromString`, listeners, `LoadFromYaml` | listeners run under one lock and the value is stored under the next; listeners throw | listeners and value agree; a load applies its last good text; every call returns |
| Log (`log.cc`) | loggers, appenders, formatters, streams | `log`, `addAppender`, `setFormatter`, `reopen`, patterns | appenders shared and configured in any order; files reopened every 3 s; disk failures | a formatter for every line; the line being written survives |
| Address (`address.cc`) | – (values) | `Lookup`, printing, masks, order, unix paths | limits of prefixes and paths | text and address stand for each other |
| Utilities (`util.cc`, `myendian.h`) | – (the file system) | `Rm`, `Mkdir`, `Mv`, `ListAllFile`, URL coding, byte order | a step failing half way | the result says what happened |
| Thread and locks, Stream, Env, MySQL client | – | wrappers | – | not modelled, see section 6 |

Interactions. `IOManager` is a `Scheduler` and a `TimerManager`: `run()` calls
the overridden `idle()`, which asks `getNextTimer`, sleeps in `epoll_wait`,
collects `listExpiredCb` and fd events and hands them to `schedule()`;
`addTimer` reaches `tickle()` through `onTimerInsertAtFront`; `stop()` tickles
every thread and joins. Hooked calls register timers and events with the
`IOManager`, yield, and are scheduled again by the event, by the timer's
callback through `cancelEvent`, or by `close()` through `cancelAll`. `Socket`
calls the hooked functions; `TcpServer` owns sockets and runs its loops as tasks
of an `IOManager`. Everything logs, and reads configuration variables.

The hazards, each at its line, are in `PROJECT.json`.

## 2. Plan

Done, in this order:

1. `Scheduler`, and `TaskPool`, the abstract specification it implements, with
   `SchedulerProofs`; `Timer` with `TimerProofs`
2. `FdEvents` and `ContextTable` with `FdEventsProofs`
3. `IdleLoop` with `IdleLoopProofs`, which composes scheduler, timers and events
   by their effects
4. `HookIo` with `HookIoProofs`: the hooked calls, `FdManager` and an `IOManager`
   reduced to what they use
5. `Socket`, and `TcpServer` with a program around it, which composes them, with
   `TcpServerProofs`
6. `ByteCodec`, `ByteArray`, and `ByteStore`, the abstract specification that
   `ByteArray` implements, as `ByteArrayProofs` shows
7. `Config`, and `LogFormat` and `Log`, with `LibraryProofs`
8. `Text`, `FileTree`, `Address`: pure algorithms on every input of a bounded set

Left: `ViewsAgree` of `ByteArray` without its recursive parts; a task pool in which
bodies wait and switch threads, which the code implements only once `YieldToHold`
saves the context before it stores HOLD (section 4).

## 3. Modules and their correspondence to the code

Each module has a few operators marked as faults: wrong versions of single
definitions, used to confirm that every property can fail. No specification
uses them.

### Scheduler

State: the members of `Scheduler` under their own names; `m_state` of every
task's fibre; `pc` and `ft`, the place of each worker in `run()` and the task it
holds; `idleTerm`, whether its idle fibre has ended; `mainpc`, the caller
between `start()` and the end of `stop()`; `wakers`, the fibres some timer or
event will schedule. A callback and the fibre `run()` takes for it are one
value. History variables: `submitted`, `binding`, `finished`, `yields`.

A region under `m_mutex` is one action (`ScanTake`, `ScanNothing`, `Stopping`).
What follows is cut where other threads can tell: `SwapIn` stores EXEC;
`YieldToReady`/`YieldToHold` store the state, `SwapOut` saves the context,
`Return` decrements the active count, then `Requeue`, `Forget` or
`FoundWaiting` and `MarkHold` act on the state as read. Bodies end, throw, spawn
tasks, yield READY, hand themselves to a waker (`sleep` and the hooked calls)
or `switchTo` another thread; `BodyOps` selects which. `aborted` stands for a
failed `HPGS_ASSERT`, `Corrupt` for two threads on one stack; the behaviour
stops at either. `NothingLost` combines the type, `NoTaskDropped`,
`StoppingMeansDone` and `StopDrains`. `SafeAlone` is what remains of it with any
bodies: as long as one thread at most has entered `run()`, nothing is dropped and
the behaviour does not stop.

`TaskPool` is what the class promises: tasks wait, run and end, `stop()` closes the
pool; no list, counters or idle fibres. `RunsOnce` is its specification under the
mapping that takes what is on a stack for running, what is in the list or in a
worker's hands for waiting, and a READY fibre for bound to nobody, although
`run()` queues it for any thread only later.

Left out: `switchTo` into another scheduler, `tickle()` (the base class only
logs; see `IdleLoop`), stack memory.

### Timer

`m_timers` holds pairs of the key a timer was inserted with and the timer, so
that a lookup under a changed `m_next` fails as it does in the ordered set;
equal keys may come in either order. `addTimer` and `listExpiredCb` read the
clock before they lock and are split there (`Build`/`Insert`;
`ReadClock`/`Peek`/`Expire`). The clock ticks and may be set back. `told`,
`announced`, `fires`, `cancelled` are history, and so is `rolled`: the clock was
set back, or `detectClockRollover` said so. The two differ: a poller that is
held up for more than an hour between reading the clock and taking the lock,
while another one polls, takes its own reading for a set-back and fires
everything. `NeverEarly` and `FrontAnnounced` speak of the time before that.
`reset()` compares the period before it takes the lock; the comparison is part
of its one action, since a stale outcome only re-inserts the timer where it was.

### FdEvents

Per fd the registered events, the context of each kind and the owner of the
fd mutex; per thread what `epoll_wait` reported and what it is triggering.
The fd mutex is held over several steps because the pending count and the
scheduler's list change one after the other inside it. `epoll_ctl` and
`epoll_wait` are external: any watched event may be reported at any time,
errors and hang-ups too. A failing `epoll_ctl` in the four calls changes
nothing and is a stuttering step; in `idle()` it is `FailReport`. A call whose
event is not registered returns at once and is a stuttering step as well.
An event that is registered already fails the assertion of `addEvent`
(`AddTwice`), and so does one that `idle()` triggers when it is registered no
more; the behaviour stops there.
`BooksAgree` combines the type, `PendingExact` and `WatchedIsRegistered`.

### ContextTable

The table of `FdContext`s before anything is in them: `size`, how many contexts
have been made for each descriptor (the last one is in the table), and through
which of them an event is registered. `LookUp` is what happens under the read
lock; a thread that found its descriptor past the end has let go of the lock
when it resizes, and does not look again. `late` records that the table had
grown in between, so that the resize shrinks it. What a context holds is the
subject of `FdEvents`; the two run side by side in `MCFdEvents`. `TableSound`
combines `IndexInRange` and `ContextKept`.

### IdleLoop

`run()` over the idle loop of `IOManager`, with the list reduced to its length,
a timer to the time it has left and an fd event to its registration. The three
questions of `stopping()` are three steps. `owes` separates the list update from
the `tickle()` that follows it outside the lock. The pipe is edge-triggered: a
write raises an edge, the edge is reported to one sleeper, and that sleeper
drains the pipe. The int cast of the timeout is modelled with `Width` values
(2^32 in the code). The active and idle counts are read off the program
counters, which `CountsCorrect` justifies. `First` is the time that the earliest
timer has left, which `getNextTimer` answers. Time passes between that answer
and `epoll_wait`, and a wait that `EINTR` cuts off is started over with the
whole of the old timeout (`Interrupt`). `late` is the history of both: what a
worker has lost since it asked; `MaxLate` bounds it.

### HookIo

The kernel's side of a descriptor (open, nonblocking, ready for what), the table
of `FdCtx`, the fibre registered for each event, and for every fibre where it is
in its call. A call tries the system call (`EINTR` is a repetition and no step),
arms a condition timer, registers its event and yields, in steps of their own,
because another thread can act between any two. The timer's callback leaves the
set of timers first, where `cancel()` finds it no more, and acts later in two
steps: it marks the call and cancels the event. Whether it still finds the call
is the `weak_ptr` of the code: a callback remembers the call it was made for. A
fibre that is woken tries the call again on the number it has, whatever that
number stands for by then: nothing keeps another fibre from a call on it in the
meantime, and when both register the same event the assertion of `addEvent` ends
the program (`aborted`). Every retry arms a timer of the whole timeout again.
`close()` cancels, forgets the `FdCtx` and closes in three steps.
`fcntl(F_SETFL)`, `ioctl(FIONBIO)` and `setsockopt` act on the `FdCtx`; a number
from `socket` or `accept` is entered in the table in a step of its own.
`threads` is the number of workers: a step needs a free one, and a thread that
sleeps in the kernel is not free. `Opened` are descriptors made earlier. The
`IOManager` and the kernel are external.

### Socket and TcpServer

`Socket` defines the operations as functions of the objects, the kernel's table
of descriptors and the files of unix addresses; each returns whether it
succeeded and the new state, early returns included. `CloseAll` and `Destroy`
act on several sockets at once, as the loops of `stop()` and of a vector's
destructor do. The descriptors are a small set, so that running out of them
happens. `TcpServer` makes actions of them: a program that binds, listens,
connects, accepts and closes sockets of its own, and the server's `bind` (one
address per step), `start`, `stop`, the queued task of `stop`, the accept loops
and `handleClient`. A call that may fail is a choice where the kernel decides.
The accept worker has one thread, so a loop keeps it until it waits in `accept`;
what more threads add inside `close` is in `HookIo`. A loop that waits on a
descriptor being closed is woken once, by `cancelAll`, and tries `accept` again
on the same number: it fails, or finds a later listener there and waits on that
one (`"stray"`). Closed by a thread that does not belong to the accept worker,
where `cancelAll` may ask another `IOManager` or none, the loop may not be woken
at all (`"stuck"`). `hasty` and `orphaned` record the two histories after which
a loop may be wrong (section 4).

### ByteCodec, ByteArray, ByteStore

`ByteCodec` holds the encodings over a byte of `2*H` values. `ByteArray` has the
members of the class, nodes numbered from 0, and one iteration of the loops of
`write()` and `read()` per step; nothing else happens between the steps of one
call, since a ByteArray has no lock and one owner. An item is written by several
calls of `write()` in a row. New memory may hold anything of `FreshBytes`.
`ByteStore` is what the class promises: a flat array of bytes with a cursor, no
nodes and no capacity; `FlatArray` is its specification under the mapping that
joins the nodes to one sequence. `CodecTyped` says what the proofs take from the
codec; `MCByteArray` assumes it, so that TLC evaluates it.

### Config

Per variable its type, its value, its listeners and who holds the read lock;
per thread where it is in `setValue` or `LoadFromYaml`. Telling one listener is a
step and may throw; storing is a step under the write lock. Variables are
looked up while the program has one thread, as static initialisation does, and
listeners do not call back into the variable. `addListener` takes an id that the
variable does not have, in any order: `s_fun_id` (`config.h:302`) is shared by
all variables of a type, each of which increments it under its own lock. An id
given out twice by that race replaces a listener, which is `DelListeners` and
`AddListener` in a row. `LexicalCast` is the parameter
`Convert`, a document the sequence of its nodes with the keys around them.

### LogFormat, Log, Text, FileTree, Address

`LogFormat` parses patterns as sequences of characters. `Log` has loggers,
appenders and what each has written; a thread builds an event in one step and
hands it over later, so events arrive out of the order of their time stamps.
`Deliver` takes the global mutex and `CallAppender` is one turn of the loop over
the appenders; the clock, the disk and the statements of other threads go on
between two turns. Configuration takes no lock in the code; the model has it
between hand-overs only. A null formatter may be set on an attached appender
(`Bare` marks it); the next line it would print ends the specification
(`Crashing`), as it ends the process. The disk may refuse to open or to write. A
member that the code leaves uninitialised has any value. The other three are
operators without state: URL coding over byte sequences, `Rm`, `Mkdir`, `Mv` and
`ListAllFile` over trees in which one entry may be held, and the parts of
`address.cc` that compute. `MCLibrary` has one more variable, the input looked
at; in the behaviours that have none the loggers run.

## 4. Runs

Bounds. Two threads are the least with every interleaving between a thread and
another; two fibres and a callback let a body spawn while another waits; a
second yield is needed where a state is overwritten late. Two timers (one
recurring) cover every order of front insertion, expiry and cancellation; `Hour`
is one clock unit, so that a set-back of more and of less than an hour both
happen. One poller keeps that run small; the theorems about it are for any
number of them. In `IdleLoop` an int has 8 values and `MAX_TIMEOUT` is 2: delay
1 is below, 3 above the limit, and 5 wraps; a worker loses 1 unit of time on its
way (`MaxLate`), half of the longest wait. In `ContextTable` the first size is 2
and the descriptors lie on both sides of it and of each size it grows to. In
`HookIo` one fibre makes three calls and the other one, which is enough for a
number to be closed and handed out again while a fibre woken on it has not
resumed, and for a late callback of one call to meet the next; a timeout is one
tick, two in `hook_early`, and one arrival is enough for data racing it. In
`TcpServer` three descriptors are too few for everything at once. In `ByteArray`
a byte has 8 values and a node 3 bytes, so that every item straddles nodes and
fills one exactly. The inputs of the pure algorithms are all those up to the
lengths given.

| Run | Instance | Properties and what they show |
|---|---|---|
| tasks | 2 threads, 3 tasks, spawn and one YieldToReady each, fair | `OnePlace`, `NothingLost`, `StopReturns`, `EveryTaskEnds`, `RunsOnce`: a task is in one place, never dropped, runs to its end; `stopping()` waits for all, `stop()` returns with the list drained; all of it is a refinement of `TaskPool` |
| pool | 1 thread and `use_caller`, 2 tasks, bindings, throw, wait, `switchTo`, 2 yields | `CountsExact` whatever bodies do; `SafeAlone`: until the second thread enters `run()` no fibre is lost or resumed on a stack in use and no assertion fails, waiting and switching bodies included |
| timer | 2 timers, 1 poller, clock 0..2, set back once, fair | `FoundIffArmed`, `FireOrCancel`, `NeverEarly`, `FrontAnnounced`, `DueIsServed` |
| fd_race | 2 threads, 2 fds, both kinds, 3 registrations, duplicates included; table: 5 descriptors, 4 look-ups | `BooksAgree`, `OneOutcome`: the pending count is exact and kernel and contexts agree, one outcome per registration; `TableSound`: no index past the end, contexts found again |
| idle_sleep | 2 workers, 2 timers, 1 fd event, interrupted waits | `SleepersWake`: when all sleep, one wakes for the first timer, later than it by no more than the time it lost on its own way |
| idle_live | 2 workers, 1 task, 1 timer, interrupted waits, fair | `WorkIsTaken`, `StopReturns` |
| hook | 2 fibres, 2 fds, 1 or 2 threads, accept and connect, 1 and 3 calls, fair | `OneWake`: data, timeout and `close` resume a wait once; `TableFollows`: an `FdCtx` for every descriptor in use; `TimeoutHonest`: ETIMEDOUT only after the time; `TimedWaitEnds` (1 thread): a single wait with a timeout ends, unless `addEvent` aborts; the call it belongs to may wait again |
| hook_early | 2 fibres, 1 fd, 2 threads, connect, fair | ends in a counterexample, see below |
| server | 3 objects, 3 descriptors, an inet and a unix address, backlog 1, 2 loops, an SSL server, 5 calls | `SocketsTrue`: no descriptor leaked or shared, connections and cached addresses true; `ServerAccepts`; `StopReachesLoops`: after the task of `stop()` no loop is left in the wait on its socket; `BindHonest`: no address taken from a live listener, none kept by a failed `bind` |
| bytes | nodes of 3 bytes, 4 nodes, 2 items of every encoding | `CursorSound`, `ReadsBack`, `ViewsAgree`, and the refinement `FlatArray` |
| config | 2 threads, 2 names, 3 values, 2 listeners (one throws), 2 calls, 2 documents, fair | `ToldUnderLock`, `ListenersAgree`, `LoadApplies`, `SetReturns` |
| library | 2 loggers, 2 appenders, 2 threads, 2 events, 2 calls; patterns to 5 characters, texts to 4 bytes, names to 3, trees of depth 2 | `FormattersKept`, `FileKept`, `TextsReadBack`, `TreesHonest`, `AddressesKept` |

A combined property is a conjunction of named parts, each with its own comment
in the module.

Fairness. The operating system runs every thread (weak fairness of each
worker's own steps, and in `HookIo` of every fibre that is on a thread); a
`stop()` once called proceeds; timers and registered events do happen; the clock
advances. Calls from outside, spawns, cancellations, arrivals and failures are
never forced. In `Config` a thread in a call goes on; a read-write lock that is
free is granted. The code has no other assumption built in: the scheduler's
loop never blocks, and `epoll_wait` is bounded by its timeout. `MaxLate` adds that
no wait is interrupted for ever; signals without end would keep a worker in it.

### Disagreements found

`hook_early` is the run that ends in a counterexample. `hook.cc:275` says that
if the timeout comes first the write event is triggered and the fibre returns
with the error. The timer is armed at line 264 and the event registered at 277:
with a second thread the callback can run in between, cancels nothing, and the
fibre waits without a timeout. `do_io` has the same order (130, 140). With
`PoolSizes = {1}` the property holds.

The passing runs stay away from the following, which a changed constant or
property shows:

| Where | Change | What happens |
|---|---|---|
| `fibre.cc:197` | `tasks` with `BodyOps = {"wait"}` and the invariant `Alive` | two threads are on one stack: HOLD is stored before the context is saved, and a fibre already queued by its waker is resumed on a stack still in use |
| `scheduler.cc:206` | `tasks` with `BodyOps = {"wait", "ready"}`, `MaxYields = 2` and the invariant `NoTaskDropped` | the HOLD stored late overwrites the READY of a fibre another thread has resumed, and nobody queues it |
| `scheduler.cc:199` | `tasks` with `Bindings = {AnyThread, t1, t2}` and the invariant `StopDrains` | between the decrement of the active count and the new entry of a READY fibre `stopping()` is true; workers leave, and a task bound to one of them is in the list when `stop()` has returned |
| `iomanager.cc:454` | `fd_race` with the invariant `TriggersRegistered` | events reported but no longer registered are triggered and an assertion fails |
| `iomanager.cc:342` | `idle_sleep` with the invariant `StopDrains` | a timer added between the questions of `stopping()` is left when `stop()` has returned |
| `iomanager.cc:382` | `idle_live` with `Delays = {5}` | deadlock: a delay of 2^31 ms or more is cast to a negative timeout, and the workers sleep past the timer and past `stop()` |
| `iomanager.cc:164` | `ContextKept` without `~late` | the late, smaller resize shrinks the table, and events registered above its end are found no more |

Others are built into the model, and the properties are stated so as to leave
them out:

* `timer.cc:138`: `listExpiredCb` returns when the set is empty, so
  `m_previousTime` ages and a later set-back of over an hour can be missed.
* `iomanager.cc:333`: `tickle()` writes nothing for a worker that has scanned the
  empty list and is not yet counted idle; a task scheduled then waits for the
  timeout, which is why `WorkIsTaken` holds only through `MAX_TIMEOUT`.
* `iomanager.cc:389`: after `EINTR` the whole of the old timeout is waited for
  again, so that a timer is served late by the time slept before, once for every
  signal.
* `iomanager.cc:170`: a second `addEvent` for an event logs an error and then fails
  its assertion, where it might return one.
* `scheduler.cc:203`: a READY fibre is queued again for any thread, and so loses
  the thread it was scheduled for.
* `hook.cc:342`: `write()` asks for the receive timeout. `hook.cc:464`:
  `ioctl(FIONBIO)` clears O_NONBLOCK in the kernel, after which a hooked call
  blocks its thread. With more than one thread a fibre woken by `cancelAll` can
  be back in `addEvent` before `close` has closed the fd, and waits on a closed
  one. `hook.cc:158`, `370`: a fibre woken by `close()` retries on the number;
  when it has been handed out again, the fibre waits on somebody else's
  descriptor, or fails the assertion of `addEvent` if that one is being waited
  on. `hook.cc:119`: each retry waits for the whole timeout again, so that a
  call whose data is taken by others can last any multiple of it. When
  `addEvent` fails in `connect_with_timeout`, `SO_ERROR` reports success.
* `tcp_server.cc:58`: a `bind()` that fails while loops run forgets their sockets,
  which `stop()` then cannot close. `tcp_server.cc:100`: a `start()` before the
  task of an earlier `stop()` has run puts a second loop on a socket. A loop woken
  by the task of `stop()` retries on the old number, and waits for good when it is
  another listener's by then; one whose socket is closed by a thread outside
  the accept worker may not be woken at all.
* `socket.cc:163`: a probe refused by a full backlog, or for want of a
  descriptor, unlinks the path of a live listener. `socket.cc:361`: the cached
  local address survives `close()`. `socket.cc:517`: `SSLSocket::close()` keeps
  `m_ssl`. A failed handshake in `SSLSocket::connect` leaves the socket
  connected.
* `bytearray.cc:468`: `writeToFile` is short, or does not end, when the position
  is inside a node and at most a node lies ahead. `bytearray.cc:411`: the
  positional `read` starts from the current node, whatever the position. A read
  of no bytes with the position at the capacity dereferences a null node.
* `config.h`: the lock of `Lookup` is commented out; capitals are accepted in
  names, which `config.h:349` excludes; a listener that adds or removes
  listeners of its variable deadlocks with itself; one that throws leaves those
  before it with a value that is never stored. `config.h:302`: `s_fun_id` is
  incremented under the lock of one variable and shared by all of its type.
  `config.cc:65`: `LoadFromConfDir`
  loads nothing, since the listing of files is commented out.
* `log.cc:384`: reopening truncates, so a file keeps three seconds.
  `log.cc:381`: a stream on which a write failed is opened again without being
  closed, which fails for ever. A null formatter given to an attached appender
  crashes at the next line. Appenders that are shared or added again print with
  an old format. `m_level` and `m_error` are not initialised. `log.cc:445`: the
  second `%` of `%%` is read again as the start of an item, where the comments
  at 431 and 444 make it a literal; `TextsReadBack` speaks of the patterns
  without `%%`. `log.cc:593`: `LogAppenderDefine::operator==` compares a file
  with a formatter.
* `address.cc:330` and `430`: `networkAddress` keeps the host bits. `CreateMask`
  shifts by the width for prefix 0; IPv6 prefix 128 indexes past the address. A
  bare IPv6 host is also passed on as a service.
* `util.cc`: `Rm` treats a socket as a directory and keeps only the last entry's
  result; `Mv` removes the target before it tries the rename, so that moving a
  directory into itself loses what was at the target, and moving an entry onto
  itself or onto a directory above it loses the entry (268); `Mkdir` is content
  with an existing file; `TrimRight` (537) searches from the front.

## 5. Proofs

Every theorem rests on the named assumption of its module and on nothing else
but the hypotheses listed.

`SchedulerProofs`, from `SchedulerAssumption` (a finite pool, the caller outside
it, disjoint task sets):

* `TypeCorrect`: `[]TypeOK`. Inductive with `Placed`, which ties a worker's
  place to whether it holds a task; without it `m_state[ft[t]]` has no type.
* `CountsCorrect`: `[]CountsExact`, by induction over `TypeInv`: each action
  adds or removes at most one worker from the two counted sets.
* `OnePlaceCorrect`: `[]OnePlace` when no body queues itself (`NoSelfSchedule`). The
  invariant `Exclusive` adds to `OnePlace` that unsubmitted tasks are nowhere
  and that a fibre is EXEC exactly while a worker is on its stack. The
  hypothesis is needed: `tasks` with `"wait"` refutes the conclusion without it.
* `SafeAloneCorrect`: `[]SafeAlone`, for bodies that do anything. The invariant is
  an implication: while one thread at most has entered `run()` (`Few`; nobody
  who has entered is out again, so it held before if it holds after), `Marked`
  ties each state of a fibre to the place of its worker, and `Handed` says that a
  fibre on its way out as HOLD has been given to the list or to a waker already.
* `NothingLostCorrect`: `[]NothingLost` under `NoSelfSchedule` and `BoundByCaller`
  (bodies spawn no bound tasks, or none). `Tracked`: a submitted task that has
  not ended is queued or held. `Drains`: every entry has a worker that may take
  it and will scan the list once more before it leaves `run()`. The second is
  what makes `stop()` drain the list although `stopping()` can be true while a
  READY fibre is in no list; section 4 shows what happens without
  `BoundByCaller`.
* `RunsOnceCorrect`: `Spec => RunsOnce`, the refinement of `TaskPool`, under the same
  two hypotheses. `Lives` is added: an ended fibre stays ended, a task not handed
  over is INIT, and a READY fibre nobody is leaving is bound to nobody.
  `Bound` is added too: an entry of the list carries the binding last given.
  `Tracked` and `Places` make the waiting tasks those handed over that have not
  ended and are on no stack (`WaitingIsUnended`), after which `SwapIn`,
  `YieldToReady`, `Finish`, the two submissions and the two ends of `stop()` are
  steps of the pool and every other action is a stutter.

`TimerProofs`, from `TimerAssumption`:

* `TimerTypeCorrect`: `[]TypeOK`; `m_next - m_ms` never underflows in `reset()`,
  for which the invariant carries `m_ms <= m_next`.
* `FoundIffArmedCorrect`, `FireOrCancelCorrect`: `[]FoundIffArmed`,
  `[]FireOrCancel`, from `TimerInv`, their conjunction with `Past`: a
  built timer has a callback, a cancelled one has none, and an unborn timer
  has neither fired nor been cancelled.
* `FrontAnnouncedCorrect`: `[]FrontAnnounced`. The invariant adds `TickledExact`
  (`m_tickled` holds exactly when something was announced since the last
  `getNextTimer`) and `Steady` (until the clock goes back nobody has read a time
  still to come, and no timer is further away than its period: a `refresh` never
  brings a timer forward).
* `NeverEarlyCorrect`: the action property `NeverEarly`, from `Steady`. It was in
  this proof that a held-up poller turned out to fire timers early; `rolled`
  replaced a condition on the clock alone; with one poller the two agree.

`FdEventsProofs`, from `FdEventsAssumption`:

* `RegistrationBooks`: `[]BooksAgree`; `CallbackOnce`: `[]OneOutcome`. `FdInv` adds
  `Held`: a context is locked exactly by the thread that triggers its events, and
  the kernel already watches what will be left when that thread is done. Without
  it nothing ties the kernel's set to the context's between the unlocks. The
  count is followed through two cardinalities, each of which a step changes by
  one pair or one thread at most.

`FdEventsProofs` also, from `TableAssumption` (descriptors are naturals, the first
size is at least 2), about `ContextTable`:

* `IndexInRangeCorrect`, `ContextKeptCorrect`, `TableSoundCorrect`. The invariant
  `TableInv` adds the types and `Grounded`: a thread about to resize does so for
  a descriptor that was beyond a table of at least the first size, so that one
  and a half times the descriptor is more than the descriptor and the resized
  table has room for it. For a first size of 1 that fails, which is why the
  assumption is there (the code's is 32).

`IdleLoopProofs`, from `IdleLoopAssumption`:

* `SleepersWakeCorrect`: `[]SleepersWake` under `ShortDelays` (twice a delay is
  below the range of an int: less than 2^31 ms). `Covered`: when every worker is
  between `getNextTimer` and the return of `epoll_wait`, nobody will look at the
  timers again, so a byte is in the pipe or about to be, or some worker wakes for
  each timer, late by no more than its own `late`; and `m_tickled` is never left set
  without that byte. `Slept` (what is left of a wait is at most the timeout) is
  what lets `Interrupt` add to `late` the time it restores. The
  hypothesis is needed: a longer delay is cast to a negative timeout.

`HookIoProofs`, from `HookAssumption` (timeouts lie within the clock's bound):

* `WokenOnce`: `[]OneWake`, with `Waits`: a waiting fibre is registered for the
  event of its call and nowhere else, or queued once, and no other fibre is in
  either place.
* `TableIsKept`: `[]TableFollows`, with `Owned` (who opens or closes a descriptor
  has it to itself) and, for one thread, `Alone` (nobody runs between the
  `cancelAll` of a `close` and its end).
* `TimeoutsAreHonest`: the action property `TimeoutHonest`, with `Clocked`: the
  timer of a live call has at least as much left as the call has to wait, and a
  callback that marks a call finds it due. The sequence number of a call, which
  stands for the `weak_ptr`, is what keeps a callback of an earlier call away.

`TcpServerProofs`, from `SocketAssumption`, `DistinctAssumption` and
`ServerAssumption` (finitely many objects and descriptors, the placeholders are
none of the real values, sockets are TCP or SSL):

* `SocketsTrueAlways`: `[]SocketsTrue`. `Good` says of any state of objects, kernel
  and paths that an open descriptor has one owner (`Owned`), that listeners are
  bound and unconnected and a path leads to a descriptor bound to it (`Kernel`),
  and what an object may believe (`Believes`). Each function of `Socket` is shown
  to keep it: `Touch` for an operation on one socket, `Closing` for descriptors
  that end. That an unused, unbound object has no cached address is needed, for
  `bind` and `connect` cache what they find empty.
* `ServerAcceptsAlways`: `[]ServerAccepts`, and `StopReachesLoopsAlways`:
  `[]StopReachesLoops`. `InLive` and `Apart`: what the server, its loops and the
  program hold exists, and nobody holds a socket of somebody else, so that a
  socket destroyed at the end of an action is one nobody uses (`Committed`).
  `Stoppable`: a loop that waits and is not astray waits on the descriptor of
  its socket, and that socket is in `m_socks` or closed, and closed when no task
  of `stop()` is left; no loop is left waiting on a closed descriptor, since
  every action that closes it takes the loop out of its wait. `Separate`: until
  a hasty `start()`, loops share neither socket nor descriptor, and while the
  server runs none of them is stale; without that a number used again would put
  two loops on it.
* `BindHonestAlways`: the action property `BindHonest`, from the same invariant.
  `Respects` is what an operation may do to the path of a live listener; when a
  failing `bind` ends, `Owned` and `Apart` leave the program and the loops as the
  only owners.

`LibraryProofs`, from `ConfigAssumption`, about `Config`:

* `ConfigTypeCorrect`, `ReadersExactCorrect`, `OldValueCorrect`,
  `ToldUnderLockCorrect`. The invariant is the conjunction of the three parts:
  that the old value stays current needs `ReadersExact`, for only then does the
  guard of the store exclude every thread that is telling.
* `ListenersAgreeCorrect`: `[]ListenersAgree`, with `Registered` (a listener
  belongs to one variable, and the read lock keeps the listeners still while
  they are told) and `Known`: while a variable's history is undisturbed it has
  one setter at most, and the listeners told so far know the value to come.

`LibraryProofs` also, about `Log`, from `LevelsAssumption`, `MomentsAssumption`,
`BoundsAssumption` and `NamesAssumption`:

* `FormattersKeptAlways`: `[]FormattersKept`, which speaks of the appenders that were
  not given a null formatter while attached. `LogInv` adds `Placed`: an appender
  never added is in no list and has no formatter but its own, and one with a
  single logger in its history is in that logger's list and no other. Without it
  `addAppender` could meet an inherited formatter of another logger, and
  `setFormatter` miss a list.
* `FileKeptAlways`: `[]FileKept`, with `SinkKept` for each file and `Reachable`: the
  loggers that a pending event and the root stand for have been made. A stream
  that is in order after `reopen` is empty, which is why one write restores both
  parts.

`ByteArrayProofs`, from `ByteArrayAssumption` and `CodecAssumption`:

* `CursorSoundCorrect`: `[]CursorSound` under `CodecTyped`. `ArrayInv` adds
  `InLoop` (there is room for the bytes a `write()` has left, the bytes a `read()`
  has left are there, and `npos` and `ncap` are those of the position) and
  `InPart` (how much of a word or varint has been read). The arithmetic is in a
  few lemmas: `Offset`, `Passed` and `Enough` say what `/`, `%` and the rounding of
  `addCapacity` do for any node size.
* `FlatArrayCorrect`: `Spec => FlatArray` under `CodecTyped`, the refinement of
  `ByteStore`. `CellAt`, `CellAppended` and `CellStored` relate a byte of the flat
  array to its node; each action of `ByteArray` is then shown to be the step of
  `ByteStore` that its name suggests, or a stutter.
* `CodecTyped` is a finite statement about the instance: the items encode to
  bytes, words and varints decode to naturals. It is a hypothesis because the
  encodings are recursive; TLC evaluates it in the `bytes` run.

Only model-checked: liveness (`StopReturns`, `EveryTaskEnds`, `DueIsServed`,
`WorkIsTaken`, `TimedWaitEnds`, `SetReturns`), which is out of the prover's
reach; `LoadApplies`, `ReadsBack` and `ViewsAgree`, which speak of what recursive
definitions return for any input; and the pure algorithms (`TextsReadBack`,
`TreesHonest`, `AddressesKept`), for the same reason.

## 6. Not modelled

* Thread and locks: wrappers of pthread. Every module takes the locks as
  specified; the handshake of the constructor is one wait and one post.
* Stream: four loops over a virtual `read` and `write` that no class of the
  repository implements.
* Env: the arguments are read once at start-up into a map under one lock. It
  refuses arguments without a leading `-` (`env.cc:26`).
* MySQL client: a wrapper of a library that is not in the repository.
* Of the modelled parts: stacks and contexts, and `switchTo` into a second
  scheduler; socket options, `sendTo` and `recvFrom`, the payload of `send` and
  `recv`; `LexicalCast` and its YAML conversions (a parameter of `Config`);
  `LoadFromConfDir` and the YAML form of loggers and appenders, which are
  commented out or unused; the text of single log items; `getaddrinfo` and
  `getifaddrs`; string trimming, backtraces, time formatting, JSON and pid files,
  which keep no state.
* The tickle pipe is taken to have room: its write end blocks when 64 KiB are
  unread.

----------------------------- MODULE TcpServer -----------------------------
(***************************************************************************)
(* TcpServer (tcp_server.cc) with a program around it that uses sockets of *)
(* its own: other listeners, and clients that connect to the server.       *)
(*                                                                         *)
(* bind() runs in the program's thread; an accept loop and the task that   *)
(* stop() queues run on the one thread of the accept worker, so a loop     *)
(* keeps it until it waits in accept().  The window inside close() with    *)
(* more threads is the subject of HookIo.                                  *)
(***************************************************************************)
EXTENDS Socket, SequencesExt

CONSTANTS
  Loops,         \* accept loops there may be
  Kinds,         \* kinds of the program's sockets: "tcp", "ssl"
  ServerKinds,   \* "tcp", or "ssl" when bind() is asked for it
  MaxOps,        \* bound: operations of the program on its own sockets
  MaxCalls       \* bound: these and calls of bind, start and stop

ASSUME ServerAssumption == Kinds \cup ServerKinds \subseteq {"tcp", "ssl"}

VARIABLES
  obj, kern, path,  \* of Socket
  held,      \* objects the program holds
  isStop, socks,    \* m_isStop, m_socks
  bind,      \* the call of bind() under way: the addresses left, the socket
             \* that is bound and not yet listening, whether one failed
  loop,      \* startAccept: where each loop is, its socket, the fd it accepts on
  stops,     \* tasks of stop() in the queue
  clients,   \* tasks of handleClient in the queue
  ops, rounds,      \* counts of calls
  hasty,     \* history: start() came before the task of an earlier stop()
  orphaned,  \* history: bind() failed while accept loops ran
  aborted    \* addEvent: two fibres wait for one event

vars == <<obj, kern, path, held, isStop, socks, bind, loop, stops, clients, ops, rounds,
          hasty, orphaned, aborted>>

Now == [obj |-> obj, kern |-> kern, path |-> path]
NoBind == [todo |-> <<>>, kind |-> "none", sock |-> None, failed |-> FALSE]
NoLoop == [pc |-> "none", sock |-> None, fd |-> NoFd]

Init ==
  /\ obj = [o \in Objs |-> Gone] /\ kern = [d \in Fds |-> Closed]
  /\ path = [a \in UnixAddrs |-> None]
  /\ held = {} /\ isStop = TRUE /\ socks = <<>> /\ bind = NoBind
  /\ loop = [i \in Loops |-> NoLoop]
  /\ stops = 0 /\ clients = {} /\ ops = 0 /\ rounds = 0
  /\ hasty = FALSE /\ orphaned = FALSE /\ aborted = FALSE

(* A new object: the lowest id that is free. *)
Fresh(o) == obj[o] = Gone /\ \A p \in Objs : p < o => obj[p] # Gone

(* How the handshake of an SSLSocket may end. *)
Handshakes(o) == IF obj[o].kind = "ssl" THEN BOOLEAN ELSE {TRUE}

(* Faults: wrong versions of the definitions named. *)

(* KeptSocks: sockets that did bind are kept when another failed. *)
KeptSocksAll == socks
(* MayStart: a running server is started again. *)
MayStartAlways == TRUE
(* Cut: close() without cancelAll, the waiter is not told. *)
CutUntold(st, l) == FALSE

(* The loops after an action, st the sockets then: close() of the fd a loop waits *)
(* on wakes it once, by cancelAll of the thread's IOManager (ends says how).  On a *)
(* thread of the accept worker that is the one it waits in; elsewhere it may be    *)
(* another, or none: the fd is gone from epoll, and the loop never wakes.          *)
OnWorker == {"woken"}
Elsewhere == {"woken", "stuck"}
Cut(st, l) == l.pc \in {"wait", "stray"} /\ ~st.kern[l.fd].listening
AfterClose(st, lp, how) ==
  [i \in Loops |-> IF Cut(st, lp[i]) THEN [lp[i] EXCEPT !.pc = how] ELSE lp[i]]

(* The end of an action: objects that nobody holds any more are destroyed. *)
InUse(h, ss, b, lp, c) ==
  h \cup ToSet(ss) \cup {b.sock} \cup {lp[i].sock : i \in Loops} \cup c
Lost(st, use) == {o \in Objs : st.obj[o] # Gone /\ o \notin use}
Commit(st, h, ss, b, lp, c, ends) ==
  LET end == Destroy(st, Lost(st, InUse(h, ss, b, lp, c)))
  IN /\ obj' = end.obj /\ kern' = end.kern /\ path' = end.path
     /\ held' = h /\ socks' = ss /\ bind' = b /\ clients' = c
     /\ \E how \in ends : loop' = AfterClose(end, lp, how)

----------------------------------------------------------------------------
(* The program's own sockets. *)

MayOp == ~aborted /\ ops < MaxOps /\ ops + rounds < MaxCalls /\ ops' = ops + 1
KeepServer == UNCHANGED <<isStop, stops, rounds, hasty, orphaned, aborted>>
ProgramDoes(st, h) == Commit(st, h, socks, bind, loop, clients, Elsewhere) /\ MayOp /\ KeepServer

Create(o, kind, a) ==
  /\ Fresh(o)
  /\ ProgramDoes([Now EXCEPT !.obj[o] = NewObj(kind, Family(a))], held \cup {o})
SocketOp(o, a, handshake) ==
  /\ o \in held /\ handshake \in Handshakes(o)
  /\ \E st \in {Bind(Now, o, a).st, Listen(Now, o).st, Connect(Now, o, a, handshake).st,
                 Reconnect(Now, o, handshake).st, Close(Now, o)} :
       st # Now /\ ProgramDoes(st, held)
Drop(o) == o \in held /\ ProgramDoes(Now, held \ {o})

----------------------------------------------------------------------------
(* TcpServer::bind, one address after the other. *)

MayCall == ~aborted /\ ops + rounds < MaxCalls /\ bind = NoBind /\ rounds' = rounds + 1
BindStep(st, ss, b) ==
  /\ ~aborted
  /\ Commit(st, held, ss, b, loop, clients, Elsewhere)
  /\ UNCHANGED <<isStop, stops, ops, hasty, aborted>>

BindBegin(addrs, kind) ==
  /\ MayCall
  /\ BindStep(Now, socks, [NoBind EXCEPT !.todo = addrs, !.kind = kind])
  /\ UNCHANGED orphaned

BindOne(o) ==
  /\ bind.todo # <<>> /\ bind.sock = None /\ Fresh(o)
  /\ LET a == Head(bind.todo)
         b == Bind([Now EXCEPT !.obj[o] = NewObj(bind.kind, Family(a))], o, a)
     IN BindStep(b.st, socks, IF b.ok THEN [bind EXCEPT !.sock = o]
                              ELSE [bind EXCEPT !.todo = Tail(@), !.failed = TRUE])
  /\ UNCHANGED <<rounds, orphaned>>

Listening(ok) == ok
BindListen ==
  /\ bind.sock # None
  /\ \E refused \in BOOLEAN :
       LET l == Listen(Now, bind.sock)
           ok == l.ok /\ ~refused
       IN BindStep(IF refused THEN Now ELSE l.st,
                   IF Listening(ok) THEN Append(socks, bind.sock) ELSE socks,
                   [bind EXCEPT !.todo = Tail(@), !.sock = None, !.failed = @ \/ ~Listening(ok)])
  /\ UNCHANGED <<rounds, orphaned>>

KeptSocks == IF bind.failed THEN <<>> ELSE socks
BindEnd ==
  /\ bind # NoBind /\ bind.todo = <<>>
  /\ BindStep(Now, KeptSocks, NoBind)
  /\ orphaned' = (orphaned \/ (bind.failed /\ \E i \in Loops : loop[i] # NoLoop))
  /\ UNCHANGED rounds

(* start(): an accept loop for each socket, the nth.  The queue is left out: a loop *)
(* that is not running yet stands before its test.                         *)
MayStart == isStop
Start ==
  /\ MayCall /\ MayStart
  /\ \E nth \in [Loops -> 0..Len(socks)] :
       /\ \A i \in Loops : nth[i] # 0 => loop[i] = NoLoop
       /\ \A j \in 1..Len(socks) : \E i \in Loops : nth[i] = j
       /\ \A i, j \in Loops : i # j /\ nth[i] # 0 => nth[i] # nth[j]
       /\ Commit(Now, held, socks, bind,
                 [i \in Loops |-> IF nth[i] = 0 THEN loop[i]
                                  ELSE [pc |-> "test", sock |-> socks[nth[i]], fd |-> NoFd]],
                 clients, Elsewhere)
  /\ isStop' = FALSE
  /\ hasty' = (hasty \/ (isStop /\ (stops > 0 \/ \E i \in Loops : loop[i] # NoLoop)))
  /\ UNCHANGED <<stops, ops, orphaned, aborted>>

Stop ==
  /\ MayCall
  /\ isStop' = TRUE /\ stops' = stops + 1
  /\ UNCHANGED <<obj, kern, path, held, socks, bind, loop, clients, ops, hasty, orphaned, aborted>>

(* A loop that runs keeps the thread of the accept worker. *)
Worker == ~aborted /\ \A i \in Loops : loop[i].pc # "accept"

(* The task of stop(): cancelAll and close of every socket. *)
StopTask ==
  /\ Worker /\ stops > 0
  /\ stops' = stops - 1
  /\ Commit(CloseAll(Now, ToSet(socks)), held, <<>>, bind, loop, clients, OnWorker)
  /\ UNCHANGED <<isStop, ops, rounds, hasty, orphaned, aborted>>

LoopStep(st, i, l, c) ==
  /\ Commit(st, held, socks, bind, [loop EXCEPT ![i] = l], c, OnWorker)
  /\ UNCHANGED <<isStop, stops, ops, rounds, hasty, orphaned>>

(* while(!m_isStop): the fd is read once for a call of accept(). *)
LoopTest(i) ==
  /\ Worker /\ loop[i].pc = "test"
  /\ LoopStep(Now, i, IF isStop THEN NoLoop
                      ELSE [loop[i] EXCEPT !.pc = "accept", !.fd = obj[loop[i].sock].fd], clients)
  /\ UNCHANGED aborted

(* accept() on the number: a connection, an error, or a wait.  A loop that was woken *)
(* by close() tries the number again; when it is another listener's by now, the loop *)
(* goes astray and waits for that one's connections.                                 *)
LoopAccept(i) ==
  /\ ~aborted /\ loop[i].pc = "accept"
  /\ LET l == loop[i]
         again == [l EXCEPT !.pc = "test", !.fd = NoFd]
     IN IF l.fd = NoFd \/ ~kern[l.fd].listening \/ (kern[l.fd].pending > 0 /\ Free(Now) = {})
        THEN LoopStep(Now, i, again, clients) /\ UNCHANGED aborted
        ELSE IF kern[l.fd].pending = 0
        THEN /\ LoopStep(Now, i, [l EXCEPT !.pc = IF obj[l.sock].fd = l.fd THEN "wait" ELSE "stray"],
                         clients)
             /\ aborted' = \E j \in Loops :
                             loop[j].pc \in {"wait", "stray", "stuck"} /\ loop[j].fd = l.fd
        ELSE \E n \in Objs, handshake \in Handshakes(l.sock) :
               LET st == Accept(Now, l.sock, n, l.fd, handshake)
               IN /\ Fresh(n)
                  /\ LoopStep(st, i, again, IF st.obj[n] = Gone THEN clients ELSE clients \cup {n})
                  /\ UNCHANGED aborted

(* The wait in accept() ends with a connection, or once with close(). *)
LoopWake(i) ==
  /\ Worker
  /\ \/ loop[i].pc = "woken"
     \/ loop[i].pc \in {"wait", "stray"} /\ kern[loop[i].fd].pending > 0
  /\ LoopStep(Now, i, [loop[i] EXCEPT !.pc = "accept"], clients)
  /\ UNCHANGED aborted

(* handleClient only logs; the last reference to the client goes with it. *)
HandleClient(o) ==
  /\ ~aborted /\ o \in clients
  /\ Commit(Now, held, socks, bind, loop, clients \ {o}, Elsewhere)
  /\ UNCHANGED <<isStop, stops, ops, rounds, hasty, orphaned, aborted>>

----------------------------------------------------------------------------
BindLists == {l \in UNION {[1..n -> Addrs] : n \in 1..2} : IsInjective(l)}
WorkerStep == StopTask \/ \E i \in Loops : LoopTest(i) \/ LoopAccept(i) \/ LoopWake(i)
BindNext == BindListen \/ BindEnd \/ \E o \in Objs : BindOne(o)

Next ==
  \/ \E o \in Objs, kind \in Kinds, a \in Addrs : Create(o, kind, a)
  \/ \E o \in Objs, a \in Addrs, handshake \in BOOLEAN : SocketOp(o, a, handshake)
  \/ \E o \in Objs : Drop(o) \/ HandleClient(o)
  \/ \E addrs \in BindLists, kind \in ServerKinds :
       BindBegin(addrs, kind)
  \/ BindNext \/ Start \/ Stop \/ WorkerStep

Spec == Init /\ [][Next]_vars

----------------------------------------------------------------------------
(* Properties. *)

Alive == {o \in Objs : obj[o] # Gone}
TypeOK ==
  /\ \A o \in Alive : /\ obj[o].fd \in Fds \cup {NoFd}
                       /\ {obj[o].local, obj[o].remote} \subseteq Addrs \cup {None, AnyAddr, Ephemeral}
  /\ \A d \in Fds : kern[d].pending \in 0..Backlog /\ (kern[d].listening => kern[d].open)
  /\ held \cup ToSet(socks) \cup clients \subseteq Alive
  /\ \A i \in Loops : loop[i] = NoLoop \/ loop[i].sock \in Alive

(* Every open fd belongs to exactly one socket, and every valid socket has *)
(* an open fd: neither a second bind() or connect(), nor a failure on the  *)
(* way, nor the end of a server, leaks one or closes one twice.            *)
FdsOwned ==
  /\ \A d \in Fds : kern[d].open => Cardinality({o \in Alive : obj[o].fd = d}) = 1
  /\ \A o \in Alive : obj[o].fd # NoFd => kern[obj[o].fd].open

(* send() and recv() of a TCP Socket only use an fd that is its own and    *)
(* connected.  (An SSLSocket that is closed keeps m_ssl, and the number.)  *)
OwnConnection ==
  \A o \in Alive : obj[o].kind = "tcp" /\ obj[o].connected
    => Target(obj[o]) \in Fds /\ kern[Target(obj[o])].peer # None

(* The cached local address is the kernel's, as long as the object has not *)
(* been closed and used again.                                             *)
LocalAddressTrue ==
  \A o \in Alive :
    obj[o].local # None /\ obj[o].fd # NoFd /\ ~obj[o].reused
      => obj[o].local = kern[obj[o].fd].local

(* What socket objects believe of their descriptors is what the kernel     *)
(* knows: ownership, connection and address.                               *)
SocketsTrue == TypeOK /\ FdsOwned /\ OwnConnection /\ LocalAddressTrue

(* Nobody takes the path of a listener that could have answered the probe. *)
LivePathKept ==
  [][\A a \in UnixAddrs, d \in Fds :
       /\ path[a] = d /\ kern[d].listening /\ kern'[d].listening
       /\ kern[d].pending < Backlog /\ Cardinality(Free(Now)) > 1
       => path'[a] = d]_vars

(* Between calls of bind() every socket of the server listens. *)
ServerListens ==
  bind = NoBind => \A o \in ToSet(socks) : obj[o].fd # NoFd /\ kern[obj[o].fd].listening

(* When bind() fails, whoever listens then is a socket of the program or   *)
(* one that an accept loop still serves: the addresses that had come to be *)
(* bound are free again.                                                   *)
FailedBindFrees ==
  [][bind.failed /\ bind' = NoBind =>
       \A d \in Fds : kern'[d].listening =>
         \E o \in held' \cup {loop'[i].sock : i \in Loops} : o # None /\ obj'[o].fd = d]_vars

(* bind() takes no address from a live listener and keeps none when it     *)
(* fails.                                                                  *)
BindHonest == LivePathKept /\ FailedBindFrees

(* One loop accepts on a socket, unless start() comes before an earlier    *)
(* stop() has done its work: the assertion of addEvent holds.              *)
OneAcceptor ==
  ~hasty =>
    /\ ~aborted
    /\ \A i, j \in Loops : i # j /\ loop[i] # NoLoop => loop[i].sock # loop[j].sock

(* The server's sockets listen, and each is served by one loop. *)
ServerAccepts == ServerListens /\ OneAcceptor

(* Once the task of stop() has run, no loop still waits as it did: each     *)
(* one that waited for its socket has been woken by cancelAll.  (It tries   *)
(* the number again, and may be astray on a later listener's.)  Not so when *)
(* bind() failed while loops ran: it forgets their sockets, and stop()      *)
(* finds them no more.                                                      *)
StopReachesLoops ==
  isStop /\ stops = 0 /\ ~orphaned => \A i \in Loops : loop[i].pc # "wait"
============================================================================

------------------------------- MODULE Socket -------------------------------
(***************************************************************************)
(* class Socket and SSLSocket (socket.cc): objects that own a file         *)
(* descriptor of the kernel, remember whether they are connected and cache *)
(* the addresses of both ends.  The operations are functions of            *)
(*   st.obj  : the objects (members of Socket), Gone when destroyed,       *)
(*   st.kern : what the kernel knows of each fd (external),                *)
(*   st.path : the file of each unix address (external);                   *)
(* those that return bool yield [ok, st].  TcpServer makes actions of them.*)
(***************************************************************************)
EXTENDS Integers, Sequences, FiniteSetsExt

CONSTANTS
  Objs, Fds, Addrs, UnixAddrs,
  Gone,          \* an object that does not exist
  None,          \* no address, no file
  Stale,         \* a file whose socket is closed
  Backlog        \* bound: connections a listener keeps waiting

ASSUME SocketAssumption ==
  /\ IsFiniteSet(Objs) /\ IsFiniteSet(Fds) /\ Objs \cup Fds \subseteq Nat
  /\ UnixAddrs \subseteq Addrs /\ None \notin Addrs \cup Fds \cup Objs
  /\ Stale \notin Fds \cup {None} /\ Backlog \in Nat

NoFd == -1
AnyAddr == "any"              \* the address of a socket that is not bound
Ephemeral == "ephemeral"  \* the one connect() gives it
Family(a) == IF a \in UnixAddrs THEN "unix" ELSE "inet"

(* Socket::Socket, and what the static functions Create* make of it; reused *)
(* is history: the object has been closed before.                          *)
NewObj(kind, family) ==
  [kind |-> kind, family |-> family, fd |-> NoFd, connected |-> FALSE,
   local |-> None, remote |-> None, ssl |-> NoFd, reused |-> FALSE]

(* The members of a Socket and, external, what the kernel knows of an fd. *)
SocketObj ==
  [kind : {"tcp", "ssl"}, family : {"unix", "inet"}, fd : Fds \cup {NoFd},
   connected : BOOLEAN, local : Addrs \cup {None, AnyAddr, Ephemeral},
   remote : Addrs \cup {None, Ephemeral}, ssl : Fds \cup {NoFd}, reused : BOOLEAN]
KernelFd ==
  [open : BOOLEAN, local : Addrs \cup {AnyAddr, Ephemeral}, peer : Addrs \cup {None, Ephemeral},
   listening : BOOLEAN, pending : 0..Backlog]

ASSUME DistinctAssumption ==
  /\ {AnyAddr, Ephemeral} \cap (Addrs \cup {None}) = {}
  /\ Gone \notin SocketObj

(* The kernel, external. *)
Closed == [open |-> FALSE, local |-> AnyAddr, peer |-> None, listening |-> FALSE, pending |-> 0]
Free(st) == {d \in Fds : ~st.kern[d].open}
Listeners(st, a) ==
  {d \in Fds : /\ st.kern[d].listening /\ st.kern[d].local = a
               /\ a \in UnixAddrs => st.path[a] = d}
Accepts(st, a) == \E d \in Listeners(st, a) : st.kern[d].pending < Backlog
Bindable(st, a) ==
  IF a \in UnixAddrs THEN st.path[a] = None
  ELSE \A d \in Fds : st.kern[d].open => st.kern[d].local # a
Knock(st, a) ==
  [obj  |-> st.obj,
   kern |-> [d \in Fds |-> IF d \in Listeners(st, a) THEN [st.kern[d] EXCEPT !.pending = @ + 1]
                           ELSE st.kern[d]],
   path |-> st.path]
KernelClose(st, objs, ds) ==
  [obj  |-> objs,
   kern |-> [d \in Fds |-> IF d \in ds THEN Closed ELSE st.kern[d]],
   path |-> [a \in UnixAddrs |-> IF st.path[a] \in ds THEN Stale ELSE st.path[a]]]

Fd(st, o) == st.obj[o].fd
IsValid(st, o) == Fd(st, o) # NoFd

(* Faults: wrong versions of the definitions named. *)

(* Ensure: a socket that is valid gets a new fd all the same. *)
EnsureAlways(st, o) ==
  IF Free(st) = {} THEN st
  ELSE LET d == Min(Free(st))
       IN [obj |-> [st.obj EXCEPT ![o].fd = d], kern |-> [st.kern EXCEPT ![d].open = TRUE],
           path |-> st.path]

----------------------------------------------------------------------------
(* newSock: socket() takes the lowest free fd, or fails. *)
NewSock(st, o) ==
  IF Free(st) = {} THEN st
  ELSE LET d == Min(Free(st))
       IN [obj |-> [st.obj EXCEPT ![o].fd = d], kern |-> [st.kern EXCEPT ![d].open = TRUE],
           path |-> st.path]
Ensure(st, o) == IF IsValid(st, o) THEN st ELSE NewSock(st, o)

(* close(): what it makes of the members, and of several sockets at once. *)
Shut(x) ==
  IF ~x.connected /\ x.fd = NoFd THEN x
  ELSE [x EXCEPT !.connected = FALSE, !.fd = NoFd, !.reused = TRUE]
CloseAll(st, os) ==
  KernelClose(st, [o \in Objs |-> IF o \in os THEN Shut(st.obj[o]) ELSE st.obj[o]],
              {Fd(st, o) : o \in os})
Close(st, o) == CloseAll(st, {o})

(* ~Socket, of the objects os. *)
Destroy(st, os) ==
  KernelClose(st, [o \in Objs |-> IF o \in os THEN Gone ELSE st.obj[o]],
              {Fd(st, o) : o \in os})

(* getLocalAddress, getRemoteAddress: what is cached stays. *)
GetLocal(st, o) ==
  IF st.obj[o].local # None \/ ~IsValid(st, o) THEN st
  ELSE [st EXCEPT !.obj[o].local = st.kern[Fd(st, o)].local]
GetRemote(st, o) ==
  IF st.obj[o].remote # None \/ ~IsValid(st, o) THEN st
  ELSE [st EXCEPT !.obj[o].remote = st.kern[Fd(st, o)].peer]

(* A unix address is tried with a socket of its own; when somebody accepts *)
(* that connection (which stays behind as one that is closed), bind fails. *)
Probe(st, a) == Free(st) # {} /\ Accepts(st, a)

(* ::bind, then getLocalAddress. *)
Bound(st, o, a) ==
  GetLocal([obj  |-> st.obj,
            kern |-> [st.kern EXCEPT ![Fd(st, o)].local = a],
            path |-> [u \in UnixAddrs |-> IF u = a THEN Fd(st, o) ELSE st.path[u]]], o)

Bind(st, o, a) ==
  LET s1 == Ensure(st, o)
      d == Fd(s1, o)
      s2 == IF a \in UnixAddrs THEN [s1 EXCEPT !.path[a] = None] ELSE s1
  IN IF d = NoFd \/ Family(a) # s1.obj[o].family THEN [ok |-> FALSE, st |-> s1]
     ELSE IF a \in UnixAddrs /\ Probe(s1, a) THEN [ok |-> FALSE, st |-> Knock(s1, a)]
     ELSE IF s1.kern[d].local # AnyAddr \/ ~Bindable(s2, a) THEN [ok |-> FALSE, st |-> s2]
     ELSE [ok |-> TRUE, st |-> Bound(s2, o, a)]

Listen(st, o) ==
  LET d == Fd(st, o)
      ok == /\ IsValid(st, o) /\ st.kern[d].local # AnyAddr
            /\ st.kern[d].peer = None
  IN [ok |-> ok, st |-> IF ok THEN [st EXCEPT !.kern[d].listening = TRUE] ELSE st]

(* ::connect that reaches a listener, then the addresses of both ends. *)
Connected(st, o, a) ==
  LET d == Fd(st, o)
      k == Knock(st, a).kern
      s == [obj  |-> [st.obj EXCEPT ![o].connected = TRUE],
            kern |-> [k EXCEPT ![d].peer = a,
                               ![d].local = IF @ = AnyAddr THEN Ephemeral ELSE @],
            path |-> st.path]
  IN GetLocal(GetRemote(s, o), o)

(* connect: a failure closes the socket, another family does not.  The     *)
(* handshake of an SSLSocket may fail and leaves the socket connected.     *)
Connect(st, o, a, handshake) ==
  LET s1 == Ensure([st EXCEPT !.obj[o].remote = a], o)
      d == Fd(s1, o)
      k == IF d = NoFd THEN Closed ELSE s1.kern[d]
      reached == ~k.listening /\ k.peer = None /\ Accepts(s1, a)
      s2 == Connected(s1, o, a)
  IN IF d = NoFd \/ Family(a) # s1.obj[o].family THEN [ok |-> FALSE, st |-> s1]
     ELSE IF ~reached THEN [ok |-> FALSE, st |-> Close(s1, o)]
     ELSE IF s1.obj[o].kind = "ssl" THEN [ok |-> handshake, st |-> [s2 EXCEPT !.obj[o].ssl = d]]
     ELSE [ok |-> TRUE, st |-> s2]

Reconnect(st, o, handshake) ==
  IF st.obj[o].remote = None THEN [ok |-> FALSE, st |-> st]
  ELSE Connect([st EXCEPT !.obj[o].local = None], o, st.obj[o].remote, handshake)

(* accept(), with the fd number the caller read, and init(): the listener  *)
(* l makes the object n.  When the handshake fails, n is destroyed.        *)
Accept(st, l, n, fd, handshake) ==
  LET d == Min(Free(st))
      o == [NewObj(st.obj[l].kind, st.obj[l].family) EXCEPT
              !.fd = d, !.connected = TRUE,
              !.ssl = IF st.obj[l].kind = "ssl" THEN d ELSE NoFd]
      k == [open |-> TRUE, local |-> st.kern[fd].local, peer |-> Ephemeral,
            listening |-> FALSE, pending |-> 0]
      s1 == [obj  |-> [st.obj EXCEPT ![n] = o],
             kern |-> [st.kern EXCEPT ![fd].pending = @ - 1, ![d] = k],
             path |-> st.path]
      s2 == GetRemote(GetLocal(s1, n), n)
  IN IF o.kind = "ssl" /\ ~handshake THEN Destroy(s2, {n}) ELSE s2

(* send, recv and their variants: the fd the data goes to, if any.  Those  *)
(* of an SSLSocket ask m_ssl, which close() leaves.                        *)
SslTarget(x) == x.ssl
Target(x) ==
  IF x.kind = "ssl" THEN SslTarget(x) ELSE IF x.connected THEN x.fd ELSE NoFd
============================================================================

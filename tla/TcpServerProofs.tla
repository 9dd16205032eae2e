--------------------------- MODULE TcpServerProofs ---------------------------
(***************************************************************************)
(* Theorems about TcpServer and Socket, for any sockets, descriptors,      *)
(* addresses, accept loops and backlog.                                    *)
(***************************************************************************)
EXTENDS TcpServer, SequenceTheorems, FiniteSetTheorems, WellFoundedInduction, TLAPS

(* A state of the sockets as the operations of Socket see it.              *)
Live(st) == {o \in Objs : st.obj[o] # Gone}

Shaped(st) ==
  /\ st = [obj |-> st.obj, kern |-> st.kern, path |-> st.path]
  /\ st.obj \in [Objs -> SocketObj \cup {Gone}]
  /\ st.kern \in [Fds -> KernelFd]
  /\ st.path \in [UnixAddrs -> Fds \cup {None, Stale}]

(* An fd is open exactly when one socket has it.                           *)
Owned(st) ==
  /\ \A d \in Fds : st.kern[d].open => \E o \in Live(st) : st.obj[o].fd = d
  /\ \A o \in Live(st) : st.obj[o].fd # NoFd => st.kern[st.obj[o].fd].open
  /\ \A o, p \in Live(st) : st.obj[o].fd = st.obj[p].fd /\ st.obj[o].fd # NoFd => o = p

(* A listener is bound and not connected, the file of a unix address leads *)
(* to an fd bound to it, and only one unconnected fd is bound to another.  *)
Kernel(st) ==
  /\ \A d \in Fds : ~st.kern[d].open => st.kern[d] = Closed
  /\ \A d \in Fds : st.kern[d].listening => st.kern[d].local # AnyAddr /\ st.kern[d].peer = None
  /\ \A d \in Fds : st.kern[d].peer = None => st.kern[d].local # Ephemeral
  /\ \A u \in UnixAddrs : st.path[u] \in Fds =>
       st.kern[st.path[u]].open /\ st.kern[st.path[u]].local = u
  /\ \A d, e \in Fds :
       /\ st.kern[d].open /\ st.kern[e].open
       /\ st.kern[d].local = st.kern[e].local /\ st.kern[d].local \in Addrs \ UnixAddrs
       /\ st.kern[d].peer = None /\ st.kern[e].peer = None
       => d = e

(* What a socket object believes of its fd, x the object, k the kernel.    *)
Believes(x, k) ==
  /\ x.connected => x.fd # NoFd /\ k[x.fd].peer # None
  /\ x.local # None /\ x.fd # NoFd /\ ~x.reused =>
       x.local = k[x.fd].local /\ x.local # AnyAddr
  /\ x.fd = NoFd /\ ~x.reused => x.local = None

Good(st) ==
  /\ Shaped(st) /\ Owned(st) /\ Kernel(st)
  /\ \A o \in Live(st) : Believes(st.obj[o], st.kern)

----------------------------------------------------------------------------
(* The server around them: h the program's sockets, ss the server's, b the *)
(* call of bind(), lp the accept loops, c the clients in the queue.        *)

BindCall == [todo : Seq(Addrs), kind : {"none", "tcp", "ssl"}, sock : Objs \cup {None},
             failed : BOOLEAN]
LoopState == [pc : {"none", "test", "accept", "wait", "stray", "woken", "stuck"},
              sock : Objs \cup {None}, fd : Fds \cup {NoFd}]

InLive(st, h, ss, b, lp, c) ==
  /\ h \subseteq Live(st) /\ c \subseteq Live(st)
  /\ ss \in Seq(Objs) /\ ToSet(ss) \subseteq Live(st)
  /\ b \in BindCall /\ (b.sock # None => b.sock \in Live(st) /\ b.todo # <<>>)
  /\ b.todo # <<>> => b.kind # "none"
  /\ lp \in [Loops -> LoopState]
  /\ \A i \in Loops : lp[i] # NoLoop =>
       lp[i].pc # "none" /\ lp[i].sock \in Live(st) /\ (lp[i].pc \in {"wait", "stray"} => lp[i].fd \in Fds)

(* Nobody has a socket of somebody else's. *)
Apart(h, ss, b, lp, c) ==
  /\ \A o \in h \cup c : o \notin ToSet(ss) /\ o # b.sock /\ \A i \in Loops : o # lp[i].sock
  /\ h \cap c = {}
  /\ b.sock # None => b.sock \notin ToSet(ss) /\ \A i \in Loops : b.sock # lp[i].sock
  /\ \A j, k \in 1..Len(ss) : ss[j] = ss[k] => j = k

(* The server's sockets listen, its clients are connected. *)
Serves(st, ss, c) ==
  /\ \A o \in ToSet(ss) : st.obj[o].fd # NoFd /\ st.kern[st.obj[o].fd].listening
  /\ \A o \in c : st.obj[o].connected

(* A loop that waits and is not astray waits for its own socket, and a     *)
(* loop's socket is one that the task of stop() will close, or has: it     *)
(* has, when no task of stop() is left.                                    *)
Stoppable(st, ss, lp, stopped, tasks, lost) ==
  \A i \in Loops : lp[i] # NoLoop =>
    /\ lp[i].pc = "wait" => st.obj[lp[i].sock].fd = lp[i].fd
    /\ ~lost => /\ lp[i].sock \in ToSet(ss) \/ st.obj[lp[i].sock].fd = NoFd
                /\ stopped /\ tasks = 0 => st.obj[lp[i].sock].fd = NoFd

(* Loops do not share sockets, nor fds, be they stale; while the server    *)
(* runs they are not, and no task of stop() is left.                       *)
Separate(st, lp, stopped, tasks, early) ==
  ~early =>
    /\ \A i, j \in Loops : i # j /\ lp[i] # NoLoop => lp[i].sock # lp[j].sock
    /\ \A i, j \in Loops : lp[i].fd = lp[j].fd /\ lp[i].fd # NoFd => i = j
    /\ ~stopped => /\ tasks = 0
                   /\ \A i \in Loops : lp[i].fd # NoFd => lp[i].fd = st.obj[lp[i].sock].fd

Inv ==
  /\ Good(Now) /\ InLive(Now, held, socks, bind, loop, clients)
  /\ Apart(held, socks, bind, loop, clients) /\ Serves(Now, socks, clients)
  /\ Stoppable(Now, socks, loop, isStop, stops, orphaned)
  /\ Separate(Now, loop, isStop, stops, hasty)
  /\ stops \in Nat /\ isStop \in BOOLEAN /\ hasty \in BOOLEAN /\ orphaned \in BOOLEAN
  /\ ~hasty => ~aborted

----------------------------------------------------------------------------
(* Numbers and names. *)

LEMMA FdFacts == NoFd \notin Fds /\ None \notin Fds /\ Stale \notin Fds /\ None # Stale
                 /\ AnyAddr \notin Addrs /\ Ephemeral \notin Addrs /\ AnyAddr # None
                 /\ Ephemeral # None /\ AnyAddr # Ephemeral /\ None \notin Addrs
                 /\ None \notin Objs /\ Fds \subseteq Nat
BY SocketAssumption, DistinctAssumption DEF NoFd, AnyAddr, Ephemeral

(* socket() and accept() take the lowest fd that is free. *)
LEMMA LowestIsFree ==
  ASSUME NEW S \in SUBSET Nat, S # {}
  PROVE  Min(S) \in S
<1>1. IsWellFoundedOn(OpToRel(<, Nat), Nat)
  BY NatLessThanWellFounded
<1>2. \E x \in S : \A y \in S : ~(<<y, x>> \in OpToRel(<, Nat))
  BY <1>1, WFMin
<1>3. \E x \in S : \A y \in S : ~(y < x)
  BY <1>2 DEF OpToRel
<1>4. \E x \in S : \A y \in S : x <= y
  BY <1>3
<1> QED
  BY <1>4 DEF Min

LEMMA ClosedTyped == Closed \in KernelFd /\ ~Closed.open /\ ~Closed.listening /\ Closed.local = AnyAddr
                     /\ Closed.peer = None /\ Closed.pending = 0
<1>1. 0 \in 0..Backlog
  BY SocketAssumption
<1>2. FALSE \in BOOLEAN
  OBVIOUS
<1>3. \A b, c \in BOOLEAN : [open |-> b, local |-> AnyAddr, peer |-> None, listening |-> c,
                             pending |-> 0] \in KernelFd
  BY <1>1 DEF KernelFd
<1>4. Closed \in KernelFd
  BY <1>2, <1>3, Zenon DEF Closed
<1> QED
  BY <1>4 DEF Closed

----------------------------------------------------------------------------
(* One operation on one socket. *)

(* All that the kernel knows of an fd but how many wait in its backlog. *)
SameFd(k, l) == k.open = l.open /\ k.local = l.local /\ k.peer = l.peer /\ k.listening = l.listening

LEMMA GoodParts ==
  ASSUME NEW st, Good(st)
  PROVE  /\ st.obj \in [Objs -> SocketObj \cup {Gone}] /\ st.kern \in [Fds -> KernelFd]
         /\ st.path \in [UnixAddrs -> Fds \cup {None, Stale}]
         /\ st = [obj |-> st.obj, kern |-> st.kern, path |-> st.path]
         /\ \A o \in Live(st) : st.obj[o] \in SocketObj /\ o \in Objs /\ st.obj[o].fd \in Fds \cup {NoFd}
         /\ \A d \in Fds : st.kern[d].listening => st.kern[d].open
<1>1. Shaped(st)
  BY DEF Good
<1>2. \A o \in Live(st) : st.obj[o] \in SocketObj /\ o \in Objs
  BY <1>1 DEF Shaped, Live
<1>3. \A o \in Live(st) : st.obj[o].fd \in Fds \cup {NoFd}
  BY <1>2 DEF SocketObj
<1>4. \A d \in Fds : ~st.kern[d].open => ~st.kern[d].listening
  BY ClosedTyped DEF Good, Kernel
<1> QED
  BY <1>1, <1>2, <1>3, <1>4 DEF Shaped

(* What an operation on o does to the others: nothing, but that it may     *)
(* close its own fd.                                                       *)
Moves(st, s2, o) ==
  /\ Good(s2)
  /\ \A p \in Objs : p # o => s2.obj[p] = st.obj[p]
  /\ s2.obj[o] # Gone
  /\ \A d \in Fds : st.kern[d].listening /\ d # st.obj[o].fd => s2.kern[d].listening
  /\ \A d \in Fds : st.kern[d].open /\ d # st.obj[o].fd => s2.kern[d].open
  /\ \/ s2.obj[o].fd = st.obj[o].fd \/ s2.obj[o].fd = NoFd
     \/ s2.obj[o].fd \in Fds /\ ~st.kern[s2.obj[o].fd].open

LEMMA MovesNot ==
  ASSUME NEW st, Good(st), NEW o \in Live(st)
  PROVE  Moves(st, st, o)
BY DEF Moves, Live

LEMMA MovesOn ==
  ASSUME NEW st, NEW s1, NEW s2, NEW o \in Live(st), Good(st), Moves(st, s1, o), Moves(s1, s2, o)
  PROVE  Moves(st, s2, o)
<1>1. st.obj[o].fd \in Fds \cup {NoFd} /\ \A d \in Fds : st.kern[d].listening => st.kern[d].open
  BY GoodParts
<1>2. \A d \in Fds : st.kern[d].open /\ d # st.obj[o].fd => d # s1.obj[o].fd
  BY FdFacts DEF Moves
<1>3. \A d \in Fds : st.kern[d].listening /\ d # st.obj[o].fd => s2.kern[d].listening
  BY <1>1, <1>2 DEF Moves
<1>4. \A d \in Fds : st.kern[d].open /\ d # st.obj[o].fd => s2.kern[d].open
  BY <1>2 DEF Moves
<1>5. \/ s2.obj[o].fd = st.obj[o].fd \/ s2.obj[o].fd = NoFd
      \/ s2.obj[o].fd \in Fds /\ ~st.kern[s2.obj[o].fd].open
  BY DEF Moves
<1>6. Good(s2) /\ (\A p \in Objs : p # o => s2.obj[p] = st.obj[p]) /\ s2.obj[o] # Gone
  BY DEF Moves
<1> QED
  BY <1>3, <1>4, <1>5, <1>6 DEF Moves

(* The object o becomes x and the kernel k, which differs from what it was *)
(* at the fd of x only, but for what waits in backlogs.                    *)
LEMMA Touch ==
  ASSUME NEW st, Good(st), NEW o \in Live(st), NEW x \in SocketObj, NEW k \in [Fds -> KernelFd],
         NEW path2 \in [UnixAddrs -> Fds \cup {None, Stale}],
         x.fd # NoFd => k[x.fd].open,
         x.fd = st.obj[o].fd \/ (st.obj[o].fd = NoFd /\ x.fd \in Fds /\ ~st.kern[x.fd].open),
         \A e \in Fds : e # x.fd => SameFd(k[e], st.kern[e]),
         \A e \in Fds : e # x.fd /\ ~st.kern[e].open => k[e] = st.kern[e],
         x.fd # NoFd => (k[x.fd].listening => k[x.fd].local # AnyAddr /\ k[x.fd].peer = None),
         x.fd # NoFd => (st.kern[x.fd].listening => k[x.fd].listening),
         x.fd # NoFd => (k[x.fd].peer = None => k[x.fd].local # Ephemeral),
         x.fd # NoFd => \A e \in Fds :
           /\ k[x.fd].local \in Addrs \ UnixAddrs /\ k[x.fd].peer = None /\ e # x.fd
           /\ st.kern[e].open /\ st.kern[e].peer = None
           => st.kern[e].local # k[x.fd].local,
         \A u \in UnixAddrs : path2[u] \in Fds => k[path2[u]].open /\ k[path2[u]].local = u,
         Believes(x, k),
         NEW s2, s2 = [obj |-> [st.obj EXCEPT ![o] = x], kern |-> k, path |-> path2]
  PROVE  Moves(st, s2, o)
<1>0. /\ st.obj \in [Objs -> SocketObj \cup {Gone}] /\ st.kern \in [Fds -> KernelFd]
      /\ st.obj[o] \in SocketObj /\ o \in Objs /\ st.obj[o].fd \in Fds \cup {NoFd}
      /\ \A p \in Live(st) : st.obj[p] \in SocketObj /\ st.obj[p].fd \in Fds \cup {NoFd}
  BY GoodParts
<1>1. s2.obj = [st.obj EXCEPT ![o] = x] /\ s2.kern = k /\ s2.path = path2
  OBVIOUS
<1>2. \A p \in Objs : s2.obj[p] = IF p = o THEN x ELSE st.obj[p]
  BY <1>0, <1>1
<1>3. x # Gone /\ x.fd \in Fds \cup {NoFd}
  BY DistinctAssumption DEF SocketObj
<1>4. Live(s2) = Live(st)
  BY <1>2, <1>3 DEF Live
<1>5. Shaped(s2)
  <2>1. [st.obj EXCEPT ![o] = x] \in [Objs -> SocketObj \cup {Gone}]
    BY <1>0
  <2> QED
    BY <1>1, <2>1 DEF Shaped
<1>6. \A p \in Live(st) : p # o => st.obj[p].fd # x.fd \/ x.fd = NoFd
  <2> SUFFICES ASSUME NEW p \in Live(st), p # o, st.obj[p].fd = x.fd, x.fd # NoFd
               PROVE  FALSE
    OBVIOUS
  <2>1. st.kern[x.fd].open
    BY DEF Good, Owned
  <2>2. x.fd = st.obj[o].fd
    BY <2>1
  <2> QED
    BY <2>2 DEF Good, Owned
<1>7. Owned(s2)
  <2>1. ASSUME NEW d \in Fds, k[d].open
        PROVE  \E p \in Live(s2) : s2.obj[p].fd = d
    <3>1. CASE d = x.fd
      BY <1>2, <1>4, <3>1 DEF Live
    <3>2. CASE d # x.fd
      <4>1. st.kern[d].open
        BY <2>1, <3>2 DEF SameFd
      <4>2. PICK p \in Live(st) : st.obj[p].fd = d
        BY <4>1 DEF Good, Owned
      <4>3. p # o
        BY <3>2, <4>1, <4>2, FdFacts
      <4> QED
        BY <1>2, <1>4, <4>2, <4>3 DEF Live
    <3> QED
      BY <3>1, <3>2
  <2>2. ASSUME NEW p \in Live(st), s2.obj[p].fd # NoFd
        PROVE  k[s2.obj[p].fd].open
    <3>1. CASE p = o
      BY <1>0, <1>2, <2>2, <3>1
    <3>2. CASE p # o
      <4>1. s2.obj[p] = st.obj[p] /\ st.obj[p].fd \in Fds /\ st.obj[p].fd # x.fd
        BY <1>0, <1>2, <1>3, <1>6, <2>2, <3>2 DEF Live
      <4>2. st.kern[st.obj[p].fd].open
        BY <2>2, <4>1 DEF Good, Owned
      <4> QED
        BY <4>1, <4>2 DEF SameFd
    <3> QED
      BY <3>1, <3>2
  <2>3. ASSUME NEW p \in Live(st), NEW q \in Live(st), s2.obj[p].fd = s2.obj[q].fd,
               s2.obj[p].fd # NoFd
        PROVE  p = q
    <3>1. p \in Objs /\ q \in Objs
      BY DEF Live
    <3>2. CASE p = o \/ q = o
      BY <1>2, <1>6, <2>3, <3>1, <3>2
    <3>3. CASE p # o /\ q # o
      BY <1>2, <2>3, <3>1, <3>3 DEF Good, Owned
    <3> QED
      BY <3>2, <3>3
  <2> QED
    BY <1>1, <1>4, <2>1, <2>2, <2>3 DEF Owned
<1>8. Kernel(s2)
  <2>1. ASSUME NEW d \in Fds, ~k[d].open
        PROVE  k[d] = Closed
    <3>1. d # x.fd
      BY <2>1, FdFacts
    <3>2. ~st.kern[d].open
      BY <2>1, <3>1 DEF SameFd
    <3> QED
      BY <3>1, <3>2 DEF Good, Kernel
  <2>2. ASSUME NEW d \in Fds, k[d].listening
        PROVE  k[d].local # AnyAddr /\ k[d].peer = None
    <3>1. CASE d = x.fd
      BY <2>2, <3>1, FdFacts
    <3>2. CASE d # x.fd
      BY <2>2, <3>2 DEF SameFd, Good, Kernel
    <3> QED
      BY <3>1, <3>2
  <2>3. ASSUME NEW d \in Fds, NEW e \in Fds, k[d].open, k[e].open, k[d].local = k[e].local,
               k[d].local \in Addrs \ UnixAddrs, k[d].peer = None, k[e].peer = None
        PROVE  d = e
    <3>1. CASE d # x.fd /\ e # x.fd
      BY <2>3, <3>1 DEF SameFd, Good, Kernel
    <3>2. CASE d = x.fd /\ e # x.fd
      BY <2>3, <3>2, FdFacts DEF SameFd
    <3>3. CASE e = x.fd /\ d # x.fd
      BY <2>3, <3>3, FdFacts DEF SameFd
    <3> QED
      BY <3>1, <3>2, <3>3
  <2>4. \A d \in Fds : k[d].peer = None => k[d].local # Ephemeral
    BY FdFacts DEF SameFd, Good, Kernel
  <2> QED
    BY <1>1, <2>1, <2>2, <2>3, <2>4 DEF Kernel
<1>9. ASSUME NEW p \in Live(st)
      PROVE  Believes(s2.obj[p], k)
  <2>1. CASE p = o
    BY <1>0, <1>2, <2>1
  <2>2. CASE p # o
    <3>1. s2.obj[p] = st.obj[p] /\ p \in Objs
      BY <1>2, <2>2 DEF Live
    <3>2. Believes(st.obj[p], st.kern)
      BY DEF Good
    <3>3. CASE st.obj[p].fd = NoFd
      BY <3>1, <3>2, <3>3 DEF Believes
    <3>4. CASE st.obj[p].fd # NoFd
      <4>1. st.obj[p].fd \in Fds /\ st.obj[p].fd # x.fd
        BY <1>0, <1>6, <2>2, <3>4
      <4>2. k[st.obj[p].fd].local = st.kern[st.obj[p].fd].local
            /\ k[st.obj[p].fd].peer = st.kern[st.obj[p].fd].peer
        BY <4>1 DEF SameFd
      <4> QED
        BY <3>1, <3>2, <4>2 DEF Believes
    <3> QED
      BY <3>3, <3>4
  <2> QED
    BY <2>1, <2>2
<1>10. Good(s2)
  BY <1>1, <1>4, <1>5, <1>7, <1>8, <1>9 DEF Good
<1>11. \A d \in Fds : st.kern[d].listening /\ d # st.obj[o].fd => k[d].listening
  BY FdFacts DEF SameFd
<1>12. \A d \in Fds : st.kern[d].open /\ d # st.obj[o].fd => k[d].open
  BY FdFacts DEF SameFd
<1> QED
  BY <1>0, <1>1, <1>2, <1>3, <1>10, <1>11, <1>12 DEF Moves

(* The members of o change but not its fd, backlogs change, files go. *)
LEMMA Update ==
  ASSUME NEW st, Good(st), NEW o \in Live(st), NEW x \in SocketObj, x.fd = st.obj[o].fd,
         NEW k \in [Fds -> KernelFd], \A e \in Fds : SameFd(k[e], st.kern[e]),
         \A e \in Fds : ~st.kern[e].open => k[e] = st.kern[e],
         NEW path2 \in [UnixAddrs -> Fds \cup {None, Stale}],
         \A u \in UnixAddrs : path2[u] = st.path[u] \/ path2[u] = None,
         Believes(x, st.kern),
         NEW s2, s2 = [obj |-> [st.obj EXCEPT ![o] = x], kern |-> k, path |-> path2]
  PROVE  Moves(st, s2, o)
<1>0. st.obj[o] \in SocketObj /\ o \in Objs /\ st.obj[o].fd \in Fds \cup {NoFd}
  BY GoodParts
<1>1. x.fd # NoFd => x.fd \in Fds /\ st.kern[x.fd].open /\ k[x.fd].open
  BY <1>0 DEF Good, Owned, SameFd
<1>2. x.fd # NoFd => (k[x.fd].listening => k[x.fd].local # AnyAddr /\ k[x.fd].peer = None)
  BY <1>1 DEF Good, Kernel, SameFd
<1>3. x.fd # NoFd => (st.kern[x.fd].listening => k[x.fd].listening)
                     /\ (k[x.fd].peer = None => k[x.fd].local # Ephemeral)
  BY <1>1 DEF SameFd, Good, Kernel
<1>4. x.fd # NoFd => \A e \in Fds :
           /\ k[x.fd].local \in Addrs \ UnixAddrs /\ k[x.fd].peer = None /\ e # x.fd
           /\ st.kern[e].open /\ st.kern[e].peer = None
           => st.kern[e].local # k[x.fd].local
  BY <1>1 DEF Good, Kernel, SameFd
<1>5. \A u \in UnixAddrs : path2[u] \in Fds => k[path2[u]].open /\ k[path2[u]].local = u
  <2> SUFFICES ASSUME NEW u \in UnixAddrs, path2[u] \in Fds
               PROVE  k[path2[u]].open /\ k[path2[u]].local = u
    OBVIOUS
  <2>1. path2[u] = st.path[u]
    BY FdFacts
  <2>2. st.kern[st.path[u]].open /\ st.kern[st.path[u]].local = u
    BY <2>1 DEF Good, Kernel
  <2> QED
    BY <2>1, <2>2 DEF SameFd
<1>6. Believes(x, k)
  BY <1>1 DEF Believes, SameFd
<1> QED
  BY <1>1, <1>2, <1>3, <1>4, <1>5, <1>6, Touch

LEMMA SameFdItself == \A k : SameFd(k, k)
BY DEF SameFd

(* Only members change. *)
LEMMA Assign ==
  ASSUME NEW st, Good(st), NEW o \in Live(st), NEW x \in SocketObj, x.fd = st.obj[o].fd,
         Believes(x, st.kern),
         NEW s2, s2 = [obj |-> [st.obj EXCEPT ![o] = x], kern |-> st.kern, path |-> st.path]
  PROVE  Moves(st, s2, o)
<1>1. st.kern \in [Fds -> KernelFd] /\ st.path \in [UnixAddrs -> Fds \cup {None, Stale}]
  BY GoodParts
<1> QED
  BY <1>1, SameFdItself, Update

(* What an operation that leaves the kernel alone does. *)
Still(st, s2, o) ==
  /\ Moves(st, s2, o) /\ s2.kern = st.kern /\ s2.path = st.path
  /\ s2.obj[o].fd = st.obj[o].fd /\ s2.obj[o].kind = st.obj[o].kind
  /\ s2.obj[o].family = st.obj[o].family /\ s2.obj[o].connected = st.obj[o].connected

LEMMA SetRemote ==
  ASSUME NEW st, Good(st), NEW o \in Live(st), NEW a \in Addrs \cup {None, Ephemeral},
         NEW s2, s2 = [st EXCEPT !.obj[o].remote = a]
  PROVE  Still(st, s2, o) /\ s2.obj[o].remote = a
<1>0. st.obj \in [Objs -> SocketObj \cup {Gone}] /\ st = [obj |-> st.obj, kern |-> st.kern, path |-> st.path]
      /\ st.obj[o] \in SocketObj /\ o \in Objs
  BY GoodParts
<1>1. PICK x : x = [st.obj[o] EXCEPT !.remote = a]
  OBVIOUS
<1>2. x \in SocketObj /\ x.fd = st.obj[o].fd /\ x.kind = st.obj[o].kind /\ x.family = st.obj[o].family
      /\ x.connected = st.obj[o].connected /\ x.local = st.obj[o].local /\ x.reused = st.obj[o].reused
      /\ x.remote = a
  BY <1>0, <1>1 DEF SocketObj
<1>3. Believes(x, st.kern)
  BY <1>2 DEF Good, Believes
<1>4. s2 = [obj |-> [st.obj EXCEPT ![o] = x], kern |-> st.kern, path |-> st.path]
  BY <1>0, <1>1
<1>5. Moves(st, s2, o)
  BY <1>2, <1>3, <1>4, Assign
<1>6. s2.obj[o] = x
  BY <1>0, <1>4
<1> QED
  BY <1>2, <1>4, <1>5, <1>6 DEF Still

LEMMA SetSsl ==
  ASSUME NEW st, Good(st), NEW o \in Live(st), NEW a \in Fds \cup {NoFd},
         NEW s2, s2 = [st EXCEPT !.obj[o].ssl = a]
  PROVE  Still(st, s2, o)
<1>0. st.obj \in [Objs -> SocketObj \cup {Gone}] /\ st = [obj |-> st.obj, kern |-> st.kern, path |-> st.path]
      /\ st.obj[o] \in SocketObj /\ o \in Objs
  BY GoodParts
<1>1. PICK x : x = [st.obj[o] EXCEPT !.ssl = a]
  OBVIOUS
<1>2. x \in SocketObj /\ x.fd = st.obj[o].fd /\ x.kind = st.obj[o].kind /\ x.family = st.obj[o].family
      /\ x.connected = st.obj[o].connected /\ x.local = st.obj[o].local /\ x.reused = st.obj[o].reused
  BY <1>0, <1>1 DEF SocketObj
<1>3. Believes(x, st.kern)
  BY <1>2 DEF Good, Believes
<1>4. s2 = [obj |-> [st.obj EXCEPT ![o] = x], kern |-> st.kern, path |-> st.path]
  BY <1>0, <1>1
<1>5. Moves(st, s2, o)
  BY <1>2, <1>3, <1>4, Assign
<1>6. s2.obj[o] = x
  BY <1>0, <1>4
<1> QED
  BY <1>2, <1>4, <1>5, <1>6 DEF Still

(* The local address is forgotten, or becomes the one that the kernel has. *)
LEMMA SetLocal ==
  ASSUME NEW st, Good(st), NEW o \in Live(st), NEW a,
         a = None \/ (st.obj[o].fd # NoFd /\ a = st.kern[st.obj[o].fd].local /\ a # AnyAddr),
         NEW s2, s2 = [st EXCEPT !.obj[o].local = a]
  PROVE  Still(st, s2, o) /\ s2.obj[o].remote = st.obj[o].remote
<1>0. st.obj \in [Objs -> SocketObj \cup {Gone}] /\ st = [obj |-> st.obj, kern |-> st.kern, path |-> st.path]
      /\ st.obj[o] \in SocketObj /\ o \in Objs /\ st.kern \in [Fds -> KernelFd]
      /\ st.obj[o].fd \in Fds \cup {NoFd}
  BY GoodParts
<1>1. a \in Addrs \cup {None, AnyAddr, Ephemeral}
  BY <1>0 DEF KernelFd
<1>2. PICK x : x = [st.obj[o] EXCEPT !.local = a]
  OBVIOUS
<1>3. x \in SocketObj /\ x.fd = st.obj[o].fd /\ x.kind = st.obj[o].kind /\ x.family = st.obj[o].family
      /\ x.connected = st.obj[o].connected /\ x.local = a /\ x.reused = st.obj[o].reused
      /\ x.remote = st.obj[o].remote
  BY <1>0, <1>1, <1>2 DEF SocketObj
<1>4. Believes(x, st.kern)
  BY <1>3 DEF Good, Believes
<1>5. s2 = [obj |-> [st.obj EXCEPT ![o] = x], kern |-> st.kern, path |-> st.path]
  BY <1>0, <1>2
<1>6. Moves(st, s2, o)
  BY <1>3, <1>4, <1>5, Assign
<1>7. s2.obj[o] = x
  BY <1>0, <1>5
<1> QED
  BY <1>3, <1>5, <1>6, <1>7 DEF Still

LEMMA StillNot ==
  ASSUME NEW st, Good(st), NEW o \in Live(st)
  PROVE  Still(st, st, o)
BY MovesNot DEF Still

LEMMA GetLocalMoves ==
  ASSUME NEW st, Good(st), NEW o \in Live(st),
         st.obj[o].fd # NoFd => st.kern[st.obj[o].fd].local # AnyAddr
  PROVE  Still(st, GetLocal(st, o), o)
<1>1. CASE st.obj[o].local # None \/ ~IsValid(st, o)
  BY <1>1, StillNot DEF GetLocal
<1>2. CASE st.obj[o].local = None /\ IsValid(st, o)
  <2>1. GetLocal(st, o) = [st EXCEPT !.obj[o].local = st.kern[st.obj[o].fd].local]
    BY <1>2 DEF GetLocal, Fd
  <2> QED
    BY <1>2, <2>1, SetLocal DEF IsValid, Fd
<1> QED
  BY <1>1, <1>2

LEMMA GetRemoteMoves ==
  ASSUME NEW st, Good(st), NEW o \in Live(st)
  PROVE  Still(st, GetRemote(st, o), o)
<1>0. st.kern \in [Fds -> KernelFd] /\ st.obj[o].fd \in Fds \cup {NoFd}
  BY GoodParts
<1>1. CASE st.obj[o].remote # None \/ ~IsValid(st, o)
  BY <1>1, StillNot DEF GetRemote
<1>2. CASE st.obj[o].remote = None /\ IsValid(st, o)
  <2>1. GetRemote(st, o) = [st EXCEPT !.obj[o].remote = st.kern[st.obj[o].fd].peer]
    BY <1>2 DEF GetRemote, Fd
  <2>2. st.kern[st.obj[o].fd].peer \in Addrs \cup {None, Ephemeral}
    BY <1>0, <1>2 DEF KernelFd, IsValid, Fd
  <2> QED
    BY <2>1, <2>2, SetRemote
<1> QED
  BY <1>1, <1>2

(* init of an fd: a new one is open and no more. *)
LEMMA EnsureMoves ==
  ASSUME NEW st, Good(st), NEW o \in Live(st), NEW s1, s1 = Ensure(st, o)
  PROVE  /\ Moves(st, s1, o) /\ s1.path = st.path /\ s1.obj[o].family = st.obj[o].family
         /\ s1.obj[o].kind = st.obj[o].kind /\ s1.obj[o].remote = st.obj[o].remote
         /\ \A e \in Fds : st.kern[e].open => s1.kern[e] = st.kern[e]
         /\ \A e \in Fds : ~st.kern[e].open /\ e # s1.obj[o].fd => ~s1.kern[e].open
<1>0. /\ st.obj \in [Objs -> SocketObj \cup {Gone}] /\ st.kern \in [Fds -> KernelFd]
      /\ st.path \in [UnixAddrs -> Fds \cup {None, Stale}]
      /\ st.obj[o] \in SocketObj /\ o \in Objs /\ st.obj[o].fd \in Fds \cup {NoFd}
  BY GoodParts
<1>1. CASE s1 = st
  BY <1>1, MovesNot
<1>2. CASE s1 # st
  <2>1. PICK d : d = Min(Free(st))
    OBVIOUS
  <2>2. st.obj[o].fd = NoFd /\ Free(st) # {}
        /\ s1 = [obj |-> [st.obj EXCEPT ![o].fd = d], kern |-> [st.kern EXCEPT ![d].open = TRUE],
                 path |-> st.path]
    BY <1>2, <2>1 DEF Ensure, NewSock, IsValid, Fd
  <2>3. d \in Fds /\ ~st.kern[d].open
    <3>1. Free(st) \subseteq Nat
      BY FdFacts DEF Free
    <3>2. d \in Free(st)
      BY <2>1, <2>2, <3>1, LowestIsFree
    <3> QED
      BY <3>2 DEF Free
  <2>4. st.kern[d] = Closed
    BY <2>3 DEF Good, Kernel
  <2>5. PICK x : x = [st.obj[o] EXCEPT !.fd = d]
    OBVIOUS
  <2>6. x \in SocketObj /\ x.fd = d /\ x.kind = st.obj[o].kind /\ x.family = st.obj[o].family
        /\ x.connected = st.obj[o].connected /\ x.local = st.obj[o].local
        /\ x.reused = st.obj[o].reused /\ x.remote = st.obj[o].remote
    BY <1>0, <2>3, <2>5 DEF SocketObj
  <2>7. PICK k : k = [st.kern EXCEPT ![d].open = TRUE]
    OBVIOUS
  <2>8. k \in [Fds -> KernelFd] /\ k[d].open /\ k[d].local = AnyAddr /\ k[d].peer = None
        /\ ~k[d].listening
    <3>1. TRUE \in BOOLEAN
      OBVIOUS
    <3>2. \A b \in BOOLEAN : [st.kern EXCEPT ![d].open = b] \in [Fds -> KernelFd]
      BY <1>0, <2>3 DEF KernelFd
    <3>3. k \in [Fds -> KernelFd]
      BY <2>7, <3>1, <3>2, Zenon
    <3>4. k[d] = [Closed EXCEPT !.open = TRUE]
      BY <1>0, <2>3, <2>4, <2>7
    <3> QED
      BY <3>3, <3>4 DEF Closed
  <2>9. \A e \in Fds : e # d => k[e] = st.kern[e]
    BY <1>0, <2>7
  <2>10. s1 = [obj |-> [st.obj EXCEPT ![o] = x], kern |-> k, path |-> st.path]
    BY <1>0, <2>2, <2>5, <2>7
  <2>11. Believes(x, k)
    <3>1. Believes(st.obj[o], st.kern)
      BY DEF Good
    <3>2. ~st.obj[o].connected /\ (st.obj[o].reused \/ st.obj[o].local = None)
      BY <2>2, <3>1 DEF Believes
    <3> QED
      BY <2>3, <2>6, <3>2, FdFacts DEF Believes
  <2>12. \A u \in UnixAddrs : st.path[u] \in Fds => k[st.path[u]].open /\ k[st.path[u]].local = u
    BY <2>3, <2>9 DEF Good, Kernel
  <2>13. \A e \in Fds : e # x.fd => SameFd(k[e], st.kern[e]) /\ k[e] = st.kern[e]
    BY <2>6, <2>9, SameFdItself
  <2>14. k[x.fd].local \notin Addrs
    BY <2>6, <2>8, FdFacts
  <2>15. Moves(st, s1, o)
    <3>1. /\ x.fd # NoFd => k[x.fd].open
          /\ st.obj[o].fd = NoFd /\ x.fd \in Fds /\ ~st.kern[x.fd].open
          /\ x.fd # NoFd => (k[x.fd].listening => k[x.fd].local # AnyAddr /\ k[x.fd].peer = None)
          /\ x.fd # NoFd => (st.kern[x.fd].listening => k[x.fd].listening)
          /\ x.fd # NoFd => (k[x.fd].peer = None => k[x.fd].local # Ephemeral)
      BY <2>2, <2>3, <2>4, <2>6, <2>8, ClosedTyped, FdFacts
    <3>2. x.fd # NoFd => \A e \in Fds :
           /\ k[x.fd].local \in Addrs \ UnixAddrs /\ k[x.fd].peer = None /\ e # x.fd
           /\ st.kern[e].open /\ st.kern[e].peer = None
           => st.kern[e].local # k[x.fd].local
      BY <2>14
    <3> QED
      BY <1>0, <2>6, <2>8, <2>10, <2>11, <2>12, <2>13, <3>1, <3>2, Touch
  <2>16. s1.obj[o] = x /\ s1.kern = k /\ s1.path = st.path
    BY <1>0, <2>10
  <2> QED
    BY <2>3, <2>6, <2>9, <2>15, <2>16
<1> QED
  BY <1>1, <1>2

(* A connection is added to the backlog of the one listener of an address. *)
LEMMA KnockKernel ==
  ASSUME NEW st, Good(st), NEW a \in Addrs, Accepts(st, a), NEW k, k = Knock(st, a).kern
  PROVE  /\ k \in [Fds -> KernelFd] /\ Knock(st, a) = [obj |-> st.obj, kern |-> k, path |-> st.path]
         /\ \A e \in Fds : SameFd(k[e], st.kern[e])
         /\ \A e \in Fds : ~st.kern[e].listening => k[e] = st.kern[e]
<1>0. st.kern \in [Fds -> KernelFd] /\ st = [obj |-> st.obj, kern |-> st.kern, path |-> st.path]
      /\ \A d \in Fds : st.kern[d].listening => st.kern[d].open
  BY GoodParts
<1>1. k = [d \in Fds |-> IF d \in Listeners(st, a) THEN [st.kern[d] EXCEPT !.pending = @ + 1]
                        ELSE st.kern[d]]
      /\ Knock(st, a) = [obj |-> st.obj, kern |-> k, path |-> st.path]
  BY <1>0 DEF Knock
<1>2. PICK m \in Listeners(st, a) : st.kern[m].pending < Backlog
  BY DEF Accepts
<1>3. ASSUME NEW d \in Listeners(st, a)
      PROVE  d = m
  <2>1. d \in Fds /\ m \in Fds /\ st.kern[d].listening /\ st.kern[m].listening /\ st.kern[d].local = a
        /\ st.kern[m].local = a
    BY <1>2 DEF Listeners
  <2>2. CASE a \in UnixAddrs
    BY <1>2, <2>2 DEF Listeners
  <2>3. CASE a \notin UnixAddrs
    BY <1>0, <2>1, <2>3 DEF Good, Kernel
  <2> QED
    BY <2>2, <2>3
<1>4. ASSUME NEW d \in Fds
      PROVE  k[d] \in KernelFd /\ SameFd(k[d], st.kern[d]) /\ (~st.kern[d].listening => k[d] = st.kern[d])
  <2>0. st.kern[d] \in KernelFd
    BY <1>0
  <2>1. CASE d \in Listeners(st, a)
    <3>1. st.kern[d].pending < Backlog /\ st.kern[d].listening
      BY <1>2, <1>3, <2>1 DEF Listeners
    <3>2. k[d] = [st.kern[d] EXCEPT !.pending = @ + 1]
      BY <1>1, <2>1
    <3>3. st.kern[d].pending + 1 \in 0..Backlog
      BY <2>0, <3>1, SocketAssumption DEF KernelFd
    <3> QED
      BY <2>0, <3>1, <3>2, <3>3 DEF KernelFd, SameFd
  <2>2. CASE d \notin Listeners(st, a)
    BY <1>1, <2>0, <2>2 DEF SameFd
  <2> QED
    BY <2>1, <2>2
<1> QED
  BY <1>1, <1>4

LEMMA KnockMoves ==
  ASSUME NEW st, Good(st), NEW o \in Live(st), NEW a \in Addrs, Accepts(st, a)
  PROVE  Moves(st, Knock(st, a), o) /\ Knock(st, a).path = st.path
<1>0. /\ st.obj \in [Objs -> SocketObj \cup {Gone}]
      /\ st.path \in [UnixAddrs -> Fds \cup {None, Stale}]
      /\ st.obj[o] \in SocketObj /\ o \in Objs
      /\ \A d \in Fds : st.kern[d].listening => st.kern[d].open
  BY GoodParts
<1>1. PICK k : k = Knock(st, a).kern
  OBVIOUS
<1>2. /\ k \in [Fds -> KernelFd] /\ Knock(st, a) = [obj |-> st.obj, kern |-> k, path |-> st.path]
      /\ \A e \in Fds : SameFd(k[e], st.kern[e])
      /\ \A e \in Fds : ~st.kern[e].listening => k[e] = st.kern[e]
  BY <1>1, KnockKernel
<1>3. st.obj = [st.obj EXCEPT ![o] = st.obj[o]]
  BY <1>0
<1>4. Believes(st.obj[o], st.kern)
  BY DEF Good
<1>5. Knock(st, a) = [obj |-> [st.obj EXCEPT ![o] = st.obj[o]], kern |-> k, path |-> st.path]
  BY <1>2, <1>3
<1> QED
  BY <1>0, <1>2, <1>4, <1>5, Update

LEMMA ListenMoves ==
  ASSUME NEW st, Good(st), NEW o \in Live(st), NEW s2, s2 = Listen(st, o).st
  PROVE  /\ Moves(st, s2, o) /\ s2.path = st.path /\ s2.obj = st.obj
         /\ Listen(st, o).ok => s2.obj[o].fd # NoFd /\ s2.kern[s2.obj[o].fd].listening
<1>0. /\ st.obj \in [Objs -> SocketObj \cup {Gone}] /\ st.kern \in [Fds -> KernelFd]
      /\ st.path \in [UnixAddrs -> Fds \cup {None, Stale}]
      /\ st = [obj |-> st.obj, kern |-> st.kern, path |-> st.path]
      /\ st.obj[o] \in SocketObj /\ o \in Objs /\ st.obj[o].fd \in Fds \cup {NoFd}
  BY GoodParts
<1>1. CASE ~Listen(st, o).ok
  BY <1>1, MovesNot DEF Listen
<1>2. CASE Listen(st, o).ok
  <2>1. PICK d : d = st.obj[o].fd
    OBVIOUS
  <2>2. d \in Fds /\ st.kern[d].local # AnyAddr /\ st.kern[d].peer = None
        /\ s2 = [st EXCEPT !.kern[d].listening = TRUE]
    BY <1>0, <1>2, <2>1 DEF Listen, IsValid, Fd
  <2>3. PICK k : k = [st.kern EXCEPT ![d].listening = TRUE]
    OBVIOUS
  <2>4. k \in [Fds -> KernelFd]
    <3>1. TRUE \in BOOLEAN
      OBVIOUS
    <3>2. \A b \in BOOLEAN : [st.kern EXCEPT ![d].listening = b] \in [Fds -> KernelFd]
      BY <1>0, <2>2 DEF KernelFd
    <3> QED
      BY <2>3, <3>1, <3>2, Zenon
  <2>5. \A e \in Fds : e # d => k[e] = st.kern[e]
    BY <1>0, <2>3
  <2>6. k[d].open = st.kern[d].open /\ k[d].local = st.kern[d].local /\ k[d].peer = st.kern[d].peer
        /\ k[d].listening
    <3>1. k[d] = [st.kern[d] EXCEPT !.listening = TRUE] /\ st.kern[d] \in KernelFd
      BY <1>0, <2>2, <2>3
    <3> QED
      BY <3>1 DEF KernelFd
  <2>7. st.kern[d].open
    BY <2>1, <2>2, FdFacts DEF Good, Owned
  <2>8. st.obj = [st.obj EXCEPT ![o] = st.obj[o]]
    BY <1>0
  <2>9. s2 = [obj |-> [st.obj EXCEPT ![o] = st.obj[o]], kern |-> k, path |-> st.path]
    BY <1>0, <2>2, <2>3, <2>8
  <2>10. Believes(st.obj[o], k)
    BY <1>0, <2>1, <2>6 DEF Good, Believes
  <2>11. \A u \in UnixAddrs : st.path[u] \in Fds => k[st.path[u]].open /\ k[st.path[u]].local = u
    BY <2>5, <2>6 DEF Good, Kernel
  <2>12. \A e \in Fds : e # d => SameFd(k[e], st.kern[e])
    BY <2>5, SameFdItself
  <2>13. \A e \in Fds : /\ k[d].local \in Addrs \ UnixAddrs /\ k[d].peer = None /\ e # d
                        /\ st.kern[e].open /\ st.kern[e].peer = None
                        => st.kern[e].local # k[d].local
    BY <2>2, <2>6, <2>7 DEF Good, Kernel
  <2>14. Moves(st, s2, o)
    <3>1. PICK x \in SocketObj : x = st.obj[o]
      BY <1>0
    <3>2. x.fd = d
      BY <2>1, <3>1
    <3>3. /\ x.fd # NoFd => k[x.fd].open
          /\ x.fd = st.obj[o].fd
          /\ \A e \in Fds : e # x.fd => SameFd(k[e], st.kern[e])
          /\ \A e \in Fds : e # x.fd /\ ~st.kern[e].open => k[e] = st.kern[e]
          /\ x.fd # NoFd => (k[x.fd].listening => k[x.fd].local # AnyAddr /\ k[x.fd].peer = None)
          /\ x.fd # NoFd => (st.kern[x.fd].listening => k[x.fd].listening)
          /\ Believes(x, k)
      BY <2>1, <2>2, <2>5, <2>6, <2>7, <2>10, <2>12, <3>1, <3>2
    <3>4. x.fd # NoFd => \A e \in Fds :
           /\ k[x.fd].local \in Addrs \ UnixAddrs /\ k[x.fd].peer = None /\ e # x.fd
           /\ st.kern[e].open /\ st.kern[e].peer = None
           => st.kern[e].local # k[x.fd].local
      BY <2>13, <3>2
    <3>5. s2 = [obj |-> [st.obj EXCEPT ![o] = x], kern |-> k, path |-> st.path]
      BY <2>9, <3>1
    <3>6. x.fd # NoFd => (k[x.fd].peer = None => k[x.fd].local # Ephemeral)
      BY <2>2, <2>6, <3>2 DEF Good, Kernel
    <3> QED
      BY <1>0, <2>4, <2>11, <3>3, <3>4, <3>5, <3>6, Touch
  <2>15. s2.obj = st.obj /\ s2.kern = k /\ s2.path = st.path
    BY <2>8, <2>9
  <2> QED
    BY <2>1, <2>2, <2>6, <2>14, <2>15, FdFacts
<1> QED
  BY <1>1, <1>2

LEMMA StillMoves ==
  ASSUME NEW st, NEW s1, NEW s2, NEW o \in Live(st), Good(st), Moves(st, s1, o), Still(s1, s2, o)
  PROVE  Moves(st, s2, o) /\ s2.kern = s1.kern /\ s2.path = s1.path /\ s2.obj[o].fd = s1.obj[o].fd
         /\ s2.obj[o].kind = s1.obj[o].kind
BY MovesOn DEF Still

LEMMA MovesLive ==
  ASSUME NEW st, NEW s2, NEW o \in Live(st), Moves(st, s2, o)
  PROVE  o \in Live(s2) /\ Good(s2) /\ Live(s2) = Live(st)
BY DEF Moves, Live

(* ::bind of a socket that is not bound to an address that is free. *)
LEMMA BoundMoves ==
  ASSUME NEW st, Good(st), NEW o \in Live(st), st.obj[o].fd # NoFd, NEW a \in Addrs,
         st.kern[st.obj[o].fd].local = AnyAddr, Bindable(st, a)
  PROVE  /\ Moves(st, Bound(st, o, a), o)
         /\ \A u \in UnixAddrs : u # a => Bound(st, o, a).path[u] = st.path[u]
<1>0. /\ st.obj \in [Objs -> SocketObj \cup {Gone}] /\ st.kern \in [Fds -> KernelFd]
      /\ st.path \in [UnixAddrs -> Fds \cup {None, Stale}]
      /\ st.obj[o] \in SocketObj /\ o \in Objs /\ st.obj[o].fd \in Fds \cup {NoFd}
  BY GoodParts
<1>1. PICK d \in Fds : d = st.obj[o].fd
  BY <1>0
<1>2. PICK k : k = [st.kern EXCEPT ![d].local = a]
  OBVIOUS
<1>3. k \in [Fds -> KernelFd] /\ k[d].local = a /\ k[d].open = st.kern[d].open
      /\ k[d].peer = st.kern[d].peer /\ k[d].listening = st.kern[d].listening
  BY <1>0, <1>2 DEF KernelFd
<1>4. \A e \in Fds : e # d => k[e] = st.kern[e]
  BY <1>0, <1>2
<1>5. st.kern[d].open /\ ~st.kern[d].listening
  BY <1>1, FdFacts DEF Good, Owned, Kernel
<1>6. PICK path2 : path2 = [u \in UnixAddrs |-> IF u = a THEN d ELSE st.path[u]]
  OBVIOUS
<1>7. path2 \in [UnixAddrs -> Fds \cup {None, Stale}]
  BY <1>0, <1>6
<1>8. PICK s : s = [obj |-> st.obj, kern |-> k, path |-> path2]
  OBVIOUS
<1>9. Bound(st, o, a) = GetLocal(s, o)
  BY <1>1, <1>2, <1>6, <1>8 DEF Bound, Fd
<1>10. s = [obj |-> [st.obj EXCEPT ![o] = st.obj[o]], kern |-> k, path |-> path2]
  BY <1>0, <1>8
<1>11. \A u \in UnixAddrs : path2[u] \in Fds => k[path2[u]].open /\ k[path2[u]].local = u
  <2> SUFFICES ASSUME NEW u \in UnixAddrs, path2[u] \in Fds
               PROVE  k[path2[u]].open /\ k[path2[u]].local = u
    OBVIOUS
  <2>1. CASE u = a
    BY <1>3, <1>5, <1>6, <2>1
  <2>2. CASE u # a
    <3>1. path2[u] = st.path[u]
      BY <1>6, <2>2
    <3>2. st.kern[st.path[u]].open /\ st.kern[st.path[u]].local = u
      BY <3>1 DEF Good, Kernel
    <3>3. u # AnyAddr
      BY FdFacts, SocketAssumption
    <3>4. st.path[u] # d
      BY <1>1, <3>2, <3>3
    <3> QED
      BY <1>4, <3>1, <3>2, <3>4
  <2> QED
    BY <2>1, <2>2
<1>12. Believes(st.obj[o], k)
  <2>1. Believes(st.obj[o], st.kern)
    BY DEF Good
  <2>2. st.obj[o].local = None \/ st.obj[o].reused
    BY <2>1 DEF Believes
  <2> QED
    BY <1>1, <1>3, <2>1, <2>2 DEF Believes
<1>13. Moves(st, s, o)
  <2>1. PICK x \in SocketObj : x = st.obj[o]
    BY <1>0
  <2>2. x.fd = d
    BY <1>1, <2>1
  <2>3. \A e \in Fds : e # x.fd => SameFd(k[e], st.kern[e]) /\ k[e] = st.kern[e]
    BY <1>4, <2>2, SameFdItself
  <2>4. x.fd # NoFd => \A e \in Fds :
           /\ k[x.fd].local \in Addrs \ UnixAddrs /\ k[x.fd].peer = None /\ e # x.fd
           /\ st.kern[e].open /\ st.kern[e].peer = None
           => st.kern[e].local # k[x.fd].local
    BY <1>3, <2>2 DEF Bindable
  <2>5. /\ x.fd # NoFd => k[x.fd].open
        /\ x.fd = st.obj[o].fd
        /\ x.fd # NoFd => (k[x.fd].listening => k[x.fd].local # AnyAddr /\ k[x.fd].peer = None)
        /\ x.fd # NoFd => (st.kern[x.fd].listening => k[x.fd].listening)
        /\ x.fd # NoFd => (k[x.fd].peer = None => k[x.fd].local # Ephemeral)
        /\ Believes(x, k)
    BY <1>1, <1>3, <1>5, <1>12, <2>1, <2>2, FdFacts
  <2>6. s = [obj |-> [st.obj EXCEPT ![o] = x], kern |-> k, path |-> path2]
    BY <1>10, <2>1
  <2> QED
    BY <1>3, <1>7, <1>11, <2>3, <2>4, <2>5, <2>6, Touch
<1>14. o \in Live(s) /\ Good(s)
  BY <1>13, MovesLive
<1>15. s.obj[o].fd = d /\ s.kern[d].local = a /\ a # AnyAddr
  BY <1>1, <1>3, <1>8, FdFacts
<1>16. Still(s, GetLocal(s, o), o)
  BY <1>14, <1>15, GetLocalMoves
<1>17. Moves(st, GetLocal(s, o), o) /\ GetLocal(s, o).path = path2
  BY <1>8, <1>13, <1>16, StillMoves
<1> QED
  BY <1>6, <1>9, <1>17

(* A path that leads to a listener who can answer stays, or the listener   *)
(* goes.                                                                   *)
Respects(st, s2) ==
  \A a \in UnixAddrs, d \in Fds :
    /\ st.path[a] = d /\ st.kern[d].listening /\ s2.kern[d].listening
    /\ st.kern[d].pending < Backlog /\ \E e, f \in Fds : e # f /\ ~st.kern[e].open /\ ~st.kern[f].open
    => s2.path[a] = d

LEMMA BindMoves ==
  ASSUME NEW st, Good(st), NEW o \in Live(st), NEW a \in Addrs
  PROVE  Moves(st, Bind(st, o, a).st, o) /\ Respects(st, Bind(st, o, a).st)
<1>1. PICK s1 : s1 = Ensure(st, o)
  OBVIOUS
<1>2. /\ Moves(st, s1, o) /\ s1.path = st.path
      /\ \A e \in Fds : st.kern[e].open => s1.kern[e] = st.kern[e]
      /\ \A e \in Fds : ~st.kern[e].open /\ e # s1.obj[o].fd => ~s1.kern[e].open
  BY <1>1, EnsureMoves
<1>3. o \in Live(s1) /\ Good(s1)
  BY <1>2, MovesLive
<1>4. PICK d : d = Fd(s1, o)
  OBVIOUS
<1>5. PICK s2 : s2 = IF a \in UnixAddrs THEN [s1 EXCEPT !.path[a] = None] ELSE s1
  OBVIOUS
<1>6. /\ d = NoFd \/ Family(a) # s1.obj[o].family => Bind(st, o, a).st = s1
      /\ ~(d = NoFd \/ Family(a) # s1.obj[o].family) =>
           /\ a \in UnixAddrs /\ Probe(s1, a) => Bind(st, o, a).st = Knock(s1, a)
           /\ ~(a \in UnixAddrs /\ Probe(s1, a)) =>
                /\ s1.kern[d].local # AnyAddr \/ ~Bindable(s2, a) => Bind(st, o, a).st = s2
                /\ ~(s1.kern[d].local # AnyAddr \/ ~Bindable(s2, a)) =>
                     Bind(st, o, a).st = Bound(s2, o, a)
  BY <1>1, <1>4, <1>5 DEF Bind
<1>7. CASE d = NoFd \/ Family(a) # s1.obj[o].family
  BY <1>2, <1>6, <1>7 DEF Respects
<1>8. CASE ~(d = NoFd \/ Family(a) # s1.obj[o].family) /\ a \in UnixAddrs /\ Probe(s1, a)
  <2>1. Moves(s1, Knock(s1, a), o) /\ Knock(s1, a).path = s1.path
    BY <1>3, <1>8, KnockMoves DEF Probe
  <2>2. Moves(st, Knock(s1, a), o)
    BY <1>2, <2>1, MovesOn
  <2> QED
    BY <1>2, <1>6, <1>8, <2>1, <2>2 DEF Respects
<1>9. CASE ~(d = NoFd \/ Family(a) # s1.obj[o].family) /\ ~(a \in UnixAddrs /\ Probe(s1, a))
  <2>0. /\ s1.obj \in [Objs -> SocketObj \cup {Gone}] /\ s1.kern \in [Fds -> KernelFd]
        /\ s1.path \in [UnixAddrs -> Fds \cup {None, Stale}]
        /\ s1 = [obj |-> s1.obj, kern |-> s1.kern, path |-> s1.path]
        /\ s1.obj[o] \in SocketObj /\ o \in Objs
    BY <1>3, GoodParts
  <2>1. s2.obj = s1.obj /\ s2.kern = s1.kern
    BY <1>5, <2>0
  <2>2. s2.path \in [UnixAddrs -> Fds \cup {None, Stale}]
        /\ \A u \in UnixAddrs : IF u = a THEN s2.path[u] = None ELSE s2.path[u] = s1.path[u]
    BY <1>5, <2>0
  <2>3. s2 = [obj |-> [s1.obj EXCEPT ![o] = s1.obj[o]], kern |-> s1.kern, path |-> s2.path]
    BY <1>5, <2>0
  <2>4. Believes(s1.obj[o], s1.kern)
    BY <1>3 DEF Good
  <2>5. Moves(s1, s2, o)
    BY <1>3, <2>0, <2>2, <2>3, <2>4, SameFdItself, Update
  <2>6. Moves(st, s2, o) /\ o \in Live(s2) /\ Good(s2)
    BY <1>2, <1>3, <2>5, MovesOn, MovesLive
  <2>7. ASSUME NEW e \in Fds, a \in UnixAddrs, st.path[a] = e, st.kern[e].listening,
               st.kern[e].pending < Backlog,
               \E f, g \in Fds : f # g /\ ~st.kern[f].open /\ ~st.kern[g].open
        PROVE  FALSE
    <3>1. s1.kern[e] = st.kern[e] /\ st.kern[e].local = a
      BY <1>2, <2>7, GoodParts DEF Good, Kernel
    <3>2. e \in Listeners(s1, a)
      BY <1>2, <2>7, <3>1 DEF Listeners
    <3>3. Free(s1) # {}
      BY <1>2, <2>7 DEF Free
    <3> QED
      BY <1>9, <2>7, <3>1, <3>2, <3>3 DEF Probe, Accepts
  <2>8. CASE s1.kern[d].local # AnyAddr \/ ~Bindable(s2, a)
    <3>1. Bind(st, o, a).st = s2
      BY <1>6, <1>9, <2>8
    <3>2. Respects(st, s2)
      BY <1>2, <2>2, <2>7 DEF Respects
    <3> QED
      BY <2>6, <3>1, <3>2
  <2>9. CASE ~(s1.kern[d].local # AnyAddr \/ ~Bindable(s2, a))
    <3>1. Bind(st, o, a).st = Bound(s2, o, a)
      BY <1>6, <1>9, <2>9
    <3>2. s2.obj[o].fd # NoFd /\ s2.kern[s2.obj[o].fd].local = AnyAddr
      BY <1>4, <1>9, <2>1, <2>9 DEF Fd
    <3>3. Moves(s2, Bound(s2, o, a), o)
          /\ \A u \in UnixAddrs : u # a => Bound(s2, o, a).path[u] = s2.path[u]
      BY <2>6, <2>9, <3>2, BoundMoves
    <3>4. Moves(st, Bound(s2, o, a), o)
      BY <2>6, <3>3, MovesOn
    <3>5. Respects(st, Bound(s2, o, a))
      BY <1>2, <2>2, <2>7, <3>3 DEF Respects
    <3> QED
      BY <3>1, <3>4, <3>5
  <2> QED
    BY <2>8, <2>9
<1> QED
  BY <1>7, <1>8, <1>9

----------------------------------------------------------------------------
(* The end of descriptors. *)

(* Sockets that are shut or destroyed, the fds they had being closed. *)
Ended(x) ==
  \/ x = Gone
  \/ x \in SocketObj /\ x.fd = NoFd /\ ~x.connected /\ (x.reused \/ x.local = None)

(* What the kernel closes of ds, the fds of the sockets os. *)
FdsOf(st, os) == {Fd(st, p) : p \in os}
Closes(st, s2, ds) ==
  /\ \A d \in Fds : IF d \in ds THEN s2.kern[d] = Closed ELSE s2.kern[d] = st.kern[d]
  /\ \A u \in UnixAddrs : IF st.path[u] \in ds THEN s2.path[u] = Stale ELSE s2.path[u] = st.path[u]

LEMMA Closing ==
  ASSUME NEW st, Good(st), NEW os \in SUBSET Live(st), NEW objs \in [Objs -> SocketObj \cup {Gone}],
         \A p \in Objs : p \notin os => objs[p] = st.obj[p], \A p \in os : Ended(objs[p]),
         NEW s2, s2 = KernelClose(st, objs, FdsOf(st, os))
  PROVE  Good(s2) /\ s2.obj = objs /\ Closes(st, s2, FdsOf(st, os))
<1> DEFINE ds == FdsOf(st, os)
<1>0. /\ st.obj \in [Objs -> SocketObj \cup {Gone}] /\ st.kern \in [Fds -> KernelFd]
      /\ st.path \in [UnixAddrs -> Fds \cup {None, Stale}]
      /\ \A p \in Live(st) : st.obj[p] \in SocketObj /\ p \in Objs /\ st.obj[p].fd \in Fds \cup {NoFd}
  BY GoodParts
<1>1. /\ s2 = [obj |-> s2.obj, kern |-> s2.kern, path |-> s2.path] /\ s2.obj = objs
      /\ s2.kern = [d \in Fds |-> IF d \in ds THEN Closed ELSE st.kern[d]]
      /\ s2.path = [a \in UnixAddrs |-> IF st.path[a] \in ds THEN Stale ELSE st.path[a]]
  BY DEF KernelClose
<1>2. \A d \in Fds : IF d \in ds THEN s2.kern[d] = Closed ELSE s2.kern[d] = st.kern[d]
  BY <1>1
<1>3. \A u \in UnixAddrs : IF st.path[u] \in ds THEN s2.path[u] = Stale ELSE s2.path[u] = st.path[u]
  BY <1>1
<1>4. Shaped(s2)
  <2>1. s2.kern \in [Fds -> KernelFd]
    <3>1. \A d \in Fds : s2.kern[d] \in KernelFd
      BY <1>0, <1>2, ClosedTyped
    <3> QED
      BY <1>1, <3>1
  <2>2. s2.path \in [UnixAddrs -> Fds \cup {None, Stale}]
    BY <1>0, <1>1
  <2> QED
    BY <1>1, <2>1, <2>2 DEF Shaped
<1>5. \A p \in Live(s2) : p \in Objs /\ (p \in os \/ (p \in Live(st) /\ objs[p] = st.obj[p]))
  BY <1>1 DEF Live
<1>6. \A p \in Live(s2) : p \in os => objs[p].fd = NoFd /\ ~objs[p].connected
                                     /\ (objs[p].reused \/ objs[p].local = None)
  BY <1>1 DEF Live, Ended
<1>7. ASSUME NEW p \in Live(st), p \notin os, st.obj[p].fd # NoFd
      PROVE  st.obj[p].fd \notin ds /\ p \in Live(s2) /\ objs[p] = st.obj[p] /\ st.obj[p].fd \in Fds
  <2>1. ASSUME NEW q \in os, st.obj[p].fd = Fd(st, q)
        PROVE  FALSE
    BY <1>7, <2>1 DEF Good, Owned, Fd
  <2> QED
    BY <1>0, <1>1, <1>7, <2>1 DEF Live, FdsOf
<1>8. Owned(s2)
  <2>1. ASSUME NEW d \in Fds, s2.kern[d].open
        PROVE  \E p \in Live(s2) : s2.obj[p].fd = d
    <3>1. d \notin ds /\ st.kern[d].open
      BY <1>2, <2>1, ClosedTyped
    <3>2. PICK p \in Live(st) : st.obj[p].fd = d
      BY <3>1 DEF Good, Owned
    <3>3. p \notin os
      BY <3>1, <3>2 DEF Fd, FdsOf
    <3> QED
      BY <1>1, <1>7, <3>2, <3>3, FdFacts
  <2>2. ASSUME NEW p \in Live(s2), s2.obj[p].fd # NoFd
        PROVE  s2.kern[s2.obj[p].fd].open
    <3>1. p \notin os /\ p \in Live(st) /\ s2.obj[p] = st.obj[p]
      BY <1>1, <1>5, <1>6, <2>2
    <3>2. st.kern[st.obj[p].fd].open
      BY <2>2, <3>1 DEF Good, Owned
    <3> QED
      BY <1>2, <1>7, <2>2, <3>1, <3>2
  <2>3. ASSUME NEW p \in Live(s2), NEW q \in Live(s2), s2.obj[p].fd = s2.obj[q].fd, s2.obj[p].fd # NoFd
        PROVE  p = q
    <3>1. p \notin os /\ p \in Live(st) /\ s2.obj[p] = st.obj[p]
      BY <1>1, <1>5, <1>6, <2>3
    <3>2. q \notin os /\ q \in Live(st) /\ s2.obj[q] = st.obj[q]
      BY <1>1, <1>5, <1>6, <2>3
    <3> QED
      BY <2>3, <3>1, <3>2 DEF Good, Owned
  <2> QED
    BY <2>1, <2>2, <2>3 DEF Owned
<1>9. Kernel(s2)
  <2>1. \A d \in Fds : ~s2.kern[d].open => s2.kern[d] = Closed
    BY <1>2 DEF Good, Kernel
  <2>2. \A d \in Fds : s2.kern[d].listening => s2.kern[d].local # AnyAddr /\ s2.kern[d].peer = None
    BY <1>2, ClosedTyped DEF Good, Kernel
  <2>3. ASSUME NEW u \in UnixAddrs, s2.path[u] \in Fds
        PROVE  s2.kern[s2.path[u]].open /\ s2.kern[s2.path[u]].local = u
    <3>1. st.path[u] \notin ds /\ s2.path[u] = st.path[u]
      BY <1>3, <2>3, FdFacts
    <3>2. s2.kern[s2.path[u]] = st.kern[st.path[u]]
      BY <1>2, <2>3, <3>1
    <3> QED
      BY <2>3, <3>1, <3>2 DEF Good, Kernel
  <2>4. ASSUME NEW d \in Fds, NEW e \in Fds, s2.kern[d].open, s2.kern[e].open,
               s2.kern[d].local = s2.kern[e].local, s2.kern[d].local \in Addrs \ UnixAddrs,
               s2.kern[d].peer = None, s2.kern[e].peer = None
        PROVE  d = e
    <3>1. s2.kern[d] = st.kern[d] /\ s2.kern[e] = st.kern[e]
      BY <1>2, <2>4, ClosedTyped
    <3> QED
      BY <2>4, <3>1 DEF Good, Kernel
  <2>5. \A d \in Fds : s2.kern[d].peer = None => s2.kern[d].local # Ephemeral
    BY <1>2, ClosedTyped, FdFacts DEF Good, Kernel
  <2> QED
    BY <2>1, <2>2, <2>3, <2>4, <2>5 DEF Kernel
<1>10. ASSUME NEW p \in Live(s2)
       PROVE  Believes(s2.obj[p], s2.kern)
  <2>1. CASE p \in os
    BY <1>1, <1>6, <2>1 DEF Believes
  <2>2. CASE p \notin os
    <3>1. p \in Live(st) /\ s2.obj[p] = st.obj[p]
      BY <1>1, <1>5, <2>2
    <3>2. Believes(st.obj[p], st.kern)
      BY <3>1 DEF Good
    <3>3. CASE st.obj[p].fd = NoFd
      BY <3>1, <3>2, <3>3 DEF Believes
    <3>4. CASE st.obj[p].fd # NoFd
      <4>1. s2.kern[st.obj[p].fd] = st.kern[st.obj[p].fd]
        BY <1>2, <1>7, <2>2, <3>1, <3>4
      <4> QED
        BY <3>1, <3>2, <4>1 DEF Believes
    <3> QED
      BY <3>3, <3>4
  <2> QED
    BY <2>1, <2>2
<1>11. Good(s2)
  BY <1>4, <1>8, <1>9, <1>10 DEF Good
<1> QED
  BY <1>1, <1>2, <1>3, <1>11 DEF Closes

(* close() of a socket. *)
LEMMA ShutEnds ==
  ASSUME NEW x \in SocketObj, NEW k, Believes(x, k)
  PROVE  Ended(Shut(x)) /\ Shut(x) \in SocketObj /\ Shut(x) # Gone
<1>1. CASE ~x.connected /\ x.fd = NoFd
  <2>1. x.reused \/ x.local = None
    BY <1>1 DEF Believes
  <2> QED
    BY <1>1, <2>1, DistinctAssumption DEF Shut, Ended
<1>2. CASE ~(~x.connected /\ x.fd = NoFd)
  <2>1. Shut(x) = [x EXCEPT !.connected = FALSE, !.fd = NoFd, !.reused = TRUE]
    BY <1>2 DEF Shut
  <2>2. Shut(x).fd = NoFd /\ ~Shut(x).connected /\ Shut(x).reused
    BY <2>1 DEF SocketObj
  <2>3. \A b, c \in BOOLEAN : [x EXCEPT !.connected = b, !.fd = NoFd, !.reused = c] \in SocketObj
    BY DEF SocketObj
  <2>4. FALSE \in BOOLEAN /\ TRUE \in BOOLEAN
    OBVIOUS
  <2>5. Shut(x) \in SocketObj
    BY <2>1, <2>3, <2>4, Zenon
  <2> QED
    BY <2>2, <2>5, DistinctAssumption DEF Ended
<1> QED
  BY <1>1, <1>2

LEMMA CloseAllEnds ==
  ASSUME NEW st, Good(st), NEW os \in SUBSET Live(st), NEW s2, s2 = CloseAll(st, os)
  PROVE  /\ Good(s2) /\ Live(s2) = Live(st)
         /\ \A p \in Objs : p \notin os => s2.obj[p] = st.obj[p]
         /\ \A p \in os : s2.obj[p].fd = NoFd /\ s2.obj[p] # Gone
         /\ \A d \in Fds : (\A p \in os : st.obj[p].fd # d) => s2.kern[d] = st.kern[d]
         /\ Respects(st, s2)
<1>0. /\ st.obj \in [Objs -> SocketObj \cup {Gone}]
      /\ \A p \in Live(st) : st.obj[p] \in SocketObj /\ p \in Objs
  BY GoodParts
<1>1. PICK objs : objs = [o \in Objs |-> IF o \in os THEN Shut(st.obj[o]) ELSE st.obj[o]]
  OBVIOUS
<1>3. s2 = KernelClose(st, objs, FdsOf(st, os))
  BY <1>1 DEF CloseAll, FdsOf
<1>4. \A p \in os : Ended(objs[p]) /\ objs[p] \in SocketObj /\ objs[p] # Gone
  <2>1. ASSUME NEW p \in os
        PROVE  Ended(objs[p]) /\ objs[p] \in SocketObj /\ objs[p] # Gone
    <3>1. st.obj[p] \in SocketObj /\ Believes(st.obj[p], st.kern) /\ p \in Objs
      BY <1>0 DEF Good
    <3>2. objs[p] = Shut(st.obj[p])
      BY <1>1, <3>1
    <3> QED
      BY <3>1, <3>2, ShutEnds
  <2> QED
    BY <2>1
<1>5. \A p \in Objs : p \notin os => objs[p] = st.obj[p]
  BY <1>1
<1>6. objs \in [Objs -> SocketObj \cup {Gone}]
  BY <1>0, <1>1, <1>4, <1>5
<1>7. Good(s2) /\ s2.obj = objs /\ Closes(st, s2, FdsOf(st, os))
  BY <1>3, <1>4, <1>5, <1>6, Closing
<1>8. Live(s2) = Live(st)
  BY <1>4, <1>5, <1>7 DEF Live
<1>9. \A p \in os : s2.obj[p].fd = NoFd
  BY <1>4, <1>7 DEF Ended
<1>10. \A d \in Fds : (\A p \in os : st.obj[p].fd # d) => s2.kern[d] = st.kern[d]
  BY <1>7 DEF Closes, Fd, FdsOf
<1>11. Respects(st, s2)
  BY <1>7, ClosedTyped DEF Respects, Closes
<1> QED
  BY <1>4, <1>5, <1>7, <1>8, <1>9, <1>10, <1>11

LEMMA CloseMoves ==
  ASSUME NEW st, Good(st), NEW o \in Live(st)
  PROVE  Moves(st, Close(st, o), o) /\ Respects(st, Close(st, o))
<1>1. PICK s2 : s2 = CloseAll(st, {o})
  OBVIOUS
<1>2. /\ Good(s2) /\ (\A p \in Objs : p # o => s2.obj[p] = st.obj[p])
      /\ s2.obj[o].fd = NoFd /\ s2.obj[o] # Gone
      /\ (\A d \in Fds : st.obj[o].fd # d => s2.kern[d] = st.kern[d]) /\ Respects(st, s2)
  BY <1>1, CloseAllEnds
<1>3. Moves(st, s2, o)
  BY <1>2 DEF Moves
<1> QED
  BY <1>1, <1>2, <1>3 DEF Close

(* ::connect that reaches a listener. *)
LEMMA ConnectedMoves ==
  ASSUME NEW st, Good(st), NEW o \in Live(st), st.obj[o].fd # NoFd, NEW a \in Addrs,
         ~st.kern[st.obj[o].fd].listening, Accepts(st, a)
  PROVE  /\ Moves(st, Connected(st, o, a), o) /\ Connected(st, o, a).path = st.path
         /\ Connected(st, o, a).obj[o].kind = st.obj[o].kind
<1>0. /\ st.obj \in [Objs -> SocketObj \cup {Gone}] /\ st.kern \in [Fds -> KernelFd]
      /\ st.path \in [UnixAddrs -> Fds \cup {None, Stale}]
      /\ st.obj[o] \in SocketObj /\ o \in Objs /\ st.obj[o].fd \in Fds \cup {NoFd}
      /\ \A d \in Fds : st.kern[d].listening => st.kern[d].open
  BY GoodParts
<1>1. PICK d \in Fds : d = st.obj[o].fd
  BY <1>0
<1>2. PICK k1 : k1 = Knock(st, a).kern
  OBVIOUS
<1>3. /\ k1 \in [Fds -> KernelFd] /\ \A e \in Fds : SameFd(k1[e], st.kern[e])
      /\ \A e \in Fds : ~st.kern[e].listening => k1[e] = st.kern[e]
  BY <1>2, KnockKernel
<1>4. k1[d] = st.kern[d] /\ st.kern[d].open
  BY <1>1, <1>3, FdFacts DEF Good, Owned
<1>5. PICK w : w = [st.kern[d] EXCEPT !.peer = a, !.local = IF @ = AnyAddr THEN Ephemeral ELSE @]
  OBVIOUS
<1>6. /\ w \in KernelFd /\ w.open /\ w.peer = a /\ ~w.listening
      /\ w.local = IF st.kern[d].local = AnyAddr THEN Ephemeral ELSE st.kern[d].local
  <2>1. st.kern[d] \in KernelFd
    BY <1>0
  <2>2. w \in KernelFd
    BY <1>5, <2>1 DEF KernelFd
  <2>3. w.peer = a /\ w.open = st.kern[d].open /\ w.listening = st.kern[d].listening
        /\ w.local = IF st.kern[d].local = AnyAddr THEN Ephemeral ELSE st.kern[d].local
    BY <1>5, <2>1 DEF KernelFd
  <2> QED
    BY <1>1, <1>4, <2>2, <2>3
<1>7. PICK k : k = [k1 EXCEPT ![d] = w]
  OBVIOUS
<1>8. k \in [Fds -> KernelFd] /\ k[d] = w /\ \A e \in Fds : e # d => k[e] = k1[e]
  BY <1>3, <1>6, <1>7
<1>9. PICK x : x = [st.obj[o] EXCEPT !.connected = TRUE]
  OBVIOUS
<1>10. x \in SocketObj /\ x.fd = d /\ x.kind = st.obj[o].kind /\ x.local = st.obj[o].local
       /\ x.reused = st.obj[o].reused
  <2>1. \A b \in BOOLEAN : [st.obj[o] EXCEPT !.connected = b] \in SocketObj
    BY <1>0 DEF SocketObj
  <2>2. TRUE \in BOOLEAN
    OBVIOUS
  <2>3. x \in SocketObj
    BY <1>9, <2>1, <2>2, Zenon
  <2> QED
    BY <1>0, <1>1, <1>9, <2>3 DEF SocketObj
<1>11. PICK s : s = [obj |-> [st.obj EXCEPT ![o] = x], kern |-> k, path |-> st.path]
  OBVIOUS
<1>12. Connected(st, o, a) = GetLocal(GetRemote(s, o), o)
  <2>1. [st.obj EXCEPT ![o].connected = TRUE] = [st.obj EXCEPT ![o] = x]
    BY <1>0, <1>9
  <2>2. [k1 EXCEPT ![d].peer = a, ![d].local = IF @ = AnyAddr THEN Ephemeral ELSE @] = k
    <3>1. k1[d] \in KernelFd
      BY <1>3
    <3>2. [k1[d] EXCEPT !.peer = a, !.local = IF k1[d].local = AnyAddr THEN Ephemeral ELSE k1[d].local] = w
      BY <1>4, <1>5
    <3> QED
      BY <1>3, <1>7, <3>1, <3>2
  <2> QED
    BY <1>1, <1>2, <1>11, <2>1, <2>2 DEF Connected, Fd
<1>13. Believes(x, k)
  <2>1. Believes(st.obj[o], st.kern)
    BY DEF Good
  <2>2. a # None
    BY FdFacts
  <2> QED
    BY <1>1, <1>6, <1>8, <1>10, <2>1, <2>2 DEF Believes
<1>14. \A u \in UnixAddrs : st.path[u] \in Fds => k[st.path[u]].open /\ k[st.path[u]].local = u
  <2> SUFFICES ASSUME NEW u \in UnixAddrs, st.path[u] \in Fds
               PROVE  k[st.path[u]].open /\ k[st.path[u]].local = u
    OBVIOUS
  <2>1. st.kern[st.path[u]].open /\ st.kern[st.path[u]].local = u /\ u # AnyAddr
    BY FdFacts, SocketAssumption DEF Good, Kernel
  <2>2. CASE st.path[u] = d
    BY <1>6, <1>8, <2>1, <2>2
  <2>3. CASE st.path[u] # d
    BY <1>3, <1>8, <2>1, <2>3 DEF SameFd
  <2> QED
    BY <2>2, <2>3
<1>15. Moves(st, s, o)
  <2>1. /\ x.fd # NoFd => k[x.fd].open
        /\ x.fd = st.obj[o].fd
        /\ x.fd # NoFd => (k[x.fd].listening => k[x.fd].local # AnyAddr /\ k[x.fd].peer = None)
        /\ x.fd # NoFd => (st.kern[x.fd].listening => k[x.fd].listening)
        /\ x.fd # NoFd => (k[x.fd].peer = None => k[x.fd].local # Ephemeral)
    BY <1>1, <1>6, <1>8, <1>10, FdFacts
  <2>2. \A e \in Fds : e # x.fd => SameFd(k[e], st.kern[e])
    BY <1>3, <1>8, <1>10
  <2>3. \A e \in Fds : e # x.fd /\ ~st.kern[e].open => k[e] = st.kern[e]
    BY <1>0, <1>3, <1>8, <1>10
  <2>4. x.fd # NoFd => \A e \in Fds :
           /\ k[x.fd].local \in Addrs \ UnixAddrs /\ k[x.fd].peer = None /\ e # x.fd
           /\ st.kern[e].open /\ st.kern[e].peer = None
           => st.kern[e].local # k[x.fd].local
    BY <1>6, <1>8, <1>10, FdFacts
  <2> QED
    BY <1>0, <1>8, <1>10, <1>11, <1>13, <1>14, <2>1, <2>2, <2>3, <2>4, Touch
<1>16. o \in Live(s) /\ Good(s)
  BY <1>15, MovesLive
<1>17. Still(s, GetRemote(s, o), o)
  BY <1>16, GetRemoteMoves
<1>18. PICK r : r = GetRemote(s, o)
  OBVIOUS
<1>19. Moves(st, r, o) /\ r.kern = k /\ r.path = st.path /\ r.obj[o].fd = d
       /\ r.obj[o].kind = st.obj[o].kind
  <2>1. s.obj[o] = x /\ s.kern = k /\ s.path = st.path
    BY <1>0, <1>11
  <2> QED
    BY <1>10, <1>15, <1>17, <1>18, <2>1, StillMoves
<1>20. o \in Live(r) /\ Good(r)
  BY <1>19, MovesLive
<1>21. r.kern[d].local # AnyAddr
  BY <1>6, <1>8, <1>19, FdFacts
<1>22. Still(r, GetLocal(r, o), o)
  BY <1>19, <1>20, <1>21, GetLocalMoves
<1>23. Moves(st, GetLocal(r, o), o) /\ GetLocal(r, o).path = st.path
       /\ GetLocal(r, o).obj[o].kind = st.obj[o].kind
  BY <1>19, <1>22, StillMoves
<1> QED
  BY <1>12, <1>18, <1>23

(* connect(), and reconnect(). *)
LEMMA ConnectMoves ==
  ASSUME NEW st, Good(st), NEW o \in Live(st), NEW a \in Addrs \cup {Ephemeral}, NEW hs \in BOOLEAN
  PROVE  Moves(st, Connect(st, o, a, hs).st, o) /\ Respects(st, Connect(st, o, a, hs).st)
<1>1. PICK s0 : s0 = [st EXCEPT !.obj[o].remote = a]
  OBVIOUS
<1>2. Still(st, s0, o)
  BY <1>1, SetRemote
<1>3. Moves(st, s0, o) /\ o \in Live(s0) /\ Good(s0) /\ s0.path = st.path /\ s0.kern = st.kern
  BY <1>2, MovesLive DEF Still
<1>4. PICK s1 : s1 = Ensure(s0, o)
  OBVIOUS
<1>5. Moves(s0, s1, o) /\ s1.path = s0.path /\ \A e \in Fds : s0.kern[e].open => s1.kern[e] = s0.kern[e]
  BY <1>3, <1>4, EnsureMoves
<1>6. Moves(st, s1, o) /\ o \in Live(s1) /\ Good(s1)
  BY <1>3, <1>5, MovesOn, MovesLive
<1>7. PICK d : d = Fd(s1, o)
  OBVIOUS
<1>8. PICK s2 : s2 = Connected(s1, o, a)
  OBVIOUS
<1>9. PICK k : k = IF d = NoFd THEN Closed ELSE s1.kern[d]
  OBVIOUS
<1>10. PICK reached : reached = (~k.listening /\ k.peer = None /\ Accepts(s1, a))
  OBVIOUS
<1>11. /\ d = NoFd \/ Family(a) # s1.obj[o].family => Connect(st, o, a, hs).st = s1
       /\ ~(d = NoFd \/ Family(a) # s1.obj[o].family) =>
            /\ ~reached => Connect(st, o, a, hs).st = Close(s1, o)
            /\ reached /\ s1.obj[o].kind = "ssl" => Connect(st, o, a, hs).st = [s2 EXCEPT !.obj[o].ssl = d]
            /\ reached /\ s1.obj[o].kind # "ssl" => Connect(st, o, a, hs).st = s2
  BY <1>1, <1>4, <1>7, <1>8, <1>9, <1>10 DEF Connect
<1>12. CASE d = NoFd \/ Family(a) # s1.obj[o].family
  BY <1>3, <1>5, <1>6, <1>11, <1>12 DEF Respects
<1>13. CASE ~(d = NoFd \/ Family(a) # s1.obj[o].family) /\ ~reached
  <2>1. Moves(s1, Close(s1, o), o)
    BY <1>6, CloseMoves
  <2>2. PICK s3 : s3 = Close(s1, o)
    OBVIOUS
  <2>3. /\ \A e \in Fds : IF e = d THEN s3.kern[e] = Closed ELSE s3.kern[e] = s1.kern[e]
        /\ \A u \in UnixAddrs : s1.path[u] # d => s3.path[u] = s1.path[u]
    BY <1>7, <2>2 DEF Close, CloseAll, KernelClose
  <2>4. Respects(st, s3)
    BY <1>3, <1>5, <2>3, ClosedTyped DEF Respects
  <2> QED
    BY <1>6, <1>11, <1>13, <2>1, <2>2, <2>4, MovesOn
<1>14. CASE ~(d = NoFd \/ Family(a) # s1.obj[o].family) /\ reached
  <2>0. s1.obj[o].fd # NoFd /\ ~s1.kern[s1.obj[o].fd].listening /\ Accepts(s1, a)
    BY <1>7, <1>9, <1>10, <1>14 DEF Fd
  <2>1. a \in Addrs
    BY <1>6, <2>0 DEF Accepts, Listeners, Good, Kernel
  <2>2. Moves(s1, s2, o) /\ s2.path = s1.path
    BY <1>6, <1>8, <2>0, <2>1, ConnectedMoves
  <2>3. Moves(st, s2, o) /\ o \in Live(s2) /\ Good(s2)
    BY <1>6, <2>2, MovesOn, MovesLive
  <2>4. Respects(st, s2)
    BY <1>3, <1>5, <2>2 DEF Respects
  <2>5. CASE s1.obj[o].kind # "ssl"
    BY <1>11, <1>14, <2>3, <2>4, <2>5
  <2>6. CASE s1.obj[o].kind = "ssl"
    <3>1. PICK s3 : s3 = [s2 EXCEPT !.obj[o].ssl = d]
      OBVIOUS
    <3>2. d \in Fds \cup {NoFd}
      BY <1>6, <1>7, GoodParts DEF Fd
    <3>3. Still(s2, s3, o)
      BY <2>3, <3>1, <3>2, SetSsl
    <3>4. Moves(st, s3, o) /\ s3.path = s2.path
      BY <2>3, <3>3, StillMoves
    <3>5. Respects(st, s3)
      BY <1>3, <1>5, <2>2, <3>4 DEF Respects
    <3> QED
      BY <1>11, <1>14, <2>6, <3>1, <3>4, <3>5
  <2> QED
    BY <2>5, <2>6
<1> QED
  BY <1>12, <1>13, <1>14

LEMMA ReconnectMoves ==
  ASSUME NEW st, Good(st), NEW o \in Live(st), NEW hs \in BOOLEAN
  PROVE  Moves(st, Reconnect(st, o, hs).st, o) /\ Respects(st, Reconnect(st, o, hs).st)
<1>1. CASE st.obj[o].remote = None
  BY <1>1, MovesNot DEF Reconnect, Respects
<1>2. CASE st.obj[o].remote # None
  <2>1. PICK s0 : s0 = [st EXCEPT !.obj[o].local = None]
    OBVIOUS
  <2>2. Still(st, s0, o)
    BY <2>1, SetLocal
  <2>3. Moves(st, s0, o) /\ o \in Live(s0) /\ Good(s0) /\ s0.path = st.path /\ s0.kern = st.kern
    BY <2>2, MovesLive DEF Still
  <2>4. PICK a \in Addrs \cup {Ephemeral} : a = st.obj[o].remote
    <3>1. st.obj[o] \in SocketObj
      BY GoodParts
    <3> QED
      BY <1>2, <3>1 DEF SocketObj
  <2>5. Reconnect(st, o, hs).st = Connect(s0, o, a, hs).st
    BY <1>2, <2>1, <2>4 DEF Reconnect
  <2>6. Moves(s0, Connect(s0, o, a, hs).st, o) /\ Respects(s0, Connect(s0, o, a, hs).st)
    BY <2>3, ConnectMoves
  <2>7. Moves(st, Connect(s0, o, a, hs).st, o)
    BY <2>3, <2>6, MovesOn
  <2>8. Respects(st, Connect(s0, o, a, hs).st)
    BY <2>3, <2>6 DEF Respects
  <2> QED
    BY <2>5, <2>7, <2>8
<1> QED
  BY <1>1, <1>2

----------------------------------------------------------------------------
(* Sockets come and go. *)

LEMMA NewObjTyped ==
  ASSUME NEW kind \in {"tcp", "ssl"}, NEW family \in {"unix", "inet"}
  PROVE  /\ NewObj(kind, family) \in SocketObj /\ NewObj(kind, family).fd = NoFd
         /\ ~NewObj(kind, family).connected /\ NewObj(kind, family).local = None
         /\ ~NewObj(kind, family).reused /\ NewObj(kind, family).kind = kind
<1>1. \A b, c \in BOOLEAN :
        [kind |-> kind, family |-> family, fd |-> NoFd, connected |-> b,
         local |-> None, remote |-> None, ssl |-> NoFd, reused |-> c] \in SocketObj
  BY DEF SocketObj
<1>2. FALSE \in BOOLEAN
  OBVIOUS
<1>3. NewObj(kind, family) \in SocketObj
  BY <1>1, <1>2, Zenon DEF NewObj
<1> QED
  BY <1>3 DEF NewObj

LEMMA FamilyTyped == \A a : Family(a) \in {"unix", "inet"}
BY DEF Family

(* A new socket has no fd. *)
Added(st, s2, o, x) ==
  /\ Good(s2) /\ Live(s2) = Live(st) \cup {o} /\ s2.obj[o] = x
  /\ \A p \in Objs : p # o => s2.obj[p] = st.obj[p]
  /\ s2.kern = st.kern /\ s2.path = st.path

LEMMA AddObj ==
  ASSUME NEW st, Good(st), NEW o \in Objs, st.obj[o] = Gone, NEW x \in SocketObj, x.fd = NoFd,
         ~x.connected, x.local = None,
         NEW s2, s2 = [obj |-> [st.obj EXCEPT ![o] = x], kern |-> st.kern, path |-> st.path]
  PROVE  Added(st, s2, o, x)
<1>0. /\ st.obj \in [Objs -> SocketObj \cup {Gone}] /\ st.kern \in [Fds -> KernelFd]
      /\ st.path \in [UnixAddrs -> Fds \cup {None, Stale}]
  BY GoodParts
<1>1. s2.obj = [st.obj EXCEPT ![o] = x] /\ s2.kern = st.kern /\ s2.path = st.path
  OBVIOUS
<1>2. s2.obj[o] = x /\ \A p \in Objs : p # o => s2.obj[p] = st.obj[p]
  BY <1>0, <1>1
<1>3. x # Gone
  BY DistinctAssumption
<1>4. Live(s2) = Live(st) \cup {o} /\ o \notin Live(st)
  BY <1>2, <1>3 DEF Live
<1>5. Shaped(s2)
  <2>1. s2.obj \in [Objs -> SocketObj \cup {Gone}]
    BY <1>0, <1>1
  <2> QED
    BY <1>0, <1>1, <2>1 DEF Shaped
<1>6. \A p \in Live(st) : s2.obj[p] = st.obj[p]
  BY <1>2, <1>4 DEF Live
<1>7. Owned(s2)
  <2>1. \A d \in Fds : st.kern[d].open => \E p \in Live(s2) : s2.obj[p].fd = d
    BY <1>4, <1>6 DEF Good, Owned
  <2>2. \A p \in Live(s2) : s2.obj[p].fd # NoFd => st.kern[s2.obj[p].fd].open
    BY <1>2, <1>4, <1>6 DEF Good, Owned
  <2>3. ASSUME NEW p \in Live(s2), NEW q \in Live(s2), s2.obj[p].fd = s2.obj[q].fd, s2.obj[p].fd # NoFd
        PROVE  p = q
    <3>1. p \in Live(st) /\ q \in Live(st)
      BY <1>2, <1>4, <2>3
    <3> QED
      BY <1>6, <2>3, <3>1 DEF Good, Owned
  <2> QED
    BY <1>1, <2>1, <2>2, <2>3 DEF Owned
<1>8. Kernel(s2)
  BY <1>1 DEF Good, Kernel
<1>9. \A p \in Live(s2) : Believes(s2.obj[p], s2.kern)
  <2>1. Believes(x, st.kern)
    BY DEF Believes
  <2> QED
    BY <1>1, <1>2, <1>4, <1>6, <2>1 DEF Good
<1> QED
  BY <1>1, <1>2, <1>4, <1>5, <1>7, <1>8, <1>9 DEF Good, Added

(* ~Socket of the sockets os. *)
LEMMA DestroyEnds ==
  ASSUME NEW st, Good(st), NEW os \in SUBSET Live(st), NEW s2, s2 = Destroy(st, os)
  PROVE  /\ Good(s2) /\ Closes(st, s2, FdsOf(st, os))
         /\ \A p \in Objs : s2.obj[p] = IF p \in os THEN Gone ELSE st.obj[p]
<1>0. st.obj \in [Objs -> SocketObj \cup {Gone}]
  BY GoodParts
<1>1. PICK objs : objs = [o \in Objs |-> IF o \in os THEN Gone ELSE st.obj[o]]
  OBVIOUS
<1>2. s2 = KernelClose(st, objs, FdsOf(st, os))
  BY <1>1 DEF Destroy, FdsOf
<1>3. objs \in [Objs -> SocketObj \cup {Gone}] /\ (\A p \in Objs : p \notin os => objs[p] = st.obj[p])
  BY <1>0, <1>1
<1>4. \A p \in os : Ended(objs[p])
  BY <1>1 DEF Ended, Live
<1>5. Good(s2) /\ s2.obj = objs /\ Closes(st, s2, FdsOf(st, os))
  BY <1>2, <1>3, <1>4, Closing
<1> QED
  BY <1>1, <1>5

(* accept() of a connection that waits in the backlog of fd. *)
LEMMA AcceptGood ==
  ASSUME NEW st, Good(st), NEW l \in Live(st), NEW n \in Objs, st.obj[n] = Gone, NEW fd \in Fds,
         st.kern[fd].listening, st.kern[fd].pending > 0, Free(st) # {}, NEW hs \in BOOLEAN,
         NEW s2, s2 = Accept(st, l, n, fd, hs)
  PROVE  /\ Good(s2) /\ (\A p \in Objs : p # n => s2.obj[p] = st.obj[p])
         /\ s2.obj[n] # Gone => s2.obj[n].connected
         /\ \A e \in Fds : st.kern[e].listening => s2.kern[e].listening
         /\ Respects(st, s2)
<1>0. /\ st.obj \in [Objs -> SocketObj \cup {Gone}] /\ st.kern \in [Fds -> KernelFd]
      /\ st.path \in [UnixAddrs -> Fds \cup {None, Stale}]
      /\ st.obj[l] \in SocketObj
      /\ \A d \in Fds : st.kern[d].listening => st.kern[d].open
  BY GoodParts
<1>1. PICK d : d = Min(Free(st))
  OBVIOUS
<1>2. d \in Fds /\ ~st.kern[d].open /\ d # fd /\ st.kern[d] = Closed
  <2>1. Free(st) \subseteq Nat
    BY FdFacts DEF Free
  <2>2. d \in Free(st)
    BY <1>1, <2>1, LowestIsFree
  <2>3. d \in Fds /\ ~st.kern[d].open
    BY <2>2 DEF Free
  <2> QED
    BY <1>0, <2>3 DEF Good, Kernel
<1>3. PICK kind \in {"tcp", "ssl"}, family \in {"unix", "inet"} :
        kind = st.obj[l].kind /\ family = st.obj[l].family
  BY <1>0 DEF SocketObj
<1>4. PICK y : y = NewObj(kind, family)
  OBVIOUS
<1>5. y \in SocketObj /\ y.fd = NoFd /\ ~y.connected /\ y.local = None /\ ~y.reused /\ y.kind = kind
  BY <1>4, NewObjTyped
<1>6. PICK s0 : s0 = [obj |-> [st.obj EXCEPT ![n] = y], kern |-> st.kern, path |-> st.path]
  OBVIOUS
<1>7. /\ Good(s0) /\ Live(s0) = Live(st) \cup {n} /\ s0.obj[n] = y
      /\ \A p \in Objs : p # n => s0.obj[p] = st.obj[p]
  <2>1. Added(st, s0, n, y)
    BY <1>5, <1>6, AddObj
  <2> QED
    BY <2>1 DEF Added
<1>8. PICK x : x = [y EXCEPT !.fd = d, !.connected = TRUE, !.ssl = IF kind = "ssl" THEN d ELSE NoFd]
  OBVIOUS
<1>9. x \in SocketObj /\ x.fd = d /\ x.local = None /\ x.connected /\ x.kind = kind
  <2>1. \A b \in BOOLEAN :
          [y EXCEPT !.fd = d, !.connected = b, !.ssl = IF kind = "ssl" THEN d ELSE NoFd] \in SocketObj
    BY <1>2, <1>5 DEF SocketObj
  <2>2. TRUE \in BOOLEAN
    OBVIOUS
  <2>3. x \in SocketObj
    BY <1>8, <2>1, <2>2, Zenon
  <2> QED
    BY <1>5, <1>8, <2>3 DEF SocketObj
<1>10. PICK w : w = [open |-> TRUE, local |-> st.kern[fd].local, peer |-> Ephemeral,
                     listening |-> FALSE, pending |-> 0]
  OBVIOUS
<1>11. w \in KernelFd /\ w.open /\ w.local = st.kern[fd].local /\ w.peer = Ephemeral /\ ~w.listening
  <2>0. 0 \in 0..Backlog /\ st.kern[fd].local \in Addrs \cup {AnyAddr, Ephemeral}
    BY <1>0, SocketAssumption DEF KernelFd
  <2>1. \A b, c \in BOOLEAN : [open |-> b, local |-> st.kern[fd].local, peer |-> Ephemeral,
                               listening |-> c, pending |-> 0] \in KernelFd
    BY <2>0 DEF KernelFd
  <2>2. TRUE \in BOOLEAN /\ FALSE \in BOOLEAN
    OBVIOUS
  <2>3. w \in KernelFd
    BY <1>10, <2>1, <2>2, Zenon
  <2> QED
    BY <1>10, <2>3
<1>12. PICK k : k = [st.kern EXCEPT ![fd].pending = @ - 1, ![d] = w]
  OBVIOUS
<1>13. k \in [Fds -> KernelFd] /\ k[d] = w /\ (\A e \in Fds : e # d => SameFd(k[e], st.kern[e]))
       /\ (\A e \in Fds : e # d /\ ~st.kern[e].open => k[e] = st.kern[e])
  <2>0. st.kern[fd] \in KernelFd
    BY <1>0
  <2>1. PICK v : v = [st.kern[fd] EXCEPT !.pending = @ - 1]
    OBVIOUS
  <2>2. st.kern[fd].pending - 1 \in 0..Backlog
    BY <2>0, SocketAssumption DEF KernelFd
  <2>3. v \in KernelFd /\ SameFd(v, st.kern[fd])
    BY <2>0, <2>1, <2>2 DEF KernelFd, SameFd
  <2>4. k = [[st.kern EXCEPT ![fd] = v] EXCEPT ![d] = w]
    BY <1>0, <1>2, <1>12, <2>1
  <2>5. \A e \in Fds : k[e] = IF e = d THEN w ELSE IF e = fd THEN v ELSE st.kern[e]
    BY <1>0, <1>2, <2>4
  <2>6. k \in [Fds -> KernelFd]
    BY <1>0, <1>11, <2>3, <2>4
  <2> QED
    BY <1>0, <1>2, <2>3, <2>5, <2>6, SameFdItself
<1>14. PICK s1 : s1 = [obj |-> [st.obj EXCEPT ![n] = x], kern |-> k, path |-> st.path]
  OBVIOUS
<1>15. st.kern[fd].local # AnyAddr
  BY DEF Good, Kernel
<1>16. Moves(s0, s1, n)
  <2>1. s0.kern = st.kern /\ s0.path = st.path /\ s0.obj[n].fd = NoFd /\ n \in Live(s0)
    BY <1>5, <1>6, <1>7
  <2>2. /\ x.fd # NoFd => k[x.fd].open
        /\ s0.obj[n].fd = NoFd /\ x.fd \in Fds /\ ~s0.kern[x.fd].open
        /\ x.fd # NoFd => (k[x.fd].listening => k[x.fd].local # AnyAddr /\ k[x.fd].peer = None)
        /\ x.fd # NoFd => (s0.kern[x.fd].listening => k[x.fd].listening)
        /\ x.fd # NoFd => (k[x.fd].peer = None => k[x.fd].local # Ephemeral)
    BY <1>2, <1>9, <1>11, <1>13, <2>1, ClosedTyped, FdFacts
  <2>3. /\ \A e \in Fds : e # x.fd => SameFd(k[e], s0.kern[e])
        /\ \A e \in Fds : e # x.fd /\ ~s0.kern[e].open => k[e] = s0.kern[e]
    BY <1>9, <1>13, <2>1
  <2>4. x.fd # NoFd => \A e \in Fds :
           /\ k[x.fd].local \in Addrs \ UnixAddrs /\ k[x.fd].peer = None /\ e # x.fd
           /\ s0.kern[e].open /\ s0.kern[e].peer = None
           => s0.kern[e].local # k[x.fd].local
    BY <1>9, <1>11, <1>13, FdFacts
  <2>5. Believes(x, k)
    BY <1>2, <1>9, <1>11, <1>13, FdFacts DEF Believes
  <2>6. \A u \in UnixAddrs : st.path[u] \in Fds => k[st.path[u]].open /\ k[st.path[u]].local = u
    <3> SUFFICES ASSUME NEW u \in UnixAddrs, st.path[u] \in Fds
                 PROVE  k[st.path[u]].open /\ k[st.path[u]].local = u
      OBVIOUS
    <3>1. st.kern[st.path[u]].open /\ st.kern[st.path[u]].local = u
      BY DEF Good, Kernel
    <3> QED
      BY <1>2, <1>13, <3>1 DEF SameFd
  <2>7. s1 = [obj |-> [s0.obj EXCEPT ![n] = x], kern |-> k, path |-> st.path]
    <3>1. [s0.obj EXCEPT ![n] = x] = [st.obj EXCEPT ![n] = x]
      BY <1>0, <1>6
    <3> QED
      BY <1>14, <3>1
  <2> QED
    BY <1>0, <1>7, <1>9, <1>13, <2>1, <2>2, <2>3, <2>4, <2>5, <2>6, <2>7, Touch
<1>17. n \in Live(s1) /\ Good(s1) /\ s1.obj[n] = x /\ s1.kern = k
  BY <1>0, <1>7, <1>14, <1>16, MovesLive
<1>18. PICK r : r = GetLocal(s1, n)
  OBVIOUS
<1>19. Still(s1, r, n)
  BY <1>9, <1>11, <1>13, <1>15, <1>17, <1>18, GetLocalMoves
<1>20. Good(r) /\ n \in Live(r)
  BY <1>17, <1>19, MovesLive DEF Still
<1>21. PICK t : t = GetRemote(r, n)
  OBVIOUS
<1>22. Still(r, t, n)
  BY <1>20, <1>21, GetRemoteMoves
<1>23. Good(t) /\ n \in Live(t)
  BY <1>20, <1>22, MovesLive DEF Still
<1>24. t.kern = k /\ t.path = st.path /\ t.obj[n].fd = d /\ t.obj[n].connected
       /\ \A p \in Objs : p # n => t.obj[p] = st.obj[p]
  <2>1. s1.kern = k /\ s1.path = st.path /\ s1.obj[n].fd = d /\ s1.obj[n].connected
    BY <1>9, <1>14, <1>17
  <2>2. t.kern = k /\ t.path = st.path /\ t.obj[n].fd = d /\ t.obj[n].connected
    BY <1>19, <1>22, <2>1 DEF Still
  <2>3. \A p \in Objs : p # n => s1.obj[p] = st.obj[p]
    BY <1>0, <1>14
  <2> QED
    BY <1>19, <1>22, <2>2, <2>3 DEF Still, Moves
<1>25. Respects(st, t) /\ \A e \in Fds : st.kern[e].listening => t.kern[e].listening
  <2>1. \A e \in Fds : st.kern[e].listening => t.kern[e].listening
    BY <1>2, <1>13, <1>24, ClosedTyped DEF SameFd
  <2> QED
    BY <1>24, <2>1 DEF Respects
<1>26. s2 = IF kind = "ssl" /\ ~hs THEN Destroy(t, {n}) ELSE t
  <2>1. x = [NewObj(st.obj[l].kind, st.obj[l].family) EXCEPT
              !.fd = d, !.connected = TRUE, !.ssl = IF st.obj[l].kind = "ssl" THEN d ELSE NoFd]
    BY <1>3, <1>4, <1>8
  <2> QED
    BY <1>1, <1>9, <1>10, <1>12, <1>14, <1>18, <1>21, <2>1 DEF Accept
<1>27. CASE s2 = t
  BY <1>23, <1>24, <1>25, <1>27
<1>28. CASE s2 = Destroy(t, {n})
  <2>1. /\ Good(s2) /\ Closes(t, s2, FdsOf(t, {n}))
        /\ \A p \in Objs : s2.obj[p] = IF p \in {n} THEN Gone ELSE t.obj[p]
    BY <1>23, <1>28, DestroyEnds
  <2>2. FdsOf(t, {n}) = {d}
    BY <1>24 DEF FdsOf, Fd
  <2>3. \A e \in Fds : st.kern[e].listening => s2.kern[e].listening
    BY <1>2, <1>25, <2>1, <2>2, ClosedTyped DEF Closes
  <2>4. Respects(st, s2)
    <3> SUFFICES ASSUME NEW a \in UnixAddrs, NEW e \in Fds, st.path[a] = e, st.kern[e].listening
                 PROVE  s2.path[a] = e
      BY DEF Respects
    <3>1. e # d /\ t.path[a] = e
      BY <1>2, <1>24, ClosedTyped
    <3> QED
      BY <2>1, <2>2, <3>1 DEF Closes
  <2> QED
    BY <1>24, <2>1, <2>3, <2>4
<1> QED
  BY <1>26, <1>27, <1>28

----------------------------------------------------------------------------
(* The invariant of the server, and the end of an action. *)

Fine(st, h, ss, b, lp, c, stopped, tasks, early, lost) ==
  /\ Good(st) /\ InLive(st, h, ss, b, lp, c) /\ Apart(h, ss, b, lp, c) /\ Serves(st, ss, c)
  /\ Stoppable(st, ss, lp, stopped, tasks, lost) /\ Separate(st, lp, stopped, tasks, early)

LEMMA InvFine ==
  Inv <=> /\ Fine(Now, held, socks, bind, loop, clients, isStop, stops, hasty, orphaned)
          /\ stops \in Nat /\ isStop \in BOOLEAN /\ hasty \in BOOLEAN /\ orphaned \in BOOLEAN
          /\ ~hasty => ~aborted
BY DEF Inv, Fine

(* Nothing that is in use is destroyed, and no path but those of closed fds. *)
Keeps(st, s2) ==
  \A a \in UnixAddrs, d \in Fds : st.path[a] = d /\ s2.kern[d].listening => s2.path[a] = d

LEMMA KeepsOn ==
  ASSUME NEW st, NEW s1, NEW s2, Respects(st, s1), Keeps(s1, s2),
         \A d \in Fds : s2.kern[d].listening => s1.kern[d].listening
  PROVE  Respects(st, s2)
BY DEF Respects, Keeps

LEMMA Destroyed ==
  ASSUME NEW st, NEW h, NEW ss, NEW b, NEW lp, NEW c, NEW stopped, NEW tasks, NEW early, NEW lost,
         Fine(st, h, ss, b, lp, c, stopped, tasks, early, lost),
         NEW s2, s2 = Destroy(st, Lost(st, InUse(h, ss, b, lp, c)))
  PROVE  Fine(s2, h, ss, b, lp, c, stopped, tasks, early, lost) /\ Keeps(st, s2)
         /\ \A d \in Fds : s2.kern[d].listening => st.kern[d].listening
<1> DEFINE use == InUse(h, ss, b, lp, c)
           os == Lost(st, use)
<1>0. Good(st) /\ InLive(st, h, ss, b, lp, c)
  BY DEF Fine
<1>1. os \in SUBSET Live(st)
  BY DEF Lost, Live
<1>2. /\ Good(s2) /\ Closes(st, s2, FdsOf(st, os))
      /\ \A p \in Objs : s2.obj[p] = IF p \in os THEN Gone ELSE st.obj[p]
  BY <1>0, <1>1, DestroyEnds
<1>3. \A p \in Live(st) : p \in use => p \in Live(s2) /\ s2.obj[p] = st.obj[p]
  BY <1>2 DEF Live, Lost
<1>4. /\ \A p \in h : p \in use
      /\ \A p \in c : p \in use
      /\ \A p \in ToSet(ss) : p \in use
      /\ b.sock \in use
      /\ \A i \in Loops : lp[i].sock \in use
  BY DEF InUse
<1> HIDE DEF use
<1>5. InLive(s2, h, ss, b, lp, c)
  BY <1>0, <1>3, <1>4 DEF InLive
<1>6. Serves(s2, ss, c)
  <2>1. ASSUME NEW p \in ToSet(ss)
        PROVE  s2.obj[p].fd # NoFd /\ s2.kern[s2.obj[p].fd].listening
    <3>1. p \in Live(st) /\ s2.obj[p] = st.obj[p]
      BY <1>0, <1>3, <1>4 DEF InLive
    <3>2. st.obj[p].fd # NoFd /\ st.kern[st.obj[p].fd].listening
      BY DEF Fine, Serves
    <3>3. st.obj[p].fd \in Fds
      BY <1>0, <3>1, <3>2, GoodParts
    <3>4. ASSUME NEW q \in os, st.obj[q].fd = st.obj[p].fd
          PROVE  FALSE
      <4>1. q = p
        BY <1>0, <1>1, <3>1, <3>2, <3>4 DEF Good, Owned
      <4> QED
        BY <1>4, <4>1 DEF Lost
    <3>5. st.obj[p].fd \notin FdsOf(st, os)
      BY <3>4 DEF FdsOf, Fd
    <3>6. s2.kern[st.obj[p].fd] = st.kern[st.obj[p].fd]
      BY <1>2, <3>3, <3>5 DEF Closes
    <3> QED
      BY <3>1, <3>2, <3>6
  <2>2. \A p \in c : s2.obj[p].connected
    BY <1>0, <1>3, <1>4 DEF InLive, Fine, Serves
  <2> QED
    BY <2>1, <2>2 DEF Serves
<1>7. \A i \in Loops : lp[i] # NoLoop => s2.obj[lp[i].sock] = st.obj[lp[i].sock]
  BY <1>0, <1>3, <1>4 DEF InLive
<1>8. Stoppable(s2, ss, lp, stopped, tasks, lost)
  BY <1>7 DEF Fine, Stoppable
<1>9. Separate(s2, lp, stopped, tasks, early)
  <2>1. \A i \in Loops : lp[i].fd # NoFd => lp[i] # NoLoop
    BY DEF NoLoop
  <2> QED
    BY <1>7, <2>1 DEF Fine, Separate
<1>10. Keeps(st, s2)
  <2> SUFFICES ASSUME NEW a \in UnixAddrs, NEW d \in Fds, st.path[a] = d, s2.kern[d].listening
               PROVE  s2.path[a] = d
    BY DEF Keeps
  <2>1. d \notin FdsOf(st, os)
    BY <1>2, ClosedTyped DEF Closes
  <2> QED
    BY <1>2, <2>1 DEF Closes
<1>11. \A d \in Fds : s2.kern[d].listening => st.kern[d].listening
  BY <1>2, ClosedTyped DEF Closes
<1> QED
  BY <1>2, <1>5, <1>6, <1>8, <1>9, <1>10, <1>11 DEF Fine

LEMMA NoLoopTyped == NoLoop \in LoopState /\ NoLoop.fd = NoFd /\ NoLoop.pc = "none"
BY DEF NoLoop, LoopState

(* close() only moves loops that waited. *)
LEMMA CutLoops ==
  ASSUME NEW st, NEW lp \in [Loops -> LoopState], NEW how \in {"woken", "stuck"},
         NEW lp2, lp2 = AfterClose(st, lp, how)
  PROVE  /\ lp2 \in [Loops -> LoopState]
         /\ \A i \in Loops : /\ lp2[i].sock = lp[i].sock /\ lp2[i].fd = lp[i].fd
                             /\ (lp2[i] = NoLoop <=> lp[i] = NoLoop)
                             /\ lp2[i] = lp[i] \/ lp2[i].pc = how
                             /\ lp2[i].pc = "wait" => lp2[i] = lp[i] /\ st.kern[lp[i].fd].listening
<1>1. ASSUME NEW i \in Loops
      PROVE  /\ lp2[i] \in LoopState /\ lp2[i].sock = lp[i].sock /\ lp2[i].fd = lp[i].fd
             /\ (lp2[i] = NoLoop <=> lp[i] = NoLoop)
             /\ lp2[i] = lp[i] \/ lp2[i].pc = how
             /\ lp2[i].pc = "wait" => lp2[i] = lp[i] /\ st.kern[lp[i].fd].listening
  <2>0. lp[i] \in LoopState
    OBVIOUS
  <2>1. CASE Cut(st, lp[i])
    <3>1. lp2[i] = [lp[i] EXCEPT !.pc = how]
      BY <2>1 DEF AfterClose
    <3>2. lp2[i] \in LoopState /\ lp2[i].sock = lp[i].sock /\ lp2[i].fd = lp[i].fd /\ lp2[i].pc = how
      BY <2>0, <3>1 DEF LoopState
    <3>3. lp[i] # NoLoop /\ lp2[i] # NoLoop
      BY <2>1, <3>2, NoLoopTyped DEF Cut
    <3> QED
      BY <3>2, <3>3
  <2>2. CASE ~Cut(st, lp[i])
    <3>1. lp2[i] = lp[i]
      BY <2>2 DEF AfterClose
    <3> QED
      BY <2>0, <2>2, <3>1 DEF Cut
  <2> QED
    BY <2>1, <2>2
<1>2. lp2 \in [Loops -> LoopState]
  BY <1>1 DEF AfterClose
<1> QED
  BY <1>1, <1>2

LEMMA CutFine ==
  ASSUME NEW st, NEW h, NEW ss, NEW b, NEW lp, NEW c, NEW stopped, NEW tasks, NEW early, NEW lost,
         Fine(st, h, ss, b, lp, c, stopped, tasks, early, lost), NEW how \in {"woken", "stuck"}
  PROVE  Fine(st, h, ss, b, AfterClose(st, lp, how), c, stopped, tasks, early, lost)
<1>1. PICK lp2 : lp2 = AfterClose(st, lp, how)
  OBVIOUS
<1>2. lp \in [Loops -> LoopState]
  BY DEF Fine, InLive
<1>3. /\ lp2 \in [Loops -> LoopState]
      /\ \A i \in Loops : /\ lp2[i].sock = lp[i].sock /\ lp2[i].fd = lp[i].fd
                          /\ (lp2[i] = NoLoop <=> lp[i] = NoLoop)
                          /\ lp2[i] = lp[i] \/ lp2[i].pc = how
                          /\ lp2[i].pc = "wait" => lp2[i] = lp[i] /\ st.kern[lp[i].fd].listening
  BY <1>1, <1>2, CutLoops
<1>4. InLive(st, h, ss, b, lp2, c)
  <2>1. \A i \in Loops : lp2[i] # NoLoop =>
          lp2[i].pc # "none" /\ lp2[i].sock \in Live(st) /\ (lp2[i].pc \in {"wait", "stray"} => lp2[i].fd \in Fds)
    BY <1>3 DEF Fine, InLive
  <2> QED
    BY <1>3, <2>1 DEF Fine, InLive
<1>5. Apart(h, ss, b, lp2, c)
  BY <1>3 DEF Fine, Apart
<1>6. Stoppable(st, ss, lp2, stopped, tasks, lost)
  BY <1>3 DEF Fine, Stoppable
<1>7. Separate(st, lp2, stopped, tasks, early)
  BY <1>3 DEF Fine, Separate
<1> QED
  BY <1>1, <1>4, <1>5, <1>6, <1>7 DEF Fine

LEMMA Committed ==
  ASSUME NEW st, NEW h, NEW ss, NEW b, NEW lp, NEW c, NEW ends \in {OnWorker, Elsewhere},
         Fine(st, h, ss, b, lp, c, isStop', stops', hasty', orphaned'),
         Respects(Now, st), Commit(st, h, ss, b, lp, c, ends),
         stops' \in Nat, isStop' \in BOOLEAN, hasty' \in BOOLEAN, orphaned' \in BOOLEAN,
         ~hasty' => ~aborted'
  PROVE  Inv' /\ Respects(Now, Now')
<1>1. PICK s2 : s2 = Destroy(st, Lost(st, InUse(h, ss, b, lp, c)))
  OBVIOUS
<1>2. Fine(s2, h, ss, b, lp, c, isStop', stops', hasty', orphaned') /\ Keeps(st, s2)
      /\ \A d \in Fds : s2.kern[d].listening => st.kern[d].listening
  BY <1>1, Destroyed
<1>3. Good(s2)
  BY <1>2 DEF Fine
<1>4. s2 = [obj |-> s2.obj, kern |-> s2.kern, path |-> s2.path]
  BY <1>3, GoodParts
<1>5. obj' = s2.obj /\ kern' = s2.kern /\ path' = s2.path
      /\ held' = h /\ socks' = ss /\ bind' = b /\ clients' = c
  BY <1>1 DEF Commit
<1>6. PICK how \in {"woken", "stuck"} : loop' = AfterClose(s2, lp, how)
  BY <1>1 DEF Commit, OnWorker, Elsewhere
<1>7. Now' = s2
  BY <1>4, <1>5 DEF Now
<1>8. Fine(s2, h, ss, b, AfterClose(s2, lp, how), c, isStop', stops', hasty', orphaned')
  BY <1>2, CutFine
<1>9. Fine(Now', held', socks', bind', loop', clients', isStop', stops', hasty', orphaned')
  BY <1>5, <1>6, <1>7, <1>8
<1>10. Respects(Now, s2)
  BY <1>2, KeepsOn
<1> QED
  BY <1>7, <1>9, <1>10 DEF Inv, Fine

(* An operation on a socket that is not the server's, its loops' or a client. *)
LEMMA MovesFine ==
  ASSUME NEW st, NEW h, NEW ss, NEW b, NEW lp, NEW c, NEW stopped, NEW tasks, NEW early, NEW lost,
         Fine(st, h, ss, b, lp, c, stopped, tasks, early, lost), NEW o \in Live(st),
         o \notin ToSet(ss) \cup c, \A i \in Loops : o # lp[i].sock, NEW s2, Moves(st, s2, o)
  PROVE  Fine(s2, h, ss, b, lp, c, stopped, tasks, early, lost)
<1>0. Good(st) /\ InLive(st, h, ss, b, lp, c)
  BY DEF Fine
<1>1. Good(s2) /\ Live(s2) = Live(st)
  BY MovesLive
<1>2. \A p \in Live(st) : p # o => s2.obj[p] = st.obj[p]
  BY DEF Moves, Live
<1>3. InLive(s2, h, ss, b, lp, c)
  BY <1>0, <1>1 DEF InLive
<1>4. Serves(s2, ss, c)
  <2>1. ASSUME NEW p \in ToSet(ss)
        PROVE  s2.obj[p].fd # NoFd /\ s2.kern[s2.obj[p].fd].listening
    <3>1. p \in Live(st) /\ p # o
      BY <1>0 DEF InLive
    <3>2. st.obj[p].fd # NoFd /\ st.kern[st.obj[p].fd].listening
      BY DEF Fine, Serves
    <3>3. st.obj[p].fd \in Fds /\ st.obj[p].fd # st.obj[o].fd
      BY <1>0, <3>1, <3>2, GoodParts DEF Good, Owned
    <3> QED
      BY <1>2, <3>1, <3>2, <3>3 DEF Moves
  <2>2. \A p \in c : s2.obj[p].connected
    BY <1>0, <1>2 DEF InLive, Fine, Serves
  <2> QED
    BY <2>1, <2>2 DEF Serves
<1>5. \A i \in Loops : lp[i] # NoLoop => s2.obj[lp[i].sock] = st.obj[lp[i].sock]
  BY <1>0, <1>2 DEF InLive
<1>6. Stoppable(s2, ss, lp, stopped, tasks, lost)
  BY <1>5 DEF Fine, Stoppable
<1>7. Separate(s2, lp, stopped, tasks, early)
  <2>1. \A i \in Loops : lp[i].fd # NoFd => lp[i] # NoLoop
    BY DEF NoLoop
  <2> QED
    BY <1>5, <2>1 DEF Fine, Separate
<1> QED
  BY <1>1, <1>3, <1>4, <1>6, <1>7 DEF Fine

(* Nobody has a new socket yet. *)
LEMMA LoopSocks ==
  ASSUME NEW st, NEW h, NEW ss, NEW b, NEW lp, NEW c, InLive(st, h, ss, b, lp, c)
  PROVE  /\ \A i \in Loops : lp[i].sock \in Live(st) \cup {None} /\ (lp[i].sock = None <=> lp[i] = NoLoop)
         /\ b.sock \in Live(st) \cup {None}
<1>1. None \notin Live(st)
  BY FdFacts DEF Live
<1> QED
  BY <1>1 DEF InLive, NoLoop

LEMMA AddFine ==
  ASSUME NEW st, NEW h, NEW ss, NEW b, NEW lp, NEW c, NEW stopped, NEW tasks, NEW early, NEW lost,
         Fine(st, h, ss, b, lp, c, stopped, tasks, early, lost), NEW o \in Objs, st.obj[o] = Gone,
         NEW x, NEW s2, Added(st, s2, o, x)
  PROVE  /\ Fine(s2, h, ss, b, lp, c, stopped, tasks, early, lost)
         /\ o \in Live(s2) /\ o \notin h \cup ToSet(ss) \cup c /\ o # b.sock
         /\ (\A i \in Loops : o # lp[i].sock) /\ o # None
<1>0. Good(st) /\ InLive(st, h, ss, b, lp, c)
  BY DEF Fine
<1>1. /\ Good(s2) /\ Live(s2) = Live(st) \cup {o} /\ s2.kern = st.kern
      /\ \A p \in Live(st) : s2.obj[p] = st.obj[p]
  BY DEF Added, Live
<1>2. o \notin Live(st) /\ o # None
  BY FdFacts DEF Live
<1>3. o \notin h \cup ToSet(ss) \cup c /\ o # b.sock /\ \A i \in Loops : o # lp[i].sock
  <2>1. o \notin h \cup ToSet(ss) \cup c
    BY <1>0, <1>2 DEF InLive
  <2>2. b.sock \in Live(st) \cup {None} /\ \A i \in Loops : lp[i].sock \in Live(st) \cup {None}
    BY <1>0, LoopSocks
  <2> QED
    BY <1>2, <2>1, <2>2
<1>4. InLive(s2, h, ss, b, lp, c)
  BY <1>0, <1>1 DEF InLive
<1>5. Serves(s2, ss, c)
  <2>1. \A p \in ToSet(ss) \cup c : s2.obj[p] = st.obj[p]
    BY <1>0, <1>1 DEF InLive
  <2> QED
    BY <1>1, <2>1 DEF Fine, Serves
<1>6. \A i \in Loops : lp[i] # NoLoop => s2.obj[lp[i].sock] = st.obj[lp[i].sock]
  BY <1>0, <1>1 DEF InLive
<1>7. Stoppable(s2, ss, lp, stopped, tasks, lost)
  BY <1>6 DEF Fine, Stoppable
<1>8. Separate(s2, lp, stopped, tasks, early)
  <2>1. \A i \in Loops : lp[i].fd # NoFd => lp[i] # NoLoop
    BY DEF NoLoop
  <2> QED
    BY <1>6, <2>1 DEF Fine, Separate
<1> QED
  BY <1>1, <1>2, <1>3, <1>4, <1>5, <1>7, <1>8 DEF Fine

----------------------------------------------------------------------------
(* The program's own sockets: one lemma for each action. *)

LEMMA RespectsItself == \A st : Respects(st, st)
BY DEF Respects

LEMMA CreateInv ==
  ASSUME Inv, NEW o \in Objs, NEW kind \in Kinds, NEW a \in Addrs, Create(o, kind, a)
  PROVE  Inv' /\ Respects(Now, Now')
<1>0. Fine(Now, held, socks, bind, loop, clients, isStop, stops, hasty, orphaned) /\ Good(Now)
  BY InvFine DEF Fine
<1>1. PICK x : x = NewObj(kind, Family(a))
  OBVIOUS
<1>2. x \in SocketObj /\ x.fd = NoFd /\ ~x.connected /\ x.local = None
  BY <1>1, FamilyTyped, NewObjTyped, ServerAssumption
<1>3. PICK st : st = [Now EXCEPT !.obj[o] = x]
  OBVIOUS
<1>4. st = [obj |-> [Now.obj EXCEPT ![o] = x], kern |-> Now.kern, path |-> Now.path]
  BY <1>3 DEF Now
<1>5. Now.obj[o] = Gone /\ ProgramDoes(st, held \cup {o})
  BY <1>1, <1>3 DEF Create, Fresh, Now
<1>6. Added(Now, st, o, x)
  BY <1>0, <1>2, <1>4, <1>5, AddObj
<1>7. /\ Fine(st, held, socks, bind, loop, clients, isStop, stops, hasty, orphaned)
      /\ o \in Live(st) /\ o \notin held \cup ToSet(socks) \cup clients /\ o # bind.sock
      /\ (\A i \in Loops : o # loop[i].sock) /\ o # None
  BY <1>0, <1>5, <1>6, AddFine
<1>8. Fine(st, held \cup {o}, socks, bind, loop, clients, isStop, stops, hasty, orphaned)
  <2>1. InLive(st, held \cup {o}, socks, bind, loop, clients)
    BY <1>7 DEF Fine, InLive
  <2>2. Apart(held \cup {o}, socks, bind, loop, clients)
    BY <1>7 DEF Fine, Apart
  <2> QED
    BY <1>7, <2>1, <2>2 DEF Fine
<1>9. Respects(Now, st)
  BY <1>6 DEF Added, Respects
<1>10. Commit(st, held \cup {o}, socks, bind, loop, clients, Elsewhere)
       /\ UNCHANGED <<isStop, stops, rounds, hasty, orphaned, aborted>>
  BY <1>5 DEF ProgramDoes, KeepServer
<1> QED
  BY <1>8, <1>9, <1>10, Committed DEF Inv

LEMMA SocketOpInv ==
  ASSUME Inv, NEW o \in Objs, NEW a \in Addrs, NEW handshake \in BOOLEAN, SocketOp(o, a, handshake)
  PROVE  Inv' /\ Respects(Now, Now')
<1>0. Fine(Now, held, socks, bind, loop, clients, isStop, stops, hasty, orphaned) /\ Good(Now)
  BY InvFine DEF Fine
<1>1. o \in held /\ o \in Live(Now)
  BY <1>0 DEF SocketOp, Fine, InLive
<1>2. PICK st \in {Bind(Now, o, a).st, Listen(Now, o).st, Connect(Now, o, a, handshake).st,
                   Reconnect(Now, o, handshake).st, Close(Now, o)} : ProgramDoes(st, held)
  BY DEF SocketOp
<1>3. Moves(Now, st, o) /\ Respects(Now, st)
  <2>1. CASE st = Bind(Now, o, a).st
    BY <1>0, <1>1, <2>1, BindMoves
  <2>2. CASE st = Listen(Now, o).st
    BY <1>0, <1>1, <2>2, ListenMoves DEF Respects
  <2>3. CASE st = Connect(Now, o, a, handshake).st
    BY <1>0, <1>1, <2>3, ConnectMoves
  <2>4. CASE st = Reconnect(Now, o, handshake).st
    BY <1>0, <1>1, <2>4, ReconnectMoves
  <2>5. CASE st = Close(Now, o)
    BY <1>0, <1>1, <2>5, CloseMoves
  <2> QED
    BY <1>2, <2>1, <2>2, <2>3, <2>4, <2>5
<1>4. o \notin ToSet(socks) \cup clients /\ \A i \in Loops : o # loop[i].sock
  BY <1>0, <1>1 DEF Fine, Apart
<1>5. Fine(st, held, socks, bind, loop, clients, isStop, stops, hasty, orphaned)
  BY <1>0, <1>1, <1>3, <1>4, MovesFine
<1>6. Commit(st, held, socks, bind, loop, clients, Elsewhere)
      /\ UNCHANGED <<isStop, stops, rounds, hasty, orphaned, aborted>>
  BY <1>2 DEF ProgramDoes, KeepServer
<1> QED
  BY <1>3, <1>5, <1>6, Committed DEF Inv

(* Less is held, or fewer clients wait. *)
LEMMA LessFine ==
  ASSUME NEW st, NEW h, NEW ss, NEW b, NEW lp, NEW c, NEW stopped, NEW tasks, NEW early, NEW lost,
         Fine(st, h, ss, b, lp, c, stopped, tasks, early, lost), NEW h2 \in SUBSET h, NEW c2 \in SUBSET c
  PROVE  Fine(st, h2, ss, b, lp, c2, stopped, tasks, early, lost)
<1>1. InLive(st, h2, ss, b, lp, c2)
  BY DEF Fine, InLive
<1>2. Apart(h2, ss, b, lp, c2)
  BY DEF Fine, Apart
<1>3. Serves(st, ss, c2)
  BY DEF Fine, Serves
<1> QED
  BY <1>1, <1>2, <1>3 DEF Fine

LEMMA DropInv ==
  ASSUME Inv, NEW o \in Objs, Drop(o)
  PROVE  Inv' /\ Respects(Now, Now')
<1>1. Fine(Now, held, socks, bind, loop, clients, isStop, stops, hasty, orphaned)
  BY InvFine
<1>2. Fine(Now, held \ {o}, socks, bind, loop, clients, isStop, stops, hasty, orphaned)
  BY <1>1, LessFine
<1>3. Commit(Now, held \ {o}, socks, bind, loop, clients, Elsewhere)
      /\ UNCHANGED <<isStop, stops, rounds, hasty, orphaned, aborted>>
  BY DEF Drop, ProgramDoes, KeepServer
<1> QED
  BY <1>2, <1>3, RespectsItself, Committed DEF Inv

LEMMA HandleClientInv ==
  ASSUME Inv, NEW o \in Objs, HandleClient(o)
  PROVE  Inv' /\ Respects(Now, Now')
<1>1. Fine(Now, held, socks, bind, loop, clients, isStop, stops, hasty, orphaned)
  BY InvFine
<1>2. Fine(Now, held, socks, bind, loop, clients \ {o}, isStop, stops, hasty, orphaned)
  BY <1>1, LessFine
<1>3. Commit(Now, held, socks, bind, loop, clients \ {o}, Elsewhere)
      /\ UNCHANGED <<isStop, stops, rounds, hasty, orphaned, aborted>>
  BY DEF HandleClient
<1> QED
  BY <1>2, <1>3, RespectsItself, Committed DEF Inv

----------------------------------------------------------------------------
(* TcpServer::bind. *)

(* No socket is between bind and listen. *)
LEMMA NoSockFine ==
  ASSUME NEW st, NEW h, NEW ss, NEW b, NEW lp, NEW c, NEW stopped, NEW tasks, NEW early, NEW lost,
         Fine(st, h, ss, b, lp, c, stopped, tasks, early, lost), NEW b2 \in BindCall, b2.sock = None,
         b2.todo # <<>> => b2.kind # "none"
  PROVE  Fine(st, h, ss, b2, lp, c, stopped, tasks, early, lost)
<1>1. InLive(st, h, ss, b2, lp, c)
  BY DEF Fine, InLive
<1>2. None \notin h \cup c
  BY FdFacts DEF Fine, InLive, Live
<1>3. Apart(h, ss, b2, lp, c)
  BY <1>2 DEF Fine, Apart
<1> QED
  BY <1>1, <1>3 DEF Fine

LEMMA BindListTyped == \A l \in BindLists : l \in Seq(Addrs)
<1> SUFFICES ASSUME NEW l \in BindLists
             PROVE  l \in Seq(Addrs)
  OBVIOUS
<1>1. PICK n \in 1..2 : l \in [1..n -> Addrs]
  BY DEF BindLists
<1> QED
  BY <1>1

LEMMA BindBeginInv ==
  ASSUME Inv, NEW addrs \in BindLists, NEW kind \in ServerKinds, BindBegin(addrs, kind)
  PROVE  Inv' /\ Respects(Now, Now')
<1>0. Fine(Now, held, socks, bind, loop, clients, isStop, stops, hasty, orphaned)
  BY InvFine
<1>1. PICK b : b = [NoBind EXCEPT !.todo = addrs, !.kind = kind]
  OBVIOUS
<1>2. b \in BindCall /\ b.sock = None /\ b.kind # "none"
  <2>1. addrs \in Seq(Addrs) /\ kind \in {"tcp", "ssl"}
    BY BindListTyped, ServerAssumption
  <2>2. b = [todo |-> addrs, kind |-> kind, sock |-> None, failed |-> FALSE]
    BY <1>1 DEF NoBind
  <2>3. FALSE \in BOOLEAN
    OBVIOUS
  <2>4. \A f \in BOOLEAN : [todo |-> addrs, kind |-> kind, sock |-> None, failed |-> f] \in BindCall
    BY <2>1 DEF BindCall
  <2>5. b \in BindCall
    BY <2>2, <2>3, <2>4, Zenon
  <2> QED
    BY <2>1, <2>2, <2>5
<1>3. Fine(Now, held, socks, b, loop, clients, isStop, stops, hasty, orphaned)
  BY <1>0, <1>2, NoSockFine
<1>4. Commit(Now, held, socks, b, loop, clients, Elsewhere) /\ UNCHANGED <<isStop, stops, hasty, orphaned, aborted>>
  BY <1>1 DEF BindBegin, BindStep
<1> QED
  BY <1>3, <1>4, RespectsItself, Committed DEF Inv

LEMMA BindOneInv ==
  ASSUME Inv, NEW o \in Objs, BindOne(o)
  PROVE  Inv' /\ Respects(Now, Now')
<1>0. Fine(Now, held, socks, bind, loop, clients, isStop, stops, hasty, orphaned) /\ Good(Now)
  BY InvFine DEF Fine
<1>1. bind \in BindCall /\ bind.todo # <<>> /\ bind.sock = None /\ bind.kind \in {"tcp", "ssl"}
      /\ Now.obj[o] = Gone
  BY <1>0 DEF BindOne, Fine, InLive, Fresh, BindCall, Now
<1>2. PICK a \in Addrs : a = Head(bind.todo)
  BY <1>1, HeadTailProperties DEF BindCall
<1>3. PICK x : x = NewObj(bind.kind, Family(a))
  OBVIOUS
<1>4. x \in SocketObj /\ x.fd = NoFd /\ ~x.connected /\ x.local = None
  BY <1>1, <1>3, FamilyTyped, NewObjTyped
<1>5. PICK s1 : s1 = [Now EXCEPT !.obj[o] = x]
  OBVIOUS
<1>6. s1 = [obj |-> [Now.obj EXCEPT ![o] = x], kern |-> Now.kern, path |-> Now.path]
  BY <1>5 DEF Now
<1>7. Added(Now, s1, o, x)
  BY <1>0, <1>1, <1>4, <1>6, AddObj
<1>8. /\ Fine(s1, held, socks, bind, loop, clients, isStop, stops, hasty, orphaned)
      /\ o \in Live(s1) /\ o \notin held \cup ToSet(socks) \cup clients /\ o # bind.sock
      /\ (\A i \in Loops : o # loop[i].sock) /\ o # None
  BY <1>0, <1>1, <1>7, AddFine
<1>9. PICK r : r = Bind(s1, o, a)
  OBVIOUS
<1>10. Moves(s1, r.st, o) /\ Respects(s1, r.st)
  BY <1>8, <1>9, BindMoves DEF Fine
<1>11. Fine(r.st, held, socks, bind, loop, clients, isStop, stops, hasty, orphaned)
  BY <1>8, <1>10, MovesFine
<1>12. Respects(Now, r.st)
  BY <1>7, <1>10 DEF Added, Respects
<1>13. PICK b : b = IF r.ok THEN [bind EXCEPT !.sock = o]
                    ELSE [bind EXCEPT !.todo = Tail(@), !.failed = TRUE]
  OBVIOUS
<1>14. BindStep(r.st, socks, b) /\ UNCHANGED <<rounds, orphaned>>
  BY <1>2, <1>3, <1>5, <1>9, <1>13 DEF BindOne
<1>15. Fine(r.st, held, socks, b, loop, clients, isStop, stops, hasty, orphaned)
  <2>1. CASE r.ok
    <3>1. b = [bind EXCEPT !.sock = o]
      BY <1>13, <2>1
    <3>2. b \in BindCall /\ b.sock = o /\ b.todo # <<>> /\ b.kind # "none"
      BY <1>1, <3>1 DEF BindCall
    <3>3. o \in Live(r.st)
      BY <1>8, <1>10, MovesLive
    <3>4. InLive(r.st, held, socks, b, loop, clients)
      BY <1>11, <3>2, <3>3 DEF Fine, InLive
    <3>5. Apart(held, socks, b, loop, clients)
      BY <1>8, <1>11, <3>2 DEF Fine, Apart
    <3> QED
      BY <1>11, <3>4, <3>5 DEF Fine
  <2>2. CASE ~r.ok
    <3>1. b = [bind EXCEPT !.todo = Tail(@), !.failed = TRUE]
      BY <1>13, <2>2
    <3>2. Tail(bind.todo) \in Seq(Addrs)
      BY <1>1, HeadTailProperties DEF BindCall
    <3>3. \A f \in BOOLEAN : [bind EXCEPT !.todo = Tail(@), !.failed = f] \in BindCall
      BY <1>1, <3>2 DEF BindCall
    <3>4. TRUE \in BOOLEAN
      OBVIOUS
    <3>5. b \in BindCall
      BY <3>1, <3>3, <3>4, Zenon
    <3>6. b.sock = None /\ b.kind # "none"
      BY <1>1, <3>1 DEF BindCall
    <3> QED
      BY <1>11, <3>5, <3>6, NoSockFine
  <2> QED
    BY <2>1, <2>2
<1>16. Commit(r.st, held, socks, b, loop, clients, Elsewhere) /\ UNCHANGED <<isStop, stops, hasty, orphaned, aborted>>
  BY <1>14 DEF BindStep
<1> QED
  BY <1>12, <1>15, <1>16, Committed DEF Inv

LEMMA ToSetAppend ==
  ASSUME NEW S, NEW s \in Seq(S), NEW e \in S
  PROVE  /\ Append(s, e) \in Seq(S) /\ ToSet(Append(s, e)) = ToSet(s) \cup {e}
         /\ Len(Append(s, e)) = Len(s) + 1 /\ Append(s, e)[Len(s) + 1] = e
         /\ \A j \in 1..Len(s) : Append(s, e)[j] = s[j]
<1>1. /\ Append(s, e) \in Seq(S) /\ Len(Append(s, e)) = Len(s) + 1 /\ Append(s, e)[Len(s) + 1] = e
      /\ \A j \in 1..Len(s) : Append(s, e)[j] = s[j]
  OBVIOUS
<1>2. ToSet(Append(s, e)) = ToSet(s) \cup {e}
  <2>1. Len(s) \in Nat
    OBVIOUS
  <2>2. ToSet(Append(s, e)) \subseteq ToSet(s) \cup {e}
    BY <1>1, <2>1 DEF ToSet
  <2>3. ToSet(s) \cup {e} \subseteq ToSet(Append(s, e))
    BY <1>1, <2>1 DEF ToSet
  <2> QED
    BY <2>2, <2>3
<1> QED
  BY <1>1, <1>2

LEMMA BindListenInv ==
  ASSUME Inv, BindListen
  PROVE  Inv' /\ Respects(Now, Now')
<1>0. Fine(Now, held, socks, bind, loop, clients, isStop, stops, hasty, orphaned) /\ Good(Now)
  BY InvFine DEF Fine
<1>1. bind \in BindCall /\ bind.todo # <<>> /\ bind.sock \in Live(Now) /\ bind.kind # "none"
      /\ bind.sock # None
  BY <1>0 DEF BindListen, Fine, InLive
<1>2. PICK o : o = bind.sock
  OBVIOUS
<1>3. /\ o \in Live(Now) /\ o \in Objs /\ o \notin ToSet(socks) \cup clients \cup held
      /\ \A i \in Loops : o # loop[i].sock
  BY <1>0, <1>1, <1>2 DEF Fine, Apart, Live
<1>4. PICK l : l = Listen(Now, o)
  OBVIOUS
<1>5. PICK refused \in BOOLEAN, ok \in BOOLEAN :
        /\ ok = (l.ok /\ ~refused)
        /\ BindStep(IF refused THEN Now ELSE l.st, IF ok THEN Append(socks, o) ELSE socks,
                    [bind EXCEPT !.todo = Tail(@), !.sock = None, !.failed = @ \/ ~ok])
        /\ UNCHANGED <<rounds, orphaned>>
  BY <1>2, <1>4 DEF BindListen, Listening
<1>6. PICK st : st = IF refused THEN Now ELSE l.st
  OBVIOUS
<1>7. /\ Moves(Now, l.st, o) /\ l.st.path = Now.path
      /\ l.ok => l.st.obj[o].fd # NoFd /\ l.st.kern[l.st.obj[o].fd].listening
  BY <1>0, <1>3, <1>4, ListenMoves
<1>8. Moves(Now, st, o) /\ Respects(Now, st)
  BY <1>0, <1>3, <1>6, <1>7, MovesNot, RespectsItself DEF Respects
<1>9. Fine(st, held, socks, bind, loop, clients, isStop, stops, hasty, orphaned)
  BY <1>0, <1>3, <1>8, MovesFine
<1>10. PICK b : b = [bind EXCEPT !.todo = Tail(@), !.sock = None, !.failed = @ \/ ~ok]
  OBVIOUS
<1>11. b \in BindCall /\ b.sock = None /\ b.kind # "none"
  <2>1. Tail(bind.todo) \in Seq(Addrs)
    BY <1>1, HeadTailProperties DEF BindCall
  <2>2. \A f \in BOOLEAN : [bind EXCEPT !.todo = Tail(@), !.sock = None, !.failed = f] \in BindCall
    BY <1>1, <2>1 DEF BindCall
  <2>3. (bind.failed \/ ~ok) \in BOOLEAN
    OBVIOUS
  <2>4. b = [bind EXCEPT !.todo = Tail(bind.todo), !.sock = None, !.failed = bind.failed \/ ~ok]
    BY <1>10
  <2>5. b \in BindCall
    BY <2>2, <2>3, <2>4, Zenon
  <2> QED
    BY <1>1, <2>4, <2>5 DEF BindCall
<1>12. Fine(st, held, socks, b, loop, clients, isStop, stops, hasty, orphaned)
  BY <1>9, <1>11, NoSockFine
<1>13. PICK ss : ss = IF ok THEN Append(socks, o) ELSE socks
  OBVIOUS
<1>14. Fine(st, held, ss, b, loop, clients, isStop, stops, hasty, orphaned)
  <2>1. CASE ~ok
    BY <1>12, <1>13, <2>1
  <2>2. CASE ok
    <3>0. ss = Append(socks, o) /\ st = l.st /\ l.ok
      BY <1>5, <1>6, <1>13, <2>2
    <3>1. socks \in Seq(Objs)
      BY <1>12 DEF Fine, InLive
    <3>2. ss \in Seq(Objs) /\ ToSet(ss) = ToSet(socks) \cup {o} /\ Len(ss) = Len(socks) + 1
          /\ ss[Len(socks) + 1] = o /\ \A j \in 1..Len(socks) : ss[j] = socks[j]
      BY <1>3, <3>0, <3>1, ToSetAppend
    <3>3. o \in Live(st)
      BY <1>3, <1>8, MovesLive
    <3>4. InLive(st, held, ss, b, loop, clients)
      BY <1>12, <3>2, <3>3 DEF Fine, InLive
    <3>5. \A j, k \in 1..Len(ss) : ss[j] = ss[k] => j = k
      <4>1. \A j \in 1..Len(socks) : socks[j] # o
        BY <1>3 DEF ToSet
      <4>2. \A j, k \in 1..Len(socks) : socks[j] = socks[k] => j = k
        BY <1>12 DEF Fine, Apart
      <4>3. Len(socks) \in Nat
        BY <3>1
      <4> QED
        BY <3>2, <4>1, <4>2, <4>3
    <3>6. Apart(held, ss, b, loop, clients)
      BY <1>3, <1>11, <1>12, <3>2, <3>5 DEF Fine, Apart
    <3>7. Serves(st, ss, clients)
      BY <1>7, <1>12, <3>0, <3>2 DEF Fine, Serves
    <3>8. Stoppable(st, ss, loop, isStop, stops, orphaned)
      BY <1>12, <3>2 DEF Fine, Stoppable
    <3> QED
      BY <1>12, <3>4, <3>6, <3>7, <3>8 DEF Fine
  <2> QED
    BY <2>1, <2>2
<1>15. Commit(st, held, ss, b, loop, clients, Elsewhere) /\ UNCHANGED <<isStop, stops, hasty, orphaned, aborted>>
  BY <1>5, <1>6, <1>10, <1>13 DEF BindStep
<1> QED
  BY <1>8, <1>14, <1>15, Committed DEF Inv

LEMMA NoBindTyped == NoBind \in BindCall /\ NoBind.sock = None /\ NoBind.todo = <<>>
<1>1. \A f \in BOOLEAN : [todo |-> <<>>, kind |-> "none", sock |-> None, failed |-> f] \in BindCall
  BY DEF BindCall
<1>2. FALSE \in BOOLEAN
  OBVIOUS
<1>3. NoBind \in BindCall
  BY <1>1, <1>2, Zenon DEF NoBind
<1> QED
  BY <1>3 DEF NoBind

(* The server forgets its sockets: those of its loops are lost to stop(). *)
LEMMA ForgetFine ==
  ASSUME NEW st, NEW h, NEW ss, NEW b, NEW lp, NEW c, NEW stopped, NEW tasks, NEW early, NEW lost,
         Fine(st, h, ss, b, lp, c, stopped, tasks, early, lost), NEW lost2,
         ~lost2 => \A i \in Loops : lp[i] # NoLoop => st.obj[lp[i].sock].fd = NoFd
  PROVE  Fine(st, h, <<>>, b, lp, c, stopped, tasks, early, lost2)
<1>1. <<>> \in Seq(Objs) /\ ToSet(<<>>) = {}
  BY DEF ToSet
<1>2. InLive(st, h, <<>>, b, lp, c)
  BY <1>1 DEF Fine, InLive
<1>3. Apart(h, <<>>, b, lp, c)
  BY <1>1 DEF Fine, Apart
<1>4. Serves(st, <<>>, c)
  BY <1>1 DEF Fine, Serves
<1>5. Stoppable(st, <<>>, lp, stopped, tasks, lost2)
  BY DEF Fine, Stoppable
<1> QED
  BY <1>2, <1>3, <1>4, <1>5 DEF Fine

LEMMA BindEndInv ==
  ASSUME Inv, BindEnd
  PROVE  Inv' /\ Respects(Now, Now')
<1>0. Fine(Now, held, socks, bind, loop, clients, isStop, stops, hasty, orphaned)
  BY InvFine
<1>1. Fine(Now, held, socks, NoBind, loop, clients, isStop, stops, hasty, orphaned)
  BY <1>0, NoBindTyped, NoSockFine
<1>2. PICK ss : ss = IF bind.failed THEN <<>> ELSE socks
  OBVIOUS
<1>3. Fine(Now, held, ss, NoBind, loop, clients, isStop, stops, hasty, orphaned')
  <2>1. CASE bind.failed
    <3>1. ~orphaned' => \A i \in Loops : loop[i] = NoLoop
      BY <2>1 DEF BindEnd
    <3> QED
      BY <1>1, <1>2, <2>1, <3>1, ForgetFine
  <2>2. CASE ~bind.failed
    <3>1. orphaned' = orphaned
      BY <2>2 DEF BindEnd, Inv
    <3> QED
      BY <1>1, <1>2, <2>2, <3>1
  <2> QED
    BY <2>1, <2>2
<1>4. Commit(Now, held, ss, NoBind, loop, clients, Elsewhere) /\ UNCHANGED <<isStop, stops, hasty, aborted>>
  BY <1>2 DEF BindEnd, BindStep, KeptSocks
<1>5. orphaned' \in BOOLEAN
  BY DEF BindEnd, Inv
<1> QED
  BY <1>3, <1>4, <1>5, RespectsItself, Committed DEF Inv

----------------------------------------------------------------------------
(* start(), stop() and the accept worker. *)

LEMMA StartInv ==
  ASSUME Inv, Start
  PROVE  Inv' /\ Respects(Now, Now')
<1>0. Fine(Now, held, socks, bind, loop, clients, isStop, stops, hasty, orphaned) /\ isStop
  BY InvFine DEF Start, MayStart
<1>1. PICK nth \in [Loops -> 0..Len(socks)] :
        /\ \A i \in Loops : nth[i] # 0 => loop[i] = NoLoop
        /\ \A i, j \in Loops : i # j /\ nth[i] # 0 => nth[i] # nth[j]
        /\ Commit(Now, held, socks, bind,
                  [i \in Loops |-> IF nth[i] = 0 THEN loop[i]
                                   ELSE [pc |-> "test", sock |-> socks[nth[i]], fd |-> NoFd]],
                  clients, Elsewhere)
  BY DEF Start
<1>2. PICK lp : lp = [i \in Loops |-> IF nth[i] = 0 THEN loop[i]
                                     ELSE [pc |-> "test", sock |-> socks[nth[i]], fd |-> NoFd]]
  OBVIOUS
<1>3. socks \in Seq(Objs) /\ loop \in [Loops -> LoopState]
  BY <1>0 DEF Fine, InLive
<1>4. ASSUME NEW i \in Loops, nth[i] # 0
      PROVE  /\ nth[i] \in 1..Len(socks) /\ socks[nth[i]] \in Objs /\ socks[nth[i]] \in ToSet(socks)
             /\ lp[i] = [pc |-> "test", sock |-> socks[nth[i]], fd |-> NoFd]
             /\ lp[i] \in LoopState /\ lp[i].sock = socks[nth[i]] /\ lp[i].fd = NoFd
             /\ lp[i].pc = "test"
  <2>1. nth[i] \in 1..Len(socks)
    BY <1>3, <1>4
  <2>2. socks[nth[i]] \in Objs /\ socks[nth[i]] \in ToSet(socks)
    BY <1>3, <2>1 DEF ToSet
  <2>3. lp[i] = [pc |-> "test", sock |-> socks[nth[i]], fd |-> NoFd]
    BY <1>2, <1>4
  <2> QED
    BY <2>1, <2>2, <2>3 DEF LoopState
<1>5. \A i \in Loops : nth[i] = 0 => lp[i] = loop[i]
  BY <1>2
<1>6. lp \in [Loops -> LoopState]
  BY <1>2, <1>3, <1>4, <1>5
<1>7. InLive(Now, held, socks, bind, lp, clients)
  <2>1. \A i \in Loops : nth[i] # 0 => lp[i].sock \in Live(Now) /\ lp[i].pc = "test"
    BY <1>0, <1>4 DEF Fine, InLive
  <2>2. \A i \in Loops : lp[i] # NoLoop =>
          lp[i].pc # "none" /\ lp[i].sock \in Live(Now) /\ (lp[i].pc \in {"wait", "stray"} => lp[i].fd \in Fds)
    BY <1>0, <1>5, <2>1 DEF Fine, InLive
  <2> QED
    BY <1>0, <1>6, <2>2 DEF Fine, InLive
<1>8. Apart(held, socks, bind, lp, clients)
  <2>0. Apart(held, socks, bind, loop, clients)
    BY <1>0 DEF Fine
  <2>1. \A i \in Loops : lp[i].sock = loop[i].sock \/ lp[i].sock \in ToSet(socks)
    BY <1>4, <1>5
  <2>2. \A o \in held \cup clients : \A i \in Loops : o # lp[i].sock
    BY <2>0, <2>1 DEF Apart
  <2>3. bind.sock # None => \A i \in Loops : bind.sock # lp[i].sock
    BY <2>0, <2>1 DEF Apart
  <2> QED
    BY <2>0, <2>2, <2>3 DEF Apart
<1>9. isStop' = FALSE /\ UNCHANGED <<stops, orphaned, aborted>>
      /\ hasty' = (hasty \/ (isStop /\ (stops > 0 \/ \E i \in Loops : loop[i] # NoLoop)))
  BY DEF Start
<1>10. Stoppable(Now, socks, lp, isStop', stops', orphaned')
  BY <1>0, <1>4, <1>5, <1>9 DEF Fine, Stoppable
<1>11. Separate(Now, lp, isStop', stops', hasty')
  <2> SUFFICES ASSUME ~hasty'
               PROVE  /\ \A i, j \in Loops : i # j /\ lp[i] # NoLoop => lp[i].sock # lp[j].sock
                      /\ \A i, j \in Loops : lp[i].fd = lp[j].fd /\ lp[i].fd # NoFd => i = j
                      /\ stops' = 0
                      /\ \A i \in Loops : lp[i].fd # NoFd => lp[i].fd = Now.obj[lp[i].sock].fd
    BY DEF Separate
  <2>1. ~(stops > 0) /\ \A i \in Loops : loop[i] = NoLoop
    BY <1>0, <1>9
  <2>2. stops' = 0
    BY <1>9, <2>1 DEF Inv
  <2>3. \A i \in Loops : lp[i].fd = NoFd
    <3>1. \A i \in Loops : nth[i] = 0 => lp[i].fd = NoFd
      BY <1>5, <2>1 DEF NoLoop
    <3>2. \A i \in Loops : nth[i] # 0 => lp[i].fd = NoFd
      BY <1>4
    <3> QED
      BY <3>1, <3>2
  <2>4. \A i \in Loops : lp[i] # NoLoop => nth[i] # 0
    BY <1>5, <2>1
  <2>5. ASSUME NEW i \in Loops, NEW j \in Loops, i # j, lp[i] # NoLoop
        PROVE  lp[i].sock # lp[j].sock
    <3>1. lp[i].sock = socks[nth[i]] /\ nth[i] \in 1..Len(socks) /\ nth[i] # nth[j]
          /\ lp[i].sock \in Objs
      BY <1>1, <1>4, <2>4, <2>5
    <3>2. CASE nth[j] = 0
      <4>1. lp[j].sock = None
        BY <1>5, <2>1, <3>2 DEF NoLoop
      <4> QED
        BY <3>1, <4>1, FdFacts
    <3>3. CASE nth[j] # 0
      <4>1. lp[j].sock = socks[nth[j]] /\ nth[j] \in 1..Len(socks)
        BY <1>4, <3>3
      <4> QED
        BY <1>0, <3>1, <4>1 DEF Fine, Apart
    <3> QED
      BY <3>2, <3>3
  <2> QED
    BY <2>2, <2>3, <2>5
<1>12. Fine(Now, held, socks, bind, lp, clients, isStop', stops', hasty', orphaned')
  BY <1>0, <1>7, <1>8, <1>10, <1>11 DEF Fine
<1>13. stops' \in Nat /\ isStop' \in BOOLEAN /\ hasty' \in BOOLEAN /\ orphaned' \in BOOLEAN
       /\ (~hasty' => ~aborted')
  BY <1>9 DEF Inv
<1> QED
  BY <1>1, <1>2, <1>12, <1>13, RespectsItself, Committed

LEMMA StopInv ==
  ASSUME Inv, Stop
  PROVE  Inv' /\ Respects(Now, Now')
<1>0. Fine(Now, held, socks, bind, loop, clients, isStop, stops, hasty, orphaned)
  BY InvFine
<1>1. isStop' = TRUE /\ stops' = stops + 1 /\ stops' \in Nat /\ stops' # 0
      /\ UNCHANGED <<obj, kern, path, held, socks, bind, loop, clients, hasty, orphaned, aborted>>
  BY DEF Stop, Inv
<1>2. Stoppable(Now, socks, loop, isStop', stops', orphaned)
  BY <1>0, <1>1 DEF Fine, Stoppable
<1>3. Separate(Now, loop, isStop', stops', hasty)
  BY <1>0, <1>1 DEF Fine, Separate
<1>4. Now' = Now
  BY <1>1 DEF Now
<1>5. Fine(Now', held', socks', bind', loop', clients', isStop', stops', hasty', orphaned')
  BY <1>0, <1>1, <1>2, <1>3, <1>4 DEF Fine
<1> QED
  BY <1>1, <1>4, <1>5, RespectsItself DEF Inv, Fine

LEMMA StopTaskInv ==
  ASSUME Inv, StopTask
  PROVE  Inv' /\ Respects(Now, Now')
<1>0. Fine(Now, held, socks, bind, loop, clients, isStop, stops, hasty, orphaned) /\ Good(Now)
  BY InvFine DEF Fine
<1>1. PICK st : st = CloseAll(Now, ToSet(socks))
  OBVIOUS
<1>2. ToSet(socks) \in SUBSET Live(Now)
  BY <1>0 DEF Fine, InLive
<1>3. /\ Good(st) /\ Live(st) = Live(Now)
      /\ \A p \in Objs : p \notin ToSet(socks) => st.obj[p] = Now.obj[p]
      /\ \A p \in ToSet(socks) : st.obj[p].fd = NoFd
      /\ Respects(Now, st)
  BY <1>0, <1>1, <1>2, CloseAllEnds
<1>4. stops > 0 /\ stops' = stops - 1 /\ UNCHANGED <<isStop, hasty, orphaned, aborted>>
      /\ Commit(st, held, <<>>, bind, loop, clients, OnWorker)
  BY <1>1 DEF StopTask
<1>5. stops' \in Nat
  BY <1>4 DEF Inv
<1>6. <<>> \in Seq(Objs) /\ ToSet(<<>>) = {}
  BY DEF ToSet
<1>7. PICK lp : lp = AfterClose(st, loop, "woken")
  OBVIOUS
<1>8. /\ lp \in [Loops -> LoopState]
      /\ \A i \in Loops : /\ lp[i].sock = loop[i].sock /\ lp[i].fd = loop[i].fd
                          /\ (lp[i] = NoLoop <=> loop[i] = NoLoop)
                          /\ lp[i] = loop[i] \/ lp[i].pc = "woken"
                          /\ lp[i].pc = "wait" => lp[i] = loop[i] /\ st.kern[loop[i].fd].listening
  <2>1. loop \in [Loops -> LoopState]
    BY <1>0 DEF Fine, InLive
  <2> QED
    BY <1>7, <2>1, CutLoops
<1>9. InLive(st, held, <<>>, bind, lp, clients)
  <2>1. \A i \in Loops : lp[i] # NoLoop =>
          lp[i].pc # "none" /\ lp[i].sock \in Live(st) /\ (lp[i].pc \in {"wait", "stray"} => lp[i].fd \in Fds)
    BY <1>0, <1>3, <1>8 DEF Fine, InLive
  <2> QED
    BY <1>0, <1>3, <1>6, <1>8, <2>1 DEF Fine, InLive
<1>10. Apart(held, <<>>, bind, lp, clients)
  BY <1>0, <1>6, <1>8 DEF Fine, Apart
<1>11. Serves(st, <<>>, clients)
  <2>1. \A p \in clients : st.obj[p] = Now.obj[p]
    BY <1>0, <1>3 DEF Fine, Apart, InLive, Live
  <2> QED
    BY <1>0, <1>6, <2>1 DEF Fine, Serves
<1>12. Stoppable(st, <<>>, lp, isStop', stops', orphaned')
  <2> SUFFICES ASSUME NEW i \in Loops, lp[i] # NoLoop
               PROVE  /\ lp[i].pc = "wait" => st.obj[lp[i].sock].fd = lp[i].fd
                      /\ ~orphaned => st.obj[lp[i].sock].fd = NoFd
    BY <1>4 DEF Stoppable
  <2>1. loop[i] # NoLoop /\ lp[i].sock = loop[i].sock /\ lp[i].fd = loop[i].fd
    BY <1>8
  <2>2. loop[i].sock \in Objs
    BY <1>0, <2>1 DEF Fine, InLive, Live
  <2>3. ASSUME ~orphaned
        PROVE  st.obj[lp[i].sock].fd = NoFd
    <3>1. loop[i].sock \in ToSet(socks) \/ Now.obj[loop[i].sock].fd = NoFd
      BY <1>0, <2>1, <2>3 DEF Fine, Stoppable
    <3> QED
      BY <1>3, <2>1, <2>2, <3>1
  <2>4. ASSUME lp[i].pc = "wait"
        PROVE  st.obj[lp[i].sock].fd = lp[i].fd
    <3>1. loop[i].pc = "wait" /\ st.kern[loop[i].fd].listening
      BY <1>8, <2>4
    <3>2. Now.obj[loop[i].sock].fd = loop[i].fd /\ loop[i].fd \in Fds
      BY <1>0, <2>1, <3>1 DEF Fine, Stoppable, InLive
    <3>3. CASE loop[i].sock \in ToSet(socks)
      <4>1. st.kern[loop[i].fd] = Closed
        BY <1>1, <3>2, <3>3 DEF CloseAll, KernelClose, Fd
      <4> QED
        BY <3>1, <4>1, ClosedTyped
    <3>4. CASE loop[i].sock \notin ToSet(socks)
      BY <1>3, <2>1, <2>2, <3>2, <3>4
    <3> QED
      BY <3>3, <3>4
  <2> QED
    BY <2>3, <2>4
<1>13. Separate(st, lp, isStop', stops', hasty')
  <2>1. ~hasty => isStop
    BY <1>0, <1>4 DEF Fine, Separate, Inv
  <2> QED
    BY <1>0, <1>4, <1>8, <2>1 DEF Fine, Separate
<1>14. Fine(st, held, <<>>, bind, lp, clients, isStop', stops', hasty', orphaned')
  BY <1>3, <1>9, <1>10, <1>11, <1>12, <1>13 DEF Fine
<1>15. Commit(st, held, <<>>, bind, lp, clients, OnWorker)
  <2>1. {lp[i].sock : i \in Loops} = {loop[i].sock : i \in Loops}
    BY <1>8
  <2>2. InUse(held, <<>>, bind, lp, clients) = InUse(held, <<>>, bind, loop, clients)
    BY <2>1 DEF InUse
  <2>3. PICK end : end = Destroy(st, Lost(st, InUse(held, <<>>, bind, loop, clients)))
    OBVIOUS
  <2>4. /\ obj' = end.obj /\ kern' = end.kern /\ path' = end.path /\ held' = held /\ socks' = <<>>
        /\ bind' = bind /\ clients' = clients /\ loop' = AfterClose(end, loop, "woken")
    BY <1>4, <2>3 DEF Commit, OnWorker
  <2>5. AfterClose(end, loop, "woken") = AfterClose(end, lp, "woken")
    <3> SUFFICES ASSUME NEW i \in Loops
                 PROVE  (IF Cut(end, loop[i]) THEN [loop[i] EXCEPT !.pc = "woken"] ELSE loop[i])
                        = (IF Cut(end, lp[i]) THEN [lp[i] EXCEPT !.pc = "woken"] ELSE lp[i])
      BY DEF AfterClose
    <3>1. CASE Cut(st, loop[i])
      <4>1. lp[i] = [loop[i] EXCEPT !.pc = "woken"]
        BY <1>7, <3>1 DEF AfterClose
      <4>2. loop[i] \in LoopState
        BY <1>0 DEF Fine, InLive
      <4>3. lp[i].pc = "woken"
        BY <4>1, <4>2 DEF LoopState
      <4>4. Cut(end, loop[i])
        <5>1. ~st.kern[loop[i].fd].listening /\ loop[i].pc \in {"wait", "stray"}
          BY <3>1 DEF Cut
        <5>2. loop[i].fd \in Fds
          BY <1>0, <5>1, NoLoopTyped DEF Fine, InLive
        <5>3. ~end.kern[loop[i].fd].listening
          BY <2>3, <5>1, <5>2, ClosedTyped DEF Destroy, KernelClose
        <5> QED
          BY <5>1, <5>3 DEF Cut
      <4> QED
        BY <4>1, <4>3, <4>4 DEF Cut
    <3>2. CASE ~Cut(st, loop[i])
      BY <1>7, <3>2 DEF AfterClose
    <3> QED
      BY <3>1, <3>2
  <2> QED
    BY <2>2, <2>3, <2>4, <2>5 DEF Commit, OnWorker
<1> QED
  BY <1>3, <1>4, <1>5, <1>14, <1>15, Committed DEF Inv

(* One loop goes on: it ends, or keeps its socket and its fd or drops it. *)
LEMMA LoopFine ==
  ASSUME NEW st, NEW h, NEW ss, NEW b, NEW lp, NEW c, NEW stopped, NEW tasks, NEW early, NEW lost,
         Fine(st, h, ss, b, lp, c, stopped, tasks, early, lost), NEW i \in Loops, lp[i] # NoLoop,
         NEW l \in LoopState,
         l = NoLoop \/ (l.sock = lp[i].sock /\ l.pc # "none" /\ (l.pc \in {"wait", "stray"} => l.fd \in Fds)
                         /\ (l.pc = "wait" => l.fd = st.obj[l.sock].fd)),
         l.fd = NoFd \/ l.fd = lp[i].fd \/ (~stopped /\ l.fd = st.obj[lp[i].sock].fd)
  PROVE  Fine(st, h, ss, b, [lp EXCEPT ![i] = l], c, stopped, tasks, early, lost)
<1>0. Good(st) /\ lp \in [Loops -> LoopState] /\ lp[i].sock \in Live(st)
  BY DEF Fine, InLive
<1>1. PICK lp2 : lp2 = [lp EXCEPT ![i] = l]
  OBVIOUS
<1>2. lp2 \in [Loops -> LoopState] /\ lp2[i] = l /\ \A j \in Loops : j # i => lp2[j] = lp[j]
  BY <1>0, <1>1
<1>3. l = NoLoop => l.sock = None /\ l.fd = NoFd
  BY DEF NoLoop
<1>4. InLive(st, h, ss, b, lp2, c)
  BY <1>0, <1>2 DEF Fine, InLive
<1>5. Apart(h, ss, b, lp2, c)
  <2>1. None \notin h \cup c
    BY FdFacts DEF Fine, InLive, Live
  <2> QED
    BY <1>2, <1>3, <2>1 DEF Fine, Apart
<1>6. Stoppable(st, ss, lp2, stopped, tasks, lost)
  BY <1>2 DEF Fine, Stoppable
<1>7. Separate(st, lp2, stopped, tasks, early)
  <2> SUFFICES ASSUME ~early
               PROVE  /\ \A j, k \in Loops : j # k /\ lp2[j] # NoLoop => lp2[j].sock # lp2[k].sock
                      /\ \A j, k \in Loops : lp2[j].fd = lp2[k].fd /\ lp2[j].fd # NoFd => j = k
                      /\ ~stopped => /\ tasks = 0
                                     /\ \A j \in Loops : lp2[j].fd # NoFd =>
                                          lp2[j].fd = st.obj[lp2[j].sock].fd
    BY DEF Separate
  <2>0. /\ \A j, k \in Loops : j # k /\ lp[j] # NoLoop => lp[j].sock # lp[k].sock
        /\ \A j, k \in Loops : lp[j].fd = lp[k].fd /\ lp[j].fd # NoFd => j = k
        /\ ~stopped => /\ tasks = 0
                       /\ \A j \in Loops : lp[j].fd # NoFd => lp[j].fd = st.obj[lp[j].sock].fd
    BY DEF Fine, Separate
  <2>1. \A j \in Loops : lp[j] # NoLoop => lp[j].sock \in Live(st) /\ lp[j].sock # None
    BY FdFacts DEF Fine, InLive, Live
  <2>2. ASSUME NEW j \in Loops, NEW k \in Loops, j # k, lp2[j] # NoLoop
        PROVE  lp2[j].sock # lp2[k].sock
    <3>1. CASE j = i
      BY <1>2, <2>0, <2>2, <3>1
    <3>2. CASE j # i /\ k = i
      BY <1>2, <1>3, <2>0, <2>1, <2>2, <3>2
    <3>3. CASE j # i /\ k # i
      BY <1>2, <2>0, <2>2, <3>3
    <3> QED
      BY <3>1, <3>2, <3>3
  <2>3. ~stopped => \A j \in Loops : lp2[j].fd # NoFd => lp2[j].fd = st.obj[lp2[j].sock].fd
    BY <1>2, <1>3, <2>0
  <2>4. ASSUME NEW k \in Loops, k # i, l.fd = lp[k].fd, l.fd # NoFd
        PROVE  FALSE
    <3>1. CASE l.fd = lp[i].fd
      BY <2>0, <2>4, <3>1
    <3>2. CASE ~stopped /\ l.fd = st.obj[lp[i].sock].fd
      <4>0. lp[k].fd # NoFd
        BY <2>4
      <4>1. lp[k] # NoLoop
        BY <4>0, NoLoopTyped
      <4>2. lp[k].sock = lp[i].sock
        <5>1. lp[k].fd = st.obj[lp[k].sock].fd
          BY <2>0, <3>2, <4>0
        <5>2. lp[k].sock \in Live(st)
          BY <2>1, <4>1
        <5>3. st.obj[lp[k].sock].fd = st.obj[lp[i].sock].fd /\ st.obj[lp[k].sock].fd # NoFd
          BY <2>4, <3>2, <5>1
        <5> QED
          BY <1>0, <5>2, <5>3 DEF Good, Owned
      <4> QED
        BY <2>0, <2>4, <4>1, <4>2
    <3> QED
      BY <2>4, <3>1, <3>2
  <2>5. \A j, k \in Loops : lp2[j].fd = lp2[k].fd /\ lp2[j].fd # NoFd => j = k
    BY <1>2, <2>0, <2>4
  <2> QED
    BY <2>0, <2>2, <2>3, <2>5
<1> QED
  BY <1>1, <1>4, <1>5, <1>6, <1>7 DEF Fine

LEMMA LoopTestInv ==
  ASSUME Inv, NEW i \in Loops, LoopTest(i)
  PROVE  Inv' /\ Respects(Now, Now')
<1>0. Fine(Now, held, socks, bind, loop, clients, isStop, stops, hasty, orphaned) /\ Good(Now)
  BY InvFine DEF Fine
<1>1. loop[i].pc = "test" /\ loop[i] # NoLoop /\ loop[i] \in LoopState /\ loop[i].sock \in Live(Now)
  BY <1>0, NoLoopTyped DEF LoopTest, Fine, InLive
<1>2. PICK l : l = IF isStop THEN NoLoop
                   ELSE [loop[i] EXCEPT !.pc = "accept", !.fd = obj[loop[i].sock].fd]
  OBVIOUS
<1>3. Commit(Now, held, socks, bind, [loop EXCEPT ![i] = l], clients, OnWorker)
      /\ UNCHANGED <<isStop, stops, hasty, orphaned, aborted>>
  BY <1>2 DEF LoopTest, LoopStep
<1>4. Fine(Now, held, socks, bind, [loop EXCEPT ![i] = l], clients, isStop, stops, hasty, orphaned)
  <2>1. CASE isStop
    BY <1>0, <1>1, <1>2, <2>1, NoLoopTyped, LoopFine
  <2>2. CASE ~isStop
    <3>1. l = [loop[i] EXCEPT !.pc = "accept", !.fd = obj[loop[i].sock].fd]
      BY <1>2, <2>2
    <3>2. Now.obj[loop[i].sock].fd \in Fds \cup {NoFd} /\ Now.obj = obj
      BY <1>0, <1>1, GoodParts DEF Now
    <3>3. l \in LoopState /\ l.sock = loop[i].sock /\ l.pc = "accept"
          /\ l.fd = Now.obj[loop[i].sock].fd
      BY <1>1, <3>1, <3>2 DEF LoopState
    <3> QED
      BY <1>0, <1>1, <2>2, <3>3, LoopFine
  <2> QED
    BY <2>1, <2>2
<1> QED
  BY <1>3, <1>4, RespectsItself, Committed DEF Inv

LEMMA LoopWakeInv ==
  ASSUME Inv, NEW i \in Loops, LoopWake(i)
  PROVE  Inv' /\ Respects(Now, Now')
<1>0. Fine(Now, held, socks, bind, loop, clients, isStop, stops, hasty, orphaned)
  BY InvFine
<1>1. loop[i] # NoLoop /\ loop[i] \in LoopState
  BY <1>0, NoLoopTyped DEF LoopWake, Fine, InLive
<1>2. PICK l : l = [loop[i] EXCEPT !.pc = "accept"]
  OBVIOUS
<1>3. Commit(Now, held, socks, bind, [loop EXCEPT ![i] = l], clients, OnWorker)
      /\ UNCHANGED <<isStop, stops, hasty, orphaned, aborted>>
  BY <1>2 DEF LoopWake, LoopStep
<1>4. l \in LoopState /\ l.sock = loop[i].sock /\ l.pc = "accept" /\ l.fd = loop[i].fd
  BY <1>1, <1>2 DEF LoopState
<1>5. Fine(Now, held, socks, bind, [loop EXCEPT ![i] = l], clients, isStop, stops, hasty, orphaned)
  BY <1>0, <1>1, <1>4, LoopFine
<1> QED
  BY <1>3, <1>5, RespectsItself, Committed DEF Inv

LEMMA LoopAcceptInv ==
  ASSUME Inv, NEW i \in Loops, LoopAccept(i)
  PROVE  Inv' /\ Respects(Now, Now')
<1>0. Fine(Now, held, socks, bind, loop, clients, isStop, stops, hasty, orphaned) /\ Good(Now)
  BY InvFine DEF Fine
<1>1. loop[i].pc = "accept" /\ loop[i] # NoLoop /\ loop[i] \in LoopState /\ loop[i].sock \in Live(Now)
  BY <1>0, NoLoopTyped DEF LoopAccept, Fine, InLive
<1>2. PICK l : l = loop[i]
  OBVIOUS
<1>3. PICK again : again = [l EXCEPT !.pc = "test", !.fd = NoFd]
  OBVIOUS
<1>4. again \in LoopState /\ again.sock = loop[i].sock /\ again.pc = "test" /\ again.fd = NoFd
  BY <1>1, <1>2, <1>3 DEF LoopState
<1>5. Fine(Now, held, socks, bind, [loop EXCEPT ![i] = again], clients, isStop, stops, hasty, orphaned)
  BY <1>0, <1>1, <1>4, LoopFine
<1>6. CASE l.fd = NoFd \/ ~kern[l.fd].listening \/ (kern[l.fd].pending > 0 /\ Free(Now) = {})
  <2>1. Commit(Now, held, socks, bind, [loop EXCEPT ![i] = again], clients, OnWorker)
        /\ UNCHANGED <<isStop, stops, hasty, orphaned, aborted>>
    BY <1>2, <1>3, <1>6 DEF LoopAccept, LoopStep
  <2> QED
    BY <1>5, <2>1, RespectsItself, Committed DEF Inv
<1>7. CASE ~(l.fd = NoFd \/ ~kern[l.fd].listening \/ (kern[l.fd].pending > 0 /\ Free(Now) = {}))
  <2>0. l.fd \in Fds /\ kern[l.fd].listening /\ Now.kern = kern
    BY <1>1, <1>2, <1>7 DEF LoopState, Now
  <2>1. CASE kern[l.fd].pending = 0
    <3>1. PICK p \in {"wait", "stray"} : p = IF obj[l.sock].fd = l.fd THEN "wait" ELSE "stray"
      OBVIOUS
    <3>2. PICK w : w = [l EXCEPT !.pc = p]
      OBVIOUS
    <3>3. Commit(Now, held, socks, bind, [loop EXCEPT ![i] = w], clients, OnWorker)
          /\ UNCHANGED <<isStop, stops, hasty, orphaned>>
          /\ aborted' = \E j \in Loops :
                          loop[j].pc \in {"wait", "stray", "stuck"} /\ loop[j].fd = l.fd
      BY <1>2, <1>7, <2>1, <3>1, <3>2 DEF LoopAccept, LoopStep
    <3>4. w \in LoopState /\ w.sock = loop[i].sock /\ w.pc = p /\ w.fd = loop[i].fd /\ w.fd \in Fds
      BY <1>1, <1>2, <2>0, <3>1, <3>2 DEF LoopState
    <3>5. w.pc = "wait" => w.fd = Now.obj[w.sock].fd
      BY <1>2, <3>1, <3>4 DEF Now
    <3>6. Fine(Now, held, socks, bind, [loop EXCEPT ![i] = w], clients, isStop, stops, hasty, orphaned)
      BY <1>0, <1>1, <3>1, <3>4, <3>5, LoopFine
    <3>7. ~hasty => ~aborted'
      <4> SUFFICES ASSUME ~hasty, NEW j \in Loops, loop[j].pc \in {"wait", "stray", "stuck"},
                          loop[j].fd = l.fd
                   PROVE  FALSE
        BY <3>3
      <4>1. j = i
        BY <1>0, <1>2, <2>0, FdFacts DEF Fine, Separate
      <4> QED
        BY <1>1, <4>1
    <3> QED
      BY <3>3, <3>6, <3>7, RespectsItself, Committed DEF Inv
  <2>2. CASE kern[l.fd].pending # 0
    <3>0. kern[l.fd].pending > 0 /\ Free(Now) # {}
      <4>1. kern[l.fd] \in KernelFd
        BY <1>0, <2>0, GoodParts
      <4>2. kern[l.fd].pending \in Nat
        BY <4>1, SocketAssumption DEF KernelFd
      <4> QED
        BY <1>7, <2>2, <4>2
    <3>1. PICK n \in Objs, handshake \in Handshakes(l.sock) :
            /\ Fresh(n)
            /\ LoopStep(Accept(Now, l.sock, n, l.fd, handshake), i, again,
                        IF Accept(Now, l.sock, n, l.fd, handshake).obj[n] = Gone THEN clients
                        ELSE clients \cup {n})
            /\ UNCHANGED aborted
      BY <1>2, <1>3, <1>7, <2>2 DEF LoopAccept
    <3>2. handshake \in BOOLEAN
      <4>1. Handshakes(l.sock) \subseteq BOOLEAN
        BY DEF Handshakes
      <4> QED
        BY <4>1
    <3>3. PICK st : st = Accept(Now, l.sock, n, l.fd, handshake)
      OBVIOUS
    <3>4. Now.obj[n] = Gone /\ l.sock \in Live(Now)
      BY <1>1, <1>2, <3>1 DEF Fresh, Now
    <3>5. /\ Good(st) /\ (\A p \in Objs : p # n => st.obj[p] = Now.obj[p])
          /\ st.obj[n] # Gone => st.obj[n].connected
          /\ \A e \in Fds : Now.kern[e].listening => st.kern[e].listening
          /\ Respects(Now, st)
      BY <1>0, <2>0, <3>0, <3>2, <3>3, <3>4, AcceptGood
    <3>6. PICK c : c = IF st.obj[n] = Gone THEN clients ELSE clients \cup {n}
      OBVIOUS
    <3>7. PICK lp : lp = [loop EXCEPT ![i] = again]
      OBVIOUS
    <3>8. Fine(st, held, socks, bind, lp, c, isStop, stops, hasty, orphaned)
      <4>0. Fine(Now, held, socks, bind, lp, clients, isStop, stops, hasty, orphaned)
        BY <1>5, <3>7
      <4>1. \A p \in Live(Now) : p # n /\ p \in Live(st) /\ st.obj[p] = Now.obj[p]
        BY <3>4, <3>5 DEF Live
      <4>2. n # None
        BY FdFacts
      <4>3. c \subseteq Live(st) /\ \A p \in c : p \in clients \/ (p = n /\ st.obj[n] # Gone)
        BY <3>6, <4>0, <4>1 DEF Live, Fine, InLive
      <4>4. InLive(st, held, socks, bind, lp, c)
        BY <4>0, <4>1, <4>3 DEF Fine, InLive
      <4>5. n \notin held /\ n \notin ToSet(socks) /\ n # bind.sock /\ \A j \in Loops : n # lp[j].sock
        <5>1. InLive(Now, held, socks, bind, lp, clients)
          BY <4>0 DEF Fine
        <5>2. bind.sock \in Live(Now) \cup {None} /\ \A j \in Loops : lp[j].sock \in Live(Now) \cup {None}
          BY <5>1, LoopSocks
        <5>3. n \notin Live(Now)
          BY <4>1
        <5> QED
          BY <4>2, <5>1, <5>2, <5>3 DEF InLive
      <4>6. Apart(held, socks, bind, lp, c)
        BY <4>0, <4>3, <4>5 DEF Fine, Apart
      <4>7. Serves(st, socks, c)
        <5>1. ASSUME NEW p \in ToSet(socks)
              PROVE  st.obj[p].fd # NoFd /\ st.kern[st.obj[p].fd].listening
          <6>1. p \in Live(Now) /\ Now.obj[p].fd # NoFd /\ Now.kern[Now.obj[p].fd].listening
            BY <4>0 DEF Fine, InLive, Serves
          <6>2. Now.obj[p].fd \in Fds
            BY <1>0, <6>1, GoodParts
          <6> QED
            BY <3>5, <4>1, <6>1, <6>2
        <5>2. \A p \in c : st.obj[p].connected
          BY <3>5, <4>0, <4>1, <4>3 DEF Fine, InLive, Serves
        <5> QED
          BY <5>1, <5>2 DEF Serves
      <4>8. \A j \in Loops : lp[j] # NoLoop => st.obj[lp[j].sock] = Now.obj[lp[j].sock]
        BY <4>0, <4>1 DEF Fine, InLive
      <4>9. Stoppable(st, socks, lp, isStop, stops, orphaned)
        BY <4>0, <4>8 DEF Fine, Stoppable
      <4>10. Separate(st, lp, isStop, stops, hasty)
        <5>1. \A j \in Loops : lp[j].fd # NoFd => lp[j] # NoLoop
          BY DEF NoLoop
        <5> QED
          BY <4>0, <4>8, <5>1 DEF Fine, Separate
      <4> QED
        BY <3>5, <4>4, <4>6, <4>7, <4>9, <4>10 DEF Fine
    <3>9. Commit(st, held, socks, bind, lp, c, OnWorker) /\ UNCHANGED <<isStop, stops, hasty, orphaned, aborted>>
      BY <3>1, <3>3, <3>6, <3>7 DEF LoopStep
    <3> QED
      BY <3>5, <3>8, <3>9, Committed DEF Inv
  <2> QED
    BY <2>1, <2>2
<1> QED
  BY <1>6, <1>7

----------------------------------------------------------------------------
(* The invariant, and what it says. *)

LEMMA InvInit == Init => Inv
<1> SUFFICES ASSUME Init
             PROVE  Inv
  OBVIOUS
<1>1. Now.obj = [o \in Objs |-> Gone] /\ Now.kern = [d \in Fds |-> Closed]
      /\ Now.path = [a \in UnixAddrs |-> None]
      /\ Now = [obj |-> Now.obj, kern |-> Now.kern, path |-> Now.path]
  BY DEF Init, Now
<1>2. Live(Now) = {} /\ \A d \in Fds : Now.kern[d] = Closed
  BY <1>1 DEF Live
<1>3. Shaped(Now)
  BY <1>1, ClosedTyped DEF Shaped
<1>4. Owned(Now)
  BY <1>2, ClosedTyped DEF Owned
<1>5. Kernel(Now)
  BY <1>1, <1>2, ClosedTyped, FdFacts DEF Kernel
<1>6. Good(Now)
  BY <1>2, <1>3, <1>4, <1>5 DEF Good
<1>7. socks = <<>> /\ socks \in Seq(Objs) /\ ToSet(socks) = {} /\ held = {} /\ clients = {}
      /\ bind = NoBind /\ loop = [i \in Loops |-> NoLoop] /\ \A i \in Loops : loop[i] = NoLoop
  BY DEF Init, ToSet
<1>8. InLive(Now, held, socks, bind, loop, clients)
  BY <1>7, NoBindTyped, NoLoopTyped DEF InLive
<1>9. Apart(held, socks, bind, loop, clients)
  BY <1>7, NoBindTyped DEF Apart
<1>10. Serves(Now, socks, clients)
  BY <1>7 DEF Serves
<1>11. Stoppable(Now, socks, loop, isStop, stops, orphaned)
  BY <1>7 DEF Stoppable
<1>12. Separate(Now, loop, isStop, stops, hasty)
  <2>1. isStop
    BY DEF Init
  <2> QED
    BY <1>7, <2>1, NoLoopTyped DEF Separate
<1>13. stops \in Nat /\ isStop \in BOOLEAN /\ hasty \in BOOLEAN /\ orphaned \in BOOLEAN /\ ~aborted
  BY DEF Init
<1> QED
  BY <1>6, <1>8, <1>9, <1>10, <1>11, <1>12, <1>13 DEF Inv

LEMMA InvNext ==
  ASSUME Inv, [Next]_vars
  PROVE  Inv' /\ Respects(Now, Now')
<1>1. CASE UNCHANGED vars
  <2>1. Now' = Now
    BY <1>1 DEF vars, Now
  <2>2. Inv'
    BY <1>1 DEF vars, Inv, Now
  <2> QED
    BY <2>1, <2>2, RespectsItself
<1>2. CASE \E o \in Objs, kind \in Kinds, a \in Addrs : Create(o, kind, a)
  BY <1>2, CreateInv
<1>3. CASE \E o \in Objs, a \in Addrs, handshake \in BOOLEAN : SocketOp(o, a, handshake)
  BY <1>3, SocketOpInv
<1>4. CASE \E o \in Objs : Drop(o) \/ HandleClient(o)
  BY <1>4, DropInv, HandleClientInv
<1>5. CASE \E addrs \in BindLists, kind \in ServerKinds : BindBegin(addrs, kind)
  BY <1>5, BindBeginInv
<1>6. CASE BindNext
  BY <1>6, BindOneInv, BindListenInv, BindEndInv DEF BindNext
<1>7. CASE Start \/ Stop
  BY <1>7, StartInv, StopInv
<1>8. CASE WorkerStep
  BY <1>8, StopTaskInv, LoopTestInv, LoopAcceptInv, LoopWakeInv DEF WorkerStep
<1> QED
  BY <1>1, <1>2, <1>3, <1>4, <1>5, <1>6, <1>7, <1>8 DEF Next

LEMMA InvAlways == Spec => []Inv
<1>1. Inv /\ [Next]_vars => Inv'
  BY InvNext
<1> QED
  BY <1>1, InvInit, PTL DEF Spec

(* What socket objects believe of their descriptors is what the kernel     *)
(* knows, through every bind, connect, accept, close and failure: no fd is *)
(* leaked or closed twice (Socket, TcpServer).                             *)
THEOREM SocketsTrueAlways == Spec => []SocketsTrue
<1>1. Inv => SocketsTrue
  <2> SUFFICES ASSUME Inv
               PROVE  SocketsTrue
    OBVIOUS
  <2>0. Good(Now) /\ InLive(Now, held, socks, bind, loop, clients)
        /\ Now.obj = obj /\ Now.kern = kern
    BY DEF Inv, Now
  <2>1. Alive = Live(Now)
    BY <2>0 DEF Alive, Live
  <2>2. /\ \A o \in Alive : obj[o] \in SocketObj /\ obj[o].fd \in Fds \cup {NoFd}
        /\ kern \in [Fds -> KernelFd]
        /\ \A d \in Fds : kern[d].listening => kern[d].open
    BY <2>0, <2>1, GoodParts
  <2>3. TypeOK
    <3>1. \A o \in Alive : {obj[o].local, obj[o].remote} \subseteq Addrs \cup {None, AnyAddr, Ephemeral}
      BY <2>2 DEF SocketObj
    <3>2. \A d \in Fds : kern[d].pending \in 0..Backlog
      BY <2>2 DEF KernelFd
    <3>3. held \cup ToSet(socks) \cup clients \subseteq Alive
          /\ \A i \in Loops : loop[i] = NoLoop \/ loop[i].sock \in Alive
      BY <2>0, <2>1 DEF InLive
    <3> QED
      BY <2>2, <3>1, <3>2, <3>3 DEF TypeOK
  <2>4. FdsOwned
    <3>1. ASSUME NEW d \in Fds, kern[d].open
          PROVE  Cardinality({o \in Alive : obj[o].fd = d}) = 1
      <4>1. PICK p \in Alive : obj[p].fd = d
        BY <2>0, <2>1, <3>1 DEF Good, Owned
      <4>2. \A o \in Alive : obj[o].fd = d => o = p
        BY <2>0, <2>1, <4>1, FdFacts DEF Good, Owned
      <4>3. {o \in Alive : obj[o].fd = d} = {p}
        BY <4>1, <4>2
      <4> QED
        BY <4>3, FS_Singleton
    <3>2. \A o \in Alive : obj[o].fd # NoFd => kern[obj[o].fd].open
      BY <2>0, <2>1 DEF Good, Owned
    <3> QED
      BY <3>1, <3>2 DEF FdsOwned
  <2>5. \A o \in Alive : Believes(obj[o], kern)
    BY <2>0, <2>1 DEF Good
  <2>6. OwnConnection
    <3> SUFFICES ASSUME NEW o \in Alive, obj[o].kind = "tcp", obj[o].connected
                 PROVE  Target(obj[o]) \in Fds /\ kern[Target(obj[o])].peer # None
      BY DEF OwnConnection
    <3>1. Target(obj[o]) = obj[o].fd
      BY DEF Target
    <3> QED
      BY <2>2, <2>5, <3>1 DEF Believes
  <2>7. LocalAddressTrue
    BY <2>5 DEF LocalAddressTrue, Believes
  <2> QED
    BY <2>3, <2>4, <2>6, <2>7 DEF SocketsTrue
<1> QED
  BY <1>1, InvAlways, PTL

(* Between calls of bind() every socket of the server listens, and one     *)
(* accept loop serves it, unless start() came too early (start, stop).     *)
THEOREM ServerAcceptsAlways == Spec => []ServerAccepts
<1>1. Inv => ServerAccepts
  <2> SUFFICES ASSUME Inv
               PROVE  ServerAccepts
    OBVIOUS
  <2>1. ServerListens
    BY DEF Inv, Serves, ServerListens, Now
  <2>2. OneAcceptor
    BY DEF Inv, Separate, OneAcceptor
  <2> QED
    BY <2>1, <2>2 DEF ServerAccepts
<1> QED
  BY <1>1, InvAlways, PTL

(* When the tasks of stop() have run, every accept loop that waited for    *)
(* its socket has been woken, unless bind() had failed while loops ran:    *)
(* the sockets that loops wait for are among those that stop() closes      *)
(* (stop, startAccept).                                                    *)
THEOREM StopReachesLoopsAlways == Spec => []StopReachesLoops
<1>1. Inv => StopReachesLoops
  <2> SUFFICES ASSUME Inv, isStop, stops = 0, ~orphaned, NEW i \in Loops, loop[i].pc = "wait"
               PROVE  FALSE
    BY DEF StopReachesLoops
  <2>1. loop[i] # NoLoop
    BY NoLoopTyped
  <2>2. obj[loop[i].sock].fd = NoFd /\ obj[loop[i].sock].fd = loop[i].fd
    BY <2>1 DEF Inv, Stoppable, Now
  <2>3. loop[i].fd \in Fds
    BY <2>1 DEF Inv, InLive
  <2> QED
    BY <2>2, <2>3, FdFacts
<1> QED
  BY <1>1, InvAlways, PTL

(* Only the end of a call of bind() that failed makes bind NoBind then. *)
LEMMA FailedEnds ==
  ASSUME Inv, [Next]_vars, bind.failed, bind' = NoBind
  PROVE  BindEnd
<1>0. ~NoBind.failed /\ NoBind.kind = "none" /\ bind # NoBind /\ bind' # bind
  BY DEF NoBind
<1>1. bind \in BindCall /\ (bind.todo # <<>> => bind.kind # "none")
      /\ (bind.sock # None => bind.todo # <<>>)
  BY DEF Inv, InLive
<1>2. CASE UNCHANGED vars
  BY <1>0, <1>2 DEF vars
<1>3. CASE \E o \in Objs, kind \in Kinds, a \in Addrs : Create(o, kind, a)
  BY <1>0, <1>3 DEF Create, ProgramDoes, Commit
<1>4. CASE \E o \in Objs, a \in Addrs, handshake \in BOOLEAN : SocketOp(o, a, handshake)
  BY <1>0, <1>4 DEF SocketOp, ProgramDoes, Commit
<1>5. CASE \E o \in Objs : Drop(o) \/ HandleClient(o)
  BY <1>0, <1>5 DEF Drop, HandleClient, ProgramDoes, Commit
<1>6. CASE \E addrs \in BindLists, kind \in ServerKinds : BindBegin(addrs, kind)
  BY <1>0, <1>6 DEF BindBegin, MayCall
<1>7. ASSUME NEW o \in Objs, BindOne(o)
      PROVE  FALSE
  <2>1. bind.todo # <<>> /\ bind'.kind = bind.kind
    <3>1. bind.todo # <<>>
      BY <1>7 DEF BindOne
    <3>2. \/ bind' = [bind EXCEPT !.sock = o]
          \/ bind' = [bind EXCEPT !.todo = Tail(@), !.failed = TRUE]
      BY <1>7 DEF BindOne, BindStep, Commit
    <3> QED
      BY <1>1, <3>1, <3>2 DEF BindCall
  <2> QED
    BY <1>0, <1>1, <2>1
<1>8. CASE BindListen
  <2>1. PICK f : bind' = [bind EXCEPT !.todo = Tail(@), !.sock = None, !.failed = f]
    BY <1>8 DEF BindListen, BindStep, Commit
  <2>2. bind'.kind = bind.kind
    BY <1>1, <2>1 DEF BindCall
  <2> QED
    BY <1>0, <1>1, <1>8, <2>2 DEF BindListen
<1>9. CASE Start \/ Stop
  BY <1>0, <1>9 DEF Start, Stop, MayCall
<1>10. CASE WorkerStep
  <2>1. CASE StopTask
    BY <1>0, <2>1 DEF StopTask, Commit
  <2>2. ASSUME NEW i \in Loops, LoopTest(i) \/ LoopAccept(i) \/ LoopWake(i)
        PROVE  FALSE
    BY <1>0, <2>2 DEF LoopTest, LoopAccept, LoopWake, LoopStep, Commit
  <2> QED
    BY <1>10, <2>1, <2>2 DEF WorkerStep
<1> QED
  BY <1>2, <1>3, <1>4, <1>5, <1>6, <1>7, <1>8, <1>9, <1>10 DEF Next, BindNext

(* bind() takes no path from a listener that could have answered, and when *)
(* it fails whoever still listens is the program's or a loop's             *)
(* (Socket::bind, TcpServer::bind).                                        *)
THEOREM BindHonestAlways == Spec => BindHonest
<1>1. ASSUME Inv, [Next]_vars
      PROVE  \A a \in UnixAddrs, d \in Fds :
               /\ path[a] = d /\ kern[d].listening /\ kern'[d].listening
               /\ kern[d].pending < Backlog /\ Cardinality(Free(Now)) > 1
               => path'[a] = d
  <2>1. Respects(Now, Now')
    BY <1>1, InvNext
  <2>2. ASSUME Cardinality(Free(Now)) > 1
        PROVE  \E e, f \in Fds : e # f /\ ~kern[e].open /\ ~kern[f].open
    <3>1. IsFiniteSet(Free(Now))
      BY SocketAssumption, FS_Subset DEF Free
    <3>2. PICK e \in Free(Now) : TRUE
      BY <2>2, FS_EmptySet
    <3>3. ASSUME Free(Now) \subseteq {e}
          PROVE  FALSE
      <4>1. Free(Now) = {e}
        BY <3>2, <3>3
      <4>2. Cardinality({e}) = 1
        BY FS_Singleton
      <4> QED
        BY <2>2, <4>1, <4>2
    <3>4. PICK f \in Free(Now) : f # e
      BY <3>3
    <3> QED
      BY <3>2, <3>4 DEF Free, Now
  <2>3. Now.path = path /\ Now.kern = kern /\ Now'.path = path' /\ Now'.kern = kern'
    BY DEF Now
  <2> QED
    BY <2>1, <2>2, <2>3 DEF Respects
<1>2. ASSUME Inv, [Next]_vars, bind.failed, bind' = NoBind
      PROVE  \A d \in Fds : kern'[d].listening =>
               \E o \in held' \cup {loop'[i].sock : i \in Loops} : o # None /\ obj'[o].fd = d
  <2>0. Inv'
    BY <1>2, InvNext
  <2>1. BindEnd
    BY <1>2, FailedEnds
  <2>2. Commit(Now, held, <<>>, NoBind, loop, clients, Elsewhere)
    BY <1>2, <2>1 DEF BindEnd, BindStep, KeptSocks
  <2>3. PICK s : s = Now'
    OBVIOUS
  <2>4. s.obj = obj' /\ s.kern = kern' /\ Good(s) /\ Serves(s, socks', clients')
    BY <2>0, <2>3 DEF Inv, Now
  <2>5. obj' = [o \in Objs |-> IF o \in Lost(Now, InUse(held, <<>>, NoBind, loop, clients)) THEN Gone
                               ELSE obj[o]]
    BY <2>2 DEF Commit, Destroy, KernelClose, Now
  <2>6. held' = held /\ clients' = clients /\ \A i \in Loops : loop'[i].sock = loop[i].sock
    <3>1. held' = held /\ clients' = clients
      BY <2>2 DEF Commit
    <3>2. PICK how \in {"woken", "stuck"} :
            loop' = AfterClose(Destroy(Now, Lost(Now, InUse(held, <<>>, NoBind, loop, clients))), loop, how)
      BY <2>2 DEF Commit, Elsewhere
    <3>3. loop \in [Loops -> LoopState]
      BY <1>2 DEF Inv, InLive
    <3> QED
      BY <3>1, <3>2, <3>3, CutLoops
  <2> SUFFICES ASSUME NEW d \in Fds, kern'[d].listening
               PROVE  \E o \in held' \cup {loop'[i].sock : i \in Loops} : o # None /\ obj'[o].fd = d
    OBVIOUS
  <2>7. s.kern[d].open /\ s.kern[d].peer = None
    BY <2>4, GoodParts DEF Good, Kernel
  <2>8. PICK o \in Live(s) : s.obj[o].fd = d
    BY <2>4, <2>7 DEF Good, Owned
  <2>9. o \in Objs /\ obj'[o] # Gone /\ o # None
    BY <2>4, FdFacts DEF Live
  <2>10. o \in InUse(held, <<>>, NoBind, loop, clients)
    BY <2>5, <2>9 DEF Lost, Now
  <2>11. o \notin clients
    <3>1. Believes(s.obj[o], s.kern)
      BY <2>4 DEF Good
    <3> QED
      BY <2>4, <2>6, <2>7, <2>8, <3>1 DEF Serves, Believes
  <2>12. o \in held \cup {loop[i].sock : i \in Loops}
    <3>1. ToSet(<<>>) = {} /\ NoBind.sock = None
      BY NoBindTyped DEF ToSet
    <3> QED
      BY <2>9, <2>10, <2>11, <3>1 DEF InUse
  <2> QED
    BY <2>4, <2>6, <2>8, <2>9, <2>12
<1>3. Spec => LivePathKept
  BY <1>1, InvAlways, PTL DEF Spec, LivePathKept
<1>4. Spec => FailedBindFrees
  BY <1>2, InvAlways, PTL DEF Spec, FailedBindFrees
<1> QED
  BY <1>3, <1>4 DEF BindHonest
=============================================================================

SPECIFICATION Spec
CONSTANTS
  a1 = a1
  u1 = u1
  Gone = Gone
  None = None
  Stale = Stale
  Objs = {1, 2, 3}
  Fds = {3, 4, 5}
  Addrs = {a1, u1}
  UnixAddrs = {u1}
  Backlog = 1
  Loops = {1, 2}
  Kinds = {"tcp"}
  ServerKinds = {"ssl"}
  MaxOps = 3
  MaxCalls = 5
INVARIANTS
  SocketsTrue
  ServerAccepts
  StopReachesLoops
PROPERTIES
  BindHonest
CHECK_DEADLOCK FALSE

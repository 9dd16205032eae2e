SPECIFICATION FairSpec
CONSTANTS
  f1 = f1
  f2 = f2
  None = None
  Fibres = {f1, f2}
  Fds = {3}
  Inf <- MCInf
  Timeouts <- MCTimeouts
  Options = {"recv", "send"}
  ConnectTimeout = 2
  Calls = {"connect"}
  PoolSizes = {2}
  Opened = {}
  MaxTime = 2
  MaxCalls <- MCTwoEach
  MaxArrivals = 1
PROPERTY TimeoutAlwaysEnds
CHECK_DEADLOCK FALSE

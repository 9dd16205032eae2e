SPECIFICATION FairSpec
CONSTANTS
  f1 = f1
  f2 = f2
  None = None
  Fibres = {f1, f2}
  Fds = {3, 4}
  Inf <- MCInf
  Timeouts <- MCTimeouts
  Options = {"recv"}
  ConnectTimeout = 1
  Calls = {"accept", "connect"}
  PoolSizes = {1, 2}
  Opened = {3}
  MaxTime = 1
  MaxCalls <- MCFewAndMany
  MaxArrivals = 1
INVARIANTS
  OneWake
  TableFollows
PROPERTIES
  TimeoutHonest
  TimedWaitEnds
CHECK_DEADLOCK FALSE

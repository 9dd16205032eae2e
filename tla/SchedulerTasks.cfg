SPECIFICATION FairSpec
CONSTANTS
  t1 = t1
  t2 = t2
  main = main
  f1 = f1
  f2 = f2
  c1 = c1
  NoTask = NoTask
  AnyThread = AnyThread
  Pool = {t1, t2}
  Caller = main
  UseCaller = FALSE
  Fibres = {f1, f2}
  Callbacks = {c1}
  Bindings = {AnyThread}
  BodyOps = {"spawn", "ready"}
  MaxYields = 1
INVARIANTS
  OnePlace
  NothingLost
PROPERTIES
  StopReturns
  EveryTaskEnds
  RunsOnce

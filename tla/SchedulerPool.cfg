SPECIFICATION Spec
CONSTANTS
  t1 = t1
  t2 = t2
  main = main
  f1 = f1
  f2 = f2
  c1 = c1
  NoTask = NoTask
  AnyThread = AnyThread
  Pool = {t1}
  Caller = main
  UseCaller = TRUE
  Fibres = {f1}
  Callbacks = {c1}
  Bindings = {AnyThread, t1, main}
  BodyOps = {"throw", "wait", "switchTo", "ready"}
  MaxYields = 2
INVARIANTS
  CountsExact
  SafeAlone

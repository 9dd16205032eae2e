SPECIFICATION FairSpec
CONSTANTS
  t1 = t1
  t2 = t2
  main = main
  x1 = x1
  x2 = x2
  e1 = e1
  Never = Never
  Main = main
  Threads = {t1, t2}
  MaxTasks = 1
  Timers = {x1}
  Events = {}
  MainAdds = TRUE
  Delays = {1}
  Width = 8
  MAX_TIMEOUT = 2
  MaxLate = 1
PROPERTIES
  WorkIsTaken
  StopReturns

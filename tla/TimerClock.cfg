SPECIFICATION FairSpec
CONSTANTS
  x1 = x1
  x2 = x2
  p1 = p1
  p2 = p2
  Never = Never
  Timers = {x1, x2}
  Recurring = {x2}
  Pollers = {p1}
  Periods = {1, 2}
  Hour = 1
  Start = 0
  MaxTime = 2
  MaxSetBacks = 1
INVARIANTS
  FoundIffArmed
  FireOrCancel
  FrontAnnounced
PROPERTIES
  NeverEarly
  DueIsServed

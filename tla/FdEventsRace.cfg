SPECIFICATION MCSpec
CONSTANTS
  t1 = t1
  t2 = t2
  a = a
  b = b
  r1 = r1
  r2 = r2
  r3 = r3
  None = None
  Threads = {t1, t2}
  Fds = {a, b}
  Kinds = {"READ", "WRITE"}
  Regs = {r1, r2, r3}
  CtlMayFail = TRUE
  Callers = {t1, t2}
  EventKinds = {"READ", "WRITE"}
  Numbers = {1, 2, 3, 4, 6}
  FirstSize = 2
  MaxLookups = 4
SYMMETRY Symmetry
INVARIANTS
  BooksAgree
  OneOutcome
  TableSound

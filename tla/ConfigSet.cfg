SPECIFICATION FairSpec
CONSTANTS
  t1 = t1
  t2 = t2
  None = None
  Threads = {t1, t2}
  Names = {"port", "net.port"}
  Types = {"int", "str"}
  Values = {0, 1, 2}
  Listeners = {1, 2}
  Default = 0
  Throwing <- MCThrowing
  Legal = {"port", "net.port"}
  LegalYaml = {"port", "net", "net.port"}
  Lower <- MCLower
  Docs <- MCDocs
  Convert <- MCConvert
  MaxSets = 2
INVARIANTS
  ToldUnderLock
  ListenersAgree
PROPERTIES
  LoadApplies
  SetReturns
CHECK_DEADLOCK FALSE

SPECIFICATION MCSpec
CONSTANTS
    Letters = {"m", "c", "x"}
    Keys <- MCKeys
    LoggerNames = {sys}
    Root = root
    Files = {f1}
    Console = console
    LogThreads = {t1, t2}
    Levels = {1, 2}
    Patterns <- MCPatterns
    Unset = Unset
    Shared = Shared
    Bare = Bare
    MaxCalls = 2
    MaxEvents = 2
    Moments = {3, 5, 6}
    MaxFaults = 1
    EntryNames = {"a", "b"}
    MaxDepth = 2
    Matching = {"b"}
    NoService = NoService
    SunPath = 4
    MaxPattern = 5
    MaxText = 4
    MaxName = 3
INVARIANTS
  FormattersKept
  FileKept
  TextsReadBack
  TreesHonest
  AddressesKept
SYMMETRY Interchangeable
CHECK_DEADLOCK FALSE

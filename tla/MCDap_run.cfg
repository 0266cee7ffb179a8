SPECIFICATION DapSpec
CONSTANTS
  t1 = t1
  t2 = t2
  NoThread = NoThread
  Unknown = Unknown
  Thread <- TwoThreads
  Bank <- Banks
  Base <- Cold
  Access <- AllAccesses
  Programs <- AllPrograms
  Modes <- AllModes
  MaxCalls = 3
  MemAps <- OneAp
  Sizes = {8, 32}
  Word = 32
  PageSize = 2
  Starts = {1}
  Counts = {2}
  Raw <- RawAccesses
  MemoryModes <- SafeModes
INVARIANTS RightBank LockBalanced AsMeant
PROPERTY EveryCallReturns
CHECK_DEADLOCK FALSE

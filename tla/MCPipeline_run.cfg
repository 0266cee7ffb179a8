SPECIFICATION FairSpec
CONSTANTS
  t1 = t1
  t2 = t2
  readA = readA
  writeA = writeA
  NoReq = NoReq
  Threads <- TwoThreads
  Reads <- OneRead
  Writes <- OneWrite
  PacketCount = 2
  MaxCount = 9
  Sessions <- AloneOrShared
  MaxCalls = 3
INVARIANTS PacketsFit Covered InOrder FlushCompletes
PROPERTIES EveryCallReturns ServiceSpec
CHECK_DEADLOCK FALSE

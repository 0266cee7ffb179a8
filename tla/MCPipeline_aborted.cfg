SPECIFICATION Spec
CONSTANTS
  t1 = t1
  t2 = t2
  readA = readA
  writeA = writeA
  NoReq = NoReq
  Threads <- TwoThreads
  Reads <- OneRead
  Writes <- OneWrite
  PacketCount = 1
  MaxCount = 9
  Sessions <- OnlyShort
  MaxCalls = 3
INVARIANTS GetReturns
CHECK_DEADLOCK FALSE

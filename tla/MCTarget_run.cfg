SPECIFICATION TargetSpec
CONSTANTS
  f1 = f1
  f2 = f2
  r1 = r1
  r2 = r2
  i1 = i1
  i2 = i2
  BKPT = BKPT
  NoAddr = NoAddr
  Code <- Instrs
  Addr <- Flash2Ram1
  Writable <- Ram1
  HighAddr <- Ram1
  FpbRev = 2
  NumComps = 2
  Ops <- RunOps
  Faulty <- NoFault
  MaxFaults = 0
  FlashPages = 4
  SectorSize = 2
  Keep = 7
  FlashJobs <- AllJobs
INVARIANTS TypeOK CommitIsComplete
PROPERTIES NothingLostIfRoom ServiceSpec FlashServiceSpec CallsAreInited
CHECK_DEADLOCK FALSE

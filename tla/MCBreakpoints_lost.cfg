SPECIFICATION Spec
CONSTANTS
  f1 = f1
  f2 = f2
  r1 = r1
  r2 = r2
  i1 = i1
  i2 = i2
  BKPT = BKPT
  NoAddr = NoAddr
  Code <- Instrs
  Addr <- Flash2Ram1
  Writable <- Ram1
  HighAddr <- Ram1
  FpbRev = 1
  NumComps = 2
  Ops <- ResetOps
  Faulty <- NoFault
  MaxFaults = 0
PROPERTIES
  NothingLostIfRoom

SPECIFICATION Spec
CONSTANTS
  f1 = f1
  f2 = f2
  r1 = r1
  r2 = r2
  i1 = i1
  i2 = i2
  BKPT = BKPT
  NoAddr = NoAddr
  Code <- Instrs
  Addr <- Flash1Ram1
  Writable <- Ram1
  HighAddr <- Ram1
  FpbRev = 2
  NumComps = 2
  Ops <- FaultOps
  Faulty <- AnyFault
  MaxFaults = 1
INVARIANTS
  Transparent
  UsedInRange
  
  ArmedIsLive
SYMMETRY InstrsAlike

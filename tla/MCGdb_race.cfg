SPECIFICATION Spec
CONSTANTS
  Client = {g1, g2}
  NoOne = NoOne
  Uses <- AllCommands
  Persist <- Exits
  Semihosting = FALSE
  Overlap = TRUE
  Stops = FALSE
  Drops = FALSE
  FaultKinds <- NoFaults
  MaxFaults = 0
INVARIANTS AllStoppedIsHalted
CHECK_DEADLOCK FALSE

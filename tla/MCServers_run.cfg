SPECIFICATION ServersSpec
SYMMETRY Gdbs
CONSTANTS
  Client = {g1, g2}
  NoOne = NoOne
  Uses <- AllCommands
  Persist <- Stays
  Semihosting = TRUE
  Overlap = FALSE
  Stops = TRUE
  Drops = TRUE
  FaultKinds <- TargetFaults
  MaxFaults = 1
  RpThread = {"a1", "a2", "b1"}
  Home <- TwoInOne
  Nobody = Nobody
  Protocols = {"SWD", "JTAG"}
  MaxHeld = 2
  MaxLosses = 1
  MaxErrors = 1
INVARIANTS AllStoppedIsHalted ReleasedAtEnd LockIsExclusive ProbeMatchesClients
CHECK_DEADLOCK FALSE

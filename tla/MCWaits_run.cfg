SPECIFICATION WaitsSpec
CONSTANTS
  Client = {g1, g2}
  NoOne = NoOne
  Uses <- FewCommands
  Persist <- Exits
  Semihosting = TRUE
  Overlap = FALSE
  Stops = FALSE
  Drops = FALSE
  FaultKinds <- NoFaults
  MaxFaults = 0
  Scripts <- AllScripts
  MaxDamage = 2
  RingSizes = {2, 3, 5}
  RttTotal = 8
  Backends = {"usb", "hid"}
  UsbWrites = 3
  UsbOpens = 2
INVARIANTS InStep AnswersMatch
PROPERTIES InterruptStops EveryCommandAnswered ServerExits RttIsQueue WriteReturns
  PacketsAnswered CloseReturns
CHECK_DEADLOCK FALSE

SPECIFICATION FlashSpec
CONSTANTS
  FlashPages = 4
  SectorSize = 2
  Keep = 7
  FlashJobs <- Defaults
INVARIANTS UnwrittenIsKept
CHECK_DEADLOCK FALSE

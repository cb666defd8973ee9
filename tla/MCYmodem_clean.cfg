CONSTANTS
  Sessions <- MCSessions
  LONG = 2
  SEQ_MOD = 2
  TM_SEC = 2
  PartLen = 4
  SectorLen = 2
  Faults = {}
  MaxFaults = 0
  MaxRetries = 2
  MaxFiles = 2
  MaxBlocks = 2
  Headers = {1}
  Purges = {TRUE, FALSE}
  Sized = {TRUE}
SPECIFICATION SpecTwo
CHECK_DEADLOCK FALSE
INVARIANTS
  FailsForAReason
PROPERTIES
  Completes

CONSTANTS
  Sessions <- MCSessions
  LONG = 2
  SEQ_MOD = 3
  TM_SEC = 2
  PartLen = 4
  SectorLen = 2
  Faults = {"mute", "hasty"}
  MaxFaults = 1
  MaxRetries = 2
  MaxFiles = 1
  MaxBlocks = 2
  Headers = {1}
  Purges = {TRUE}
  Sized = {TRUE}
SPECIFICATION Spec
CHECK_DEADLOCK FALSE
INVARIANTS
  SuccessIsWhole

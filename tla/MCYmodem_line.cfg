CONSTANTS
  Sessions <- MCSessions
  LONG = 2
  SEQ_MOD = 3
  TM_SEC = 2
  PartLen = 4
  SectorLen = 2
  Faults = {"lose", "mute", "garble", "noise", "stall", "overrun", "erase", "write"}
  MaxFaults = 1
  MaxRetries = 2
  MaxFiles = 1
  MaxBlocks = 3
  Headers = {1, 2}
  Purges = {TRUE, FALSE}
  Sized = {TRUE}
SPECIFICATION Spec
CHECK_DEADLOCK FALSE
INVARIANTS
  TypeOK
  ReceivedPrefix
  SuccessIsWhole
  SenderKnows
PROPERTIES
  Ends

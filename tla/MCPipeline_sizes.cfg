CONSTANTS
  READ_SIZE = 6
  BUF_SIZE = 12
  REMAIN_SIZE = 3
  HDR_SIZE = 1
  SECTOR = 6
  DstLen = 44
  Packages <- MCPackages
  Faults = {"read", "write", "memory", "flush", "init"}
  MaxJobs = 2
  NoneRaws = {1, 5, 6, 7, 12, 13}
  GzipRaws = {1, 2, 3, 11, 12, 13, 25}
  Streams = {1, 5, 6, 7, 12}
  LastLens = {1, 12}
  BlockSizes = {1, 4, 5, 12}
  MaxBlocks = 3
  Repeated = {1, 7, 13}
SPECIFICATION MCSpec
CHECK_DEADLOCK FALSE
INVARIANTS
  TypeOK
  ReleasedInOrder
  WritesOnErased
  BufferHolds
  NoFalseAlarm
PROPERTIES
  AlignedWrites
  Terminates

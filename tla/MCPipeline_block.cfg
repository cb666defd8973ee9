CONSTANTS
  READ_SIZE = 6
  BUF_SIZE = 12
  REMAIN_SIZE = 3
  HDR_SIZE = 1
  SECTOR = 6
  DstLen = 44
  Packages <- MCPackages
  Faults = {}
  MaxJobs = 1
  NoneRaws = {}
  GzipRaws = {}
  Streams = {}
  LastLens = {12}
  BlockSizes = {4, 13}
  MaxBlocks = 3
  Repeated = {}
SPECIFICATION MCSpec
CHECK_DEADLOCK FALSE
INVARIANTS
  BufferHolds

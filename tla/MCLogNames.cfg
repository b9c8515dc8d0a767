CONSTANTS
  i1 = i1
  i2 = i2
  node = node
  cMaxLogFiles = 6
  cFileSizeLimit = 1
  Base = 10
  FilesFail = FALSE
  MaxWrites = 11
  MaxCrashes = 1
  Instances = {i1, i2}
  NoInstance = node
  Writer <- WriterOf
  Requests = {}
  cMaxNumLogRequests = 1
  ContentLen = 1
  MaxAccepted = 0
SPECIFICATION Spec
PROPERTIES OldestIsRemoved
CHECK_DEADLOCK FALSE

CONSTANTS
  i1 = i1
  i2 = i2
  node = node
  cMaxLogFiles = 2
  cFileSizeLimit = 1
  Base = 3
  FilesFail = TRUE
  MaxWrites = 5
  MaxCrashes = 1
  Instances = {i1, i2}
  NoInstance = node
  Writer <- WriterOf
  Requests <- RequestsOf
  cMaxNumLogRequests = 2
  ContentLen = 1
  MaxAccepted = 3
SPECIFICATION Spec
INVARIANTS TypeOK  
PROPERTIES  AnswerIsComplete StopReturns QueueMoves
CHECK_DEADLOCK FALSE

CONSTANTS
  f1 = f1
  f2 = f2
  Files = {f1, f2}
  Parts <- PartsOf
  MaxRequests = 2
  MaxShort = 1
SPECIFICATION Spec
INVARIANTS TypeOK OkIsComplete
PROPERTIES OwnChunksOnly DownloadReturns

\* Tables of two, one device more than the parser takes.
SPECIFICATION Spec
CONSTANTS
  cMax = 2
  cMaxNumNodeDevices = 2
  cMaxNumHostDevices = 1
  Values <- MCValues
  Foreign <- MCForeign
  Text <- MCText
INVARIANTS TypeOK SavedIsLoaded NothingIsLost

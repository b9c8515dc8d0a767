SPECIFICATION Spec
CONSTANTS
  HeaderSize = 2
  ReceiveSize = 2
  Payloads <- MCShortPayloads
  WholeReads = FALSE
  PeerWaits = FALSE
  TimeoutsHappen = TRUE
  MaxFailures = 1
  MaxStops = 1
INVARIANTS TypeOK CopyInBounds NothingTwice
PROPERTIES FrameReleased Reconnects
CHECK_DEADLOCK FALSE

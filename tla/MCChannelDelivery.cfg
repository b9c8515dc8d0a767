SPECIFICATION Spec
CONSTANTS
  HeaderSize = 2
  ReceiveSize = 2
  Payloads <- MCPayloads
  WholeReads = TRUE
  PeerWaits = TRUE
  TimeoutsHappen = FALSE
  MaxFailures = 0
  MaxStops = 0
PROPERTIES PipeSafety PipeLiveness
CHECK_DEADLOCK FALSE

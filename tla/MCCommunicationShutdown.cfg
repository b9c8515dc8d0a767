SPECIFICATION Spec
CONSTANTS
  iam = iam
  sm = sm
  Clients = {iam, sm}
  StopsHandler = {iam}
  Unsolicited = FALSE
  AnyTime = FALSE
  Releases = FALSE
  NoPort = NoPort
  MaxFailures = 1
INVARIANTS NoSleepThroughReconnect ClosedAfterStop ChannelOutlivesHandler
PROPERTIES ShutdownCompletes HandlersConnect

SPECIFICATION Spec
CONSTANTS
  iam = iam
  sm = sm
  Clients = {iam, sm}
  StopsHandler = {}
  Unsolicited = TRUE
  AnyTime = FALSE
  Releases = FALSE
  NoPort = NoPort
  MaxFailures = 0
PROPERTIES ManagerStops
CHECK_DEADLOCK FALSE

CONSTANTS
  Overlap = TRUE
  Stored = {"provisioned"}
  MaxEvents = 1
SPECIFICATION Spec
PROPERTY RequestsAnswered
CHECK_DEADLOCK FALSE

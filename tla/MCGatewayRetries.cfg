SPECIFICATION GatewayFairSpec
CONSTANTS
  HttpRequests = {h1}
  MaxTries = 2
  Attempts <- MCAttempts
  KeyOf <- MCKeyOf
  NoKey = ""
  InitialStock = 2
  MaxReleases = 1
  Faults = {"db_error", "ambiguous_insert", "ambiguous_lock", "ambiguous_release", "inventory_error", "cancel", "crash"}
CHECK_DEADLOCK FALSE
INVARIANTS
  GatewayTypeOK
  ToldIsBooked
PROPERTIES
  ImplementsBooking
  SagaNeverReopens
  RequestAnswered
  SagaReachesFinal

SPECIFICATION Spec
CONSTANTS
  rt1 = rt1
  c1 = c1
  c2 = c2
  RoomTypes = {rt1}
  Seed <- MCSeed
  UnknownType = UnknownType
  Calls = {c1, c2}
  Arguments <- MCArguments
  Searches = {s1}
  MaxPings = 2
  MaxCrashes = 1
  MaxAttempts = 2
  Faults = {"db_error", "ambiguous_update"}
CHECK_DEADLOCK FALSE
SYMMETRY CallSymmetry
INVARIANTS
  InventoryTypeOK
  EventsTellTruth
  OfferHolds
  ServesRooms
PROPERTIES
  ImplementsStock

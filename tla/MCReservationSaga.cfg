SPECIFICATION Spec
CONSTANTS
  a1 = a1
  a2 = a2
  a3 = a3
  Attempts = {a1, a2, a3}
  KeyOf <- MCKeyOf
  NoKey = ""
  InitialStock = 2
  MaxReleases = 2
  Faults = {"db_error", "ambiguous_lock", "inventory_error", "cancel", "crash"}
CHECK_DEADLOCK FALSE
SYMMETRY RetrySymmetry
INVARIANTS
  BookedKeepsRoom
  StockIsAvailable
  OneOutcome
  
  CompensationTold

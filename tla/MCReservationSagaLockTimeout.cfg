SPECIFICATION Spec
CONSTANTS
  a1 = a1
  a2 = a2
  a3 = a3
  Attempts = {a1, a3}
  KeyOf <- MCKeyOf
  NoKey = ""
  InitialStock = 2
  MaxReleases = 2
  Faults = {"ambiguous_lock"}
CHECK_DEADLOCK FALSE
INVARIANTS
  FailedLockTookNoStock

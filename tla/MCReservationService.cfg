SPECIFICATION ServiceFairSpec
CONSTANTS
  Attempts = {a1, a2}
  KeyOf <- MCKeyOf
  NoKey = ""
  Zero = zero
  InitialStock = 2
  MaxReleases = 1
  Faults = {"crash"}
  MaxPings = 2
  MaxStops = 1
CHECK_DEADLOCK FALSE
INVARIANTS
  ServiceTypeOK
  SameKeySameAnswer
  AnsweredIsFound
PROPERTIES
  EndsWithoutKafka
  ComesBack

SPECIFICATION FairSpec
CONSTANTS
  Calls = {c1, c2, c3, c4}
  FailureThreshold = 3
  OpenDuration = 4
  CallTimeout = 2
INVARIANTS
  HalfOpenExclusive
  ClosedBelowThreshold
PROPERTIES
  TrialDecides
  LateCloseWindow
  RecoveryIsTried

SPECIFICATION Spec
CONSTANTS
  Reservations = {r1}
  Worker = Worker
  MaxEvents = 1
  MaxDisruptions = 0
  Retries = 0
  Faults = {}
CHECK_DEADLOCK FALSE
INVARIANTS
  OneEmail

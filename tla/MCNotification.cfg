SPECIFICATION FairSpec
CONSTANTS
  Reservations = {r1, r2}
  Worker = Worker
  MaxEvents = 2
  MaxDisruptions = 1
  Retries = 1
  Faults = {"db_error", "ambiguous_save", "commit_lost"}
CHECK_DEADLOCK FALSE
INVARIANTS
  OneEmailPerPath
  SentOnce
  CompletedIsRecorded
  CommittedIsAccounted
PROPERTIES
  EventsHandled

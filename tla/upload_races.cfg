\* Two retries beside each other and beside the upload of finish.
SPECIFICATION Spec
CONSTANTS
  MaxSessions = 2
  Handlers = {h1, h2}
  MaxAttempts = 4
  MaxCrashes = 1
  MaxFaults = 3
  Faults <- AllFaults
INVARIANTS
  UploadedIsOnServer
  RowShowsLastOutcome
PROPERTIES
  UnaskedStays
CHECK_DEADLOCK FALSE

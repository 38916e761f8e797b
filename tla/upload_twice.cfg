\* Two retries of the same document.
SPECIFICATION Spec
CONSTANTS
  MaxSessions = 1
  Handlers = {h1, h2}
  MaxAttempts = 3
  MaxCrashes = 0
  MaxFaults = 1
  Faults <- OnlyRefuse
INVARIANTS
  UploadedOnce
CHECK_DEADLOCK FALSE

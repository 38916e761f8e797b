\* Nothing fails but the process: a page being converted when it stops.
SPECIFICATION Spec
CONSTANTS
  MaxSessions = 1
  MaxScans = 2
  MaxCrashes = 1
  MaxFaults = 0
  Faults <- NothingFails
  Commands = {"scan-page", "finish"}
  HasUploader = FALSE
INVARIANTS
  PagesBacked

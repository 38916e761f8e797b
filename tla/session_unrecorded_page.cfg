\* Recording a page fails once, and the daemon is restarted.
SPECIFICATION Spec
CONSTANTS
  MaxSessions = 1
  MaxScans = 2
  MaxCrashes = 1
  MaxFaults = 1
  Faults <- OnlyAddPage
  Commands = {"scan-page", "finish"}
  HasUploader = FALSE
INVARIANTS
  NoPageLost

\* Everything may fail, the database included.
SPECIFICATION Spec
CONSTANTS
  MaxSessions = 2
  MaxScans = 2
  MaxCrashes = 2
  MaxFaults = 2
  Faults <- AllFaults
  Commands = {"scan-new", "scan-page", "finish", "discard"}
  HasUploader = TRUE
INVARIANTS
  TypeOK
  OpenIsActive
  PendingIsCurrent
  NothingAfterEnd
  SavedIsOwn
PROPERTIES
  TerminalIsFinal
  ReturnSettles

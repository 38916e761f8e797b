\* Actions against the goroutines of their pages, crashes and restarts, with a
\* database that works. Under fairness the actions return.
SPECIFICATION FairSpec
CONSTANTS
  MaxSessions = 2
  MaxScans = 3
  MaxCrashes = 1
  MaxFaults = 1
  Faults <- RecoveryFaults
  Commands = {"scan-new", "scan-page", "finish", "discard"}
  HasUploader = FALSE
INVARIANTS
  BackedUntilStop
  NoStrayDocument
  ScannedBeforeProcessed
  ActiveIsCurrent
  SavedIsComplete
  NoPageLost
  ShownMatchesDisk
PROPERTIES
  ImplementsLifecycle
  ActionsReturn

\* The status page read while the daemon writes, attaches, trims and stops.
SPECIFICATION Spec
CONSTANTS
  KeepActions = 3
  MaxEntries = 7
  MaxSessions = 2
  MaxStops = 1
  MaxFaults = 1
  Faults <- AllFaults
  SessionLimit = 1
  ActionsLimit = 4
INVARIANTS
  TriggerIsInSession
  NewestKept
  ShownOnce
PROPERTIES
  SessionIsFinal
  RecentShown
CHECK_DEADLOCK FALSE

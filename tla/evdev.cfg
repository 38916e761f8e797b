\* Detected devices of both kinds, all of them to be grabbed, come and go.
SPECIFICATION FairSpec
CONSTANTS
  Paths = {e1, e2}
  Named <- NoNames
  Grab = TRUE
  Plugging = {"keyboard", "button"}
  MaxPlugs = 1
  MaxPresses = 2
  MaxFaults = 1
  Faults <- PassingFaults
INVARIANTS
  BelievedIsSeized
  OnlyTheRaceSticks
PROPERTIES
  UnskippedIsHeard
  GrabHappens
CHECK_DEADLOCK FALSE

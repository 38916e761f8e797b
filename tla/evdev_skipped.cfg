\* A button makes way for a keyboard under the same path.
SPECIFICATION FairSpec
CONSTANTS
  Paths = {e1}
  Named <- NoNames
  Grab = FALSE
  Plugging = {"keyboard", "button"}
  MaxPlugs = 1
  MaxPresses = 0
  MaxFaults = 0
  Faults <- NothingFails
PROPERTIES
  KeyboardIsHeard
CHECK_DEADLOCK FALSE

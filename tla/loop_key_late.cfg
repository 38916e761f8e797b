\* Two presses while the loop is busy with a click.
SPECIFICATION Spec
CONSTANTS
  IdleTimeout = 0
  SendTimeout = 2
  MaxInputs = 3
PROPERTIES
  KeyInTime
CHECK_DEADLOCK FALSE

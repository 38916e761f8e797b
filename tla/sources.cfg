\* Presses, clicks, the idle timer and a stop, in every order, with each of the
\* key sources.
SPECIFICATION SourcesFairSpec
CONSTANTS
  IdleTimeout = 2
  SendTimeout = 1
  MaxInputs = 3
  UTFMax = 3
  ReadSize = 2
INVARIANTS
  TimerRuns
  NoPressLost
PROPERTIES
  IdleFinishIsDue
  OpenIsFinished
  QuitIsKept
  QuitIsHeard
  DaemonStops
CHECK_DEADLOCK FALSE

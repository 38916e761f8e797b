\* A scan and the conversion of a page whose tools hang, ignore SIGTERM and
\* leave helpers behind.
SPECIFICATION FairSpec
CONSTANTS
  Timeout = 2
  KillGrace = 2
  MaxRuns = 2
INVARIANTS
  AbortIsClean
  ReturnsInTime
PROPERTIES
  CallsReturn
  GroupDies
  ImplementsPageCall

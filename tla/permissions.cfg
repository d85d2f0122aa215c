SPECIFICATION FairSpec
CONSTANTS
  Devices <- AllDevices
  MaxChecks = 3
  MaxTurns = 1
  None = None
INVARIANTS TypeOK VerdictTrue Waker
PROPERTIES CheckEnds
CHECK_DEADLOCK FALSE

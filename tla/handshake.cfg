SPECIFICATION FairSpec
CONSTANTS
  MaxCalls = 3
  MaxDeaths = 2
  Failed = Failed
  Calm = {TRUE, FALSE}
INVARIANTS TypeOK Waker
PROPERTIES OnlyOwnTimeout KeepsPromise CallEnds
CHECK_DEADLOCK FALSE

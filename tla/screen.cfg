SPECIFICATION FairSpec
CONSTANTS
  MaxStarts = 3
INVARIANTS TypeOK OneJob NoStartDuringJob
PROPERTIES StopWorks NoCommandDropped
CHECK_DEADLOCK FALSE

SPECIFICATION FairSpec
CONSTANTS
  MaxCalls = 2
  MaxDeaths = 0
  Failed = Failed
  Calm = {FALSE}
INVARIANTS OwnThumbnail
CHECK_DEADLOCK FALSE

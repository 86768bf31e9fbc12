SPECIFICATION FairSpec
CONSTANTS
  Platforms = {TRUE}
  MaxEvents = 2
  MaxFailures = 1
PROPERTIES OffReachesLcd
CHECK_DEADLOCK FALSE

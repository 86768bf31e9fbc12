SPECIFICATION FairSpec
CONSTANTS
  Platforms = {TRUE, FALSE}
  MaxEvents = 3
  MaxFailures = 1
INVARIANTS TypeOK OnMeansLit QuitEndsDark
PROPERTIES FileSettles OnReachesLcd OffReachesLcdUnfailing SurvivorEndsDark
CHECK_DEADLOCK FALSE

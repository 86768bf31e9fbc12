SPECIFICATION FairSpec
CONSTANTS
  Process = {asterctl, sysinfo}
  Reader = asterctl
  Writer = sysinfo
  asterctl = asterctl
  sysinfo = sysinfo
  Snapshot <- SensorSnapshot
  NoSnapshot = NoSnapshot
  MaxTroubles = 2
  MaxCount = 1
  Interface = {1, 2}
  MaxRounds = 3
INVARIANTS TypeOK UnlinksOwn SharedUnlessUnlinked SensorsOfThisRound SelectionIsStable
PROPERTIES SnapshotArrives
CHECK_DEADLOCK FALSE

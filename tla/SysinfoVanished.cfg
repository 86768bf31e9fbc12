SPECIFICATION Spec
CONSTANTS
  Process = {asterctl, sysinfo}
  Reader = asterctl
  Writer = sysinfo
  asterctl = asterctl
  sysinfo = sysinfo
  Snapshot <- SensorSnapshot
  NoSnapshot = NoSnapshot
  MaxTroubles = 0
  MaxCount = 1
  Interface = {1, 2}
  MaxRounds = 2
INVARIANT VanishedIsOmitted
CHECK_DEADLOCK FALSE

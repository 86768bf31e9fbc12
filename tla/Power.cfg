SPECIFICATION PowerFairSpec
CONSTANTS
  asterctl = asterctl
  Child = {asterctl}
  MenuTargets = {}
  Windows = TRUE
  KillMayFail = TRUE
  TryWaitMayFail = FALSE
  MaxChanges = 0
  RestartUart = TRUE
INVARIANTS PowerTypeOK SleepInForce
PROPERTIES GraceUndisturbed SleepStopsChildren StuckAnswered

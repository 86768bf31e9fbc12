SPECIFICATION Spec
CONSTANTS
  Child = {asterctl}
  asterctl = asterctl
  MenuTargets = {{asterctl}}
  Windows = TRUE
  KillMayFail = FALSE
  TryWaitMayFail = FALSE
  MaxChanges = 1
INVARIANTS ArgsCurrent

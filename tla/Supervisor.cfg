SPECIFICATION FairSpec
CONSTANTS
  Child = {asterctl, sysinfo}
  asterctl = asterctl
  sysinfo = sysinfo
  MenuTargets = {{asterctl}, {sysinfo}}
  Windows = TRUE
  KillMayFail = TRUE
  TryWaitMayFail = FALSE
  MaxChanges = 1
INVARIANTS TypeOK NoOrphan
PROPERTIES OneInstance QuitEnds Supervised

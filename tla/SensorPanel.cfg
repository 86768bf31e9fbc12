SPECIFICATION FairSpec
CONSTANTS
  Key = {cpu, disk}
  cpu = cpu
  disk = disk
  ShmKey = {cpu}
  ThemeInputs = {0, 1, 4}
  MaxPanels = 2
  MaxEntries = 2
  MaxCustom = 1
  MaxVersion = 2
  RoundKeys = {{cpu, disk}, {cpu}}
  MaxSnapshots = 1
INVARIANTS TypeOK WholeRounds
PROPERTIES EveryPanelShown UpdateArrives

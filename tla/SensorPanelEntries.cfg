SPECIFICATION FairSpec
CONSTANTS
  Key = {cpu, disk}
  cpu = cpu
  disk = disk
  ShmKey = {cpu}
  ThemeInputs = {4}
  MaxPanels = 2
  MaxEntries = 2
  MaxCustom = 0
  MaxVersion = 1
  RoundKeys = {{cpu, disk}, {cpu}}
  MaxSnapshots = 1
PROPERTIES InvalidIgnored

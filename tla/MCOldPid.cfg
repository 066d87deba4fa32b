SPECIFICATION Spec
CONSTANTS
  Platforms <- WindowsOnly
  MaxLaunches = 2
  MaxCommands = 1
  MaxFaults = 0
CHECK_DEADLOCK FALSE
INVARIANTS FreshIsNew

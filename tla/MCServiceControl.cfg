SPECIFICATION Spec
CONSTANTS
  Platforms <- MCPlatforms
  MaxLaunches = 4
  MaxCommands = 2
  MaxFaults = 2
CHECK_DEADLOCK FALSE
INVARIANTS ServiceTypeOK StoppedBlank
PROPERTIES Supervises ResetAlone UpdateBringsBack CommandsEnd RestartServes

SPECIFICATION CpuSpec
CONSTANTS
  Controllers = {boat}
  Worlds = 3
  Repeats = 2
  TickCost = 5
  MaxCpu = 2
INVARIANT DeadIsFailed

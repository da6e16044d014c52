CONSTANTS
  MaxElements = 3
  MaxDraws = 4
  Clock = 10
  Jiffies = {2, 3}
  Width = 4
  Capacities = {1, 2}
  Sessions = {0, 1}
  MAX = 5
SPECIFICATION Spec
INVARIANTS
  FreedBlockUnused
  CpuReading
  ShowsWhatIsThere
  OneIsSafe

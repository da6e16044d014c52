CONSTANTS
  cpu = cpu
  oom = oom
  time = time
  bmp = bmp
  NULL = NULL
  Literal = Literal
  Libs = {cpu, oom}
  Names = {cpu, oom}
  Broken = {}
  HasCreate = {cpu, oom}
  HasDestroy = {cpu}
  HasData = {cpu}
  Periods = {2}
  MaskRestored = TRUE
  MaxNodes = 3
  MaxFaults = 3
SPECIFICATION FairSpec
INVARIANT SurvivesRepeatedFaults
PROPERTY EveryWalkEnds

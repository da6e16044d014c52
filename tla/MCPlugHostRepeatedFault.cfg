CONSTANTS
  cpu = cpu
  oom = oom
  time = time
  bmp = bmp
  NULL = NULL
  Literal = Literal
  Libs = {cpu, oom}
  Names = {cpu, oom}
  Broken = {}
  HasCreate = {cpu, oom}
  HasDestroy = {cpu}
  HasData = {cpu}
  Periods = {2}
  MaskRestored = FALSE
  MaxNodes = 2
  MaxFaults = 2
SPECIFICATION Spec
INVARIANT SurvivesRepeatedFaults

CONSTANTS
  cpu = cpu
  oom = oom
  time = time
  bmp = bmp
  NULL = NULL
  Literal = Literal
  Libs = {cpu, oom, bmp}
  Names = {cpu, oom, bmp}
  Broken = {bmp}
  HasCreate = {cpu, oom}
  HasDestroy = {cpu}
  HasData = {cpu}
  Periods = {0, 4, 6}
  MaskRestored = FALSE
  MaxNodes = 3
  MaxFaults = 2
SPECIFICATION Spec
INVARIANTS
  TypeOK
  HandlesMatchElements
  EveryElementVisited
  PeriodDividesIntervals
  SpinsOnlyWithoutPlugins
  PoolsRescued
  Contained
  SoundUntilFault

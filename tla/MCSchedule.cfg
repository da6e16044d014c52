CONSTANTS
  S = 2
  Minute = 3
  Epoch = 17
  Elements = {1, 2, 3}
  Lib <- MCLibs
  Written <- MCIntervals
  Period = 1
  Kinds = {"expose", "other"}
  Steps = {3}
  MaxLag = 1
  MaxQueue = 2
  MaxOthers = 2
  MaxSets = 1
SPECIFICATION FairSpec
INVARIANTS
  StampsFollowRuns
  RunsInTime
  DrawsInTime
PROPERTIES
  NeverTwiceAsOften
  RunsForever

CONSTANTS
  Nodes = {n1, n2, n3}
  Data = {d1, d2, d3}
  NULL = NULL
  MaxSignals = 2
SPECIFICATION Spec
INVARIANTS
  WellLinked
  IntactUntilLate
  OneLeftAtMost
PROPERTY ActsLikeSeqList

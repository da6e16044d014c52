CONSTANTS
  IntMax = 31
  Written <- MCWritten
SPECIFICATION GcdFairSpec
INVARIANTS
  ReturnsGcd
  NoWrap
PROPERTY PositiveReturns

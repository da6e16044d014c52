CONSTANTS
  Documents <- MCDocuments
  Installed <- MCInstalled
  HasData <- MCHasData
  Broken <- MCBroken
  NeedsOptions <- MCNeedsOptions
  HashSize = 64
  Beginnings <- MCBeginnings
  Memories <- MCMemories
  Size = 4
  NULL = NULL
SPECIFICATION Spec
INVARIANTS
  RightData
  FaultExplained
  NodesSettled
  ExcerptFits
  CaretUnderCursor

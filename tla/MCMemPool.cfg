CONSTANTS
  p = p
  q = q
  a1 = a1
  a2 = a2
  a3 = a3
  Ids = {p, q}
  Addrs = {a1, a2, a3}
  None = None
  MaxUsers = 2
SYMMETRY Symmetry
SPECIFICATION Spec
INVARIANTS
  TableMatchesHeap
  StaleOnlyBySharing
  CorruptOnlyInWindows
  LeaksOnlyInFlight

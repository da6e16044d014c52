CONSTANTS
  MaxSignals = 0
  Sent = {}
SPECIFICATION Spec
INVARIANT Informed

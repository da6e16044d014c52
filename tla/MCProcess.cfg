CONSTANTS
  MaxSignals = 2
  Sent = {"INT", "QUIT", "TERM"}
SPECIFICATION FairSpec
INVARIANTS
  TypeOK
  OneSignalSuffices
  ChildInStep
  TerminalIsRight
PROPERTY EndsWhenAsked

SPECIFICATION LFairSpec
CONSTANTS
  None = None
  Servers = {"exchange", "management"}
  r1 = r1
  r2 = r2
  r3 = r3
  Requests = {r1, r2, r3}
  QueueSize = 2
CHECK_DEADLOCK FALSE
INVARIANTS
  LTypeOK
  NoRequestCut
  SpansExported
  ExitStatus
  NeverHangs
PROPERTY
  StopTogether

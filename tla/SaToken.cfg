SPECIFICATION SaFairSpec
CONSTANTS
  None = None
  c1 = c1
  Calls = {c1}
  Subjects <- AllSubjects
  status <- AllStatuses
  Audience = "jwtlet"
  Capacity = 1
  MaxVersion = 3
  Faults = {"read", "api", "watch"}
CHECK_DEADLOCK FALSE
INVARIANTS
  SaTypeOK
  FailsOnlyForTheFile
  NoLostWakeup
PROPERTIES
  RotationsNoticed
  RenewerEnds
  KeepsPromise

SPECIFICATION Spec
CONSTANTS
  Hardware <- MCHardware
  Cuda <- MCCuda
  NoKey = "none"
  NoVersion = NoVersion
  NoTarget = NoTarget
  MaxEpDevices = 2
  Environments <- MCEnvironments
  Threads = {t1, t2}
  Streams = {s1}
  MaxContexts = 2
  None = None
INVARIANTS
  JudgementsAgree
  NoContextLost
  MadeWhereRemembered
PROPERTY
  CallersContextKept
SYMMETRY Symmetric
CHECK_DEADLOCK FALSE

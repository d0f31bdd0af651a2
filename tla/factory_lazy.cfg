SPECIFICATION GraphSpec
CONSTANTS
  Sessions = {s1, s2}
  Devices = {gpu0}
  NoSession = NoSession
  AnyDevice = AnyDevice
  LazyKinds = {"pinned", "registry"}
  MaxObjects = 2
  GraphSessions = {}
  Ids = {1}
  Skip = Skip
  MinRuns = 2
INVARIANT
  SharedObjectsStable
CHECK_DEADLOCK FALSE

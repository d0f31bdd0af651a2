SPECIFICATION GraphSpec
CONSTANTS
  Sessions = {s1, s2}
  Devices = {gpu0}
  NoSession = NoSession
  AnyDevice = AnyDevice
  LazyKinds = {"pinned", "registry"}
  MaxObjects = 2
  GraphSessions = {s1}
  Ids = {1, 2}
  Skip = Skip
  MinRuns = 2
INVARIANTS
  HandedOutStaysValid
  SyncStaysSynchronous
  GraphsAreWarm
CHECK_DEADLOCK FALSE

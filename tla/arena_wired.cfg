CONSTANTS
  Unit = 2
  NumBins = 2
  Word = 64
  MaxMem = 10
  SameAsRequested = FALSE
  InitialChunk = 6
  MaxDead = 4
  InitialGrowth = 4
  MaxPow2 = 8
  BackNum = 1
  BackDen = 2
  GiveUp = 4
  DeviceBytes = 10
  DeviceCap = 8
  Garbage = {0}
  Sizes = {1, 4}
  ReserveSizes = {3}
  Streams <- NoStreams
  NoStream = NoStream
  MaxSync = 0
SPECIFICATION Spec
INVARIANTS ChunksTileRegions StatsBalanced NoDeviceLeak
PROPERTIES ImplementsArenaSpec BestFitOrExtend ShrinkExact

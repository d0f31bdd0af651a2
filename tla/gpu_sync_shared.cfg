CONSTANTS
  Unit = 2
  NumBins = 3
  Word = 64
  MaxMem = 8
  SameAsRequested = FALSE
  InitialChunk = 6
  MaxDead = 4
  InitialGrowth = 4
  MaxPow2 = 8
  BackNum = 1
  BackDen = 2
  GiveUp = 4
  DeviceBytes = 6
  DeviceCap = 6
  Garbage = {0, 3}
  Sizes = {1, 4}
  ReserveSizes = {5}
  Streams <- TwoStreams
  NoStream = NoStream
  MaxSync = 1
  s1 = s1
  s2 = s2
SPECIFICATION SyncSpec
INVARIANTS FreeChunksFiled LiveMemoryDisjoint NoEnforceFires
SYMMETRY StreamSymmetry

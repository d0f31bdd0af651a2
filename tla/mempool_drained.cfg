CONSTANTS
  t1 = t1
  t2 = t2
  p1 = p1
  p2 = p2
  s1 = s1
  Threads <- TwoThreads
  Pointers <- TwoPointers
  Streams <- OneStream
  Default = Default
  Gone = Gone
  NullPtr = NullPtr
  Sizes = {0, 2, 3}
  DestroyBusy = FALSE
SPECIFICATION FairSpec
INVARIANTS Books InUseExact OrderedFree
PROPERTIES NothingFromUnusablePool EveryCallReturns

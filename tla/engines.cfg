SPECIFICATION Spec
CONSTANTS
    s1 = s1
    s2 = s2
    Sessions = {s1, s2}
    Nodes <- MCNodes
    NodeInfo <- MCNodeInfo
    CompileOptions <- MCCompileOptions
    LoadOptions <- MCLoadOptions
    CacheRoot <- MCCacheRoot
    InitialFiles <- MCFiles
    InitialStore <- MCStore
    InitialModels <- MCModels
    MayCrash = TRUE
    NoOne = NoOne
    NoFile = NoFile
    Corrupt = Corrupt
    MaxBlob = 100
    Alignment = 2
    SlotBytes = 4
    RingDepth = 2
    StreamingThreshold = 4
INVARIANTS
    PublishedEnginesComplete
    NothingLeftBehind
    LoadedEnginesWhole
    ExportedTablesSuffice
    TableRoundTrips
    ProfilesMatchInputs
SYMMETRY Symmetry
CHECK_DEADLOCK FALSE

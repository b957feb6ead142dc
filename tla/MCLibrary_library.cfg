SPECIFICATION Spec
CONSTANTS
    Parts = {"ack", "backoff", "nal", "double", "single", "hash", "bits", "layout", "config", "encodings", "setup", "files", "logger", "trace", "alloc"}
    Handles = {"h1", "h2"}
    Texts <- MCTexts
    Machines = {1, 2}
    Configs <- MCConfigs
    CallTime = 8
    MaxClock = 20
    Pieces <- MCPieces
    MaxPieces = 5
    MaxZeros = 3
    Lists = {"a", "b"}
    Items = {"x", "y"}
    Nodes = {1, 2, 3}
    Nil = 0
    Keys = {1, 2, 3, 5}
    Values = {"x", "y"}
    BucketOf <- MCBucketOf
    BucketLength = 1
    MinGrown = 2
    BitCount = 9
    TrackLists <- MCTracks
    CpdSizes <- MCCpdSizes
    FrameSizes = {1}
    TagQueues <- MCTagQueues
    VersionSize = 71
    Samples <- TrackSampleSet
    Data <- MCData
    WordBits = 6
    HashWord = 16
    HashPrime = 3
    ByteValues = 4
    Ticks = 2
    MaxDuration = 130000000
    Devices <- MCDevices
    StreamInfos <- MCStreamInfos
    Formats = {"plain"}
    OffsetWord = 8
    Buffers <- MCBuffers
    MaxFile = 3
    Trees <- MCTrees
    BufferLen = 3
    MaxLogFiles = 2
    LineLengths = {1, 3}
    MaxLines = 3
    MaxFaults = 1
    MaxCrashes = 1
    TraceCallers = {"t1", "t2"}
    RingSizes = {1, 2}
    MIN_TRACE_NUM = 2
    MaxTraces = 3
    LateStops = FALSE
    Blocks = {"b1", "b2"}
    Sizes = {1, 3}
    MaxStoreTotal = 8
    Careless = {}
INVARIANTS
    AcksArriveWhole
    NalsSurvive
    LayoutAgrees
    TrackConfigRecovered
    EncodingsExact
    SetupUsable
    FilesKept
    TracesTold
    AllocationsAccounted
PROPERTIES
    BacksOff
    CollectionsRefine
CHECK_DEADLOCK FALSE

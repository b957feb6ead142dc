SPECIFICATION FairSpec
CONSTANTS
    MaxItems = 3
    MaxHandles = 2
    MaxDrops = 1
    MaxRotations = 0
    FrameKinds = {"key", "delta", "eofr"}
    MetadataLeft = {FALSE, TRUE}
    Results = {"ok", "timeout"}
    WaitForPersistedAck = TRUE
    AbsoluteFragmentTimes = TRUE
    ReplayDuration = 3
    Faults = {"unknown"}
PROPERTIES
    StopDrains
CHECK_DEADLOCK FALSE

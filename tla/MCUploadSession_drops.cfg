SPECIFICATION Spec
CONSTANTS
    MaxItems = 3
    MaxHandles = 3
    MaxDrops = 2
    MaxRotations = 0
    FrameKinds = {"key", "delta", "eofr"}
    MetadataLeft = {FALSE}
    Results = {"ok", "timeout"}
    WaitForPersistedAck = TRUE
    AbsoluteFragmentTimes = TRUE
    ReplayDuration = 3
    Faults = {"lost", "reset", "error"}
PROPERTIES
    SessionContiguous
    CloseSettlesLast
CHECK_DEADLOCK FALSE

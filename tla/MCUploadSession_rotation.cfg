SPECIFICATION Spec
CONSTANTS
    MaxItems = 4
    MaxHandles = 2
    MaxDrops = 1
    MaxRotations = 1
    FrameKinds = {"key", "delta", "eofr"}
    MetadataLeft = {FALSE}
    Results = {"ok", "timeout"}
    WaitForPersistedAck = TRUE
    AbsoluteFragmentTimes = FALSE
    ReplayDuration = 4
    Faults = {"unknown"}
PROPERTIES
    OneHeaderPerSession
    TrimOnlySettled
CHECK_DEADLOCK FALSE

SPECIFICATION Spec
CONSTANTS
    ItemBufferCount = 3
    BufferDuration = 3
    Policies = {"DROP_TAIL_VIEW_ITEM", "DROP_UNTIL_FRAGMENT_START"}
    Times = {0, 2}
    PtsOffsets = {1}
    Durations = {1}
    RollbackDurations = {1}
    ClientFlags = {"received", "skip"}
    MaxItems = 4
INVARIANTS
    HandlesOwnedByWindow
    StreamingItemRetained
    SearchByTimestamp
PROPERTIES
    FreesOnlyLiveHandles
    ResumesAtFragmentStart
CHECK_DEADLOCK FALSE

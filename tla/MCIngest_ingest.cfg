SPECIFICATION Spec
CONSTANTS
    Modes <- MCModes
    MaxQueue = 1
    MaxTimecode = 3
    MaxMetadata = 4
    MaxPuts = 2
    MaxFails = 1
INVARIANTS
    BlockHasItsCluster
    MergedInOrder
    CoordinatorReleases
    MetadataDeliveredOnce
CHECK_DEADLOCK FALSE

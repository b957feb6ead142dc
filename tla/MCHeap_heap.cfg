SPECIFICATION Spec
CONSTANTS
    Header = 1
    Footer = 1
    MinFree = 1
    Alignment = 2
    Setups <- MCSetups
    SpillOverhead = 1
    Sizes = {1, 3, 6}
    MaxAllocs = 3
    MaxFiles = 3
    MaxResizes = 2
    MaxFaults = 1
INVARIANTS
    ArenaWellFormed
    AccountMatchesBlocks
PROPERTIES
    OthersUntouched
CHECK_DEADLOCK FALSE

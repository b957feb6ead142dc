SPECIFICATION FairSpec
CONSTANTS
    Threads = {t1, t2, t3}
    Drainers = {d1}
    MaxPermits = 2
    Modes <- MCModes
    CanFree = TRUE
    Budget = 2
INVARIANTS
    TicketsBalance
    NoSleeperBesideFreePermit
PROPERTIES
    FreeReturnsWithoutRace
CHECK_DEADLOCK FALSE

SPECIFICATION Spec
CONSTANTS
    MaxTimers = 3
    TimerData = {d1}
    Delays = {0, 1}
    Periods = {0, 1}
    MaxNow = 1
    MaxOps = 3
    CountRange = 16
    SelfCancel = FALSE
    Actors = {a1, a2, a3}
    Callers = {c1, c2}
    MinThreads = 1
    MaxThreads = 2
    MaxTasks = 2
    MaxSent = 3
INVARIANTS
    SleepsUntilEarliest
    FreedPoolUntouched
PROPERTIES
    DueTimerServed
    PoolFreeReturns
CHECK_DEADLOCK FALSE

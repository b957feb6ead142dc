SPECIFICATION Spec
CONSTANTS
    MaxRetryCount = 1
    MaxFaults = 3
    MaxCalls = 4
    MaxHandles = 3
    Setups <- MCSetups
    Results = {"TIMEOUT", "NOT_AUTHORIZED", "NOT_FOUND"}
    LateAnswers = FALSE
INVARIANTS
    WaitsForAnAnswer
PROPERTIES
    SuppliesSessions
    DataGetsSession
CHECK_DEADLOCK FALSE

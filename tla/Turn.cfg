CONSTANTS
    MaxIterations = 2
    MaxToolCalls = 2
    TimeBudget = TRUE
    ProviderIds <- ReusedIds
    MaxTurns = 2
    MaxRequests = 3
    MaxBatch = 2
SPECIFICATION Spec
INVARIANTS
    HistoryReplayable
    EndedTurnReported
    NoStragglers
    EndsClean
PROPERTIES
    ImplementsContract
    BudgetHolds
    TurnEnds
CHECK_DEADLOCK FALSE

CONSTANTS
    n1 = n1
    n2 = n2
    NodeSeq <- MCNodeSeq
    Concurrency = 1
    FailureTolerate = 0
    TimeoutSeconds = 1
    MaxExecs = 2
    MaxFaults = 1
    Budgets <- PrePullBudgets
SPECIFICATION Spec
INVARIANTS TypeOK SlotsRespected CompletedMeansPulled
PROPERTIES FinalPhaseStays JobEndsWhileTimed
CHECK_DEADLOCK FALSE

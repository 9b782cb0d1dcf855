SPECIFICATION Spec
CONSTANTS
    d1 = d1
    d2 = d2
    Devices <- MCDevices
    Known <- MCKnown
    Vals <- MCVals
    Initial = 0
    Half = half
    Absent = absent
    Objects <- MCObjects
    Mutexes <- MCMutexes
    Budgets <- UnlockBudgets
INVARIANTS UnlockRemovesTheLock
CHECK_DEADLOCK FALSE

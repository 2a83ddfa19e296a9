CONSTANTS
    u1 = u1
    u2 = u2
    j1 = j1
    j2 = j2
    j3 = j3
    Task = {j1, j2, j3}
    MaxThreads = 2
    User = {u1}
    Submitters = {u1}
    Waiters = {u1}
    Owner = u1
    MaxResizes = 1
    Nested = TRUE
SPECIFICATION FairSpec
CHECK_DEADLOCK FALSE
INVARIANTS WorkingIsExact NothingIsAbandoned
PROPERTIES WaitIsComplete ImplementsTaskPool WaitReturns JobsRun FinishWorkEnds

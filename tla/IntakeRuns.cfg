\* Two runs of one job at a queue of one place and a semaphore of one.
CONSTANTS
    None = None
    j1 = j1
    Schedule = {j1}
    Rows <- JobRows
    Durable = TRUE
    MaxQueue = 1
    MaxConc = 1
    Prefetch = 2
    MaxRetries = 1
    Budgets <- Small
    MaxRuns = 2
    MaxMsgs = 8
SPECIFICATION FairSpec
INVARIANTS  AcceptedIsKept
PROPERTIES NothingWaitsForever
CHECK_DEADLOCK FALSE

SPECIFICATION Spec
CONSTANTS
    None = None
    Tx = {t1}
    Job = {j1, j2, j3}
    Call = {c1, c2}
    Sources = {"cometd", "manual"}
    Durable = FALSE
    MaxConc = 2
    MaxRetries = 1
    MaxFan = 0
    MaxAttempts = 1
    MaxCrashes = 1
SYMMETRY Symmetry
INVARIANTS
    TypeOK
    NoOrphan
    FailureIsReported
    
    PublishedWasAccepted
PROPERTIES
    KeepsPromise
    FlagStopsPublishing
    CancelledStaysCancelled
CHECK_DEADLOCK FALSE

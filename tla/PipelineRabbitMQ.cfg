SPECIFICATION Spec
CONSTANTS
    None = None
    Tx = {t1, t2}
    Job = {j1, j2}
    Call = {c1}
    Sources = {"cometd"}
    Durable = TRUE
    MaxConc = 2
    MaxRetries = 0
    MaxFan = 1
    MaxAttempts = 0
    MaxCrashes = 1
SYMMETRY Symmetry
INVARIANTS
    NoOrphan
CHECK_DEADLOCK FALSE

SPECIFICATION FairSpec
CONSTANTS
    None = None
    Tx = {t1}
    Job = {j1, j2, j3}
    Call = {c1}
    Sources = {"cometd"}
    Durable = FALSE
    MaxConc = 1
    MaxRetries = 1
    MaxFan = 0
    MaxAttempts = 1
    MaxCrashes = 0
PROPERTIES
    EventuallySettled
CHECK_DEADLOCK FALSE

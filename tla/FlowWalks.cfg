\* One pipeline with every kind of node, or two small ones, with a cancel request
\* and a broker that may refuse a message.
CONSTANTS
    None = None
    v0 = v0
    v1 = v1
    v2 = v2
    v3 = v3
    v4 = v4
    Node = {v0, v1, v2, v3, v4}
    Events <- Walked
    MaxPipes = 2
    MaxCancels = 1
    Faults = {"broker"}
SPECIFICATION FairSpec
INVARIANTS TypeOK RunsOnce Scoped AbortPublishesNothing Complete 
PROPERTIES Terminates
CHECK_DEADLOCK FALSE

\* Two threads at two sinks, one of them also the target of an alert.
CONSTANTS
    None = None
    s1 = s1
    s2 = s2
    a1 = a1
    o1 = o1
    k1 = k1
    Worker = {w1, w2}
    Req = {q1}
    Sink = {s1, s2}
    Rule = {a1}
    Org = {o1}
    Secret = {k1}
    Dots = Dots
    Rows <- SinkRows
    RuleRows <- AlertRows
    Installed <- Systems
    Finished <- Jobs
    Threshold = 2
SPECIFICATION FairSpec
INVARIANTS TypeOK OpenIsEarned NobodyForgotten
PROPERTIES DispatchEnds
CHECK_DEADLOCK FALSE

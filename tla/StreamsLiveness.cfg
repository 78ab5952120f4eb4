\* One org through outages and every kind of request, under fairness.
CONSTANTS
    Org = {o1}
    Conf = {c1}
    Channel = {ch}
    Mgr = {m1, m2}
    Req = {r1}
    None = None
    Calls = {"org", "event", "resync", "import", "shutdown"}
    LoginFaults = {"refused"}
SPECIFICATION FairSpec
PROPERTIES  StoppedEnds
CHECK_DEADLOCK FALSE

\* One request at a time, two orgs: edits of rows and channels and a shutdown.
CONSTANTS
    Org = {o1, o2}
    Conf = {c1, c2}
    Channel = {ch}
    Mgr = {m1, m2, m3}
    Req = {r1}
    None = None
    Calls = {"org", "event", "shutdown"}
    LoginFaults = {"malformed"}
SYMMETRY StreamSymmetry
SPECIFICATION Spec
INVARIANTS UpToDate  DownIsSilent
 
CHECK_DEADLOCK FALSE

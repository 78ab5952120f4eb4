\* Two syncs that overlap while clients are being closed.
CONSTANTS
    Org = {o1, o2}
    Conf = {c1}
    Channel = {ch}
    Mgr = {m1, m2}
    Req = {r1, r2}
    None = None
    Calls = {"org", "resync"}
    LoginFaults = {"refused"}
SYMMETRY StreamSymmetry
SPECIFICATION Spec
INVARIANTS TypeOK NoZombie
PROPERTIES StopIsFinal
CHECK_DEADLOCK FALSE

\* Accounts, logins, projects and pipelines, two or three requests at a time.
CONSTANTS
    None = None
    u1 = u1
    u2 = u2
    e1 = e1
    s1 = s1
    User = {u1, u2}
    Admin = u1
    Event = {e1}
    Setting = {s1}
    Tables = 2
    Guarded = {1}
    Req = {q1, q2, q3}
    MaxFailed = 2
    SSORole = "viewer"
    Installed <- Systems
SYMMETRY Requests
SPECIFICATION Spec
INVARIANTS DuplicatesBounded 
PROPERTIES LostOnlyByRace
CHECK_DEADLOCK FALSE

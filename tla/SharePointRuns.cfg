\* Three runs, two at a time, of a file action or of two list actions, while one
\* administrator edits the tables; Graph refuses calls and loses answers.
CONSTANTS
    None = None
    c1 = c1
    f1 = f1
    l1 = l1
    l2 = l2
    i1 = i1
    s1 = s1
    Run = {r1, r2, r3}
    Req = {q1}
    Conn = {c1}
    FileAct = {f1}
    ListAct = {l1, l2}
    Item = {i1, i2, i3}
    Secret = {s1}
    Blank = Blank
    Masked = Masked
    Files <- FileRows
    Lists <- ListRows
    Installed <- Tables
    Budget = 1
    MaxThreads = 2
    Faults = {"refused", "lost"}
SPECIFICATION Spec
INVARIANTS TypeOK UpsertBounded 
 
SYMMETRY Symmetric
CHECK_DEADLOCK FALSE

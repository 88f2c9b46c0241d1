SPECIFICATION FairSpec
CONSTANTS
    f1 = f1
    f2 = f2
    d1 = d1
    d2 = d2
    p1 = p1
    p2 = p2
    Forms = {f1, f2}
    Drainers = {d1}
    Requests = {p1, p2}
    NoForm = NoForm
    NoFile = NoFile
    Limit = 1
    MaxEdits = 3
    MaxFaults = 1
INVARIANTS
    TypeOK
    NothingForgotten
PROPERTIES
    RowsAreReached
CHECK_DEADLOCK FALSE

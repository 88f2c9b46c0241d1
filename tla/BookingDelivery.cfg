SPECIFICATION FairSpec
CONSTANTS
    w1 = w1
    w2 = w2
    s1 = s1
    s2 = s2
    Workers = {w1, w2}
    NoWork = NoWork
    States = {s1, s2}
    Booked = s1
    NeedsMeet = TRUE
    Consent = TRUE
    HasPin = TRUE
    MaxAttempts = 2
    MaxRequests = 2
    MaxFaults = 1
INVARIANTS
    TypeOK
PROPERTIES
    ImplementsOneSend
    OperationsEndOrWait
CHECK_DEADLOCK FALSE

SPECIFICATION Spec
CONSTANTS
    w1 = w1
    w2 = w2
    s1 = s1
    s2 = s2
    Workers = {w1, w2}
    NoWork = NoWork
    States = {s1, s2}
    Booked = s1
    NeedsMeet = FALSE
    Consent = FALSE
    HasPin = FALSE
    MaxAttempts = 1
    MaxRequests = 3
    MaxFaults = 1
SYMMETRY Symmetry
INVARIANTS
    AtMostOncePerArming
    NoOverlap
PROPERTIES
    SentIsFinal
    SupersededIsSilent
    CancellationIsLast
CHECK_DEADLOCK FALSE

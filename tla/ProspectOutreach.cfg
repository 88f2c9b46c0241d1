SPECIFICATION Spec
CONSTANTS
    d1 = d1
    w1 = w1
    c1 = c1
    c2 = c2
    to = to
    cc = cc
    Drafts = {d1}
    Recipients <- TwoAddresses
    Primary = to
    Workers = {w1}
    Clients = {c1, c2}
    NoOne = NoOne
    MaxRequests = 2
    MaxCrashes = 1
INVARIANTS
    TypeOK
    NoneSuppressed
    NoneArchived
    SentAsReviewed
    ManualDeliveredOnce
    ManualVoidedUnsent
PROPERTIES
    ManualEndsOnce
    DueLeavesReview
CHECK_DEADLOCK FALSE

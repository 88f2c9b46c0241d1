SPECIFICATION Spec
CONSTANTS
    d1 = d1
    w1 = w1
    c1 = c1
    c2 = c2
    to = to
    cc = cc
    Drafts = {d1}
    Recipients <- TwoAddresses
    Primary = to
    Workers = {w1}
    Clients = {c1}
    NoOne = NoOne
    MaxRequests = 1
    MaxCrashes = 0
INVARIANTS
    DeliveredOnce
CHECK_DEADLOCK FALSE

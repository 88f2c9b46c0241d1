SPECIFICATION FairSpec
CONSTANTS
    r1 = r1
    r2 = r2
    w1 = w1
    Refunds <- TwoRefunds
    Amount <- Two
    Reason <- OwnReason
    Collected = 3
    MaxLedger = 2
    Workers = {w1}
    NoRefund = NoRefund
    MaxFaults = 1
INVARIANTS
    TypeOK
    NeverOverRefunded
    FailedIsNotLive
PROPERTIES
    ImplementsBudget
    RefundsResolve
CHECK_DEADLOCK FALSE

SPECIFICATION FairSpec
CONSTANTS
    t1 = t1
    t2 = t2
    w1 = w1
    w2 = w2
    Transfers <- OneIntent
    Workers <- OneWorker
    Versions = {1}
    NoIntent = NoIntent
    KeyReplays = FALSE
    MaxAuths = 2
    MaxMandates = 2
    MaxFaults = 2
INVARIANTS
    TypeOK
    AtMostOneDebit
    OnlyReviewedDebits
    InFlightIsProtected
    WaitingIsBacked
    CollectedMeansFundsArrived
PROPERTIES
    NoDebitAfterRevocation
    ImplementsOneDebit
    ClaimsResolve
    DebitsAreLinked
    ReturnsReopenTheFee
CHECK_DEADLOCK FALSE

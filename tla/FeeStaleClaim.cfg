SPECIFICATION Spec
CONSTANTS
    t1 = t1
    t2 = t2
    w1 = w1
    w2 = w2
    Transfers <- OneIntent
    Workers <- OneWorker
    Versions = {1}
    NoIntent = NoIntent
    KeyReplays = FALSE
    MaxAuths = 1
    MaxMandates = 1
    MaxFaults = 1
INVARIANTS CancelledIsNotLive
CHECK_DEADLOCK FALSE

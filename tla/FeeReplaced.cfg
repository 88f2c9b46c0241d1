SPECIFICATION Spec
CONSTANTS
    t1 = t1
    t2 = t2
    w1 = w1
    w2 = w2
    Transfers <- TwoIntents
    Workers <- OneWorker
    Versions = {1, 2}
    NoIntent = NoIntent
    KeyReplays = FALSE
    MaxAuths = 1
    MaxMandates = 1
    MaxFaults = 2
SYMMETRY Symmetry
INVARIANTS FeeDebitedOnce
CHECK_DEADLOCK FALSE

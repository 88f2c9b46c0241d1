SPECIFICATION Spec
CONSTANTS
    l1 = l1
    l2 = l2
    u1 = u1
    u2 = u2
    f1 = f1
    f2 = f2
    NoOne = NoOne
    Lenders = {l1}
    Underwriters = {u1}
    NoPrint = NoPrint
    Prints = {f1, f2}
    MaxBatches = 1
    MaxApprovals = 1
    MaxRequests = 2
PROPERTIES
    SuccessIsNeverUndone
CHECK_DEADLOCK FALSE

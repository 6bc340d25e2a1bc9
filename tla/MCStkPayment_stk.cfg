SPECIFICATION Spec
CONSTANTS
    p1 = p1
    p2 = p2
    Payments <- TwoPayments
    MaxFaults = 2
CHECK_DEADLOCK FALSE
SYMMETRY Symmetry
INVARIANTS
    PaidImpliesCharged
    HeardIsRecorded
    PendingIsWatched
PROPERTIES
    KeepsLedger

SPECIFICATION FairSpec
CONSTANTS
    p1 = p1
    p2 = p2
    Payments <- OnePayment
    MaxFaults = 0
CHECK_DEADLOCK FALSE
PROPERTIES
    PendingIsSettled

SPECIFICATION FairSpec
CONSTANTS
    Tasks = {t1}
    Messages = {m1, m2}
    Runners = {w1, w2}
    Lease = 2
    Limit = 2
    TaskTries = 1
    GiveUp = 2
    MaxFaults = 2
CHECK_DEADLOCK FALSE
INVARIANTS
    TakenAfterItsLease
    StrandedByCrashes
PROPERTIES
    KeepsThePromise
    EveryRowEnds

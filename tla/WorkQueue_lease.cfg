SPECIFICATION Spec
CONSTANTS
    Tasks = {}
    Messages = {m1, m2, m3}
    Runners = {w1, w2}
    Lease = 2
    Limit = 3
    TaskTries = 8
    GiveUp = 4
    MaxFaults = 0
CHECK_DEADLOCK FALSE
INVARIANTS
    OneHolder

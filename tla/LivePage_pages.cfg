SPECIFICATION FairSpec
CONSTANTS
    MaxChanges = 5
    MaxDrops = 2
CHECK_DEADLOCK FALSE
INVARIANTS
    StaleIsOnItsWay
PROPERTIES
    PaidIsSeen
    PollTakesOver

SPECIFICATION FairSpec
CONSTANTS
    Legs = {"pickup", "return"}
    Providers = {"mock", "tumaboda"}
    MaxAttempts = 2
    MaxReports = 2
    MaxFaults = 1
CHECK_DEADLOCK FALSE
INVARIANTS
    FailedCanRebook
    JobAndRidesAgree
PROPERTIES
    OneRideAtATime
    CalledOffEnds
    WantedIsBooked

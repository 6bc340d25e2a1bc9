SPECIFICATION FairSpec
CONSTANTS
    Photos = {1, 2}
    Tabs = {t1, t2}
    GiveUp = 1
    MaxFaults = 2
CHECK_DEADLOCK FALSE
INVARIANTS
    OneRowEach
    RowsHaveObjects
    DoneIsRecorded
PROPERTIES
    UploadsEnd

SPECIFICATION Spec
CONSTANTS
    DeviceTypes = {iphone, macbook}
    Fees = {0, 500}
    DeliveryFees = {300}
    id1 = id1
    id2 = id2
    id3 = id3
    Numbers <- Documents3
    Look <- LooksOf
    MaxEdits = 3
    MaxFaults = 1
SYMMETRY Alike
CHECK_DEADLOCK FALSE
INVARIANTS
    StepTwoIsEnough
    IdPhotoIsOnFile
    ReviewShowsTheFee
    ReviewedIsAccepted

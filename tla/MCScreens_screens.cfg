SPECIFICATION Spec
CONSTANTS
    Origins = {"online", "walk_in"}
    Identities = {"device"}
    Passcodes = {TRUE}
    PickupFee = 1
    ConsultFee = 1
    Prices <- OnePrice
    SuppPrice = 1
    NearFee = 1
    FarFee = 1
    Interrupted = {}
    MaxPrompts = 1
    MaxClaims = 1
    MaxFaults = 1
CHECK_DEADLOCK FALSE
INVARIANTS
    WalkInGate
    ClosesAsItEnded
    OfferedIsServed
    NextStepIsReal

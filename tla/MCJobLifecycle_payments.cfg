SPECIFICATION Spec
CONSTANTS
    Origins = {"online"}
    Identities = {"device", "id"}
    Passcodes = {FALSE}
    PickupFee = 1
    ConsultFee = 1
    Prices <- OnePrice
    SuppPrice = 1
    NearFee = 1
    FarFee = 2
    Interrupted = {"dropoff"}
    MaxPrompts = 1
    MaxClaims = 0
    MaxFaults = 1
CHECK_DEADLOCK FALSE
INVARIANTS
    PaidBeforeReturn
PROPERTIES
    IssuedInvoiceFrozen

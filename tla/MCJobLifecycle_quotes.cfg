SPECIFICATION FairSpec
CONSTANTS
    Origins = {"online"}
    Identities = {"device"}
    Passcodes = {FALSE}
    PickupFee = 1
    ConsultFee = 1
    Prices <- TwoPrices
    SuppPrice = 1
    NearFee = 1
    FarFee = 1
    Interrupted = {"quote", "counter", "supp", "suppCounter"}
    MaxPrompts = 0
    MaxClaims = 1
    MaxFaults = 0
CHECK_DEADLOCK FALSE
INVARIANTS
    DepositCoversRepair
    DeclinedNotAccepted
    TimersMatchStatus
PROPERTIES
    OutcomeDecidedOnce
    DeliveredCloses
    ExpiredQuoteMovesOn

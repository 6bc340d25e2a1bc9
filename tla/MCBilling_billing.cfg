SPECIFICATION Spec
CONSTANTS
    Shops <- MCShops
    Prices = {333300, 40000}
    Offers = {300000}
    Costs = {25050, 31000}
    Admins = {a1}
    MaxVersions = 3
    MaxChoices = 2
    MaxSaves = 1
    MaxRefunds = 1
CHECK_DEADLOCK FALSE
INVARIANTS
    InvoiceAddsUp
    DuesAreWhole
    AgreedIsInvoiced
    IssuedIsCovered

SPECIFICATION FairSpec
CONSTANTS
    Sessions = {s1, s2}
    Items = {i1}
    NoOne = NoOne
    Portfolios <- AnyMethod
    Openings = {0, 1}
    OneConfirm = TRUE
    VerifyFits = TRUE
    MaxTries = 1
    MaxOrders = 2
    MaxCrashes = 1
    MaxRequests = 4
INVARIANTS CreditedOnce FundsBalance DebitFollowsStatus
PROPERTIES FinalStays PaymentCredited TransferDecided
CHECK_DEADLOCK FALSE

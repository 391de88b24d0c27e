SPECIFICATION Spec
CONSTANTS
    Sessions = {s1, s2}
    Items = {i1, i2}
    NoOne = NoOne
    Portfolios <- PaidByWebhook
    Openings = {0}
    OneConfirm = TRUE
    VerifyFits = TRUE
    MaxTries = 0
    MaxOrders = 1
    MaxCrashes = 0
    MaxRequests = 0
INVARIANTS FundsBalance
CHECK_DEADLOCK FALSE

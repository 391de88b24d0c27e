SPECIFICATION FairSpec
CONSTANTS
    Sessions = {s1, s2}
    Accounts = {1, 2}
    NoOne = NoOne
    Mixes = {{"internal"}, {"main"}, {"internal", "main"}, {"internal", "main", "open", "close"}}
    Commission = 1
    MaxStart = 1
    MaxRequests = 3
INVARIANTS BooksBalance NeverOverdrawn NoDeadlock WalletBalances
PROPERTIES TransfersMove RequestsEnd

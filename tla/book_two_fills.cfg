SPECIFICATION Spec
CONSTANTS
    Sessions = {s1, s2}
    Accounts = {1}
    NoOne = NoOne
    Mixes = {{"open"}}
    Commission = 0
    MaxStart = 1
    MaxRequests = 2
PROPERTIES FillsCovered

SPECIFICATION FairSpec
CONSTANTS
    Charts = {c1, c2}
    Keys = {k1, k2}
    NoKey = NoKey
    MaxActs = 3
    MaxFaults = 2
    MaxOld = 2
PROPERTIES StalledIsClosed
CHECK_DEADLOCK FALSE

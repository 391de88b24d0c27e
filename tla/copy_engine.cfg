SPECIFICATION FairSpec
CONSTANTS
    Workers = {w1, w2}
    NoOne = NoOne
    Lost = Lost
    Ttl = 1
    MaxTick = 0
    Positions = {p1}
    Followers = {f1, f2}
    MaxFaults = 1
INVARIANTS MirroredOnce
PROPERTIES EndsWithMaster MirroredInTheEnd
CHECK_DEADLOCK FALSE

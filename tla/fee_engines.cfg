SPECIFICATION MCSpec
CONSTANTS
    Workers = {w1, w2}
    NoOne = NoOne
    Lost = Lost
    Ttl = 3
    MaxTick = 2
    Calculators = {r1}
    MaxNights = 2
    MaxCrashes = 1
    ShortTtl = 2
    LongTick = 3
    MaxDays = 2
INVARIANTS OneLeader ChargedOnceANight SwapsBounded
PROPERTIES StampAdvances LastPeriodCharged OnlyHolderReleases
CHECK_DEADLOCK FALSE

SPECIFICATION MCSpec
CONSTANTS
    Charts = {c1, c2}
    Keys = {k1, k2}
    NoKey = NoKey
    MaxActs = 5
    MaxFaults = 3
    MaxOld = 2
    Accounts = {a, b}
    Nobody = Nobody
    MaxSockets = 3
    MaxShows = 3
    MaxDrops = 3
    MaxReconnect = 4
    MaxMounts = 3
    MaxFailures = 3
    MaxSigns = 3
    MaxEnds = 2
    MaxErrors = 2
    MaxRowActs = 2
    MaxPositions = 2
    MaxListsUnderWay = 1
    Orders = {o1}
    MaxVisits = 2
    MaxClicks = 1
    MaxUnderWay = 1
    Symbols = {x, y}
    FirstSymbol = x
    Levels = {2, 3}
    MaxChanges = 2
    MaxLineFaults = 1
INVARIANTS ClientsInv SignedInIsShown
PROPERTIES SocketsReturn SessionSettles ListsSettle CalmOrdersGoToPicked
CHECK_DEADLOCK FALSE

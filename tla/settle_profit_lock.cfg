SPECIFICATION FairSpec
CONSTANTS
    Positions = {p1}
    Copied = {}
    Traders = {t1}
    SltpWorkers = {w1, w2}
    RiskMonitors = {}
    CopyEngines = {}
    Admins = {}
    Healers = {h1}
    NoOne = NoOne
    OpenLots = 1
    CloseSizes = {1}
    Prices = {1, 2, 3}
    OpenPrice = 2
    MaxRequests = 1
PROPERTIES AcceptedLevelHonoured

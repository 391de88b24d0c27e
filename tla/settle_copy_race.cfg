SPECIFICATION Spec
CONSTANTS
    Positions = {p1}
    Copied = {p1}
    Traders = {t1}
    SltpWorkers = {w1}
    RiskMonitors = {}
    CopyEngines = {c1}
    Admins = {}
    Healers = {}
    NoOne = NoOne
    OpenLots = 2
    CloseSizes = {2}
    Prices = {1, 2, 3}
    OpenPrice = 2
    MaxRequests = 1
INVARIANTS SettledOnce

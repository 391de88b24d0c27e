SPECIFICATION MCSpec

CONSTANTS
    Positions = {p1, p2}
    Copied = {p2}
    Traders = {t1, t2}
    SltpWorkers = {w1, w2}
    RiskMonitors = {r1}
    CopyEngines = {c1}
    Admins = {a1}
    Healers = {h1}
    Everyone = {t1, w1, r1, c1, a1, h1}
    Lockers = {t1, t2, w1, r1, h1}
    Desk = {t1, w1, w2}
    FewPrices = {1, 2}
    NoOne = NoOne
    OpenLots = 2
    CloseSizes = {1, 2}
    Prices = {1, 2, 3}
    OpenPrice = 2
    MaxRequests = 2
INVARIANTS LockersInv GatewayRealisesOnce DeskConservesLots
PROPERTIES EveryoneHealed DeskKeepsPromise DeskHonoursLevels

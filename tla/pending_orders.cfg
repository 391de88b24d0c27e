SPECIFICATION LiveSpec
CONSTANTS
  Orders = {o1, o2, o3}
  Requests = {r1, r2}
  Bids = {1, 2}
  Spread = 1
  Kinds = {"limit"}
  Sides = {"sell"}
  Prices = {2}
  LotSizes = {1}
  Equity = 3
  Commission = 1
  MaxPending = 2
  MaxFailures = 1
INVARIANTS OneFill PendingCapped MarginCovered
PROPERTIES CancelStands NotLeftWaiting
CHECK_DEADLOCK FALSE

--------------------------- MODULE PendingOrders ---------------------------
(***************************************************************************)
(* The pending orders of one trading account on one instrument. Requests   *)
(* of the gateway place, modify and cancel them; the b-book matching       *)
(* engine selects the pending ones every cycle, and fills or rejects those *)
(* whose price has come, in ONE transaction committed at the end of the    *)
(* cycle. Nobody but place_order locks anything: modify, cancel and the    *)
(* engine each read the row, decide, and later write the columns they      *)
(* changed over whatever has been committed in between.                    *)
(*                                                                         *)
(* Order.expires_at is set nowhere, so no order expires. The engine runs   *)
(* in one process. An order's margin is its lots: the price and leverage   *)
(* that scale it are left out. Other writers of the account are in         *)
(* AccountBook.                                                            *)
(***************************************************************************)
EXTENDS Integers, FiniteSets, Sequences, Functions

CONSTANTS
  Orders,        \* rows the orders table may come to hold
  Requests,      \* HTTP requests that may be served at once
  Bids,          \* bids the feed may quote
  Spread,        \* ask - bid
  Kinds,         \* order types asked for: "limit", "stop", "stop_limit"
  Sides,         \* "buy", "sell"
  Prices,        \* prices asked for
  LotSizes,      \* lots asked for
  Equity,        \* free margin of the account before any fill
  Commission,    \* commission of one fill
  MaxPending,    \* setting max_pending_orders
  MaxFailures    \* bound: cycles that end in an exception

ASSUME QuotesAreNatural ==
  Bids \subseteq Nat /\ Prices \subseteq Nat \ {0} /\ Spread \in Nat

ASSUME AmountsAreNatural ==
  /\ LotSizes \subseteq Nat \ {0} /\ Equity \in Nat /\ Commission \in Nat
  /\ MaxPending \in Nat /\ MaxFailures \in Nat

ASSUME TablesAreFinite == IsFiniteSet(Orders) /\ "nobody" \notin Requests

VARIABLES
  row,       \* the orders table: status and terms of each row
  opened,    \* lots of the positions opened for each order, in order
  free,      \* trading_accounts.free_margin
  lock,      \* the request that holds the account's row lock, or Nobody
  job,       \* what each request is doing
  cycle,     \* the engine's session: its copies, and the writes not committed
  fails,     \* cycles that ended in an exception
  tick       \* the quote: bid, and whether it is fresh

vars == <<row, opened, free, lock, job, cycle, fails, tick>>

Nobody == "nobody"
NoLimit == 0
Terms ==
  {t \in [kind : Kinds, side : Sides, price : Prices, limit : Prices \cup {NoLimit},
          lots : LotSizes] : t.kind = "stop_limit" <=> t.limit # NoLimit}
Statuses == {"none", "pending", "filled", "cancelled", "rejected"}
NoTerms == [kind |-> "none", side |-> "none", price |-> 0, limit |-> NoLimit, lots |-> 0]

(***************************************************************************)
(* Prices. A sell at bid b is a buy at -b: Quote and Asked give both sides *)
(* the same orientation.                                                   *)
(***************************************************************************)
Quote(t, bid) == IF t.side = "buy" THEN bid + Spread ELSE -bid
Asked(t, p) == IF t.side = "buy" THEN p ELSE -p

\* place_order: where the price of a new order must lie
Placeable(t, bid) ==
  LET now == Quote(t, bid)
      px == Asked(t, t.price)
  IN  \/ t.kind = "limit" /\ px < now
      \/ t.kind = "stop" /\ px > now
      \/ t.kind = "stop_limit" /\ px > now /\ Asked(t, t.limit) < px

\* variant of Triggered: a sell is compared like a buy
TriggeredOneSided(t, bid) ==
  LET ask == bid + Spread
  IN  \/ t.kind = "limit" /\ ask <= t.price
      \/ t.kind = "stop" /\ ask >= t.price
      \/ t.kind = "stop_limit" /\ ask >= t.price /\ ask <= t.limit

\* _monitor_pending_orders: whether the quote triggers an order
Triggered(t, bid) ==
  LET now == Quote(t, bid)
      px == Asked(t, t.price)
  IN  \/ t.kind = "limit" /\ now <= px
      \/ t.kind = "stop" /\ now >= px
      \/ t.kind = "stop_limit" /\ now >= px /\ now <= Asked(t, t.limit)

-----------------------------------------------------------------------------
Pending == {o \in Orders : row[o].status = "pending"}

Idle == [op |-> "idle"]
Asleep == [on |-> FALSE]

Init ==
  /\ row = [o \in Orders |-> [status |-> "none", terms |-> NoTerms]]
  /\ opened = [o \in Orders |-> <<>>]
  /\ free = Equity
  /\ lock = Nobody
  /\ job = [r \in Requests |-> Idle]
  /\ cycle = Asleep
  /\ fails = 0
  /\ tick \in [bid : Bids, fresh : {TRUE}]

-----------------------------------------------------------------------------
(* place_order, for an order that waits.                                   *)

\* variant of PlaceLock: without the account's row lock
PlaceUnlocked(r) ==
  /\ job[r] = Idle
  /\ lock' = lock
  /\ job' = [job EXCEPT ![r] = [op |-> "place", at |-> "locked"]]
  /\ UNCHANGED <<row, opened, free, cycle, fails, tick>>

\* the account's row is locked, and the pending orders are counted under it
PlaceLock(r) ==
  /\ job[r] = Idle /\ lock = Nobody
  /\ lock' = r
  /\ job' = [job EXCEPT ![r] = [op |-> "place", at |-> "locked"]]
  /\ UNCHANGED <<row, opened, free, cycle, fails, tick>>

PlaceCount(r) ==
  /\ job[r] = [op |-> "place", at |-> "locked"]
  /\ Cardinality(Pending) < MaxPending
  /\ job' = [job EXCEPT ![r] = [op |-> "place", at |-> "counted"]]
  /\ UNCHANGED <<row, opened, free, lock, cycle, fails, tick>>

\* the cap, a stale quote or a price on the wrong side of it: HTTP 400
PlaceRefused(r) ==
  /\ job[r] \in [op : {"place"}, at : {"locked", "counted"}]
  /\ job[r].at = "locked" => Cardinality(Pending) >= MaxPending
  /\ lock' = IF lock = r THEN Nobody ELSE lock
  /\ job' = [job EXCEPT ![r] = Idle]
  /\ UNCHANGED <<row, opened, free, cycle, fails, tick>>

PlaceCommit(r) ==
  /\ job[r] = [op |-> "place", at |-> "counted"]
  /\ tick.fresh
  /\ \E o \in Orders, t \in Terms :
       /\ row[o].status = "none"
       /\ Placeable(t, tick.bid)
       /\ row' = [row EXCEPT ![o] = [status |-> "pending", terms |-> t]]
  /\ lock' = IF lock = r THEN Nobody ELSE lock
  /\ job' = [job EXCEPT ![r] = Idle]
  /\ UNCHANGED <<opened, free, cycle, fails, tick>>

-----------------------------------------------------------------------------
(* modify_order and cancel_order: the status is checked on an unlocked     *)
(* read, and the commit writes only the columns that were assigned.        *)

ModifyLoad(r) ==
  /\ job[r] = Idle
  /\ \E o \in Pending, p \in Prices, l \in LotSizes :
       job' = [job EXCEPT ![r] = [op |-> "modify", order |-> o, price |-> p, lots |-> l]]
  /\ UNCHANGED <<row, opened, free, lock, cycle, fails, tick>>

\* variant of ModifyCommit: every column is written as it was read
ModifyCommitRow(r) ==
  /\ job[r].op = "modify"
  /\ row' = [row EXCEPT ![job[r].order] =
               [status |-> "pending",
                terms |-> [@.terms EXCEPT !.price = job[r].price, !.lots = job[r].lots]]]
  /\ job' = [job EXCEPT ![r] = Idle]
  /\ UNCHANGED <<opened, free, lock, cycle, fails, tick>>

\* the new price is not checked against the quote
ModifyCommit(r) ==
  /\ job[r].op = "modify"
  /\ row' = [row EXCEPT ![job[r].order].terms =
               [@ EXCEPT !.price = job[r].price, !.lots = job[r].lots]]
  /\ job' = [job EXCEPT ![r] = Idle]
  /\ UNCHANGED <<opened, free, lock, cycle, fails, tick>>

CancelLoad(r) ==
  /\ job[r] = Idle
  /\ \E o \in Pending :
       job' = [job EXCEPT ![r] = [op |-> "cancel", order |-> o]]
  /\ UNCHANGED <<row, opened, free, lock, cycle, fails, tick>>

CancelCommit(r) ==
  /\ job[r].op = "cancel"
  /\ row' = [row EXCEPT ![job[r].order].status = "cancelled"]
  /\ job' = [job EXCEPT ![r] = Idle]
  /\ UNCHANGED <<opened, free, lock, cycle, fails, tick>>

-----------------------------------------------------------------------------
(* MatchingEngine._monitor_pending_orders                                  *)

\* variant of CycleSelect: without a look at the status
CycleSelectAll ==
  /\ ~cycle.on
  /\ LET found == {o \in Orders : row[o].status # "none"}
     IN  cycle' = [on |-> TRUE, todo |-> found, free |-> free,
                   copy |-> [o \in found |-> row[o].terms],
                   filled |-> {}, rejected |-> {}]
  /\ UNCHANGED <<row, opened, free, lock, job, fails, tick>>

\* the cycle's select: copies of the pending rows, and of the account
CycleSelect ==
  /\ ~cycle.on
  /\ cycle' = [on |-> TRUE, todo |-> Pending, free |-> free,
               copy |-> [o \in Pending |-> row[o].terms],
               filled |-> {}, rejected |-> {}]
  /\ UNCHANGED <<row, opened, free, lock, job, fails, tick>>

Fires(o) == tick.fresh /\ Triggered(cycle.copy[o], tick.bid)

Margin(o) == cycle.copy[o].lots

\* a stale quote, or a price that has not come: the order is left alone
Skip(o) ==
  /\ ~Fires(o)
  /\ cycle' = [cycle EXCEPT !.todo = @ \ {o}]

Reject(o) ==
  /\ Fires(o)
  /\ Margin(o) > cycle.free
  /\ cycle' = [cycle EXCEPT !.todo = @ \ {o}, !.rejected = @ \cup {o}]

\* variant of Fill: against the account as it was before the cycle
FillFromStart(o) ==
  /\ Fires(o)
  /\ Margin(o) <= free
  /\ cycle' = [cycle EXCEPT !.todo = @ \ {o}, !.filled = @ \cup {o},
                            !.free = @ - Margin(o) - Commission]

\* _execute_pending_order; the commission is taken without being checked
Fill(o) ==
  /\ Fires(o)
  /\ Margin(o) <= cycle.free
  /\ cycle' = [cycle EXCEPT !.todo = @ \ {o}, !.filled = @ \cup {o},
                            !.free = @ - Margin(o) - Commission]

CycleStep ==
  /\ cycle.on
  /\ \E o \in cycle.todo : Skip(o) \/ Reject(o) \/ Fill(o)
  /\ UNCHANGED <<row, opened, free, lock, job, fails, tick>>

\* one commit for the cycle; the account's row must be free when a fill wrote it
CycleCommit ==
  /\ cycle.on /\ cycle.todo = {}
  /\ cycle.filled # {} => lock = Nobody
  /\ row' = [o \in Orders |->
               IF o \in cycle.filled THEN [row[o] EXCEPT !.status = "filled"]
               ELSE IF o \in cycle.rejected THEN [row[o] EXCEPT !.status = "rejected"]
               ELSE row[o]]
  /\ opened' = [o \in Orders |-> IF o \in cycle.filled
                                 THEN Append(opened[o], Margin(o)) ELSE opened[o]]
  /\ free' = cycle.free
  /\ cycle' = Asleep
  /\ UNCHANGED <<lock, job, fails, tick>>

\* an exception anywhere in the cycle rolls all of it back, and is logged
CycleFails ==
  /\ cycle.on
  /\ fails < MaxFailures
  /\ fails' = fails + 1
  /\ cycle' = Asleep
  /\ UNCHANGED <<row, opened, free, lock, job, tick>>

\* a new quote, or one the refresher marks stale
Quoted ==
  /\ tick' \in [bid : Bids, fresh : BOOLEAN]
  /\ tick' # tick
  /\ UNCHANGED <<row, opened, free, lock, job, cycle, fails>>

-----------------------------------------------------------------------------
Request(r) ==
  \/ PlaceLock(r) \/ PlaceCount(r) \/ PlaceRefused(r) \/ PlaceCommit(r)
  \/ ModifyLoad(r) \/ ModifyCommit(r)
  \/ CancelLoad(r) \/ CancelCommit(r)

Engine == CycleSelect \/ CycleStep \/ CycleCommit

Next == (\E r \in Requests : Request(r)) \/ Engine \/ CycleFails \/ Quoted

Spec == Init /\ [][Next]_vars

\* The engine's loop sleeps 0.1 s and goes on, whatever a cycle raised; a
\* placement that holds the lock ends; and a row lock is granted in turn.
LiveSpec ==
  /\ Spec
  /\ WF_vars(CycleSelect \/ CycleStep) /\ SF_vars(CycleCommit)
  /\ \A r \in Requests : WF_vars(PlaceCount(r) \/ PlaceRefused(r) \/ PlaceCommit(r))

-----------------------------------------------------------------------------
(* Properties.                                                             *)

\* The values the tables, the requests and the engine's session may hold.
RowOK == row \in [Orders -> [status : Statuses, terms : Terms \cup {NoTerms}]]

JobOK ==
  job \in [Requests ->
            {Idle} \cup [op : {"place"}, at : {"locked", "counted"}]
            \cup [op : {"modify"}, order : Orders, price : Prices, lots : LotSizes]
            \cup [op : {"cancel"}, order : Orders]]

Seen == IF cycle.on THEN cycle.todo \cup cycle.filled \cup cycle.rejected ELSE {}

TypeOK ==
  /\ RowOK /\ JobOK
  /\ opened \in [Orders -> Seq(LotSizes)]
  /\ free \in Int
  /\ lock \in Requests \cup {Nobody}
  /\ fails \in 0..MaxFailures
  /\ tick \in [bid : Bids, fresh : BOOLEAN]
  /\ cycle.on => /\ cycle.free \in Int
                 /\ Seen \subseteq Orders
                 /\ cycle.copy \in [DOMAIN cycle.copy -> Terms]
                 /\ Seen \subseteq DOMAIN cycle.copy

\* What the engine holds has no position yet, whoever commits meanwhile, and only
\* a cancel can have finished it.
Unfilled(o) == opened[o] = <<>> /\ row[o].status \in {"pending", "cancelled"}

\* An order opens one position at most, and none unless it is filled -- or
\* cancelled, by a cancel that overlapped the fill.  However requests and
\* cycles interleave, and whatever cycle is rolled back, nobody's stale copy
\* makes an order pending again.
OneFill ==
  \A o \in Orders :
    /\ Len(opened[o]) <= 1
    /\ row[o].status = "filled" => opened[o] # <<>>
    /\ opened[o] # <<>> => row[o].status \in {"filled", "cancelled"}

\* The account never holds more pending orders than max_pending_orders: the
\* count and the insert are done under the account's row lock.
PendingCapped == Cardinality(Pending) <= MaxPending

\* The free margin is what the committed fills left of it, and the fills of a
\* cycle overdraw it by the one commission that is not checked, never more.
Booked(o) == FoldFunction(LAMBDA l, sum : l + Commission + sum, 0, opened[o])

MarginCovered ==
  /\ free = Equity - FoldFunction(+, 0, [o \in Orders |-> Booked(o)])
  /\ free >= -Commission

\* A cancel that stands between two cycles is final: the order never opens a
\* position afterwards.  Within a cycle it is not: an order whose cancel commits
\* after the engine's select is still filled.
CancelStands ==
  \A o \in Orders :
    LET Dead == row[o].status = "cancelled" /\ opened[o] = <<>>
    IN  [](Dead /\ ~cycle.on => []Dead)

\* An order whose price has come, on its own side of a live quote, does not
\* stay pending while the quote stays there: it is filled, rejected or
\* cancelled, although cycles may fail and other orders are examined first.
PriceReached(o) ==
  LET t == row[o].terms
      ask == tick.bid + Spread
  IN  \/ t.kind = "limit" /\ t.side = "buy" /\ ask <= t.price
      \/ t.kind = "limit" /\ t.side = "sell" /\ tick.bid >= t.price
      \/ t.kind = "stop" /\ t.side = "buy" /\ ask >= t.price
      \/ t.kind = "stop" /\ t.side = "sell" /\ tick.bid <= t.price

NotLeftWaiting ==
  \A o \in Orders :
    [](~[](row[o].status = "pending" /\ tick.fresh /\ PriceReached(o)))
=============================================================================

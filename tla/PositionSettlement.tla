------------------------- MODULE PositionSettlement -------------------------
(***************************************************************************)
(* How an open position is settled. Every closer of the platform is a      *)
(* database session of its own: the trader's close request, the SL/TP      *)
(* engine, the risk engine's stop-out, the copy engine, the back office,   *)
(* and the healer that repairs missing trade_history rows. A session reads *)
(* rows at one moment and writes them at a later one; PostgreSQL runs at   *)
(* READ COMMITTED, so only a row lock keeps another session out meanwhile. *)
(*                                                                         *)
(* Abstractions. One instrument. A price is measured in the position's own *)
(* favour (bid for a buy, mirrored ask for a sell), which merges the two   *)
(* branches every comparison in the code has. An UPDATE and the commit     *)
(* that publishes it are one step, enabled when no other session holds the *)
(* row; what the session read earlier is kept in `seen' and `px'.          *)
(***************************************************************************)
EXTENDS Integers

CONSTANTS
    Positions,      \* rows of table positions
    Copied,         \* those that mirror a master's position (a CopyTrade row)
    Traders,        \* gateway requests: close_position and modify_position
    SltpWorkers,    \* one SL/TP engine per uvicorn worker
    RiskMonitors,   \* the risk engine's margin monitor
    CopyEngines,    \* the copy engine's leader
    Admins,         \* back-office close_position requests
    Healers,        \* one trade_history healer per uvicorn worker
    NoOne,          \* the value of a free row lock
    OpenLots,       \* lots of every position when it was opened
    CloseSizes,     \* lots a close request may ask for
    Prices,         \* quotes, in the position's favour
    OpenPrice,      \* the fill price of every position
    MaxRequests     \* bound: requests the traders submit in one behaviour

Sessions ==
    Traders \union SltpWorkers \union RiskMonitors \union CopyEngines
            \union Admins \union Healers

ASSUME SessionsAssumption ==
    /\ NoOne \notin Sessions
    /\ Copied \subseteq Positions
    /\ Traders \intersect (SltpWorkers \union RiskMonitors \union CopyEngines
                                \union Admins \union Healers) = {}
    /\ SltpWorkers \intersect (RiskMonitors \union CopyEngines \union Admins \union Healers) = {}
    /\ RiskMonitors \intersect (CopyEngines \union Admins \union Healers) = {}
    /\ CopyEngines \intersect (Admins \union Healers) = {}
    /\ Admins \intersect Healers = {}

ASSUME SizesAssumption ==
    /\ OpenLots \in Nat \ {0}
    /\ CloseSizes \subseteq Nat \ {0}
    /\ Prices \subseteq Nat \ {0}
    /\ OpenPrice \in Prices
    /\ MaxRequests \in Nat

NoLevel == 0                       \* a NULL stop_loss or take_profit
Levels == Prices \union {NoLevel}

VARIABLES
    status,      \* positions.status
    lots,        \* positions.lots
    stopLoss,    \* positions.stop_loss
    takeProfit,  \* positions.take_profit
    fullRows,    \* trade_history rows that record the end of the position
    partRows,    \* trade_history rows of partial closes
    closes,      \* times a close's profit was added to the account
    bookedLots,  \* lots whose profit was added to the account
    rowLock,     \* holder of the lock on the positions row
    quote,       \* the latest tick
    feed,        \* whether that tick is fresh (is_tick_stale)
    pc,          \* where each session stands
    batch,       \* the positions the session works on
    seen,        \* positions.lots as the session loaded it
    px,          \* the quote the SL/TP engine loaded for its tick
    want,        \* lots the close request asks for
    edit,        \* the level a modify request writes
    requests     \* requests submitted so far

dbVars == <<status, lots, stopLoss, takeProfit, fullRows, partRows, closes, bookedLots>>
sessionVars == <<pc, batch, seen, px, want, edit, requests>>
vars == <<dbVars, rowLock, quote, feed, sessionVars>>

Open(p) == status[p] = "open"

Edits == [field : {"sl", "tp"}, level : Levels]
NoEdit == [field |-> "sl", level |-> NoLevel]

TypeOK ==
    /\ status \in [Positions -> {"open", "closed"}]
    /\ lots \in [Positions -> Nat]
    /\ stopLoss \in [Positions -> Levels]
    /\ takeProfit \in [Positions -> Levels]
    /\ fullRows \in [Positions -> Nat]
    /\ partRows \in [Positions -> Nat]
    /\ closes \in [Positions -> Nat]
    /\ bookedLots \in [Positions -> Nat]
    /\ rowLock \in [Positions -> Sessions \union {NoOne}]
    /\ quote \in Prices
    /\ feed \in {"live", "stale"}
    /\ pc \in [Sessions -> {"idle", "closing", "locked", "modifying"}]
    /\ batch \in [Sessions -> SUBSET Positions]
    /\ seen \in [Sessions -> [Positions -> Nat]]
    /\ px \in [Sessions -> Prices]
    /\ want \in [Sessions -> Nat]
    /\ edit \in [Sessions -> Edits]
    /\ requests \in Nat

(***************************************************************************)
(* A market order opens the position with levels that check_sltp_levels    *)
(* accepts against the fill price.                                         *)
(***************************************************************************)
LevelAccepted(field, level, ref) ==
    level # NoLevel => IF field = "sl" THEN level < ref ELSE level > ref

Init ==
    /\ status = [p \in Positions |-> "open"]
    /\ lots = [p \in Positions |-> OpenLots]
    /\ stopLoss \in [Positions -> {l \in Levels : LevelAccepted("sl", l, OpenPrice)}]
    /\ takeProfit \in [Positions -> {l \in Levels : LevelAccepted("tp", l, OpenPrice)}]
    /\ fullRows = [p \in Positions |-> 0]
    /\ partRows = [p \in Positions |-> 0]
    /\ closes = [p \in Positions |-> 0]
    /\ bookedLots = [p \in Positions |-> 0]
    /\ rowLock = [p \in Positions |-> NoOne]
    /\ quote = OpenPrice
    /\ feed = "live"
    /\ pc = [s \in Sessions |-> "idle"]
    /\ batch = [s \in Sessions |-> {}]
    /\ seen = [s \in Sessions |-> [p \in Positions |-> 0]]
    /\ px = [s \in Sessions |-> OpenPrice]
    /\ want = [s \in Sessions |-> 0]
    /\ edit = [s \in Sessions |-> NoEdit]
    /\ requests = 0

-----------------------------------------------------------------------------
(* The market data service publishes a tick, or the feed dies and revives.  *)

Tick(q) ==
    /\ quote' = q
    /\ feed' = "live"
    /\ UNCHANGED <<dbVars, rowLock, sessionVars>>

FeedDies ==
    /\ feed = "live"
    /\ feed' = "stale"
    /\ UNCHANGED <<dbVars, rowLock, quote, sessionVars>>

-----------------------------------------------------------------------------
(* Helpers on sessions and rows. *)

Free(S) == \A p \in S : rowLock[p] = NoOne

Lock(s, S) == rowLock' = [p \in Positions |-> IF p \in S THEN s ELSE rowLock[p]]

Unlock(S) == rowLock' = [p \in Positions |-> IF p \in S THEN NoOne ELSE rowLock[p]]

Goto(s, place) == pc' = [pc EXCEPT ![s] = place]

\* Session s ends its transaction and forgets what it had loaded.
Finish(s) ==
    /\ Goto(s, "idle")
    /\ batch' = [batch EXCEPT ![s] = {}]
    /\ seen' = [seen EXCEPT ![s] = [p \in Positions |-> 0]]
    /\ px' = [px EXCEPT ![s] = OpenPrice]
    /\ want' = [want EXCEPT ![s] = 0]
    /\ edit' = [edit EXCEPT ![s] = NoEdit]
    /\ UNCHANGED requests

\* The positions in S are marked closed and the profit of n lots of each is
\* added to the account.
Settle(S, n) ==
    /\ status' = [p \in Positions |-> IF p \in S THEN "closed" ELSE status[p]]
    /\ closes' = [p \in Positions |-> IF p \in S THEN closes[p] + 1 ELSE closes[p]]
    /\ bookedLots' = [p \in Positions |->
                        IF p \in S THEN bookedLots[p] + n[p] ELSE bookedLots[p]]
    /\ UNCHANGED <<lots, stopLoss, takeProfit, partRows>>

WriteHistory(S) ==
    fullRows' = [p \in Positions |-> IF p \in S THEN fullRows[p] + 1 ELSE fullRows[p]]

\* An unlocked read of the open positions in S.
LoadOpen(s, S) ==
    /\ pc[s] = "idle"
    /\ S # {}
    /\ \A p \in S : Open(p)
    /\ Goto(s, "closing")
    /\ batch' = [batch EXCEPT ![s] = S]
    /\ seen' = [seen EXCEPT ![s] = [p \in Positions |-> IF p \in S THEN lots[p] ELSE 0]]

-----------------------------------------------------------------------------
(* close_position in the gateway: read, lock and re-read the status, book.  *)

CloseLoad(t, p, size) ==
    /\ requests < MaxRequests
    /\ requests' = requests + 1
    /\ LoadOpen(t, {p})
    /\ want' = [want EXCEPT ![t] = size]
    /\ UNCHANGED <<dbVars, rowLock, quote, feed, px, edit>>

\* Variants of CloseLock: without the second look at the status, and without
\* FOR UPDATE.
CloseLockBlind(t, p) ==
    /\ pc[t] = "closing"
    /\ batch[t] = {p}
    /\ Free({p})
    /\ Goto(t, "locked")
    /\ Lock(t, {p})
    /\ UNCHANGED <<dbVars, quote, feed, batch, seen, px, want, edit, requests>>

CloseLockUnheld(t, p) ==
    /\ pc[t] = "closing"
    /\ batch[t] = {p}
    /\ Free({p})
    /\ Open(p)
    /\ Goto(t, "locked")
    /\ UNCHANGED <<dbVars, rowLock, quote, feed, batch, seen, px, want, edit, requests>>

\* The FOR UPDATE refresh finds the position still open.
CloseLock(t, p) ==
    /\ pc[t] = "closing"
    /\ batch[t] = {p}
    /\ Free({p})
    /\ Open(p)
    /\ Goto(t, "locked")
    /\ Lock(t, {p})
    /\ UNCHANGED <<dbVars, quote, feed, batch, seen, px, want, edit, requests>>

\* It finds another closer's commit: 409.
CloseConflict(t, p) ==
    /\ pc[t] = "closing"
    /\ batch[t] = {p}
    /\ Free({p})
    /\ ~Open(p)
    /\ Finish(t)
    /\ UNCHANGED <<dbVars, rowLock, quote, feed>>

\* The session is shut or no tick exists: 400, the lock goes with the session.
CloseRefused(t, p) ==
    /\ pc[t] = "locked"
    /\ batch[t] = {p}
    /\ Finish(t)
    /\ Unlock({p})
    /\ UNCHANGED <<dbVars, quote, feed>>

\* Variants of ClosePartial: the lots are booked but not deducted, and a close of
\* the whole size treated as partial.
ClosePartialUndeducted(t, p) ==
    /\ pc[t] = "locked"
    /\ batch[t] = {p}
    /\ want[t] < seen[t][p]
    /\ partRows' = [partRows EXCEPT ![p] = @ + 1]
    /\ bookedLots' = [bookedLots EXCEPT ![p] = @ + want[t]]
    /\ UNCHANGED <<status, lots, stopLoss, takeProfit, fullRows, closes>>
    /\ Finish(t)
    /\ Unlock({p})
    /\ UNCHANGED <<quote, feed>>

ClosePartialToZero(t, p) ==
    /\ pc[t] = "locked"
    /\ batch[t] = {p}
    /\ want[t] <= seen[t][p]
    /\ lots' = [lots EXCEPT ![p] = seen[t][p] - want[t]]
    /\ partRows' = [partRows EXCEPT ![p] = @ + 1]
    /\ bookedLots' = [bookedLots EXCEPT ![p] = @ + want[t]]
    /\ UNCHANGED <<status, stopLoss, takeProfit, fullRows, closes>>
    /\ Finish(t)
    /\ Unlock({p})
    /\ UNCHANGED <<quote, feed>>

\* Only the status was refreshed: the size of the position is the one loaded.
ClosePartial(t, p) ==
    /\ pc[t] = "locked"
    /\ batch[t] = {p}
    /\ want[t] < seen[t][p]
    /\ lots' = [lots EXCEPT ![p] = seen[t][p] - want[t]]
    /\ partRows' = [partRows EXCEPT ![p] = @ + 1]
    /\ bookedLots' = [bookedLots EXCEPT ![p] = @ + want[t]]
    /\ UNCHANGED <<status, stopLoss, takeProfit, fullRows, closes>>
    /\ Finish(t)
    /\ Unlock({p})
    /\ UNCHANGED <<quote, feed>>

CloseFull(t, p) ==
    /\ pc[t] = "locked"
    /\ batch[t] = {p}
    /\ want[t] >= seen[t][p]
    /\ Settle({p}, seen[t])
    /\ WriteHistory({p})
    /\ Finish(t)
    /\ Unlock({p})
    /\ UNCHANGED <<quote, feed>>

-----------------------------------------------------------------------------
(* modify_position: no lock is taken before the UPDATE itself.  The level   *)
(* is checked against the current quote, or the open price on a dead feed.  *)

ModifyLoad(t, p, field, level) ==
    /\ requests < MaxRequests
    /\ requests' = requests + 1
    /\ pc[t] = "idle"
    /\ Open(p)
    /\ p \notin Copied
    /\ LevelAccepted(field, level, IF feed = "live" THEN quote ELSE OpenPrice)
    /\ Goto(t, "modifying")
    /\ batch' = [batch EXCEPT ![t] = {p}]
    /\ edit' = [edit EXCEPT ![t] = [field |-> field, level |-> level]]
    /\ UNCHANGED <<dbVars, rowLock, quote, feed, seen, px, want>>

ModifyCommit(t, p) ==
    /\ pc[t] = "modifying"
    /\ batch[t] = {p}
    /\ Free({p})
    /\ IF edit[t].field = "sl"
         THEN /\ stopLoss' = [stopLoss EXCEPT ![p] = edit[t].level]
              /\ UNCHANGED takeProfit
         ELSE /\ takeProfit' = [takeProfit EXCEPT ![p] = edit[t].level]
              /\ UNCHANGED stopLoss
    /\ Finish(t)
    /\ UNCHANGED <<status, lots, fullRows, partRows, closes, bookedLots, rowLock, quote, feed>>

-----------------------------------------------------------------------------
(* The SL/TP engine.  Its tick locks every open position that has a level   *)
(* and that nobody else holds (SKIP LOCKED), closes those whose level was   *)
(* crossed by the quote it loaded beforehand, and commits once.             *)

\* Variant of Triggered: the take-profit branch is missing.
StopTriggered(p, q) ==
    /\ stopLoss[p] # NoLevel
    /\ stopLoss[p] < OpenPrice
    /\ q <= stopLoss[p]

Triggered(p, q) ==
    \/ /\ stopLoss[p] # NoLevel
       /\ stopLoss[p] < OpenPrice
       /\ q <= stopLoss[p]
    \/ /\ takeProfit[p] # NoLevel
       /\ takeProfit[p] > OpenPrice
       /\ q >= takeProfit[p]

\* Variant of Watched: FOR UPDATE without SKIP LOCKED, and without its wait.
WatchedAny ==
    {p \in Positions : Open(p) /\ (stopLoss[p] # NoLevel \/ takeProfit[p] # NoLevel)}

Watched ==
    {p \in Positions :
        Open(p) /\ (stopLoss[p] # NoLevel \/ takeProfit[p] # NoLevel) /\ rowLock[p] = NoOne}

TickLock(w) ==
    /\ pc[w] = "idle"
    /\ Watched # {}
    /\ Goto(w, "locked")
    /\ batch' = [batch EXCEPT ![w] = Watched]
    /\ px' = [px EXCEPT ![w] = quote]
    /\ Lock(w, Watched)
    /\ UNCHANGED <<dbVars, quote, feed, seen, want, edit, requests>>

TickClose(w) ==
    /\ pc[w] = "locked"
    /\ LET hit == {p \in batch[w] : feed = "live" /\ Triggered(p, px[w]) /\ Open(p)}
       IN  Settle(hit, lots) /\ WriteHistory(hit)
    /\ Finish(w)
    /\ Unlock(batch[w])
    /\ UNCHANGED <<quote, feed>>

-----------------------------------------------------------------------------
(* The risk engine: unlocked reads, then a stop-out that closes positions   *)
(* until the margin level recovers.  Which ones depends on the floating     *)
(* losses, so any non-empty part of what it loaded.  It writes no           *)
(* trade_history row.                                                       *)

RiskLoad(r) ==
    /\ LoadOpen(r, {p \in Positions : Open(p)})
    /\ UNCHANGED <<dbVars, rowLock, quote, feed, px, want, edit, requests>>

StopOut(r, S) ==
    /\ pc[r] = "closing"
    /\ S # {} => feed = "live"
    /\ S \subseteq batch[r]
    /\ Free(S)
    /\ Settle(S, seen[r])
    /\ Finish(r)
    /\ UNCHANGED <<fullRows, rowLock, quote, feed>>

-----------------------------------------------------------------------------
(* The copy engine closes a follower's position after its master's; the     *)
(* back office closes any position.  Neither locks nor re-reads the row.    *)

CloseUnlocked(s) ==
    /\ pc[s] = "closing"
    /\ Free(batch[s])
    /\ Settle(batch[s], seen[s])
    /\ WriteHistory(batch[s])
    /\ Finish(s)
    /\ UNCHANGED <<rowLock, quote, feed>>

CopyLoad(c, p) ==
    /\ p \in Copied
    /\ LoadOpen(c, {p})
    /\ UNCHANGED <<dbVars, rowLock, quote, feed, px, want, edit, requests>>

CopyClose(c) == CloseUnlocked(c)

AdminLoad(a, p) ==
    /\ LoadOpen(a, {p})
    /\ UNCHANGED <<dbVars, rowLock, quote, feed, px, want, edit, requests>>

AdminClose(a) == CloseUnlocked(a)

-----------------------------------------------------------------------------
(* The healer: one INSERT ... SELECT whose snapshot is taken before its     *)
(* rows become visible to the other worker's healer.                        *)

\* Variant of HealScan: the test for an existing row is inverted.
HealScanRecorded(h) ==
    LET recorded == {p \in Positions : ~Open(p) /\ fullRows[p] + partRows[p] > 0}
    IN  /\ pc[h] = "idle"
        /\ recorded # {}
        /\ Goto(h, "closing")
        /\ batch' = [batch EXCEPT ![h] = recorded]
        /\ UNCHANGED <<dbVars, rowLock, quote, feed, seen, px, want, edit, requests>>

HealScan(h) ==
    LET missing == {p \in Positions : ~Open(p) /\ fullRows[p] + partRows[p] = 0}
    IN  /\ pc[h] = "idle"
        /\ missing # {}
        /\ Goto(h, "closing")
        /\ batch' = [batch EXCEPT ![h] = missing]
        /\ UNCHANGED <<dbVars, rowLock, quote, feed, seen, px, want, edit, requests>>

HealInsert(h) ==
    /\ pc[h] = "closing"
    /\ WriteHistory(batch[h])
    /\ Finish(h)
    /\ UNCHANGED <<status, lots, stopLoss, takeProfit, partRows, closes, bookedLots,
                   rowLock, quote, feed>>

-----------------------------------------------------------------------------
TraderStarts(t) ==
    \E p \in Positions :
        \/ \E size \in CloseSizes : CloseLoad(t, p, size)
        \/ \E field \in {"sl", "tp"}, level \in Levels : ModifyLoad(t, p, field, level)

TraderProceeds(t) ==
    \E p \in Positions :
        \/ CloseLock(t, p)
        \/ CloseConflict(t, p)
        \/ CloseRefused(t, p)
        \/ ClosePartial(t, p)
        \/ CloseFull(t, p)
        \/ ModifyCommit(t, p)

\* A step of the market, or of one of the sessions in S.
NextOf(S) ==
    \/ \E q \in Prices : Tick(q)
    \/ FeedDies
    \/ \E t \in Traders \intersect S : TraderStarts(t) \/ TraderProceeds(t)
    \/ \E w \in SltpWorkers \intersect S : TickLock(w) \/ TickClose(w)
    \/ \E r \in RiskMonitors \intersect S : RiskLoad(r) \/ \E P \in SUBSET Positions : StopOut(r, P)
    \/ \E c \in CopyEngines \intersect S : (\E p \in Positions : CopyLoad(c, p)) \/ CopyClose(c)
    \/ \E a \in Admins \intersect S : (\E p \in Positions : AdminLoad(a, p)) \/ AdminClose(a)
    \/ \E h \in Healers \intersect S : HealScan(h) \/ HealInsert(h)

Next == NextOf(Sessions)

Spec == Init /\ [][Next]_vars

(***************************************************************************)
(* The engines loop forever and a request that began runs to its end;      *)
(* nobody is obliged to start a request or to publish a tick.              *)
(***************************************************************************)
Fairness ==
    /\ \A t \in Traders : WF_vars(TraderProceeds(t))
    /\ \A w \in SltpWorkers : WF_vars(TickLock(w) \/ TickClose(w))
    /\ \A h \in Healers : WF_vars(HealScan(h) \/ HealInsert(h))

FairSpec == Spec /\ Fairness

-----------------------------------------------------------------------------
(* Properties. *)

\* A position ends at most once in the trader's history: no interleaving of
\* closers leaves two trade_history rows for the end of one position.
SettledOnce == \A p \in Positions : fullRows[p] <= 1

\* The profit of a position's end is added to the account at most once.
RealisedOnce == \A p \in Positions : closes[p] <= 1

\* No lot is realised twice: what was booked, plus what is still open, is what
\* was opened.
LotsConserved ==
    \A p \in Positions : bookedLots[p] + (IF Open(p) THEN lots[p] ELSE 0) = OpenLots

\* The market reaches a level of p and stays there, on a live feed: a stop for which
\* stops holds, or a target for which targets holds.
StaysBeyond(p, stops, targets) ==
    <>[](/\ feed = "live"
         /\ \/ stopLoss[p] \in stops /\ quote <= stopLoss[p]
            \/ takeProfit[p] \in targets /\ quote >= takeProfit[p])

\* A level that can only lose if it is a stop, and only gain if it is a target, closes
\* the position when the market stays beyond it, whichever worker's tick sees it and
\* whatever requests edit it meanwhile.  The engine compares the level with the open price
\* first, so this says nothing of the other levels modify_position accepts.
LosingSideLevelHonoured ==
    \A p \in Positions :
        StaysBeyond(p, {l \in Prices : l < OpenPrice}, {l \in Prices : l > OpenPrice})
            => <>(status[p] = "closed")

\* Any level that modify_position has accepted, a break-even or profit-locking stop among
\* them, closes the position when the market stays beyond it.
AcceptedLevelHonoured ==
    \A p \in Positions : StaysBeyond(p, Prices, Prices) => <>(status[p] = "closed")

\* Why the FOR UPDATE refresh and SKIP LOCKED suffice among themselves: a session
\* past its lock holds the row, and the row is still open.
LockedRowsOpen ==
    \A s \in Traders \union SltpWorkers :
        pc[s] = "locked" => \A p \in batch[s] : rowLock[p] = s /\ Open(p)

\* No history row records the end of a position that is open.
OpenHasNoEnd == \A p \in Positions : Open(p) => fullRows[p] = 0

\* Nor has the profit of its end been added to the account.
OpenNotRealised == \A p \in Positions : Open(p) => closes[p] = 0

\* What a healer is about to insert is still missing.
HealingMissing ==
    \A h \in Healers :
        pc[h] = "closing" => \A p \in batch[h] : ~Open(p) /\ fullRows[p] = 0

\* The inductive invariant behind SettledOnce: the types, the meaning of the row
\* lock, that the first history row appears when the position ends, and that the
\* healer only fills gaps.
SettlementInv ==
    TypeOK /\ LockedRowsOpen /\ OpenHasNoEnd /\ HealingMissing /\ SettledOnce

\* The inductive invariant behind RealisedOnce.
RealisedInv == TypeOK /\ LockedRowsOpen /\ OpenNotRealised /\ RealisedOnce

\* The settlement promise, as this state shows it: the lots still open, the lots
\* booked, and the history rows that record an end.
Promise == INSTANCE SettlementPromise WITH
    remaining <- [p \in Positions |-> IF Open(p) THEN lots[p] ELSE 0],
    booked <- bookedLots,
    ended <- fullRows

\* A closed position gets its trade_history row in the end, whoever closed it.
HistoryHealed ==
    \A p \in Positions : (status[p] = "closed") ~> (fullRows[p] >= 1)
=============================================================================

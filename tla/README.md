# Verification of TuskaEx

This directory holds TLA+ models of the TuskaEx broker platform, the TLC configurations
that model-check them on small instances, and proofs, checked by TLAPS, of the theorems
that hold for every value of the constants. Every definition is translated from the code
under `src/`; the `map` of `PROJECT.json` names the lines each one stands for.

Paths below are relative to `src/backend`; `GW` is `services/gateway/src`, and `TR` is
`src/frontend/trader/src`.

1. [Inventory](#1-inventory)
2. [Plan](#2-plan)
3. [Modules and the code they model](#3-modules-and-the-code-they-model)
4. [Runs, bounds and what they show](#4-runs-bounds-and-what-they-show)
5. [Fairness](#5-fairness)
6. [Proofs](#6-proofs)
7. [Findings and observations](#7-findings-and-observations)
8. [What is not modelled](#8-what-is-not-modelled)
9. [Running it](#9-running-it)

## 1. Inventory

TuskaEx is a white-label forex and CFD broker: Python (FastAPI, SQLAlchemy) services around
one PostgreSQL database and one Redis, a Solidity vault, and web and desktop clients. Three
facts shape the models.

* **Sessions read early and write late.** The database runs at READ COMMITTED. A session
  (`expire_on_commit=False`) keeps a row it has loaded: selecting it again, even `FOR UPDATE`,
  waits for the lock but does not refresh the attributes, unless the code asks for a refresh.
  What it writes are absolute values computed from its copy, of the columns that changed.
  Only a row lock taken *before* the first read keeps another session out.
* **Several processes run the same code.** The gateway starts several uvicorn workers, and
  each starts every background engine. Engines elect a leader with a Redis key, or do not.
* **A tab answers late.** The trader app is one thread, but each `await` and each socket lets
  other code run: polls, answers and push events reach the stores in any order, after the
  user has gone elsewhere, or never.

| Component | State | Operations | Works with | Hard behaviour | What makes it correct |
|---|---|---|---|---|---|
| Position settlement (`GW/services/trading_service.py`, `GW/engines/sltp_engine.py`, `services/risk-engine`, `GW/engines/copy_engine.py`, `services/admin/services/trade_service.py`, `GW/main.py`) | `positions`, `trade_history`, the account's profit | close, partial close, modify, SL/TP tick, stop-out, copy close, admin close, history repair | account rows, quotes in Redis | six kinds of session close one row; some lock, some do not | a position ends once; its profit and its lots are booked once; a stop the trader was told is set closes it when it is reached; its history row appears |
| Pending orders (`trading_service.py`, `services/b-book-engine`) | `orders`, free margin | place, modify, cancel; cycle fills, rejects | positions, quotes | the engine's copy of a whole cycle against unlocked modify and cancel; a cycle fails as a whole | one position an order; the cap; margin booked; a reached price is acted on |
| Account balances (`GW/services/wallet_service.py`, `trading_service.py`) | `users.main_wallet_balance`, `trading_accounts.balance`, `margin_used`, ledger | transfers (3), fills, closes | everything that moves money | stale copies behind a lock; lock order; deadlock | balance is the sum of its ledger entries; margin is never taken out; requests end |
| Deposits and withdrawals (`wallet_service.py`, `services/admin/services/deposit_service.py`, `GW/api/webhooks.py`, `GW/engines/chain_verifier_engine.py`, `GW/services/onchain_*`) | `deposits`, `withdrawals`, claim keys in Redis | request, webhook, checkout, verify, approve, reject, pay | providers, chain, wallet | webhooks repeated and reordered; administrators against webhooks; key expiry against a slow call; crash | credited once; balance is credits less debits; final states stay; what a provider reports paid is credited |
| Engine leader lock (`packages/common/src/engine_lock.py`) | one Redis key per engine | acquire, release, expire | all engines | crash, tick longer than the TTL, lost reply | one leader; nobody releases another's lock; engines keep running |
| Overnight fee and swap (`GW/engines/overnight_fee_engine.py`, `services/risk-engine`) | `positions.last_swap_at` | select due, charge, stamp; daily swap | leader lock, accounts | crash between lock and commit; restart in the rollover minute | one charge a night |
| Management fee (`GW/engines/stats_engine.py`) | a variable of each process | collect | leader lock, allocations | memory lost at a restart, several processes | a day is charged once (it is not, see observation 19: as often as processes lead that day), and at least once |
| Copy trading (`GW/engines/copy_engine.py`, `GW/services/social_service.py`) | in-memory snapshot of masters' positions, `copy_trades` | open, modify, close copies, sweep orphans | settlement, accounts | the snapshot survives a rollback; leader rotates with a stale snapshot | every master position is mirrored once, and ends with it |
| Margin monitor and exposure (`services/risk-engine`) | margin calls sent | margin level, choice of stop-outs | settlement | figures read unlocked, one commit for all accounts | stop out no more than needed |
| Candles (`services/market-data/src/bar_aggregator.py`, `packages/common/src/bars_store.py`, `GW/engines/bars_persist_engine.py`) | open bars in memory, closed bars in Redis and the database | tick, close by clock, seed at restart, persist | feeds | late ticks, wall-clock close, restart | a bar is closed once, in order |
| Feeds (`services/market-data`) | last tick per symbol | connect, publish, fail over | Redis | outage, frozen quotes | quotes are fresh or marked stale |
| Liquidity bridge (`services/lp-bridge`, `packages/common/src/fix44.py`) | FIX sequence numbers | logon, heartbeat, resend | LP | restart between send and save | sequence numbers never reused |
| Idempotency keys (`packages/common/src/idempotency.py`) | table `idempotency_keys` | cached answer | creation of Razorpay orders, and nothing else | a retry while the first runs; crash before the answer is stored | a retried request acts once |
| Sessions and step-up checks (`auth_service.py`, `sensitive_action_service.py`, `email_otp_service.py`) | challenges, attempts, tokens | issue, verify, consume | withdrawals, profile | consume reads then writes | a challenge is used once |
| Accounts (`account_service.py`, `demo_account_service.py`) | `trading_accounts` | open, close with sweep | orders, positions, wallet | sweep races engines | nothing left behind, nothing swept twice |
| Algo connector (`GW/api/algo_*`) | API keys | order, close | settlement, accounts | no row locks | as settlement |
| IB commission (`packages/common/src/ib_commission.py`) | wallets up the referral tree | distribute | fills | absolute writes to shared parents | sum paid is the plan's share |
| Vault (`contracts/src/TuskaExVaultV1.sol`) | totals, used ids | deposit, withdraw, pause, recover | chain | replay, roles | an id pays once; totals match |
| Statements and reminders | Redis key per month | e-mail | | restart | one e-mail a month |
| Client sockets (`TR/lib/ws/barsSocket.ts`, `tradeSocket.ts`, `wsManager.ts`) | current socket, timers, subscribers | dial, close, reconnect, watchdog | charts, stores | a socket closed by the client reports it when a newer one is at work; half-open connections; timers nobody can clear | what is shown is streamed, once; after an outage the stream is back |
| Client session (`TR/stores/authStore.ts`, `TR/lib/api/client.ts`) | store, hint in local storage | load, sign in/up/out, heartbeat, hand-off between domains | cookies of the server | answers of before a sign-out or sign-in; refresh of an expired cookie | a live session is shown as signed in; an ended one is noticed |
| Trading terminal (`TR/stores/tradingStore.ts`, `TR/app/trading`, `TR/components/trading`) | rows of the lists, active account | order, close, poll, push | sockets, gateway | optimistic rows against polls and push events; an answer for the account shown before | the lists become the server's; an order goes to the account picked |
| Back office, portfolio, tenants, other pages, deployment | single rows, views | edit, read | | none of their own | |

## 2. Plan

The order is by what a mistake costs: money first, then what decides about money, then what
the user is shown.

| Step | Modules | Abstract statement | State |
|---|---|---|---|
| 1 | `PositionSettlement` | `SettlementPromise` | done; six theorems |
| 2 | `EngineLock`, `OvernightFee`, `ManagementFee` (the last two compose the lock) | one leader, one charge of a night | done, every safety property proved, in the composition too |
| 3 | `AccountBook` | balance = ledger | done, proved |
| 4 | `Funding` | balance = credits − debits | done; credits, debits, final states and the balance proved |
| 5 | `PendingOrders` | one fill an order | done; three invariants, that a cancel stands, and two lemmas about triggers proved |
| 6 | `CopyEngine` (composes `EngineLock`) | each master position mirrored once | done, proved |
| 7 | `BarsSocket`, `TradeSocket`, `PriceSocket`, `AuthSession`, `OptimisticRows`, `TerminalAccount`, `ChartLines` | what is shown is, in the end, what the server has | done; what holds at every moment is proved, what holds in the end is model-checked |
| 8 | `MarginMonitor`: margin level, choice of stop-outs, margin calls | no stop-out above the level in the committed books | |
| 9 | `BarAggregator`: late ticks, close by the wall clock, seeding at a restart, order of the store | bars are closed once and in order | |
| 10 | `StepUp`: challenges, attempts, consumption | a challenge is used once | |
| 11 | account closure and the algo connector as further closers of `PositionSettlement` and writers of `AccountBook`; IB commission as a further writer | | |
| 12 | `Idempotency` (one endpoint), `Vault`, `FixSession` | a request acts once; ids unique, totals; sequence numbers | |

Theorems left: those of steps 8 to 12. Of the modules written so far every safety property that a
run checks is also a theorem.

## 3. Modules and the code they model

### `PositionSettlement` — who ends a position

State: `status`, `lots`, levels and row lock of each position; `fullRows` (rows of
`trade_history` that record its end), `closes` (times the profit of its end was added),
`bookedLots`; the quote and whether the feed lives; per session a program counter, the rows
it works on (`batch`) and what it read (`seen`, `px`, `edit`).

| Actions | Code |
|---|---|
| `CloseLoad`, `CloseLock`, `CloseConflict`, `CloseRefused`, `ClosePartial`, `CloseFull` | `close_position`: load, refresh of `status` under `FOR UPDATE`, 409 when it is closed, partial or full close |
| `ModifyLoad`, `ModifyCommit` | `modify_position` |
| `TickLock`, `TickClose` | one tick of the SL/TP engine: `FOR UPDATE SKIP LOCKED`, test of the levels, close and commit |
| `RiskLoad`, `StopOut` | the margin monitor's stop-out: no lock, one commit, no history row |
| `CopyLoad`/`CopyClose`, `AdminLoad`/`AdminClose` | `_close_copy` and the back office's close: no lock, status not read again |
| `HealScan`, `HealInsert` | the loop of `main.py` that inserts missing history rows |

An UPDATE and its commit are one step, enabled when nobody else holds the row: that is when
PostgreSQL lets it through. A price is measured in the position's favour, which merges the
code's buy and sell branches. `SettlementPromise` is the abstract specification: lots leave a
position once, are booked as they leave, and a position out of lots has ended once.
`MCSettlementCasts` runs it with one of three casts of sessions: all kinds (`Everyone`), those
that lock (`Lockers`), or one trader beside the SL/TP workers (`Desk`); the first two see fewer
prices (`FewPrices`). `Triggered` keeps the engine's comparison of a level with the open price,
and `LevelAccepted` that `modify_position` has none.

### `EngineLock`, `OvernightFee`, `ManagementFee` — engines under a leader

`EngineLock` models `SET NX EX` (and a SET whose reply is lost: the key then holds a token
no worker knows), the compare-and-delete release and its failure, expiry second by second,
crash and restart. `OvernightFee` EXTENDS it with the selection of due positions, the charge
with its stamp in one commit, and the risk engine's swap calculator, which charges in the
21:00 minute, sleeps 60 s and stamps nothing. `ManagementFee` EXTENDS it with the
collection a process does when its *own memory* says a day has passed. `MCEngines` runs the
two fee engines side by side, one in each behaviour, each with its own lock.

### `CopyEngine` — one copy of each position

EXTENDS `EngineLock`. State: the master's positions, the allocations, per position and
follower how many copies are open (`live`) and were ever made (`made`); of each process the
snapshot of positions it has seen and the followers it has caught up, both in memory only;
of each cycle its stage, what it has read, and what it has not committed.

| Actions | Code |
|---|---|
| `MasterOpens`, `MasterCloses`, `Follow`, `Stop` | the master's trading; subscribe and `stop_copy` in `social_service.py`, whose commits may fall anywhere in a cycle |
| `CycleStart`, `CycleStartLost`, `Released` | the lock around `_run_cycle` |
| `_global_orphan_sweep`, `ReadMaster`, `process_master`, `CycleCommit`, `CycleFails` | the stages of a cycle, which is one transaction; a failure rolls the rows back, and not the memory |
| `WorkerCrash`, `WorkerRestart`, `SecondPasses` | the process and its memory are gone; keys expire |

### `AccountBook` — the money of one user

State: committed `money`, `margin`, open positions, bonus; `ledger` (sum of the entries of
`transactions`); who holds each row lock; each session's copy of the rows. Actions:
`TransferBegin`, `TransferReadFirst`, `TransferLockFirst`, `TransferLockSecond`, `Transfer`,
`TransferRefused` (the three transfers of `wallet_service.py`, with the order in which each
locks), `OpenLoad`, `OpenLock`, `OpenFill`, `OpenRefused` (`place_order`), `CloseLoad`,
`CloseFlush`, `CloseCommit` (the account's side of a close), `DeadlockAbort` (PostgreSQL's
deadlock detector, external). Which copy is fresh is the point of the module: a transfer
between accounts reads under its locks; a transfer to or from the main wallet loads the
accounts with the user (`User.accounts`, `lazy="selectin"`) before it locks them;
`place_order` loads the account in `validate_account` and locks it afterwards; a close reads
it unlocked.

### `Funding` — the life of a deposit and a withdrawal

State: an item's method, status, checkout link and Razorpay order; what the provider has
seen, sent and had answered; Redis claims of the chain verifier; `credits`, `debits`,
`wallet`, and `due`, what the wallet should hold; the job of each session. Actions:
`Pays` and `Duplicate` (the provider, external), `Deliver` and `Checkout` (a webhook or the
checkout page starts a session), `LockItem`, `LockUser`, `Credit`, `MarkInvoice`,
`OfferCheckout`, `PlaceOrder`, `RejectLoad`/`RejectCommit` (no lock), `ConfirmLoad`/
`ConfirmCommit`, `VerifyClaim`, `VerifyLoad`, `VerifyCredit`, `VerifyFailed`,
`VerifyUndecided`, `KeyExpires`, `RequestOnchain`, `RequestLock`, `RequestDebit`,
`RequestBank`, `Approve`, `Refund`, `Conclude`, `Refuse`, `Crash`; `OfferChanges` (an
administrator adds or removes a bonus offer with a date, `dated`) and `Raises`: while such an
offer is active, the gateway's handlers compare its date with a naive clock and raise instead of
crediting, and the webhook, whose claim is already committed, is `lost` as it is after a crash.
Every item is worth one unit.

### `PendingOrders` — orders that wait for a price

State: the rows, the positions opened for each, the account's free margin and row lock, the
requests at work, and the engine's cycle: its copies, what it has still to look at, what it
filled and rejected without having committed. Actions: `PlaceLock`, `PlaceCount`,
`PlaceCommit`, `PlaceRefused`; `ModifyLoad`, `ModifyCommit`; `CancelLoad`, `CancelCommit`;
`CycleSelect`, `CycleStep` (skip, reject or fill one order), `CycleCommit`, `CycleFails`;
`Quoted`. A commit writes the columns that changed over whatever was committed in between.

### The trader app: seven machines of a tab

They share no state, so `MCClients` runs them side by side, one in each behaviour. In each, a
request is sent and answered in one step and its answer delivered in a later one, or lost.

* `BarsSocket` (`barsSocket.ts`): subscribers with their keys, the current socket and those
  still closing, reconnect timer, watchdog, what the server streams, and the hole in a chart's
  candles after an outage. Actions: `subscribe`, `unsubscribe`, `Opened`, `CurrentCloses`,
  `OldCloses`, `Stalls`, `WatchdogFires`, `ReconnectFires`, `BarCloses`.
* `TradeSocket` (`tradeSocket.ts`): the account on screen against the sockets that still live
  for earlier ones, the timer, and dials that the timer variable no longer knows of.
* `PriceSocket` (`wsManager.ts`): dials again a limited number of times; two mounts while it
  dials leave two sockets.
* `AuthSession` (`authStore.ts`, `client.ts`): the cookies as the server sees them, the hint,
  the store, and one pending request for each of `loadUser`, the sign-ins, `refreshUser` and
  `logout`; the single retry after a refresh, and the hand-off between domains.
* `OptimisticRows` (`tradingStore.ts` and its callers): the rows displayed, those younger than
  five seconds, the orders and closes under way, the answers of `GET /positions` under way,
  and the events of the trade socket; `Merged` is the store's merge of an answer with the
  optimistic rows, and `Promoted` the exchange of a row's token for the position's id.
* `TerminalAccount` (the terminal's layout, `tradingStore.ts`, the panels): the account of the
  address against the store's `activeAccount`, the bootstrap, pending orders and closed
  trades, the polls, and the answers that set any of them.
* `ChartLines` (`TradingViewChart.tsx`, `loadChartLibrary.ts`): the widget from the load of its
  library to `onChartReady`, the map `linesRef` against the shapes that are drawn, the
  creations under way, and the watchdog of the feed. `Effects` is one run of React's effects in
  the order of the source: the switch of the symbol, whose callback the library runs at once
  or later, and `Reconcile`; `due` and `picked` say what they depend on has changed.

`*_proofs` modules hold the theorems of the module they extend (`MCEngines_proofs` those of
both fee engines and of their composition, `PositionSettlement_proofs` those about the casts,
`MCClients_proofs` those of the seven machines of a tab); `MC*` modules hold model
values, and the choice between parts of the system that one run checks.

## 4. Runs, bounds and what they show

| Run | Instance | Shows |
|---|---|---|
| `settle_casts` | 2 positions of 2 lots, up to 2 requests; cast `Lockers`: 2 requests (partial closes), SL/TP worker, stop-out, healer; `Everyone`: a request (full closes), SL/TP worker, stop-out, copy engine, back office, healer; `Desk`: 1 request (partial closes), 2 SL/TP workers, three prices | `Lockers` and `Desk` keep the inductive invariant behind `SettledOnce`: a position ends once in `trade_history` (`LockersInv`); with `Everyone`, every closed position obtains its history row (`EveryoneHealed`); with `Desk`, the end of a position is realised once (`GatewayRealisesOnce`), no lot is lost or booked twice (`DeskConservesLots`), each step is one of `SettlementPromise` (`DeskKeepsPromise`), and while the feed lives a market that stays beyond a stop on the losing side of the open price, or a target on the other side, closes the position (`DeskHonoursLevels`). Of other levels see the next row |
| `settle_profit_lock` (violation) | 1 position, 1 request, 2 SL/TP workers | see finding 5 |
| `settle_copy_race` (violation) | a copy, a request, the copy engine | see finding 1 |
| `fee_engines` | 2 workers, 2 nights or days, a crash; overnight: TTL 3, ticks up to 2, a calculator; management: TTL 2, ticks up to 3 | one leader, one charge a night, the stamp never goes back; the calculator's charges are bounded by its restarts; even when ticks outlast the key nobody releases another's lock; the last night, or day, is charged. That the management fee is collected once a day is not checked: it does not hold (observation 19) |
| `copy_engine` | 2 workers, 1 position, 2 followers, a crash or a cycle that is rolled back | one copy of a position for a follower; it ends with the master's; nobody misses one, unless a rolled-back cycle is remembered as done |
| `book_transfers` | 2 sessions, 2 accounts, 3 requests: transfers of one kind, of both kinds, or everything | no deadlock in any mixture of transfers; with one kind alone every balance is its ledger, margins stay covered, money only moves; the main wallet is always the sum of its entries; every request ends, deadlocks included |
| `book_two_fills` (violation) | 2 market orders | see finding 2 |
| `funding_one` | 1 item of any method, 2 sessions, 2 orders, 1 retry, 1 crash, 4 requests, dated offers that come and go | credited once, balance right, debits follow the status, final states stay; a payment is credited if the webhook that reports it is handled to the end, the order it pays was not replaced and the deposit was not rejected (observations 20 and 21 tell of the others); a transfer is decided once no dated offer stays active |
| `funding_stale` (violation) | 2 invoices, 2 webhooks | see finding 3 |
| `pending_orders` | 3 orders, cap 2, 2 requests, equity 3, 1 failed cycle | one position an order, the cap, margins booked, a cancel between cycles stands, a reached price is acted on |
| `clients` | each of the seven machines: 2 charts and 2 keys, 2 accounts, 3 sockets, up to 3 faults, 3 sign-ins, 2 positions, 1 pending order, 2 visits; 2 symbols with a position each, 2 changes, a failed load or creation | `ClientsInv`: what is shown is streamed, and once; `SocketsReturn`; a live session is shown, an ended one noticed; `ListsSettle`: the lists become the server's, and the lines of the chart the lists', and each answer with positions is shown at once; an order goes to the account picked |
| `bars_stall` (violation) | 2 charts, 2 keys, 2 faults | see finding 4 |

**Why the bounds are enough.** Every race modelled here is between two sessions over one or
two rows; two of each kind that can race with itself gives all pairs, and the theorems of
section 6 remove the bounds for the most important invariants. Two lots make a partial close
possible, three prices give a stop, an entry and a target. Two nights (days) let a tick
straddle the change. The TTL is a few seconds so that keys expire within a run; only its
relation to the length of a tick matters. Three orders against a cap of two let a placement
meet the cap while another is in flight. `pending_orders` places sell limits only: the races
do not depend on the kind of an order, and the triggers of the other kinds, which do, are the
subject of two theorems for all prices. A cycle of `copy_engine` takes no time (ticks of 0
seconds against a TTL of 1: what lies between its steps is other sessions' work, not the
clock); one position is enough because positions are mirrored independently, a second
follower is needed because a new one is caught up on what older ones have, and one fault per
behaviour already leads to every memory a process can have. The price socket gives up after
10 dials in the code and after 4 in the run; only that there is a last one matters. Two
accounts make "the account shown before" possible, two positions a row that must not be
taken for another, three sockets the current one, one closing and one left behind. Accounts
are alike, so the first one opened is always the same (`OneFirst`). Two changes let a symbol
be switched, or a level be moved, while a shape is being created; a chart is opened and left
any number of times.
The bounds on requests (`MaxRequests`), crashes
(`MaxCrashes`), failed cycles (`MaxFailures`), Razorpay orders (`MaxOrders`) and nights or
days are all constants named in the modules, with "bound:" in their comment.

**Deadlock.** TLC checks it in the runs of `PositionSettlement` and `AccountBook`. In the
others a behaviour may end: all items are final, no more requests, faults or clicks are
allowed, or the last day is over. `AccountBook` states the absence of lock cycles itself
(`NoDeadlock`) because PostgreSQL would resolve them.

**Mutants.** Each property of a passing run comes with a changed definition — the
close that does not look at the refreshed status, the release that deletes without comparing,
the claim that ignores the key — under which TLC finds it violated; these variants stand in
the modules beside the definitions they change, and belong to no specification.

## 5. Fairness

* Time passes: `Second` and `KeyExpires` are weakly fair; Redis keys have TTLs.
* A dead process is started again (`restart: always` in `docker-compose.yml`), and every
  engine loop catches exceptions, sleeps and goes on: `WorkerRestart` and the steps of a tick
  are weakly fair.
* A step that waits for a row lock in `AccountBook` and `Funding` is strongly fair: the lock
  is free again and again, and PostgreSQL hands it to those who wait in turn.
* In `PositionSettlement` weak fairness is enough: a request that began runs to its end, the
  SL/TP engines and healers loop (one condition for the two steps of each: a worker always takes
  whichever comes next). In a cast this holds for its members. `TickLock` skips locked rows, so requests without end could
  starve it; a behaviour has finitely many (`MaxRequests`).
* Acquiring the leader lock is strongly fair *for the set of workers*, not for one of them:
  Redis may lose replies, and the same worker may always win.
* A tick's transaction may fail; it does not fail every time (strong fairness of `LoadDue`,
  `Collect`, `CycleCommit`).
* Providers repeat a webhook until it is answered (strong fairness of `Webhooks`). A handler
  that cannot credit raises (`Raises` is one of the steps a session must take in the end).
* A cycle of the copy engine goes on until it commits or fails, and only finitely many fail.
* In a tab, timers fire, a socket that is closing closes, a request is answered or lost, and
  the intervals poll for ever; of the answers of a poll, some arrive (strong fairness: not
  every one is lost). Dials succeed once the bounded faults are over. The chart's library
  answers what it is asked, and React runs its effects.
* Six of the machines start in a mode that never changes: `prompt` (a socket is done before
  the next one opens), `alone` (no page mounts while a socket dials or closes), `calm` (no
  request fails, and the user waits for the answers), `patient` (no symbol is picked while the
  chart's library loads, and no chart is opened after it failed). Where a property holds only
  in such a mode it says so, and section 7 tells what happens outside.
* Nothing is assumed about users, administrators or prices.

## 6. Proofs

| Theorem | Assumes | By |
|---|---|---|
| `PositionSettlement_proofs!TypeCorrect` | – | types, action by action |
| `SettledOnceHolds` | `ClosersLock` (no copy engine, no admin close), `OneHealer` | `SettlementInv`: who is past its lock holds open rows; an open position has no end row; what the healer is about to insert is missing |
| `RealisedOnceHolds`: `GatewayRealisesOnce` | the property speaks of casts of requests, SL/TP engines and healers | `RealisedInv`: the same about the booked profit. The stop-out must be excluded, since it does not read the row again under the lock |
| `LotsConservedHolds`: `DeskConservesLots` | the property speaks of such casts with one trader, who sends one request at a time | `PromiseInv`: a request past its load knows the size its position has; a position is open with lots or has ended with its history row; no healer is at work |
| `LockersInvHolds` | `OneHealer` | the whole of `SettlementInv`, in the behaviours of `MCSpec` whose cast is the closers that lock: the two that skip the lock may exist, if they are idle (`UnlockedDoNothing`) |
| `KeepsPromiseHolds`: `DeskKeepsPromise`, that the sessions implement `SettlementPromise` | as above | `PromiseInv`, and a step that maps each action to `Reduce`, `End` or a stutter |
| `EngineLock_proofs!OneLeaderHolds` | `TickFits`: a tick is shorter than the TTL | `LeaseInv`: a working worker owns the key, and the key's remaining life and the tick's age add up to the TTL |
| `OnlyHolderReleasesHolds` | – | a type invariant is enough: the script compares before it deletes |
| `MCEngines_proofs!ChargedOnceHolds`, `StampAdvancesHolds`; `ChargedOnceBesideHolds` for the composition | `TickFits` | `FeeInv`: `LeaseInv`, a charged night is stamped, what a tick is about to charge is newer than the stamp |
| `SwapsBoundedHolds` | – | `SwapInv`: in the first minute of a night every swap has put a calculator to sleep, and only a restart wakes one up |
| `FeeOncePerProcessHolds`: only a bound on the repetition of observation 19 | finitely many workers | `MemoryInv`: each charge of a day has put a process among those that are done with it, and only a crash takes one away again. Stated of `MCSpec`: every behaviour of the composition is one of `ManagementFee` or leaves its variables alone (`ComposedBehaviours`) |
| `AccountBook_proofs!WalletBalancesHolds` | – | `BookInv`: a session past a lock owns it, and its copy of the row it locked first is current |
| `BooksBalanceHolds`, `NeverOverdrawnHolds`, `TransfersMoveHolds` | the properties themselves speak of transfers of one kind (`Separate`) | `TransferInv`: `BookInv` and `UserExcludes`, that the user's row serialises transfers to and from the main wallet |
| `NoDeadlockHolds` | transfers only (`Transfers`) | `WaitInv`: a transfer waits for a row above the one it holds, so of the rows that are held the highest belongs to a session that can go on (`HighestRow`) |
| `Funding_proofs!OthersCreditedOnce` | – | `CreditInv`: an item is credited only out of an open status, under its row lock, and never opens again; with `Provided`, which events belong to which method |
| `CreditedOnceHolds` | no item on a chain | corollary |
| `DebitFollowsStatusHolds` | – | `FitInv`: what each session relies on in its item's row, and that who writes a status holds the row, or has no rival |
| `CreditedOnceOrderly`, `FinalStaysHolds` | `Orderly`: `OneConfirm` and `VerifyFits` | `FitInv`, whose last two conjuncts speak of transfers on a chain under `Orderly` |
| `FundsBalanceHolds` | `OneItem`, `Orderly` | `FitInv` and `FreshInv`: no session that is going to write the wallet read it before another one's commit, since with one item all who write hold that item's row |
| `PendingOrders_proofs!OneFillHolds` | – | `FillInv`: what the engine holds has no position yet and only a cancel can have finished it |
| `PendingCappedHolds` | – | `CapInv`: who places holds the lock, so what was counted still holds at the insert |
| `MarginCoveredHolds` | – | `MarginInv`: the free margin is `Equity` less what is booked, the cycle's copy of it (`Projected`) is that less what the cycle has filled, and stays above one commission. Sums over the orders are folds, whose uniqueness and change at one order are proved from the smallest set of orders that would be a counterexample |
| `CancelStandsHolds` | – | `FillInv` and `Gone`: no cycle under way works on an order that was cancelled, without a position, before the cycle began |
| `AcceptedOrdersWait` | – | a limit or stop order that is accepted does not trigger at the quote it was accepted at |
| `StopLimitsNeverTrigger` | – | observation 1 below, for all prices |
| `CopyEngine_proofs!MirroredOnceHolds` | `TickFits` | `CopyInv`: `LeaseInv`, so one cycle at a time; what a cycle has read is behind in one way only, a follower has stopped since; what it is about to open is not open |
| `MCClients_proofs!ClientsInvHolds` | the property itself says that events come once only in `prompt` behaviours, and that the price status is the socket's only in those that are `alone` | the conjunction of seven invariants, one for each machine; a step is one machine's and leaves the others' variables alone (`OneMachine`). `BarsInv`: the server's subscriptions are counted by the charts. `TradeInv`: in `prompt` mode at most one of socket, timer and closing socket is at work, for the account shown. `PriceInv`: alone, only the current socket lives, and no timer runs beside it. `ChartInv`: a shape is drawn for each entry, or is being created under a number no other has; numbers are never used twice since only finitely many are taken. For `OptimisticRows` the invariant is its types |
| `AnswersShownHolds` | – | `MergedShows`: the rows of the answer come newest first (`SnapshotShows`) and the fresh optimistic rows in the order displayed (`KeptShows`), each by the smallest prefix for which it would fail; a name in the merged list comes from one place of either. That the rows left above a new position could stay there for ever, or that a closed one could come back, is no matter of one answer and is left to `ListsSettle` |
| `SignedInIsShownHolds` | the property speaks of `calm` sessions | `SessionInv`: whoever holds a live session is shown, or a request that will show him is under way (`ShownSoon`) |
| `CalmOrdersGoToPickedHolds` | the property speaks of `calm` behaviours | `AccountInv`: the active account, the answers that will write one back and the requests under way are all of the address's account |

The assumptions on the constants are those the modules state (`ASSUME`): sessions of
different kinds are different, sets that are counted are finite (among them the charts and the symbols), amounts and bounds
are naturals. The premises named in the middle column are not assumptions of the modules; they
delimit where the code gives the guarantee, and findings and runs show what happens outside.

*Model-checked only.* Everything temporal beyond safety (`EveryoneHealed`,
`DeskHonoursLevels`, `LastPeriodCharged`, `EndsWithMaster`, `MirroredInTheEnd`,
`RequestsEnd`, `PaymentCredited`, `TransferDecided`, `NotLeftWaiting`, `SocketsReturn`,
`SessionSettles`, `ListsSettle`): TLAPS proves no liveness under fairness. Of
`OptimisticRows` that leaves the end, that the rows settle; what one answer makes of them is
the theorem `AnswersShownHolds`, and `AnswersShown` is checked with `ListsSettle`.
`DeskConservesLots` and `FundsBalance` are stated where one request (or one item) is at work: with
two they do not hold, see below.

## 7. Findings and observations

Findings have a run whose counterexample shows them and a sentence of the repository they
contradict.

1. **A copy is closed twice** (`settle_copy_race`). `_close_copy` neither locks the position
   nor reads its status again; `close_position`'s comment says its row lock serialises
   "manual vs the copy engine". Two history rows, profit booked twice.
2. **Two market orders both pass the margin check** (`book_two_fills`). `place_order` locks
   the account, but the session has loaded it in `validate_account`; the locked select returns
   the old attributes. The comment above the lock describes exactly the race it leaves open.
3. **One of two deposits of a user is lost** (`funding_stale`). `Deposit.user` is loaded with
   the deposit, before the user's row is locked, and the lock does not refresh it; the comment
   in `deposit_service.py` says the lock prevents lost updates.

4. **A stalled candle socket is never closed** (`bars_stall`). `onclose` of a socket that was
   replaced disarms the watchdog of the newer one (`barsSocket.ts:132`); if that connection is
   half open already, no frame arms it again. The header of the file promises "a half-open
   watchdog that force-closes a silently-stalled socket".
5. **A break-even or profit-locking stop never fires** (`settle_profit_lock`).
   `modify_position` compares a new level only with the current quote, "the same quote the SL/TP
   engine triggers on. This is what allows break-even and profit-locking stops"
   (`trading_service.py:854`; `:47`: "The only rejection reason is" that it would trigger at
   once). The engine fires a stop only below the open price of a buy, above that of a sell, and
   a target only on the other side (`sltp_engine.py:137-146`). A stop moved to the open price, or
   into profit, is stored and shown, and the position stays open however far the market falls
   back. `DeskHonoursLevels` is about the levels that remain.

Observations made while modelling, which contradict no sentence the runs could be held
against, or need no state space:

1. A *stop-limit* order, as `place_order` accepts it, triggers at no quote: the limit price
   must lie on the side of the stop the trigger excludes (`StopLimitsNeverTrigger`).
2. Two requests that close parts of one position read `lots` before the lock: the second
   commits over the first, and lots are booked twice. Hence one trader in the
   cast `Desk`, and in `DeskConservesLots`.
3. Two workers' healers can both find a row missing and both insert it.
4. Transfers between accounts *together with* transfers to or from the main wallet lose or
   create money: the latter's copy of the account is older than its lock. Hence `Separate`.
5. A close computes the account's balance from an unlocked read: it overwrites a transfer or
   a fill that commits in between.
6. On chain, a deposit is credited twice when a verification outlasts the 60 s key
   (`VerifyFits = FALSE`) or the app sends two confirmations at once (`OneConfirm = FALSE`).
   The verifier credits the main wallet whatever account the deposit names. The manual review
   comes after 240 tries, "~2 hours" at one try a 30 s tick; the 60 s claim key, which is not
   released, lets a deposit be tried only every other tick. A deposit without a transaction
   hash, or on a network without an active administrator's wallet, is skipped for ever; the
   model's deposits have both.
7. An order whose cancel has been answered may still be filled by the cycle that has selected
   it (`CancelStands` says only what holds between cycles), and its row then says
   "cancelled" although a position is open. `order_filled` is published before the commit.
   A modification during a cycle does not reach it: the cycle fills the terms it selected.
8. The engine's fills check the stored free margin, which ignores floating losses, and leave
   the commission unchecked: free margin may end one commission below zero (`MarginCovered`).
9. `Order.expires_at` is set nowhere, so no order expires.
10. The swap calculator and the overnight fee engine both charge the same night, from two
    services; a restart of the risk engine within the 21:00 minute charges again.
11. Closing an account sweeps its balance, positions and orders while an engine's cycle may
    hold a copy of the account.
12. A late answer of `refreshAccount` makes the account it was asked for the active one again:
    if the user has moved to another account's terminal meanwhile, or the request that should
    correct it fails, an order goes to the account shown before. Hence `calm` in
    `CalmOrdersGoToPicked`.
13. `loadUser` clears the session hint after *any* failed request (`authStore.ts:283`), a
    network error included, so the next page load does not even ask; the comment at
    `authStore.ts:96` speaks of one 401. Hence `calm` in `SignedInIsShown`.
14. The copy engine remembers a cycle that was rolled back as done (`rolledBack`): the
    position is not mirrored until another process leads. A cycle that outlasts its 10 s key
    can open two copies, after which `scalar_one_or_none` raises in every cycle. A follower who
    stops in the middle of a cycle may obtain a copy all the same, and keeps it until the
    master closes; copies of a symbol without a price survive `stop_copy`. An allocation paused
    for its drawdown can be neither resumed, although its notification says so, nor stopped or
    withdrawn, as both ask for an active one; and the pause overwrites a stop that commits
    before it.
15. In `tradeSocket.ts`, a terminal that is opened again before the earlier socket has closed
    leaves a dial nobody can clear (`strays`), and events then come twice. A switch from one
    account straight to another does just that: the layout's cleanup and its effect disconnect
    and connect in one tick (`TR/app/trading/layout.tsx:292, 369-372`). `EventsOnce` holds in
    `prompt` behaviours only, which leave that switch out: in them a terminal is opened again
    when the earlier socket is done. Likewise `wsManager.ts`: two pages that mount while it dials
    leave two sockets, and the older one's close then sets the status the newer one had;
    `StatusHonest` holds in `alone` behaviours only. In `barsSocket.ts`, the candles missed while the *first* connection takes
    several attempts are not fetched again, since only a connection after one that was open
    does that.
16. The answer to an idempotent request is stored after the order was created and committed:
    a retry that overlaps the first request creates a second order.
17. A symbol picked while the chart's library loads never reaches the chart: the effect returns
    for want of a widget, which is then built for `initialSymbol`
    (`TradingViewChart.tsx:221, 453`). After a failed load the script element stays in the
    page, so the retry that `loadChartLibrary.ts:51` allows listens to events that have passed
    (`loader = "hung"`). Hence `patient` in `LinesSettle` and `ChartAppears`.
18. The watchdog greys the lines once, when silence begins; the poll of the positions, every
    1.5 s, gives the effect a new list and writes the labels in colour again while the feed is
    still silent, although `TradingViewChart.tsx:678` has the effect run on ticks only. Setting
    `propAt` (line 729) delays the recovery by the throttle, where its comment means to let
    it through. Hence `LabelsRecover` says only that labels come back.
19. The management fee, meant "once per day" and "NOT idempotent", so that it "MUST be
    leader-locked" (`stats_engine.py:31, 61-63`; `engine_lock.py:6-11` gives such double charges
    as the lock's reason), is collected again by every process that leads on that day: the lock
    is released after each tick, the next tick may be another worker's, and only the memory of
    the process that collected knows of it. With two workers an ordinary day is charged twice,
    and once more for each restart. `_collect_management_fees` takes its fee each time it runs.
    No run shows it: the first two ticks of a day do. `FeeOncePerProcess`, which is proved, says
    how often it can happen; it is no claim that this is right.
20. A payment is lost when its webhook's handler raises or dies. `_claim_webhook` commits the
    webhook's id first (`webhooks.py:43-46`) and counts "our 5xx" among what is delivered again
    (`:33-34`), but the repetition is then answered as a duplicate. The handlers do raise: with an
    active deposit bonus offer that has a start or an end, `wallet_service.py:662, 671-673,
    1241, 1250-1253` compare its dates, which the database returns with a time zone, with
    `datetime.utcnow()`; `deposit_service.py:358-363` describes this very exception, and mends it
    in the administrators' path alone. `chain_verifier_engine.py:282-296` does the same, so while
    such an offer is active no deposit on a chain is credited at all. `PaymentCredited` excepts
    the webhooks this happened to (`lost`); without that, TLC violates it with no crash
    (`Raises`, then `Duplicate`). `TransferDecided` asks that such offers end.
21. A second "pay now" puts a new Razorpay order in the place of the earlier one
    (`wallet_service.py:2260`): the payment of the earlier order, captured later, finds no
    deposit. `PaymentCredited` excepts replaced orders.

## 8. What is not modelled

Amounts, prices, leverage, commissions and fees are units where the properties do not
depend on them; amounts of bonuses, KYC, bank tiers, notifications, e-mail and audit rows are left out.
Copy sizing, its fees and margin checks, and PAMM pools are left out of `CopyEngine`; bonus
release and group minimum balances out of `AccountBook`.

Of the components of section 1, those of steps 8 to 12 of the plan are not modelled yet.
`Idempotency` stands last because the key is used by one endpoint. Feeds are inputs of the
models (a quote, and whether it is fresh). Portfolio, profile, support, notifications,
catalogue, tenants and branding are reads and single-row writes without a protocol.

Of the two web apps and the desktop shell, the parts with a protocol of their own are step 7.
What remains is most of their code by lines: pages, tables, forms, chart buttons and layout,
which load a view, edit one thing and load it again. They keep no state beyond what is typed
and shown, and a model of them would restate the markup; so the modules here will never stand
for more than a small share of the front end's lines. Within the machines that are modelled,
prices and sizes of rows, back-off delays, redirects and the merge of streamed candles with
the chart's own cache are left out, and one tab is at work.

Deployment scripts appear through what they fix about processes and restarts. `PROJECT.json`
gives the status and the reason component by component, and lists the hazards with the
properties that cover them.

External to `src/` and modelled from its use: PostgreSQL's row locks and deadlock detector,
Redis keys and their expiry, the payment providers, the chain.

## 9. Running it

```
tlc -workers 2 -config pending_orders.cfg PendingOrders     # any run of section 4
tlapm PendingOrders_proofs.tla                              # any *_proofs module
```

Distinct states of the passing runs: `settle_casts` 624,000, `fee_engines` 100,000,
`copy_engine` 413,000, `book_transfers` 733,000, `funding_one` 213,000, `pending_orders` 496,000,
`clients` 225,000. The longest, `book_transfers`, takes about three minutes and a half on two
workers, the others three minutes or less.

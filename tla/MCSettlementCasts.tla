------------------------- MODULE MCSettlementCasts -------------------------
(* Casts for one run of PositionSettlement: which sessions take part in a   *)
(* behaviour, which quotes it sees, and whether closes may be partial.      *)
EXTENDS PositionSettlement

CONSTANTS
    Everyone,   \* a session of every kind; closes are full
    Lockers,    \* whoever writes trade_history rows holds a row lock, or heals
    Desk,       \* one trader and the SL/TP workers, with every quote
    FewPrices   \* the quotes and levels of the other two casts

ASSUME CastsAssumption ==
    /\ Everyone \union Lockers \union Desk = Sessions
    /\ (Lockers \union Desk) \intersect (CopyEngines \union Admins) = {}

VARIABLE cast

\* The market and the levels of a cast with few prices.
FewLevels ==
    /\ quote \in FewPrices
    /\ \A p \in Positions : {stopLoss[p], takeProfit[p]} \subseteq FewPrices \union {NoLevel}
    /\ \A s \in Sessions : edit[s].level \in FewPrices \union {NoLevel}

MCInit ==
    /\ Init
    /\ cast \in {Everyone, Lockers, Desk}
    /\ cast # Desk => FewLevels

MCNext ==
    /\ NextOf(cast)
    /\ cast = Everyone => \A t \in Traders : want'[t] \in {0, OpenLots}
    /\ cast # Desk => FewLevels'
    /\ UNCHANGED cast

\* The fairness of PositionSettlement, for the sessions of the cast.
MCFairness ==
    /\ \A t \in Traders : WF_vars(t \in cast /\ TraderProceeds(t))
    /\ \A w \in SltpWorkers : WF_vars(w \in cast /\ (TickLock(w) \/ TickClose(w)))
    /\ \A h \in Healers : WF_vars(h \in cast /\ (HealScan(h) \/ HealInsert(h)))

MCSpec == MCInit /\ [][MCNext]_<<vars, cast>> /\ MCFairness

-----------------------------------------------------------------------------
\* SettlementInv, and with it SettledOnce, is about the closers that lock and the healers.
LockersInv == cast # Everyone => SettlementInv

\* Every position closed in full gets its trade_history row, whoever closed it.  The healer
\* leaves a position alone that was first closed in part, so this is about one cast.
EveryoneHealed == cast = Everyone => HistoryHealed

\* The sessions of the gateway without its copy engine; and of traders one at most.
GatewayOnly == cast \subseteq Traders \union SltpWorkers \union Healers
OneTrader == \A t, u \in cast \intersect Traders : t = u

\* Requests and SL/TP workers alone never book the end of a position twice.
GatewayRealisesOnce == GatewayOnly => RealisedOnce

\* And with one trader no lot is lost or booked twice.
DeskConservesLots == GatewayOnly /\ OneTrader => LotsConserved

\* Then every step is one that SettlementPromise allows: each lot leaves its position once
\* and is booked when it leaves.
DeskKeepsPromise ==
    /\ GatewayOnly /\ OneTrader => Promise!Init
    /\ [][GatewayOnly /\ OneTrader => [Promise!Next]_Promise!vars]_<<vars, cast>>

\* The market cannot stay beyond a losing-side stop, or a target on the other side, and
\* leave the position open: whatever the workers' ticks skip, the next one finds it.
DeskHonoursLevels == GatewayOnly => LosingSideLevelHonoured
=============================================================================

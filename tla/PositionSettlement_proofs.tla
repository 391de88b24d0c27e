---------------------- MODULE PositionSettlement_proofs ----------------------
(***************************************************************************)
(* Theorems about PositionSettlement, for every number of positions and    *)
(* sessions, every position size and every set of prices, and about its    *)
(* behaviours with a cast.                                                 *)
(***************************************************************************)
EXTENDS MCSettlementCasts, TLAPS

-----------------------------------------------------------------------------
(* Type correctness. *)

LEMMA SessionKinds ==
    /\ Traders \subseteq Sessions
    /\ SltpWorkers \subseteq Sessions
    /\ RiskMonitors \subseteq Sessions
    /\ CopyEngines \subseteq Sessions
    /\ Admins \subseteq Sessions
    /\ Healers \subseteq Sessions
BY DEF Sessions

LEMMA InitType == Init => TypeOK
BY SizesAssumption DEF Init, TypeOK, Levels, NoLevel, NoEdit, Edits

\* Ending a transaction leaves the session variables well typed.
LEMMA FinishType ==
    ASSUME TypeOK, NEW s \in Sessions, Finish(s)
    PROVE  /\ pc' \in [Sessions -> {"idle", "closing", "locked", "modifying"}]
           /\ batch' \in [Sessions -> SUBSET Positions]
           /\ seen' \in [Sessions -> [Positions -> Nat]]
           /\ px' \in [Sessions -> Prices]
           /\ want' \in [Sessions -> Nat]
           /\ edit' \in [Sessions -> Edits]
           /\ requests' \in Nat
BY SizesAssumption DEF TypeOK, Finish, Goto, NoEdit, Edits, Levels, NoLevel

\* Booking the end of some positions leaves the tables well typed.
LEMMA SettleType ==
    ASSUME TypeOK, NEW S, NEW n \in [Positions -> Nat], Settle(S, n)
    PROVE  /\ status' \in [Positions -> {"open", "closed"}]
           /\ lots' \in [Positions -> Nat]
           /\ stopLoss' \in [Positions -> Levels]
           /\ takeProfit' \in [Positions -> Levels]
           /\ partRows' \in [Positions -> Nat]
           /\ closes' \in [Positions -> Nat]
           /\ bookedLots' \in [Positions -> Nat]
BY DEF TypeOK, Settle

LEMMA WriteHistoryType ==
    ASSUME TypeOK, NEW S, WriteHistory(S)
    PROVE  fullRows' \in [Positions -> Nat]
BY DEF TypeOK, WriteHistory

LEMMA LoadOpenType ==
    ASSUME TypeOK, NEW s \in Sessions, NEW S \in SUBSET Positions, LoadOpen(s, S)
    PROVE  /\ pc' \in [Sessions -> {"idle", "closing", "locked", "modifying"}]
           /\ batch' \in [Sessions -> SUBSET Positions]
           /\ seen' \in [Sessions -> [Positions -> Nat]]
BY DEF TypeOK, LoadOpen, Goto

LEMMA LockType ==
    ASSUME TypeOK, NEW s \in Sessions, NEW S
    PROVE  /\ Lock(s, S) => rowLock' \in [Positions -> Sessions \union {NoOne}]
           /\ Unlock(S) => rowLock' \in [Positions -> Sessions \union {NoOne}]
BY DEF TypeOK, Lock, Unlock

LEMMA TraderStartsType ==
    ASSUME TypeOK, NEW t \in Traders, TraderStarts(t)
    PROVE  TypeOK'
<1> t \in Sessions
  BY SessionKinds
<1>1. ASSUME NEW p \in Positions, NEW size \in CloseSizes, CloseLoad(t, p, size)
      PROVE  TypeOK'
  BY <1>1, LoadOpenType, SizesAssumption DEF CloseLoad, TypeOK, dbVars
<1>2. ASSUME NEW p \in Positions, NEW field \in {"sl", "tp"}, NEW level \in Levels,
             ModifyLoad(t, p, field, level)
      PROVE  TypeOK'
  BY <1>2 DEF ModifyLoad, TypeOK, dbVars, Goto, Edits
<1> QED
  BY <1>1, <1>2 DEF TraderStarts

LEMMA TraderProceedsType ==
    ASSUME TypeOK, NEW t \in Traders, TraderProceeds(t)
    PROVE  TypeOK'
<1> t \in Sessions
  BY SessionKinds
<1>1. ASSUME NEW p \in Positions, CloseLock(t, p)
      PROVE  TypeOK'
  BY <1>1, LockType DEF CloseLock, TypeOK, dbVars, Goto
<1>2. ASSUME NEW p \in Positions, CloseConflict(t, p)
      PROVE  TypeOK'
  BY <1>2, FinishType DEF CloseConflict, TypeOK, dbVars
<1>3. ASSUME NEW p \in Positions, CloseRefused(t, p)
      PROVE  TypeOK'
  BY <1>3, FinishType, LockType DEF CloseRefused, TypeOK, dbVars
<1>4. ASSUME NEW p \in Positions, ClosePartial(t, p)
      PROVE  TypeOK'
  <2>1. /\ lots' \in [Positions -> Nat]
        /\ partRows' \in [Positions -> Nat]
        /\ bookedLots' \in [Positions -> Nat]
    BY <1>4 DEF ClosePartial, TypeOK
  <2> QED
    BY <1>4, <2>1, FinishType, LockType DEF ClosePartial, TypeOK
<1>5. ASSUME NEW p \in Positions, CloseFull(t, p)
      PROVE  TypeOK'
  <2>1. seen[t] \in [Positions -> Nat]
    BY DEF TypeOK
  <2> QED
    BY <1>5, <2>1, FinishType, LockType, SettleType, WriteHistoryType DEF CloseFull, TypeOK
<1>6. ASSUME NEW p \in Positions, ModifyCommit(t, p)
      PROVE  TypeOK'
  <2>1. edit[t].level \in Levels
    BY DEF TypeOK, Edits
  <2> QED
    BY <1>6, <2>1, FinishType DEF ModifyCommit, TypeOK
<1> QED
  BY <1>1, <1>2, <1>3, <1>4, <1>5, <1>6 DEF TraderProceeds

LEMMA UnlockedCloseType ==
    ASSUME TypeOK, NEW s \in Sessions, CloseUnlocked(s)
    PROVE  TypeOK'
<1>1. seen[s] \in [Positions -> Nat]
  BY DEF TypeOK
<1> QED
  BY <1>1, FinishType, SettleType, WriteHistoryType DEF CloseUnlocked, TypeOK

LEMMA NextType == TypeOK /\ [Next]_vars => TypeOK'
<1> SUFFICES ASSUME TypeOK, [Next]_vars PROVE TypeOK'
  OBVIOUS
<1> USE SessionKinds
<1>1. ASSUME NEW q \in Prices, Tick(q) PROVE TypeOK'
  BY <1>1 DEF Tick, TypeOK, dbVars, sessionVars
<1>2. CASE FeedDies
  BY <1>2 DEF FeedDies, TypeOK, dbVars, sessionVars
<1>3. ASSUME NEW t \in Traders, TraderStarts(t) \/ TraderProceeds(t) PROVE TypeOK'
  BY <1>3, TraderStartsType, TraderProceedsType
<1>4. ASSUME NEW w \in SltpWorkers, TickLock(w) PROVE TypeOK'
  BY <1>4, LockType DEF TickLock, TypeOK, dbVars, Goto, Watched
<1>5. ASSUME NEW w \in SltpWorkers, TickClose(w) PROVE TypeOK'
  <2>1. lots \in [Positions -> Nat]
    BY DEF TypeOK
  <2> QED
    BY <1>5, <2>1, FinishType, LockType, SettleType, WriteHistoryType DEF TickClose, TypeOK
<1>6. ASSUME NEW r \in RiskMonitors, RiskLoad(r) PROVE TypeOK'
  BY <1>6, LoadOpenType DEF RiskLoad, TypeOK, dbVars
<1>7. ASSUME NEW r \in RiskMonitors, NEW S \in SUBSET Positions, StopOut(r, S) PROVE TypeOK'
  <2>1. seen[r] \in [Positions -> Nat]
    BY DEF TypeOK
  <2> QED
    BY <1>7, <2>1, FinishType, SettleType DEF StopOut, TypeOK
<1>8. ASSUME NEW c \in CopyEngines, NEW p \in Positions, CopyLoad(c, p) PROVE TypeOK'
  BY <1>8, LoadOpenType DEF CopyLoad, TypeOK, dbVars
<1>9. ASSUME NEW c \in CopyEngines, CopyClose(c) PROVE TypeOK'
  BY <1>9, UnlockedCloseType DEF CopyClose
<1>10. ASSUME NEW a \in Admins, NEW p \in Positions, AdminLoad(a, p) PROVE TypeOK'
  BY <1>10, LoadOpenType DEF AdminLoad, TypeOK, dbVars
<1>11. ASSUME NEW a \in Admins, AdminClose(a) PROVE TypeOK'
  BY <1>11, UnlockedCloseType DEF AdminClose
<1>12. ASSUME NEW h \in Healers, HealScan(h) PROVE TypeOK'
  BY <1>12 DEF HealScan, TypeOK, dbVars, Goto
<1>13. ASSUME NEW h \in Healers, HealInsert(h) PROVE TypeOK'
  BY <1>13, FinishType, WriteHistoryType DEF HealInsert, TypeOK
<1>14. CASE UNCHANGED vars
  BY <1>14 DEF vars, dbVars, sessionVars, TypeOK
<1> QED
  BY <1>1, <1>2, <1>3, <1>4, <1>5, <1>6, <1>7, <1>8, <1>9, <1>10, <1>11, <1>12, <1>13, <1>14
  DEF Next, NextOf

\* Every variable keeps its type, whatever the sets of sessions are.
THEOREM TypeCorrect == Spec => []TypeOK
BY InitType, NextType, PTL DEF Spec

-----------------------------------------------------------------------------
(***************************************************************************)
(* The row lock. A session past its lock holds rows that are still open,   *)
(* as long as every closer but the stop-out takes the lock: the stop-out   *)
(* waits for the row too, because its UPDATE needs it.                     *)
(***************************************************************************)

ClosersLock == CopyEngines = {} /\ Admins = {}

\* What a single step needs of that: the two closers without a lock do nothing.
UnlockedStand == \A s \in CopyEngines \union Admins : pc[s] = "idle" /\ pc'[s] = "idle"

LEMMA ClosersLockStand ==
    ASSUME ClosersLock
    PROVE  UnlockedStand
BY DEF ClosersLock, UnlockedStand

LEMMA UnlockedDoNothing ==
    ASSUME TypeOK, UnlockedStand
    PROVE  /\ \A c \in CopyEngines, p \in Positions : ~CopyLoad(c, p)
           /\ \A c \in CopyEngines : ~CopyClose(c)
           /\ \A a \in Admins, p \in Positions : ~AdminLoad(a, p)
           /\ \A a \in Admins : ~AdminClose(a)
<1>1. ASSUME NEW s \in CopyEngines \union Admins, NEW p \in Positions PROVE ~LoadOpen(s, {p})
  BY SessionKinds DEF TypeOK, UnlockedStand, LoadOpen, Goto
<1>2. ASSUME NEW s \in CopyEngines \union Admins PROVE ~CloseUnlocked(s)
  BY DEF UnlockedStand, CloseUnlocked
<1> QED
  BY <1>1, <1>2 DEF CopyLoad, CopyClose, AdminLoad, AdminClose

\* A session that ends its transaction touched only rows it held or that were
\* free, so the rows the others hold stay theirs and open.
LEMMA EndKeepsLocks ==
    ASSUME TypeOK, LockedRowsOpen, NEW s \in Sessions, Finish(s),
           NEW S \in SUBSET Positions,
           \A p \in S : rowLock[p] \in {s, NoOne},
           \A p \in Positions \ S : rowLock'[p] = rowLock[p] /\ status'[p] = status[p]
    PROVE  LockedRowsOpen'
<1> SUFFICES ASSUME NEW o \in Traders \union SltpWorkers, pc'[o] = "locked",
                    NEW p \in batch'[o]
             PROVE  rowLock'[p] = o /\ status'[p] = "open"
  BY DEF LockedRowsOpen, Open
<1>1. o \in Sessions /\ o # s
  BY SessionKinds DEF TypeOK, Finish, Goto
<1>2. pc[o] = "locked" /\ p \in batch[o] /\ p \in Positions
  BY <1>1 DEF TypeOK, Finish, Goto
<1>3. rowLock[p] = o /\ status[p] = "open"
  BY <1>2 DEF LockedRowsOpen, Open
<1>4. p \notin S
  BY <1>1, <1>3, SessionsAssumption
<1> QED
  BY <1>2, <1>3, <1>4

LEMMA IdleEndKeepsLocks ==
    ASSUME TypeOK, LockedRowsOpen, NEW s \in Sessions, Finish(s),
           UNCHANGED <<rowLock, status>>
    PROVE  LockedRowsOpen'
<1> DEFINE S == {}
<1>1. /\ S \in SUBSET Positions
      /\ \A p \in S : rowLock[p] \in {s, NoOne}
      /\ \A p \in Positions \ S : rowLock'[p] = rowLock[p] /\ status'[p] = status[p]
  OBVIOUS
<1> HIDE DEF S
<1> QED
  BY <1>1, EndKeepsLocks

\* A session that loads rows takes no lock and leaves the others' alone.
LEMMA LoadKeepsLocks ==
    ASSUME TypeOK, LockedRowsOpen, NEW s \in Sessions,
           UNCHANGED <<rowLock, status>>,
           NEW place \in {"closing", "modifying"}, NEW S, Goto(s, place),
           batch' = [batch EXCEPT ![s] = S]
    PROVE  LockedRowsOpen'
BY SessionKinds DEF LockedRowsOpen, Open, TypeOK, Goto

LEMMA NextKeepsLocks ==
    ASSUME UnlockedStand, TypeOK, LockedRowsOpen, [Next]_vars
    PROVE  LockedRowsOpen'
<1> USE SessionKinds
<1>1. ASSUME NEW q \in Prices, Tick(q) PROVE LockedRowsOpen'
  BY <1>1 DEF Tick, dbVars, sessionVars, LockedRowsOpen, Open
<1>2. CASE FeedDies
  BY <1>2 DEF FeedDies, dbVars, sessionVars, LockedRowsOpen, Open
<1>3. ASSUME NEW t \in Traders, TraderStarts(t) PROVE LockedRowsOpen'
  BY <1>3, LoadKeepsLocks DEF TraderStarts, CloseLoad, LoadOpen, ModifyLoad, dbVars
<1>4. ASSUME NEW t \in Traders, NEW p \in Positions, CloseLock(t, p) PROVE LockedRowsOpen'
  <2> SUFFICES ASSUME NEW o \in Traders \union SltpWorkers, pc'[o] = "locked",
                      NEW q \in batch'[o]
               PROVE  rowLock'[q] = o /\ status'[q] = "open"
    BY DEF LockedRowsOpen, Open
  <2>1. CASE o = t
    BY <1>4, <2>1 DEF CloseLock, Lock, Open, dbVars, TypeOK
  <2>2. CASE o # t
    <3>1. pc[o] = "locked" /\ q \in batch[o] /\ q \in Positions
      BY <1>4, <2>2 DEF CloseLock, Goto, TypeOK
    <3>2. rowLock[q] = o /\ Open(q)
      BY <3>1 DEF LockedRowsOpen
    <3>3. q # p
      BY <1>4, <3>2, SessionsAssumption DEF CloseLock, Free
    <3> QED
      BY <1>4, <3>1, <3>2, <3>3 DEF CloseLock, Lock, Open, dbVars
  <2> QED
    BY <2>1, <2>2
<1>5. ASSUME NEW t \in Traders, NEW p \in Positions,
             CloseRefused(t, p) \/ ClosePartial(t, p) \/ CloseFull(t, p)
      PROVE  LockedRowsOpen'
  <2>1. Finish(t) /\ Unlock({p}) /\ rowLock[p] = t
    BY <1>5 DEF CloseRefused, ClosePartial, CloseFull, LockedRowsOpen
  <2>2. \A q \in Positions \ {p} : rowLock'[q] = rowLock[q] /\ status'[q] = status[q]
    BY <1>5, <2>1 DEF CloseRefused, ClosePartial, CloseFull, Settle, Unlock, dbVars
  <2> QED
    BY <2>1, <2>2, EndKeepsLocks
<1>6. ASSUME NEW t \in Traders, NEW p \in Positions,
             CloseConflict(t, p) \/ ModifyCommit(t, p)
      PROVE  LockedRowsOpen'
  <2>1. Finish(t) /\ UNCHANGED <<rowLock, status>>
    BY <1>6 DEF CloseConflict, ModifyCommit, dbVars
  <2> QED
    BY <2>1, IdleEndKeepsLocks
<1>7. ASSUME NEW w \in SltpWorkers, TickLock(w) PROVE LockedRowsOpen'
  <2> SUFFICES ASSUME NEW o \in Traders \union SltpWorkers, pc'[o] = "locked",
                      NEW q \in batch'[o]
               PROVE  rowLock'[q] = o /\ status'[q] = "open"
    BY DEF LockedRowsOpen, Open
  <2>1. CASE o = w
    BY <1>7, <2>1 DEF TickLock, Lock, Watched, Open, dbVars, TypeOK
  <2>2. CASE o # w
    <3>1. pc[o] = "locked" /\ q \in batch[o] /\ q \in Positions
      BY <1>7, <2>2 DEF TickLock, Goto, TypeOK
    <3>2. rowLock[q] = o /\ Open(q)
      BY <3>1 DEF LockedRowsOpen
    <3>3. q \notin Watched
      BY <3>2, SessionsAssumption DEF Watched
    <3> QED
      BY <1>7, <3>1, <3>2, <3>3 DEF TickLock, Lock, Open, dbVars
  <2> QED
    BY <2>1, <2>2
<1>8. ASSUME NEW w \in SltpWorkers, TickClose(w) PROVE LockedRowsOpen'
  <2>1. /\ Finish(w)
        /\ Unlock(batch[w])
        /\ batch[w] \subseteq Positions
        /\ \A p \in batch[w] : rowLock[p] = w
    BY <1>8 DEF TickClose, LockedRowsOpen, TypeOK
  <2>2. \A q \in Positions \ batch[w] : rowLock'[q] = rowLock[q] /\ status'[q] = status[q]
    BY <1>8, <2>1 DEF TickClose, Settle, Unlock
  <2> QED
    BY <2>1, <2>2, EndKeepsLocks
<1>9. ASSUME NEW r \in RiskMonitors, RiskLoad(r) PROVE LockedRowsOpen'
  BY <1>9, LoadKeepsLocks DEF RiskLoad, LoadOpen, dbVars
<1>10. ASSUME NEW r \in RiskMonitors, NEW S \in SUBSET Positions, StopOut(r, S)
       PROVE  LockedRowsOpen'
  BY <1>10, EndKeepsLocks DEF StopOut, Settle, Free
<1>11. ASSUME NEW h \in Healers, HealScan(h) PROVE LockedRowsOpen'
  BY <1>11, LoadKeepsLocks DEF HealScan, dbVars
<1>12. ASSUME NEW h \in Healers, HealInsert(h) PROVE LockedRowsOpen'
  <2>1. Finish(h) /\ UNCHANGED <<rowLock, status>>
    BY <1>12 DEF HealInsert
  <2> QED
    BY <2>1, IdleEndKeepsLocks
<1>13. CASE UNCHANGED vars
  BY <1>13 DEF vars, dbVars, sessionVars, LockedRowsOpen, Open
<1> QED
  BY <1>1, <1>2, <1>3, <1>4, <1>5, <1>6, <1>7, <1>8, <1>9, <1>10, <1>11, <1>12, <1>13,
     UnlockedDoNothing
  DEF Next, NextOf, TraderProceeds

-----------------------------------------------------------------------------
(***************************************************************************)
(* Settled once. Among the closers that take the row lock, the stop-out,   *)
(* which writes no history row, and at most one healer, a position ends at *)
(* most once in the trader's history.                                      *)
(***************************************************************************)

OneHealer == \A h, i \in Healers : h = i

HistoryInv == OpenHasNoEnd /\ HealingMissing /\ SettledOnce

\* Ending open positions with one history row each.
LEMMA EndWritesOnce ==
    ASSUME TypeOK, HistoryInv, NEW s \in Sessions \ Healers, Finish(s),
           NEW S \in SUBSET Positions, \A p \in S : Open(p),
           NEW n, Settle(S, n), WriteHistory(S)
    PROVE  HistoryInv'
<1>1. OpenHasNoEnd' /\ SettledOnce'
  BY DEF HistoryInv, OpenHasNoEnd, SettledOnce, Open, Settle, WriteHistory, TypeOK
<1>2. HealingMissing'
  <2> SUFFICES ASSUME NEW h \in Healers, pc'[h] = "closing", NEW p \in batch'[h]
               PROVE  status'[p] # "open" /\ fullRows'[p] = 0
    BY DEF HealingMissing, Open
  <2>1. pc[h] = "closing" /\ p \in batch[h] /\ p \in Positions
    BY SessionKinds DEF Finish, Goto, TypeOK
  <2>2. ~Open(p) /\ fullRows[p] = 0
    BY <2>1 DEF HistoryInv, HealingMissing
  <2> QED
    BY <2>1, <2>2 DEF Settle, WriteHistory, Open
<1> QED
  BY <1>1, <1>2 DEF HistoryInv

\* A step that leaves the history, the status and the healers alone.
LEMMA OtherSessionKeepsHistory ==
    ASSUME TypeOK, HistoryInv, UNCHANGED fullRows,
           \A p \in Positions : status'[p] = "open" => status[p] = "open",
           \A h \in Healers : pc'[h] = pc[h] /\ batch'[h] = batch[h]
    PROVE  HistoryInv'
<1>1. \A h \in Healers : batch[h] \subseteq Positions
  BY SessionKinds DEF TypeOK
<1> QED
  BY <1>1 DEF HistoryInv, OpenHasNoEnd, HealingMissing, SettledOnce, Open

LEMMA NextHistory ==
    ASSUME UnlockedStand, OneHealer, TypeOK, LockedRowsOpen, HistoryInv, [Next]_vars
    PROVE  HistoryInv'
<1> USE SessionKinds
<1> DEFINE HealersStand == \A h \in Healers : pc'[h] = pc[h] /\ batch'[h] = batch[h]
<1>1. ASSUME NEW q \in Prices, Tick(q) PROVE HistoryInv'
  BY <1>1, OtherSessionKeepsHistory DEF Tick, dbVars, sessionVars
<1>2. CASE FeedDies
  BY <1>2, OtherSessionKeepsHistory DEF FeedDies, dbVars, sessionVars
<1>3. ASSUME NEW t \in Traders, TraderStarts(t) PROVE HistoryInv'
  <2>1. HealersStand
    BY <1>3, SessionsAssumption
    DEF TraderStarts, CloseLoad, LoadOpen, ModifyLoad, Goto, TypeOK, Sessions
  <2> QED
    BY <1>3, <2>1, OtherSessionKeepsHistory DEF TraderStarts, CloseLoad, ModifyLoad, dbVars
<1>4. ASSUME NEW t \in Traders, NEW p \in Positions,
             \/ CloseLock(t, p) \/ CloseConflict(t, p) \/ CloseRefused(t, p)
             \/ ClosePartial(t, p) \/ ModifyCommit(t, p)
      PROVE  HistoryInv'
  <2>1. HealersStand
    BY <1>4, SessionsAssumption
    DEF CloseLock, CloseConflict, CloseRefused, ClosePartial, ModifyCommit, Finish, Goto,
        TypeOK, Sessions
  <2>2. UNCHANGED <<status, fullRows>>
    BY <1>4 DEF CloseLock, CloseConflict, CloseRefused, ClosePartial, ModifyCommit, dbVars
  <2> QED
    BY <2>1, <2>2, OtherSessionKeepsHistory
<1>5. ASSUME NEW t \in Traders, NEW p \in Positions, CloseFull(t, p) PROVE HistoryInv'
  <2>1. /\ Finish(t) /\ pc[t] # "idle" /\ Settle({p}, seen[t]) /\ WriteHistory({p})
        /\ Open(p)
    BY <1>5 DEF CloseFull, LockedRowsOpen
  <2>2. t \in Sessions \ Healers
    BY SessionsAssumption DEF Sessions
  <2> QED
    BY <2>1, <2>2, EndWritesOnce
<1>6. ASSUME NEW w \in SltpWorkers, TickLock(w) PROVE HistoryInv'
  <2>1. HealersStand
    BY <1>6, SessionsAssumption DEF TickLock, Goto, TypeOK, Sessions
  <2> QED
    BY <1>6, <2>1, OtherSessionKeepsHistory DEF TickLock, dbVars
<1>7. ASSUME NEW w \in SltpWorkers, TickClose(w) PROVE HistoryInv'
  <2> DEFINE hit == {p \in batch[w] : feed = "live" /\ Triggered(p, px[w]) /\ Open(p)}
  <2>1. Finish(w) /\ Settle(hit, lots) /\ WriteHistory(hit)
    BY <1>7 DEF TickClose
  <2>2. hit \in SUBSET Positions /\ \A p \in hit : Open(p)
    BY DEF TypeOK
  <2>3. w \in Sessions \ Healers
    BY SessionsAssumption DEF Sessions
  <2> HIDE DEF hit
  <2> QED
    BY <2>1, <2>2, <2>3, EndWritesOnce
<1>8. ASSUME NEW r \in RiskMonitors, RiskLoad(r) PROVE HistoryInv'
  <2>1. HealersStand
    BY <1>8, SessionsAssumption DEF RiskLoad, LoadOpen, Goto, TypeOK, Sessions
  <2> QED
    BY <1>8, <2>1, OtherSessionKeepsHistory DEF RiskLoad, dbVars
<1>9. ASSUME NEW r \in RiskMonitors, NEW S \in SUBSET Positions, StopOut(r, S)
      PROVE  HistoryInv'
  <2>1. HealersStand
    BY <1>9, SessionsAssumption DEF StopOut, Finish, Goto, TypeOK, Sessions
  <2> QED
    BY <1>9, <2>1, OtherSessionKeepsHistory DEF StopOut, Settle
<1>10. ASSUME NEW h \in Healers, HealScan(h) PROVE HistoryInv'
  <2>1. \A i \in Healers : i = h
    BY DEF OneHealer
  <2>2. \A p \in batch'[h] : p \in Positions /\ ~Open(p) /\ fullRows[p] = 0
    BY <1>10 DEF HealScan, TypeOK
  <2> QED
    BY <1>10, <2>1, <2>2
    DEF HealScan, HistoryInv, OpenHasNoEnd, HealingMissing, SettledOnce, Open, dbVars
<1>11. ASSUME NEW h \in Healers, HealInsert(h) PROVE HistoryInv'
  <2>1. \A i \in Healers : pc'[i] = "idle"
    BY <1>11 DEF OneHealer, HealInsert, Finish, Goto, TypeOK
  <2>2. \A p \in batch[h] : ~Open(p) /\ fullRows[p] = 0
    BY <1>11 DEF HealInsert, HistoryInv, HealingMissing
  <2> QED
    BY <1>11, <2>1, <2>2
    DEF HealInsert, WriteHistory, HistoryInv, OpenHasNoEnd, HealingMissing, SettledOnce, Open,
        TypeOK
<1>12. CASE UNCHANGED vars
  BY <1>12, OtherSessionKeepsHistory DEF vars, dbVars, sessionVars
<1> QED
  BY <1>1, <1>2, <1>3, <1>4, <1>5, <1>6, <1>7, <1>8, <1>9, <1>10, <1>11, <1>12,
     UnlockedDoNothing
  DEF Next, NextOf, TraderProceeds

LEMMA InitSettlement == Init => SettlementInv
BY InitType, SessionKinds
DEF Init, SettlementInv, LockedRowsOpen, OpenHasNoEnd, HealingMissing, SettledOnce, Open

LEMMA NextSettlement ==
    ASSUME UnlockedStand, OneHealer, SettlementInv, [Next]_vars
    PROVE  SettlementInv'
BY NextType, NextKeepsLocks, NextHistory DEF SettlementInv, HistoryInv

\* However many traders, SL/TP workers and risk monitors run, a position ends at
\* most once in trade_history, as long as every closer that writes a row takes the
\* row lock first and one healer at most runs.
THEOREM SettledOnceHolds ==
    ASSUME ClosersLock, OneHealer
    PROVE  Spec => []SettledOnce
<1>1. SettlementInv /\ [Next]_vars => SettlementInv'
  BY NextSettlement, ClosersLockStand
<1>2. SettlementInv => SettledOnce
  BY DEF SettlementInv
<1> QED
  BY InitSettlement, <1>1, <1>2, PTL DEF Spec

-----------------------------------------------------------------------------
(***************************************************************************)
(* Realised once. A stop-out does not read the row again, so this needs    *)
(* the risk engine out of the way as well.                                 *)
(***************************************************************************)

\* The step premise: neither those closers nor the risk engine does anything.
Gateway ==
    /\ UnlockedStand
    /\ \A r \in RiskMonitors : pc[r] = "idle" /\ pc'[r] = "idle"

LEMMA RisksDoNothing ==
    ASSUME TypeOK, Gateway
    PROVE  \A r \in RiskMonitors : ~RiskLoad(r) /\ \A S \in SUBSET Positions : ~StopOut(r, S)
BY SessionKinds DEF TypeOK, Gateway, RiskLoad, LoadOpen, Goto, StopOut

LEMMA EndRealisesOnce ==
    ASSUME TypeOK, OpenNotRealised, RealisedOnce,
           NEW S \in SUBSET Positions, \A p \in S : Open(p), NEW n, Settle(S, n)
    PROVE  OpenNotRealised' /\ RealisedOnce'
BY DEF OpenNotRealised, RealisedOnce, Open, Settle, TypeOK

LEMMA NextRealised ==
    ASSUME Gateway, TypeOK, LockedRowsOpen, OpenNotRealised, RealisedOnce, [Next]_vars
    PROVE  OpenNotRealised' /\ RealisedOnce'
<1> DEFINE Unsettled == UNCHANGED <<status, closes>>
<1>1. ASSUME Unsettled PROVE OpenNotRealised' /\ RealisedOnce'
  BY <1>1 DEF OpenNotRealised, RealisedOnce, Open
<1>2. ASSUME NEW q \in Prices, Tick(q) PROVE Unsettled
  BY <1>2 DEF Tick, dbVars
<1>3. ASSUME FeedDies PROVE Unsettled
  BY <1>3 DEF FeedDies, dbVars
<1>4. ASSUME NEW t \in Traders, TraderStarts(t) PROVE Unsettled
  BY <1>4 DEF TraderStarts, CloseLoad, ModifyLoad, dbVars
<1>5. ASSUME NEW t \in Traders, NEW p \in Positions,
             \/ CloseLock(t, p) \/ CloseConflict(t, p) \/ CloseRefused(t, p)
             \/ ClosePartial(t, p) \/ ModifyCommit(t, p)
      PROVE  Unsettled
  BY <1>5 DEF CloseLock, CloseConflict, CloseRefused, ClosePartial, ModifyCommit, dbVars
<1>6. ASSUME NEW t \in Traders, NEW p \in Positions, CloseFull(t, p)
      PROVE  OpenNotRealised' /\ RealisedOnce'
  <2>1. Settle({p}, seen[t]) /\ Open(p)
    BY <1>6 DEF CloseFull, LockedRowsOpen
  <2> QED
    BY <2>1, EndRealisesOnce
<1>7. ASSUME NEW w \in SltpWorkers, TickLock(w) PROVE Unsettled
  BY <1>7 DEF TickLock, dbVars
<1>8. ASSUME NEW w \in SltpWorkers, TickClose(w) PROVE OpenNotRealised' /\ RealisedOnce'
  <2> DEFINE hit == {p \in batch[w] : feed = "live" /\ Triggered(p, px[w]) /\ Open(p)}
  <2>1. Settle(hit, lots)
    BY <1>8 DEF TickClose
  <2>2. hit \in SUBSET Positions /\ \A p \in hit : Open(p)
    BY SessionKinds DEF TypeOK
  <2> HIDE DEF hit
  <2> QED
    BY <2>1, <2>2, EndRealisesOnce
<1>9. ASSUME NEW h \in Healers, HealScan(h) \/ HealInsert(h) PROVE Unsettled
  BY <1>9 DEF HealScan, HealInsert, dbVars
<1>10. ASSUME UNCHANGED vars PROVE Unsettled
  BY <1>10 DEF vars, dbVars
<1> HIDE DEF Unsettled
<1> QED
  BY <1>1, <1>2, <1>3, <1>4, <1>5, <1>6, <1>7, <1>8, <1>9, <1>10,
     RisksDoNothing, UnlockedDoNothing
  DEF Next, NextOf, TraderProceeds, Gateway

LEMMA InitRealised == Init => RealisedInv
BY InitType, SessionKinds
DEF Init, RealisedInv, LockedRowsOpen, OpenNotRealised, RealisedOnce, Open

-----------------------------------------------------------------------------
(***************************************************************************)
(* The promise. With one close request at a time, the size a request has   *)
(* loaded stays the size of the position: only partial closes change it.   *)
(* And a close of the gateway writes the history row itself, so that its   *)
(* healers have nothing to do.                                             *)
(***************************************************************************)

\* The step premise: one request at most is under way, before or after.
OneRequest ==
    \A t, u \in Traders :
        /\ pc[t] # "idle" \/ pc'[t] # "idle"
        /\ pc[u] # "idle" \/ pc'[u] # "idle"
        => t = u

\* A close request under way knows the size of its position, and asks for some of it.
SizesKnown ==
    \A t \in Traders : pc[t] \in {"closing", "locked"} =>
        want[t] >= 1 /\ \A p \in batch[t] : seen[t][p] = lots[p]

\* A position is open and has lots, or has ended with its history row; no healer works.
EndsRecorded ==
    /\ \A p \in Positions : IF Open(p) THEN lots[p] \in 1..OpenLots ELSE fullRows[p] >= 1
    /\ \A h \in Healers : pc[h] = "idle"

PromiseInv == TypeOK /\ LockedRowsOpen /\ SizesKnown /\ EndsRecorded /\ LotsConserved

Remaining == [p \in Positions |-> IF Open(p) THEN lots[p] ELSE 0]

\* A step of the promise.
Kept == Promise!Next \/ UNCHANGED <<Remaining, bookedLots, fullRows>>

LEMMA InitPromise == Init => PromiseInv /\ Promise!Init
<1> SUFFICES ASSUME Init PROVE PromiseInv /\ Promise!Init
  OBVIOUS
<1>1. TypeOK
  BY InitType
<1>2. LockedRowsOpen /\ SizesKnown /\ EndsRecorded
  BY SessionKinds, SizesAssumption DEF Init, LockedRowsOpen, SizesKnown, EndsRecorded, Open
<1>3. LotsConserved
  <2>1. ASSUME NEW p \in Positions
        PROVE  bookedLots[p] + (IF Open(p) THEN lots[p] ELSE 0) = OpenLots
    <3>1. Open(p) /\ lots[p] = OpenLots /\ bookedLots[p] = 0
      BY DEF Init, Open
    <3>2. OpenLots \in Nat
      BY SizesAssumption
    <3> QED
      BY <3>1, <3>2
  <2> QED
    BY <2>1, Zenon DEF LotsConserved
<1>4. Promise!Init
  <2>1. [p \in Positions |-> IF Open(p) THEN lots[p] ELSE 0] = [p \in Positions |-> OpenLots]
    BY DEF Init, Open
  <2> QED
    BY <2>1 DEF Init, Promise!Init
<1> QED
  BY <1>1, <1>2, <1>3, <1>4 DEF PromiseInv

\* A session that is not a trader's leaves what the close requests know.
LEMMA SizesStand ==
    ASSUME TypeOK, SizesKnown, UNCHANGED lots,
           \A t \in Traders : pc'[t] \in {"closing", "locked"} =>
              /\ pc[t] \in {"closing", "locked"}
              /\ batch'[t] = batch[t] /\ seen'[t] = seen[t] /\ want'[t] = want[t]
    PROVE  SizesKnown'
BY DEF SizesKnown

LEMMA RowsStand ==
    ASSUME EndsRecorded, LotsConserved, UNCHANGED <<status, lots, fullRows, bookedLots>>,
           \A h \in Healers : pc'[h] = "idle"
    PROVE  EndsRecorded' /\ LotsConserved' /\ Kept
<1>1. EndsRecorded' /\ LotsConserved'
  BY DEF EndsRecorded, LotsConserved, Open
<1>2. Kept
  BY DEF Kept, Remaining, Open
<1> QED
  BY <1>1, <1>2

\* All that remains of open positions is booked, and their history rows are written.
LEMMA EndsKept ==
    ASSUME TypeOK, EndsRecorded, LotsConserved, \A h \in Healers : pc'[h] = "idle",
           NEW S \in SUBSET Positions, \A p \in S : Open(p),
           NEW n, \A p \in S : n[p] = lots[p], Settle(S, n), WriteHistory(S)
    PROVE  EndsRecorded' /\ LotsConserved' /\ Kept
<1>1. \A p \in Positions : lots[p] \in Nat /\ fullRows[p] \in Nat /\ bookedLots[p] \in Nat
  BY DEF TypeOK
<1>2. EndsRecorded'
  BY <1>1 DEF EndsRecorded, Open, Settle, WriteHistory
<1>3. LotsConserved'
  BY <1>1 DEF LotsConserved, Open, Settle
<1>4. Promise!End(S)
  <2>1. \A p \in S : Remaining[p] > 0
    BY DEF EndsRecorded, Remaining
  <2>2. Remaining' = [p \in Positions |-> IF p \in S THEN 0 ELSE Remaining[p]]
    BY DEF Remaining, Settle, Open
  <2>3. bookedLots' = [p \in Positions |-> IF p \in S THEN bookedLots[p] + Remaining[p]
                                                      ELSE bookedLots[p]]
    BY DEF Remaining, Settle, Open
  <2>4. fullRows' = [p \in Positions |-> IF p \in S THEN fullRows[p] + 1 ELSE fullRows[p]]
    BY DEF WriteHistory
  <2> QED
    BY <2>1, <2>2, <2>3, <2>4 DEF Promise!End, Remaining
<1> QED
  BY <1>2, <1>3, <1>4 DEF Kept, Promise!Next

\* A partial close deducts what it books.
LEMMA PartsKept ==
    ASSUME OneRequest, PromiseInv, NEW t \in Traders, NEW p \in Positions, ClosePartial(t, p),
           \A h \in Healers : pc'[h] = "idle"
    PROVE  SizesKnown' /\ EndsRecorded' /\ LotsConserved' /\ Kept
<1> USE DEF PromiseInv
<1>1. Open(p) /\ seen[t][p] = lots[p] /\ want[t] \in Nat \ {0} /\ want[t] < lots[p]
  BY SessionKinds DEF ClosePartial, LockedRowsOpen, SizesKnown, TypeOK
<1>2. /\ lots' = [lots EXCEPT ![p] = lots[p] - want[t]]
      /\ bookedLots' = [bookedLots EXCEPT ![p] = @ + want[t]]
      /\ UNCHANGED <<status, fullRows>>
  BY <1>1 DEF ClosePartial
<1>3. /\ lots \in [Positions -> Nat] /\ bookedLots \in [Positions -> Nat]
      /\ lots[p] \in 1..OpenLots /\ OpenLots \in Nat
  BY <1>1, SizesAssumption DEF TypeOK, EndsRecorded
<1>4. SizesKnown'
  <2>1. \A u \in Traders : pc'[u] = "idle"
    BY SessionKinds DEF OneRequest, ClosePartial, Finish, Goto, TypeOK
  <2> QED
    BY <2>1 DEF SizesKnown
<1>5. EndsRecorded'
  BY <1>1, <1>2, <1>3 DEF EndsRecorded, Open
<1>6. LotsConserved'
  <2> SUFFICES ASSUME NEW q \in Positions
               PROVE  bookedLots'[q] + (IF Open(q)' THEN lots'[q] ELSE 0) = OpenLots
    BY DEF LotsConserved
  <2>1. CASE q = p
    BY <1>1, <1>2, <1>3, <2>1 DEF LotsConserved, Open
  <2>2. CASE q # p
    BY <1>2, <1>3, <2>2 DEF LotsConserved, Open
  <2> QED
    BY <2>1, <2>2
<1>7. PICK n \in 1..OpenLots : n = want[t]
  BY <1>1, <1>3
<1>8. Promise!Reduce(p, n)
  <2>1. n \in 1..(Remaining[p] - 1)
    BY <1>1, <1>3, <1>7 DEF Remaining
  <2>2. Remaining' = [Remaining EXCEPT ![p] = @ - n]
    BY <1>1, <1>2, <1>3, <1>7 DEF Remaining, Open
  <2> QED
    BY <1>2, <1>7, <2>1, <2>2 DEF Promise!Reduce, Remaining
<1>9. Kept
  BY <1>8 DEF Kept, Promise!Next
<1> QED
  BY <1>4, <1>5, <1>6, <1>9

LEMMA TradersKeep ==
    ASSUME Gateway, OneRequest, PromiseInv, NEW t \in Traders, TraderStarts(t) \/ TraderProceeds(t)
    PROVE  SizesKnown' /\ EndsRecorded' /\ LotsConserved' /\ Kept
<1> USE SessionKinds DEF PromiseInv
<1>0. \A h \in Healers : pc'[h] = "idle"
  <2>1. \E place : Goto(t, place)
    BY DEF TraderStarts, TraderProceeds, CloseLoad, LoadOpen, ModifyLoad, CloseLock, CloseConflict,
           CloseRefused, ClosePartial, CloseFull, ModifyCommit, Finish
  <2> QED
    BY <2>1, SessionsAssumption DEF Goto, EndsRecorded, TypeOK
<1>1. ASSUME NEW p \in Positions, NEW size \in CloseSizes, CloseLoad(t, p, size)
      PROVE  SizesKnown' /\ EndsRecorded' /\ LotsConserved' /\ Kept
  <2>1. SizesKnown'
    <3>1. want'[t] >= 1 /\ batch'[t] = {p} /\ seen'[t][p] = lots[p] /\ lots' = lots
      BY <1>1, SizesAssumption DEF CloseLoad, LoadOpen, TypeOK, dbVars
    <3>2. pc'[t] = "closing"
      BY <1>1 DEF CloseLoad, LoadOpen, Goto, TypeOK
    <3>3. \A u \in Traders : u # t => pc'[u] = "idle"
      BY <3>2 DEF OneRequest
    <3> QED
      BY <3>1, <3>3 DEF SizesKnown
  <2> QED
    BY <1>0, <1>1, <2>1, RowsStand DEF CloseLoad, dbVars
<1>2. ASSUME NEW p \in Positions, NEW field \in {"sl", "tp"}, NEW level \in Levels,
             ModifyLoad(t, p, field, level)
      PROVE  SizesKnown' /\ EndsRecorded' /\ LotsConserved' /\ Kept
  <2>1. SizesKnown'
    <3>1. pc'[t] = "modifying"
      BY <1>2 DEF ModifyLoad, Goto, TypeOK
    <3>2. \A u \in Traders : u # t => pc'[u] = "idle"
      BY <3>1 DEF OneRequest
    <3> QED
      BY <3>1, <3>2 DEF SizesKnown
  <2> QED
    BY <1>0, <1>2, <2>1, RowsStand DEF ModifyLoad, dbVars
<1>3. ASSUME NEW p \in Positions, CloseLock(t, p)
      PROVE  SizesKnown' /\ EndsRecorded' /\ LotsConserved' /\ Kept
  <2>1. SizesKnown'
    <3>1. \A u \in Traders : u # t => pc'[u] = "idle"
      BY <1>3 DEF CloseLock, OneRequest
    <3>2. /\ pc[t] \in {"closing", "locked"} /\ UNCHANGED <<batch, seen, want, lots>>
      BY <1>3 DEF CloseLock, dbVars
    <3> QED
      BY <3>1, <3>2, SizesStand
  <2> QED
    BY <1>0, <1>3, <2>1, RowsStand DEF CloseLock, dbVars
<1>4. ASSUME Finish(t), pc[t] # "idle" PROVE \A u \in Traders : pc'[u] = "idle"
  <2>1. \A u \in Traders : u # t => pc'[u] = "idle"
    BY <1>4 DEF OneRequest
  <2> QED
    BY <1>4, <2>1 DEF Finish, Goto, TypeOK
<1>5. ASSUME NEW p \in Positions, CloseConflict(t, p) \/ CloseRefused(t, p) \/ ModifyCommit(t, p)
      PROVE  SizesKnown' /\ EndsRecorded' /\ LotsConserved' /\ Kept
  <2>1. Finish(t) /\ pc[t] # "idle" /\ UNCHANGED <<status, lots, fullRows, bookedLots>>
    BY <1>5 DEF CloseConflict, CloseRefused, ModifyCommit, dbVars
  <2>2. SizesKnown'
    BY <1>4, <2>1 DEF SizesKnown
  <2> QED
    BY <1>0, <2>1, <2>2, RowsStand
<1>6. ASSUME NEW p \in Positions, ClosePartial(t, p)
      PROVE  SizesKnown' /\ EndsRecorded' /\ LotsConserved' /\ Kept
  BY <1>0, <1>6, PartsKept
<1>7. ASSUME NEW p \in Positions, CloseFull(t, p)
      PROVE  SizesKnown' /\ EndsRecorded' /\ LotsConserved' /\ Kept
  <2>1. /\ Finish(t) /\ pc[t] # "idle" /\ Settle({p}, seen[t]) /\ WriteHistory({p})
        /\ Open(p) /\ seen[t][p] = lots[p]
    BY <1>7 DEF CloseFull, LockedRowsOpen, SizesKnown
  <2>2. SizesKnown'
    BY <1>4, <2>1 DEF SizesKnown
  <2>3. EndsRecorded' /\ LotsConserved' /\ Kept
    BY <1>0, <2>1, EndsKept
  <2> QED
    BY <2>2, <2>3
<1> QED
  BY <1>1, <1>2, <1>3, <1>5, <1>6, <1>7 DEF TraderStarts, TraderProceeds

LEMMA NextPromise ==
    ASSUME Gateway, OneRequest, PromiseInv, [Next]_vars
    PROVE  SizesKnown' /\ EndsRecorded' /\ LotsConserved' /\ Kept
<1> USE SessionKinds DEF PromiseInv
<1>1. ASSUME UNCHANGED <<status, lots, fullRows, bookedLots>>,
             UNCHANGED <<pc, batch, seen, want>>
      PROVE  SizesKnown' /\ EndsRecorded' /\ LotsConserved' /\ Kept
  <2>1. \A h \in Healers : pc'[h] = "idle"
    BY <1>1 DEF EndsRecorded
  <2> QED
    BY <1>1, <2>1, SizesStand, RowsStand
<1>2. ASSUME NEW q \in Prices, Tick(q) PROVE SizesKnown' /\ EndsRecorded' /\ LotsConserved' /\ Kept
  BY <1>1, <1>2 DEF Tick, dbVars, sessionVars
<1>3. CASE FeedDies
  BY <1>1, <1>3 DEF FeedDies, dbVars, sessionVars
<1>4. ASSUME NEW w \in SltpWorkers, TickLock(w) \/ TickClose(w)
      PROVE  SizesKnown' /\ EndsRecorded' /\ LotsConserved' /\ Kept
  <2>1. /\ \A h \in Healers : pc'[h] = "idle"
        /\ lots' = lots
        /\ \A t \in Traders : /\ pc'[t] = pc[t] /\ batch'[t] = batch[t]
                              /\ seen'[t] = seen[t] /\ want'[t] = want[t]
    BY <1>4, SessionsAssumption
    DEF TickLock, TickClose, Finish, Goto, Settle, dbVars, EndsRecorded, TypeOK
  <2>2. SizesKnown'
    BY <2>1, SizesStand
  <2>3. CASE TickLock(w)
    BY <2>1, <2>2, <2>3, RowsStand DEF TickLock, dbVars
  <2>4. CASE TickClose(w)
    <3> DEFINE hit == {p \in batch[w] : feed = "live" /\ Triggered(p, px[w]) /\ Open(p)}
    <3>1. Settle(hit, lots) /\ WriteHistory(hit)
      BY <2>4 DEF TickClose
    <3>2. hit \in SUBSET Positions /\ \A p \in hit : Open(p) /\ lots[p] = lots[p]
      BY DEF TypeOK
    <3> HIDE DEF hit
    <3>3. EndsRecorded' /\ LotsConserved' /\ Kept
      BY <2>1, <3>1, <3>2, EndsKept
    <3> QED
      BY <2>2, <3>3
  <2> QED
    BY <1>4, <2>3, <2>4
<1>5. ASSUME NEW h \in Healers PROVE ~HealScan(h) /\ ~HealInsert(h)
  <2>1. ~HealInsert(h)
    BY DEF HealInsert, EndsRecorded
  <2>2. \A p \in Positions : ~Open(p) => fullRows[p] + partRows[p] # 0
    BY DEF EndsRecorded, TypeOK
  <2> QED
    BY <2>1, <2>2 DEF HealScan
<1>6. CASE UNCHANGED vars
  BY <1>1, <1>6 DEF vars, dbVars, sessionVars
<1> QED
  BY <1>2, <1>3, <1>4, <1>5, <1>6, TradersKeep, RisksDoNothing, UnlockedDoNothing DEF Next, NextOf, Gateway

-----------------------------------------------------------------------------
(***************************************************************************)
(* Casts. A session out of the cast stays idle, so that in a cast the      *)
(* premises of the lemmas above hold of every step.                        *)
(***************************************************************************)

LEMMA OthersStand ==
    ASSUME TypeOK, NEW C \in SUBSET Sessions, NextOf(C)
    PROVE  Next /\ \A s \in Sessions \ C : pc'[s] = pc[s]
<1> USE SessionKinds
<1>1. Next
  BY DEF Next, NextOf
<1>2. ASSUME NEW s \in C, NEW place, Goto(s, place)
      PROVE  \A o \in Sessions \ C : pc'[o] = pc[o]
  BY <1>2 DEF Goto, TypeOK
<1>3. ASSUME NEW q \in Prices, Tick(q) PROVE pc' = pc
  BY <1>3 DEF Tick, sessionVars
<1>4. ASSUME FeedDies PROVE pc' = pc
  BY <1>4 DEF FeedDies, sessionVars
<1>5. ASSUME NEW t \in Traders, TraderStarts(t) \/ TraderProceeds(t) PROVE \E place : Goto(t, place)
  BY <1>5 DEF TraderStarts, TraderProceeds, CloseLoad, LoadOpen, ModifyLoad, CloseLock, CloseConflict,
              CloseRefused, ClosePartial, CloseFull, ModifyCommit, Finish
<1>6. ASSUME NEW w \in SltpWorkers, TickLock(w) \/ TickClose(w) PROVE \E place : Goto(w, place)
  BY <1>6 DEF TickLock, TickClose, Finish
<1>7. ASSUME NEW r \in RiskMonitors, RiskLoad(r) \/ \E P \in SUBSET Positions : StopOut(r, P)
      PROVE  \E place : Goto(r, place)
  BY <1>7 DEF RiskLoad, LoadOpen, StopOut, Finish
<1>8. ASSUME NEW s \in Sessions,
             (\E p \in Positions : CopyLoad(s, p) \/ AdminLoad(s, p)) \/ CopyClose(s) \/ AdminClose(s)
      PROVE  \E place : Goto(s, place)
  BY <1>8 DEF CopyLoad, AdminLoad, LoadOpen, CopyClose, AdminClose, CloseUnlocked, Finish
<1>9. ASSUME NEW h \in Healers, HealScan(h) \/ HealInsert(h) PROVE \E place : Goto(h, place)
  BY <1>9 DEF HealScan, HealInsert, Finish
<1>10. pc' = pc \/ \E s \in C : \E place : Goto(s, place)
  BY <1>3, <1>4, <1>5, <1>6, <1>7, <1>8, <1>9 DEF NextOf
<1> QED
  BY <1>1, <1>2, <1>10

CastTypeOK ==
    /\ TypeOK
    /\ cast \in {Everyone, Lockers, Desk}
    /\ \A s \in Sessions \ cast : pc[s] = "idle"

LEMMA CastStep ==
    ASSUME CastTypeOK, [MCNext]_<<vars, cast>>
    PROVE  [Next]_vars /\ cast' = cast /\ CastTypeOK'
<1>1. cast \in SUBSET Sessions
  BY CastsAssumption DEF CastTypeOK
<1>2. CASE MCNext
  BY <1>1, <1>2, OthersStand, NextType DEF MCNext, CastTypeOK
<1>3. CASE UNCHANGED <<vars, cast>>
  BY <1>3, NextType DEF CastTypeOK, vars, sessionVars
<1> QED
  BY <1>2, <1>3

LEMMA CastInit ==
    ASSUME MCInit
    PROVE  CastTypeOK
BY InitType, CastsAssumption DEF MCInit, CastTypeOK, Init

\* A cast without the two closers that skip the lock makes no step of theirs.
LEMMA LockersStand ==
    ASSUME CastTypeOK, CastTypeOK', cast' = cast, cast # Everyone
    PROVE  UnlockedStand
<1>1. \A s \in CopyEngines \union Admins : s \in Sessions \ cast
  BY CastsAssumption, SessionKinds DEF CastTypeOK
<1> QED
  BY <1>1 DEF CastTypeOK, UnlockedStand

LEMMA GatewayStands ==
    ASSUME CastTypeOK, CastTypeOK', cast' = cast, GatewayOnly
    PROVE  Gateway
<1>1. \A s \in CopyEngines \union Admins \union RiskMonitors : s \in Sessions \ cast
  BY SessionsAssumption, SessionKinds DEF GatewayOnly
<1> QED
  BY <1>1 DEF CastTypeOK, UnlockedStand, Gateway

LEMMA RequestStands ==
    ASSUME CastTypeOK, CastTypeOK', cast' = cast, OneTrader
    PROVE  OneRequest
BY SessionKinds DEF CastTypeOK, OneTrader, OneRequest

\* The two closers that skip the lock may exist: it is enough that they take no part.  The
\* whole inductive invariant then holds in every behaviour of the other casts.
THEOREM LockersInvHolds ==
    ASSUME OneHealer
    PROVE  MCSpec => []LockersInv
<1>1. MCInit => CastTypeOK /\ LockersInv
  BY CastInit, InitSettlement DEF MCInit, LockersInv
<1>2. CastTypeOK /\ LockersInv /\ [MCNext]_<<vars, cast>> => CastTypeOK' /\ LockersInv'
  BY CastStep, LockersStand, NextSettlement DEF LockersInv
<1> QED
  BY <1>1, <1>2, PTL DEF MCSpec

\* However many requests and SL/TP workers of the gateway race, the profit of a position's
\* end reaches the account at most once.
THEOREM RealisedOnceHolds == MCSpec => []GatewayRealisesOnce
<1> DEFINE Inv == CastTypeOK /\ (GatewayOnly => RealisedInv)
<1>1. MCInit => Inv
  BY CastInit, InitRealised DEF MCInit
<1>2. Inv /\ [MCNext]_<<vars, cast>> => Inv'
  <2> SUFFICES ASSUME Inv, [MCNext]_<<vars, cast>> PROVE Inv'
    OBVIOUS
  <2>1. [Next]_vars /\ cast' = cast /\ CastTypeOK'
    BY CastStep
  <2>2. ASSUME GatewayOnly PROVE RealisedInv'
    <3>1. Gateway
      BY <2>1, <2>2, GatewayStands
    <3> QED
      BY <2>1, <2>2, <3>1, NextType, NextKeepsLocks, NextRealised DEF RealisedInv, Gateway
  <2> QED
    BY <2>1, <2>2 DEF GatewayOnly
<1>3. Inv => GatewayRealisesOnce
  BY DEF GatewayRealisesOnce, RealisedInv
<1> QED
  BY <1>1, <1>2, <1>3, PTL DEF MCSpec

\* The cast in which the promise is kept.
AtDesk == GatewayOnly /\ OneTrader
DeskInv == CastTypeOK /\ (AtDesk => PromiseInv)

LEMMA DeskStep ==
    ASSUME DeskInv, [MCNext]_<<vars, cast>>
    PROVE  DeskInv' /\ (AtDesk => Kept)
<1>1. [Next]_vars /\ cast' = cast /\ CastTypeOK'
  BY CastStep DEF DeskInv
<1>2. ASSUME AtDesk PROVE PromiseInv' /\ Kept
  <2>1. Gateway /\ OneRequest
    BY <1>1, <1>2, GatewayStands, RequestStands DEF DeskInv, AtDesk
  <2>2. LockedRowsOpen' /\ TypeOK'
    BY <1>1, <1>2, <2>1, NextType, NextKeepsLocks DEF DeskInv, PromiseInv, Gateway
  <2> QED
    BY <1>1, <1>2, <2>1, <2>2, NextPromise DEF DeskInv, PromiseInv
<1> QED
  BY <1>1, <1>2 DEF DeskInv, AtDesk, GatewayOnly, OneTrader

LEMMA DeskHolds == MCSpec => []DeskInv
<1>1. MCInit => DeskInv
  BY CastInit, InitPromise DEF MCInit, DeskInv
<1>2. DeskInv /\ [MCNext]_<<vars, cast>> => DeskInv'
  BY DeskStep
<1> QED
  BY <1>1, <1>2, PTL DEF MCSpec

\* While a trader sends one request at a time, no lot is realised twice or lost, however
\* many workers of the gateway close beside it.
THEOREM LotsConservedHolds == MCSpec => []DeskConservesLots
<1>1. DeskInv => DeskConservesLots
  BY DEF DeskInv, AtDesk, PromiseInv, DeskConservesLots
<1> QED
  BY DeskHolds, <1>1, PTL

\* And the sessions of the gateway implement the promise: each step realises part of one
\* position, or ends some positions, or leaves lots, bookings and history as they are.
THEOREM KeepsPromiseHolds == MCSpec => DeskKeepsPromise
<1>1. MCInit => (GatewayOnly /\ OneTrader => Promise!Init)
  BY InitPromise DEF MCInit
<1>2. DeskInv /\ [MCNext]_<<vars, cast>> =>
          [GatewayOnly /\ OneTrader => [Promise!Next]_Promise!vars]_<<vars, cast>>
  BY DeskStep DEF AtDesk, Kept, Remaining, Promise!vars
<1> QED
  BY <1>1, <1>2, DeskHolds, PTL DEF MCSpec, DeskKeepsPromise
=============================================================================

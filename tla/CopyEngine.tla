----------------------------- MODULE CopyEngine -----------------------------
(***************************************************************************)
(* The copy trading engine for one master: every open position of the      *)
(* master's account is mirrored on the account of every active follower,   *)
(* and the mirror ends with it.                                            *)
(*                                                                         *)
(* Each gateway worker runs the engine, one at a time under the leader     *)
(* lock "copy_engine". A process remembers which positions it has seen and *)
(* which followers it has caught up, and forgets both when it dies; what   *)
(* really was mirrored stands in copy_trades. A cycle is one transaction.  *)
(*                                                                         *)
(* A follower is an allocation of type signal or MAM with an account that  *)
(* is active and has the margin; a follower who subscribes again is        *)
(* another allocation. A follower who closes a copied position leaves the  *)
(* row of copy_trades open, so that changes nothing here.                  *)
(***************************************************************************)
EXTENDS EngineLock

CONSTANTS
    Positions,    \* positions the master may open
    Followers,    \* allocations to the master
    MaxFaults     \* bound: cycles that are rolled back, and crashes of a worker

ASSUME FaultsAssumption == MaxFaults \in Nat

VARIABLES
    master,      \* the master's positions
    alloc,       \* status of each allocation
    live,        \* open rows of copy_trades of a position and a follower
    made,        \* rows of copy_trades ever committed for them
    snapshot,    \* _master_positions of each process
    seeded,      \* _seeded_allocations of each process
    stage,       \* where each process's cycle stands
    read,        \* the open positions and active allocations a cycle has read
    batch,       \* what a cycle has written and not committed
    rolledBack,  \* a cycle was rolled back after the process remembered it
    faults       \* rolled back cycles and crashes so far

memory == <<snapshot, seeded>>
cycle == <<stage, read, batch>>
books == <<master, alloc, live, made>>
copyVars == <<books, memory, cycle, rolledBack, faults>>
vars == <<lockVars, copyVars>>

Pairs == Positions \X Followers

Nothing == [opens |-> {}, closes |-> {}, pauses |-> {}]
Unread == [open |-> {}, active |-> {}]

TypeOK ==
    /\ LockTypeOK
    /\ master \in [Positions -> {"none", "open", "closed"}]
    /\ alloc \in [Followers -> {"none", "active", "paused", "stopped"}]
    /\ live \in [Pairs -> Nat]
    /\ made \in [Pairs -> Nat]
    /\ snapshot \in [Workers -> SUBSET Positions]
    /\ seeded \in [Workers -> SUBSET Followers]
    /\ stage \in [Workers -> {"none", "sweep", "read", "mirror", "commit"}]
    /\ read \in [Workers -> [open : SUBSET Positions, active : SUBSET Followers]]
    /\ batch \in [Workers -> [opens : SUBSET Pairs, closes : SUBSET Pairs,
                              pauses : SUBSET Followers]]
    /\ rolledBack \in BOOLEAN
    /\ faults \in 0..MaxFaults

Init ==
    /\ LockInit
    /\ master = [p \in Positions |-> "none"]
    /\ alloc = [f \in Followers |-> "none"]
    /\ live = [q \in Pairs |-> 0]
    /\ made = [q \in Pairs |-> 0]
    /\ snapshot = [w \in Workers |-> {}]
    /\ seeded = [w \in Workers |-> {}]
    /\ stage = [w \in Workers |-> "none"]
    /\ read = [w \in Workers |-> Unread]
    /\ batch = [w \in Workers |-> Nothing]
    /\ rolledBack = FALSE
    /\ faults = 0

Active(f) == alloc[f] = "active"

-----------------------------------------------------------------------------
(* The master and the followers. *)

MasterOpens(p) ==
    /\ master[p] = "none"
    /\ master' = [master EXCEPT ![p] = "open"]
    /\ UNCHANGED <<lockVars, alloc, live, made, memory, cycle, rolledBack, faults>>

MasterCloses(p) ==
    /\ master[p] = "open"
    /\ master' = [master EXCEPT ![p] = "closed"]
    /\ UNCHANGED <<lockVars, alloc, live, made, memory, cycle, rolledBack, faults>>

Follow(f) ==
    /\ alloc[f] = "none"
    /\ alloc' = [alloc EXCEPT ![f] = "active"]
    /\ UNCHANGED <<lockVars, master, live, made, memory, cycle, rolledBack, faults>>

\* The follower's copies are closed with the subscription, but for those whose
\* symbol has no price at the moment.
Stop(f) ==
    /\ Active(f)
    /\ alloc' = [alloc EXCEPT ![f] = "stopped"]
    /\ \E unpriced \in SUBSET Positions :
          live' = [q \in Pairs |-> IF q[2] = f /\ q[1] \notin unpriced THEN 0 ELSE live[q]]
    /\ UNCHANGED <<lockVars, master, made, memory, cycle, rolledBack, faults>>

-----------------------------------------------------------------------------
(* A cycle. *)

CycleStart(w) ==
    /\ Acquire(w)
    /\ stage' = [stage EXCEPT ![w] = "sweep"]
    /\ UNCHANGED <<books, memory, read, batch, rolledBack, faults>>

CycleStartLost(w) == AcquireLost(w) /\ UNCHANGED copyVars

\* Copies, committed or about to be, whose master position is closed.
Orphans(opens) ==
    {q \in Pairs : (live[q] > 0 \/ q \in opens) /\ master[q[1]] = "closed"}

\* Variant of _global_orphan_sweep: it looks at copies of active followers only.
SweepActive(w) ==
    /\ stage[w] = "sweep"
    /\ batch' = [batch EXCEPT ![w].closes = {q \in Orphans({}) : Active(q[2])}]
    /\ stage' = [stage EXCEPT ![w] = IF \E f \in Followers : Active(f) THEN "read" ELSE "commit"]
    /\ UNCHANGED <<lockVars, books, memory, read, rolledBack, faults>>

\* Every orphan is closed, whoever follows; then the masters with an active
\* follower are selected.
_global_orphan_sweep(w) ==
    /\ stage[w] = "sweep"
    /\ batch' = [batch EXCEPT ![w].closes = Orphans({})]
    /\ stage' = [stage EXCEPT ![w] = IF \E f \in Followers : Active(f) THEN "read" ELSE "commit"]
    /\ UNCHANGED <<lockVars, books, memory, read, rolledBack, faults>>

\* The master's open positions and active allocations; the last follower may have
\* left since the master was selected.
ReadMaster(w) ==
    /\ stage[w] = "read"
    /\ LET now == [open   |-> {p \in Positions : master[p] = "open"},
                   active |-> {f \in Followers : Active(f)}]
       IN /\ read' = [read EXCEPT ![w] = IF now.active = {} THEN Unread ELSE now]
          /\ stage' = [stage EXCEPT ![w] = IF now.active = {} THEN "commit" ELSE "mirror"]
          /\ snapshot' = [snapshot EXCEPT ![w] = IF now.active = {} THEN now.open ELSE @]
    /\ UNCHANGED <<lockVars, books, seeded, batch, rolledBack, faults>>

\* Variant of Wanted: new positions only, no catch-up of new followers.
WantedNew(w) == (read[w].open \ snapshot[w]) \X read[w].active

\* What the cycle looks at: all open positions for a follower it has not caught
\* up, the positions it has not seen for every follower.
Wanted(w) ==
    {q \in read[w].open \X read[w].active : q[2] \notin seeded[w] \/ q[1] \notin snapshot[w]}

\* Variant of Missing: no look at the copies that exist.
MissingBlind(w) == Wanted(w)

\* What of it has no open copy.
Missing(w) == {q \in Wanted(w) : live[q] = 0}

\* Copies are opened, allocations whose loss has reached max_drawdown_pct paused
\* instead, orphans closed; the process remembers what it has seen.  A pair with two
\* copies makes the look at existing copies fail.
process_master(w) ==
    /\ stage[w] = "mirror"
    /\ \A q \in Wanted(w) : live[q] <= 1
    /\ \E pauses \in SUBSET {q[2] : q \in Missing(w)} :
          LET opens == {q \in Missing(w) : q[2] \notin pauses}
          IN batch' = [batch EXCEPT ![w] = [opens  |-> opens,
                                            closes |-> @.closes \union Orphans(opens),
                                            pauses |-> pauses]]
    /\ seeded' = [seeded EXCEPT ![w] = @ \union read[w].active]
    /\ snapshot' = [snapshot EXCEPT ![w] = read[w].open]
    /\ stage' = [stage EXCEPT ![w] = "commit"]
    /\ read' = [read EXCEPT ![w] = Unread]
    /\ UNCHANGED <<lockVars, books, rolledBack, faults>>

CycleEnds(w) ==
    /\ EndTick(w)
    /\ stage' = [stage EXCEPT ![w] = "none"]
    /\ read' = [read EXCEPT ![w] = Unread]
    /\ batch' = [batch EXCEPT ![w] = Nothing]

CycleCommit(w) ==
    /\ stage[w] = "commit"
    /\ CycleEnds(w)
    /\ live' = [q \in Pairs |-> IF q \in batch[w].closes THEN 0
                                ELSE IF q \in batch[w].opens THEN live[q] + 1 ELSE live[q]]
    /\ made' = [q \in Pairs |-> IF q \in batch[w].opens THEN made[q] + 1 ELSE made[q]]
    /\ alloc' = [f \in Followers |-> IF f \in batch[w].pauses THEN "paused" ELSE alloc[f]]
    /\ UNCHANGED <<master, memory, rolledBack, faults>>

\* An exception anywhere rolls the cycle back, but not what the process has
\* remembered: followers caught up before it, or all of it.
CycleFails(w) ==
    /\ stage[w] # "none"
    /\ faults < MaxFaults
    /\ CycleEnds(w)
    /\ \E done \in SUBSET (read[w].active \ seeded[w]) :
          /\ stage[w] # "mirror" => done = {}
          /\ seeded' = [seeded EXCEPT ![w] = @ \union done]
          /\ rolledBack' = (rolledBack \/ batch[w].opens # {} \/ batch[w].pauses # {}
                               \/ (done # {} /\ read[w].open # {}))
    /\ faults' = faults + 1
    /\ UNCHANGED <<books, snapshot>>

Released(w) == (Release(w) \/ ReleaseFails(w)) /\ UNCHANGED copyVars

WorkerCrash(w) ==
    /\ faults < MaxFaults
    /\ Crash(w)
    /\ faults' = faults + 1
    /\ snapshot' = [snapshot EXCEPT ![w] = {}]
    /\ seeded' = [seeded EXCEPT ![w] = {}]
    /\ stage' = [stage EXCEPT ![w] = "none"]
    /\ read' = [read EXCEPT ![w] = Unread]
    /\ batch' = [batch EXCEPT ![w] = Nothing]
    /\ UNCHANGED <<books, rolledBack>>

WorkerRestart(w) == Restart(w) /\ UNCHANGED copyVars

SecondPasses == Second /\ UNCHANGED copyVars

-----------------------------------------------------------------------------
CycleStep(w) ==
    _global_orphan_sweep(w) \/ ReadMaster(w) \/ process_master(w) \/ CycleCommit(w)

Next ==
    \/ \E p \in Positions : MasterOpens(p) \/ MasterCloses(p)
    \/ \E f \in Followers : Follow(f) \/ Stop(f)
    \/ \E w \in Workers :
          \/ CycleStart(w) \/ CycleStartLost(w) \/ CycleStep(w) \/ CycleFails(w)
          \/ Released(w) \/ WorkerCrash(w) \/ WorkerRestart(w)
    \/ SecondPasses

Spec == Init /\ [][Next]_vars

(***************************************************************************)
(* The engine loops and catches every exception, dead workers are started  *)
(* again, time passes, and of the workers one gets the lock now and then:  *)
(* not each of them.                                                       *)
(***************************************************************************)
Fairness ==
    /\ WF_vars(SecondPasses)
    /\ SF_vars(\E w \in Workers : CycleStart(w))
    /\ \A w \in Workers :
          WF_vars(CycleStep(w)) /\ WF_vars(Released(w)) /\ WF_vars(WorkerRestart(w))

FairSpec == Spec /\ Fairness

-----------------------------------------------------------------------------
(* Properties. *)

\* At most one copy now, and one in all unless the follower has left.
MirroredOnceFor(q) == live[q] <= 1 /\ (made[q] > 1 => alloc[q[2]] = "stopped")

\* A follower holds one copy of a position at most, whichever worker leads and
\* whatever it remembers; a second one is only opened for a follower who stopped
\* while a cycle was under way.
MirroredOnce == \A q \in Pairs : MirroredOnceFor(q)

\* A copy whose master position is closed is closed too, even if every process
\* that knew of it is gone, its cycle was rolled back, or nobody follows any more.
EndsWithMaster ==
    \A p \in Positions, f \in Followers :
        (live[<<p, f>>] > 0 /\ master[p] = "closed") ~> (live[<<p, f>>] = 0)

\* An active follower obtains a copy of every position that stays open, opened
\* before or after the subscription, whoever crashed: unless a cycle was rolled
\* back whose process remembers it as done.
MirroredInTheEnd ==
    \A p \in Positions, f \in Followers :
        (master[p] = "open" /\ Active(f))
            ~> (made[<<p, f>>] > 0 \/ master[p] # "open" \/ ~Active(f) \/ rolledBack)

(***************************************************************************)
(* The inductive invariant behind MirroredOnce.                            *)
(***************************************************************************)

\* Only the leader has a cycle under way, and what it has not written is empty.
OneCycle ==
    \A w \in Workers :
        /\ stage[w] # "none" => Working(w)
        /\ stage[w] # "commit" => batch[w].opens = {} /\ batch[w].pauses = {}

\* A follower without a copy that once had one has left, or the master's position is
\* closed; a second copy is the copy of a follower who has left.
CopiesEnd ==
    \A q \in Pairs :
        /\ live[q] = 0 /\ made[q] > 0 => master[q[1]] = "closed" \/ alloc[q[2]] \in {"paused", "stopped"}
        /\ MirroredOnceFor(q)

\* What a cycle has read may be behind, but in one way only: a follower has stopped since.
ReadHolds ==
    \A w \in Workers : stage[w] = "mirror" =>
        \A f \in read[w].active :
            /\ alloc[f] \in {"active", "stopped"}
            /\ \A p \in Positions : made[<<p, f>>] <= 1
            /\ \A p \in read[w].open :
                  live[<<p, f>>] = 0 /\ made[<<p, f>>] > 0 => alloc[f] = "stopped"

\* What a cycle is about to commit: nobody else opens a copy meanwhile.
BatchHolds ==
    \A w \in Workers :
        /\ \A q \in batch[w].opens :
              /\ live[q] = 0 /\ made[q] <= 1 /\ q[2] \notin batch[w].pauses
              /\ made[q] > 0 => alloc[q[2]] = "stopped"
        /\ \A q \in batch[w].closes : master[q[1]] = "closed"
        /\ \A f \in batch[w].pauses : \A p \in Positions : made[<<p, f>>] <= 1

CopyInv == TypeOK /\ LeaseInv /\ OneCycle /\ CopiesEnd /\ ReadHolds /\ BatchHolds
=============================================================================

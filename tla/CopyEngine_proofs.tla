-------------------------- MODULE CopyEngine_proofs --------------------------
(***************************************************************************)
(* One copy of a position for a follower, for any number of positions,     *)
(* followers, workers, crashes and cycles that are rolled back, as long as *)
(* a cycle is shorter than the life of the leader's key.                   *)
(***************************************************************************)
EXTENDS CopyEngine, EngineLock_proofs

LEMMA PairParts ==
    /\ \A q \in Pairs : q[1] \in Positions /\ q[2] \in Followers /\ q = <<q[1], q[2]>>
    /\ \A p \in Positions, f \in Followers :
          <<p, f>> \in Pairs /\ <<p, f>>[1] = p /\ <<p, f>>[2] = f
BY DEF Pairs

\* What a cycle wants, misses and ends are pairs of what it has read.
LEMMA CyclePairs ==
    ASSUME TypeOK, NEW w \in Workers
    PROVE  /\ \A q \in Missing(w) : /\ q \in Pairs /\ live[q] = 0
                                    /\ q[1] \in read[w].open /\ q[2] \in read[w].active
           /\ \A S : \A q \in Orphans(S) : q \in Pairs /\ master[q[1]] = "closed"
BY DEF TypeOK, Missing, Wanted, Orphans, Pairs

LEMMA InitCopy == Init => CopyInv
<1> SUFFICES ASSUME Init PROVE CopyInv
  OBVIOUS
<1>1. LeaseInv /\ LockTypeOK
  BY InitLease DEF Init, LeaseInv
<1>2. TypeOK
  <2>1. master \in [Positions -> {"none", "open", "closed"}]
        /\ alloc \in [Followers -> {"none", "active", "paused", "stopped"}]
    BY DEF Init
  <2>2. live \in [Pairs -> Nat] /\ made \in [Pairs -> Nat]
    BY DEF Init
  <2>3. snapshot \in [Workers -> SUBSET Positions] /\ seeded \in [Workers -> SUBSET Followers]
    BY DEF Init
  <2>4. stage \in [Workers -> {"none", "sweep", "read", "mirror", "commit"}]
    BY DEF Init
  <2>5. read \in [Workers -> [open : SUBSET Positions, active : SUBSET Followers]]
    BY DEF Init, Unread
  <2>6. batch \in [Workers -> [opens : SUBSET Pairs, closes : SUBSET Pairs,
                              pauses : SUBSET Followers]]
    BY DEF Init, Nothing
  <2>7. rolledBack \in BOOLEAN
    BY DEF Init
  <2>8. faults \in 0..MaxFaults
    BY FaultsAssumption DEF Init
  <2> QED
    BY <1>1, <2>1, <2>2, <2>3, <2>4, <2>5, <2>6, <2>7, <2>8 DEF TypeOK
<1>3. OneCycle /\ CopiesEnd /\ ReadHolds /\ BatchHolds
  BY PairParts DEF Init, OneCycle, CopiesEnd, MirroredOnceFor, ReadHolds, BatchHolds, Nothing
<1> QED
  BY <1>1, <1>2, <1>3 DEF CopyInv

\* What the lock does in a step, and that one worker at most is in a cycle.
LEMMA NextLease ==
    ASSUME TickFits, CopyInv, [Next]_vars
    PROVE  LeaseInv'
<1>1. ASSUME NEW w \in Workers, WorkerStep(w) PROVE LeaseInv'
  BY <1>1, WorkerKeepsLease DEF CopyInv
<1>2. CASE Second
  BY <1>2, SecondKeepsLease DEF CopyInv
<1>3. CASE UNCHANGED lockVars
  BY <1>3 DEF CopyInv, LeaseInv, LockTypeOK, Working, lockVars
<1> QED
  BY <1>1, <1>2, <1>3
  DEF Next, vars, MasterOpens, MasterCloses, Follow, Stop, CycleStart, CycleStartLost, CycleStep,
      _global_orphan_sweep, ReadMaster, process_master, CycleCommit, CycleFails, CycleEnds,
      Released, WorkerCrash, WorkerRestart, SecondPasses, WorkerStep

LEMMA OneAtATime ==
    ASSUME CopyInv, NEW v \in Workers, NEW w \in Workers, stage[v] # "none", stage[w] # "none"
    PROVE  v = w
BY DEF CopyInv, OneCycle, LeaseInv

\* The types of what the engine reads, writes and remembers.
LEMMA NextType ==
    ASSUME TickFits, CopyInv, [Next]_vars
    PROVE  TypeOK'
<1> USE DEF TypeOK
<1>0. LockTypeOK' /\ TypeOK
  BY NextLease DEF LeaseInv, CopyInv
<1>1. ASSUME NEW p \in Positions, MasterOpens(p) \/ MasterCloses(p) PROVE TypeOK'
  BY <1>0, <1>1 DEF MasterOpens, MasterCloses, memory, cycle
<1>2. ASSUME NEW f \in Followers, Follow(f) PROVE TypeOK'
  BY <1>0, <1>2 DEF Follow, memory, cycle
<1>3. ASSUME NEW f \in Followers, Stop(f) PROVE TypeOK'
  <2>1. live' \in [Pairs -> Nat]
    BY <1>0, <1>3 DEF Stop
  <2> QED
    BY <1>0, <1>3, <2>1 DEF Stop, memory, cycle
<1>4. ASSUME NEW w \in Workers, CycleStart(w) PROVE TypeOK'
  BY <1>0, <1>4 DEF CycleStart, books, memory
<1>5. CASE UNCHANGED copyVars
  BY <1>0, <1>5 DEF copyVars, books, memory, cycle
<1>6. ASSUME NEW w \in Workers, _global_orphan_sweep(w) PROVE TypeOK'
  BY <1>0, <1>6 DEF _global_orphan_sweep, Orphans, books, memory
<1>7. ASSUME NEW w \in Workers, ReadMaster(w) PROVE TypeOK'
  BY <1>0, <1>7 DEF ReadMaster, Unread, books
<1>8. ASSUME NEW w \in Workers, process_master(w) PROVE TypeOK'
  <2>1. PICK pauses \in SUBSET {q[2] : q \in Missing(w)} :
          LET opens == {q \in Missing(w) : q[2] \notin pauses}
          IN batch' = [batch EXCEPT ![w] = [opens  |-> opens,
                                            closes |-> @.closes \union Orphans(opens),
                                            pauses |-> pauses]]
    BY <1>8 DEF process_master
  <2>2. batch' \in [Workers -> [opens : SUBSET Pairs, closes : SUBSET Pairs,
                                pauses : SUBSET Followers]]
    <3>1. Missing(w) \subseteq Pairs /\ pauses \subseteq Followers
      BY <1>0, CyclePairs, PairParts
    <3>2. \A S : Orphans(S) \subseteq Pairs
      BY <1>0, CyclePairs
    <3> QED
      BY <1>0, <2>1, <3>1, <3>2
  <2>3. seeded' \in [Workers -> SUBSET Followers] /\ snapshot' \in [Workers -> SUBSET Positions]
    BY <1>0, <1>8 DEF process_master
  <2>4. /\ stage' \in [Workers -> {"none", "sweep", "read", "mirror", "commit"}]
        /\ read' \in [Workers -> [open : SUBSET Positions, active : SUBSET Followers]]
    BY <1>0, <1>8 DEF process_master, Unread
  <2> QED
    BY <1>0, <1>8, <2>2, <2>3, <2>4 DEF process_master, books
<1>9. ASSUME NEW w \in Workers, CycleCommit(w) PROVE TypeOK'
  BY <1>0, <1>9 DEF CycleCommit, CycleEnds, Unread, Nothing, memory
<1>10. ASSUME NEW w \in Workers, CycleFails(w) PROVE TypeOK'
  BY <1>0, <1>10, FaultsAssumption DEF CycleFails, CycleEnds, Unread, Nothing, books
<1>11. ASSUME NEW w \in Workers, WorkerCrash(w) PROVE TypeOK'
  BY <1>0, <1>11, FaultsAssumption DEF WorkerCrash, Unread, Nothing, books
<1> QED
  BY <1>1, <1>2, <1>3, <1>4, <1>5, <1>6, <1>7, <1>8, <1>9, <1>10, <1>11
  DEF Next, CycleStep, CycleStartLost, Released, WorkerRestart, SecondPasses, vars

\* A cycle under way is its worker's tick, and one worker ticks at a time.
LEMMA NextOneCycle ==
    ASSUME CopyInv, [Next]_vars
    PROVE  OneCycle'
<1> USE DEF CopyInv, OneCycle, TypeOK, Working
<1>1. CASE UNCHANGED cycle /\ UNCHANGED pc
  BY <1>1 DEF cycle
<1>2. ASSUME NEW w \in Workers, CycleStart(w) PROVE OneCycle'
  BY <1>2 DEF CycleStart, Acquire, LockTypeOK
<1>3. ASSUME NEW w \in Workers, CycleStartLost(w) \/ Released(w) \/ WorkerRestart(w) PROVE OneCycle'
  BY <1>3 DEF CycleStartLost, AcquireLost, Released, Release, ReleaseFails, WorkerRestart, Restart,
              copyVars, cycle, LockTypeOK
<1>4. ASSUME NEW w \in Workers, _global_orphan_sweep(w) PROVE OneCycle'
  BY <1>4 DEF _global_orphan_sweep, lockVars
<1>5. ASSUME NEW w \in Workers, ReadMaster(w) PROVE OneCycle'
  BY <1>5 DEF ReadMaster, lockVars
<1>6. ASSUME NEW w \in Workers, process_master(w) PROVE OneCycle'
  BY <1>6 DEF process_master, lockVars
<1>7. ASSUME NEW w \in Workers, CycleCommit(w) \/ CycleFails(w) PROVE OneCycle'
  <2>1. /\ EndTick(w)
        /\ stage' = [stage EXCEPT ![w] = "none"]
        /\ batch' = [batch EXCEPT ![w] = Nothing]
    BY <1>7 DEF CycleCommit, CycleFails, CycleEnds
  <2>2. ASSUME NEW v \in Workers
        PROVE  /\ stage'[v] # "none" => pc'[v] = "working"
               /\ stage'[v] # "commit" => batch'[v].opens = {} /\ batch'[v].pauses = {}
    BY <2>1 DEF EndTick, Nothing, LockTypeOK
  <2> QED
    BY <2>2
<1>8. ASSUME NEW w \in Workers, WorkerCrash(w) PROVE OneCycle'
  BY <1>8 DEF WorkerCrash, Crash, Nothing, LockTypeOK
<1>9. CASE SecondPasses
  BY <1>9 DEF SecondPasses, Second, copyVars, cycle
<1> QED
  BY <1>1, <1>2, <1>3, <1>4, <1>5, <1>6, <1>7, <1>8, <1>9
  DEF Next, CycleStep, vars, lockVars, copyVars, MasterOpens, MasterCloses, Follow, Stop

\* The books only change by the master, the followers and a commit.
LEMMA NextCopiesEnd ==
    ASSUME CopyInv, [Next]_vars
    PROVE  CopiesEnd'
<1> USE DEF CopyInv, CopiesEnd, MirroredOnceFor, TypeOK
<1>1. CASE UNCHANGED books
  BY <1>1 DEF books
<1>2. ASSUME NEW p \in Positions, MasterOpens(p) \/ MasterCloses(p) PROVE CopiesEnd'
  BY <1>2, PairParts DEF MasterOpens, MasterCloses
<1>3. ASSUME NEW f \in Followers, Follow(f) PROVE CopiesEnd'
  BY <1>3, PairParts DEF Follow
<1>4. ASSUME NEW f \in Followers, Stop(f) PROVE CopiesEnd'
  BY <1>4, PairParts DEF Stop, Active
<1>5. ASSUME NEW w \in Workers, CycleCommit(w) PROVE CopiesEnd'
  <2>1. BatchHolds
    OBVIOUS
  <2> SUFFICES ASSUME NEW q \in Pairs
               PROVE  /\ live'[q] = 0 /\ made'[q] > 0
                            => master'[q[1]] = "closed" \/ alloc'[q[2]] \in {"paused", "stopped"}
                      /\ live'[q] <= 1 /\ (made'[q] > 1 => alloc'[q[2]] = "stopped")
    OBVIOUS
  <2>2. CASE q \in batch[w].opens
    BY <1>5, <2>1, <2>2, PairParts DEF CycleCommit, BatchHolds
  <2>3. CASE q \notin batch[w].opens
    BY <1>5, <2>1, <2>3, PairParts DEF CycleCommit, BatchHolds
  <2> QED
    BY <2>2, <2>3
<1> QED
  BY <1>1, <1>2, <1>3, <1>4, <1>5
  DEF Next, CycleStep, vars, copyVars, CycleStart, CycleStartLost, _global_orphan_sweep, ReadMaster,
      process_master, CycleFails, Released, WorkerCrash, WorkerRestart, SecondPasses

\* Nobody commits while a cycle is under way, and whoever stops stays stopped.
LEMMA NextReadHolds ==
    ASSUME CopyInv, [Next]_vars
    PROVE  ReadHolds'
<1> USE DEF CopyInv, TypeOK
<1>1. CASE UNCHANGED <<books, stage, read>>
  BY <1>1 DEF books, ReadHolds
<1>2. ASSUME NEW p \in Positions, MasterOpens(p) \/ MasterCloses(p) PROVE ReadHolds'
  BY <1>2 DEF MasterOpens, MasterCloses, cycle, ReadHolds
<1>3. ASSUME NEW f \in Followers, Follow(f) PROVE ReadHolds'
  BY <1>3 DEF Follow, cycle, ReadHolds
<1>4. ASSUME NEW f \in Followers, Stop(f) PROVE ReadHolds'
  BY <1>4, PairParts DEF Stop, Active, cycle, ReadHolds
<1>5. ASSUME NEW w \in Workers, ReadMaster(w) PROVE ReadHolds'
  <2>1. \A f \in read'[w].active, p \in Positions :
          alloc[f] = "active" /\ made[<<p, f>>] <= 1
    BY <1>5, PairParts DEF ReadMaster, Active, Unread, CopiesEnd, MirroredOnceFor
  <2>2. \A f \in read'[w].active, p \in read'[w].open :
          ~ (live[<<p, f>>] = 0 /\ made[<<p, f>>] > 0)
    BY <1>5, PairParts DEF ReadMaster, Active, Unread, CopiesEnd
  <2> QED
    BY <1>5, <2>1, <2>2 DEF ReadMaster, books, Active, Unread, ReadHolds
<1>6. ASSUME NEW w \in Workers, CycleCommit(w) PROVE ReadHolds'
  <2>1. \A v \in Workers : stage'[v] # "mirror"
    BY <1>6, OneAtATime DEF CycleCommit, CycleEnds
  <2> QED
    BY <2>1 DEF ReadHolds
<1>7. ASSUME NEW w \in Workers,
             \/ CycleStart(w) \/ _global_orphan_sweep(w) \/ process_master(w)
             \/ CycleFails(w) \/ WorkerCrash(w)
      PROVE  ReadHolds'
  <2>1. \A v \in Workers : stage'[v] = "mirror" => stage[v] = "mirror" /\ read'[v] = read[v]
    BY <1>7 DEF CycleStart, _global_orphan_sweep, process_master, CycleFails, CycleEnds, WorkerCrash
  <2>2. UNCHANGED <<alloc, live, made>>
    BY <1>7 DEF CycleStart, _global_orphan_sweep, process_master, CycleFails, WorkerCrash, books
  <2> QED
    BY <2>1, <2>2 DEF ReadHolds
<1> QED
  BY <1>1, <1>2, <1>3, <1>4, <1>5, <1>6, <1>7
  DEF Next, CycleStep, vars, copyVars, books, cycle, CycleStartLost, Released, WorkerRestart,
      SecondPasses

\* What is about to be committed was right when it was read, and still is.
LEMMA NextBatchHolds ==
    ASSUME CopyInv, [Next]_vars
    PROVE  BatchHolds'
<1> USE DEF CopyInv, TypeOK
<1>1. CASE UNCHANGED <<books, batch>>
  BY <1>1 DEF books, BatchHolds
<1>2. ASSUME NEW p \in Positions, MasterOpens(p) \/ MasterCloses(p) PROVE BatchHolds'
  BY <1>2, PairParts DEF MasterOpens, MasterCloses, cycle, BatchHolds
<1>3. ASSUME NEW f \in Followers, Follow(f) PROVE BatchHolds'
  BY <1>3, PairParts DEF Follow, cycle, BatchHolds
<1>4. ASSUME NEW f \in Followers, Stop(f) PROVE BatchHolds'
  BY <1>4, PairParts DEF Stop, Active, cycle, BatchHolds
<1>5. ASSUME NEW w \in Workers, _global_orphan_sweep(w) PROVE BatchHolds'
  BY <1>5, CyclePairs DEF _global_orphan_sweep, books, BatchHolds
<1>6. ASSUME NEW w \in Workers, process_master(w) PROVE BatchHolds'
  <2>1. PICK pauses \in SUBSET {q[2] : q \in Missing(w)} :
          LET opens == {q \in Missing(w) : q[2] \notin pauses}
          IN batch' = [batch EXCEPT ![w] = [opens  |-> opens,
                                            closes |-> @.closes \union Orphans(opens),
                                            pauses |-> pauses]]
    BY <1>6 DEF process_master
  <2>2. UNCHANGED books /\ stage[w] = "mirror"
    BY <1>6 DEF process_master
  <2>3. \A q \in batch'[w].opens : /\ live[q] = 0 /\ made[q] <= 1 /\ q[2] \notin batch'[w].pauses
                                   /\ made[q] > 0 => alloc[q[2]] = "stopped"
    BY <2>1, <2>2, CyclePairs, PairParts DEF ReadHolds
  <2>4. \A q \in batch'[w].closes : master[q[1]] = "closed"
    BY <2>1, CyclePairs DEF BatchHolds
  <2>5. \A f \in batch'[w].pauses : \A p \in Positions : made[<<p, f>>] <= 1
    <3>1. batch'[w].pauses \subseteq {q[2] : q \in Missing(w)}
      BY <2>1
    <3>2. \A q \in Missing(w) : q[2] \in read[w].active
      BY CyclePairs
    <3>3. \A f \in read[w].active : \A p \in Positions : made[<<p, f>>] <= 1
      BY <2>2 DEF ReadHolds
    <3> HIDE DEF CopyInv, TypeOK
    <3>4. batch'[w].pauses \subseteq read[w].active
      BY <3>1, <3>2
    <3> QED
      BY <3>3, <3>4
  <2> QED
    BY <2>1, <2>2, <2>3, <2>4, <2>5 DEF BatchHolds, books
<1>7. ASSUME NEW w \in Workers, CycleCommit(w) PROVE BatchHolds'
  <2>1. \A v \in Workers : /\ batch'[v].opens = {} /\ batch'[v].pauses = {}
                           /\ batch'[v].closes \subseteq batch[v].closes
    BY <1>7, OneAtATime DEF CycleCommit, CycleEnds, Nothing, OneCycle
  <2> QED
    BY <1>7, <2>1 DEF CycleCommit, BatchHolds
<1>8. ASSUME NEW w \in Workers, CycleFails(w) \/ WorkerCrash(w) PROVE BatchHolds'
  <2>1. UNCHANGED books /\ batch' = [batch EXCEPT ![w] = Nothing]
    BY <1>8 DEF CycleFails, CycleEnds, WorkerCrash
  <2> QED
    BY <2>1 DEF BatchHolds, books, Nothing
<1> QED
  BY <1>1, <1>2, <1>3, <1>4, <1>5, <1>6, <1>7, <1>8
  DEF Next, CycleStep, vars, copyVars, books, cycle, CycleStart, CycleStartLost, ReadMaster, Released,
      WorkerRestart, SecondPasses

\* A follower holds one copy of a position at most, and a second one is only opened for
\* a follower who stopped during a cycle: for any number of positions, followers,
\* workers, roll-backs and crashes, as long as a cycle ends before its key does.
THEOREM MirroredOnceHolds ==
    ASSUME TickFits
    PROVE  Spec => []MirroredOnce
<1>1. CopyInv /\ [Next]_vars => CopyInv'
  BY NextLease, NextType, NextOneCycle, NextCopiesEnd, NextReadHolds, NextBatchHolds DEF CopyInv
<1>2. CopyInv => MirroredOnce
  BY DEF CopyInv, CopiesEnd, MirroredOnce
<1> QED
  BY InitCopy, <1>1, <1>2, PTL DEF Spec
=============================================================================

-------------------------- MODULE EngineLock_proofs --------------------------
(***************************************************************************)
(* The leader lock elects one leader for any number of workers, any TTL    *)
(* and any tick shorter than it.                                           *)
(***************************************************************************)
EXTENDS EngineLock, TLAPS

TickFits == MaxTick < Ttl

LEMMA InitLease == LockInit => LeaseInv
BY TimesAssumption DEF LockInit, LeaseInv, LockTypeOK, Working

\* A worker that is not working touches neither the lease nor the leader.
LEMMA WorkerKeepsLease ==
    ASSUME LeaseInv, NEW w \in Workers, WorkerStep(w)
    PROVE  LeaseInv'
<1> USE DEF LeaseInv, LockTypeOK, Working
<1>1. CASE Acquire(w)
  BY <1>1, WorkersAssumption, TimesAssumption DEF Acquire
<1>2. CASE AcquireLost(w)
  BY <1>2, WorkersAssumption, TimesAssumption DEF AcquireLost
<1>3. CASE EndTick(w)
  BY <1>3 DEF EndTick
<1>4. CASE Release(w)
  <2>1. \A v \in Workers : Working(v) => key # w
    BY <1>4 DEF Release
  <2> QED
    BY <1>4, <2>1, WorkersAssumption, TimesAssumption DEF Release
<1>5. CASE ReleaseFails(w)
  BY <1>5 DEF ReleaseFails
<1>6. CASE Crash(w)
  BY <1>6 DEF Crash
<1>7. CASE Restart(w)
  BY <1>7 DEF Restart
<1> QED
  BY <1>1, <1>2, <1>3, <1>4, <1>5, <1>6, <1>7 DEF WorkerStep

\* A second does not end the lease of a working worker: its age was below MaxTick,
\* so more than one second of the key's life was left.
LEMMA SecondKeepsLease ==
    ASSUME TickFits, LeaseInv, Second
    PROVE  LeaseInv'
<1> USE TimesAssumption
<1>1. \A w \in Workers : Working(w) => key = w /\ age[w] < MaxTick /\ ttl > 1
  BY DEF TickFits, LeaseInv, LockTypeOK, Second
<1>2. LockTypeOK'
  BY <1>1 DEF LeaseInv, LockTypeOK, Second, Working
<1>3. (key' = NoOne) <=> (ttl' = 0)
  BY DEF LeaseInv, LockTypeOK, Second
<1>4. \A w \in Workers : Working(w)' => key' = w /\ age'[w] + ttl' = Ttl
  BY <1>1 DEF LeaseInv, LockTypeOK, Second, Working
<1> QED
  BY <1>2, <1>3, <1>4 DEF LeaseInv

\* Two workers never run the same engine's tick together, whatever crashes and
\* whichever replies get lost, as long as a tick is shorter than the key's life.
THEOREM OneLeaderHolds ==
    ASSUME TickFits
    PROVE  LockSpec => []OneLeader
<1>1. LeaseInv /\ [LockNext]_lockVars => LeaseInv'
  <2> SUFFICES ASSUME LeaseInv, [LockNext]_lockVars PROVE LeaseInv'
    OBVIOUS
  <2>1. CASE UNCHANGED lockVars
    BY <2>1 DEF lockVars, LeaseInv, LockTypeOK, Working
  <2> QED
    BY <2>1, WorkerKeepsLease, SecondKeepsLease DEF LockNext
<1>2. LeaseInv => OneLeader
  BY DEF LeaseInv, OneLeader
<1> QED
  BY InitLease, <1>1, <1>2, PTL DEF LockSpec

\* The compare-and-delete makes a release safe even when ticks outlast the key: no
\* worker removes another's lock.
THEOREM OnlyHolderReleasesHolds == LockSpec => OnlyHolderReleases
<1> DEFINE KeyType ==
              /\ key \in Workers \union {NoOne, Lost}
              /\ ttl \in Nat
              /\ pc \in [Workers -> {"idle", "working", "releasing", "down"}]
<1> DEFINE Step == key # NoOne /\ key' = NoOne /\ ttl > 1
                      => key \in Workers /\ pc[key] = "releasing" /\ pc'[key] = "idle"
<1>1. LockInit => KeyType
  BY DEF LockInit
<1>2. KeyType /\ [LockNext]_lockVars => KeyType'
  BY TimesAssumption
  DEF LockNext, WorkerStep, Acquire, AcquireLost, EndTick, Release, ReleaseFails, Crash, Restart,
         Second, lockVars
<1>3. KeyType /\ [LockNext]_lockVars => [Step]_lockVars
  <2> SUFFICES ASSUME KeyType, LockNext PROVE Step
    OBVIOUS
  <2>1. ASSUME NEW w \in Workers, WorkerStep(w) PROVE Step
    BY <2>1, WorkersAssumption
    DEF WorkerStep, Acquire, AcquireLost, EndTick, Release, ReleaseFails, Crash, Restart
  <2>2. CASE Second
    BY <2>2 DEF Second
  <2> QED
    BY <2>1, <2>2 DEF LockNext
<1> HIDE DEF KeyType
<1> QED
  BY <1>1, <1>2, <1>3, PTL DEF LockSpec, OnlyHolderReleases
=============================================================================

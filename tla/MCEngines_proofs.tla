--------------------------- MODULE MCEngines_proofs ---------------------------
(***************************************************************************)
(* The two fee engines. For the overnight fee, one charge a night, from    *)
(* the election of one leader and the stamp, and a bound on the swap       *)
(* calculator's charges; for the management fee, one collection of a day   *)
(* per process. For any number of workers, nights, days and crashes.       *)
(***************************************************************************)
EXTENDS MCEngines, EngineLock_proofs, FiniteSetTheorems

LEMMA InitFee == Init => FeeInv
<1> SUFFICES ASSUME Init PROVE FeeInv
  OBVIOUS
<1>1. LeaseInv /\ LockTypeOK
  BY InitLease DEF Init, LeaseInv
<1>2. TypeOK
  <2>1. /\ night \in Nights
        /\ lastSwap \in 0..MaxNights
        /\ charges \in [Nights -> Nat]
        /\ swaps \in [Nights -> Nat]
        /\ loaded \in [Workers -> 0..MaxNights]
        /\ crashes \in 0..MaxCrashes
    BY NightsAssumption DEF Init, Nights
  <2>2. rollover \in BOOLEAN /\ slept \subseteq Calculators
    BY DEF Init
  <2> QED
    BY <1>1, <2>1, <2>2 DEF TypeOK
<1> QED
  BY <1>1, <1>2 DEF Init, FeeInv, Nights

\* A step of the lock by a worker that holds no loaded position, or the passing of
\* a second.
LEMMA LockStepKeepsFee ==
    ASSUME TickFits, FeeInv, LockNext, UNCHANGED feeVars,
           \A w \in Workers : loaded[w] # 0 => pc'[w] = pc[w]
    PROVE  FeeInv'
<1>1. LeaseInv'
  BY WorkerKeepsLease, SecondKeepsLease DEF FeeInv, LockNext
<1>2. TypeOK'
  BY <1>1 DEF FeeInv, TypeOK, LeaseInv, feeVars
<1> QED
  BY <1>1, <1>2 DEF FeeInv, feeVars, Working

LEMMA NextFee ==
    ASSUME TickFits, FeeInv, [Next]_vars
    PROVE  FeeInv'
<1> USE NightsAssumption
<1>1. ASSUME NEW w \in Workers, TickStart(w) PROVE FeeInv'
  <2>1. LockNext /\ UNCHANGED feeVars
    BY <1>1 DEF TickStart, LockNext, WorkerStep
  <2>2. \A v \in Workers : loaded[v] # 0 => pc'[v] = pc[v]
    BY <1>1 DEF TickStart, Acquire, FeeInv, LeaseInv, LockTypeOK, Working
  <2> QED
    BY <2>1, <2>2, LockStepKeepsFee
<1>2. ASSUME NEW w \in Workers, TickStartLost(w) PROVE FeeInv'
  BY <1>2, LockStepKeepsFee DEF TickStartLost, AcquireLost, LockNext, WorkerStep
<1>3. ASSUME NEW w \in Workers, LoadDue(w) PROVE FeeInv'
  <2>1. LeaseInv' /\ TypeOK'
    BY <1>3 DEF LoadDue, FeeInv, TypeOK, LeaseInv, LockTypeOK, lockVars, Working, Nights
  <2> QED
    BY <1>3, <2>1 DEF LoadDue, FeeInv, TypeOK, lockVars, Working, Nights
<1>4. ASSUME NEW w \in Workers, EndWithoutCharge(w) PROVE FeeInv'
  <2>1. LockNext /\ UNCHANGED feeVars
    BY <1>4 DEF EndWithoutCharge, LockNext, WorkerStep
  <2>2. \A v \in Workers : loaded[v] # 0 => pc'[v] = pc[v]
    BY <1>4 DEF EndWithoutCharge, EndTick, FeeInv, LeaseInv, LockTypeOK
  <2> QED
    BY <2>1, <2>2, LockStepKeepsFee
<1>5. ASSUME NEW w \in Workers, Charge(w) PROVE FeeInv'
  <2>1. LeaseInv'
    BY <1>5, WorkerKeepsLease DEF Charge, WorkerStep, FeeInv
  <2>2. /\ loaded[w] \in Nights
        /\ lastSwap < loaded[w]
        /\ charges[loaded[w]] = 0
    BY <1>5 DEF Charge, FeeInv, TypeOK, Nights
  <2>3. TypeOK'
    BY <1>5, <2>1, <2>2 DEF Charge, Debit, FeeInv, TypeOK, LeaseInv, Nights
  <2>4. \A n \in Nights : charges'[n] <= 1 /\ (charges'[n] = 1 => n <= lastSwap')
    BY <1>5, <2>2 DEF Charge, Debit, FeeInv, TypeOK, Nights
  <2>5. \A v \in Workers : loaded[v] # 0 => v = w
    BY <1>5 DEF Charge, FeeInv, LeaseInv
  <2>6. \A v \in Workers : loaded'[v] = 0
    BY <1>5, <2>5 DEF Charge, FeeInv, TypeOK
  <2> QED
    BY <2>1, <2>3, <2>4, <2>6 DEF FeeInv
<1>6. ASSUME NEW w \in Workers, Released(w) PROVE FeeInv'
  <2>1. LockNext /\ UNCHANGED feeVars
    BY <1>6 DEF Released, LockNext, WorkerStep
  <2>2. \A v \in Workers : loaded[v] # 0 => pc'[v] = pc[v]
    BY <1>6 DEF Released, Release, ReleaseFails, FeeInv, LeaseInv, LockTypeOK, Working
  <2> QED
    BY <2>1, <2>2, LockStepKeepsFee
<1>7. ASSUME NEW w \in Workers, WorkerCrash(w) PROVE FeeInv'
  <2>1. LeaseInv'
    BY <1>7, WorkerKeepsLease DEF WorkerCrash, WorkerStep, FeeInv
  <2>2. TypeOK'
    BY <1>7, <2>1 DEF WorkerCrash, FeeInv, TypeOK, LeaseInv
  <2> QED
    BY <1>7, <2>1, <2>2
    DEF WorkerCrash, Crash, FeeInv, TypeOK, LockTypeOK, Working
<1>8. ASSUME NEW w \in Workers, WorkerRestart(w) PROVE FeeInv'
  <2>1. LockNext /\ UNCHANGED feeVars
    BY <1>8 DEF WorkerRestart, LockNext, WorkerStep
  <2>2. \A v \in Workers : loaded[v] # 0 => pc'[v] = pc[v]
    BY <1>8 DEF WorkerRestart, Restart, FeeInv, LeaseInv, LockTypeOK, Working
  <2> QED
    BY <2>1, <2>2, LockStepKeepsFee
<1>9. CASE SecondPasses
  BY <1>9, LockStepKeepsFee DEF SecondPasses, Second, LockNext
<1>10. CASE NextNight
  <2>1. LeaseInv'
    BY <1>10 DEF NextNight, FeeInv, LeaseInv, LockTypeOK, lockVars, Working
  <2>2. /\ night' \in Nights
        /\ lastSwap' \in 0..MaxNights
        /\ charges' \in [Nights -> Nat]
        /\ swaps' \in [Nights -> Nat]
        /\ loaded' \in [Workers -> 0..MaxNights]
        /\ crashes' \in 0..MaxCrashes
    BY <1>10 DEF NextNight, FeeInv, TypeOK, Nights
  <2>3. rollover' \in BOOLEAN /\ slept' \subseteq Calculators
    BY <1>10 DEF NextNight, FeeInv, TypeOK
  <2>4. TypeOK'
    BY <2>1, <2>2, <2>3 DEF TypeOK, LeaseInv
  <2> QED
    BY <1>10, <2>1, <2>4 DEF NextNight, FeeInv, TypeOK, lockVars, Working, Nights
<1>12. CASE MinutePasses
  <2>1. LeaseInv'
    BY <1>12 DEF MinutePasses, FeeInv, LeaseInv, LockTypeOK, lockVars, Working
  <2>2. rollover' \in BOOLEAN /\ slept' \subseteq Calculators
    BY <1>12 DEF MinutePasses
  <2>3. TypeOK'
    BY <1>12, <2>1, <2>2 DEF MinutePasses, FeeInv, TypeOK, LeaseInv
  <2> QED
    BY <1>12, <2>1, <2>3 DEF MinutePasses, FeeInv, lockVars, Working
<1>13. ASSUME NEW c \in Calculators, Rollover(c) \/ CalculatorRestart(c) PROVE FeeInv'
  <2>1. LeaseInv'
    BY <1>13 DEF Rollover, CalculatorRestart, FeeInv, LeaseInv, LockTypeOK, lockVars, Working
  <2>2. swaps' \in [Nights -> Nat] /\ crashes' \in 0..MaxCrashes
    <3>1. \/ swaps' = [swaps EXCEPT ![night] = @ + 1] /\ crashes' = crashes
          \/ swaps' = swaps /\ crashes < MaxCrashes /\ crashes' = crashes + 1
      BY <1>13 DEF Rollover, CalculatorRestart
    <3>2. swaps \in [Nights -> Nat] /\ night \in Nights /\ crashes \in 0..MaxCrashes
      BY DEF FeeInv, TypeOK
    <3> QED
      BY <3>1, <3>2 DEF Nights
  <2>3. rollover' \in BOOLEAN /\ slept' \subseteq Calculators
    BY <1>13 DEF Rollover, CalculatorRestart, FeeInv, TypeOK
  <2>4. TypeOK'
    BY <1>13, <2>1, <2>2, <2>3
    DEF Rollover, CalculatorRestart, FeeInv, TypeOK, LeaseInv
  <2>5. UNCHANGED <<lockVars, night, lastSwap, charges, loaded>>
    BY <1>13 DEF Rollover, CalculatorRestart
  <2> QED
    BY <2>1, <2>4, <2>5 DEF FeeInv, lockVars, Working
<1>11. CASE UNCHANGED vars
  BY <1>11 DEF vars, lockVars, feeVars, FeeInv, TypeOK, LeaseInv, LockTypeOK, Working
<1> QED
  BY <1>1, <1>2, <1>3, <1>4, <1>5, <1>6, <1>7, <1>8, <1>9, <1>10, <1>11, <1>12, <1>13 DEF Next, Proceed

\* With ticks shorter than the key's life the fee engine debits a position at most
\* once a night.
THEOREM ChargedOnceHolds ==
    ASSUME TickFits
    PROVE  Spec => []ChargedOnceANight
<1>1. FeeInv /\ [Next]_vars => FeeInv'
  BY NextFee
<1>2. FeeInv => ChargedOnceANight
  BY DEF FeeInv, ChargedOnceANight
<1> QED
  BY InitFee, <1>1, <1>2, PTL DEF Spec

\* And the stamp never goes back.
THEOREM StampAdvancesHolds ==
    ASSUME TickFits
    PROVE  Spec => StampAdvances
<1>1. FeeInv /\ [Next]_vars => FeeInv'
  BY NextFee
<1>2. FeeInv /\ [Next]_vars => [lastSwap' >= lastSwap]_vars
  BY DEF FeeInv, TypeOK, Next, TickStart, TickStartLost, Proceed, LoadDue, EndWithoutCharge,
         Charge, Released, WorkerCrash, WorkerRestart, Rollover, CalculatorRestart, MinutePasses, SecondPasses,
         NextNight, feeVars, Nights
<1> QED
  BY InitFee, <1>1, <1>2, PTL DEF Spec, StampAdvances

LEMMA SleptFinite ==
    ASSUME SwapInv
    PROVE  /\ IsFiniteSet(slept) /\ Cardinality(slept) \in Nat
           /\ Cardinality(Calculators) \in Nat /\ Cardinality(slept) <= Cardinality(Calculators)
<1>1. slept \in SUBSET Calculators
  BY DEF SwapInv
<1> QED
  BY <1>1, CalculatorsAssumption, FS_Subset, FS_CardinalityType

LEMMA InitSwap == Init => SwapInv
<1> SUFFICES ASSUME Init PROVE SwapInv
  OBVIOUS
<1>1. Cardinality(Calculators) \in Nat
  BY CalculatorsAssumption, FS_CardinalityType
<1>2. Cardinality(slept) = 0
  BY FS_EmptySet DEF Init
<1> QED
  BY <1>1, <1>2, NightsAssumption DEF Init, SwapInv, SwapsBounded, Nights

LEMMA NextSwap ==
    ASSUME SwapInv, [Next]_vars
    PROVE  SwapInv'
<1>0. Cardinality(slept) \in Nat /\ Cardinality(Calculators) \in Nat
      /\ Cardinality(slept) <= Cardinality(Calculators)
  BY SleptFinite
<1>1. CASE UNCHANGED <<night, swaps, rollover, slept, crashes>>
  BY <1>1 DEF SwapInv, SwapsBounded
<1>2. ASSUME NEW w \in Workers, WorkerCrash(w) PROVE SwapInv'
  BY <1>0, <1>2 DEF WorkerCrash, SwapInv, SwapsBounded, Nights
<1>3. ASSUME NEW c \in Calculators, Rollover(c) PROVE SwapInv'
  <2>1. /\ rollover /\ c \notin slept /\ slept' = slept \union {c}
        /\ swaps' = [swaps EXCEPT ![night] = @ + 1]
        /\ night' = night /\ crashes' = crashes /\ rollover' = rollover
    BY <1>3 DEF Rollover
  <2>2. Cardinality(slept \union {c}) = Cardinality(slept) + 1
    BY <2>1, SleptFinite, FS_AddElement
  <2>3. Cardinality(slept \union {c}) <= Cardinality(Calculators)
    <3>1. slept \union {c} \in SUBSET Calculators
      BY DEF SwapInv
    <3> QED
      BY <3>1, CalculatorsAssumption, FS_Subset
  <2>4. swaps[night] \in Nat /\ swaps[night] <= Cardinality(slept) + crashes /\ crashes \in Nat
    BY <2>1 DEF SwapInv
  <2>5. \A n \in Nights : swaps'[n] = IF n = night THEN swaps[n] + 1 ELSE swaps[n]
    BY <2>1 DEF SwapInv
  <2>6. /\ night' \in Nights /\ swaps' \in [Nights -> Nat]
        /\ slept' \subseteq Calculators /\ crashes' \in Nat
    BY <2>1 DEF SwapInv
  <2>7. swaps'[night'] <= Cardinality(slept)' + crashes'
    BY <1>0, <2>1, <2>2, <2>4, <2>5 DEF SwapInv
  <2>8. SwapsBounded'
    BY <1>0, <2>1, <2>2, <2>3, <2>4, <2>5 DEF SwapInv, SwapsBounded
  <2>9. \A n \in Nights : n > night' => swaps'[n] = 0
    BY <2>1, <2>5 DEF SwapInv, Nights
  <2> QED
    BY <2>6, <2>7, <2>8, <2>9 DEF SwapInv
<1>4. ASSUME NEW c \in Calculators, CalculatorRestart(c) PROVE SwapInv'
  <2>1. /\ c \in slept /\ slept' = slept \ {c} /\ crashes' = crashes + 1
        /\ UNCHANGED <<night, swaps, rollover>>
    BY <1>4 DEF CalculatorRestart
  <2>2. Cardinality(slept \ {c}) = Cardinality(slept) - 1
    BY <2>1, SleptFinite, FS_RemoveElement
  <2> QED
    BY <1>0, <2>1, <2>2 DEF SwapInv, SwapsBounded, Nights
<1>5. CASE MinutePasses
  BY <1>5 DEF MinutePasses, SwapInv, SwapsBounded
<1>6. CASE NextNight
  BY <1>0, <1>6, NightsAssumption DEF NextNight, SwapInv, SwapsBounded, Nights
<1> QED
  BY <1>1, <1>2, <1>3, <1>4, <1>5, <1>6
  DEF Next, vars, feeVars, TickStart, TickStartLost, Proceed, LoadDue, EndWithoutCharge, Charge,
      Released, WorkerRestart, SecondPasses

\* The swap calculator debits a night at most once per process that runs it, restarts
\* counted: the sleep past the minute keeps it at that, with no stamp and no lock.
THEOREM SwapsBoundedHolds == Spec => []SwapsBounded
<1>1. SwapInv /\ [Next]_vars => SwapInv'
  BY NextSwap
<1>2. SwapInv => SwapsBounded
  BY DEF SwapInv
<1> QED
  BY InitSwap, <1>1, <1>2, PTL DEF Spec

-----------------------------------------------------------------------------
(***************************************************************************)
(* The management fee. Each process starts a collection only when its own  *)
(* memory says the day is not done. (An instance has a Cardinality of its  *)
(* own, which is the same function: SameCount.)                            *)
(***************************************************************************)

\* Finitely many workers.
Finite == IsFiniteSet(Workers)

LEMMA SameCount == ASSUME NEW S PROVE M!Cardinality(S) = Cardinality(S)
BY DEF M!Cardinality, Cardinality

LEMMA DoneFinite ==
    ASSUME Finite, NEW d
    PROVE  /\ IsFiniteSet(M!Done(d)) /\ Cardinality(M!Done(d)) \in Nat
           /\ Cardinality(Workers) \in Nat /\ Cardinality(M!Done(d)) <= Cardinality(Workers)
<1>1. M!Done(d) \in SUBSET Workers
  BY DEF M!Done
<1> QED
  BY <1>1, FS_Subset, FS_CardinalityType DEF Finite

LEMMA InitMemory == ASSUME Finite, M!Init PROVE M!MemoryInv
<1>1. M!TypeOK
  BY DaysAssumption, NightsAssumption DEF M!Init, M!LockInit, M!LockTypeOK, M!TypeOK, M!Days
<1>2. \A w \in Workers : ~M!Working(w)
  BY DEF M!Init, M!LockInit, M!Working
<1>3. \A d \in M!Days : fees[d] <= Cardinality(M!Done(d)) + feeCrashes
  BY DoneFinite, SameCount DEF M!Init
<1> QED
  BY <1>1, <1>2, <1>3, SameCount DEF M!MemoryInv

\* The lock's variables keep their types in every step, whoever holds the key.
LEMMA LockTypes ==
    ASSUME M!LockTypeOK, [M!LockNext]_(M!lockVars)
    PROVE  M!LockTypeOK'
BY DaysAssumption
DEF M!LockNext, M!WorkerStep, M!Acquire, M!AcquireLost, M!EndTick, M!Release,
    M!ReleaseFails, M!Crash, M!Restart, M!Second, M!lockVars, M!LockTypeOK, M!Working

LEMMA NextMemory ==
    ASSUME Finite, M!MemoryInv, [M!Next]_(M!vars)
    PROVE  M!MemoryInv'
<1> USE SameCount, NightsAssumption, DaysAssumption DEF M!MemoryInv, M!TypeOK
<1>0. M!LockTypeOK'
  <2>1. [M!LockNext]_(M!lockVars)
    BY DEF M!Next, M!vars, M!FeeStart, M!FeeStartLost, M!Collect, M!CollectFails, M!Released, M!WorkerCrash,
           M!WorkerRestart, M!SecondPasses, M!NextDay, M!LockNext, M!WorkerStep
  <2> QED
    BY <2>1, LockTypes
<1>1. ASSUME NEW w \in Workers, M!FeeStart(w) PROVE M!MemoryInv'
  BY <1>0, <1>1 DEF M!FeeStart, M!Due, M!Acquire, M!LockTypeOK, M!Working, M!Done
<1>2. ASSUME NEW w \in Workers,
             M!FeeStartLost(w) \/ M!CollectFails(w) \/ M!Released(w) \/ M!WorkerRestart(w)
      PROVE  M!MemoryInv'
  <2>1. UNCHANGED M!dayVars
    BY <1>2 DEF M!FeeStartLost, M!CollectFails, M!Released, M!WorkerRestart
  <2>2. \A v \in Workers : M!Working(v)' => M!Working(v)
    BY <1>2 DEF M!FeeStartLost, M!AcquireLost, M!CollectFails, M!EndTick, M!Released, M!Release, M!ReleaseFails,
                M!WorkerRestart, M!Restart, M!LockTypeOK, M!Working
  <2> QED
    BY <1>0, <2>1, <2>2 DEF M!dayVars, M!Done
<1>3. ASSUME NEW w \in Workers, M!Collect(w) PROVE M!MemoryInv'
  <2> DEFINE d0 == began[w]
  <2>1. /\ d0 \in M!Days /\ lastRun[w] < d0
        /\ fees' = [fees EXCEPT ![d0] = @ + 1] /\ lastRun' = [lastRun EXCEPT ![w] = d0]
        /\ feeCrashes' = feeCrashes /\ feeCrashes \in Nat /\ lastRun[w] \in Nat
    BY <1>3 DEF M!Collect, M!EndTick
  <2>2. M!TypeOK'
    BY <1>0, <1>3 DEF M!Collect, M!Days
  <2>3. \A v \in Workers : M!Working(v)' => lastRun'[v] < began'[v]
    BY <1>3 DEF M!Collect, M!EndTick, M!Working, M!LockTypeOK
  <2>4. ASSUME NEW d \in M!Days PROVE fees'[d] <= Cardinality(M!Done(d))' + feeCrashes'
    <3>0. fees \in [M!Days -> Nat]
      OBVIOUS
    <3>1. d \in Nat /\ d0 \in Nat /\ fees[d] \in Nat
      BY <2>1, <3>0 DEF M!Days
    <3>2. CASE d > d0
      <4>1. M!Done(d)' = M!Done(d) /\ fees'[d] = fees[d]
        BY <2>1, <3>1, <3>2 DEF M!Done, M!Days
      <4> QED
        BY <2>1, <4>1
    <3>3. CASE d <= d0
      <4>1. M!Done(d)' = M!Done(d) \union {w}
        BY <2>1, <3>1, <3>3 DEF M!Done, M!Days
      <4>2. Cardinality(M!Done(d) \union {w})
              = IF w \in M!Done(d) THEN Cardinality(M!Done(d)) ELSE Cardinality(M!Done(d)) + 1
        <5> HIDE DEF M!MemoryInv, M!TypeOK
        <5>1. IsFiniteSet(M!Done(d))
          BY DoneFinite
        <5> QED
          BY <5>1, FS_AddElement
      <4>3. d = d0 => w \notin M!Done(d)
        BY <2>1, <3>1 DEF M!Done
      <4>4. fees'[d] = IF d = d0 THEN fees[d] + 1 ELSE fees[d]
        BY <2>1
      <4>5. Cardinality(M!Done(d))' = Cardinality(M!Done(d) \union {w})
        BY <4>1
      <4>6. Cardinality(M!Done(d)) \in Nat
        BY DoneFinite
      <4>7. fees[d] <= Cardinality(M!Done(d)) + feeCrashes
        OBVIOUS
      <4> QED
        BY <2>1, <3>1, <4>2, <4>3, <4>4, <4>5, <4>6, <4>7
    <3> QED
      BY <3>1, <3>2, <3>3
  <2> QED
    BY <2>2, <2>3, <2>4
<1>4. ASSUME NEW w \in Workers, M!WorkerCrash(w) PROVE M!MemoryInv'
  <2>1. M!TypeOK'
    BY <1>0, <1>4 DEF M!WorkerCrash
  <2>2. \A v \in Workers : M!Working(v)' => lastRun'[v] < began'[v]
    BY <1>4 DEF M!WorkerCrash, M!Crash, M!Working, M!LockTypeOK
  <2>3. ASSUME NEW d \in M!Days PROVE fees'[d] <= Cardinality(M!Done(d))' + feeCrashes'
    <3>1. M!Done(d)' = M!Done(d) \ {w}
      BY <1>4 DEF M!WorkerCrash, M!Done, M!Days
    <3>2. Cardinality(M!Done(d) \ {w})
            = IF w \in M!Done(d) THEN Cardinality(M!Done(d)) - 1 ELSE Cardinality(M!Done(d))
      <4> HIDE DEF M!MemoryInv, M!TypeOK
      <4>1. IsFiniteSet(M!Done(d))
        BY DoneFinite
      <4> QED
        BY <4>1, FS_RemoveElement
    <3>3. fees'[d] = fees[d] /\ fees[d] \in Nat /\ feeCrashes' = feeCrashes + 1 /\ feeCrashes \in Nat
      BY <1>4 DEF M!WorkerCrash
    <3>4. Cardinality(M!Done(d))' = Cardinality(M!Done(d) \ {w})
      BY <3>1
    <3>5. Cardinality(M!Done(d)) \in Nat /\ fees[d] <= Cardinality(M!Done(d)) + feeCrashes
      BY DoneFinite
    <3> QED
      BY <3>2, <3>3, <3>4, <3>5
  <2> QED
    BY <2>1, <2>2, <2>3
<1>5. CASE M!SecondPasses
  BY <1>0, <1>5 DEF M!SecondPasses, M!Second, M!dayVars, M!Done, M!Working
<1>6. CASE M!NextDay
  <2>1. M!TypeOK'
    <3>1. day' \in M!Days
      BY <1>6 DEF M!NextDay, M!Days
    <3> QED
      BY <1>0, <1>6, <3>1 DEF M!NextDay
  <2> QED
    BY <1>6, <2>1 DEF M!NextDay, M!lockVars, M!Done, M!Working
<1>7. CASE UNCHANGED M!vars
  BY <1>0, <1>7 DEF M!vars, M!lockVars, M!dayVars, M!Done, M!Working
<1> QED
  BY <1>1, <1>2, <1>3, <1>4, <1>5, <1>6, <1>7 DEF M!Next

\* Side by side each engine behaves as it does alone: the other's steps leave it as it is.
LEMMA ComposedBehaviours == MCSpec => Spec /\ M!Spec
<1>1. MCInit => Init /\ M!Init
  BY DEF MCInit
<1>2. [MCNext]_engineVars => [Next]_vars
  BY DEF MCNext, InOvernight, InManagement, engineVars
<1>3. [MCNext]_engineVars => [M!Next]_(M!vars)
  BY DEF MCNext, InOvernight, InManagement, engineVars, dailyVars, M!vars, M!lockVars, M!dayVars
<1> QED
  BY <1>1, <1>2, <1>3, PTL DEF MCSpec, Spec, M!Spec

\* The management fee of a day may be collected again by each worker that leads that day;
\* this bounds the repetition: never more often than processes lived in the day, restarts
\* counted, for any number of workers, days and crashes, and even when ticks outlast the
\* leader's key and several workers collect at once.
THEOREM FeeOncePerProcessHolds ==
    ASSUME Finite
    PROVE  MCSpec => []FeeOncePerProcess
<1>1. M!Init => M!MemoryInv
  BY InitMemory
<1>2. M!MemoryInv /\ [M!Next]_(M!vars) => M!MemoryInv'
  BY NextMemory
<1>3. M!MemoryInv => FeeOncePerProcess
  <2> SUFFICES ASSUME M!MemoryInv, NEW d \in M!Days
               PROVE  fees[d] <= Cardinality(Workers) + feeCrashes
    BY SameCount DEF FeeOncePerProcess, M!FeeOncePerProcess
  <2>1. fees[d] \in Nat /\ feeCrashes \in Nat /\ fees[d] <= Cardinality(M!Done(d)) + feeCrashes
    BY NightsAssumption, SameCount DEF M!MemoryInv, M!TypeOK
  <2> QED
    BY <2>1, DoneFinite
<1> QED
  BY <1>1, <1>2, <1>3, ComposedBehaviours, PTL DEF M!Spec

\* What was proved of the overnight fee engine alone holds beside the other one.
THEOREM ChargedOnceBesideHolds ==
    ASSUME TickFits
    PROVE  MCSpec => []ChargedOnceANight /\ StampAdvances
BY ChargedOnceHolds, StampAdvancesHolds, ComposedBehaviours, PTL
=============================================================================

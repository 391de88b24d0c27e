---------------------------- MODULE OvernightFee ----------------------------
(***************************************************************************)
(* The nightly charge on one leveraged position. The gateway's overnight   *)
(* fee engine runs under the leader lock and stamps                        *)
(* positions.last_swap_at; the risk engine's swap calculator charges at    *)
(* 21:00 UTC and stamps nothing.                                           *)
(*                                                                         *)
(* Time has two grains: seconds for the lock (EngineLock), and nights for  *)
(* the 24 hours between two charges.                                       *)
(***************************************************************************)
EXTENDS EngineLock, FiniteSets

CONSTANTS
    Calculators,    \* risk engine processes
    MaxNights,      \* bound: nights in one behaviour
    MaxCrashes      \* bound: crashes in one behaviour

ASSUME NightsAssumption == MaxNights \in Nat \ {0} /\ MaxCrashes \in Nat

ASSUME CalculatorsAssumption == IsFiniteSet(Calculators)

VARIABLES
    night,      \* the current night
    lastSwap,   \* positions.last_swap_at, as a night; 0 for NULL
    charges,    \* committed debits of the position by the fee engine, per night
    swaps,      \* committed debits of the position by calculators, per night
    loaded,     \* the night a worker's tick selected the position in, 0 if it did not
    rollover,   \* it is 21:00, the first minute of the night
    slept,      \* calculators that charged in this minute and now sleep 60 s
    crashes     \* crashes so far, of workers and calculators

feeVars == <<night, lastSwap, charges, swaps, loaded, rollover, slept, crashes>>
vars == <<lockVars, feeVars>>

Nights == 1..MaxNights

TypeOK ==
    /\ LockTypeOK
    /\ night \in Nights
    /\ lastSwap \in 0..MaxNights
    /\ charges \in [Nights -> Nat]
    /\ swaps \in [Nights -> Nat]
    /\ loaded \in [Workers -> 0..MaxNights]
    /\ rollover \in BOOLEAN
    /\ slept \subseteq Calculators
    /\ crashes \in 0..MaxCrashes

Init ==
    /\ LockInit
    /\ night = 1
    /\ lastSwap = 0
    /\ charges = [n \in Nights |-> 0]
    /\ swaps = [n \in Nights |-> 0]
    /\ loaded = [w \in Workers |-> 0]
    /\ rollover = TRUE
    /\ slept = {}
    /\ crashes = 0

Debit(n) == charges' = [charges EXCEPT ![n] = @ + 1]

-----------------------------------------------------------------------------
(* The overnight fee engine. *)

TickStart(w) == Acquire(w) /\ UNCHANGED feeVars

TickStartLost(w) == AcquireLost(w) /\ UNCHANGED feeVars

\* Variant of LoadDue: the cutoff compares with the night before the last.
LoadDueLoosely(w) ==
    /\ Working(w)
    /\ loaded[w] = 0
    /\ lastSwap <= night
    /\ loaded' = [loaded EXCEPT ![w] = night]
    /\ UNCHANGED <<lockVars, night, lastSwap, charges, swaps, rollover, slept, crashes>>

\* The position's last charge is 24 hours old: the tick will charge it.
LoadDue(w) ==
    /\ Working(w)
    /\ loaded[w] = 0
    /\ lastSwap < night
    /\ loaded' = [loaded EXCEPT ![w] = night]
    /\ UNCHANGED <<lockVars, night, lastSwap, charges, swaps, rollover, slept, crashes>>

\* Nothing is due, or the tick failed and was rolled back.
EndWithoutCharge(w) ==
    /\ loaded[w] = 0
    /\ EndTick(w)
    /\ UNCHANGED feeVars

\* Variant of Charge: last_swap_at is not written.
ChargeUnstamped(w) ==
    /\ loaded[w] # 0
    /\ EndTick(w)
    /\ Debit(loaded[w])
    /\ loaded' = [loaded EXCEPT ![w] = 0]
    /\ UNCHANGED <<night, lastSwap, swaps, rollover, slept, crashes>>

\* The debit, the stamp and the ledger row commit together.
Charge(w) ==
    /\ loaded[w] # 0
    /\ EndTick(w)
    /\ Debit(loaded[w])
    /\ lastSwap' = loaded[w]
    /\ loaded' = [loaded EXCEPT ![w] = 0]
    /\ UNCHANGED <<night, swaps, rollover, slept, crashes>>

Released(w) == (Release(w) \/ ReleaseFails(w)) /\ UNCHANGED feeVars

WorkerCrash(w) ==
    /\ crashes < MaxCrashes
    /\ crashes' = crashes + 1
    /\ Crash(w)
    /\ loaded' = [loaded EXCEPT ![w] = 0]
    /\ UNCHANGED <<night, lastSwap, charges, swaps, rollover, slept>>

WorkerRestart(w) == Restart(w) /\ UNCHANGED feeVars

-----------------------------------------------------------------------------
(* The risk engine's swap calculator. *)

\* Variant of Rollover: no sleep past the minute, so the loop sees 21:00 again.
RolloverAwake(c) ==
    /\ rollover
    /\ swaps[night] < 4
    /\ swaps' = [swaps EXCEPT ![night] = @ + 1]
    /\ UNCHANGED <<lockVars, night, lastSwap, charges, loaded, rollover, slept, crashes>>

\* Every open position is debited, then the calculator sleeps past the minute.
Rollover(c) ==
    /\ rollover
    /\ c \notin slept
    /\ swaps' = [swaps EXCEPT ![night] = @ + 1]
    /\ slept' = slept \union {c}
    /\ UNCHANGED <<lockVars, night, lastSwap, charges, loaded, rollover, crashes>>

\* Only the sleeping process knows that it charged: a restarted one does not.
CalculatorRestart(c) ==
    /\ c \in slept
    /\ crashes < MaxCrashes
    /\ crashes' = crashes + 1
    /\ slept' = slept \ {c}
    /\ UNCHANGED <<lockVars, night, lastSwap, charges, swaps, loaded, rollover>>

-----------------------------------------------------------------------------
(* Time. *)

MinutePasses ==
    /\ rollover
    /\ rollover' = FALSE
    /\ slept' = {}
    /\ UNCHANGED <<lockVars, night, lastSwap, charges, swaps, loaded, crashes>>

SecondPasses == Second /\ UNCHANGED feeVars

\* Night falls between two ticks or in the middle of one.
NextNight ==
    /\ night < MaxNights
    /\ ~rollover
    /\ night' = night + 1
    /\ rollover' = TRUE
    /\ UNCHANGED <<lockVars, lastSwap, charges, swaps, loaded, slept, crashes>>

Proceed(w) == LoadDue(w) \/ EndWithoutCharge(w) \/ Charge(w)

Next ==
    \/ \E w \in Workers :
          \/ TickStart(w) \/ TickStartLost(w) \/ Proceed(w)
          \/ Released(w) \/ WorkerCrash(w) \/ WorkerRestart(w)
    \/ \E c \in Calculators : Rollover(c) \/ CalculatorRestart(c)
    \/ MinutePasses
    \/ SecondPasses
    \/ NextNight

Spec == Init /\ [][Next]_vars

-----------------------------------------------------------------------------
(* Properties. *)

\* The fee engine debits a position for a night at most once, whatever crashes and
\* whoever holds the lock.
ChargedOnceANight == \A n \in Nights : charges[n] <= 1

\* What bounds a night's debits by the swap calculator is the number of processes
\* that run it, and the restarts among them.
SwapsBounded ==
    \A n \in Nights : swaps[n] <= Cardinality(Calculators) + crashes

\* The stamp never goes back: no tick commits a charge computed before a later one
\* was committed.
StampAdvances == [][lastSwap' >= lastSwap]_vars

\* The inductive invariant behind it: a night that was charged is stamped, and what
\* a tick is about to charge is newer than the stamp.
FeeInv ==
    /\ TypeOK
    /\ LeaseInv
    /\ \A n \in Nights : charges[n] <= 1 /\ (charges[n] = 1 => n <= lastSwap)
    /\ \A w \in Workers :
          loaded[w] # 0 => Working(w) /\ lastSwap < loaded[w] /\ loaded[w] <= night

\* The inductive invariant behind SwapsBounded: in the first minute of a night, every
\* swap has put a calculator to sleep, and only a restart wakes one up.
SwapInv ==
    /\ night \in Nights /\ swaps \in [Nights -> Nat] /\ slept \subseteq Calculators /\ crashes \in Nat
    /\ \A n \in Nights : n > night => swaps[n] = 0
    /\ rollover => swaps[night] <= Cardinality(slept) + crashes
    /\ SwapsBounded
=============================================================================

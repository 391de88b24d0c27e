---------------------------- MODULE ManagementFee ----------------------------
(***************************************************************************)
(* The daily management fee of managed allocations. The stats engine of    *)
(* each gateway worker collects it under the leader lock "stats_mgmt_fee", *)
(* when its own memory says that a day has passed; nothing in the database *)
(* says that a day was collected.                                          *)
(***************************************************************************)
EXTENDS EngineLock, FiniteSets

CONSTANTS
    MaxDays,      \* bound: days in one behaviour
    MaxCrashes    \* bound: crashes of a worker in one behaviour

VARIABLES
    day,        \* the current day
    began,      \* the day each worker's tick read its clock
    lastRun,    \* _mgmt_fee_last_run of each process, as a day; 0 when it starts
    fees,       \* committed debits of the investor, per day
    credits,    \* committed credits of the master, per day
    crashes     \* crashes so far

dayVars == <<day, began, lastRun, fees, credits, crashes>>
vars == <<lockVars, dayVars>>

Days == 1..MaxDays

TypeOK ==
    /\ LockTypeOK
    /\ day \in Days
    /\ began \in [Workers -> Days]
    /\ lastRun \in [Workers -> 0..MaxDays]
    /\ fees \in [Days -> Nat]
    /\ credits \in [Days -> Nat]
    /\ crashes \in 0..MaxCrashes

Init ==
    /\ LockInit
    /\ day = 1
    /\ began = [w \in Workers |-> 1]
    /\ lastRun = [w \in Workers |-> 0]
    /\ fees = [d \in Days |-> 0]
    /\ credits = [d \in Days |-> 0]
    /\ crashes = 0

-----------------------------------------------------------------------------
Due(w) == lastRun[w] < day

\* The interval is over for this process, and it wins the lock.
FeeStart(w) ==
    /\ Due(w)
    /\ Acquire(w)
    /\ began' = [began EXCEPT ![w] = day]
    /\ UNCHANGED <<day, lastRun, fees, credits, crashes>>

FeeStartLost(w) == Due(w) /\ AcquireLost(w) /\ UNCHANGED dayVars

\* One transaction debits the investors and credits the masters; then the process
\* remembers its run.
Collect(w) ==
    /\ EndTick(w)
    /\ fees' = [fees EXCEPT ![began[w]] = @ + 1]
    /\ credits' = [credits EXCEPT ![began[w]] = @ + 1]
    /\ lastRun' = [lastRun EXCEPT ![w] = began[w]]
    /\ UNCHANGED <<day, began, crashes>>

\* The transaction fails and is rolled back; the process will try again.
CollectFails(w) == EndTick(w) /\ UNCHANGED dayVars

Released(w) == (Release(w) \/ ReleaseFails(w)) /\ UNCHANGED dayVars

\* A process that starts again remembers nothing.
WorkerCrash(w) ==
    /\ crashes < MaxCrashes
    /\ crashes' = crashes + 1
    /\ Crash(w)
    /\ lastRun' = [lastRun EXCEPT ![w] = 0]
    /\ UNCHANGED <<day, began, fees, credits>>

WorkerRestart(w) == Restart(w) /\ UNCHANGED dayVars

SecondPasses == Second /\ UNCHANGED dayVars

NextDay ==
    /\ day < MaxDays
    /\ day' = day + 1
    /\ UNCHANGED <<lockVars, began, lastRun, fees, credits, crashes>>

Next ==
    \/ \E w \in Workers :
          \/ FeeStart(w) \/ FeeStartLost(w) \/ Collect(w) \/ CollectFails(w)
          \/ Released(w) \/ WorkerCrash(w) \/ WorkerRestart(w)
    \/ SecondPasses
    \/ NextDay

Spec == Init /\ [][Next]_vars

-----------------------------------------------------------------------------
(* Properties. *)

\* stats_engine.py means the fee to be collected once a day.  It is not, with two workers and
\* nothing going wrong: each worker that gets the lock that day collects it.  All the code
\* bounds is how often that happens, once for each process that lived in the day.
FeeOncePerProcess == \A d \in Days : fees[d] <= Cardinality(Workers) + crashes

\* The processes whose memory says that they are done with a day.
Done(d) == {w \in Workers : lastRun[w] >= d}

\* The inductive invariant behind it: each charge of a day has put a process among those
\* that are done with it, and only a crash takes one away again.
MemoryInv ==
    /\ TypeOK
    /\ \A w \in Workers : Working(w) => lastRun[w] < began[w]
    /\ \A d \in Days : fees[d] <= Cardinality(Done(d)) + crashes
=============================================================================

----------------------------- MODULE MCEngines -----------------------------
(* The two fee engines, side by side: each behaviour runs one of them.  The *)
(* overnight engine's ticks end before its key expires; the management fee  *)
(* engine's may outlast it.                                                 *)
EXTENDS OvernightFee

CONSTANTS
    ShortTtl,   \* ttl_seconds of the management fee engine's lock
    LongTick,   \* its longest tick
    MaxDays     \* bound: days in one behaviour

ASSUME DaysAssumption == MaxDays \in Nat \ {0} /\ ShortTtl \in Nat \ {0} /\ LongTick \in Nat

VARIABLES
    engine,     \* the engine at work
    feeKey, feeTtl, feePc, feeAge,                     \* the lock of the management fee engine
    day, began, lastRun, fees, credits, feeCrashes     \* and its state

M == INSTANCE ManagementFee WITH
        Ttl <- ShortTtl, MaxTick <- LongTick,
        key <- feeKey, ttl <- feeTtl, pc <- feePc, age <- feeAge, crashes <- feeCrashes

dailyVars == <<feeKey, feeTtl, feePc, feeAge, day, began, lastRun, fees, credits, feeCrashes>>
engineVars == <<engine, vars, dailyVars>>

MCInit == engine \in {"overnight", "management"} /\ Init /\ M!Init

InOvernight(A) == engine = "overnight" /\ A /\ UNCHANGED <<engine, dailyVars>>
InManagement(A) == engine = "management" /\ A /\ UNCHANGED <<engine, vars>>

MCNext == InOvernight(Next) \/ InManagement(M!Next)

\* Time passes, workers start again, one of them gets the lock now and then; neither the
\* database nor Redis fails every time, and not every worker dies in every tick.
MCFairness ==
    /\ WF_engineVars(InOvernight(SecondPasses) \/ InManagement(M!SecondPasses))
    /\ SF_engineVars(\E w \in Workers : InOvernight(TickStart(w)))
    /\ \A w \in Workers :
          /\ SF_engineVars(InOvernight(LoadDue(w)) \/ InManagement(M!FeeStart(w)))
          /\ SF_engineVars(InManagement(M!Collect(w)))
          /\ WF_engineVars(InOvernight(Charge(w)) \/ InManagement(M!Collect(w) \/ M!CollectFails(w)))
          /\ WF_engineVars(InOvernight(Proceed(w)))
          /\ WF_engineVars(InOvernight(Released(w)) \/ InManagement(M!Released(w)))
          /\ WF_engineVars(InOvernight(WorkerRestart(w)) \/ InManagement(M!WorkerRestart(w)))

MCSpec == MCInit /\ [][MCNext]_engineVars /\ MCFairness

-----------------------------------------------------------------------------
\* How often a day's management fee may be collected, which should be once: as often as
\* processes lived in it.
FeeOncePerProcess == M!FeeOncePerProcess

\* The last night is charged by the overnight engine in the end, and the last day by the
\* management fee engine: a crashed holder of the lock stops neither.
LastPeriodCharged ==
    ((engine = "overnight" /\ night = MaxNights) \/ (engine = "management" /\ day = MaxDays))
        ~> (charges[MaxNights] >= 1 \/ fees[MaxDays] >= 1)
=============================================================================

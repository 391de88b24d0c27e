----------------------------- MODULE EngineLock -----------------------------
(***************************************************************************)
(* The leader lock of the background engines: SET key token NX EX ttl at   *)
(* the top of a tick, a compare-and-delete script at its end.              *)
(*                                                                         *)
(* Time is counted where it matters: `ttl' is what remains of the key's    *)
(* life, `age' how long ago a worker's SET was executed. A token is unique *)
(* to one acquisition; a worker has one live token at most, so the key     *)
(* stores the worker, or Lost for a SET whose reply never arrived.         *)
(***************************************************************************)
EXTENDS Integers

CONSTANTS
    Workers,    \* uvicorn worker processes
    NoOne,      \* the key does not exist
    Lost,       \* the key holds a token no worker knows
    Ttl,        \* ttl_seconds of the engine
    MaxTick     \* the longest tick body, from its SET to its end

ASSUME WorkersAssumption ==
    NoOne \notin Workers /\ Lost \notin Workers /\ NoOne # Lost

ASSUME TimesAssumption == Ttl \in Nat \ {0} /\ MaxTick \in Nat

VARIABLES
    key,    \* who holds engine_lock:<name>
    ttl,    \* seconds until Redis drops the key
    pc,     \* where each worker's engine stands
    age     \* seconds since the worker's SET succeeded

lockVars == <<key, ttl, pc, age>>

LockTypeOK ==
    /\ key \in Workers \union {NoOne, Lost}
    /\ ttl \in 0..Ttl
    /\ pc \in [Workers -> {"idle", "working", "releasing", "down"}]
    /\ age \in [Workers -> 0..MaxTick]

LockInit ==
    /\ key = NoOne
    /\ ttl = 0
    /\ pc = [w \in Workers |-> "idle"]
    /\ age = [w \in Workers |-> 0]

Working(w) == pc[w] = "working"

-----------------------------------------------------------------------------
\* Variant of Acquire: SET without NX.
AcquireAlways(w) ==
    /\ pc[w] = "idle"
    /\ key' = w
    /\ ttl' = Ttl
    /\ pc' = [pc EXCEPT ![w] = "working"]
    /\ age' = [age EXCEPT ![w] = 0]

\* SET NX wins.  A worker that finds the key taken, or Redis unreachable, skips
\* its tick: that changes nothing.
Acquire(w) ==
    /\ pc[w] = "idle"
    /\ key = NoOne
    /\ key' = w
    /\ ttl' = Ttl
    /\ pc' = [pc EXCEPT ![w] = "working"]
    /\ age' = [age EXCEPT ![w] = 0]

\* SET NX was executed but the connection broke before its reply: the worker
\* skips the tick and nobody will delete the key.
AcquireLost(w) ==
    /\ pc[w] = "idle"
    /\ key = NoOne
    /\ key' = Lost
    /\ ttl' = Ttl
    /\ UNCHANGED <<pc, age>>

\* The tick body ends, normally or with an exception.
EndTick(w) ==
    /\ Working(w)
    /\ pc' = [pc EXCEPT ![w] = "releasing"]
    /\ UNCHANGED <<key, ttl, age>>

\* Variant of Release: a plain DEL.
ReleaseAny(w) ==
    /\ pc[w] = "releasing"
    /\ key' = NoOne
    /\ ttl' = 0
    /\ pc' = [pc EXCEPT ![w] = "idle"]
    /\ UNCHANGED age

\* The script deletes the key only if it still holds this worker's token.
Release(w) ==
    /\ pc[w] = "releasing"
    /\ key' = IF key = w THEN NoOne ELSE key
    /\ ttl' = IF key = w THEN 0 ELSE ttl
    /\ pc' = [pc EXCEPT ![w] = "idle"]
    /\ UNCHANGED age

\* The script call fails: the key stays until Redis drops it.
ReleaseFails(w) ==
    /\ pc[w] = "releasing"
    /\ pc' = [pc EXCEPT ![w] = "idle"]
    /\ UNCHANGED <<key, ttl, age>>

Crash(w) ==
    /\ pc[w] # "down"
    /\ pc' = [pc EXCEPT ![w] = "down"]
    /\ UNCHANGED <<key, ttl, age>>

Restart(w) ==
    /\ pc[w] = "down"
    /\ pc' = [pc EXCEPT ![w] = "idle"]
    /\ UNCHANGED <<key, ttl, age>>

\* Variant of Second: the key was set without EX.
SecondForever ==
    /\ \A w \in Workers : Working(w) => age[w] < MaxTick
    /\ age' = [w \in Workers |-> IF Working(w) THEN age[w] + 1 ELSE age[w]]
    /\ UNCHANGED <<key, ttl, pc>>

\* A second passes, and no tick body outlasts MaxTick.
Second ==
    /\ \A w \in Workers : Working(w) => age[w] < MaxTick
    /\ key # NoOne \/ \E w \in Workers : Working(w)
    /\ age' = [w \in Workers |-> IF Working(w) THEN age[w] + 1 ELSE age[w]]
    /\ ttl' = IF ttl > 0 THEN ttl - 1 ELSE 0
    /\ key' = IF ttl <= 1 THEN NoOne ELSE key
    /\ UNCHANGED pc

-----------------------------------------------------------------------------
WorkerStep(w) ==
    \/ Acquire(w) \/ AcquireLost(w) \/ EndTick(w)
    \/ Release(w) \/ ReleaseFails(w) \/ Crash(w) \/ Restart(w)

LockNext == (\E w \in Workers : WorkerStep(w)) \/ Second

LockSpec == LockInit /\ [][LockNext]_lockVars

-----------------------------------------------------------------------------
(* Properties. *)

\* Two workers never run the tick body of one engine at the same time, crashes
\* and lost replies included, when a tick is shorter than the key's life.
OneLeader == \A v, w \in Workers : Working(v) /\ Working(w) => v = w

\* A worker never takes another's lock away: a key whose life is not over is only
\* removed by the worker it belongs to, at the end of its own tick.
OnlyHolderReleases ==
    [][key # NoOne /\ key' = NoOne /\ ttl > 1
          => key \in Workers /\ pc[key] = "releasing" /\ pc'[key] = "idle"]_lockVars

\* The inductive invariant behind OneLeader: a working worker still owns the key,
\* and the key's remaining life and the age of the tick add up to Ttl.
LeaseInv ==
    /\ LockTypeOK
    /\ (key = NoOne) <=> (ttl = 0)
    /\ \A w \in Workers : Working(w) => key = w /\ age[w] + ttl = Ttl
=============================================================================

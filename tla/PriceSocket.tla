----------------------------- MODULE PriceSocket -----------------------------
(***************************************************************************)
(* The WebSocket of prices (wsManager). The trading layout and the chart   *)
(* page connect it whenever they mount and never disconnect it; it dials   *)
(* again a limited number of times, and tells the panels its status.       *)
(*                                                                         *)
(* Sockets live in slots, freed when they are closed: a second connect     *)
(* while the first still dials leaves two of them.                         *)
(***************************************************************************)
EXTENDS Integers

CONSTANTS
    MaxReconnect,   \* maxReconnect
    MaxSockets,     \* bound: sockets not yet closed
    MaxMounts,      \* bound: times a page that shows prices mounts
    MaxFaults       \* bound: drops and failed dials

Slots == 1..MaxSockets
NoSocket == 0

VARIABLES
    alone,               \* no page mounts while a socket dials or closes
    ws,                  \* the slot of the current socket
    sockets,             \* their states
    reconnectTimer,      \* a dial is scheduled
    reconnectAttempts,   \* dials scheduled since a socket opened
    status,
    mounts, faults

vars == <<alone, ws, sockets, reconnectTimer, reconnectAttempts, status, mounts, faults>>

TypeOK ==
    /\ alone \in BOOLEAN
    /\ ws \in Slots \union {NoSocket}
    /\ sockets \in [Slots -> {"closed", "connecting", "open", "closing"}]
    /\ reconnectTimer \in BOOLEAN
    /\ reconnectAttempts \in 0..MaxReconnect
    /\ status \in {"connected", "connecting", "disconnected"}
    /\ mounts \in 0..MaxMounts
    /\ faults \in 0..MaxFaults

Init ==
    /\ alone \in BOOLEAN
    /\ ws = NoSocket
    /\ sockets = [s \in Slots |-> "closed"]
    /\ reconnectTimer = FALSE
    /\ reconnectAttempts = 0
    /\ status = "disconnected"
    /\ mounts = 0
    /\ faults = 0

-----------------------------------------------------------------------------
\* Variant of connect: an open socket is replaced, too.
connectAlways ==
    /\ status' = "connecting"
    /\ \E s \in Slots :
            /\ sockets[s] = "closed"
            /\ \A t \in Slots : sockets[t] = "closed" => s <= t
            /\ ws' = s
            /\ sockets' = [sockets EXCEPT ![s] = "connecting"]

\* Dials unless the current socket is open: one that still dials is left behind.
connect ==
    IF ws # NoSocket /\ sockets[ws] = "open"
    THEN UNCHANGED <<ws, sockets, status>>
    ELSE /\ status' = "connecting"
         /\ \E s \in Slots :
                /\ sockets[s] = "closed"
                /\ \A t \in Slots : sockets[t] = "closed" => s <= t
                /\ ws' = s
                /\ sockets' = [sockets EXCEPT ![s] = "connecting"]

Mount ==
    /\ mounts < MaxMounts
    /\ alone => ~reconnectTimer /\ \A s \in Slots : sockets[s] \notin {"connecting", "closing"}
    /\ mounts' = mounts + 1
    /\ connect
    /\ UNCHANGED <<alone, reconnectTimer, reconnectAttempts, faults>>

Opened(s) ==
    /\ sockets[s] = "connecting"
    /\ sockets' = [sockets EXCEPT ![s] = "open"]
    /\ status' = "connected"
    /\ reconnectAttempts' = 0
    /\ UNCHANGED <<alone, ws, reconnectTimer, mounts, faults>>

\* Variant of scheduleReconnect: the timer that fired still counts as set.
scheduleFirst ==
    IF reconnectAttempts > 0
    THEN UNCHANGED <<reconnectTimer, reconnectAttempts>>
    ELSE reconnectTimer' = TRUE /\ reconnectAttempts' = reconnectAttempts + 1

\* Variant of scheduleReconnect: without a limit.
scheduleAlways ==
    IF reconnectTimer
    THEN UNCHANGED <<reconnectTimer, reconnectAttempts>>
    ELSE reconnectTimer' = TRUE /\ reconnectAttempts' = reconnectAttempts + 1

scheduleReconnect ==
    IF reconnectAttempts >= MaxReconnect \/ reconnectTimer
    THEN UNCHANGED <<reconnectTimer, reconnectAttempts>>
    ELSE reconnectTimer' = TRUE /\ reconnectAttempts' = reconnectAttempts + 1

OnClose == status' = "disconnected" /\ scheduleReconnect

\* A connection breaks or a dial fails; onerror closes the current socket, which may be
\* another one.
Breaks(s, error) ==
    /\ sockets[s] \in {"connecting", "open"}
    /\ faults < MaxFaults
    /\ faults' = faults + 1
    /\ sockets' = [t \in Slots |->
                      IF t = s THEN "closed"
                      ELSE IF error /\ t = ws /\ sockets[t] \in {"connecting", "open"} THEN "closing"
                      ELSE sockets[t]]
    /\ ws' = IF ws = s THEN NoSocket ELSE ws
    /\ OnClose
    /\ UNCHANGED <<alone, mounts>>

\* A close that was asked for is done.
Closed(s) ==
    /\ sockets[s] = "closing"
    /\ sockets' = [sockets EXCEPT ![s] = "closed"]
    /\ ws' = IF ws = s THEN NoSocket ELSE ws
    /\ OnClose
    /\ UNCHANGED <<alone, mounts, faults>>

TimerFires ==
    /\ reconnectTimer
    /\ reconnectTimer' = FALSE
    /\ connect
    /\ UNCHANGED <<alone, reconnectAttempts, mounts, faults>>

-----------------------------------------------------------------------------
AnyOpened == \E s \in Slots : Opened(s)
AnyClosed == \E s \in Slots : Closed(s)

Next ==
    \/ Mount
    \/ AnyOpened \/ AnyClosed \/ TimerFires
    \/ \E s \in Slots, error \in BOOLEAN : Breaks(s, error)

Spec == Init /\ [][Next]_vars

\* Once the faults are over a dial succeeds, a close is done, and the timer fires.
FairSpec == Spec /\ WF_vars(AnyOpened) /\ WF_vars(AnyClosed) /\ WF_vars(TimerFires)

-----------------------------------------------------------------------------
(* Properties. *)

\* Prices come back after fewer failures than maxReconnect; after half of it when pages
\* mount while a socket dials, since one that fails then takes the current one with it.
Recoverable == mounts > 0 /\ faults < MaxReconnect /\ (alone \/ 2 * faults <= MaxReconnect)
PricesReturn == <>[](Recoverable => \E s \in Slots : sockets[s] = "open")

\* While pages mount only when the socket is at rest (alone), the status the order panel and
\* the status bar show is the current socket's.  It says nothing of a page that mounts while
\* a socket dials or closes: there a socket left behind sets the status too.
StatusHonest == alone => (status = "connected" <=> ws # NoSocket /\ sockets[ws] = "open")

\* The inductive invariant behind it: then there is one socket at a time, and no dial is
\* scheduled while there is one.
PriceInv ==
    /\ TypeOK
    /\ StatusHonest
    /\ alone =>
        /\ ws # NoSocket => sockets[ws] # "closed"
        /\ \A s \in Slots : sockets[s] # "closed" =>
              s = ws /\ sockets[s] # "closing" /\ ~reconnectTimer
=============================================================================

----------------------------- MODULE TradeSocket -----------------------------
(***************************************************************************)
(* The WebSocket that brings a terminal the events of one account. The     *)
(* layout connects it for the account shown and disconnects it on leaving; *)
(* a connection that closes dials again from a timer.                      *)
(*                                                                         *)
(* Sockets live in slots, freed when they are closed. disconnect and a     *)
(* newer connect leave sockets behind that still open or close, and timers *)
(* nothing can clear any more.                                             *)
(***************************************************************************)
EXTENDS Integers

CONSTANTS
    Accounts,     \* the user's trading accounts
    Nobody,       \* null: no account
    MaxSockets,   \* bound: sockets not yet closed
    MaxShows,     \* bound: times a terminal is opened
    MaxFaults     \* bound: drops and failed dials

Slots == 1..MaxSockets
NoSocket == 0

VARIABLES
    prompt,           \* a terminal is only opened when no socket of before is left: neither
                      \* soon after another one, nor by switching from account to account
    shown,            \* the account of the terminal on screen
    accountId,        \* the account of the latest connect
    ws,               \* the slot of the current socket
    sockets,          \* the account each socket was made for, and its state
    reconnectTimer,   \* the account of the scheduled dial
    strays,           \* per account, the dials reconnectTimer no longer knows of
    shows, faults

vars == <<prompt, shown, accountId, ws, sockets, reconnectTimer, strays, shows, faults>>

States == {"connecting", "open", "closing", "closed"}
Free == [acct |-> Nobody, state |-> "closed"]

TypeOK ==
    /\ prompt \in BOOLEAN
    /\ {shown, accountId, reconnectTimer} \subseteq Accounts \union {Nobody}
    /\ ws \in Slots \union {NoSocket}
    /\ sockets \in [Slots -> [acct : Accounts \union {Nobody}, state : States]]
    /\ strays \in [Accounts -> Nat]
    /\ shows \in 0..MaxShows
    /\ faults \in 0..MaxFaults

Init ==
    /\ prompt \in BOOLEAN
    /\ shown = Nobody
    /\ accountId = Nobody
    /\ ws = NoSocket
    /\ sockets = [s \in Slots |-> Free]
    /\ reconnectTimer = Nobody
    /\ strays = [a \in Accounts |-> 0]
    /\ shows = 0
    /\ faults = 0

Live(s) == s # NoSocket /\ sockets[s].state \in {"connecting", "open"}

-----------------------------------------------------------------------------
\* Dials for a unless the current socket is open, whichever account it was made for.
connect(a) ==
    /\ accountId' = a
    /\ IF ws # NoSocket /\ sockets[ws].state = "open"
       THEN UNCHANGED <<ws, sockets>>
       ELSE \E s \in Slots :
                /\ sockets[s] = Free
                /\ \A t \in Slots : sockets[t] = Free => s <= t
                /\ ws' = s
                /\ sockets' = [sockets EXCEPT ![s] = [acct |-> a, state |-> "connecting"]]

\* The layout's effect when a terminal opens.  A switch from account to account is disconnect
\* and this, in one tick: the socket left is still closing, which prompt rules out.
Show(a) ==
    /\ shown = Nobody
    /\ shows < MaxShows
    /\ prompt => \A s \in Slots : sockets[s] = Free
    /\ shows' = shows + 1
    /\ shown' = a
    /\ connect(a)
    /\ UNCHANGED <<prompt, reconnectTimer, strays, faults>>

\* Variant of disconnect: the timer is left alone.
disconnectOnly ==
    /\ shown # Nobody
    /\ shown' = Nobody
    /\ accountId' = Nobody
    /\ sockets' = IF Live(ws) THEN [sockets EXCEPT ![ws].state = "closing"] ELSE sockets
    /\ ws' = NoSocket
    /\ UNCHANGED <<prompt, reconnectTimer, strays, shows, faults>>

\* The effect's cleanup: the current socket is closed, the timer cleared.
disconnect ==
    /\ shown # Nobody
    /\ shown' = Nobody
    /\ accountId' = Nobody
    /\ sockets' = IF Live(ws) THEN [sockets EXCEPT ![ws].state = "closing"] ELSE sockets
    /\ ws' = NoSocket
    /\ reconnectTimer' = Nobody
    /\ UNCHANGED <<prompt, strays, shows, faults>>

Opened(s) ==
    /\ sockets[s].state = "connecting"
    /\ sockets' = [sockets EXCEPT ![s].state = "open"]
    /\ UNCHANGED <<prompt, shown, accountId, ws, reconnectTimer, strays, shows, faults>>

\* onclose: unless disconnected, a dial for the account the socket was made for.  A dial
\* already scheduled stays, and reconnectTimer forgets it.
OnClose(s) ==
    IF accountId = Nobody
    THEN UNCHANGED <<reconnectTimer, strays>>
    ELSE /\ reconnectTimer' = sockets[s].acct
         /\ strays' = IF reconnectTimer = Nobody THEN strays
                      ELSE [strays EXCEPT ![reconnectTimer] = @ + 1]

\* A connection breaks or a dial fails; onerror closes the current socket, which may be
\* another one.
Breaks(s, error) ==
    /\ sockets[s].state \in {"connecting", "open"}
    /\ faults < MaxFaults
    /\ faults' = faults + 1
    /\ OnClose(s)
    /\ sockets' = [t \in Slots |->
                      IF t = s THEN Free
                      ELSE IF error /\ t = ws /\ Live(t) THEN [sockets[t] EXCEPT !.state = "closing"]
                      ELSE sockets[t]]
    /\ ws' = IF ws = s THEN NoSocket ELSE ws
    /\ UNCHANGED <<prompt, shown, accountId, shows>>

\* A close that was asked for is done.
Closed(s) ==
    /\ sockets[s].state = "closing"
    /\ OnClose(s)
    /\ sockets' = [sockets EXCEPT ![s] = Free]
    /\ ws' = IF ws = s THEN NoSocket ELSE ws
    /\ UNCHANGED <<prompt, shown, accountId, shows, faults>>

TimerFires ==
    /\ reconnectTimer # Nobody
    /\ connect(reconnectTimer)
    /\ reconnectTimer' = Nobody
    /\ UNCHANGED <<prompt, shown, strays, shows, faults>>

StrayFires(a) ==
    /\ strays[a] > 0
    /\ connect(a)
    /\ strays' = [strays EXCEPT ![a] = @ - 1]
    /\ UNCHANGED <<prompt, shown, reconnectTimer, shows, faults>>

-----------------------------------------------------------------------------
AnyOpened == \E s \in Slots : Opened(s)
AnyClosed == \E s \in Slots : Closed(s)

Next ==
    \/ \E a \in Accounts : Show(a) \/ StrayFires(a)
    \/ disconnect
    \/ AnyOpened \/ AnyClosed \/ TimerFires
    \/ \E s \in Slots, error \in BOOLEAN : Breaks(s, error)

Spec == Init /\ [][Next]_vars

\* Once the faults are over a dial succeeds, a close is done, and timers fire.
FairSpec == Spec /\ WF_vars(AnyOpened) /\ WF_vars(AnyClosed) /\ WF_vars(TimerFires)

-----------------------------------------------------------------------------
(* Properties. *)

Listens == {s \in Slots : sockets[s].state = "open"}

\* Where every terminal is opened after the sockets of the earlier one are closed (prompt),
\* events come from the account on screen and come once: no socket that a drop or a failed
\* dial left behind delivers beside the current one.  It says nothing of a terminal that is
\* opened sooner, nor of a direct switch of accounts: there events do come twice, or from the
\* other account.
EventsOnce == prompt => \A s \in Listens : s = ws /\ sockets[s].acct = shown

\* The inductive invariant behind it: one socket at a time, of the account on screen or on its
\* way out, and one dial at a time, for that account and when there is no socket.
TradeInv ==
    /\ TypeOK
    /\ prompt =>
        /\ accountId = shown
        /\ reconnectTimer \in {Nobody, shown}
        /\ \A a \in Accounts : strays[a] = 0
        /\ ws # NoSocket => sockets[ws] # Free
        /\ \A s \in Slots : sockets[s] # Free =>
              /\ reconnectTimer = Nobody
              /\ \A t \in Slots \ {s} : sockets[t] = Free
              /\ IF shown = Nobody
                 THEN sockets[s].state = "closing" /\ ws = NoSocket
                 ELSE Live(s) /\ s = ws /\ sockets[s].acct = shown

\* When the user stays on a terminal and the network works again, its events arrive: the
\* layout reacts to position_closed and order_filled.  Under prompt only, as above.
EventsArrive == prompt => <>[](shown # Nobody => \E s \in Listens : sockets[s].acct = shown)
=============================================================================

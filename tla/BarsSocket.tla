----------------------------- MODULE BarsSocket -----------------------------
(***************************************************************************)
(* The one WebSocket that streams candles to every chart of a tab. Charts  *)
(* register and leave, the connection drops, stalls without closing, or    *)
(* never opens, and a timer dials again.                                   *)
(*                                                                         *)
(* A socket that was closed by the client takes a while to say so: its     *)
(* onclose may run when a newer socket is at work. Messages to the server  *)
(* are in order and at once. The chart's own poll of GET /bars may or may  *)
(* not bring the bar a socket missed.                                      *)
(***************************************************************************)
EXTENDS Integers, FiniteSets

CONSTANTS
    Charts,      \* subscriber ids
    Keys,        \* symbol|timeframe pairs
    NoKey,       \* the key of a chart that is not subscribed
    MaxActs,     \* bound: charts that come, leave or change their key
    MaxFaults,   \* bound: stalls, drops and failed dials
    MaxOld       \* bound: sockets closing at one time, beside the current one

ASSUME BarsAssumption ==
    /\ NoKey \notin Keys
    /\ IsFiniteSet(Charts)
    /\ {MaxActs, MaxFaults, MaxOld} \subseteq Nat

VARIABLES
    prompt,          \* a closed socket is done before the next one opens
    ws,              \* the current socket
    old,             \* sockets replaced or dropped while they close
    stalled,         \* the current socket is open and nothing comes through
    streamed,        \* what the server streams on the current socket
    regs,            \* what each chart shows
    serverSubs,      \* how many charts want a key
    reconnectTimer,  \* a dial is scheduled
    watchdogTimer,   \* the watchdog is armed
    hadConnection,   \* open at least once since the first chart came
    manuallyClosed,
    missed,          \* the hole in a chart's candles, if any
    acts, faults

linkVars == <<ws, old, stalled, streamed, watchdogTimer>>
chartVars == <<regs, serverSubs, acts>>
vars == <<prompt, linkVars, chartVars, reconnectTimer, hadConnection, manuallyClosed, missed, faults>>

Sockets == {"none", "connecting", "open", "closing", "closed"}

TypeOK ==
    /\ prompt \in BOOLEAN
    /\ ws \in Sockets
    /\ old \in 0..MaxOld
    /\ stalled \in BOOLEAN
    /\ streamed \subseteq Keys
    /\ regs \in [Charts -> Keys \union {NoKey}]
    /\ serverSubs \in [Keys -> 0..Cardinality(Charts)]
    /\ {reconnectTimer, watchdogTimer, hadConnection, manuallyClosed} \subseteq BOOLEAN
    /\ missed \in [Charts -> {"nothing", "early", "drop"}]
    /\ acts \in 0..MaxActs
    /\ faults \in 0..MaxFaults

Init ==
    /\ prompt \in BOOLEAN
    /\ ws = "none"
    /\ old = 0
    /\ stalled = FALSE
    /\ streamed = {}
    /\ regs = [c \in Charts |-> NoKey]
    /\ serverSubs = [k \in Keys |-> 0]
    /\ reconnectTimer = FALSE
    /\ watchdogTimer = FALSE
    /\ hadConnection = FALSE
    /\ manuallyClosed = FALSE
    /\ missed = [c \in Charts |-> "nothing"]
    /\ acts = 0
    /\ faults = 0

Shown(r) == {r[c] : c \in Charts} \ {NoKey}
Streams == ws = "open" /\ ~stalled

-----------------------------------------------------------------------------
(* The connection. *)

\* Dials unless a socket is open or on its way; one that still closes is left to it.
connect ==
    IF ws \in {"connecting", "open"}
    THEN UNCHANGED <<ws, old, stalled, manuallyClosed>>
    ELSE /\ old + (IF ws = "closing" THEN 1 ELSE 0) <= MaxOld
         /\ old' = old + (IF ws = "closing" THEN 1 ELSE 0)
         /\ ws' = "connecting"
         /\ stalled' = FALSE
         /\ manuallyClosed' = FALSE

\* Variant of Opened: the charts are not told.
OpenedQuietly ==
    /\ ws = "connecting"
    /\ prompt => old = 0
    /\ ws' = "open"
    /\ watchdogTimer' = TRUE
    /\ streamed' = {k \in Keys : serverSubs[k] > 0}
    /\ hadConnection' = TRUE
    /\ UNCHANGED <<prompt, old, stalled, chartVars, reconnectTimer, manuallyClosed, missed, faults>>

\* Variant of Opened: the watchdog waits for a first frame.
OpenedUnwatched ==
    /\ ws = "connecting"
    /\ prompt => old = 0
    /\ ws' = "open"
    /\ streamed' = {k \in Keys : serverSubs[k] > 0}
    /\ missed' = IF hadConnection THEN [c \in Charts |-> "nothing"] ELSE missed
    /\ hadConnection' = TRUE
    /\ UNCHANGED <<prompt, old, stalled, watchdogTimer, chartVars, reconnectTimer, manuallyClosed, faults>>

\* onopen: the server hears of every key again and, but for the first connection, the
\* charts drop their cache and fetch what they missed.
Opened ==
    /\ ws = "connecting"
    /\ prompt => old = 0
    /\ ws' = "open"
    /\ watchdogTimer' = TRUE
    /\ streamed' = {k \in Keys : serverSubs[k] > 0}
    /\ missed' = IF hadConnection THEN [c \in Charts |-> "nothing"] ELSE missed
    /\ hadConnection' = TRUE
    /\ UNCHANGED <<prompt, old, stalled, chartVars, reconnectTimer, manuallyClosed, faults>>

\* onclose, of whichever socket it is.
OnClose ==
    /\ watchdogTimer' = FALSE
    /\ reconnectTimer' = (reconnectTimer \/ (~manuallyClosed /\ Shown(regs) # {}))

\* The current socket closes: its dial fails, the connection breaks, or a close that was
\* asked for is done.
CurrentCloses ==
    /\ \/ ws \in {"connecting", "open"} /\ faults < MaxFaults /\ faults' = faults + 1
       \/ ws = "closing" /\ UNCHANGED faults
    /\ ws' = "closed"
    /\ stalled' = FALSE
    /\ streamed' = {}
    /\ OnClose
    /\ UNCHANGED <<prompt, old, chartVars, hadConnection, manuallyClosed, missed>>

\* A socket of before is done closing.
OldCloses ==
    /\ old > 0
    /\ old' = old - 1
    /\ OnClose
    /\ UNCHANGED <<prompt, ws, stalled, streamed, chartVars, hadConnection, manuallyClosed,
                   missed, faults>>

\* The connection is half open: neither end knows.
Stalls ==
    /\ Streams
    /\ faults < MaxFaults
    /\ faults' = faults + 1
    /\ stalled' = TRUE
    /\ UNCHANGED <<prompt, ws, old, streamed, watchdogTimer, chartVars, reconnectTimer,
                   hadConnection, manuallyClosed, missed>>

\* 45 seconds without a frame; the server's pings, every 30, prevent it while they arrive.
WatchdogFires ==
    /\ watchdogTimer
    /\ stalled
    /\ watchdogTimer' = FALSE
    /\ ws' = "closing"
    /\ stalled' = FALSE
    /\ streamed' = {}
    /\ UNCHANGED <<prompt, old, chartVars, reconnectTimer, hadConnection, manuallyClosed, missed,
                   faults>>

ReconnectFires ==
    /\ reconnectTimer
    /\ reconnectTimer' = FALSE
    /\ connect
    /\ UNCHANGED <<prompt, streamed, watchdogTimer, chartVars, hadConnection, missed, faults>>

-----------------------------------------------------------------------------
(* Charts. *)

Acts == acts < MaxActs /\ acts' = acts + 1

\* subscribeBars, after the chart has fetched its history.
subscribe(c, k) ==
    /\ Acts
    /\ regs[c] = NoKey
    /\ regs' = [regs EXCEPT ![c] = k]
    /\ serverSubs' = [serverSubs EXCEPT ![k] = @ + 1]
    /\ streamed' = IF Streams THEN streamed \union {k} ELSE streamed
    /\ missed' = [missed EXCEPT ![c] = "nothing"]
    /\ connect
    /\ UNCHANGED <<prompt, watchdogTimer, reconnectTimer, hadConnection, faults>>

\* Fully idle: the socket is torn down.
TearDown ==
    /\ old + (IF ws \in {"connecting", "open", "closing"} THEN 1 ELSE 0) <= MaxOld
    /\ old' = old + (IF ws \in {"connecting", "open", "closing"} THEN 1 ELSE 0)
    /\ ws' = "none"
    /\ stalled' = FALSE
    /\ streamed' = {}
    /\ watchdogTimer' = FALSE
    /\ reconnectTimer' = FALSE
    /\ hadConnection' = FALSE
    /\ manuallyClosed' = TRUE

\* Variant of unsubscribe: the server is told whoever else shows the key.
unsubscribeAlways(c) ==
    /\ Acts
    /\ regs[c] # NoKey
    /\ regs' = [regs EXCEPT ![c] = NoKey]
    /\ serverSubs' = [serverSubs EXCEPT ![regs[c]] = @ - 1]
    /\ missed' = [missed EXCEPT ![c] = "nothing"]
    /\ IF Shown(regs') = {}
       THEN TearDown
       ELSE /\ streamed' = IF Streams THEN streamed \ {regs[c]} ELSE streamed
            /\ UNCHANGED <<ws, old, stalled, watchdogTimer, reconnectTimer, hadConnection,
                           manuallyClosed>>
    /\ UNCHANGED <<prompt, faults>>

unsubscribe(c) ==
    /\ Acts
    /\ regs[c] # NoKey
    /\ regs' = [regs EXCEPT ![c] = NoKey]
    /\ serverSubs' = [serverSubs EXCEPT ![regs[c]] = @ - 1]
    /\ missed' = [missed EXCEPT ![c] = "nothing"]
    /\ IF Shown(regs') = {}
       THEN TearDown
       ELSE /\ streamed' = IF Streams /\ serverSubs'[regs[c]] = 0 THEN streamed \ {regs[c]}
                           ELSE streamed
            /\ UNCHANGED <<ws, old, stalled, watchdogTimer, reconnectTimer, hadConnection,
                           manuallyClosed>>
    /\ UNCHANGED <<prompt, faults>>

\* A ping, or a bar in the making: any frame arms the watchdog.
Frame ==
    /\ Streams
    /\ watchdogTimer' = TRUE
    /\ UNCHANGED <<prompt, ws, old, stalled, streamed, chartVars, reconnectTimer, hadConnection,
                   manuallyClosed, missed, faults>>

\* The last update of a bar: the charts it does not reach have a hole, unless their poll
\* of GET /bars comes at the right time.
BarCloses(k, unpolled) ==
    /\ unpolled \subseteq {c \in Charts : regs[c] = k}
    /\ LET reached == Streams /\ k \in streamed IN
       /\ missed' = [c \in Charts |->
                        IF c \notin unpolled \/ reached THEN missed[c]
                        ELSE IF hadConnection THEN "drop" ELSE "early"]
       /\ watchdogTimer' = (watchdogTimer \/ reached)
    /\ UNCHANGED <<prompt, ws, old, stalled, streamed, chartVars, reconnectTimer, hadConnection,
                   manuallyClosed, faults>>

-----------------------------------------------------------------------------
Next ==
    \/ Opened \/ CurrentCloses \/ OldCloses \/ Stalls \/ WatchdogFires \/ ReconnectFires
    \/ Frame
    \/ \E c \in Charts : unsubscribe(c) \/ \E k \in Keys : subscribe(c, k)
    \/ \E k \in Keys, unpolled \in SUBSET Charts : BarCloses(k, unpolled)

Spec == Init /\ [][Next]_vars

\* Once the faults are over a dial succeeds; a close that was asked for is done, and
\* timers fire.
FairSpec ==
    /\ Spec
    /\ WF_vars(Opened)
    /\ WF_vars(CurrentCloses /\ ws = "closing")
    /\ WF_vars(OldCloses)
    /\ WF_vars(WatchdogFires)
    /\ WF_vars(ReconnectFires)

-----------------------------------------------------------------------------
(* Properties. *)

\* An open connection streams the keys of the charts and no other: the counts of
\* subscribe and unsubscribe, and what onopen asserts again, agree with the server.
StreamsWhatIsShown == Streams => streamed = Shown(regs)

\* "resubscribe + resetCache on every reconnect so the chart re-fetches bars missed
\* during the drop" (barsSocket.ts:12-13): no chart of a working connection has a hole
\* from a time the connection was lost.
DropsHealed == Streams => \A c \in Charts : missed[c] # "drop"

\* The inductive invariant behind both: the counts are those of the charts, and who has a hole
\* from a time the connection was lost is a chart still subscribed, after a first connection.
BarsInv ==
    /\ TypeOK /\ StreamsWhatIsShown /\ DropsHealed
    /\ \A k \in Keys : serverSubs[k] = Cardinality({c \in Charts : regs[c] = k})
    /\ \A c \in Charts : missed[c] = "drop" => hadConnection /\ regs[c] # NoKey

\* When charts stop changing and the network works again, a chart has its stream: onclose,
\* the watchdog and the reconnect timer hand over to one another.  Taken for sockets that
\* are done closing before the next one opens; see StalledIsClosed.
StreamsAgain == prompt => <>[](Shown(regs) # {} => Streams)

\* "a half-open watchdog that force-closes a silently-stalled socket"
\* (barsSocket.ts:11-12): a stalled connection does not stay one.
StalledIsClosed == stalled ~> ~stalled
=============================================================================

----------------------------- MODULE MCClients -----------------------------
(* The machines of a browser tab, one in each behaviour: the candle, trade  *)
(* and price sockets, the session, the open positions of a terminal, the    *)
(* account it works on and the lines of its chart.  They share no state.    *)
EXTENDS BarsSocket

CONSTANTS
    Accounts, Nobody, MaxSockets,
    MaxShows, MaxDrops,                            \* TradeSocket
    MaxReconnect, MaxMounts, MaxFailures,          \* PriceSocket
    MaxSigns, MaxEnds, MaxErrors,                  \* AuthSession
    MaxRowActs, MaxPositions, MaxListsUnderWay,    \* OptimisticRows
    Orders, MaxVisits, MaxClicks, MaxUnderWay,     \* TerminalAccount
    Symbols, FirstSymbol, Levels,
    MaxChanges, MaxLineFaults                      \* ChartLines

ASSUME ClientsAssumption ==
    /\ Nobody \notin Accounts
    /\ FirstSymbol \in Symbols /\ IsFiniteSet(Symbols)
    /\ {0, 1} \intersect Levels = {}
    /\ {MaxSockets, MaxShows, MaxDrops, MaxReconnect, MaxMounts, MaxFailures, MaxSigns, MaxEnds,
        MaxErrors, MaxRowActs, MaxPositions, MaxListsUnderWay, MaxVisits, MaxClicks, MaxUnderWay,
        MaxChanges, MaxLineFaults} \subseteq Nat

VARIABLES machine

VARIABLES tradePrompt, shown, accountId, tradeWs, tradeSockets, tradeTimer, strays, shows, drops
tradeVars == <<tradePrompt, shown, accountId, tradeWs, tradeSockets, tradeTimer, strays,
               shows, drops>>
T == INSTANCE TradeSocket WITH
        MaxFaults <- MaxDrops, prompt <- tradePrompt, ws <- tradeWs, sockets <- tradeSockets,
        reconnectTimer <- tradeTimer, faults <- drops

VARIABLES alone, priceWs, priceSockets, priceTimer, reconnectAttempts, status, mounts, failures
priceVars == <<alone, priceWs, priceSockets, priceTimer, reconnectAttempts, status,
               mounts, failures>>
P == INSTANCE PriceSocket WITH
        MaxFaults <- MaxFailures, ws <- priceWs, sockets <- priceSockets,
        reconnectTimer <- priceTimer, faults <- failures

VARIABLES sessionCalm, cookies, hint, isAuthenticated, isInitialized, userLoad, signIn, refresh,
          signOut, signs, ends, errors
sessionVars == <<sessionCalm, cookies, hint, isAuthenticated, isInitialized, userLoad,
                 signIn, refresh, signOut, signs, ends, errors>>
S == INSTANCE AuthSession WITH
        MaxFaults <- MaxErrors, calm <- sessionCalm, load <- userLoad, faults <- errors

VARIABLES positions, young, rowActs, posts, lists, events, opened, open
rowVars == <<positions, young, rowActs, posts, lists, events, opened, open>>
R == INSTANCE OptimisticRows WITH
        MaxActs <- MaxRowActs, MaxUnderWay <- MaxListsUnderWay,
        acts <- rowActs, requests <- posts, answers <- lists

VARIABLES accountCalm, accountQueryId, visits, accounts, bootstrapping, load, activeAccount,
          pendingOrders, historyTrades, clicks, requests, answers, orders
accountVars == <<accountCalm, accountQueryId, visits, accounts, bootstrapping, load,
                 activeAccount, pendingOrders, historyTrades, clicks, requests, answers,
                 orders>>
A == INSTANCE TerminalAccount WITH calm <- accountCalm

VARIABLES patient, rows, selected, loader, widget, charted, queued, lines, creations, shapes,
          due, picked, silent, stale, changes, lineFaults
lineVars == <<patient, rows, selected, loader, widget, charted, queued, lines, creations, shapes,
              due, picked, silent, stale, changes, lineFaults>>
L == INSTANCE ChartLines WITH
        MaxFaults <- MaxLineFaults, faults <- lineFaults

-----------------------------------------------------------------------------
\* A machine that is not chosen starts in one of its initial states and stays there.
Unchosen ==
    /\ machine # "bars" => prompt
    /\ machine # "trade" => tradePrompt
    /\ machine # "price" => alone
    /\ machine # "session" => sessionCalm /\ ~hint
    /\ machine # "rows" => opened = 0
    /\ machine # "account" => accountCalm
    /\ machine # "lines" => patient

MCInit ==
    /\ machine \in {"bars", "trade", "price", "session", "rows", "account", "lines"}
    /\ Init /\ T!Init /\ P!Init /\ S!Init /\ R!Init /\ A!Init /\ L!Init
    /\ Unchosen

allVars == <<machine, vars, tradeVars, priceVars, sessionVars, rowVars, accountVars, lineVars>>

\* A step of one machine.
Bars(step) ==
    /\ machine = "bars"
    /\ step
    /\ UNCHANGED <<machine, tradeVars, priceVars, sessionVars, rowVars, accountVars, lineVars>>

Trade(step) ==
    /\ machine = "trade"
    /\ step
    /\ UNCHANGED <<machine, vars, priceVars, sessionVars, rowVars, accountVars, lineVars>>

Price(step) ==
    /\ machine = "price"
    /\ step
    /\ UNCHANGED <<machine, vars, tradeVars, sessionVars, rowVars, accountVars, lineVars>>

Session(step) ==
    /\ machine = "session"
    /\ step
    /\ UNCHANGED <<machine, vars, tradeVars, priceVars, rowVars, accountVars, lineVars>>

Row(step) ==
    /\ machine = "rows"
    /\ step
    /\ UNCHANGED <<machine, vars, tradeVars, priceVars, sessionVars, accountVars, lineVars>>

Account(step) ==
    /\ machine = "account"
    /\ step
    /\ UNCHANGED <<machine, vars, tradeVars, priceVars, sessionVars, rowVars, lineVars>>

\* The accounts are alike until the terminal opens one, or the first socket dials one.
FirstAccount == CHOOSE a \in Accounts : TRUE
OneFirst ==
    /\ visits = 0 /\ visits' = 1 => accountQueryId' = FirstAccount
    /\ shows = 0 /\ shows' = 1 => shown' = FirstAccount

Line(step) ==
    /\ machine = "lines"
    /\ step
    /\ UNCHANGED <<machine, vars, tradeVars, priceVars, sessionVars, rowVars, accountVars>>

MCNext ==
    /\ \/ Bars(Next) \/ Trade(T!Next) \/ Price(P!Next) \/ Session(S!Next)
       \/ Row(R!Next) \/ Account(A!Next) \/ Line(L!Next)
    /\ OneFirst

\* The fairness of each module.  A formula that serves two machines leaves the other's
\* variables alone; what the rest of them do is in MCNext.
InList(step) == machine = "rows" /\ step /\ UNCHANGED accountVars
InAccount(step) == machine = "account" /\ step /\ UNCHANGED rowVars

MCSpec ==
    /\ MCInit
    /\ [][MCNext]_allVars
    /\ WF_vars(machine = "bars" /\ Opened)
    /\ WF_vars(machine = "bars" /\ CurrentCloses /\ ws = "closing")
    /\ WF_vars(machine = "bars" /\ OldCloses)
    /\ WF_vars(machine = "bars" /\ WatchdogFires)
    /\ WF_vars(machine = "bars" /\ ReconnectFires)
    /\ WF_tradeVars(machine = "trade" /\ T!AnyOpened)
    /\ WF_tradeVars(machine = "trade" /\ T!AnyClosed)
    /\ WF_tradeVars(machine = "trade" /\ T!TimerFires)
    /\ WF_priceVars(machine = "price" /\ P!AnyOpened)
    /\ WF_priceVars(machine = "price" /\ P!AnyClosed)
    /\ WF_priceVars(machine = "price" /\ P!TimerFires)
    /\ WF_sessionVars(machine = "session" /\ S!loadUser)
    /\ WF_sessionVars(machine = "session" /\ S!LoadAnswered)
    /\ WF_sessionVars(machine = "session" /\ S!LoginAnswered)
    /\ WF_sessionVars(machine = "session" /\ S!RefreshAnswered)
    /\ WF_sessionVars(machine = "session" /\ S!LogoutAnswered)
    /\ WF_rowVars(machine = "rows" /\ R!Poll)
    /\ WF_rowVars(machine = "rows" /\ R!FiveSecondsPass)
    /\ WF_accountVars(machine = "account" /\ A!Poll("orders"))
    /\ WF_accountVars(machine = "account" /\ A!Poll("history"))
    /\ WF_lineVars(machine = "lines" /\ L!LibraryStep)
    /\ WF_lineVars(machine = "lines" /\ L!Effects)
    /\ WF_lineVars(machine = "lines" /\ L!Poll)
    /\ WF_lineVars(machine = "lines" /\ L!WatchdogFires)
    /\ WF_lineVars(machine = "lines" /\ L!ThrottlePasses)
    /\ SF_<<rowVars, accountVars>>(InList(R!AnyPositions) \/ InAccount(A!AnyOrders))
    /\ SF_accountVars(machine = "account" /\ A!AnyHistory)

-----------------------------------------------------------------------------
(* What the modules promise, each of its own machine. *)

\* The variables have their types; an open candle connection streams what the charts show
\* and has healed the holes of a drop; the chart's shapes are those its entries record.  Two
\* conjuncts speak of part of the behaviours only: an event comes once, from the account on
\* screen, where no terminal is opened and no account switched before the earlier socket has
\* closed (tradePrompt); the price status shown is the socket's where no page mounts while
\* a socket dials or closes (alone).
ClientsInv ==
    /\ TypeOK /\ T!TypeOK /\ P!TypeOK /\ S!TypeOK /\ R!TypeOK /\ A!TypeOK /\ L!TypeOK
    /\ StreamsWhatIsShown
    /\ DropsHealed
    /\ T!EventsOnce
    /\ P!StatusHonest
    /\ L!DrawnAsRecorded

\* A user whose session is alive is shown as signed in, while nothing fails.
SignedInIsShown == S!SignedInIsShown

\* After the drops and failed dials, each socket is at work again if anybody needs it: the
\* candle and trade sockets where none is opened before the earlier one has closed.
SocketsReturn == StreamsAgain /\ T!EventsArrive /\ P!PricesReturn

\* The page makes up its mind about the session, and notices that one has ended.
SessionSettles == S!EndIsNoticed /\ (machine = "session" => S!Appears)

\* In the end the lists of the terminal are the server's: open positions, pending orders
\* and closed trades, of the account on screen; and so are the lines of the chart.  An answer
\* with positions is shown at once.
ListsSettle ==
    /\ R!AnswersShown
    /\ R!RowsSettle /\ A!PendingSettle /\ A!HistorySettles
    /\ L!LinesSettle /\ L!ChartAppears /\ L!LabelsRecover

\* What is ordered is for the account picked, while nothing fails.
CalmOrdersGoToPicked == A!CalmOrdersGoToPicked
=============================================================================

--------------------------- MODULE TerminalAccount ---------------------------
(***************************************************************************)
(* Which account the terminal works on, and what it lists for it beside    *)
(* the positions: pending orders and closed trades.                        *)
(*                                                                         *)
(* The address of the terminal names the account the user picked; the      *)
(* store has an active account of its own, where orders go, that the       *)
(* layout sets from the address and that answers on their way may set      *)
(* again. A GET is sent and answered in one step and delivered in a later  *)
(* one.                                                                    *)
(***************************************************************************)
EXTENDS Integers, FiniteSets

CONSTANTS
    Accounts,       \* the user's trading accounts
    Nobody,         \* null: no account
    Orders,         \* pending orders
    MaxVisits,      \* bound: times the user opens the terminal
    MaxClicks,      \* bound: the user's orders, cancels and leverage changes
    MaxUnderWay     \* bound: different answers of one kind under way

VARIABLES
    calm,             \* no request fails, and the user waits for the answers
    accountQueryId,   \* ?account= of the terminal's address; Nobody on other pages
    visits,           \* times the terminal was opened
    accounts,         \* whether the store knows the user's accounts
    bootstrapping,    \* the layout waits for GET /accounts of its bootstrap
    load,             \* the pending orders the layout's effect waits for, in a set
    activeAccount,    \* the store's account: where orders go
    pendingOrders,    \* the store's pending orders
    historyTrades,    \* the account whose closed trades the panel lists
    clicks,           \* clicks so far
    requests,         \* POST, DELETE and PATCH under way
    answers,          \* answers of GETs under way, per kind
    orders            \* the server's pending orders

pageVars == <<accountQueryId, visits, bootstrapping, load>>
storeVars == <<accounts, activeAccount, pendingOrders, historyTrades>>
userVars == <<clicks, requests>>
vars == <<calm, pageVars, storeVars, userVars, answers, orders>>

\* GET /orders, GET /accounts for refreshAccount and GET /portfolio/trades.
Kinds == {"orders", "account", "history"}
Statuses == {"none", "pending", "gone"}
Requests == [kind : {"place", "panelPlace", "market", "cancel", "leverage"}, acct : Accounts,
             order : Orders \union {Nobody}, state : {"sent", "done", "failed"}]

TypeOK ==
    /\ calm \in BOOLEAN
    /\ accountQueryId \in Accounts \union {Nobody}
    /\ visits \in 0..MaxVisits
    /\ accounts \in BOOLEAN
    /\ bootstrapping \in BOOLEAN
    /\ load \subseteq SUBSET Orders
    /\ activeAccount \in Accounts \union {Nobody}
    /\ pendingOrders \subseteq Orders
    /\ historyTrades \in Accounts \union {Nobody}
    /\ clicks \in 0..MaxClicks
    /\ requests \subseteq Requests
    /\ answers.orders \subseteq SUBSET Orders
    /\ answers.account \subseteq Accounts
    /\ answers.history \subseteq Accounts
    /\ orders \in [Orders -> [acct : Accounts \union {Nobody}, status : Statuses]]

Init ==
    /\ calm \in BOOLEAN
    /\ accountQueryId = Nobody
    /\ visits = 0
    /\ accounts = FALSE
    /\ bootstrapping = FALSE
    /\ load = {}
    /\ activeAccount = Nobody
    /\ pendingOrders = {}
    /\ historyTrades = Nobody
    /\ clicks = 0
    /\ requests = {}
    /\ answers = [k \in Kinds |-> {}]
    /\ orders = [o \in Orders |-> [acct |-> Nobody, status |-> "none"]]

-----------------------------------------------------------------------------
(* GETs. *)

\* list_orders with status=pending.
Pending(a) == {o \in Orders : orders[o] = [acct |-> a, status |-> "pending"]}

Answer(kind, a) == IF kind = "orders" THEN Pending(a) ELSE a

\* The GETs of kinds, for account a, are sent and answered, or lost when too many are.
Asked(under, kinds, a) ==
    [k \in Kinds |->
        IF k \in kinds /\ a # Nobody /\ Cardinality(under[k] \union {Answer(k, a)}) <= MaxUnderWay
        THEN under[k] \union {Answer(k, a)}
        ELSE under[k]]

Ask(kinds, a) == answers' = Asked(answers, kinds, a)

-----------------------------------------------------------------------------
(* Opening and leaving the terminal; the layout's effects. *)

\* Variant of ShowAccount: an account that is active stays so.
ShowAccountOnce(a) ==
    /\ activeAccount' = IF activeAccount = Nobody THEN a ELSE activeAccount
    /\ load' = {Pending(a)}

\* The layout's effect on the address and the accounts: the account of the address
\* becomes the active one and its rows are asked for.  What an earlier run of the effect
\* asked for is cancelled.
ShowAccount(a) ==
    /\ activeAccount' = a
    /\ load' = {Pending(a)}

\* The history panel follows the active account: the rows of another one are dropped
\* and its own asked for.
FollowActive(under) ==
    IF activeAccount' = activeAccount
    THEN answers' = under /\ UNCHANGED historyTrades
    ELSE historyTrades' = Nobody /\ answers' = Asked(under, {"history"}, activeAccount')

Opens(a) ==
    /\ accountQueryId = Nobody
    /\ visits < MaxVisits
    /\ visits' = visits + 1
    /\ accountQueryId' = a
    /\ bootstrapping' = TRUE
    /\ historyTrades' = Nobody
    /\ UNCHANGED <<calm, pendingOrders, userVars, orders>>

\* The Accounts page has loaded the accounts and makes the picked one the active one
\* before it opens the terminal.
OpenFromAccounts(a) ==
    /\ Opens(a)
    /\ accounts' = TRUE
    /\ ShowAccount(a)
    /\ Ask({"history"}, a)

\* Any other link only opens the terminal.
OpenFromLink(a) ==
    /\ Opens(a)
    /\ IF accounts THEN ShowAccount(a) ELSE load' = {} /\ UNCHANGED activeAccount
    /\ Ask({"history"}, activeAccount')
    /\ UNCHANGED accounts

\* The user leaves for another page.  The polls stop, the panels are gone; what the store
\* asked for is still under way.
Leave ==
    /\ accountQueryId # Nobody
    /\ calm => requests = {} /\ answers.account = {} /\ ~bootstrapping
    /\ accountQueryId' = Nobody
    /\ bootstrapping' = FALSE
    /\ load' = {}
    /\ answers' = [answers EXCEPT !["history"] = {}]
    /\ UNCHANGED <<calm, visits, storeVars, userVars, orders>>

\* The bootstrap's accounts arrive, or none when the request failed.
BootstrapAnswered(known) ==
    /\ bootstrapping
    /\ calm => known
    /\ bootstrapping' = FALSE
    /\ accounts' = known
    /\ IF known THEN ShowAccount(accountQueryId) ELSE load' = {} /\ UNCHANGED activeAccount
    /\ FollowActive(answers)
    /\ UNCHANGED <<calm, accountQueryId, visits, pendingOrders, userVars, orders>>

\* What the effect waits for arrives; a request of it that failed counts as an empty list.
LoadAnswered(got) ==
    /\ load # {}
    /\ calm => got
    /\ load' = {}
    /\ pendingOrders' = IF got THEN UNION load ELSE {}
    /\ UNCHANGED <<calm, accountQueryId, visits, bootstrapping, accounts, activeAccount,
                   historyTrades, userVars, answers, orders>>

-----------------------------------------------------------------------------
(* The polls and the answers they bring. *)

\* Variant of Poll: only the account is asked for.
PollAccount(kind) ==
    /\ accountQueryId # Nobody
    /\ kind = "account"
    /\ Ask({kind}, activeAccount)
    /\ UNCHANGED <<calm, pageVars, storeVars, userVars, orders>>

\* orderPoll, the account poll, the poll of the open history tab, a refresh button, an
\* event that asks for a refresh, and the refresh of a tab that becomes visible again.
Poll(kind) ==
    /\ accountQueryId # Nobody
    /\ Ask({kind}, activeAccount)
    /\ UNCHANGED <<calm, pageVars, storeVars, userVars, orders>>

Delivered(kind, r) == [answers EXCEPT ![kind] = @ \ {r}]

\* refreshPendingOrders lists what arrives, whoever is active by then.
OrdersAnswered(ids) ==
    /\ ids \in answers["orders"]
    /\ answers' = Delivered("orders", ids)
    /\ pendingOrders' = ids
    /\ UNCHANGED <<calm, pageVars, accounts, activeAccount, historyTrades, userVars, orders>>

\* refreshAccount writes back the whole account it was called for.
AccountAnswered(a) ==
    /\ a \in answers["account"]
    /\ activeAccount' = a
    /\ IF accountQueryId # Nobody
       THEN FollowActive(Delivered("account", a))
       ELSE answers' = Delivered("account", a) /\ UNCHANGED historyTrades
    /\ UNCHANGED <<calm, pageVars, accounts, pendingOrders, userVars, orders>>

\* loadHistory lists what arrives.
HistoryAnswered(a) ==
    /\ a \in answers["history"]
    /\ answers' = Delivered("history", a)
    /\ historyTrades' = a
    /\ UNCHANGED <<calm, pageVars, accounts, activeAccount, pendingOrders, userVars, orders>>

\* A GET fails, and what it would have refreshed stays as it is.
AnswerLost(kind, r) ==
    /\ r \in answers[kind]
    /\ answers' = Delivered(kind, r)
    /\ UNCHANGED <<calm, pageVars, storeVars, userVars, orders>>

-----------------------------------------------------------------------------
(* Clicks, and what becomes of them. *)

\* An order through the store or the order panel, or a change of leverage, for the active
\* account; a cancel of a listed order.
Click(kind, order) ==
    /\ accountQueryId # Nobody
    /\ activeAccount # Nobody
    /\ clicks < MaxClicks
    /\ (kind = "cancel") = (order \in pendingOrders)
    /\ clicks' = clicks + 1
    /\ requests' = requests \union
          {[kind |-> kind, acct |-> activeAccount, order |-> order, state |-> "sent"]}
    /\ UNCHANGED <<calm, pageVars, storeVars, answers, orders>>

Becomes(p, q) == requests' = (requests \ {p}) \union {q}

\* The server executes it.
Accept(p) ==
    /\ p.state = "sent"
    /\ \/ /\ p.kind \in {"place", "panelPlace"}
          /\ \E o \in Orders :
                /\ orders[o].status = "none"
                /\ orders' = [orders EXCEPT ![o] = [acct |-> p.acct, status |-> "pending"]]
       \/ /\ p.kind = "cancel"
          /\ orders[p.order].status = "pending"
          /\ orders' = [orders EXCEPT ![p.order].status = "gone"]
       \/ p.kind \in {"market", "leverage"} /\ UNCHANGED orders
    /\ Becomes(p, [p EXCEPT !.state = "done"])
    /\ UNCHANGED <<calm, pageVars, storeVars, clicks, answers>>

\* It refuses it, or the client gives up.
Refuse(p) ==
    /\ p.state # "failed"
    /\ Becomes(p, [p EXCEPT !.state = "failed"])
    /\ UNCHANGED <<calm, pageVars, storeVars, clicks, answers, orders>>

\* What the client asks for after a success.  The order panel leaves the list of pending
\* orders to the poll.
Refreshes(kind) ==
    CASE kind = "cancel"                    -> {"orders"}
      [] kind \in {"place", "market"}       -> {"orders", "account"}
      [] kind \in {"panelPlace", "leverage"} -> {"account"}

\* A change of leverage writes back the account it was made for.
Answered(p) ==
    /\ p.state # "sent"
    /\ requests' = requests \ {p}
    /\ activeAccount' = IF p.kind = "leverage" /\ p.state = "done" THEN p.acct ELSE activeAccount
    /\ LET under == IF p.state = "done" THEN Asked(answers, Refreshes(p.kind), activeAccount')
                    ELSE answers IN
       IF accountQueryId # Nobody THEN FollowActive(under)
       ELSE answers' = under /\ UNCHANGED historyTrades
    /\ UNCHANGED <<calm, pageVars, accounts, pendingOrders, clicks, orders>>

\* The b-book engine fills an order, or another device cancels it; the event is lost or
\* is one of the polls.
OrderGoes(o) ==
    /\ orders[o].status = "pending"
    /\ orders' = [orders EXCEPT ![o].status = "gone"]
    /\ UNCHANGED <<calm, pageVars, storeVars, userVars, answers>>

-----------------------------------------------------------------------------
UserStep ==
    \/ \E a \in Accounts : OpenFromAccounts(a) \/ OpenFromLink(a)
    \/ Leave
    \/ \E kind \in {"place", "panelPlace", "market", "leverage"} : Click(kind, Nobody)
    \/ \E o \in Orders : Click("cancel", o)

AnyOrders == \E ids \in answers["orders"] : OrdersAnswered(ids)
AnyHistory == \E a \in answers["history"] : HistoryAnswered(a)

ClientStep ==
    \/ \E known \in BOOLEAN : BootstrapAnswered(known)
    \/ \E got \in BOOLEAN : LoadAnswered(got)
    \/ \E kind \in Kinds : Poll(kind)
    \/ AnyOrders \/ AnyHistory
    \/ \E a \in answers["account"] : AccountAnswered(a)
    \/ \E kind \in Kinds : \E r \in answers[kind] : AnswerLost(kind, r)
    \/ \E p \in requests : Answered(p)

Next ==
    \/ UserStep
    \/ ClientStep
    \/ \E p \in requests : Accept(p) \/ Refuse(p)
    \/ \E o \in Orders : OrderGoes(o)

Spec == Init /\ [][Next]_vars

FairSpec ==
    /\ Spec
    /\ \A kind \in {"orders", "history"} : WF_vars(Poll(kind))
    /\ SF_vars(AnyOrders)
    /\ SF_vars(AnyHistory)

-----------------------------------------------------------------------------
(* Properties. *)

Shown == accountQueryId # Nobody /\ activeAccount # Nobody

\* Once the user has settled on an account, the pending orders listed are the ones the
\* server has for it: the panel's own orders are never listed by hand, and a late answer
\* for another account, or of before a fill, is put right by orderPoll.
PendingSettle == <>[](Shown => pendingOrders = Pending(activeAccount))

\* "History is scoped to the ACTIVE account" (PositionsPanel.tsx:381): in the end, also
\* when the answer for an account shown before comes last.
HistorySettles == <>[](Shown => historyTrades = activeAccount)

\* What is ordered once the terminal knows the accounts is for the account of its address,
\* while nothing fails and the user waits for the answers before leaving: the Accounts
\* page, the layout's effect and the answers that write an account back all agree.
Ordered == {p \in requests' \ requests : p.state = "sent" /\ p.kind # "cancel"}
CalmOrdersGoToPicked == [][calm => \A p \in Ordered : p.acct = accountQueryId]_vars

\* The inductive invariant behind it: while a terminal is open, the active account, the answers
\* that write an account back and the requests of the user are its account's; before the
\* accounts are known and on other pages there are none of the latter two.
AccountInv ==
    /\ TypeOK
    /\ DOMAIN answers = Kinds
    /\ calm =>
        /\ ~accounts \/ accountQueryId = Nobody => answers.account = {} /\ requests = {}
        /\ ~accounts => activeAccount = Nobody
        /\ accountQueryId # Nobody => activeAccount \in {accountQueryId, Nobody}
        /\ answers.account \subseteq {accountQueryId}
        /\ \A p \in requests : p.acct = accountQueryId
=============================================================================

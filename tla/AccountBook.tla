----------------------------- MODULE AccountBook -----------------------------
(***************************************************************************)
(* The money of one user: users.main_wallet_balance and the balance and    *)
(* margin_used of the user's trading accounts, under concurrent requests.  *)
(*                                                                         *)
(* Each request is one database transaction (READ COMMITTED). Selecting a  *)
(* row FOR UPDATE does not refresh what the session has loaded of it       *)
(* before: a transfer between accounts reads both under their locks, but   *)
(* one to or from the main wallet selects the user, whose accounts are     *)
(* loaded with it, and locks the account afterwards. place_order reads the *)
(* account, then locks it. A close reads the account unlocked and meets    *)
(* the row lock when its UPDATE is flushed. Every write is an absolute     *)
(* value computed from what the session read, of the columns that changed. *)
(*                                                                         *)
(* Amounts are units: a transfer moves one, a position needs a margin of   *)
(* one and gains or loses what the market marks it at.                     *)
(***************************************************************************)
EXTENDS Integers, FiniteSets

CONSTANTS
    Sessions,     \* database sessions: one per request or engine tick
    Accounts,     \* trading accounts of the user, in the order of their ids
    NoOne,        \* the owner of an unlocked row
    Mixes,        \* the kinds of request that may be at work together
    Commission,   \* charged by a fill
    MaxStart,     \* bound: units in a row at the start
    MaxRequests   \* bound: requests in one behaviour

\* Rows are locked in the order of these numbers: the user's, then the accounts'.
User == 0
Rows == {User} \union Accounts

\* Transfers between accounts, transfers to or from the main wallet, fills, closes.
Kinds == {"internal", "main", "open", "close"}

ASSUME BookAssumption ==
    /\ Accounts \subseteq Nat \ {User} /\ IsFiniteSet(Accounts)
    /\ NoOne \notin Sessions
    /\ Mixes \subseteq SUBSET Kinds
    /\ {Commission, MaxStart, MaxRequests} \subseteq Nat

VARIABLES
    mix,        \* the kinds of request at work
    money,      \* committed main_wallet_balance or balance
    margin,     \* committed margin_used; always 0 for the user's row
    open,       \* committed open positions of an account
    bonus,      \* units of the user's active bonus
    mark,       \* what the market gives an open position
    owner,      \* the session that holds the row's lock
    req,        \* the request a session serves
    copy,       \* the row attributes a session loaded
    ledger,     \* the sum of a row's entries: transactions and the commissions of orders
    requests    \* requests so far

vars == <<mix, money, margin, open, bonus, mark, owner, req, copy, ledger, requests>>

Marks == {-1, 0, 1}
Idle == [kind |-> "none", pc |-> "idle", from |-> User, to |-> User, result |-> 0]
Requests == [kind : {"none"} \union Kinds,
             pc : {"idle", "first", "second", "held", "loaded", "locked"},
             from : Rows, to : Rows, result : Marks]
Row(r) == [money |-> money[r], margin |-> margin[r]]
Unread == [r \in Rows |-> [money |-> 0, margin |-> 0]]

TypeOK ==
    /\ mix \in Mixes
    /\ money \in [Rows -> Int]
    /\ margin \in [Rows -> Nat]
    /\ open \in [Rows -> Int]
    /\ bonus \in 0..1
    /\ mark \in Marks
    /\ owner \in [Rows -> Sessions \union {NoOne}]
    /\ req \in [Sessions -> Requests]
    /\ copy \in [Sessions -> [Rows -> [money : Int, margin : Nat]]]
    /\ ledger \in [Rows -> Int]
    /\ requests \in 0..MaxRequests

Init ==
    /\ mix \in Mixes
    /\ money \in [Rows -> 0..MaxStart]
    /\ open \in [Rows -> 0..1]
    /\ open[User] = 0 /\ \A a \in Accounts : open[a] <= money[a]
    /\ margin = open
    /\ bonus \in 0..1
    /\ mark = 0
    /\ owner = [r \in Rows |-> NoOne]
    /\ req = [s \in Sessions |-> Idle]
    /\ copy = [s \in Sessions |-> Unread]
    /\ ledger = money
    /\ requests = 0

-----------------------------------------------------------------------------
(* Sessions and row locks. *)

\* Variant of LockOrder: the source first.
AsAsked(s) == <<req[s].from, req[s].to>>

LockOrder(s) ==
    IF req[s].from < req[s].to THEN <<req[s].from, req[s].to>> ELSE <<req[s].to, req[s].from>>

First(s) == LockOrder(s)[1]
Second(s) == LockOrder(s)[2]

Begin(s, kind, pc, from, to) ==
    /\ kind \in mix
    /\ req[s].pc = "idle"
    /\ requests < MaxRequests
    /\ requests' = requests + 1
    /\ mix' = mix
    /\ req' = [req EXCEPT ![s] = [kind |-> kind, pc |-> pc, from |-> from, to |-> to,
                                  result |-> IF kind = "close" THEN mark ELSE 0]]

Lock(s, r, pc) ==
    /\ owner[r] = NoOne
    /\ owner' = [owner EXCEPT ![r] = s]
    /\ req' = [req EXCEPT ![s].pc = pc]

\* The session selects a row: what it has loaded stays, and the user brings the accounts.
Load(s, r) ==
    IF r = User THEN copy' = [copy EXCEPT ![s] = [q \in Rows |-> Row(q)]]
    ELSE IF req[s].kind = "main" THEN copy' = copy
    ELSE copy' = [copy EXCEPT ![s][r] = Row(r)]

\* Commit or rollback: the locks go, and the session's objects with them.
End(s) ==
    /\ owner' = [r \in Rows |-> IF owner[r] = s THEN NoOne ELSE owner[r]]
    /\ req' = [req EXCEPT ![s] = Idle]
    /\ copy' = [copy EXCEPT ![s] = Unread]
    /\ mix' = mix

Rollback(s) == End(s) /\ UNCHANGED <<money, margin, open, bonus, mark, ledger, requests>>

\* An UPDATE names the columns whose value differs from the loaded one.
Written(row, old, new) == IF new = old THEN row ELSE new

-----------------------------------------------------------------------------
(* Transfers: between accounts, to the main wallet and from it. *)

TransferBegin(s, f, t) ==
    /\ f # t
    /\ Begin(s, IF User \in {f, t} THEN "main" ELSE "internal", "first", f, t)
    /\ UNCHANGED <<money, margin, open, bonus, mark, owner, copy, ledger>>

\* Variant of TransferLockFirst: the row is read without its lock.
TransferReadFirst(s) ==
    /\ req[s].pc = "first"
    /\ req' = [req EXCEPT ![s].pc = "second"]
    /\ Load(s, First(s))
    /\ UNCHANGED <<mix, money, margin, open, bonus, mark, owner, ledger, requests>>

TransferLockFirst(s) ==
    /\ req[s].pc = "first"
    /\ Lock(s, First(s), "second")
    /\ Load(s, First(s))
    /\ UNCHANGED <<mix, money, margin, open, bonus, mark, ledger, requests>>

Free(s) == copy[s][req[s].from].money - copy[s][req[s].from].margin

\* The main wallet's amount is checked before the account is locked.
TransferLockSecond(s) ==
    /\ req[s].pc = "second"
    /\ req[s].from = User => Free(s) >= 1
    /\ Lock(s, Second(s), "held")
    /\ Load(s, Second(s))
    /\ UNCHANGED <<mix, money, margin, open, bonus, mark, ledger, requests>>

TransferRefused(s) ==
    /\ \/ req[s].pc = "held"
       \/ req[s].pc = "second" /\ req[s].from = User
    /\ Free(s) < 1
    /\ Rollback(s)

\* Variant of Transfer: the margin of open positions is not kept back.
TransferAll(s) ==
    /\ req[s].pc = "held"
    /\ copy[s][req[s].from].money >= 1
    /\ money' = [money EXCEPT ![req[s].from] = copy[s][req[s].from].money - 1,
                              ![req[s].to] = copy[s][req[s].to].money + 1]
    /\ ledger' = [ledger EXCEPT ![req[s].from] = @ - 1, ![req[s].to] = @ + 1]
    /\ End(s)
    /\ UNCHANGED <<margin, open, bonus, mark, requests>>

Transfer(s) ==
    /\ req[s].pc = "held"
    /\ Free(s) >= 1
    /\ money' = [money EXCEPT ![req[s].from] = copy[s][req[s].from].money - 1,
                              ![req[s].to] = copy[s][req[s].to].money + 1]
    /\ ledger' = [ledger EXCEPT ![req[s].from] = @ - 1, ![req[s].to] = @ + 1]
    /\ End(s)
    /\ UNCHANGED <<margin, open, bonus, mark, requests>>

-----------------------------------------------------------------------------
(* place_order, for a market order. *)

\* validate_account loads the account without a lock.
OpenLoad(s, a) ==
    /\ Begin(s, "open", "loaded", a, a)
    /\ Load(s, a)
    /\ UNCHANGED <<money, margin, open, bonus, mark, owner, ledger>>

\* The row is locked; the attributes stay those that validate_account loaded.
OpenLock(s) ==
    /\ req[s].kind = "open" /\ req[s].pc = "loaded"
    /\ Lock(s, req[s].from, "locked")
    /\ UNCHANGED <<mix, money, margin, open, bonus, mark, copy, ledger, requests>>

\* What the margin check sees: the loaded row, and the positions as they are now.
FreeMargin(s) ==
    LET a == req[s].from
    IN  copy[s][a].money + mark * open[a] - copy[s][a].margin

\* The flush and the commit of a fill or a close: cash to the account, the account's
\* new margin and positions, and a bonus to the main wallet.  The audit row, the ledger
\* row and the bonus need the user's row, which no other session may have locked.
Book(s, cash, newMargin, opened, released) ==
    LET a == req[s].from
        c == copy[s][a]
    IN  /\ owner[User] = NoOne
        /\ money' = [money EXCEPT ![a] = Written(@, c.money, c.money + cash),
                                  ![User] = @ + released]
        /\ margin' = [margin EXCEPT ![a] = Written(@, c.margin, newMargin)]
        /\ open' = [open EXCEPT ![a] = @ + opened]
        /\ bonus' = bonus - released
        /\ ledger' = [ledger EXCEPT ![a] = @ + cash, ![User] = @ + released]
        /\ End(s)
        /\ UNCHANGED <<mark, requests>>

OpenFill(s) ==
    /\ req[s].kind = "open" /\ req[s].pc = "locked"
    /\ FreeMargin(s) >= 1
    /\ Book(s, -Commission, copy[s][req[s].from].margin + 1, 1, 0)

OpenRefused(s) ==
    /\ req[s].kind = "open" /\ req[s].pc = "locked"
    /\ FreeMargin(s) < 1
    /\ Rollback(s)

-----------------------------------------------------------------------------
(* A close, by a request or by the SL/TP engine. *)

Closing(a) == {s \in Sessions : req[s].kind = "close" /\ req[s].from = a}

\* The account is read without a lock; the position is one that no other session
\* has locked (PositionSettlement).
CloseLoad(s, a) ==
    /\ Cardinality(Closing(a)) < open[a]
    /\ Begin(s, "close", "loaded", a, a)
    /\ Load(s, a)
    /\ UNCHANGED <<money, margin, open, bonus, mark, owner, ledger>>

\* Selecting the bonuses flushes the account's UPDATE, which takes the row lock.
CloseFlush(s) ==
    /\ req[s].kind = "close" /\ req[s].pc = "loaded"
    /\ Lock(s, req[s].from, "locked")
    /\ UNCHANGED <<mix, money, margin, open, bonus, mark, copy, ledger, requests>>

\* The closed lots may release the bonus.
CloseCommit(s) ==
    LET held == copy[s][req[s].from].margin
    IN  /\ req[s].kind = "close" /\ req[s].pc = "locked"
        /\ \E released \in 0..bonus :
              Book(s, req[s].result, IF held > 0 THEN held - 1 ELSE 0, -1, released)

-----------------------------------------------------------------------------
(* The database resolves deadlocks; the market moves. *)

\* The row a session waits for or takes next.
Wanted(s) ==
    CASE req[s].pc = "first"  -> First(s)
      [] req[s].pc = "second" -> Second(s)
      [] req[s].pc = "loaded" -> req[s].from
      [] req[s].pc = "locked" -> User
      [] OTHER                -> User

Waiting(s) ==
    /\ req[s].pc \in {"first", "second", "loaded", "locked"}
    /\ owner[Wanted(s)] \notin {s, NoOne}

\* s is one of a set of sessions that wait for one another.
Deadlocked(s) ==
    \E C \in SUBSET Sessions :
        /\ s \in C
        /\ \A t \in C : Waiting(t) /\ owner[Wanted(t)] \in C

\* Variant of DeadlockAbort: the database lets them wait.
DeadlockStays(s) == Deadlocked(s) /\ UNCHANGED vars

DeadlockAbort(s) == Deadlocked(s) /\ Rollback(s)

Move ==
    /\ mark' \in Marks \ {mark}
    /\ UNCHANGED <<mix, money, margin, open, bonus, owner, req, copy, ledger, requests>>

Serve(s) ==
    \/ TransferLockFirst(s) \/ TransferLockSecond(s) \/ TransferRefused(s) \/ Transfer(s)
    \/ OpenLock(s) \/ OpenFill(s) \/ OpenRefused(s)
    \/ CloseFlush(s) \/ CloseCommit(s)
    \/ DeadlockAbort(s)

Next ==
    \/ \E s \in Sessions :
          \/ \E f, t \in Rows : TransferBegin(s, f, t)
          \/ \E a \in Accounts : OpenLoad(s, a) \/ CloseLoad(s, a)
          \/ Serve(s)
    \/ Move

Spec == Init /\ [][Next]_vars

\* Every request proceeds when its row is free, and the row's queue is first come,
\* first served.
FairSpec == Spec /\ \A s \in Sessions : SF_vars(Serve(s))

-----------------------------------------------------------------------------
(* Properties. *)

\* Transfers run between accounts, or to and from the main wallet, but not both.
Separate == mix \subseteq {"internal"} \/ mix \subseteq {"main"}

\* Nothing but transfers runs.
Transfers == mix \subseteq {"internal", "main"}

\* Every balance is the sum of its entries: no transfer loses money or creates any.
BooksBalance == Separate => \A r \in Rows : money[r] = ledger[r]

\* The main wallet never is anything but the sum of its entries, whatever kinds of
\* request run beside the transfers.
WalletBalances == money[User] = ledger[User]

\* A position is opened only with enough free margin in the committed books.
FillsCovered ==
    [][\A a \in Accounts :
          open'[a] > open[a] => money[a] + mark * open[a] - open[a] >= 1]_vars

\* Requests never wait for one another in a circle.
NoDeadlock == Transfers => \A s \in Sessions : ~Deadlocked(s)

\* No transfer takes out what open positions need.
NeverOverdrawn == Separate => \A r \in Rows : money[r] >= margin[r]

MovesOne ==
    \/ money' = money
    \/ ~Separate
    \/ \E f, t \in Rows : f # t /\ money' = [money EXCEPT ![f] = @ - 1, ![t] = @ + 1]

\* Money only moves from one row to another, one transfer at a time.
TransfersMove == [][MovesOne]_vars

\* Every request ends, whatever the others do.
RequestsEnd == \A s \in Sessions : (req[s].pc # "idle") ~> (req[s].pc = "idle")

\* What the row locks are good for.  A session past a lock holds the row; a transfer's
\* copy of the row it locked first is still the row, since nobody writes a row unlocked,
\* and so is the second one's unless it came with the user.
Sound(s) ==
    /\ req[s].kind \in {"none"} \union mix
    /\ req[s].pc \in {"first", "second", "held"} =>
          /\ req[s].from # req[s].to
          /\ req[s].kind = IF User \in {req[s].from, req[s].to} THEN "main" ELSE "internal"
    /\ req[s].pc \in {"second", "held"} =>
          owner[First(s)] = s /\ copy[s][First(s)] = Row(First(s))
    /\ req[s].pc = "held" =>
          /\ owner[Second(s)] = s
          /\ req[s].kind = "internal" => copy[s][Second(s)] = Row(Second(s))
    /\ req[s].pc \in {"loaded", "locked"} => req[s].from \in Accounts
    /\ req[s].pc = "locked" => owner[req[s].from] = s

\* Transfers to and from the main wallet, alone, exclude one another by the user's row: the
\* account that came with it is still the account.
UserExcludes ==
    mix = {"main"} => \A s \in Sessions :
        req[s].pc \in {"second", "held"} => copy[s][Second(s)] = Row(Second(s))

\* The inductive invariant behind WalletBalances.
BookInv ==
    /\ TypeOK
    /\ WalletBalances
    /\ \A s \in Sessions : Sound(s)

\* A row is locked only by a session that took it and has not ended yet.
Holds(s, r) ==
    \/ req[s].pc \in {"second", "held"} /\ r = First(s)
    \/ req[s].pc = "held" /\ r = Second(s)
    \/ req[s].pc = "locked" /\ r = req[s].from

LocksHeld == \A s \in Sessions, r \in Rows : owner[r] = s => Holds(s, r)

\* The inductive invariant behind NoDeadlock: who holds a row is known, and whoever waits for
\* the second row of a transfer holds a lower one.
WaitInv ==
    /\ BookInv
    /\ LocksHeld
    /\ \A s \in Sessions :
          req[s].pc \in {"loaded", "locked"} => req[s].kind \in {"open", "close"}

\* And the one behind BooksBalance and NeverOverdrawn.
TransferInv == BookInv /\ UserExcludes /\ BooksBalance /\ NeverOverdrawn
=============================================================================

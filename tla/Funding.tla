-------------------------------- MODULE Funding --------------------------------
(***************************************************************************)
(* Deposits and withdrawals of one user: the rows of `deposits` and        *)
(* `withdrawals`, the balance they credit and debit, and everybody who     *)
(* works on them: payment providers' webhooks (delivered at least once, in *)
(* any order), the checkout page, administrators, and the chain verifier.  *)
(*                                                                         *)
(* A session is one database transaction (READ COMMITTED) of a request, a  *)
(* webhook or a verification. Most handlers lock the item's row first and  *)
(* the balance's row second. The item's relationship to its user is loaded *)
(* with it, so the balance is in the session before its row is locked, and *)
(* selecting it FOR UPDATE does not refresh it.                            *)
(*                                                                         *)
(* The gateway's handlers raise while a bonus offer with a date is active:  *)
(* what raises is rolled back, but the row that claims its webhook stays.  *)
(*                                                                         *)
(* Every item is worth one unit; `wallet` is the balance that the user's   *)
(* items credit and debit, the main wallet or the wallet account.          *)
(***************************************************************************)
EXTENDS Integers, FiniteSets

CONSTANTS
    Sessions,     \* database sessions at work
    Items,        \* deposits and withdrawals
    NoOne,        \* no session, no item
    Portfolios,   \* the methods the items may have
    Openings,     \* units that may be in the wallet at the start
    OneConfirm,   \* the app sends one confirmation of a transfer at a time
    VerifyFits,   \* a verification ends within the time to live of its Redis key
    MaxTries,     \* verifications without a verdict before the manual review
    MaxOrders,    \* bound: Razorpay orders of a deposit
    MaxCrashes,   \* bound: sessions lost in a crash
    MaxRequests   \* bound: requests of users and administrators, changes of offers included

Deposits == {"oxapay", "razorpay", "local", "chain"}
Withdrawals == {"onchain", "bank"}
Statuses == {"none", "initiated", "pending", "submitted", "approved", "auto_approved",
             "rejected", "manual_review", "paid"}

ASSUME FundingAssumption ==
    /\ NoOne \notin Sessions \union Items
    /\ Portfolios \subseteq [Items -> Deposits \union Withdrawals]
    /\ {OneConfirm, VerifyFits} \subseteq BOOLEAN
    /\ Openings \subseteq Int
    /\ MaxOrders \in Nat \ {0}
    /\ {MaxTries, MaxCrashes, MaxRequests} \subseteq Nat

VARIABLES
    method, status,     \* of an item
    linked,             \* payment_link opens the Razorpay checkout
    order,              \* the order in transaction_id: 0 none, Settled a payment's id
    placed,             \* Razorpay orders of the item so far
    happened,           \* what the provider has seen of the item's payments
    sent,               \* webhooks the provider has not had an answer to
    claimed,            \* rows of webhook_events
    lost,               \* webhooks whose handler raised or died after it was claimed
    dated,              \* an active offer for such deposits has a date
    redis,              \* the verifier's key of the item is set
    tries,              \* verifications of the item without a verdict
    verdict,            \* what the chain says of the item's transfer
    rowLock, userLock,  \* who holds the item's row, and the balance's
    job,                \* what a session does
    wallet,             \* the committed balance
    due,                \* what it should be: the opening, plus credits, less debits
    credits, debits,    \* of an item: credits so far; debits not refunded
    crashes, requests

rows == <<method, status, linked, order, placed>>
provider == <<happened, sent, claimed, lost>>
chain == <<redis, tries, verdict>>
locks == <<rowLock, userLock>>
funds == <<wallet, due, credits, debits>>
vars == <<rows, provider, dated, chain, locks, job, funds, crashes, requests>>

Settled == MaxOrders + 1
Event(type, n) == [type |-> type, order |-> n]
Payments == {Event("paid", 0)} \union {Event("captured", n) : n \in 1..MaxOrders}
Events == Payments \union {Event("confirming", 0), Event("failed", 0)}
NoEvent == Event("none", 0)
Idle == [kind |-> "none", pc |-> "idle", item |-> NoOne, event |-> NoEvent,
         status |-> "none", cash |-> 0]
Kinds == {"none", "webhook", "verify", "approve", "reject", "offer", "order", "confirm",
          "chain", "request", "approveW", "rejectW", "pay"}
Jobs == [kind : Kinds,
         pc : {"idle", "queued", "item", "wallet", "found", "loaded"},
         item : Items \union {NoOne}, event : Events \union {NoEvent}, status : Statuses, cash : Int]

TypeOK ==
    /\ method \in [Items -> Deposits \union Withdrawals]
    /\ status \in [Items -> Statuses]
    /\ linked \in [Items -> BOOLEAN]
    /\ order \in [Items -> 0..Settled] /\ placed \in [Items -> 0..MaxOrders]
    /\ happened \in [Items -> SUBSET Events]
    /\ sent \in [Items -> SUBSET Events]
    /\ claimed \in [Items -> SUBSET Events]
    /\ lost \in [Items -> SUBSET Events]
    /\ dated \in BOOLEAN
    /\ redis \in [Items -> BOOLEAN]
    /\ tries \in [Items -> 0..MaxTries]
    /\ verdict \in [Items -> BOOLEAN]
    /\ rowLock \in [Items -> Sessions \union {NoOne}]
    /\ userLock \in Sessions \union {NoOne}
    /\ job \in [Sessions -> Jobs]
    /\ wallet \in Int /\ due \in Int
    /\ credits \in [Items -> Nat] /\ debits \in [Items -> Int]
    /\ crashes \in 0..MaxCrashes /\ requests \in 0..MaxRequests

FirstStatus(m) ==
    CASE m \in {"oxapay", "chain"}   -> "initiated"
      [] m \in {"razorpay", "local"} -> "pending"
      [] OTHER                       -> "none"

\* Deposits have been filed; withdrawals will be.
Init ==
    /\ method \in Portfolios
    /\ status = [i \in Items |-> FirstStatus(method[i])]
    /\ linked = [i \in Items |-> FALSE]
    /\ placed = [i \in Items |-> IF method[i] = "razorpay" THEN 1 ELSE 0]
    /\ order = placed
    /\ happened = [i \in Items |-> {}]
    /\ sent = happened /\ claimed = happened /\ lost = happened
    /\ dated \in BOOLEAN
    /\ redis = [i \in Items |-> FALSE]
    /\ tries = [i \in Items |-> 0]
    /\ verdict \in {v \in [Items -> BOOLEAN] : \A i \in Items : method[i] # "chain" => v[i]}
    /\ rowLock = [i \in Items |-> NoOne] /\ userLock = NoOne
    /\ job = [s \in Sessions |-> Idle]
    /\ wallet \in Openings /\ due = wallet
    /\ credits = [i \in Items |-> 0] /\ debits = credits
    /\ crashes = 0 /\ requests = 0

-----------------------------------------------------------------------------
(* Sessions. *)

Begin(s, kind, pc, i, e) ==
    /\ job[s].pc = "idle"
    /\ job' = [job EXCEPT ![s] = [kind |-> kind, pc |-> pc, item |-> i, event |-> e,
                                   status |-> status[i], cash |-> 0]]

\* A user's or an administrator's request.
Ask(s, kind, pc, i, e) ==
    /\ requests < MaxRequests
    /\ requests' = requests + 1
    /\ Begin(s, kind, pc, i, e)
    /\ UNCHANGED <<rows, provider, chain, locks, funds, dated, crashes>>

At(s, kinds, pc) == job[s].kind \in kinds /\ job[s].pc = pc
Item(s) == job[s].item

\* Commit or rollback.
End(s) ==
    /\ job' = [job EXCEPT ![s] = Idle]
    /\ rowLock' = [i \in Items |-> IF rowLock[i] = s THEN NoOne ELSE rowLock[i]]
    /\ userLock' = IF userLock = s THEN NoOne ELSE userLock

\* The provider has its answer.
Answer(s) ==
    sent' = IF job[s].kind = "webhook" THEN [sent EXCEPT ![Item(s)] = @ \ {job[s].event}] ELSE sent

\* The commit writes rows that refer to the user's, which no other session may have locked.
Commit(s) ==
    /\ userLock \in {NoOne, s}
    /\ End(s) /\ Answer(s)
    /\ UNCHANGED <<method, placed, happened, claimed, lost, verdict, dated, crashes, requests>>

SetStatus(s, new) == status' = [status EXCEPT ![Item(s)] = new]

\* SELECT ... FOR UPDATE of the item, and its user with it.
LockItem(s) ==
    /\ job[s].pc = "queued" /\ job[s].kind # "request"
    /\ rowLock[Item(s)] = NoOne
    /\ rowLock' = [rowLock EXCEPT ![Item(s)] = s]
    /\ job' = [job EXCEPT ![s].pc = "item", ![s].cash = wallet]
    /\ UNCHANGED <<rows, provider, chain, userLock, funds, dated, crashes, requests>>

-----------------------------------------------------------------------------
(* Payment providers. *)

\* An OxaPay invoice is paid or it fails, a Razorpay order is captured.  ("waiting"
\* changes nothing.)
Possible(i) ==
    CASE method[i] = "oxapay" ->
           {Event("confirming", 0)} \union
           (IF Event("failed", 0) \in happened[i] THEN {} ELSE {Event("paid", 0)}) \union
           (IF Event("paid", 0) \in happened[i] THEN {} ELSE {Event("failed", 0)})
      [] method[i] = "razorpay" -> {Event("captured", n) : n \in 1..placed[i]}
      [] OTHER -> {}

Pays(i, e) ==
    /\ e \in Possible(i) \ happened[i]
    /\ happened' = [happened EXCEPT ![i] = @ \union {e}]
    /\ sent' = [sent EXCEPT ![i] = @ \union {e}]
    /\ UNCHANGED <<rows, claimed, lost, chain, locks, job, funds, dated, crashes, requests>>

\* The webhook's row in webhook_events is committed before the webhook is handled.
Deliver(s, i, e) ==
    /\ e \in sent[i] \ claimed[i]
    /\ Begin(s, "webhook", "queued", i, e)
    /\ claimed' = [claimed EXCEPT ![i] = @ \union {e}]
    /\ UNCHANGED <<rows, happened, sent, lost, chain, locks, funds, dated, crashes, requests>>

\* A webhook that has its row is answered without being handled.
Duplicate(i, e) ==
    /\ e \in sent[i] \intersect claimed[i]
    /\ sent' = [sent EXCEPT ![i] = @ \ {e}]
    /\ UNCHANGED <<rows, happened, claimed, lost, chain, locks, job, funds, dated, crashes, requests>>

\* The checkout page reports the captured payment.
Checkout(s, i, e) ==
    /\ e \in happened[i] /\ e.type = "captured"
    /\ Ask(s, "verify", "queued", i, e)

-----------------------------------------------------------------------------
(* Deposits. *)

Open == {"initiated", "pending"}

\* Variant of Settles: the handler trusts its webhook.
SettlesAnyStatus(s) ==
    LET i == Item(s)
        e == job[s].event
    IN  \/ job[s].kind = "approve" /\ status[i] = "pending"
        \/ job[s].kind = "webhook" /\ e.type = "paid"
        \/ job[s].kind \in {"webhook", "verify"} /\ e.type = "captured" /\ method[i] = "razorpay"

\* Variant of Settles: a payment is only expected once it was seen on the chain.
SettlesPending(s) ==
    /\ job[s].kind \in {"webhook", "verify", "approve"}
    /\ status[Item(s)] = "pending"
    /\ job[s].event.type = "captured" =>
          method[Item(s)] = "razorpay" /\ order[Item(s)] = job[s].event.order
    /\ job[s].event.type \notin {"confirming", "failed"}

\* The handler that holds the item's row is going to credit it.
Settles(s) ==
    LET i == Item(s)
        e == job[s].event
    IN  \/ job[s].kind = "approve" /\ status[i] = "pending"
        \/ job[s].kind = "webhook" /\ e.type = "paid" /\ status[i] \in Open
        \/ /\ job[s].kind \in {"webhook", "verify"} /\ e.type = "captured"
           /\ method[i] = "razorpay" /\ order[i] = e.order
           /\ status[i] \in Open

\* Variant of Debits: a request that nothing was debited for is refunded too.
DebitsAny(s) == status[Item(s)] = "pending" /\ job[s].kind \in {"approveW", "rejectW"}

\* The handler that holds the item's row is going to debit or refund it.
Debits(s) ==
    /\ status[Item(s)] = "pending"
    /\ \/ job[s].kind = "approveW"
       \/ job[s].kind = "rejectW" /\ method[Item(s)] = "onchain"

\* The balance's row is locked; the balance stays the one that came with the item.
LockUser(s) ==
    /\ job[s].pc = "item"
    /\ Settles(s) \/ Debits(s)
    /\ userLock = NoOne
    /\ userLock' = s
    /\ job' = [job EXCEPT ![s].pc = "wallet"]
    /\ UNCHANGED <<rows, provider, chain, rowLock, funds, dated, crashes, requests>>

\* The gateway's handlers compare the dates of the active bonus offers, which have a time
\* zone, with a clock that has none; the administrators' use one that has.
Raising(s) ==
    /\ dated
    /\ At(s, {"webhook", "verify"}, "wallet") \/ (At(s, {"chain"}, "loaded") /\ verdict[Item(s)])

\* The row in webhook_events stays when the handler's transaction is gone.
Loses(s) ==
    lost' = IF job[s].kind = "webhook" THEN [lost EXCEPT ![Item(s)] = @ \union {job[s].event}] ELSE lost

\* Nothing is committed, and the provider gets a 500; the engine tries again when the key has
\* expired.
Raises(s) ==
    /\ Raising(s)
    /\ End(s) /\ Loses(s)
    /\ UNCHANGED <<rows, happened, sent, claimed, chain, funds, dated, crashes, requests>>

\* Variant of Credit: the row keeps its status.
CreditUnmarked(s) ==
    /\ At(s, {"webhook", "verify", "approve"}, "wallet") /\ ~Raising(s)
    /\ wallet' = job[s].cash + 1
    /\ due' = due + 1
    /\ credits' = [credits EXCEPT ![Item(s)] = @ + 1]
    /\ Commit(s)
    /\ UNCHANGED <<status, order, linked, redis, tries, debits>>

Credit(s) ==
    /\ At(s, {"webhook", "verify", "approve"}, "wallet") /\ ~Raising(s)
    /\ SetStatus(s, IF job[s].kind = "approve" THEN "approved" ELSE "auto_approved")
    /\ order' = IF job[s].event.type = "captured" THEN [order EXCEPT ![Item(s)] = Settled] ELSE order
    /\ wallet' = job[s].cash + 1
    /\ due' = due + 1
    /\ credits' = [credits EXCEPT ![Item(s)] = @ + 1]
    /\ Commit(s)
    /\ UNCHANGED <<linked, redis, tries, debits>>

\* A payment was seen on the chain, or the invoice failed or expired.
Confirming(s) == job[s].event.type = "confirming" /\ status[Item(s)] = "initiated"
Failing(s) == job[s].event.type = "failed" /\ status[Item(s)] \in Open

MarkInvoice(s) ==
    /\ At(s, {"webhook"}, "item")
    /\ \/ Confirming(s) /\ SetStatus(s, "pending")
       \/ Failing(s) /\ SetStatus(s, "rejected")
    /\ Commit(s)
    /\ UNCHANGED <<linked, order, redis, tries, funds>>

\* Local banking: the administrator opens the checkout for the deposit.
Offers(s) == job[s].kind = "offer" /\ status[Item(s)] = "pending" /\ method[Item(s)] = "local"

OfferCheckout(s) ==
    /\ job[s].pc = "item" /\ Offers(s)
    /\ linked' = [linked EXCEPT ![Item(s)] = TRUE]
    /\ Commit(s)
    /\ UNCHANGED <<status, order, redis, tries, funds>>

\* The user pays there, or tries again: a new order takes the place of the last.
Orders(s) ==
    /\ job[s].kind = "order" /\ status[Item(s)] = "pending" /\ linked[Item(s)]
    /\ placed[Item(s)] < MaxOrders

PlaceOrder(s) ==
    /\ job[s].pc = "item" /\ Orders(s)
    /\ placed' = [placed EXCEPT ![Item(s)] = @ + 1]
    /\ order' = [order EXCEPT ![Item(s)] = placed[Item(s)] + 1]
    /\ method' = [method EXCEPT ![Item(s)] = "razorpay"]
    /\ End(s)
    /\ UNCHANGED <<status, linked, provider, chain, funds, dated, crashes, requests>>

\* reject_deposit reads the row without its lock; the UPDATE meets the lock.
RejectLoad(s, i) ==
    /\ status[i] = "pending" /\ method[i] \in Deposits
    /\ Ask(s, "reject", "loaded", i, NoEvent)

RejectCommit(s) ==
    /\ At(s, {"reject"}, "loaded")
    /\ rowLock[Item(s)] = NoOne
    /\ SetStatus(s, "rejected")
    /\ Commit(s)
    /\ UNCHANGED <<linked, order, redis, tries, funds>>

-----------------------------------------------------------------------------
(* Transfers on a chain. *)

\* The user reports the transfer; the row is read without its lock.
ConfirmLoad(s, i) ==
    /\ method[i] = "chain" /\ status[i] \notin {"auto_approved", "approved", "rejected"}
    /\ OneConfirm => \A t \in Sessions : job[t].kind = "confirm" => Item(t) # i
    /\ Ask(s, "confirm", "loaded", i, NoEvent)

ConfirmCommit(s) ==
    /\ At(s, {"confirm"}, "loaded")
    /\ rowLock[Item(s)] = NoOne
    /\ IF job[s].status = "initiated" THEN SetStatus(s, "submitted") ELSE UNCHANGED status
    /\ Commit(s)
    /\ UNCHANGED <<linked, order, redis, tries, funds>>

\* Variant of VerifyClaim: the key keeps nobody out.
VerifyClaimAnyway(s, i) ==
    /\ method[i] = "chain" /\ status[i] = "submitted"
    /\ redis' = [redis EXCEPT ![i] = TRUE]
    /\ Begin(s, "chain", "found", i, NoEvent)
    /\ UNCHANGED <<rows, provider, tries, verdict, locks, funds, dated, crashes, requests>>

\* The engine's tick finds the deposit and sets its key.
VerifyClaim(s, i) ==
    /\ method[i] = "chain" /\ status[i] = "submitted"
    /\ ~redis[i]
    /\ redis' = [redis EXCEPT ![i] = TRUE]
    /\ Begin(s, "chain", "found", i, NoEvent)
    /\ UNCHANGED <<rows, provider, tries, verdict, locks, funds, dated, crashes, requests>>

\* The deposit is read again, without its lock and its user with it, before the chain is
\* asked.
VerifyLoad(s) ==
    /\ At(s, {"chain"}, "found")
    /\ IF status[Item(s)] = "submitted"
       THEN job' = [job EXCEPT ![s].pc = "loaded", ![s].cash = wallet]
       ELSE job' = [job EXCEPT ![s] = Idle]
    /\ UNCHANGED <<rows, provider, chain, locks, funds, dated, crashes, requests>>

\* The transfer is confirmed; the user is read without a lock, and was loaded before.
VerifyCredit(s) ==
    /\ At(s, {"chain"}, "loaded") /\ verdict[Item(s)] /\ ~Raising(s)
    /\ rowLock[Item(s)] = NoOne
    /\ SetStatus(s, "auto_approved")
    /\ wallet' = job[s].cash + 1
    /\ due' = due + 1
    /\ credits' = [credits EXCEPT ![Item(s)] = @ + 1]
    /\ Commit(s)
    /\ UNCHANGED <<linked, order, redis, tries, debits>>

\* The transfer failed for good.
VerifyFailed(s) ==
    /\ At(s, {"chain"}, "loaded") /\ ~verdict[Item(s)]
    /\ rowLock[Item(s)] = NoOne
    /\ SetStatus(s, "rejected")
    /\ Commit(s)
    /\ UNCHANGED <<linked, order, redis, tries, funds>>

\* The chain does not know yet: tried again, or left to an administrator.
VerifyUndecided(s) ==
    LET i == Item(s)
    IN  /\ At(s, {"chain"}, "loaded")
        /\ IF tries[i] < MaxTries
           THEN tries' = [tries EXCEPT ![i] = @ + 1] /\ UNCHANGED status
           ELSE /\ rowLock[i] = NoOne
                /\ SetStatus(s, "manual_review") /\ UNCHANGED tries
        /\ Commit(s)
        /\ UNCHANGED <<linked, order, redis, funds>>

\* Variant of KeyExpires: the key is kept until there is a verdict.
KeyKept(i) ==
    /\ redis[i] /\ status[i] # "submitted"
    /\ redis' = [redis EXCEPT ![i] = FALSE]
    /\ UNCHANGED <<rows, provider, tries, verdict, locks, job, funds, dated, crashes, requests>>

\* Nobody deletes the key; it expires.
KeyExpires(i) ==
    /\ redis[i]
    /\ VerifyFits => \A s \in Sessions : job[s].kind = "chain" => Item(s) # i
    /\ redis' = [redis EXCEPT ![i] = FALSE]
    /\ UNCHANGED <<rows, provider, tries, verdict, locks, job, funds, dated, crashes, requests>>

-----------------------------------------------------------------------------
(* Withdrawals: an on-chain one is debited when it is requested, the others when they *)
(* are approved. *)

\* The check of the user's KYC loads the user before the balance's row is locked, but its copy
\* is local and gone by then, so that the locked select reads the row afresh.
RequestOnchain(s, i) ==
    /\ method[i] = "onchain" /\ status[i] = "none"
    /\ \A t \in Sessions : Item(t) # i
    /\ Ask(s, "request", "queued", i, NoEvent)

RequestLock(s) ==
    /\ At(s, {"request"}, "queued")
    /\ userLock = NoOne
    /\ userLock' = s
    /\ job' = [job EXCEPT ![s].pc = "wallet", ![s].cash = wallet]
    /\ UNCHANGED <<rows, provider, chain, rowLock, funds, dated, crashes, requests>>

\* What it takes from the balance to serve the session.
Needs(s) == IF job[s].kind = "approveW" /\ method[Item(s)] = "onchain" THEN 0 ELSE 1

\* What the session moves out of the balance; a refund moves it back in.
Pay(s, amount) ==
    /\ wallet' = IF amount = 0 THEN wallet ELSE job[s].cash - amount
    /\ due' = due - amount
    /\ debits' = [debits EXCEPT ![Item(s)] = @ + amount]
    /\ UNCHANGED credits

RequestDebit(s) ==
    /\ At(s, {"request"}, "wallet") /\ job[s].cash >= Needs(s)
    /\ SetStatus(s, "pending")
    /\ Pay(s, Needs(s))
    /\ Commit(s)
    /\ UNCHANGED <<linked, order, redis, tries>>

\* A check of the balance, and no debit.
RequestBank(i) ==
    /\ method[i] = "bank" /\ status[i] = "none"
    /\ wallet >= 1
    /\ requests < MaxRequests
    /\ requests' = requests + 1
    /\ status' = [status EXCEPT ![i] = "pending"]
    /\ UNCHANGED <<method, linked, order, placed, provider, chain, locks, job, funds, dated, crashes>>

Approve(s) ==
    /\ At(s, {"approveW"}, "wallet") /\ job[s].cash >= Needs(s)
    /\ SetStatus(s, "approved")
    /\ Pay(s, Needs(s))
    /\ Commit(s)
    /\ UNCHANGED <<linked, order, redis, tries>>

\* What was debited at the request comes back.
Refund(s) ==
    /\ At(s, {"rejectW"}, "wallet")
    /\ SetStatus(s, "rejected")
    /\ Pay(s, -1)
    /\ Commit(s)
    /\ UNCHANGED <<linked, order, redis, tries>>

Drops(s) == job[s].kind = "rejectW" /\ status[Item(s)] = "pending" /\ method[Item(s)] = "bank"
Paid(s) == job[s].kind = "pay" /\ status[Item(s)] = "approved"

\* A rejected request that nothing was debited for; the payout of an approved one.
Conclude(s) ==
    /\ job[s].pc = "item"
    /\ \/ Drops(s) /\ SetStatus(s, "rejected")
       \/ Paid(s) /\ SetStatus(s, "paid")
    /\ Commit(s)
    /\ UNCHANGED <<linked, order, redis, tries, funds>>

-----------------------------------------------------------------------------
(* Requests of administrators, refusals, crashes. *)

\* An administrator creates a bonus offer with a date, or edits or ends the last of them.
OfferChanges ==
    /\ requests < MaxRequests
    /\ requests' = requests + 1
    /\ dated' = ~dated
    /\ UNCHANGED <<rows, provider, chain, locks, job, funds, crashes>>

AskAdmin(s, i) ==
    /\ status[i] # "none"
    /\ \/ /\ method[i] \in Deposits
          /\ \E kind \in {"approve", "offer"} : Ask(s, kind, "queued", i, NoEvent)
       \/ /\ method[i] \in Withdrawals
          /\ \E kind \in {"approveW", "rejectW", "pay"} : Ask(s, kind, "queued", i, NoEvent)

AskOrder(s, i) ==
    /\ method[i] \in {"local", "razorpay"} /\ linked[i]
    /\ Ask(s, "order", "queued", i, NoEvent)

\* The row is not in the state the handler needs, or the balance is too small.
Refuse(s) ==
    /\ \/ /\ job[s].pc = "item"
          /\ ~(Settles(s) \/ Debits(s) \/ Offers(s) \/ Orders(s) \/ Drops(s) \/ Paid(s))
          /\ ~(job[s].kind = "webhook" /\ (Confirming(s) \/ Failing(s)))
       \/ At(s, {"request", "approveW"}, "wallet") /\ job[s].cash < Needs(s)
    /\ End(s) /\ Answer(s)
    /\ UNCHANGED <<rows, happened, claimed, lost, chain, funds, dated, crashes, requests>>

\* The process dies with the session, or the database fails it.
Crash(s) ==
    /\ job[s].pc # "idle"
    /\ crashes < MaxCrashes
    /\ crashes' = crashes + 1
    /\ End(s) /\ Loses(s)
    /\ UNCHANGED <<rows, happened, sent, claimed, chain, funds, dated, requests>>

Serve(s) ==
    \/ LockItem(s) \/ LockUser(s) \/ Credit(s) \/ Raises(s) \/ MarkInvoice(s) \/ OfferCheckout(s)
    \/ PlaceOrder(s) \/ RejectCommit(s) \/ Refuse(s)
    \/ ConfirmCommit(s) \/ VerifyLoad(s) \/ VerifyCredit(s)
    \/ VerifyFailed(s) \/ VerifyUndecided(s)
    \/ RequestLock(s) \/ RequestDebit(s) \/ Approve(s) \/ Refund(s) \/ Conclude(s)

Next ==
    \/ \E s \in Sessions : Serve(s) \/ Crash(s)
    \/ \E s \in Sessions, i \in Items :
          \/ AskAdmin(s, i) \/ AskOrder(s, i) \/ RejectLoad(s, i)
          \/ ConfirmLoad(s, i) \/ RequestOnchain(s, i) \/ VerifyClaim(s, i)
    \/ \E i \in Items : RequestBank(i) \/ KeyExpires(i)
    \/ OfferChanges
    \/ \E i \in Items, e \in Events :
          \/ Pays(i, e) \/ Duplicate(i, e)
          \/ \E s \in Sessions : Deliver(s, i, e) \/ Checkout(s, i, e)

Spec == Init /\ [][Next]_vars

\* A provider repeats a webhook until it is answered.
Webhooks(i) ==
    \E e \in Events : Duplicate(i, e) \/ \E s \in Sessions : Deliver(s, i, e)

\* Sessions proceed and row locks are handed on; the engine ticks and its keys expire.
FairSpec ==
    /\ Spec
    /\ \A s \in Sessions : SF_vars(Serve(s))
    /\ \A i \in Items :
          /\ SF_vars(Webhooks(i))
          /\ SF_vars(\E s \in Sessions : VerifyClaim(s, i))
          /\ WF_vars(KeyExpires(i))

-----------------------------------------------------------------------------
(* Properties. *)

\* No deposit is credited twice, however often and from however many sides it is
\* confirmed.
CreditedOnce == \A i \in Items : credits[i] <= 1

\* The balance is what was credited less what was debited: no handler overwrites what
\* another one committed.
FundsBalance == wallet = due

\* An on-chain withdrawal is debited as long as it may still be paid, the others once
\* they are approved; a rejected one has its money back.
DebitFollowsStatus ==
    \A i \in Items :
        debits[i] = CASE method[i] = "onchain" /\ status[i] \in {"pending", "approved", "paid"} -> 1
                      [] method[i] = "bank" /\ status[i] \in {"approved", "paid"} -> 1
                      [] OTHER -> 0

Final == {"approved", "auto_approved", "rejected", "paid"}

\* What was credited, paid or rejected stays so: but for reject_deposit, whose
\* administrator may have read the row before it was credited, and for the payout of an
\* approved withdrawal.
FinalStays ==
    [][\A i \in Items :
          status[i] \in Final /\ status'[i] # status[i] =>
              \/ status[i] = "approved" /\ status'[i] = "paid"
              \/ \E s \in Sessions : At(s, {"reject"}, "loaded") /\ Item(s) = i]_vars

\* The webhook of a payment, for the order the deposit has now.
Reported(i, e) == e \in sent[i] /\ (e.type = "captured" => order[i] = e.order)

\* A payment that the provider reports is credited, if its one webhook that is handled is
\* handled to the end: a handler that raises or dies after the webhook was claimed loses the
\* payment, since every repetition is answered as a duplicate.  Nor is a payment credited
\* when the deposit is rejected, or has a new order in the place of the one that was paid.
PaymentCredited ==
    \A i \in Items, e \in Payments :
        Reported(i, e) ~> \/ credits[i] = 1
                          \/ status[i] = "rejected"
                          \/ e \in lost[i]
                          \/ e.type = "captured" /\ order[i] # e.order

\* A reported transfer is credited, rejected or left to an administrator, once no offer with
\* a date stands in its way any more.
TransferDecided ==
    <>[]~dated => \A i \in Items : (status[i] = "submitted") ~> (status[i] # "submitted")
=============================================================================

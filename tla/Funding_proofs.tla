---------------------------- MODULE Funding_proofs ----------------------------
(***************************************************************************)
(* The row lock of a deposit makes its credit happen once: for any number  *)
(* of items and sessions, of webhooks and their repetitions, of crashes    *)
(* and of administrators, whatever the deposits on a chain do beside it. A *)
(* withdrawal is debited as its status says, for the same reason; and what *)
(* is final stays so, with deposits on a chain too if their confirmations  *)
(* and verifications come one at a time; and then, where one item is at    *)
(* work, the wallet is what was credited less what was debited.            *)
(***************************************************************************)
EXTENDS Funding, TLAPS

\* The part of the type invariant that the argument needs.
Shape ==
    /\ method \in [Items -> Deposits \union Withdrawals]
    /\ status \in [Items -> Statuses]
    /\ order \in [Items -> 0..Settled]
    /\ placed \in [Items -> 0..MaxOrders]
    /\ credits \in [Items -> Nat]
    /\ rowLock \in [Items -> Sessions \union {NoOne}]
    /\ job \in [Sessions -> Jobs]
    /\ wallet \in Int

Crediting == {"webhook", "verify", "approve"}
Chained == {"confirm", "chain"}
Withdrawing == {"request", "approveW", "rejectW", "pay"}
ByOrder == {"local", "razorpay"}

\* A session works on an item of its kind; past the item's lock it holds the row; and a
\* handler that is going to credit the deposit still finds it creditable.
Working(s) ==
    \/ job[s] = Idle
    \/ /\ Item(s) \in Items
       /\ job[s].kind \in Chained => method[Item(s)] = "chain"
       /\ job[s].kind = "order" => method[Item(s)] \in ByOrder
       /\ job[s].kind \in Withdrawing <=> method[Item(s)] \in Withdrawals
       /\ job[s].pc \in {"item", "wallet"} /\ job[s].kind # "request" => rowLock[Item(s)] = s
       /\ job[s].pc = "wallet" /\ job[s].kind \in Crediting => Settles(s)

Credited(i) ==
    method[i] # "chain" /\ credits[i] # 0 =>
        /\ credits[i] = 1
        /\ method[i] \in Deposits
        /\ status[i] \in {"approved", "auto_approved", "rejected"}

\* Only a provider's items have payments.
Provided ==
    /\ happened \in [Items -> SUBSET Events]
    /\ sent \in [Items -> SUBSET Events]
    /\ \A i \in Items : happened[i] \union sent[i] # {} => method[i] \in {"oxapay", "razorpay"}

CreditInv ==
    /\ Shape
    /\ \A s \in Sessions : Working(s)
    /\ \A i \in Items : Credited(i)

\* Nothing is credited, and nobody works, at the start.
LEMMA InitCredit == Init => CreditInv
<1> SUFFICES ASSUME Init PROVE CreditInv
  OBVIOUS
<1>1. method \in [Items -> Deposits \union Withdrawals]
  BY FundingAssumption DEF Init
<1>2. status \in [Items -> Statuses]
  BY DEF Init, FirstStatus, Statuses
<1>3. /\ order \in [Items -> 0..Settled] /\ placed \in [Items -> 0..MaxOrders]
      /\ credits \in [Items -> Nat] /\ wallet \in Int
  BY FundingAssumption DEF Init, Settled
<1>4. rowLock \in [Items -> Sessions \union {NoOne}]
  BY DEF Init
<1>5. job \in [Sessions -> Jobs]
  BY DEF Init, Idle, Jobs, Kinds, Statuses, NoEvent
<1>6. ASSUME NEW s \in Sessions PROVE Working(s)
  BY DEF Init, Idle, Working, Chained, Withdrawing
<1>7. ASSUME NEW i \in Items PROVE Credited(i)
  BY DEF Init, Credited
<1> QED
  BY <1>1, <1>2, <1>3, <1>4, <1>5, <1>6, <1>7 DEF CreditInv, Shape

\* A step that leaves a session's job and its locks alone, and the rows it has locked,
\* does not disturb it.
LEMMA OthersKeepWorking ==
    ASSUME Shape, NEW t \in Sessions, Working(t),
           job'[t] = job[t],
           \A i \in Items :
              /\ method'[i] \in Withdrawals <=> method[i] \in Withdrawals
              /\ method'[i] = "chain" <=> method[i] = "chain"
              /\ method[i] \in ByOrder => method'[i] \in ByOrder
              /\ rowLock[i] = t => rowLock'[i] = t
              /\ rowLock[i] = t /\ method[i] \notin Withdrawals =>
                    status'[i] = status[i] /\ order'[i] = order[i] /\ method'[i] = method[i]
    PROVE  Working(t)'
<1>1. CASE job[t] = Idle
  BY <1>1 DEF Working
<1>2. CASE job[t] # Idle
  <2>1. Item(t) \in Items /\ Item(t)' = Item(t)
    BY <1>2 DEF Working, Item
  <2>2. ASSUME job[t].pc = "wallet", job[t].kind \in Crediting PROVE Settles(t)'
    <3>1. job[t].kind \notin Withdrawing
      BY <2>2 DEF Crediting, Withdrawing
    <3>2. rowLock[Item(t)] = t /\ method[Item(t)] \notin Withdrawals /\ Settles(t)
      BY <1>2, <2>1, <2>2, <3>1 DEF Working, Crediting
    <3> QED
      BY <2>1, <3>2 DEF Settles, Item
  <2> QED
    BY <2>1, <2>2 DEF Working, Item
<1> QED
  BY <1>1, <1>2

\* The end of a session's transaction.
LEMMA EndKeeps ==
    ASSUME Shape, NEW s \in Sessions, End(s)
    PROVE  /\ rowLock' \in [Items -> Sessions \union {NoOne}]
           /\ job' \in [Sessions -> Jobs]
           /\ Working(s)'
           /\ \A t \in Sessions \ {s} :
                 /\ job'[t] = job[t]
                 /\ \A i \in Items : rowLock[i] = t => rowLock'[i] = t
<1>1. Idle \in Jobs
  BY DEF Idle, Jobs, Kinds, Statuses, NoEvent
<1>2. job' \in [Sessions -> Jobs] /\ job'[s] = Idle
  BY <1>1 DEF End, Shape
<1>3. Working(s)'
  BY <1>2 DEF Working, Idle, Chained, Withdrawing, Crediting
<1> QED
  BY <1>2, <1>3 DEF End, Shape

\* A commit changes one item, whose row nobody else holds, and leaves it well credited.
LEMMA CommitKeeps ==
    ASSUME CreditInv, NEW s \in Sessions, NEW i \in Items, End(s),
           rowLock[i] \in {s, NoOne} \/ method[i] \in Withdrawals,
           method' \in [Items -> Deposits \union Withdrawals],
           status' \in [Items -> Statuses], order' \in [Items -> 0..Settled],
           placed' \in [Items -> 0..MaxOrders],
           credits' \in [Items -> Nat], wallet' \in Int,
           method'[i] \in Withdrawals <=> method[i] \in Withdrawals,
           method'[i] = "chain" <=> method[i] = "chain",
           method[i] \in ByOrder => method'[i] \in ByOrder,
           \A j \in Items \ {i} :
              method'[j] = method[j] /\ status'[j] = status[j] /\ order'[j] = order[j]
              /\ credits'[j] = credits[j],
           Credited(i)'
    PROVE  CreditInv'
<1>1. Shape'
  BY EndKeeps DEF CreditInv, Shape
<1>2. ASSUME NEW t \in Sessions \ {s} PROVE Working(t)'
  <2>1. job'[t] = job[t] /\ \A j \in Items : rowLock[j] = t => rowLock'[j] = t
    BY EndKeeps DEF CreditInv
  <2>2. rowLock[i] = t => method[i] \in Withdrawals
    BY FundingAssumption
  <2> QED
    BY <2>1, <2>2, OthersKeepWorking DEF CreditInv
<1>3. ASSUME NEW j \in Items PROVE Credited(j)'
  BY DEF CreditInv, Credited
<1> QED
  BY <1>1, <1>2, <1>3, EndKeeps DEF CreditInv

\* Rollbacks, and crashes.
LEMMA RollbackKeeps ==
    ASSUME CreditInv, NEW s \in Sessions, End(s), UNCHANGED <<rows, funds>>
    PROVE  CreditInv'
<1>1. Shape'
  BY EndKeeps DEF CreditInv, Shape, rows, funds
<1>2. ASSUME NEW t \in Sessions \ {s} PROVE Working(t)'
  BY EndKeeps, OthersKeepWorking DEF CreditInv, rows
<1>3. ASSUME NEW j \in Items PROVE Credited(j)'
  BY DEF CreditInv, Credited, rows, funds
<1> QED
  BY <1>1, <1>2, <1>3, EndKeeps DEF CreditInv

\* A step of a session that writes no row: who takes it must be well after it.
LEMMA JobStepKeeps ==
    ASSUME CreditInv, NEW s \in Sessions, UNCHANGED <<rows, funds>>,
           rowLock' \in [Items -> Sessions \union {NoOne}],
           \A t \in Sessions \ {s}, i \in Items : rowLock[i] = t => rowLock'[i] = t,
           job' \in [Sessions -> Jobs],
           \A t \in Sessions \ {s} : job'[t] = job[t],
           Working(s)'
    PROVE  CreditInv'
<1>1. Shape'
  BY DEF CreditInv, Shape, rows, funds
<1>2. ASSUME NEW t \in Sessions \ {s} PROVE Working(t)'
  BY OthersKeepWorking DEF CreditInv, rows
<1>3. ASSUME NEW j \in Items PROVE Credited(j)'
  BY DEF CreditInv, Credited, rows, funds
<1> QED
  BY <1>1, <1>2, <1>3 DEF CreditInv

\* A session takes up an item of its kind.
LEMMA BeginKeeps ==
    ASSUME CreditInv, NEW s \in Sessions, NEW i \in Items,
           NEW kind \in Kinds \ {"none"}, NEW pc \in {"queued", "loaded", "found"},
           NEW e \in Events \union {NoEvent},
           Begin(s, kind, pc, i, e), UNCHANGED <<rows, funds, rowLock>>,
           kind \in Chained => method[i] = "chain",
           kind = "order" => method[i] \in ByOrder,
           kind \in Withdrawing <=> method[i] \in Withdrawals
    PROVE  CreditInv'
<1> DEFINE new == [kind |-> kind, pc |-> pc, item |-> i, event |-> e,
                   status |-> status[i], cash |-> 0]
<1>1. status[i] \in Statuses
  BY DEF CreditInv, Shape
<1>2. /\ new \in Jobs
      /\ new.kind = kind /\ new.pc = pc /\ new.item = i
  BY <1>1 DEF Jobs
<1>3. job' = [job EXCEPT ![s] = new]
  BY DEF Begin
<1> HIDE DEF new
<1>4. /\ job' \in [Sessions -> Jobs] /\ job'[s] = new
      /\ \A t \in Sessions \ {s} : job'[t] = job[t]
  BY <1>2, <1>3 DEF CreditInv, Shape
<1>5. Working(s)'
  BY <1>2, <1>4 DEF Working, Item, rows
<1> QED
  BY <1>4, <1>5, JobStepKeeps DEF CreditInv, Shape

\* Begin is where a session's request starts; who keeps rows and locks keeps them so.
LEMMA AskKeeps ==
    ASSUME CreditInv, NEW s \in Sessions, NEW i \in Items,
           NEW kind \in Kinds \ {"none"}, NEW pc \in {"queued", "loaded", "found"},
           NEW e \in Events \union {NoEvent},
           Ask(s, kind, pc, i, e),
           kind \in Chained => method[i] = "chain",
           kind = "order" => method[i] \in ByOrder,
           kind \in Withdrawing <=> method[i] \in Withdrawals
    PROVE  CreditInv'
BY BeginKeeps DEF Ask, locks

\* Requests, webhooks and ticks of the verifier take up items of their kind.
LEMMA RequestsKeep ==
    ASSUME CreditInv, Provided, NEW s \in Sessions, NEW i \in Items
    PROVE  /\ AskAdmin(s, i) => CreditInv'
           /\ AskOrder(s, i) => CreditInv'
           /\ RejectLoad(s, i) => CreditInv'
           /\ ConfirmLoad(s, i) => CreditInv'
           /\ RequestOnchain(s, i) => CreditInv'
           /\ VerifyClaim(s, i) => CreditInv'
           /\ \A e \in Events : Deliver(s, i, e) \/ Checkout(s, i, e) => CreditInv'
<1>1. ASSUME AskAdmin(s, i) PROVE CreditInv'
  <2>1. CASE \E kind \in {"approve", "offer"} :
                method[i] \in Deposits /\ Ask(s, kind, "queued", i, NoEvent)
    BY <2>1, AskKeeps DEF Kinds, Chained, Withdrawing, Deposits, Withdrawals
  <2>2. CASE \E kind \in {"approveW", "rejectW", "pay"} :
                method[i] \in Withdrawals /\ Ask(s, kind, "queued", i, NoEvent)
    BY <2>2, AskKeeps DEF Kinds, Chained, Withdrawing
  <2> QED
    BY <1>1, <2>1, <2>2 DEF AskAdmin
<1>2. ASSUME AskOrder(s, i) PROVE CreditInv'
  BY <1>2, AskKeeps DEF AskOrder, Kinds, Chained, Withdrawing, Withdrawals, ByOrder
<1>3. ASSUME RejectLoad(s, i) PROVE CreditInv'
  BY <1>3, AskKeeps DEF RejectLoad, Kinds, Chained, Withdrawing, Deposits, Withdrawals
<1>4. ASSUME ConfirmLoad(s, i) PROVE CreditInv'
  BY <1>4, AskKeeps DEF ConfirmLoad, Kinds, Chained, Withdrawing, Withdrawals
<1>5. ASSUME RequestOnchain(s, i) PROVE CreditInv'
  BY <1>5, AskKeeps DEF RequestOnchain, Kinds, Chained, Withdrawing, Withdrawals
<1>6. ASSUME VerifyClaim(s, i) PROVE CreditInv'
  BY <1>6, BeginKeeps DEF VerifyClaim, Kinds, Chained, Withdrawing, Withdrawals, locks
<1>7. ASSUME NEW e \in Events, Deliver(s, i, e) PROVE CreditInv'
  <2>1. method[i] \notin Withdrawals
    BY <1>7 DEF Deliver, Provided, Withdrawals
  <2> QED
    BY <1>7, <2>1, BeginKeeps DEF Deliver, Kinds, Chained, Withdrawing, locks
<1>8. ASSUME NEW e \in Events, Checkout(s, i, e) PROVE CreditInv'
  <2>1. method[i] \notin Withdrawals
    BY <1>8 DEF Checkout, Provided, Withdrawals
  <2> QED
    BY <1>8, <2>1, AskKeeps DEF Checkout, Kinds, Chained, Withdrawing
<1> QED
  BY <1>1, <1>2, <1>3, <1>4, <1>5, <1>6, <1>7, <1>8

\* Steps of a session that write no row.
LEMMA LocksKeep ==
    ASSUME CreditInv, NEW s \in Sessions
    PROVE  /\ LockItem(s) => CreditInv'
           /\ LockUser(s) => CreditInv'
           /\ RequestLock(s) => CreditInv'
           /\ VerifyLoad(s) => CreditInv'
<1>1. job[s].pc # "idle" => /\ job[s] \in Jobs /\ job[s] # Idle
                            /\ Item(s) \in Items
  BY DEF CreditInv, Shape, Idle, Working
<1>2. ASSUME LockItem(s) PROVE CreditInv'
  <2>1. /\ job' \in [Sessions -> Jobs]
        /\ job'[s].pc = "item" /\ job'[s].kind = job[s].kind /\ job'[s].item = job[s].item
        /\ \A t \in Sessions \ {s} : job'[t] = job[t]
    BY <1>1, <1>2 DEF LockItem, CreditInv, Shape, Jobs
  <2>2. /\ rowLock' \in [Items -> Sessions \union {NoOne}]
        /\ rowLock'[Item(s)] = s
        /\ \A t \in Sessions \ {s}, i \in Items : rowLock[i] = t => rowLock'[i] = t
    BY <1>1, <1>2, FundingAssumption DEF LockItem, CreditInv, Shape
  <2>3. UNCHANGED <<rows, funds>>
    BY <1>2 DEF LockItem
  <2>4. Working(s)'
    BY <1>1, <1>2, <2>1, <2>2, <2>3 DEF CreditInv, Working, Item, rows, LockItem
  <2> QED
    BY <2>1, <2>2, <2>3, <2>4, JobStepKeeps
<1>3. ASSUME LockUser(s) PROVE CreditInv'
  <2>1. /\ job' \in [Sessions -> Jobs]
        /\ job'[s].pc = "wallet" /\ job'[s].kind = job[s].kind /\ job'[s].item = job[s].item
        /\ job'[s].event = job[s].event
        /\ \A t \in Sessions \ {s} : job'[t] = job[t]
    BY <1>1, <1>3 DEF LockUser, CreditInv, Shape, Jobs
  <2>2. UNCHANGED <<rows, funds, rowLock>>
    BY <1>3 DEF LockUser
  <2>3. rowLock[Item(s)] = s \/ job[s].kind = "request"
    BY <1>1, <1>3 DEF LockUser, CreditInv, Working
  <2>4. ASSUME job[s].kind \in Crediting PROVE Settles(s)'
    <3>1. Settles(s)
      BY <1>3, <2>4 DEF LockUser, Debits, Crediting
    <3> QED
      BY <2>1, <2>2, <3>1 DEF Settles, Item, rows
  <2>5. Working(s)'
    BY <1>1, <1>3, <2>1, <2>2, <2>3, <2>4 DEF CreditInv, Working, Item, rows, LockUser
  <2> QED
    BY <2>1, <2>2, <2>5, JobStepKeeps DEF CreditInv, Shape
<1>4. ASSUME RequestLock(s) PROVE CreditInv'
  <2>1. /\ job' \in [Sessions -> Jobs]
        /\ job'[s].kind = "request" /\ job'[s].item = job[s].item
        /\ \A t \in Sessions \ {s} : job'[t] = job[t]
    BY <1>1, <1>4 DEF RequestLock, At, CreditInv, Shape, Jobs
  <2>2. UNCHANGED <<rows, funds, rowLock>>
    BY <1>4 DEF RequestLock
  <2>3. Working(s)'
    BY <1>1, <1>4, <2>1, <2>2 DEF CreditInv, Working, Item, rows, RequestLock, At, Crediting
  <2> QED
    BY <2>1, <2>2, <2>3, JobStepKeeps DEF CreditInv, Shape
<1>5. ASSUME VerifyLoad(s) PROVE CreditInv'
  <2>1. UNCHANGED <<rows, funds, rowLock>>
    BY <1>5 DEF VerifyLoad, locks
  <2>2. /\ job' \in [Sessions -> Jobs]
        /\ \A t \in Sessions \ {s} : job'[t] = job[t]
        /\ \/ job'[s] = Idle
           \/ job'[s].kind = "chain" /\ job'[s].item = job[s].item /\ job'[s].pc = "loaded"
    BY <1>1, <1>5 DEF VerifyLoad, At, CreditInv, Shape, Jobs, Idle, Kinds, Statuses
  <2>3. Working(s)'
    BY <1>1, <1>5, <2>1, <2>2 DEF CreditInv, Working, Item, rows, VerifyLoad, At, Chained, Withdrawing
  <2> QED
    BY <2>1, <2>2, <2>3, JobStepKeeps DEF CreditInv, Shape
<1> QED
  BY <1>2, <1>3, <1>4, <1>5

\* A commit that credits nothing keeps an uncredited deposit uncredited, and a credited
\* one credited: its status becomes final or was not.
LEMMA WriteKeeps ==
    ASSUME CreditInv, NEW s \in Sessions, NEW i \in Items, End(s),
           rowLock[i] \in {s, NoOne} \/ method[i] \in Withdrawals,
           NEW new \in Statuses,
           status' = [status EXCEPT ![i] = new],
           new = "rejected" \/ status[i] \notin {"approved", "auto_approved", "rejected"}
               \/ method[i] = "chain" \/ method[i] \in Withdrawals,
           order' \in [Items -> 0..Settled], \A j \in Items \ {i} : order'[j] = order[j],
           wallet' \in Int, UNCHANGED <<method, placed, credits>>
    PROVE  CreditInv'
<1>1. Credited(i)'
  BY DEF CreditInv, Credited, Shape, Deposits, Withdrawals
<1>2. /\ status' \in [Items -> Statuses]
      /\ \A j \in Items \ {i} : status'[j] = status[j]
  BY DEF CreditInv, Shape
<1>3. /\ method' \in [Items -> Deposits \union Withdrawals]
      /\ placed' \in [Items -> 0..MaxOrders] /\ credits' \in [Items -> Nat]
  BY DEF CreditInv, Shape
<1> QED
  BY <1>1, <1>2, <1>3, CommitKeeps

\* Steps of a session that commit.
LEMMA DepositsKeep ==
    ASSUME CreditInv, NEW s \in Sessions
    PROVE  /\ Credit(s) => CreditInv'
           /\ MarkInvoice(s) => CreditInv'
           /\ OfferCheckout(s) => CreditInv'
           /\ PlaceOrder(s) => CreditInv'
           /\ RejectCommit(s) => CreditInv'
<1> DEFINE i == Item(s)
<1>1. job[s].pc # "idle" => i \in Items
  BY DEF CreditInv, Idle, Working
<1>2. job[s].pc \in {"item", "wallet"} /\ job[s].kind # "request" => rowLock[i] = s
  BY DEF CreditInv, Idle, Working
<1>3. order \in [Items -> 0..Settled] /\ status \in [Items -> Statuses] /\ wallet \in Int
  BY DEF CreditInv, Shape
<1>4. ASSUME Credit(s) PROVE CreditInv'
  <2>0. PICK k \in Items : k = Item(s)
    BY <1>1, <1>4 DEF Credit, At
  <2>1. k \in Items /\ rowLock[k] = s /\ End(s) /\ UNCHANGED <<method, placed>>
    BY <1>2, <1>4, <2>0 DEF Credit, At, Commit
  <2>2. Settles(s) /\ method[k] \notin Withdrawals
    BY <1>4, <2>0 DEF Credit, At, CreditInv, Working, Crediting, Idle, Withdrawing
  <2>3. method[k] # "chain" => credits[k] = 0
    BY <2>0, <2>1, <2>2 DEF CreditInv, Credited, Settles, Open
  <2>4. method[k] \in Deposits /\ credits[k] \in Nat
    BY <2>1, <2>2 DEF CreditInv, Shape
  <2>5. PICK new \in {"approved", "auto_approved"} : status' = [status EXCEPT ![k] = new]
    BY <1>4, <2>0 DEF Credit, SetStatus
  <2>6. credits' = [credits EXCEPT ![k] = @ + 1]
    BY <1>4, <2>0 DEF Credit
  <2>7. job[s].cash \in Int
    BY DEF CreditInv, Shape, Jobs
  <2>8. wallet' \in Int
    BY <1>4, <2>7 DEF Credit
  <2>9. /\ order' \in [Items -> 0..Settled] /\ \A j \in Items \ {k} : order'[j] = order[j]
    <3>1. order' = order \/ order' = [order EXCEPT ![k] = Settled]
      BY <1>4, <2>0 DEF Credit
    <3>2. Settled \in 0..Settled
      BY FundingAssumption DEF Settled
    <3> QED
      BY <1>3, <3>1, <3>2
  <2>10. credits' \in [Items -> Nat] /\ credits'[k] = credits[k] + 1
         /\ \A j \in Items \ {k} : credits'[j] = credits[j]
    BY <2>1, <2>6 DEF CreditInv, Shape
  <2>11. /\ status' \in [Items -> Statuses] /\ status'[k] \in {"approved", "auto_approved"}
         /\ \A j \in Items \ {k} : status'[j] = status[j]
    BY <1>3, <2>1, <2>5 DEF Statuses
  <2>12. Credited(k)'
    BY <2>1, <2>3, <2>4, <2>10, <2>11 DEF Credited
  <2>13. /\ method' \in [Items -> Deposits \union Withdrawals]
         /\ placed' \in [Items -> 0..MaxOrders]
    BY <2>1 DEF CreditInv, Shape
  <2> QED
    BY <2>1, <2>8, <2>9, <2>10, <2>11, <2>12, <2>13, CommitKeeps
<1>5. ASSUME MarkInvoice(s) PROVE CreditInv'
  <2>1. i \in Items /\ rowLock[i] = s /\ End(s) /\ UNCHANGED <<method, placed, order, funds>>
    BY <1>1, <1>2, <1>5 DEF MarkInvoice, At, Commit
  <2>2. \E new \in {"pending", "rejected"} :
           status' = [status EXCEPT ![i] = new] /\ status[i] \in Open
    BY <1>5 DEF MarkInvoice, SetStatus, Confirming, Failing, Open
  <2> QED
    BY <1>3, <2>1, <2>2, WriteKeeps DEF Open, Statuses, funds
<1>6. ASSUME OfferCheckout(s) PROVE CreditInv'
  <2>1. i \in Items /\ rowLock[i] = s /\ End(s) /\ UNCHANGED <<method, placed, status, order, funds>>
    BY <1>1, <1>2, <1>6 DEF OfferCheckout, Offers, Commit
  <2>2. status[i] = "pending" /\ status' = [status EXCEPT ![i] = "pending"]
    BY <1>3, <1>6, <2>1 DEF OfferCheckout, Offers
  <2> QED
    BY <1>3, <2>1, <2>2, WriteKeeps DEF Statuses, funds
<1>7. ASSUME PlaceOrder(s) PROVE CreditInv'
  <2>0. PICK k \in Items : k = Item(s)
    BY <1>1, <1>7 DEF PlaceOrder
  <2>1. k \in Items /\ rowLock[k] = s /\ End(s) /\ UNCHANGED <<status, funds>>
    BY <1>2, <1>7, <2>0 DEF PlaceOrder, Orders
  <2>2. /\ status[k] = "pending" /\ placed[k] < MaxOrders
        /\ method' = [method EXCEPT ![k] = "razorpay"]
        /\ placed' = [placed EXCEPT ![k] = @ + 1]
        /\ order' = [order EXCEPT ![k] = placed[k] + 1]
    BY <1>7, <2>0 DEF PlaceOrder, Orders
  <2>3. method[k] \in ByOrder
    BY <1>7, <2>0 DEF PlaceOrder, Orders, CreditInv, Working, Idle
  <2>4. /\ method' \in [Items -> Deposits \union Withdrawals]
        /\ method'[k] = "razorpay"
        /\ \A j \in Items \ {k} : method'[j] = method[j]
    BY <2>1, <2>2 DEF CreditInv, Shape, Deposits
  <2>5. /\ placed' \in [Items -> 0..MaxOrders] /\ order' \in [Items -> 0..Settled]
        /\ \A j \in Items \ {k} : order'[j] = order[j]
    BY <2>1, <2>2, FundingAssumption DEF CreditInv, Shape, Settled
  <2>6. Credited(k)'
    BY <2>1, <2>2, <2>3 DEF CreditInv, Credited, ByOrder, funds
  <2>7. wallet' \in Int /\ credits' \in [Items -> Nat] /\ status' \in [Items -> Statuses]
        /\ credits' = credits
    BY <2>1 DEF CreditInv, Shape, funds
  <2>8. /\ method'[k] \in Withdrawals <=> method[k] \in Withdrawals
        /\ method'[k] = "chain" <=> method[k] = "chain"
        /\ method'[k] \in ByOrder
    BY <2>3, <2>4 DEF ByOrder, Withdrawals
  <2> QED
    BY <2>1, <2>4, <2>5, <2>6, <2>7, <2>8, CommitKeeps
<1>8. ASSUME RejectCommit(s) PROVE CreditInv'
  BY <1>1, <1>3, <1>8, WriteKeeps DEF RejectCommit, At, Commit, SetStatus, Statuses, funds
<1> QED
  BY <1>4, <1>5, <1>6, <1>7, <1>8

\* A transfer's deposit is on a chain, and nothing is said of its credits.
LEMMA TransfersKeep ==
    ASSUME CreditInv, NEW s \in Sessions
    PROVE  /\ ConfirmCommit(s) => CreditInv'
           /\ VerifyCredit(s) => CreditInv'
           /\ VerifyFailed(s) => CreditInv'
           /\ VerifyUndecided(s) => CreditInv'
<1>1. job[s].kind \in Chained /\ job[s].pc # "idle" => Item(s) \in Items /\ method[Item(s)] = "chain"
  BY DEF CreditInv, Idle, Working
<1>2. order \in [Items -> 0..Settled] /\ status \in [Items -> Statuses] /\ wallet \in Int
  BY DEF CreditInv, Shape
<1>3. ASSUME ConfirmCommit(s) PROVE CreditInv'
  <2>1. \E new \in Statuses : status' = [status EXCEPT ![Item(s)] = new]
    <3>1. \/ status' = [status EXCEPT ![Item(s)] = "submitted"]
          \/ status' = [status EXCEPT ![Item(s)] = status[Item(s)]]
      BY <1>1, <1>2, <1>3 DEF ConfirmCommit, SetStatus, At, Chained
    <3> QED
      BY <1>1, <1>2, <1>3, <3>1 DEF ConfirmCommit, At, Chained, Statuses
  <2> QED
    BY <1>1, <1>2, <1>3, <2>1, WriteKeeps DEF ConfirmCommit, Commit, At, Chained, funds
<1>4. ASSUME VerifyCredit(s) PROVE CreditInv'
  <2>1. PICK i \in Items : i = Item(s)
    BY <1>1, <1>4 DEF VerifyCredit, At, Chained
  <2>2. /\ method[i] = "chain" /\ rowLock[i] = NoOne /\ End(s)
        /\ UNCHANGED <<method, placed, order>>
    BY <1>1, <1>4, <2>1 DEF VerifyCredit, At, Chained, Commit
  <2>3. /\ status' \in [Items -> Statuses]
        /\ \A j \in Items \ {i} : status'[j] = status[j]
    BY <1>2, <1>4, <2>1 DEF VerifyCredit, SetStatus, Statuses
  <2>4. /\ credits' \in [Items -> Nat]
        /\ \A j \in Items \ {i} : credits'[j] = credits[j]
    BY <1>4, <2>1 DEF VerifyCredit, CreditInv, Shape
  <2>5. job[s].cash \in Int
    BY DEF CreditInv, Shape, Jobs
  <2>6. wallet' \in Int
    BY <1>4, <2>5 DEF VerifyCredit
  <2>7. Credited(i)'
    BY <2>2 DEF Credited
  <2>8. /\ method' \in [Items -> Deposits \union Withdrawals]
        /\ placed' \in [Items -> 0..MaxOrders] /\ order' \in [Items -> 0..Settled]
    BY <2>2 DEF CreditInv, Shape
  <2> QED
    BY <2>2, <2>3, <2>4, <2>6, <2>7, <2>8, CommitKeeps
<1>5. ASSUME VerifyFailed(s) PROVE CreditInv'
  BY <1>1, <1>2, <1>5, WriteKeeps
     DEF VerifyFailed, Commit, At, Chained, SetStatus, Statuses, funds
<1>6. ASSUME VerifyUndecided(s) PROVE CreditInv'
  <2>1. CASE tries[Item(s)] < MaxTries
    <3>1. End(s) /\ UNCHANGED <<method, status, linked, order, placed, funds>>
      BY <1>6, <2>1 DEF VerifyUndecided, Commit
    <3> QED
      BY <3>1, RollbackKeeps DEF rows
  <2>2. CASE ~(tries[Item(s)] < MaxTries)
    BY <1>1, <1>2, <1>6, <2>2, WriteKeeps
       DEF VerifyUndecided, Commit, At, Chained, SetStatus, Statuses, funds
  <2> QED
    BY <2>1, <2>2
<1> QED
  BY <1>3, <1>4, <1>5, <1>6

\* Withdrawals are not credited.
LEMMA WithdrawalsKeep ==
    ASSUME CreditInv, NEW s \in Sessions
    PROVE  /\ RequestDebit(s) => CreditInv'
           /\ Approve(s) => CreditInv'
           /\ Refund(s) => CreditInv'
           /\ Conclude(s) => CreditInv'
<1>1. job[s].kind \in Withdrawing /\ job[s].pc # "idle" =>
          Item(s) \in Items /\ method[Item(s)] \in Withdrawals
  BY DEF CreditInv, Idle, Working
<1>2. /\ order \in [Items -> 0..Settled] /\ status \in [Items -> Statuses] /\ wallet \in Int
      /\ job[s].cash \in Int
  BY DEF CreditInv, Shape, Jobs
<1>3. ASSUME NEW amount \in {-1, 0, 1}, Pay(s, amount) PROVE wallet' \in Int /\ credits' = credits
  BY <1>2, <1>3 DEF Pay
<1>4. ASSUME RequestDebit(s) \/ Approve(s) PROVE CreditInv'
  <2>1. Needs(s) \in {-1, 0, 1}
    BY DEF Needs
  <2> QED
    BY <1>1, <1>2, <1>3, <1>4, <2>1, WriteKeeps
       DEF RequestDebit, Approve, Commit, At, Withdrawing, SetStatus, Statuses
<1>6. ASSUME Refund(s) PROVE CreditInv'
  BY <1>1, <1>2, <1>3, <1>6, WriteKeeps
     DEF Refund, Commit, At, Withdrawing, SetStatus, Statuses
<1>7. ASSUME Conclude(s) PROVE CreditInv'
  <2>1. \E new \in {"rejected", "paid"} : status' = [status EXCEPT ![Item(s)] = new]
    BY <1>7 DEF Conclude, SetStatus
  <2>2. job[s].kind \in {"rejectW", "pay"} /\ job[s].pc # "idle"
    BY <1>7 DEF Conclude, Drops, Paid
  <2> QED
    BY <1>1, <1>2, <1>7, <2>1, <2>2, WriteKeeps
       DEF Conclude, Commit, Withdrawing, Statuses, funds
<1> QED
  BY <1>4, <1>6, <1>7

\* A new bank withdrawal, which takes no session.
LEMMA BankKeeps ==
    ASSUME CreditInv, NEW i \in Items, RequestBank(i)
    PROVE  CreditInv'
<1>1. /\ UNCHANGED <<method, order, placed, credits, wallet, job, rowLock>>
      /\ status' = [status EXCEPT ![i] = "pending"] /\ method[i] = "bank"
  BY DEF RequestBank, funds, locks
<1>2. status \in [Items -> Statuses]
  BY DEF CreditInv, Shape
<1>3. Shape'
  BY <1>1 DEF CreditInv, Shape, Statuses
<1>4. ASSUME NEW t \in Sessions PROVE Working(t)'
  <2>1. \A j \in Items : method[j] \notin Withdrawals => status'[j] = status[j]
    BY <1>1, <1>2 DEF Withdrawals
  <2> QED
    BY <1>1, <2>1, OthersKeepWorking DEF CreditInv
<1>5. ASSUME NEW j \in Items PROVE Credited(j)'
  BY <1>1, <1>2 DEF CreditInv, Credited, Deposits
<1> QED
  BY <1>3, <1>4, <1>5 DEF CreditInv

\* What changes neither the rows nor the sessions.
LEMMA OutsideKeeps ==
    ASSUME CreditInv, UNCHANGED <<rows, funds, rowLock, job>>
    PROVE  CreditInv'
<1>1. Shape'
  BY DEF CreditInv, Shape, rows, funds
<1>2. ASSUME NEW t \in Sessions PROVE Working(t)'
  BY OthersKeepWorking DEF CreditInv, rows
<1>3. ASSUME NEW j \in Items PROVE Credited(j)'
  BY DEF CreditInv, Credited, rows, funds
<1> QED
  BY <1>1, <1>2, <1>3 DEF CreditInv

\* The invariant is inductive.
LEMMA NextCredit == CreditInv /\ Provided /\ [Next]_vars => CreditInv'
<1> SUFFICES ASSUME CreditInv, Provided, [Next]_vars PROVE CreditInv'
  OBVIOUS
<1>1. CASE UNCHANGED vars
  BY <1>1, OutsideKeeps DEF vars, locks
<1>2. ASSUME NEW s \in Sessions, Serve(s) PROVE CreditInv'
  <2>1. CASE Refuse(s) \/ Raises(s)
    BY <2>1, RollbackKeeps DEF Refuse, Raises
  <2> QED
    BY <1>2, <2>1, LocksKeep, DepositsKeep, TransfersKeep, WithdrawalsKeep DEF Serve
<1>3. ASSUME NEW s \in Sessions, Crash(s) PROVE CreditInv'
  BY <1>3, RollbackKeeps DEF Crash
<1>4. ASSUME NEW i \in Items, RequestBank(i) PROVE CreditInv'
  BY <1>4, BankKeeps
<1>5. ASSUME NEW i \in Items, KeyExpires(i) PROVE CreditInv'
  BY <1>5, OutsideKeeps DEF KeyExpires, locks
<1>6. ASSUME NEW i \in Items, NEW e \in Events, Pays(i, e) \/ Duplicate(i, e) PROVE CreditInv'
  BY <1>6, OutsideKeeps DEF Pays, Duplicate, locks
<1>7. ASSUME OfferChanges PROVE CreditInv'
  BY <1>7, OutsideKeeps DEF OfferChanges, locks
<1> QED
  BY <1>1, <1>2, <1>3, <1>4, <1>5, <1>6, <1>7, RequestsKeep DEF Next

\* Only the checkout's order changes the method of a deposit, and nothing but a payment
\* makes a webhook.
LEMMA PaymentSteps ==
    ASSUME Next
    PROVE  /\ method' = method \/ \E s \in Sessions : PlaceOrder(s)
           /\ \/ happened' = happened /\ sent' = sent
              \/ happened' = happened /\ \E s \in Sessions : Answer(s)
              \/ \E i \in Items, e \in Events : Pays(i, e) \/ Duplicate(i, e)
<1>1. ASSUME NEW s \in Sessions, Serve(s)
      PROVE  /\ method' = method \/ PlaceOrder(s)
             /\ happened' = happened /\ (sent' = sent \/ Answer(s))
  <2>1. CASE \/ LockItem(s) \/ LockUser(s) \/ Refuse(s) \/ Raises(s) \/ VerifyLoad(s)
             \/ RequestLock(s) \/ PlaceOrder(s)
    BY <2>1 DEF LockItem, LockUser, Refuse, Raises, VerifyLoad, RequestLock, PlaceOrder,
                rows, provider
  <2>2. CASE \/ Credit(s) \/ MarkInvoice(s) \/ OfferCheckout(s) \/ RejectCommit(s)
             \/ ConfirmCommit(s) \/ VerifyCredit(s) \/ VerifyFailed(s) \/ VerifyUndecided(s)
             \/ RequestDebit(s) \/ Approve(s) \/ Refund(s) \/ Conclude(s)
    <3>1. Commit(s)
      BY <2>2 DEF Credit, MarkInvoice, OfferCheckout, RejectCommit, ConfirmCommit, VerifyCredit,
                  VerifyFailed, VerifyUndecided, RequestDebit, Approve, Refund, Conclude
    <3> QED
      BY <3>1 DEF Commit
  <2> QED
    BY <1>1, <2>1, <2>2 DEF Serve
<1>2. ASSUME NEW s \in Sessions, Crash(s) PROVE UNCHANGED <<method, happened, sent>>
  BY <1>2 DEF Crash, rows, provider
<1>3. ASSUME NEW s \in Sessions, NEW i \in Items,
             \/ AskAdmin(s, i) \/ AskOrder(s, i) \/ RejectLoad(s, i)
             \/ ConfirmLoad(s, i) \/ RequestOnchain(s, i) \/ VerifyClaim(s, i)
      PROVE  UNCHANGED <<method, happened, sent>>
  BY <1>3 DEF AskAdmin, AskOrder, RejectLoad, ConfirmLoad, RequestOnchain, VerifyClaim, Ask,
              rows, provider
<1>4. ASSUME NEW i \in Items, RequestBank(i) \/ KeyExpires(i)
      PROVE  UNCHANGED <<method, happened, sent>>
  BY <1>4 DEF RequestBank, KeyExpires, rows, provider
<1>5. ASSUME NEW i \in Items, NEW e \in Events, Pays(i, e) \/ Duplicate(i, e)
      PROVE  method' = method
  BY <1>5 DEF Pays, Duplicate, rows
<1>6. ASSUME NEW s \in Sessions, NEW i \in Items, NEW e \in Events,
             Deliver(s, i, e) \/ Checkout(s, i, e)
      PROVE  UNCHANGED <<method, happened, sent>>
  BY <1>6 DEF Deliver, Checkout, Ask, rows, provider
<1>7. ASSUME OfferChanges PROVE UNCHANGED <<method, happened, sent>>
  BY <1>7 DEF OfferChanges, rows, provider
<1> QED
  BY <1>1, <1>2, <1>3, <1>4, <1>5, <1>6, <1>7 DEF Next

\* No step gives a payment to an item that has no provider.
LEMMA NextProvided == CreditInv /\ Provided /\ [Next]_vars => Provided'
<1> SUFFICES ASSUME CreditInv, Provided, [Next]_vars PROVE Provided'
  OBVIOUS
<1>1. CASE UNCHANGED vars
  BY <1>1 DEF vars, rows, provider, Provided
<1>2. CASE Next
  <2>1. \A i \in Items : method[i] \in {"oxapay", "razorpay"} =>
                         method'[i] \in {"oxapay", "razorpay"}
    <3>1. ASSUME NEW s \in Sessions, PlaceOrder(s)
          PROVE  method' = [method EXCEPT ![Item(s)] = "razorpay"]
      BY <3>1 DEF PlaceOrder
    <3> QED
      BY <1>2, <3>1, PaymentSteps DEF CreditInv, Shape
  <2>2. CASE happened' = happened /\ sent' = sent
    BY <2>1, <2>2 DEF Provided
  <2>3. CASE happened' = happened /\ \E s \in Sessions : Answer(s)
    <3>1. sent' \in [Items -> SUBSET Events] /\ \A i \in Items : sent'[i] \subseteq sent[i]
      BY <2>3 DEF Answer, Provided
    <3> QED
      BY <2>1, <2>3, <3>1 DEF Provided
  <2>4. ASSUME NEW i \in Items, NEW e \in Events, Pays(i, e) PROVE Provided'
    <3>1. method[i] \in {"oxapay", "razorpay"}
      BY <2>4 DEF Pays, Possible
    <3> QED
      BY <2>1, <2>4, <3>1 DEF Pays, Provided
  <2>5. ASSUME NEW i \in Items, NEW e \in Events, Duplicate(i, e) PROVE Provided'
    BY <2>1, <2>5 DEF Duplicate, Provided
  <2> QED
    BY <1>2, <2>2, <2>3, <2>4, <2>5, PaymentSteps
<1> QED
  BY <1>1, <1>2

\* Both invariants hold in every behaviour.
LEMMA CreditHolds == Spec => [](CreditInv /\ Provided)
<1>1. Init => CreditInv /\ Provided
  BY InitCredit DEF Init, Provided
<1> QED
  BY <1>1, NextCredit, NextProvided, PTL DEF Spec

\* Whatever deposits on a chain do beside them, no other deposit is ever credited twice:
\* neither by webhooks, the checkout page and administrators together, nor by a webhook
\* that comes again after a crash.
THEOREM OthersCreditedOnce ==
    Spec => [](\A i \in Items : method[i] # "chain" => credits[i] <= 1)
<1>1. CreditInv => \A i \in Items : method[i] # "chain" => credits[i] <= 1
  BY DEF CreditInv, Shape, Credited
<1> QED
  BY <1>1, CreditHolds, PTL

ChainFree == \A i \in Items : method[i] # "chain"

\* With providers and administrators only, the property that the runs check.
THEOREM CreditedOnceHolds ==
    ASSUME \A p \in Portfolios, i \in Items : p[i] # "chain"
    PROVE  Spec => []CreditedOnce
<1>1. Init => ChainFree
  BY DEF Init, ChainFree
<1>2. CreditInv /\ ChainFree /\ [Next]_vars => ChainFree'
  <2>1. ASSUME CreditInv, ChainFree, UNCHANGED vars PROVE ChainFree'
    BY <2>1 DEF ChainFree, vars, rows
  <2>2. ASSUME CreditInv, ChainFree, Next PROVE ChainFree'
    <3>1. ASSUME NEW s \in Sessions, PlaceOrder(s)
          PROVE  method' = [method EXCEPT ![Item(s)] = "razorpay"]
      BY <3>1 DEF PlaceOrder
    <3> QED
      BY <2>2, <3>1, PaymentSteps DEF CreditInv, Shape, ChainFree
  <2> QED
    BY <2>1, <2>2
<1>3. CreditInv /\ ChainFree => CreditedOnce
  BY DEF CreditInv, Shape, Credited, ChainFree, CreditedOnce
<1> QED
  BY <1>1, <1>2, <1>3, CreditHolds, PTL DEF Spec

-----------------------------------------------------------------------------
(***************************************************************************)
(* Debits and final states. A session relies on more than the row it has   *)
(* locked: a withdrawal that is being requested has no other session, and  *)
(* while confirmations of a transfer come one at a time and a verification *)
(* ends before its key does, neither has a rival.                          *)
(***************************************************************************)

Orderly == OneConfirm /\ VerifyFits

\* What a session relies on in the row of its item.
Fits(s) ==
    /\ job[s].kind \in {"webhook", "verify", "reject"} => method[Item(s)] # "chain"
    /\ job[s].kind = "request" => method[Item(s)] = "onchain" /\ status[Item(s)] = "none"
    /\ At(s, {"approveW", "rejectW"}, "wallet") =>
          /\ status[Item(s)] = "pending"
          /\ job[s].kind = "rejectW" => method[Item(s)] = "onchain"
    /\ Orderly /\ job[s].kind = "confirm" /\ job[s].status = "initiated" =>
          status[Item(s)] = "initiated"
    /\ Orderly /\ job[s].kind = "chain" =>
          redis[Item(s)] /\ (job[s].pc = "loaded" => status[Item(s)] = "submitted")

\* A session that does not rely on the status of its item.
Free(s) ==
    /\ job[s].kind # "request"
    /\ ~At(s, {"approveW", "rejectW"}, "wallet")
    /\ Orderly => /\ ~(job[s].kind = "confirm" /\ job[s].status = "initiated")
                  /\ ~(job[s].kind = "chain" /\ job[s].pc = "loaded")

\* Who has no rival at an item.
Alone ==
    \A s, t \in Sessions : s # t /\ Item(s) = Item(t) /\ Item(s) \in Items =>
        /\ job[s].kind # "request"
        /\ Orderly /\ job[s].kind \in {"confirm", "chain"} => job[t].kind # job[s].kind

Owed(i) ==
    CASE method[i] = "onchain" /\ status[i] \in {"pending", "approved", "paid"} -> 1
      [] method[i] = "bank" /\ status[i] \in {"approved", "paid"} -> 1
      [] OTHER -> 0

\* A withdrawal is debited as its status says, and a deposit on a chain credited so.
Booked(i) ==
    /\ debits[i] = Owed(i)
    /\ method[i] = "chain" =>
          /\ status[i] \in {"initiated", "submitted", "auto_approved", "rejected", "manual_review"}
          /\ Orderly => credits[i] = IF status[i] = "auto_approved" THEN 1 ELSE 0

FitInv ==
    /\ redis \in [Items -> BOOLEAN] /\ debits \in [Items -> Int]
    /\ \A s \in Sessions : Fits(s)
    /\ Alone
    /\ \A i \in Items : Booked(i)

LEMMA InitFit == Init => FitInv
<1> SUFFICES ASSUME Init PROVE FitInv
  OBVIOUS
<1>1. redis \in [Items -> BOOLEAN] /\ debits \in [Items -> Int]
  BY DEF Init
<1>2. ASSUME NEW s \in Sessions PROVE Fits(s) /\ Item(s) = NoOne
  BY DEF Init, Idle, Fits, At, Item
<1>3. Alone
  BY <1>2, FundingAssumption DEF Alone
<1>4. ASSUME NEW i \in Items PROVE Booked(i)
  BY FundingAssumption DEF Init, FirstStatus, Booked, Owed, Deposits, Withdrawals
<1> QED
  BY <1>1, <1>2, <1>3, <1>4 DEF FitInv

\* A step of another session leaves one what it relies on.
LEMMA OthersKeepFits ==
    ASSUME NEW t \in Sessions, Working(t), Fits(t), job'[t] = job[t],
           Item(t) \in Items =>
              /\ method'[Item(t)] = "chain" <=> method[Item(t)] = "chain"
              /\ method[Item(t)] = "onchain" => method'[Item(t)] = "onchain"
              /\ status'[Item(t)] = status[Item(t)] \/ Free(t)
              /\ job[t].kind = "chain" /\ redis[Item(t)] => redis'[Item(t)]
    PROVE  Fits(t)'
<1>1. CASE job[t] = Idle
  BY <1>1 DEF Idle, Fits, At
<1>2. CASE job[t] # Idle
  BY <1>2 DEF Working, Fits, Free, At, Item, Orderly
<1> QED
  BY <1>1, <1>2

\* The end of a session's transaction leaves it without an item.
LEMMA EndFits ==
    ASSUME Shape, Alone, NEW s \in Sessions, End(s)
    PROVE  Fits(s)' /\ Alone'
<1>1. job'[s] = Idle /\ \A t \in Sessions \ {s} : job'[t] = job[t]
  BY DEF End, Shape
<1>2. Fits(s)' /\ Item(s)' \notin Items
  BY <1>1, FundingAssumption DEF Idle, Fits, At, Item
<1> QED
  BY <1>1, <1>2 DEF Alone, Item, Orderly

LEMMA BookedKept ==
    ASSUME NEW i \in Items, Booked(i),
           method'[i] = method[i], status'[i] = status[i],
           debits'[i] = debits[i], credits'[i] = credits[i]
    PROVE  Booked(i)'
BY DEF Booked, Owed, Orderly

\* A commit that writes the row of one item, on whose status nobody else relies or which
\* keeps it.
LEMMA CommitFits ==
    ASSUME CreditInv, FitInv, NEW s \in Sessions, NEW i \in Items, End(s), redis' = redis,
           debits' \in [Items -> Int],
           method'[i] = "chain" <=> method[i] = "chain",
           method[i] = "onchain" => method'[i] = "onchain",
           \A j \in Items \ {i} : /\ method'[j] = method[j] /\ status'[j] = status[j]
                                  /\ debits'[j] = debits[j] /\ credits'[j] = credits[j],
           status'[i] = status[i] \/ \A t \in Sessions \ {s} : Item(t) = i => Free(t),
           Booked(i)'
    PROVE  FitInv'
<1>1. Fits(s)' /\ Alone'
  BY EndFits DEF CreditInv, FitInv
<1>2. ASSUME NEW t \in Sessions \ {s} PROVE Fits(t)'
  <2>1. job'[t] = job[t]
    BY EndKeeps DEF CreditInv
  <2> QED
    BY <2>1, OthersKeepFits DEF CreditInv, FitInv
<1>3. ASSUME NEW j \in Items \ {i} PROVE Booked(j)'
  BY BookedKept DEF FitInv
<1> QED
  BY <1>1, <1>2, <1>3 DEF FitInv

\* Rollbacks and crashes.
LEMMA RollbackFits ==
    ASSUME CreditInv, FitInv, NEW s \in Sessions, End(s), UNCHANGED <<rows, funds, redis>>
    PROVE  FitInv'
<1>1. Fits(s)' /\ Alone'
  BY EndFits DEF CreditInv, FitInv
<1>2. ASSUME NEW t \in Sessions \ {s} PROVE Fits(t)'
  <2>1. job'[t] = job[t]
    BY EndKeeps DEF CreditInv
  <2> QED
    BY <2>1, OthersKeepFits DEF CreditInv, FitInv, rows
<1>3. ASSUME NEW j \in Items PROVE Booked(j)'
  BY BookedKept DEF FitInv, rows, funds
<1> QED
  BY <1>1, <1>2, <1>3 DEF FitInv, funds

\* A step of a session that writes no row: it goes on, or has found nothing to do.
LEMMA JobStepFits ==
    ASSUME CreditInv, FitInv, NEW s \in Sessions, UNCHANGED <<rows, funds, redis>>,
           \A t \in Sessions \ {s} : job'[t] = job[t],
           job'[s] = Idle \/ (job'[s].kind = job[s].kind /\ job'[s].item = job[s].item),
           Fits(s)'
    PROVE  FitInv'
<1>1. ASSUME NEW t \in Sessions \ {s} PROVE Fits(t)'
  BY OthersKeepFits DEF CreditInv, FitInv, rows
<1>2. Alone'
  <2>1. \A t \in Sessions : Item(t)' \in Items => Item(t)' = Item(t) /\ job'[t].kind = job[t].kind
    BY FundingAssumption DEF Item, Idle
  <2> QED
    BY <2>1 DEF FitInv, Alone, Orderly
<1>3. ASSUME NEW j \in Items PROVE Booked(j)'
  BY BookedKept DEF FitInv, rows, funds
<1> QED
  BY <1>1, <1>2, <1>3 DEF FitInv, funds

\* A session takes up an item.
LEMMA BeginFits ==
    ASSUME CreditInv, FitInv, NEW s \in Sessions, NEW i \in Items,
           NEW kind \in Kinds \ {"none"}, NEW pc \in {"queued", "loaded", "found"},
           NEW e \in Events \union {NoEvent},
           Begin(s, kind, pc, i, e), UNCHANGED <<rows, funds>>,
           redis' \in [Items -> BOOLEAN], \A j \in Items : redis[j] => redis'[j],
           kind \in {"webhook", "verify", "reject"} => method[i] # "chain",
           kind = "request" => method[i] = "onchain" /\ status[i] = "none",
           kind = "chain" => pc = "found" /\ redis'[i],
           \A t \in Sessions \ {s} : Item(t) = i =>
              /\ job[t].kind # "request" /\ kind # "request"
              /\ Orderly /\ kind \in {"confirm", "chain"} => job[t].kind # kind
    PROVE  FitInv'
<1> DEFINE new == [kind |-> kind, pc |-> pc, item |-> i, event |-> e,
                   status |-> status[i], cash |-> 0]
<1>1. /\ new.kind = kind /\ new.pc = pc /\ new.item = i /\ new.status = status[i]
      /\ job' = [job EXCEPT ![s] = new]
  BY DEF Begin
<1> HIDE DEF new
<1>2. job'[s] = new /\ \A t \in Sessions \ {s} : job'[t] = job[t]
  BY <1>1 DEF CreditInv, Shape
<1>3. Fits(s)'
  BY <1>1, <1>2 DEF Fits, At, Item, rows
<1>4. ASSUME NEW t \in Sessions \ {s} PROVE Fits(t)'
  BY <1>2, OthersKeepFits DEF CreditInv, FitInv, rows
<1>5. Alone'
  <2>1. Item(s)' = i /\ job'[s].kind = kind
    BY <1>1, <1>2 DEF Item
  <2>2. \A t \in Sessions \ {s} : Item(t)' = Item(t) /\ job'[t].kind = job[t].kind
    BY <1>2 DEF Item
  <2> QED
    BY <2>1, <2>2 DEF FitInv, Alone, Orderly
<1>6. ASSUME NEW j \in Items PROVE Booked(j)'
  BY BookedKept DEF FitInv, rows, funds
<1> QED
  BY <1>3, <1>4, <1>5, <1>6 DEF FitInv, funds

LEMMA AskFits ==
    ASSUME CreditInv, FitInv, NEW s \in Sessions, NEW i \in Items,
           NEW kind \in Kinds \ {"none", "chain"}, NEW pc \in {"queued", "loaded"},
           NEW e \in Events \union {NoEvent},
           Ask(s, kind, pc, i, e),
           kind \in {"webhook", "verify", "reject"} => method[i] # "chain",
           kind = "request" => method[i] = "onchain" /\ status[i] = "none",
           \A t \in Sessions \ {s} : Item(t) = i =>
              /\ job[t].kind # "request" /\ kind # "request"
              /\ Orderly /\ kind = "confirm" => job[t].kind # kind
    PROVE  FitInv'
BY BeginFits DEF Ask, chain, FitInv

\* A withdrawal that is being requested has no status yet, and is one on a chain.
LEMMA RequestedAlone ==
    ASSUME FitInv, NEW i \in Items, method[i] # "onchain" \/ status[i] # "none",
           NEW t \in Sessions, Item(t) = i
    PROVE  job[t].kind # "request"
BY DEF FitInv, Fits

LEMMA RequestsFit ==
    ASSUME CreditInv, Provided, FitInv, NEW s \in Sessions, NEW i \in Items
    PROVE  /\ AskAdmin(s, i) => FitInv'
           /\ AskOrder(s, i) => FitInv'
           /\ RejectLoad(s, i) => FitInv'
           /\ ConfirmLoad(s, i) => FitInv'
           /\ RequestOnchain(s, i) => FitInv'
           /\ VerifyClaim(s, i) => FitInv'
           /\ \A e \in Events : Deliver(s, i, e) \/ Checkout(s, i, e) => FitInv'
<1>1. ASSUME AskAdmin(s, i) PROVE FitInv'
  <2>1. PICK kind \in {"approve", "offer", "approveW", "rejectW", "pay"} :
          Ask(s, kind, "queued", i, NoEvent)
    BY <1>1 DEF AskAdmin
  <2>2. status[i] # "none"
    BY <1>1 DEF AskAdmin
  <2> QED
    BY <2>1, <2>2, RequestedAlone, AskFits DEF Kinds
<1>2. ASSUME AskOrder(s, i) PROVE FitInv'
  BY <1>2, RequestedAlone, AskFits DEF AskOrder, Kinds
<1>3. ASSUME RejectLoad(s, i) PROVE FitInv'
  <2>1. method[i] # "chain"
    BY <1>3 DEF RejectLoad, FitInv, Booked
  <2> QED
    BY <1>3, <2>1, RequestedAlone, AskFits DEF RejectLoad, Kinds
<1>4. ASSUME ConfirmLoad(s, i) PROVE FitInv'
  <2>1. \A t \in Sessions \ {s} : Item(t) = i /\ Orderly => job[t].kind # "confirm"
    BY <1>4 DEF ConfirmLoad, Orderly
  <2> QED
    BY <1>4, <2>1, RequestedAlone, AskFits DEF ConfirmLoad, Kinds
<1>5. ASSUME RequestOnchain(s, i) PROVE FitInv'
  BY <1>5, AskFits DEF RequestOnchain, Kinds
<1>6. ASSUME VerifyClaim(s, i) PROVE FitInv'
  <2>1. \A t \in Sessions : Item(t) = i /\ Orderly => job[t].kind # "chain"
    BY <1>6 DEF VerifyClaim, FitInv, Fits
  <2>2. /\ redis' \in [Items -> BOOLEAN] /\ redis'[i]
        /\ \A j \in Items : redis[j] => redis'[j]
    BY <1>6 DEF VerifyClaim, FitInv
  <2>3. Begin(s, "chain", "found", i, NoEvent) /\ UNCHANGED <<rows, funds>> /\ method[i] = "chain"
    BY <1>6 DEF VerifyClaim
  <2> QED
    BY <2>1, <2>2, <2>3, RequestedAlone, BeginFits DEF Kinds
<1>7. ASSUME NEW e \in Events, Deliver(s, i, e) PROVE FitInv'
  <2>1. method[i] \in {"oxapay", "razorpay"}
    BY <1>7 DEF Deliver, Provided
  <2>2. Begin(s, "webhook", "queued", i, e) /\ UNCHANGED <<rows, funds, redis>>
    BY <1>7 DEF Deliver, chain
  <2> QED
    BY <2>1, <2>2, RequestedAlone, BeginFits DEF Kinds, FitInv
<1>8. ASSUME NEW e \in Events, Checkout(s, i, e) PROVE FitInv'
  <2>1. method[i] \in {"oxapay", "razorpay"}
    BY <1>8 DEF Checkout, Provided
  <2> QED
    BY <1>8, <2>1, RequestedAlone, AskFits DEF Checkout, Kinds
<1> QED
  BY <1>1, <1>2, <1>3, <1>4, <1>5, <1>6, <1>7, <1>8

LEMMA LocksFit ==
    ASSUME CreditInv, FitInv, NEW s \in Sessions
    PROVE  /\ LockItem(s) => FitInv'
           /\ LockUser(s) => FitInv'
           /\ RequestLock(s) => FitInv'
           /\ VerifyLoad(s) => FitInv'
<1>1. job[s] \in Jobs /\ Fits(s)
  BY DEF CreditInv, Shape, FitInv
<1>2. ASSUME LockItem(s) PROVE FitInv'
  <2>1. /\ UNCHANGED <<rows, funds, redis>>
        /\ job'[s].pc = "item" /\ job'[s].kind = job[s].kind /\ job'[s].item = job[s].item
        /\ job'[s].status = job[s].status /\ job[s].kind # "request" /\ job[s].pc = "queued"
        /\ \A t \in Sessions \ {s} : job'[t] = job[t]
    BY <1>1, <1>2 DEF LockItem, CreditInv, Shape, Jobs, chain
  <2>2. Fits(s)'
    BY <1>1, <2>1 DEF Fits, At, Item, rows, Orderly
  <2> QED
    BY <2>1, <2>2, JobStepFits
<1>3. ASSUME LockUser(s) PROVE FitInv'
  <2>1. /\ UNCHANGED <<rows, funds, redis>>
        /\ job'[s].pc = "wallet" /\ job'[s].kind = job[s].kind /\ job'[s].item = job[s].item
        /\ job'[s].status = job[s].status
        /\ \A t \in Sessions \ {s} : job'[t] = job[t]
    BY <1>1, <1>3 DEF LockUser, CreditInv, Shape, Jobs, chain
  <2>2. job[s].kind \in {"approveW", "rejectW"} => Debits(s)
    BY <1>3 DEF LockUser, Settles
  <2>3. Fits(s)'
    BY <1>1, <2>1, <2>2 DEF Fits, Debits, At, Item, rows, Orderly
  <2> QED
    BY <2>1, <2>3, JobStepFits
<1>4. ASSUME RequestLock(s) PROVE FitInv'
  <2>1. /\ UNCHANGED <<rows, funds, redis>>
        /\ job'[s].kind = "request" /\ job[s].kind = "request" /\ job'[s].item = job[s].item
        /\ \A t \in Sessions \ {s} : job'[t] = job[t]
    BY <1>1, <1>4 DEF RequestLock, At, CreditInv, Shape, Jobs, chain
  <2>2. Fits(s)'
    BY <1>1, <2>1 DEF Fits, At, Item, rows
  <2> QED
    BY <2>1, <2>2, JobStepFits
<1>5. ASSUME VerifyLoad(s) PROVE FitInv'
  <2>1. /\ UNCHANGED <<rows, funds, redis>> /\ job[s].kind = "chain"
        /\ \A t \in Sessions \ {s} : job'[t] = job[t]
    BY <1>1, <1>5 DEF VerifyLoad, At, CreditInv, Shape, chain
  <2>2. \/ job'[s] = Idle
        \/ /\ job'[s].kind = "chain" /\ job'[s].item = job[s].item
           /\ status[Item(s)] = "submitted"
    BY <1>1, <1>5, <2>1 DEF VerifyLoad, CreditInv, Shape, Jobs
  <2>3. Fits(s)'
    BY <1>1, <2>1, <2>2 DEF Fits, At, Item, rows, Idle, Orderly
  <2>4. job'[s] = Idle \/ (job'[s].kind = job[s].kind /\ job'[s].item = job[s].item)
    BY <2>1, <2>2
  <2> QED
    BY <2>1, <2>3, <2>4, JobStepFits
<1> QED
  BY <1>2, <1>3, <1>4, <1>5

\* Nobody relies on the status of a deposit that is not on a chain.
LEMMA DepositFree ==
    ASSUME CreditInv, FitInv, NEW i \in Items, method[i] \notin Withdrawals, method[i] # "chain",
           NEW t \in Sessions, Item(t) = i
    PROVE  Free(t)
BY FundingAssumption DEF CreditInv, Working, Withdrawing, Chained, Free, At, Idle, Item

\* A commit for a deposit that is not on a chain.
LEMMA DepositWriteFits ==
    ASSUME CreditInv, FitInv, NEW s \in Sessions, NEW i \in Items, End(s), redis' = redis,
           method[i] \notin Withdrawals, method[i] # "chain",
           method'[i] \notin Withdrawals, method'[i] # "chain",
           \A j \in Items \ {i} : /\ method'[j] = method[j] /\ status'[j] = status[j]
                                  /\ credits'[j] = credits[j],
           debits' = debits
    PROVE  FitInv'
<1>1. Booked(i)'
  BY DEF FitInv, Booked, Owed, Withdrawals
<1>2. method[i] # "onchain" /\ debits' \in [Items -> Int]
  BY DEF FitInv, Withdrawals
<1> QED
  BY <1>1, <1>2, DepositFree, CommitFits

LEMMA DepositsFit ==
    ASSUME CreditInv, FitInv, NEW s \in Sessions
    PROVE  /\ Credit(s) => FitInv'
           /\ MarkInvoice(s) => FitInv'
           /\ OfferCheckout(s) => FitInv'
           /\ PlaceOrder(s) => FitInv'
           /\ RejectCommit(s) => FitInv'
<1>1. job[s].pc # "idle" => Item(s) \in Items
  BY DEF CreditInv, Idle, Working
<1>2. status \in [Items -> Statuses] /\ method \in [Items -> Deposits \union Withdrawals]
      /\ credits \in [Items -> Nat]
  BY DEF CreditInv, Shape
<1>3. \A i \in Items : method[i] = "chain" => status[i] # "pending"
  BY DEF FitInv, Booked
<1>4. ASSUME Credit(s) PROVE FitInv'
  <2>1. PICK i \in Items : i = Item(s)
    BY <1>1, <1>4 DEF Credit, At
  <2>2. Settles(s) /\ job[s].kind \in Crediting /\ method[i] \notin Withdrawals
    BY <1>4, <2>1 DEF Credit, At, CreditInv, Working, Crediting, Withdrawing, Idle
  <2>3. method[i] # "chain"
    BY <1>3, <2>1, <2>2 DEF Crediting, Settles, FitInv, Fits
  <2>4. End(s) /\ UNCHANGED <<method, redis, debits>>
        /\ \A j \in Items \ {i} : status'[j] = status[j] /\ credits'[j] = credits[j]
    BY <1>2, <1>4, <2>1 DEF Credit, Commit, SetStatus
  <2> QED
    BY <2>2, <2>3, <2>4, DepositWriteFits
<1>5. ASSUME MarkInvoice(s) PROVE FitInv'
  <2>1. PICK i \in Items : i = Item(s)
    BY <1>1, <1>5 DEF MarkInvoice, At
  <2>2. method[i] \notin Withdrawals /\ method[i] # "chain"
    BY <1>5, <2>1 DEF MarkInvoice, At, CreditInv, Working, Withdrawing, FitInv, Fits, Idle
  <2>3. End(s) /\ UNCHANGED <<method, redis, debits, credits>>
        /\ \A j \in Items \ {i} : status'[j] = status[j]
    BY <1>2, <1>5, <2>1 DEF MarkInvoice, Commit, SetStatus, funds
  <2> QED
    BY <2>2, <2>3, DepositWriteFits
<1>6. ASSUME OfferCheckout(s) PROVE FitInv'
  <2>1. PICK i \in Items : i = Item(s)
    BY <1>1, <1>6 DEF OfferCheckout
  <2>2. End(s) /\ UNCHANGED <<method, status, redis, debits, credits>> /\ method[i] = "local"
    BY <1>6, <2>1 DEF OfferCheckout, Offers, Commit, funds
  <2> QED
    BY <2>2, DepositWriteFits DEF Withdrawals
<1>7. ASSUME PlaceOrder(s) PROVE FitInv'
  <2>1. PICK i \in Items : i = Item(s)
    BY <1>1, <1>7 DEF PlaceOrder
  <2>2. method[i] \in ByOrder
    BY <1>7, <2>1 DEF PlaceOrder, Orders, CreditInv, Working, Idle
  <2>3. End(s) /\ UNCHANGED <<status, redis, debits, credits>>
        /\ method'[i] = "razorpay" /\ \A j \in Items \ {i} : method'[j] = method[j]
    BY <1>2, <1>7, <2>1 DEF PlaceOrder, chain, funds
  <2> QED
    BY <2>2, <2>3, DepositWriteFits DEF Withdrawals, ByOrder
<1>8. ASSUME RejectCommit(s) PROVE FitInv'
  <2>1. PICK i \in Items : i = Item(s)
    BY <1>1, <1>8 DEF RejectCommit, At
  <2>2. method[i] \notin Withdrawals /\ method[i] # "chain"
    BY <1>8, <2>1 DEF RejectCommit, At, CreditInv, Working, Withdrawing, FitInv, Fits, Idle
  <2>3. End(s) /\ UNCHANGED <<method, redis, debits, credits>>
        /\ \A j \in Items \ {i} : status'[j] = status[j]
    BY <1>2, <1>8, <2>1 DEF RejectCommit, Commit, SetStatus, funds
  <2> QED
    BY <2>2, <2>3, DepositWriteFits
<1> QED
  BY <1>4, <1>5, <1>6, <1>7, <1>8

\* At a deposit on a chain a confirmation and a verification have no rival of their kind,
\* and they rely on different statuses.
LEMMA TransferFree ==
    ASSUME CreditInv, FitInv, NEW s \in Sessions, NEW i \in Items, Item(s) = i, method[i] = "chain",
           \/ job[s].kind = "confirm" /\ job[s].status = "initiated"
           \/ job[s].kind = "chain" /\ job[s].pc = "loaded",
           NEW t \in Sessions \ {s}, Item(t) = i
    PROVE  Free(t)
<1>1. job[t].kind \notin Withdrawing
  BY FundingAssumption DEF CreditInv, Working, Withdrawals, Idle, Item
<1>2. CASE Orderly
  BY <1>1, <1>2 DEF FitInv, Fits, Alone, Free, At, Withdrawing
<1>3. CASE ~Orderly
  BY <1>1, <1>3 DEF Free, At, Withdrawing
<1> QED
  BY <1>2, <1>3

LEMMA TransfersFit ==
    ASSUME CreditInv, FitInv, NEW s \in Sessions
    PROVE  /\ ConfirmCommit(s) => FitInv'
           /\ VerifyCredit(s) => FitInv'
           /\ VerifyFailed(s) => FitInv'
           /\ VerifyUndecided(s) => FitInv'
<1>1. job[s].kind \in Chained /\ job[s].pc # "idle" => Item(s) \in Items /\ method[Item(s)] = "chain"
  BY DEF CreditInv, Idle, Working
<1>2. status \in [Items -> Statuses] /\ credits \in [Items -> Nat] /\ debits \in [Items -> Int]
  BY DEF CreditInv, Shape, FitInv
<1>3. ASSUME NEW new \in {"submitted", "auto_approved", "rejected", "manual_review"},
             NEW i \in Items, i = Item(s), method[i] = "chain", End(s),
             UNCHANGED <<method, redis, debits>>,
             \/ job[s].kind = "confirm" /\ job[s].status = "initiated" /\ new = "submitted"
             \/ job[s].kind = "chain" /\ job[s].pc = "loaded" /\ new # "submitted",
             SetStatus(s, new),
             credits' = IF new = "auto_approved" THEN [credits EXCEPT ![i] = @ + 1] ELSE credits
      PROVE  FitInv'
  <2>1. status'[i] = new /\ \A j \in Items \ {i} : status'[j] = status[j] /\ credits'[j] = credits[j]
    BY <1>2, <1>3 DEF SetStatus
  <2>2. Orderly => status[i] \in {"initiated", "submitted"} /\ credits[i] = 0
    BY <1>3 DEF FitInv, Fits, Booked
  <2>3. Booked(i)'
    <3>1. credits'[i] = IF new = "auto_approved" THEN credits[i] + 1 ELSE credits[i]
      BY <1>2, <1>3
    <3>2. debits'[i] = 0 /\ Owed(i)' = 0
      BY <1>3 DEF FitInv, Booked, Owed
    <3> QED
      BY <1>3, <2>1, <2>2, <3>1, <3>2 DEF Booked, Orderly
  <2>4. \A t \in Sessions \ {s} : Item(t) = i => Free(t)
    BY <1>3, TransferFree
  <2> QED
    BY <1>2, <1>3, <2>1, <2>3, <2>4, CommitFits
<1>4. ASSUME ConfirmCommit(s) PROVE FitInv'
  <2>1. CASE job[s].status = "initiated"
    BY <1>1, <1>3, <1>4, <2>1 DEF ConfirmCommit, At, Chained, Commit, funds
  <2>2. CASE job[s].status # "initiated"
    <3>1. End(s) /\ UNCHANGED <<rows, funds, redis>>
      BY <1>4, <2>2 DEF ConfirmCommit, Commit, rows
    <3> QED
      BY <3>1, RollbackFits
  <2> QED
    BY <2>1, <2>2
<1>5. ASSUME VerifyCredit(s) PROVE FitInv'
  BY <1>1, <1>3, <1>5 DEF VerifyCredit, At, Chained, Commit
<1>6. ASSUME VerifyFailed(s) PROVE FitInv'
  BY <1>1, <1>3, <1>6 DEF VerifyFailed, At, Chained, Commit, funds
<1>7. ASSUME VerifyUndecided(s) PROVE FitInv'
  <2>1. CASE tries[Item(s)] < MaxTries
    <3>1. End(s) /\ UNCHANGED <<rows, funds, redis>>
      BY <1>7, <2>1 DEF VerifyUndecided, Commit, rows
    <3> QED
      BY <3>1, RollbackFits
  <2>2. CASE ~(tries[Item(s)] < MaxTries)
    BY <1>1, <1>3, <1>7, <2>2 DEF VerifyUndecided, At, Chained, Commit, funds
  <2> QED
    BY <2>1, <2>2
<1> QED
  BY <1>4, <1>5, <1>6, <1>7

\* Whoever holds the row of a withdrawal, or is requesting it, is the only one that relies
\* on its status.
LEMMA WithdrawalFree ==
    ASSUME CreditInv, FitInv, NEW s \in Sessions, NEW i \in Items, Item(s) = i,
           method[i] \in Withdrawals, rowLock[i] = s \/ job[s].kind = "request",
           NEW t \in Sessions \ {s}, Item(t) = i
    PROVE  Free(t)
<1>1. job[t].kind \notin {"request", "confirm", "chain"}
  BY FundingAssumption DEF CreditInv, Working, FitInv, Alone, Withdrawing, Item, Idle
<1>2. ASSUME At(t, {"approveW", "rejectW"}, "wallet") PROVE FALSE
  <2>1. rowLock[i] = t
    BY <1>2 DEF At, CreditInv, Working, Idle
  <2>2. job[s].kind = "request"
    BY <2>1
  <2> QED
    BY <2>2 DEF FitInv, Alone
<1> QED
  BY <1>1, <1>2 DEF Free

LEMMA WithdrawalsFit ==
    ASSUME CreditInv, FitInv, NEW s \in Sessions
    PROVE  /\ RequestDebit(s) => FitInv'
           /\ Approve(s) => FitInv'
           /\ Refund(s) => FitInv'
           /\ Conclude(s) => FitInv'
<1>1. job[s].kind \in Withdrawing /\ job[s].pc # "idle" =>
          /\ Item(s) \in Items /\ method[Item(s)] \in Withdrawals
          /\ job[s].pc \in {"item", "wallet"} /\ job[s].kind # "request" => rowLock[Item(s)] = s
  BY DEF CreditInv, Idle, Working
<1>2. status \in [Items -> Statuses] /\ debits \in [Items -> Int] /\ Fits(s)
  BY DEF CreditInv, Shape, FitInv
<1>3. ASSUME NEW new \in {"pending", "approved", "rejected", "paid"}, NEW amount \in {-1, 0, 1},
             NEW i \in Items, i = Item(s), method[i] \in Withdrawals, End(s),
             rowLock[i] = s \/ job[s].kind = "request",
             UNCHANGED <<method, redis, credits>>,
             SetStatus(s, new), debits' = [debits EXCEPT ![i] = @ + amount],
             Owed(i)' = Owed(i) + amount
      PROVE  FitInv'
  <2>1. /\ debits' \in [Items -> Int] /\ debits'[i] = debits[i] + amount
        /\ \A j \in Items \ {i} : status'[j] = status[j] /\ debits'[j] = debits[j]
    BY <1>2, <1>3 DEF SetStatus
  <2>2. Booked(i)'
    BY <1>3, <2>1 DEF FitInv, Booked, Withdrawals
  <2>3. \A t \in Sessions \ {s} : Item(t) = i => Free(t)
    BY <1>3, WithdrawalFree
  <2> QED
    BY <1>3, <2>1, <2>2, <2>3, CommitFits
<1>4. ASSUME RequestDebit(s) PROVE FitInv'
  <2>1. PICK i \in Items : i = Item(s) /\ method[i] = "onchain" /\ status[i] = "none"
    BY <1>1, <1>2, <1>4 DEF RequestDebit, At, Withdrawing, Fits
  <2>2. Needs(s) = 1 /\ status'[i] = "pending" /\ UNCHANGED method
    BY <1>2, <1>4, <2>1 DEF RequestDebit, At, Needs, SetStatus, Commit
  <2>3. Owed(i)' = Owed(i) + 1
    BY <2>1, <2>2 DEF Owed
  <2> QED
    BY <1>3, <1>4, <2>1, <2>2, <2>3 DEF RequestDebit, At, Commit, Pay, Withdrawals
<1>5. ASSUME Approve(s) PROVE FitInv'
  <2>1. PICK i \in Items : i = Item(s) /\ method[i] \in Withdrawals /\ status[i] = "pending"
                             /\ rowLock[i] = s
    BY <1>1, <1>2, <1>5 DEF Approve, At, Withdrawing, Fits
  <2>2. /\ Needs(s) = IF method[i] = "onchain" THEN 0 ELSE 1
        /\ status'[i] = "approved" /\ UNCHANGED method
    BY <1>2, <1>5, <2>1 DEF Approve, At, Needs, SetStatus, Commit
  <2>3. Owed(i)' = Owed(i) + Needs(s)
    BY <2>1, <2>2 DEF Owed, Withdrawals
  <2> QED
    BY <1>3, <1>5, <2>1, <2>2, <2>3 DEF Approve, Commit, Pay
<1>6. ASSUME Refund(s) PROVE FitInv'
  <2>1. PICK i \in Items : i = Item(s) /\ method[i] = "onchain" /\ status[i] = "pending"
                             /\ rowLock[i] = s
    BY <1>1, <1>2, <1>6 DEF Refund, At, Withdrawing, Fits
  <2>2. status'[i] = "rejected" /\ UNCHANGED method
    BY <1>2, <1>6, <2>1 DEF Refund, SetStatus, Commit
  <2>3. Owed(i)' = Owed(i) + (-1)
    BY <2>1, <2>2 DEF Owed
  <2> QED
    BY <1>3, <1>6, <2>1, <2>2, <2>3 DEF Refund, Commit, Pay, Withdrawals
<1>7. ASSUME Conclude(s) PROVE FitInv'
  <2>1. PICK i \in Items : i = Item(s) /\ method[i] \in Withdrawals /\ rowLock[i] = s
    BY <1>1, <1>7 DEF Conclude, Drops, Paid, Withdrawing
  <2>2. PICK new \in {"rejected", "paid"} :
          /\ SetStatus(s, new)
          /\ \/ new = "rejected" /\ status[i] = "pending" /\ method[i] = "bank"
             \/ new = "paid" /\ status[i] = "approved"
    BY <1>7, <2>1 DEF Conclude, Drops, Paid
  <2>3. End(s) /\ UNCHANGED <<method, redis, credits, debits>> /\ status'[i] = new
    BY <1>2, <1>7, <2>1, <2>2 DEF Conclude, Commit, SetStatus, funds
  <2>4. Owed(i)' = Owed(i) + 0 /\ debits' = [debits EXCEPT ![i] = @ + 0]
    BY <1>2, <2>1, <2>2, <2>3 DEF Owed, Withdrawals
  <2> QED
    BY <1>3, <2>1, <2>2, <2>3, <2>4
<1> QED
  BY <1>4, <1>5, <1>6, <1>7

\* What takes no session.
LEMMA OutsideFits ==
    ASSUME CreditInv, FitInv, job' = job, UNCHANGED <<method, credits, debits>>,
           redis' \in [Items -> BOOLEAN],
           \A t \in Sessions : Item(t) \in Items =>
              /\ status'[Item(t)] = status[Item(t)] \/ Free(t)
              /\ job[t].kind = "chain" /\ Orderly => redis'[Item(t)] = redis[Item(t)],
           \A i \in Items : Booked(i)'
    PROVE  FitInv'
<1>1. ASSUME NEW t \in Sessions PROVE Fits(t)'
  <2>1. CASE Orderly \/ job[t].kind # "chain"
    BY <2>1, OthersKeepFits DEF CreditInv, FitInv
  <2>2. CASE ~Orderly /\ job[t].kind = "chain"
    BY <2>2 DEF Fits, At, Orderly
  <2> QED
    BY <2>1, <2>2
<1>2. Alone'
  BY DEF FitInv, Alone, Item, Orderly
<1> QED
  BY <1>1, <1>2 DEF FitInv

LEMMA NextFit == CreditInv /\ Provided /\ FitInv /\ [Next]_vars => FitInv'
<1> SUFFICES ASSUME CreditInv, Provided, FitInv, [Next]_vars PROVE FitInv'
  OBVIOUS
<1>1. ASSUME UNCHANGED <<rows, funds, redis, job>> PROVE FitInv'
  <2>1. \A i \in Items : Booked(i)'
    BY <1>1, BookedKept DEF FitInv, rows, funds
  <2> QED
    BY <1>1, <2>1, OutsideFits DEF FitInv, rows, funds
<1>2. ASSUME NEW s \in Sessions, Serve(s) PROVE FitInv'
  <2>1. CASE Refuse(s) \/ Raises(s)
    BY <2>1, RollbackFits DEF Refuse, Raises, chain
  <2> QED
    BY <1>2, <2>1, LocksFit, DepositsFit, TransfersFit, WithdrawalsFit DEF Serve
<1>3. ASSUME NEW s \in Sessions, Crash(s) PROVE FitInv'
  BY <1>3, RollbackFits DEF Crash, chain
<1>4. ASSUME NEW i \in Items, RequestBank(i) PROVE FitInv'
  <2>1. /\ method[i] = "bank" /\ status[i] = "none" /\ status'[i] = "pending"
        /\ \A j \in Items \ {i} : status'[j] = status[j]
        /\ UNCHANGED <<method, credits, debits, job, redis>>
    BY <1>4 DEF RequestBank, CreditInv, Shape, funds, chain
  <2>2. ASSUME NEW t \in Sessions, Item(t) = i PROVE Free(t)
    BY <2>1, <2>2, FundingAssumption
    DEF CreditInv, Working, FitInv, Fits, Free, Withdrawals, Withdrawing, Chained, Idle, Item, At
  <2>3. ASSUME NEW j \in Items PROVE Booked(j)'
    <3>1. CASE j # i
      BY <2>1, <3>1, BookedKept DEF FitInv
    <3>2. CASE j = i
      BY <2>1, <3>2 DEF FitInv, Booked, Owed
    <3> QED
      BY <3>1, <3>2
  <2> QED
    BY <2>1, <2>2, <2>3, OutsideFits DEF FitInv
<1>5. ASSUME NEW i \in Items, KeyExpires(i) PROVE FitInv'
  <2>1. UNCHANGED <<rows, funds, job>> /\ redis' = [redis EXCEPT ![i] = FALSE]
        /\ (Orderly => \A s \in Sessions : job[s].kind = "chain" => Item(s) # i)
    BY <1>5 DEF KeyExpires, Orderly
  <2>2. \A j \in Items : Booked(j)'
    BY <2>1, BookedKept DEF FitInv, rows, funds
  <2> QED
    BY <2>1, <2>2, OutsideFits DEF FitInv, rows, funds
<1>6. ASSUME NEW i \in Items, NEW e \in Events, Pays(i, e) \/ Duplicate(i, e) PROVE FitInv'
  BY <1>1, <1>6 DEF Pays, Duplicate, chain
<1>7. ASSUME OfferChanges PROVE FitInv'
  BY <1>1, <1>7 DEF OfferChanges, chain
<1> QED
  BY <1>1, <1>2, <1>3, <1>4, <1>5, <1>6, <1>7, RequestsFit DEF Next, vars, chain

LEMMA FitHolds == Spec => [](CreditInv /\ Provided /\ FitInv)
<1>1. Init => FitInv
  BY InitFit
<1> QED
  BY <1>1, NextFit, CreditHolds, PTL DEF Spec

\* However many sessions, items, webhooks and crashes: a withdrawal is debited exactly as
\* its status says.
THEOREM DebitFollowsStatusHolds == Spec => []DebitFollowsStatus
<1>1. FitInv => DebitFollowsStatus
  BY DEF FitInv, Booked, Owed, DebitFollowsStatus
<1> QED
  BY <1>1, FitHolds, PTL

\* With deposits on a chain as well, none is credited twice, as long as the app sends one
\* confirmation at a time and a verification ends before its key does.
THEOREM CreditedOnceOrderly ==
    ASSUME Orderly
    PROVE  Spec => []CreditedOnce
<1>1. CreditInv /\ FitInv => CreditedOnce
  BY DEF CreditInv, Shape, Credited, FitInv, Booked, CreditedOnce
<1> QED
  BY <1>1, FitHolds, PTL

\* The steps of a session that change the status of its item find it open.
LEMMA WritesOpen ==
    ASSUME Orderly, CreditInv, FitInv, NEW s \in Sessions, Serve(s), ~At(s, {"reject"}, "loaded"),
           NEW i \in Items, status'[i] # status[i], status[i] \in Final
    PROVE  status[i] = "approved" /\ status'[i] = "paid"
<1>1. status \in [Items -> Statuses] /\ Fits(s) /\ Working(s)
  BY DEF CreditInv, Shape, FitInv
<1>2. ASSUME NEW new, SetStatus(s, new), status[Item(s)] \notin Final PROVE FALSE
  BY <1>1, <1>2 DEF SetStatus
<1>3. status' # status
  OBVIOUS
<1>4. ~Refuse(s) /\ ~Raises(s) /\ ~LockItem(s) /\ ~LockUser(s) /\ ~RequestLock(s) /\ ~VerifyLoad(s)
  BY <1>3 DEF Refuse, Raises, LockItem, LockUser, RequestLock, VerifyLoad, rows
<1>5. ~OfferCheckout(s) /\ ~PlaceOrder(s) /\ ~RejectCommit(s)
  BY <1>3 DEF OfferCheckout, PlaceOrder, RejectCommit
<1>6. ~Credit(s)
  BY <1>1, <1>2 DEF Credit, At, Working, Crediting, Settles, Open, Final, Idle
<1>7. ~MarkInvoice(s)
  BY <1>2 DEF MarkInvoice, Confirming, Failing, Open, Final
<1>8. ~ConfirmCommit(s)
  BY <1>1, <1>2, <1>3 DEF ConfirmCommit, At, Fits, Final
<1>9. ~VerifyCredit(s) /\ ~VerifyFailed(s) /\ ~VerifyUndecided(s)
  BY <1>1, <1>2, <1>3 DEF VerifyCredit, VerifyFailed, VerifyUndecided, At, Fits, Final
<1>10. ~RequestDebit(s) /\ ~Approve(s) /\ ~Refund(s)
  BY <1>1, <1>2 DEF RequestDebit, Approve, Refund, At, Fits, Final
<1>11. Conclude(s)
  BY <1>4, <1>5, <1>6, <1>7, <1>8, <1>9, <1>10 DEF Serve
<1>12. Paid(s) /\ SetStatus(s, "paid")
  BY <1>2, <1>11 DEF Conclude, Drops, Final
<1> QED
  BY <1>1, <1>12 DEF Paid, SetStatus

\* Nobody else changes a status, but for the request of a bank withdrawal.
LEMMA StatusKept ==
    ASSUME [Next]_vars
    PROVE  \/ status' = status
           \/ \E s \in Sessions : Serve(s)
           \/ \E i \in Items : RequestBank(i)
<1>1. ASSUME NEW s \in Sessions, NEW i \in Items,
             \/ AskAdmin(s, i) \/ AskOrder(s, i) \/ RejectLoad(s, i)
             \/ ConfirmLoad(s, i) \/ RequestOnchain(s, i) \/ VerifyClaim(s, i)
      PROVE  status' = status
  BY <1>1 DEF AskAdmin, AskOrder, RejectLoad, ConfirmLoad, RequestOnchain, VerifyClaim, Ask, rows
<1>2. ASSUME NEW i \in Items, NEW e \in Events, Pays(i, e) \/ Duplicate(i, e)
      PROVE  status' = status
  BY <1>2 DEF Pays, Duplicate, rows
<1>3. ASSUME NEW s \in Sessions, NEW i \in Items, NEW e \in Events,
             Deliver(s, i, e) \/ Checkout(s, i, e)
      PROVE  status' = status
  BY <1>3 DEF Deliver, Checkout, Ask, rows
<1>4. ASSUME NEW s \in Sessions, Crash(s) PROVE status' = status
  BY <1>4 DEF Crash, rows
<1>5. ASSUME NEW i \in Items, KeyExpires(i) PROVE status' = status
  BY <1>5 DEF KeyExpires, rows
<1>6. UNCHANGED vars => status' = status
  BY DEF vars, rows
<1>7. OfferChanges => status' = status
  BY DEF OfferChanges, rows
<1> QED
  BY <1>1, <1>2, <1>3, <1>4, <1>5, <1>6, <1>7 DEF Next

\* What was credited, paid or rejected stays so, for any number of sessions and items, as
\* long as the app sends one confirmation at a time and a verification ends before its key.
THEOREM FinalStaysHolds ==
    ASSUME Orderly
    PROVE  Spec => FinalStays
<1> DEFINE Step ==
      \A i \in Items : status[i] \in Final /\ status'[i] # status[i] =>
          \/ status[i] = "approved" /\ status'[i] = "paid"
          \/ \E s \in Sessions : At(s, {"reject"}, "loaded") /\ Item(s) = i
<1>1. ASSUME CreditInv, FitInv, [Next]_vars, NEW i \in Items,
             status[i] \in Final, status'[i] # status[i]
      PROVE  \/ status[i] = "approved" /\ status'[i] = "paid"
             \/ \E s \in Sessions : At(s, {"reject"}, "loaded") /\ Item(s) = i
  <2>1. CASE \E s \in Sessions : Serve(s)
    <3>1. PICK s \in Sessions : Serve(s)
      BY <2>1
    <3>2. CASE At(s, {"reject"}, "loaded")
      <4>1. RejectCommit(s) \/ status' = status
        BY <3>1, <3>2 DEF Serve, Refuse, Raises, rows, LockItem, LockUser, RequestLock, VerifyLoad, Credit,
             MarkInvoice, OfferCheckout, PlaceOrder, ConfirmCommit, VerifyCredit, VerifyFailed,
             VerifyUndecided, RequestDebit, Approve, Refund, Conclude, At, Drops, Paid
      <4>2. Item(s) = i
        BY <1>1, <4>1 DEF RejectCommit, SetStatus, CreditInv, Shape
      <4> QED
        BY <3>2, <4>2
    <3>3. CASE ~At(s, {"reject"}, "loaded")
      BY <1>1, <3>1, <3>3, WritesOpen
    <3> QED
      BY <3>2, <3>3
  <2>2. CASE \E j \in Items : RequestBank(j)
    BY <1>1, <2>2 DEF RequestBank, CreditInv, Shape, Final
  <2>3. CASE status' = status
    BY <1>1, <2>3
  <2> QED
    BY <1>1, <2>1, <2>2, <2>3, StatusKept
<1>2. CreditInv /\ FitInv /\ [Next]_vars => Step
  BY <1>1
<1> QED
  BY <1>2, FitHolds, PTL DEF Spec, FinalStays

-----------------------------------------------------------------------------
(***************************************************************************)
(* The balance. Every handler writes the balance it read with its item, so *)
(* the sum is right only while nobody commits in between. With several     *)
(* items that happens (the run funding_stale); with one item it does not,  *)
(* although most handlers read the balance before they lock its row: the   *)
(* row of the item keeps them apart, a request has the withdrawal to       *)
(* itself, and a verification has neither a rival nor, while the deposit   *)
(* is submitted, anybody else who may credit it.                           *)
(***************************************************************************)

OneItem == \A i, j \in Items : i = j

\* The session has read the balance and may write it.
HasRead(s) == job[s].pc \in {"item", "wallet"} \/ At(s, {"chain"}, "loaded")

FreshInv ==
    /\ wallet = due
    /\ \A s \in Sessions : HasRead(s) => job[s].cash = wallet

Writes(s) == Credit(s) \/ VerifyCredit(s) \/ RequestDebit(s) \/ Approve(s) \/ Refund(s)

\* When a session writes the balance, no other one has read it.
LEMMA WriterAlone ==
    ASSUME OneItem, Orderly, CreditInv, FitInv, NEW s \in Sessions, Writes(s),
           NEW t \in Sessions \ {s}
    PROVE  ~HasRead(t)
<1> SUFFICES ASSUME HasRead(t) PROVE FALSE
  OBVIOUS
<1>1. job[s] # Idle /\ job[t] # Idle
  BY DEF Writes, Credit, VerifyCredit, RequestDebit, Approve, Refund, At, HasRead, Idle
<1>2. Working(s) /\ Working(t) /\ Fits(s) /\ Fits(t)
  BY DEF CreditInv, FitInv
<1>3. PICK i \in Items : Item(s) = i /\ Item(t) = i
  BY <1>1, <1>2 DEF Working, OneItem
<1>4. /\ job[s].kind # "request" /\ job[t].kind # "request"
      /\ job[s].kind = "chain" => job[t].kind # "chain"
  BY <1>3 DEF FitInv, Alone
<1>5. At(s, {"webhook", "verify", "approve", "approveW", "rejectW"}, "wallet") \/ VerifyCredit(s)
  BY <1>4 DEF Writes, Credit, RequestDebit, Approve, Refund, At
<1>6. ASSUME NEW u \in Sessions, job[u].pc \in {"item", "wallet"}, u \in {s, t}
      PROVE  rowLock[i] = u
  BY <1>1, <1>2, <1>3, <1>4, <1>6 DEF Working
<1>7. s \notin {NoOne} /\ t \notin {NoOne}
  BY FundingAssumption
<1>8. CASE VerifyCredit(s)
  <2>1. job[t].kind # "chain" /\ rowLock[i] = NoOne
    BY <1>3, <1>4, <1>8 DEF VerifyCredit, At
  <2> QED
    BY <1>6, <1>7, <2>1 DEF HasRead, At
<1>9. CASE At(s, {"webhook", "verify", "approve", "approveW", "rejectW"}, "wallet")
  <2>1. rowLock[i] = s
    BY <1>6, <1>9 DEF At
  <2>2. At(t, {"chain"}, "loaded")
    BY <1>6, <2>1 DEF HasRead
  <2>3. method[i] = "chain" /\ status[i] = "submitted"
    BY <1>1, <1>2, <1>3, <2>2 DEF Working, Fits, At, Chained
  <2>4. job[s].kind \notin Withdrawing
    BY <1>1, <1>2, <1>3, <2>3 DEF Working, Withdrawals
  <2>5. Settles(s)
    BY <1>1, <1>2, <1>9, <2>4 DEF Working, At, Crediting, Withdrawing
  <2> QED
    BY <1>3, <2>3, <2>5 DEF Settles, Open
<1> QED
  BY <1>5, <1>8, <1>9

\* The end of a transaction, with the balance written or not.
LEMMA EndFresh ==
    ASSUME Shape, FreshInv, NEW s \in Sessions, End(s), wallet' = due',
           wallet' = wallet \/ \A t \in Sessions \ {s} : ~HasRead(t)
    PROVE  FreshInv'
<1>1. job'[s] = Idle /\ \A t \in Sessions \ {s} : job'[t] = job[t]
  BY DEF End, Shape
<1>2. ~HasRead(s)'
  BY <1>1 DEF HasRead, At, Idle
<1> QED
  BY <1>1, <1>2 DEF FreshInv, HasRead, At

\* A step of one session that leaves the balance alone: it reads it, or it has.
LEMMA ReadsFresh ==
    ASSUME FreshInv, NEW s \in Sessions, UNCHANGED <<wallet, due>>,
           \A t \in Sessions \ {s} : job'[t] = job[t],
           HasRead(s)' => job'[s].cash = wallet
    PROVE  FreshInv'
BY DEF FreshInv, HasRead, At

LEMMA WritesFresh ==
    ASSUME OneItem, Orderly, CreditInv, FitInv, FreshInv, NEW s \in Sessions, Writes(s)
    PROVE  FreshInv'
<1>1. End(s)
  BY DEF Writes, Credit, VerifyCredit, RequestDebit, Approve, Refund, Commit
<1>2. HasRead(s) /\ job[s].cash = wallet /\ wallet = due /\ wallet \in Int
  BY DEF Writes, Credit, VerifyCredit, RequestDebit, Approve, Refund, HasRead, At, FreshInv,
         CreditInv, Shape
<1>3. ASSUME NEW amount \in {-1, 0, 1}, Pay(s, amount) PROVE wallet' = due'
  BY <1>2, <1>3 DEF Pay
<1>4. wallet' = due'
  <2>1. CASE Credit(s) \/ VerifyCredit(s)
    BY <1>2, <2>1 DEF Credit, VerifyCredit
  <2>2. CASE RequestDebit(s) \/ Approve(s)
    BY <1>3, <2>2 DEF RequestDebit, Approve, Needs
  <2>3. CASE Refund(s)
    BY <1>3, <2>3 DEF Refund
  <2> QED
    BY <2>1, <2>2, <2>3 DEF Writes
<1> QED
  BY <1>1, <1>4, WriterAlone, EndFresh DEF CreditInv

\* Locks, and the first read of a verification.
LEMMA LocksFresh ==
    ASSUME CreditInv, FreshInv, NEW s \in Sessions,
           LockItem(s) \/ LockUser(s) \/ RequestLock(s) \/ VerifyLoad(s)
    PROVE  FreshInv'
<1>1. /\ UNCHANGED <<wallet, due>>
      /\ \A t \in Sessions \ {s} : job'[t] = job[t]
  BY DEF LockItem, LockUser, RequestLock, VerifyLoad, funds, CreditInv, Shape
<1>2. job[s] \in Jobs /\ s \in DOMAIN job
  BY DEF CreditInv, Shape
<1>3. CASE LockItem(s)
  BY <1>1, <1>2, <1>3, ReadsFresh DEF LockItem, Jobs
<1>4. CASE LockUser(s)
  <2>1. job'[s].cash = job[s].cash /\ HasRead(s)
    BY <1>2, <1>4 DEF LockUser, HasRead, Jobs
  <2> QED
    BY <1>1, <2>1, ReadsFresh DEF FreshInv
<1>5. CASE RequestLock(s)
  BY <1>1, <1>2, <1>5, ReadsFresh DEF RequestLock, Jobs
<1>6. CASE VerifyLoad(s)
  <2>1. job'[s].cash = wallet \/ job'[s] = Idle
    BY <1>2, <1>6 DEF VerifyLoad, Jobs
  <2>2. HasRead(s)' => job'[s].cash = wallet
    BY <2>1 DEF HasRead, At, Idle
  <2> QED
    BY <1>1, <2>2, ReadsFresh
<1> QED
  BY <1>3, <1>4, <1>5, <1>6

\* A session takes up an item, with nothing read.
LEMMA BeginFresh ==
    ASSUME CreditInv, FreshInv, NEW s \in Sessions, NEW i \in Items,
           NEW kind \in Kinds, NEW pc \in {"queued", "loaded", "found"}, NEW e,
           Begin(s, kind, pc, i, e), UNCHANGED funds, pc = "loaded" => kind # "chain"
    PROVE  FreshInv'
<1> DEFINE new == [kind |-> kind, pc |-> pc, item |-> i, event |-> e,
                   status |-> status[i], cash |-> 0]
<1>1. job' = [job EXCEPT ![s] = new] /\ new.kind = kind /\ new.pc = pc
  BY DEF Begin
<1> HIDE DEF new
<1>2. job'[s] = new /\ \A t \in Sessions \ {s} : job'[t] = job[t]
  BY <1>1 DEF CreditInv, Shape
<1>3. ~HasRead(s)'
  BY <1>1, <1>2 DEF HasRead, At
<1> QED
  BY <1>2, <1>3, ReadsFresh DEF funds

LEMMA RequestsFresh ==
    ASSUME CreditInv, FreshInv, NEW s \in Sessions, NEW i \in Items,
           \/ AskAdmin(s, i) \/ AskOrder(s, i) \/ RejectLoad(s, i)
           \/ ConfirmLoad(s, i) \/ RequestOnchain(s, i) \/ VerifyClaim(s, i)
           \/ \E e \in Events : Deliver(s, i, e) \/ Checkout(s, i, e)
    PROVE  FreshInv'
<1>1. PICK kind \in Kinds, pc \in {"queued", "loaded", "found"}, e \in Events \union {NoEvent} :
         Begin(s, kind, pc, i, e) /\ UNCHANGED funds /\ (pc = "loaded" => kind # "chain")
  <2>1. CASE AskAdmin(s, i)
    BY <2>1 DEF AskAdmin, Ask, Kinds
  <2>2. CASE AskOrder(s, i) \/ RejectLoad(s, i)
    BY <2>2 DEF AskOrder, RejectLoad, Ask, Kinds
  <2>3. CASE ConfirmLoad(s, i) \/ RequestOnchain(s, i)
    BY <2>3 DEF ConfirmLoad, RequestOnchain, Ask, Kinds
  <2>4. CASE VerifyClaim(s, i)
    BY <2>4 DEF VerifyClaim, Kinds
  <2>5. CASE \E e \in Events : Deliver(s, i, e)
    BY <2>5 DEF Deliver, Kinds
  <2>6. CASE \E e \in Events : Checkout(s, i, e)
    BY <2>6 DEF Checkout, Ask, Kinds
  <2> QED
    BY <2>1, <2>2, <2>3, <2>4, <2>5, <2>6
<1> QED
  BY <1>1, BeginFresh

LEMMA NextFresh ==
    ASSUME OneItem, Orderly
    PROVE  CreditInv /\ FitInv /\ FreshInv /\ [Next]_vars => FreshInv'
<1> SUFFICES ASSUME CreditInv, FitInv, FreshInv, [Next]_vars PROVE FreshInv'
  OBVIOUS
<1>1. ASSUME UNCHANGED <<funds, job>> PROVE FreshInv'
  BY <1>1 DEF FreshInv, HasRead, At, funds
<1>2. ASSUME NEW s \in Sessions, End(s), UNCHANGED funds PROVE FreshInv'
  BY <1>2, EndFresh DEF CreditInv, FreshInv, funds
<1>3. ASSUME NEW s \in Sessions, Serve(s) PROVE FreshInv'
  <2>1. \/ Writes(s)
        \/ LockItem(s) \/ LockUser(s) \/ RequestLock(s) \/ VerifyLoad(s)
        \/ End(s) /\ UNCHANGED funds
    BY <1>3 DEF Serve, Writes, MarkInvoice, OfferCheckout, PlaceOrder, RejectCommit, Refuse,
                Raises, ConfirmCommit, VerifyFailed, VerifyUndecided, Conclude, Commit
  <2> QED
    BY <1>2, <2>1, WritesFresh, LocksFresh
<1>4. ASSUME NEW s \in Sessions, Crash(s) PROVE FreshInv'
  BY <1>2, <1>4 DEF Crash
<1>5. ASSUME NEW i \in Items, RequestBank(i) \/ KeyExpires(i) PROVE FreshInv'
  BY <1>1, <1>5 DEF RequestBank, KeyExpires
<1>6. ASSUME NEW i \in Items, NEW e \in Events, Pays(i, e) \/ Duplicate(i, e) PROVE FreshInv'
  BY <1>1, <1>6 DEF Pays, Duplicate
<1>7. ASSUME OfferChanges PROVE FreshInv'
  BY <1>1, <1>7 DEF OfferChanges
<1>8. CASE UNCHANGED vars
  BY <1>1, <1>8 DEF vars
<1>9. CASE Next
  BY <1>3, <1>4, <1>5, <1>6, <1>7, <1>9, RequestsFresh DEF Next
<1> QED
  BY <1>8, <1>9

\* With one item under way, of any kind, and any number of sessions, webhooks, crashes and
\* administrators, no handler overwrites a balance that another one committed.
THEOREM FundsBalanceHolds ==
    ASSUME OneItem, Orderly
    PROVE  Spec => []FundsBalance
<1>1. Init => FreshInv
  BY DEF Init, FreshInv, HasRead, At, Idle
<1>2. CreditInv /\ FitInv /\ FreshInv /\ [Next]_vars => FreshInv'
  BY NextFresh
<1>3. FreshInv => FundsBalance
  BY DEF FreshInv, FundsBalance
<1> QED
  BY <1>1, <1>2, <1>3, FitHolds, PTL DEF Spec
=============================================================================

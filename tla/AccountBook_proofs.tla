-------------------------- MODULE AccountBook_proofs --------------------------
(***************************************************************************)
(* What the row locks of the account book are worth, for any number of     *)
(* accounts and sessions: the main wallet always balances, transfers       *)
(* alone neither lose money nor take the margin of open positions, and no  *)
(* circle of sessions waits for one another.                               *)
(***************************************************************************)
EXTENDS AccountBook, FiniteSetTheorems, TLAPS

\* The two rows of a transfer are its source and its target, the lower one first.
LEMMA LockedRows ==
    ASSUME TypeOK, NEW s \in Sessions, req[s].from # req[s].to
    PROVE  /\ First(s) \in Rows /\ Second(s) \in Rows /\ First(s) < Second(s)
           /\ {First(s), Second(s)} = {req[s].from, req[s].to}
           /\ Second(s) # User
           /\ First(s) = User <=> User \in {req[s].from, req[s].to}
<1> DEFINE f == req[s].from  t == req[s].to
<1>1. f \in Nat /\ t \in Nat /\ f \in Rows /\ t \in Rows /\ f # t
  <2>1. Rows \subseteq Nat
    BY BookAssumption DEF Rows, User
  <2>2. f \in Rows /\ t \in Rows
    BY DEF TypeOK, Requests
  <2> QED
    BY <2>1, <2>2
<1>2. CASE f < t
  BY <1>1, <1>2 DEF First, Second, LockOrder, User
<1>3. CASE t < f
  <2>1. ~(f < t)
    BY <1>1, <1>3
  <2> QED
    BY <1>1, <1>3, <2>1 DEF First, Second, LockOrder, User
<1> QED
  BY <1>1, <1>2, <1>3

LEMMA InitBook == Init => BookInv
<1> SUFFICES ASSUME Init PROVE BookInv
  OBVIOUS
<1>1. /\ money \in [Rows -> Int] /\ open \in [Rows -> Int] /\ margin \in [Rows -> Nat]
      /\ ledger \in [Rows -> Int]
  BY BookAssumption DEF Init
<1>2. req \in [Sessions -> Requests]
  BY DEF Init, Idle, Requests, Rows, Marks
<1>3. copy \in [Sessions -> [Rows -> [money : Int, margin : Nat]]]
  BY DEF Init, Unread
<1>4. TypeOK
  BY <1>1, <1>2, <1>3, BookAssumption DEF Init, TypeOK, Marks
<1> QED
  BY <1>4 DEF Init, Idle, BookInv, WalletBalances, Sound, Rows

\* A step that leaves a session's request, its copies, its locks and the rows it has
\* locked alone keeps what the invariant says of it.
LEMMA OthersStaySound ==
    ASSUME TypeOK, NEW t \in Sessions, Sound(t),
           req'[t] = req[t], copy'[t] = copy[t], mix' = mix,
           \A r \in Rows : owner[r] = t =>
              owner'[r] = t /\ money'[r] = money[r] /\ margin'[r] = margin[r]
    PROVE  Sound(t)'
<1>1. First(t)' = First(t) /\ Second(t)' = Second(t)
  BY DEF First, Second, LockOrder
<1>2. CASE req[t].pc \in {"first", "second", "held"}
  <2>1. /\ First(t) \in Rows /\ Second(t) \in Rows
    BY <1>2, LockedRows DEF Sound
  <2> QED
    BY <1>1, <1>2, <2>1 DEF Sound, Row
<1>3. CASE req[t].pc \in {"loaded", "locked"}
  BY <1>3 DEF Sound, Rows
<1>4. CASE req[t].pc = "idle"
  BY <1>4 DEF Sound
<1> QED
  BY <1>2, <1>3, <1>4 DEF TypeOK, Requests

\* The end of a session's transaction: its locks go, those of the others stay.
LEMMA EndSound ==
    ASSUME TypeOK, NEW s \in Sessions, End(s)
    PROVE  /\ owner' \in [Rows -> Sessions \union {NoOne}]
           /\ req' \in [Sessions -> Requests]
           /\ copy' \in [Sessions -> [Rows -> [money : Int, margin : Nat]]]
           /\ Sound(s)'
           /\ req'[s].kind = "none" /\ mix' = mix
           /\ \A t \in Sessions \ {s} :
                 /\ req'[t] = req[t] /\ copy'[t] = copy[t]
                 /\ \A r \in Rows : owner[r] = t => owner'[r] = t
<1>1. Idle \in Requests /\ Idle.pc = "idle" /\ Idle.kind = "none"
  BY DEF Idle, Requests, Rows, Marks
<1>2. Unread \in [Rows -> [money : Int, margin : Nat]]
  BY DEF Unread
<1>3. owner' \in [Rows -> Sessions \union {NoOne}]
  BY BookAssumption DEF End, TypeOK
<1>4. req' \in [Sessions -> Requests] /\ req'[s] = Idle
  BY <1>1 DEF End, TypeOK
<1>5. copy' \in [Sessions -> [Rows -> [money : Int, margin : Nat]]]
  BY <1>2 DEF End, TypeOK
<1>6. Sound(s)'
  BY <1>1, <1>4 DEF Sound
<1> QED
  BY <1>1, <1>3, <1>4, <1>5, <1>6 DEF End, TypeOK

LEMMA RollbackKeepsBook ==
    ASSUME BookInv, NEW s \in Sessions, Rollback(s)
    PROVE  BookInv'
<1>1. End(s) /\ UNCHANGED <<mix, money, margin, open, bonus, mark, ledger, requests>>
  BY DEF Rollback, End
<1>2. TypeOK'
  BY <1>1, EndSound DEF BookInv, TypeOK
<1>3. ASSUME NEW t \in Sessions PROVE Sound(t)'
  BY <1>1, EndSound, OthersStaySound DEF BookInv
<1> QED
  BY <1>1, <1>2, <1>3 DEF BookInv, WalletBalances

\* Loading a row touches the copies of one session, and the row's own unless it came with
\* the user.
LEMMA LoadKeepsCopies ==
    ASSUME TypeOK, NEW s \in Sessions, NEW r \in Rows, Load(s, r)
    PROVE  /\ copy' \in [Sessions -> [Rows -> [money : Int, margin : Nat]]]
           /\ r = User \/ req[s].kind # "main" => copy'[s][r] = Row(r)
           /\ r = User => \A q \in Rows : copy'[s][q] = Row(q)
           /\ r # User => \A q \in Rows \ {r} : copy'[s][q] = copy[s][q]
           /\ req[s].kind = "main" /\ r # User => copy' = copy
           /\ \A t \in Sessions \ {s} : copy'[t] = copy[t]
<1> DEFINE V == [money : Int, margin : Nat]
           C == [Rows -> V]
           all == [q \in Rows |-> Row(q)]
           one == [copy[s] EXCEPT ![r] = Row(r)]
<1>1. \A q \in Rows : Row(q) \in V
  BY DEF Row, TypeOK
<1>2. copy \in [Sessions -> C] /\ copy[s] \in C
  BY DEF TypeOK
<1>3. all \in C /\ one \in C
  <2> HIDE DEF V
  <2> QED
    BY <1>1, <1>2
<1>4. /\ one[r] = Row(r) /\ \A q \in Rows \ {r} : one[q] = copy[s][q]
      /\ \A q \in Rows : all[q] = Row(q)
  BY <1>2
<1>5. CASE r = User
  <2>1. copy' = [copy EXCEPT ![s] = all]
    BY <1>5 DEF Load
  <2> HIDE DEF C, all
  <2> QED
    BY <1>2, <1>3, <1>4, <1>5, <2>1 DEF C
<1>6. CASE r # User /\ req[s].kind # "main"
  <2>1. copy' = [copy EXCEPT ![s] = one]
    BY <1>6 DEF Load
  <2> HIDE DEF C, one
  <2> QED
    BY <1>2, <1>3, <1>4, <1>6, <2>1 DEF C
<1>7. CASE r # User /\ req[s].kind = "main"
  BY <1>2, <1>7 DEF Load
<1> QED
  BY <1>5, <1>6, <1>7

\* A session begins with no lock.
LEMMA BeginKeepsBook ==
    ASSUME BookInv, NEW s \in Sessions, NEW f \in Rows, NEW t \in Rows,
           TransferBegin(s, f, t) \/ (f = t /\ f \in Accounts /\ (OpenLoad(s, f) \/ CloseLoad(s, f)))
    PROVE  BookInv'
<1>1. PICK kind \in mix, pc \in {"first", "loaded"} :
         /\ Begin(s, kind, pc, f, t)
         /\ pc = "first" => f # t /\ kind = IF User \in {f, t} THEN "main" ELSE "internal"
         /\ pc = "loaded" => f \in Accounts
  BY DEF TransferBegin, OpenLoad, CloseLoad, Begin
<1>2. /\ UNCHANGED <<mix, money, margin, open, bonus, mark, owner, ledger>>
      /\ \A u \in Sessions \ {s} : copy'[u] = copy[u]
      /\ copy' \in [Sessions -> [Rows -> [money : Int, margin : Nat]]]
  <2>2. copy' = copy \/ Load(s, f)
    BY DEF TransferBegin, OpenLoad, CloseLoad
  <2>3. copy \in [Sessions -> [Rows -> [money : Int, margin : Nat]]]
    BY DEF BookInv, TypeOK
  <2>4. UNCHANGED <<mix, money, margin, open, bonus, mark, owner, ledger>>
    BY DEF TransferBegin, OpenLoad, CloseLoad, Begin
  <2>5. copy' \in [Sessions -> [Rows -> [money : Int, margin : Nat]]]
    BY <2>2, <2>3, LoadKeepsCopies DEF BookInv
  <2>6. \A u \in Sessions \ {s} : copy'[u] = copy[u]
    BY <2>2, <2>3, LoadKeepsCopies DEF BookInv
  <2> QED
    BY <2>4, <2>5, <2>6
<1> kind \in Kinds
  BY BookAssumption DEF BookInv, TypeOK
<1>3. /\ req'[s].pc = pc /\ req'[s].from = f /\ req'[s].to = t
      /\ req'[s].kind = kind /\ kind \in mix
      /\ req' \in [Sessions -> Requests]
      /\ \A u \in Sessions \ {s} : req'[u] = req[u]
      /\ requests' \in 0..MaxRequests
  BY <1>1, BookAssumption DEF Begin, BookInv, TypeOK, Requests, Marks
<1>4. TypeOK'
  BY <1>2, <1>3 DEF BookInv, TypeOK
<1>5. Sound(s)'
  BY <1>1, <1>2, <1>3 DEF Sound
<1>6. ASSUME NEW u \in Sessions \ {s} PROVE Sound(u)'
  BY <1>2, <1>3, OthersStaySound DEF BookInv
<1> QED
  BY <1>2, <1>4, <1>5, <1>6 DEF BookInv, WalletBalances

\* Taking a free row's lock: who takes it must be sound afterwards.
LEMMA LockKeepsOthers ==
    ASSUME BookInv, NEW s \in Sessions, NEW r \in Rows, NEW pc \in {"second", "held", "locked"},
           Lock(s, r, pc), UNCHANGED <<mix, money, margin, open, bonus, mark, ledger, requests>>,
           copy' \in [Sessions -> [Rows -> [money : Int, margin : Nat]]],
           \A t \in Sessions \ {s} : copy'[t] = copy[t],
           Sound(s)'
    PROVE  BookInv'
<1>1. /\ owner' \in [Rows -> Sessions \union {NoOne}]
      /\ \A t \in Sessions \ {s}, q \in Rows : owner[q] = t => owner'[q] = t
  BY BookAssumption DEF Lock, BookInv, TypeOK
<1>2. /\ req' \in [Sessions -> Requests]
      /\ \A t \in Sessions \ {s} : req'[t] = req[t]
  BY DEF Lock, BookInv, TypeOK, Requests
<1>3. TypeOK'
  BY <1>1, <1>2 DEF BookInv, TypeOK
<1>4. ASSUME NEW t \in Sessions \ {s} PROVE Sound(t)'
  BY <1>1, <1>2, OthersStaySound DEF BookInv
<1> QED
  BY <1>3, <1>4 DEF BookInv, WalletBalances

\* The locks of a transfer, of a fill and of a close.
LEMMA LocksKeepBook ==
    ASSUME BookInv, NEW s \in Sessions,
           TransferLockFirst(s) \/ TransferLockSecond(s) \/ OpenLock(s) \/ CloseFlush(s)
    PROVE  BookInv'
<1>1. CASE TransferLockFirst(s)
  <2>1. First(s) \in Rows /\ req[s].pc = "first"
    BY <1>1, LockedRows DEF TransferLockFirst, BookInv, Sound
  <2>2. /\ Lock(s, First(s), "second")
        /\ Load(s, First(s))
        /\ UNCHANGED <<mix, money, margin, open, bonus, mark, ledger, requests>>
    BY <1>1 DEF TransferLockFirst
  <2>3. /\ req'[s].from = req[s].from /\ req'[s].to = req[s].to /\ req'[s].pc = "second"
        /\ req'[s].kind = req[s].kind
        /\ owner'[First(s)] = s
    BY <2>1, <2>2 DEF Lock, BookInv, TypeOK, Requests
  <2>4. First(s)' = First(s)
    BY <2>3 DEF First, LockOrder
  <2>5. copy'[s][First(s)] = Row(First(s))
    <3>1. First(s) = User \/ req[s].kind # "main"
      BY <2>1, LockedRows DEF BookInv, Sound
    <3> QED
      BY <2>1, <2>2, <3>1, LoadKeepsCopies DEF BookInv
  <2>6. Sound(s)'
    BY <2>1, <2>2, <2>3, <2>4, <2>5 DEF Sound, Row, BookInv
  <2> QED
    BY <2>1, <2>2, <2>6, LoadKeepsCopies, LockKeepsOthers DEF BookInv
<1>2. CASE TransferLockSecond(s)
  <2>1. /\ First(s) \in Rows /\ Second(s) \in Rows /\ First(s) # Second(s)
        /\ req[s].pc = "second" /\ req[s].from # req[s].to
        /\ owner[First(s)] = s /\ copy[s][First(s)] = Row(First(s))
    BY <1>2, LockedRows DEF TransferLockSecond, BookInv, Sound
  <2>2. /\ Lock(s, Second(s), "held")
        /\ Load(s, Second(s))
        /\ UNCHANGED <<mix, money, margin, open, bonus, mark, ledger, requests>>
    BY <1>2 DEF TransferLockSecond
  <2>3. /\ req'[s].from = req[s].from /\ req'[s].to = req[s].to /\ req'[s].pc = "held"
        /\ req'[s].kind = req[s].kind
        /\ owner'[Second(s)] = s /\ owner'[First(s)] = s
    BY <2>1, <2>2 DEF Lock, BookInv, TypeOK, Requests
  <2>4. First(s)' = First(s) /\ Second(s)' = Second(s)
    BY <2>3 DEF First, Second, LockOrder
  <2>5. /\ req[s].kind = "internal" => copy'[s][Second(s)] = Row(Second(s))
        /\ copy'[s][First(s)] = Row(First(s))
    <3>1. Second(s) # User
      BY <2>1, LockedRows DEF BookInv, Sound
    <3> QED
      BY <2>1, <2>2, <3>1, LoadKeepsCopies DEF BookInv
  <2>6. Sound(s)'
    BY <2>1, <2>2, <2>3, <2>4, <2>5 DEF Sound, Row, BookInv
  <2> QED
    BY <2>1, <2>2, <2>6, LoadKeepsCopies, LockKeepsOthers DEF BookInv
<1>3. CASE OpenLock(s) \/ CloseFlush(s)
  <2>1. /\ req[s].pc = "loaded" /\ req[s].from \in Rows /\ req[s].from \in Accounts
        /\ Lock(s, req[s].from, "locked")
        /\ UNCHANGED <<mix, money, margin, open, bonus, mark, copy, ledger, requests>>
    BY <1>3 DEF OpenLock, CloseFlush, BookInv, Sound, Rows
  <2>2. /\ req'[s].from = req[s].from /\ req'[s].pc = "locked" /\ req'[s].kind = req[s].kind
        /\ owner'[req[s].from] = s
    BY <2>1 DEF Lock, BookInv, TypeOK, Requests
  <2>3. Sound(s)'
    BY <2>1, <2>2 DEF Sound, BookInv
  <2>4. copy' \in [Sessions -> [Rows -> [money : Int, margin : Nat]]]
    BY <2>1 DEF BookInv, TypeOK
  <2> QED
    BY <2>1, <2>3, <2>4, LockKeepsOthers
<1> QED
  BY <1>1, <1>2, <1>3

\* The commit of a transfer writes what the session read, and the ledger; the user's row
\* was read under its lock.
LEMMA TransferWrites ==
    ASSUME BookInv, NEW s \in Sessions, Transfer(s)
    PROVE  LET f == req[s].from
               t == req[s].to
           IN  /\ f \in Rows /\ t \in Rows /\ f # t
               /\ owner[f] = s /\ owner[t] = s
               /\ money' = [money EXCEPT ![f] = copy[s][f].money - 1,
                                         ![t] = copy[s][t].money + 1]
               /\ ledger' = [ledger EXCEPT ![f] = @ - 1, ![t] = @ + 1]
               /\ copy[s][f].money \in Int /\ copy[s][t].money \in Int
               /\ User \in {f, t} => copy[s][User].money = money[User]
<1> DEFINE f == req[s].from
           t == req[s].to
<1>1. /\ f # t /\ f \in Rows /\ t \in Rows /\ {First(s), Second(s)} = {f, t}
      /\ User \in {f, t} => First(s) = User
  BY LockedRows DEF Transfer, BookInv, Sound, TypeOK, Requests
<1>2. /\ \A r \in {f, t} : owner[r] = s
      /\ copy[s][First(s)] = Row(First(s))
  BY <1>1 DEF Transfer, BookInv, Sound
<1>3. copy[s][f].money \in Int /\ copy[s][t].money \in Int
  BY <1>1 DEF BookInv, TypeOK
<1>4. ledger' = [ledger EXCEPT ![f] = @ - 1, ![t] = @ + 1]
  BY DEF Transfer
<1>5. User \in {f, t} => copy[s][User].money = money[User]
  BY <1>1, <1>2 DEF Row
<1> QED
  BY <1>1, <1>2, <1>3, <1>4, <1>5 DEF Transfer

LEMMA TransferKeepsBook ==
    ASSUME BookInv, NEW s \in Sessions, Transfer(s)
    PROVE  BookInv'
<1> DEFINE f == req[s].from
           t == req[s].to
           x == copy[s][f].money
           y == copy[s][t].money
<1>1. /\ f \in Rows /\ t \in Rows /\ f # t /\ owner[f] = s /\ owner[t] = s
      /\ money' = [money EXCEPT ![f] = x - 1, ![t] = y + 1]
      /\ ledger' = [ledger EXCEPT ![f] = @ - 1, ![t] = @ + 1]
      /\ x \in Int /\ y \in Int
      /\ User = f => x = money[User]
      /\ User = t => y = money[User]
  BY TransferWrites
<1>2. End(s) /\ UNCHANGED <<mix, margin, open, bonus, mark, requests>>
  BY DEF Transfer, End
<1>3. money \in [Rows -> Int] /\ ledger \in [Rows -> Int]
  BY DEF BookInv, TypeOK
<1> HIDE DEF f, t, x, y
<1>4. money' \in [Rows -> Int] /\ ledger' \in [Rows -> Int]
  BY <1>1, <1>3
<1>5. TypeOK'
  BY <1>2, <1>4, EndSound DEF BookInv, TypeOK
<1>6. WalletBalances'
  BY <1>1, <1>3 DEF BookInv, WalletBalances, Rows
<1>7. ASSUME NEW u \in Sessions \ {s} PROVE Sound(u)'
  <2>1. \A r \in Rows : owner[r] = u => money'[r] = money[r]
    BY <1>1, <1>3
  <2> QED
    BY <1>2, <2>1, EndSound, OthersStaySound DEF BookInv
<1> QED
  BY <1>2, <1>5, <1>6, <1>7, EndSound DEF BookInv

\* The commit of a fill or a close writes a row whose lock it holds, and the user's,
\* which nobody holds.
LEMMA BookKeepsBook ==
    ASSUME BookInv, NEW s \in Sessions, req[s].pc = "locked",
           NEW cash \in Int, NEW newMargin \in Nat, NEW opened \in Int, NEW released \in 0..bonus,
           Book(s, cash, newMargin, opened, released)
    PROVE  BookInv'
<1> DEFINE a == req[s].from
           paid == Written(money[a], copy[s][a].money, copy[s][a].money + cash)
           kept == Written(margin[a], copy[s][a].margin, newMargin)
<1>1. /\ a \in Rows /\ a # User /\ owner[a] = s /\ owner[User] = NoOne
  BY BookAssumption DEF BookInv, Sound, Book, Rows
<1>2. /\ money \in [Rows -> Int] /\ margin \in [Rows -> Nat] /\ open \in [Rows -> Int]
      /\ ledger \in [Rows -> Int] /\ bonus \in 0..1 /\ User \in Rows
  BY DEF BookInv, TypeOK, Rows
<1>3. copy[s][a].money \in Int /\ copy[s][a].margin \in Nat
  BY <1>1 DEF BookInv, TypeOK
<1>4. paid \in Int /\ kept \in Nat
  BY <1>1, <1>2, <1>3 DEF Written
<1>5. /\ money' = [money EXCEPT ![a] = paid, ![User] = money[User] + released]
      /\ margin' = [margin EXCEPT ![a] = kept]
      /\ open' = [open EXCEPT ![a] = open[a] + opened]
      /\ bonus' = bonus - released
      /\ ledger' = [ledger EXCEPT ![a] = ledger[a] + cash, ![User] = ledger[User] + released]
      /\ End(s)
      /\ UNCHANGED <<mark, requests>>
  BY <1>1, <1>2 DEF Book
<1> HIDE DEF paid, kept
<1>6. money' \in [Rows -> Int] /\ margin' \in [Rows -> Nat] /\ ledger' \in [Rows -> Int]
  BY <1>1, <1>2, <1>4, <1>5
<1>7. open' \in [Rows -> Int] /\ bonus' \in 0..1
  BY <1>1, <1>2, <1>5
<1>8. TypeOK'
  BY <1>5, <1>6, <1>7, EndSound DEF BookInv, TypeOK
<1>9. WalletBalances'
  BY <1>1, <1>2, <1>5 DEF BookInv, WalletBalances
<1>10. ASSUME NEW u \in Sessions \ {s} PROVE Sound(u)'
  <2>1. \A r \in Rows : owner[r] = u => money'[r] = money[r] /\ margin'[r] = margin[r]
    BY <1>1, <1>2, <1>5, BookAssumption
  <2> QED
    BY <1>5, <2>1, EndSound, OthersStaySound DEF BookInv
<1> QED
  BY <1>5, <1>8, <1>9, <1>10, EndSound DEF BookInv

LEMMA NextBook ==
    ASSUME BookInv, [Next]_vars
    PROVE  BookInv'
<1>1. ASSUME NEW s \in Sessions, NEW f \in Rows, NEW t \in Rows, TransferBegin(s, f, t)
      PROVE  BookInv'
  BY <1>1, BeginKeepsBook
<1>2. ASSUME NEW s \in Sessions, NEW a \in Accounts, OpenLoad(s, a) \/ CloseLoad(s, a)
      PROVE  BookInv'
  BY <1>2, BeginKeepsBook DEF Rows
<1>3. ASSUME NEW s \in Sessions, Serve(s) PROVE BookInv'
  <2>1. CASE TransferLockFirst(s) \/ TransferLockSecond(s) \/ OpenLock(s) \/ CloseFlush(s)
    BY <2>1, LocksKeepBook
  <2>2. CASE TransferRefused(s) \/ OpenRefused(s) \/ DeadlockAbort(s)
    BY <2>2, RollbackKeepsBook DEF TransferRefused, OpenRefused, DeadlockAbort
  <2>3. CASE Transfer(s)
    BY <2>3, TransferKeepsBook
  <2>4. copy[s][req[s].from].margin \in Nat
    BY DEF BookInv, TypeOK, Requests
  <2>5. CASE OpenFill(s)
    <3>1. -Commission \in Int /\ copy[s][req[s].from].margin + 1 \in Nat
      BY <2>4, BookAssumption
    <3>2. 0 \in 0..bonus /\ 1 \in Int
      BY DEF BookInv, TypeOK
    <3> QED
      BY <2>5, <3>1, <3>2, BookKeepsBook DEF OpenFill
  <2>6. CASE CloseCommit(s)
    <3>1. PICK released \in 0..bonus :
            Book(s, req[s].result,
                 IF copy[s][req[s].from].margin > 0 THEN copy[s][req[s].from].margin - 1 ELSE 0,
                 -1, released)
      BY <2>6 DEF CloseCommit
    <3>2. /\ req[s].result \in Int /\ -1 \in Int
          /\ (IF copy[s][req[s].from].margin > 0 THEN copy[s][req[s].from].margin - 1 ELSE 0) \in Nat
      BY <2>4 DEF BookInv, TypeOK, Requests, Marks
    <3>3. req[s].pc = "locked"
      BY <2>6 DEF CloseCommit
    <3> QED
      BY <3>1, <3>2, <3>3, BookKeepsBook
  <2> QED
    BY <1>3, <2>1, <2>2, <2>3, <2>5, <2>6 DEF Serve
<1>4. ASSUME Move \/ UNCHANGED vars PROVE BookInv'
  <2>1. UNCHANGED <<mix, money, margin, open, bonus, owner, req, copy, ledger, requests>> /\ mark' \in Marks
    BY <1>4 DEF Move, vars, BookInv, TypeOK
  <2>2. TypeOK'
    BY <2>1 DEF BookInv, TypeOK
  <2> QED
    BY <2>1, <2>2, OthersStaySound DEF BookInv, WalletBalances
<1> QED
  BY <1>1, <1>2, <1>3, <1>4 DEF Next

\* The main wallet is the sum of its entries, whatever mixture of transfers, fills and
\* closes runs.
THEOREM WalletBalancesHolds == Spec => []WalletBalances
<1>1. BookInv /\ [Next]_vars => BookInv'
  BY NextBook
<1>2. BookInv => WalletBalances
  BY DEF BookInv
<1> QED
  BY InitBook, <1>1, <1>2, PTL DEF Spec

-----------------------------------------------------------------------------
(* Transfers of one kind alone. *)

\* What is at work stays so, and transfers alone change balances by their commits only.
LEMMA StepOfTransfers ==
    ASSUME BookInv, [Next]_vars
    PROVE  /\ mix' = mix
           /\ Separate => \/ UNCHANGED <<money, margin, ledger>>
                          \/ \E s \in Sessions : Transfer(s)
<1>1. ASSUME Separate, NEW s \in Sessions
      PROVE  ~OpenFill(s) /\ ~CloseCommit(s)
  BY <1>1 DEF Separate, OpenFill, CloseCommit, BookInv, Sound
<1> QED
  BY <1>1 DEF Next, Serve, TransferBegin, OpenLoad, CloseLoad, Begin, TransferLockFirst,
              TransferLockSecond, TransferRefused, Transfer, OpenLock, OpenFill, OpenRefused,
              CloseFlush, CloseCommit, Book, DeadlockAbort, Rollback, End, Move, vars

\* A session in the middle of a transfer has taken a lock in this step or done nothing.
LEMMA StepOfOne ==
    ASSUME BookInv, [Next]_vars, NEW s \in Sessions, req'[s].pc \in {"second", "held"}
    PROVE  \/ TransferLockFirst(s) \/ TransferLockSecond(s)
           \/ req'[s] = req[s] /\ copy'[s] = copy[s]
<1> USE DEF BookInv, TypeOK
<1>1. ASSUME NEW u \in Sessions, NEW f \in Rows, NEW t \in Rows, TransferBegin(u, f, t)
      PROVE  req'[s] = req[s] /\ copy'[s] = copy[s]
  BY <1>1 DEF TransferBegin, Begin
<1>2. ASSUME NEW u \in Sessions, NEW a \in Accounts, OpenLoad(u, a) \/ CloseLoad(u, a)
      PROVE  req'[s] = req[s] /\ copy'[s] = copy[s]
  <2>1. u # s
    BY <1>2 DEF OpenLoad, CloseLoad, Begin
  <2> QED
    BY <1>2, <2>1, LoadKeepsCopies DEF OpenLoad, CloseLoad, Begin, Rows
<1>3. ASSUME NEW u \in Sessions, Serve(u)
      PROVE  \/ u = s /\ (TransferLockFirst(s) \/ TransferLockSecond(s))
             \/ req'[s] = req[s] /\ copy'[s] = copy[s]
  <2>1. CASE End(u)
    BY <2>1 DEF End, Idle
  <2>2. CASE OpenLock(u) \/ CloseFlush(u)
    BY <2>2 DEF OpenLock, CloseFlush, Lock, Requests
  <2>3. CASE TransferLockFirst(u)
    <3>1. First(u) \in Rows
      BY <2>3, LockedRows DEF TransferLockFirst, Sound
    <3> QED
      BY <2>3, <3>1, LoadKeepsCopies DEF TransferLockFirst, Lock
  <2>4. CASE TransferLockSecond(u)
    <3>1. Second(u) \in Rows
      BY <2>4, LockedRows DEF TransferLockSecond, Sound
    <3> QED
      BY <2>4, <3>1, LoadKeepsCopies DEF TransferLockSecond, Lock
  <2> QED
    BY <1>3, <2>1, <2>2, <2>3, <2>4
    DEF Serve, TransferRefused, Transfer, OpenFill, OpenRefused, CloseCommit, Book, DeadlockAbort,
        Rollback
<1> QED
  BY <1>1, <1>2, <1>3 DEF Next, Move, vars

\* Nobody else writes the account of a session that holds the user.
LEMMA NextExcludes ==
    ASSUME BookInv, UserExcludes, [Next]_vars
    PROVE  UserExcludes'
<1> SUFFICES ASSUME mix = {"main"}, NEW s \in Sessions, req'[s].pc \in {"second", "held"}
             PROVE  (copy[s][Second(s)] = Row(Second(s)))'
  BY StepOfTransfers DEF UserExcludes
<1>1. ASSUME NEW u \in Sessions, req[u].pc \in {"second", "held"}
      PROVE  /\ owner[User] = u /\ Second(u) \in Rows /\ Second(u) # User
             /\ copy[u][Second(u)] = Row(Second(u)) /\ req[u].kind = "main"
  BY <1>1, LockedRows DEF BookInv, Sound, UserExcludes
<1>2. CASE TransferLockFirst(s)
  <2>1. First(s) = User /\ Second(s) \in Rows
    BY <1>2, LockedRows DEF TransferLockFirst, BookInv, Sound
  <2>2. copy'[s][Second(s)] = Row(Second(s))
    <3>1. Load(s, User) /\ User \in Rows
      BY <1>2, <2>1 DEF TransferLockFirst, Rows
    <3> QED
      BY <2>1, <3>1, LoadKeepsCopies DEF BookInv
  <2>3. req'[s].from = req[s].from /\ req'[s].to = req[s].to
    BY <1>2 DEF TransferLockFirst, Lock, BookInv, TypeOK, Requests
  <2>4. Second(s)' = Second(s)
    BY <2>3 DEF Second, LockOrder
  <2> QED
    BY <1>2, <2>2, <2>4 DEF TransferLockFirst, Row
<1>3. CASE TransferLockSecond(s)
  <2>1. copy'[s][Second(s)] = Row(Second(s))
    BY <1>1, <1>3, LoadKeepsCopies DEF TransferLockSecond, BookInv
  <2>2. req'[s].from = req[s].from /\ req'[s].to = req[s].to
    BY <1>3 DEF TransferLockSecond, Lock, BookInv, TypeOK, Requests
  <2>3. Second(s)' = Second(s)
    BY <2>2 DEF Second, LockOrder
  <2> QED
    BY <1>3, <2>1, <2>3 DEF TransferLockSecond, Row
<1>4. CASE req'[s] = req[s] /\ copy'[s] = copy[s]
  <2>1. Second(s)' = Second(s)
    BY <1>4 DEF Second, LockOrder
  <2>2. \A u \in Sessions : ~Transfer(u)
    <3> SUFFICES ASSUME NEW u \in Sessions, Transfer(u) PROVE FALSE
      OBVIOUS
    <3>1. u = s
      BY <1>1, <1>4 DEF Transfer
    <3>2. req'[s] = Idle
      BY <3>1 DEF Transfer, End, BookInv, TypeOK
    <3> QED
      BY <3>2 DEF Idle
  <2>3. UNCHANGED <<money, margin>>
    BY <2>2, StepOfTransfers DEF Separate
  <2> QED
    BY <1>1, <1>4, <2>1, <2>3 DEF Row
<1> QED
  BY <1>2, <1>3, <1>4, StepOfOne

\* The commit of a transfer moves one unit, in the books and in the ledger.
LEMMA TransferMoves ==
    ASSUME BookInv, UserExcludes, Separate, NEW s \in Sessions, Transfer(s)
    PROVE  LET f == req[s].from
               t == req[s].to
           IN  /\ f \in Rows /\ t \in Rows /\ f # t
               /\ money[f] - margin[f] >= 1
               /\ money' = [money EXCEPT ![f] = @ - 1, ![t] = @ + 1]
               /\ ledger' = [ledger EXCEPT ![f] = @ - 1, ![t] = @ + 1]
<1> DEFINE f == req[s].from
           t == req[s].to
<1>1. /\ f \in Rows /\ t \in Rows /\ f # t
      /\ money' = [money EXCEPT ![f] = copy[s][f].money - 1, ![t] = copy[s][t].money + 1]
      /\ ledger' = [ledger EXCEPT ![f] = @ - 1, ![t] = @ + 1]
  BY TransferWrites
<1>2. {First(s), Second(s)} = {f, t}
  BY <1>1, LockedRows DEF BookInv
<1>3. req[s].kind = "internal" \/ mix = {"main"}
  BY <1>1 DEF Transfer, BookInv, Sound, Separate
<1>4. copy[s][First(s)] = Row(First(s)) /\ copy[s][Second(s)] = Row(Second(s))
  BY <1>3 DEF Transfer, BookInv, Sound, UserExcludes
<1>5. copy[s][f] = Row(f) /\ copy[s][t] = Row(t)
  BY <1>2, <1>4
<1>6. /\ copy[s][f].money = money[f] /\ copy[s][f].margin = margin[f]
      /\ copy[s][t].money = money[t]
  BY <1>5 DEF Row
<1>7. money' = [money EXCEPT ![f] = money[f] - 1, ![t] = money[t] + 1]
  BY <1>1, <1>6
<1>8. money' = [money EXCEPT ![f] = @ - 1, ![t] = @ + 1]
  BY <1>1, <1>7 DEF BookInv, TypeOK
<1> QED
  BY <1>1, <1>6, <1>8 DEF Transfer, Free

\* The invariant of the transfers holds at the start.
LEMMA InitTransfers == Init => TransferInv
<1> SUFFICES ASSUME Init PROVE TransferInv
  OBVIOUS
<1>1. NeverOverdrawn
  BY BookAssumption DEF Init, NeverOverdrawn, Rows, User
<1>2. UserExcludes
  BY DEF Init, Idle, UserExcludes
<1> QED
  BY <1>1, <1>2, InitBook DEF Init, TransferInv, BooksBalance

\* And every step keeps it.
LEMMA NextTransfers ==
    ASSUME TransferInv, [Next]_vars
    PROVE  TransferInv'
<1>1. BookInv' /\ UserExcludes' /\ mix' = mix
  BY NextBook, NextExcludes, StepOfTransfers DEF TransferInv
<1>2. CASE UNCHANGED <<money, margin, ledger>> \/ ~Separate
  BY <1>1, <1>2 DEF TransferInv, BooksBalance, NeverOverdrawn, Separate
<1>3. ASSUME Separate, NEW s \in Sessions, Transfer(s) PROVE TransferInv'
  <2> DEFINE f == req[s].from
             t == req[s].to
  <2>1. /\ f \in Rows /\ t \in Rows /\ f # t
        /\ money[f] - margin[f] >= 1
        /\ money' = [money EXCEPT ![f] = @ - 1, ![t] = @ + 1]
        /\ ledger' = [ledger EXCEPT ![f] = @ - 1, ![t] = @ + 1]
        /\ margin' = margin
    BY <1>3, TransferMoves DEF TransferInv, Transfer
  <2> HIDE DEF f, t
  <2>2. /\ money \in [Rows -> Int] /\ ledger \in [Rows -> Int] /\ margin \in [Rows -> Nat]
    BY DEF TransferInv, BookInv, TypeOK
  <2>3. BooksBalance'
    BY <1>3, <2>1, <2>2 DEF TransferInv, BooksBalance
  <2>4. NeverOverdrawn'
    BY <1>3, <2>1, <2>2 DEF TransferInv, NeverOverdrawn
  <2> QED
    BY <1>1, <2>3, <2>4 DEF TransferInv
<1> QED
  BY <1>2, <1>3, StepOfTransfers DEF TransferInv

\* No transfer loses or creates money, as long as those between accounts and those to and
\* from the main wallet are not at work together.
THEOREM BooksBalanceHolds == Spec => []BooksBalance
<1>1. TransferInv /\ [Next]_vars => TransferInv'
  BY NextTransfers
<1>2. TransferInv => BooksBalance
  BY DEF TransferInv
<1> QED
  BY InitTransfers, <1>1, <1>2, PTL DEF Spec

\* No transfer takes the margin of open positions, under the same condition.
THEOREM NeverOverdrawnHolds == Spec => []NeverOverdrawn
<1>1. TransferInv /\ [Next]_vars => TransferInv'
  BY NextTransfers
<1>2. TransferInv => NeverOverdrawn
  BY DEF TransferInv
<1> QED
  BY InitTransfers, <1>1, <1>2, PTL DEF Spec

\* And every step that changes a balance moves one unit between two rows.
THEOREM TransfersMoveHolds == Spec => TransfersMove
<1>1. TransferInv /\ [Next]_vars => TransferInv'
  BY NextTransfers
<1>2. TransferInv /\ [Next]_vars => [MovesOne]_vars
  BY StepOfTransfers, TransferMoves DEF TransferInv, MovesOne
<1> QED
  BY InitTransfers, <1>1, <1>2, PTL DEF Spec, TransfersMove

-----------------------------------------------------------------------------
(***************************************************************************)
(* No circle of transfers. In a circle everybody waits for the second row  *)
(* of its transfer and holds the first, which is lower: the highest row    *)
(* somebody waits for is held by nobody in the circle.                     *)
(***************************************************************************)

LEMMA InitWait == Init => WaitInv
<1> SUFFICES ASSUME Init PROVE WaitInv
  OBVIOUS
<1>1. LocksHeld
  BY BookAssumption DEF Init, LocksHeld
<1> QED
  BY <1>1, InitBook DEF Init, Idle, WaitInv

\* A session whose request stands holds what it held.
LEMMA SameHolds ==
    ASSUME NEW t \in Sessions, NEW r \in Rows, req'[t] = req[t], Holds(t, r)
    PROVE  Holds(t, r)'
BY DEF Holds, First, Second, LockOrder

\* A session that starts held nothing, and holds nothing yet.
LEMMA BeginKeepsHolds ==
    ASSUME LocksHeld, NEW s \in Sessions, req[s].pc = "idle", UNCHANGED owner,
           \A t \in Sessions \ {s} : req'[t] = req[t]
    PROVE  LocksHeld'
<1> SUFFICES ASSUME NEW t \in Sessions, NEW r \in Rows, owner'[r] = t PROVE Holds(t, r)'
  BY DEF LocksHeld
<1>1. Holds(t, r)
  BY DEF LocksHeld
<1>2. t # s
  BY <1>1 DEF Holds
<1> QED
  BY <1>1, <1>2, SameHolds

\* A session that takes a row holds that one too.
LEMMA LockKeepsHolds ==
    ASSUME WaitInv, NEW s \in Sessions, NEW r \in Rows,
           NEW pc \in {"second", "held", "locked"}, Lock(s, r, pc),
           \/ req[s].pc = "first" /\ pc = "second" /\ r = First(s)
           \/ req[s].pc = "second" /\ pc = "held" /\ r = Second(s)
           \/ req[s].pc = "loaded" /\ pc = "locked" /\ r = req[s].from
    PROVE  LocksHeld'
<1>1. /\ req'[s].from = req[s].from /\ req'[s].to = req[s].to /\ req'[s].pc = pc
      /\ \A t \in Sessions \ {s} : req'[t] = req[t]
  BY DEF Lock, WaitInv, BookInv, TypeOK, Requests
<1>2. \A q \in Rows : owner'[q] = IF q = r THEN s ELSE owner[q]
  BY DEF Lock, WaitInv, BookInv, TypeOK
<1>3. First(s)' = First(s) /\ Second(s)' = Second(s)
  BY <1>1 DEF First, Second, LockOrder
<1> SUFFICES ASSUME NEW t \in Sessions, NEW q \in Rows, owner'[q] = t PROVE Holds(t, q)'
  BY DEF LocksHeld
<1>4. CASE q = r
  BY <1>1, <1>2, <1>3, <1>4 DEF Holds
<1>5. CASE q # r
  <2>1. Holds(t, q)
    BY <1>2, <1>5 DEF WaitInv, LocksHeld
  <2>2. CASE t = s
    BY <1>1, <1>3, <2>1, <2>2 DEF Holds
  <2>3. CASE t # s
    BY <1>1, <2>1, <2>3, SameHolds
  <2> QED
    BY <2>2, <2>3
<1> QED
  BY <1>4, <1>5

\* A session that ends gives its rows back.
LEMMA EndKeepsHolds ==
    ASSUME WaitInv, NEW s \in Sessions, End(s)
    PROVE  /\ LocksHeld'
           /\ \A t \in Sessions : req'[t] = req[t] \/ req'[t].pc = "idle"
<1>1. \A t \in Sessions : req'[t] = IF t = s THEN Idle ELSE req[t]
  BY DEF End, WaitInv, BookInv, TypeOK
<1>2. ASSUME NEW t \in Sessions, NEW r \in Rows, owner'[r] = t PROVE Holds(t, r)'
  <2>1. Holds(t, r) /\ t # s
    BY <1>2, BookAssumption DEF End, WaitInv, LocksHeld
  <2> QED
    BY <1>1, <2>1, SameHolds
<1> QED
  BY <1>1, <1>2 DEF Idle, LocksHeld

LEMMA NextWait ==
    ASSUME WaitInv, [Next]_vars
    PROVE  WaitInv'
<1>1. BookInv'
  BY NextBook DEF WaitInv
<1> DEFINE Kinded == \A s \in Sessions :
                        req[s].pc \in {"loaded", "locked"} => req[s].kind \in {"open", "close"}
<1>2. ASSUME NEW s \in Sessions, NEW f \in Rows, NEW t \in Rows, TransferBegin(s, f, t)
      PROVE  LocksHeld' /\ Kinded'
  <2>1. /\ req[s].pc = "idle" /\ UNCHANGED owner /\ req'[s].pc = "first"
        /\ \A u \in Sessions \ {s} : req'[u] = req[u]
    BY <1>2 DEF TransferBegin, Begin, WaitInv, BookInv, TypeOK
  <2>2. Kinded'
    BY <2>1 DEF WaitInv
  <2> QED
    BY <2>1, <2>2, BeginKeepsHolds DEF WaitInv
<1>3. ASSUME NEW s \in Sessions, NEW a \in Accounts, OpenLoad(s, a) \/ CloseLoad(s, a)
      PROVE  LocksHeld' /\ Kinded'
  <2>1. /\ req[s].pc = "idle" /\ UNCHANGED owner /\ req'[s].kind \in {"open", "close"}
        /\ \A u \in Sessions \ {s} : req'[u] = req[u]
    BY <1>3 DEF OpenLoad, CloseLoad, Begin, WaitInv, BookInv, TypeOK
  <2>2. Kinded'
    BY <2>1 DEF WaitInv
  <2> QED
    BY <2>1, <2>2, BeginKeepsHolds DEF WaitInv
<1>4. ASSUME NEW s \in Sessions,
             TransferLockFirst(s) \/ TransferLockSecond(s) \/ OpenLock(s) \/ CloseFlush(s)
      PROVE  LocksHeld' /\ Kinded'
  <2>1. /\ First(s) \in Rows \/ req[s].pc \notin {"first", "second"}
        /\ Second(s) \in Rows \/ req[s].pc \notin {"first", "second"}
        /\ req[s].from \in Rows
    BY LockedRows DEF WaitInv, BookInv, Sound, TypeOK, Requests
  <2>2. PICK r \in Rows, pc \in {"second", "held", "locked"} :
          /\ Lock(s, r, pc)
          /\ \/ req[s].pc = "first" /\ pc = "second" /\ r = First(s)
             \/ req[s].pc = "second" /\ pc = "held" /\ r = Second(s)
             \/ req[s].pc = "loaded" /\ pc = "locked" /\ r = req[s].from
    BY <1>4, <2>1 DEF TransferLockFirst, TransferLockSecond, OpenLock, CloseFlush
  <2>3. /\ req'[s].kind = req[s].kind /\ req'[s].pc = pc
        /\ \A u \in Sessions \ {s} : req'[u] = req[u]
    BY <2>2 DEF Lock, WaitInv, BookInv, TypeOK, Requests
  <2>4. Kinded'
    BY <2>2, <2>3 DEF WaitInv
  <2> QED
    BY <2>2, <2>4, LockKeepsHolds
<1>5. ASSUME NEW s \in Sessions, End(s) PROVE LocksHeld' /\ Kinded'
  BY <1>5, EndKeepsHolds DEF WaitInv
<1>6. ASSUME UNCHANGED <<owner, req>> PROVE LocksHeld' /\ Kinded'
  BY <1>6 DEF WaitInv, LocksHeld, Holds, First, Second, LockOrder
<1> HIDE DEF Kinded
<1>7. LocksHeld' /\ Kinded'
  BY <1>2, <1>3, <1>4, <1>5, <1>6
  DEF Next, Serve, TransferRefused, Transfer, OpenFill, OpenRefused, CloseCommit, Book,
      DeadlockAbort, Rollback, Move, vars
<1> QED
  BY <1>1, <1>7 DEF WaitInv, Kinded

\* Among some rows one is the highest: the rows above it are the fewest.
LEMMA HighestRow ==
    ASSUME NEW W \in SUBSET Rows, W # {}
    PROVE  \E w \in W : \A v \in W : ~(w < v)
<1> DEFINE Above(w) == {v \in W : w < v}
           R == StrictSubsetOrdering(Rows)
           T == {Above(w) : w \in W}
<1>1. \A w \in W : w \in Nat
  BY BookAssumption DEF Rows, User
<1>2. IsFiniteSet(Rows)
  <2>1. Rows = Accounts \union {User}
    BY DEF Rows
  <2> QED
    BY <2>1, BookAssumption, FS_AddElement
<1>3. T \subseteq FiniteSubsetsOf(Rows) /\ T # {}
  <2>1. ASSUME NEW w \in W PROVE Above(w) \in FiniteSubsetsOf(Rows)
    <3>1. Above(w) \in SUBSET Rows
      OBVIOUS
    <3> HIDE DEF Above
    <3> QED
      BY <1>2, <3>1, FS_Subset DEF FiniteSubsetsOf
  <2> HIDE DEF Above
  <2> QED
    BY <2>1
<1>4. PICK x \in T : \A y \in T : <<y, x>> \notin R
  <2>1. IsWellFoundedOn(R, FiniteSubsetsOf(Rows))
    BY FS_StrictSubsetOrderingWellFounded
  <2> HIDE DEF T, R
  <2> QED
    BY <1>3, <2>1, WFMin
<1>5. PICK w \in W : x = Above(w)
  OBVIOUS
<1>6. ASSUME NEW v \in W, w < v PROVE FALSE
  <2>1. Above(v) \subseteq Above(w) /\ v \in Above(w) /\ v \notin Above(v)
    BY <1>1, <1>6
  <2>2. <<Above(v), Above(w)>> \in R
    BY <2>1 DEF StrictSubsetOrdering
  <2> QED
    BY <1>4, <1>5, <2>2
<1> QED
  BY <1>6

\* However many transfers run, they never wait for one another in a circle: all lock their
\* rows in the order of the ids.
THEOREM NoDeadlockHolds == Spec => []NoDeadlock
<1>1. WaitInv /\ [Next]_vars => WaitInv'
  BY NextWait
<1>2. WaitInv => NoDeadlock
  <2> SUFFICES ASSUME WaitInv, Transfers, NEW s \in Sessions, NEW C \in SUBSET Sessions, s \in C,
                      \A t \in C : Waiting(t) /\ owner[Wanted(t)] \in C
               PROVE  FALSE
    BY DEF NoDeadlock, Deadlocked
  <2>1. ASSUME NEW t \in C
        PROVE  /\ req[t].pc \in {"first", "second"}
               /\ First(t) \in Rows /\ Second(t) \in Rows /\ First(t) < Second(t)
               /\ Wanted(t) = IF req[t].pc = "first" THEN First(t) ELSE Second(t)
    <3>1. req[t].pc \in {"first", "second", "loaded", "locked"}
      BY DEF Waiting
    <3>2. req[t].kind \notin {"open", "close"}
      BY DEF WaitInv, BookInv, Sound, Transfers
    <3>3. req[t].pc \in {"first", "second"}
      BY <3>1, <3>2 DEF WaitInv
    <3> QED
      BY <3>3, LockedRows DEF Wanted, WaitInv, BookInv, Sound
  <2> DEFINE W == {Wanted(t) : t \in C}
  <2>2. W \in SUBSET Rows /\ W # {}
    BY <2>1
  <2>3. PICK w \in W : \A v \in W : ~(w < v)
    <3> HIDE DEF W
    <3> QED
      BY <2>2, HighestRow
  <2>4. PICK t \in C : w = Wanted(t)
    OBVIOUS
  <2>5. PICK u \in C : u = owner[w]
    BY <2>4
  <2>6. Holds(u, w)
    <3>1. w \in Rows /\ owner[w] # NoOne
      BY <2>2, <2>3, <2>5, BookAssumption
    <3> QED
      BY <2>5, <3>1 DEF WaitInv, LocksHeld
  <2>7. w = First(u) /\ Wanted(u) = Second(u) /\ First(u) < Second(u)
    BY <2>1, <2>6 DEF Holds
  <2> QED
    BY <2>3, <2>7
<1> QED
  BY InitWait, <1>1, <1>2, PTL DEF Spec
=============================================================================

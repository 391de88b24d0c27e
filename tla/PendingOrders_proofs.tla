------------------------ MODULE PendingOrders_proofs ------------------------
(***************************************************************************)
(* What TLAPS proves of PendingOrders: two facts about its prices, that an *)
(* order opens one position at most, that the cap on pending orders holds, *)
(* that a cancel stands, and that the free margin is what the fills left   *)
(* of it. The last needs sums over the orders, whose theory is here too.   *)
(***************************************************************************)
EXTENDS PendingOrders, FiniteSetTheorems, SequenceTheorems, TLAPS

-----------------------------------------------------------------------------
(* Prices.                                                                 *)

LEMMA TermsAreIntegers ==
  ASSUME NEW t \in Terms
  PROVE  t.price \in Int /\ t.limit \in Int
<1>1. t \in [kind : Kinds, side : Sides, price : Prices, limit : Prices \cup {NoLimit},
             lots : LotSizes]
  BY DEF Terms
<1>2. t.price \in Prices /\ t.limit \in Prices \cup {0}
  BY <1>1 DEF NoLimit
<1>3. Prices \subseteq Int /\ 0 \in Int
  BY QuotesAreNatural
<1> QED BY <1>2, <1>3

\* A limit or stop order that place_order accepts does not trigger at the quote
\* it was accepted at: it waits, on either side and whatever the prices.
THEOREM AcceptedOrdersWait ==
  ASSUME NEW t \in Terms, NEW bid \in Bids, t.kind \in {"limit", "stop"},
         Placeable(t, bid)
  PROVE  ~Triggered(t, bid)
<1>1. bid \in Int /\ Spread \in Int /\ t.price \in Int
  BY QuotesAreNatural, TermsAreIntegers
<1>2. Quote(t, bid) \in Int /\ Asked(t, t.price) \in Int
  BY <1>1 DEF Quote, Asked
<1> DEFINE now == Quote(t, bid)
           px == Asked(t, t.price)
<1>3. now \in Int /\ px \in Int
  BY <1>2
<1>4. CASE t.kind = "limit"
  <2>1. Placeable(t, bid) <=> px < now
    BY <1>4 DEF Placeable
  <2>2. Triggered(t, bid) <=> now <= px
    BY <1>4 DEF Triggered
  <2> QED BY <1>3, <2>1, <2>2
<1>5. CASE t.kind = "stop"
  <2>1. Placeable(t, bid) <=> px > now
    BY <1>5 DEF Placeable
  <2>2. Triggered(t, bid) <=> now >= px
    BY <1>5 DEF Triggered
  <2> QED BY <1>3, <2>1, <2>2
<1> QED BY <1>4, <1>5

\* A stop-limit order that place_order accepts triggers at no quote at all: its
\* limit lies on the far side of its stop, and the engine wants the quote
\* between the two.
THEOREM StopLimitsNeverTrigger ==
  ASSUME NEW t \in Terms, NEW bid \in Bids, t.kind = "stop_limit",
         Placeable(t, bid), NEW later \in Bids
  PROVE  ~Triggered(t, later)
<1>1. bid \in Int /\ later \in Int /\ Spread \in Int
  BY QuotesAreNatural
<1>2. t.price \in Int /\ t.limit \in Int
  BY TermsAreIntegers
<1>3. /\ Quote(t, later) \in Int /\ Asked(t, t.price) \in Int
      /\ Asked(t, t.limit) \in Int
  BY <1>1, <1>2 DEF Quote, Asked
<1> DEFINE now == Quote(t, later)
           px == Asked(t, t.price)
           edge == Asked(t, t.limit)
<1>4. Placeable(t, bid) => edge < px
  BY DEF Placeable
<1>5. Triggered(t, later) => now >= px /\ now <= edge
  BY DEF Triggered
<1> HIDE DEF now, px, edge
<1>6. now \in Int /\ px \in Int /\ edge \in Int
  BY <1>3 DEF now, px, edge
<1> QED BY <1>4, <1>5, <1>6

-----------------------------------------------------------------------------
(* One fill.                                                               *)

Shape ==
  /\ row = [o \in Orders |-> [status |-> row[o].status, terms |-> row[o].terms]]
  /\ opened = [o \in Orders |-> opened[o]]

SessionShape ==
  cycle = Asleep \/ (cycle.on /\
    cycle = [on |-> TRUE, todo |-> cycle.todo, free |-> cycle.free, copy |-> cycle.copy,
             filled |-> cycle.filled, rejected |-> cycle.rejected])

\* every modify and cancel under way is of a row that exists
Targets ==
  /\ job = [r \in Requests |-> job[r]]
  /\ \A r \in Requests : job[r].op \in {"modify", "cancel"} => job[r].order \in Orders

FillInv ==
  /\ Shape
  /\ SessionShape
  /\ OneFill
  /\ cycle.on => \A o \in Orders \cap Seen : Unfilled(o)
  /\ Targets

\* The order's status and positions: what the invariant looks at.
Same(o) == row'[o].status = row[o].status /\ opened'[o] = opened[o]

LEMMA FillInit == Init => FillInv
BY DEF Init, FillInv, Shape, SessionShape, OneFill, Asleep, Idle, Seen, Targets

\* A step that changes no status and no position, and lets the session at most
\* lose or move orders, keeps the invariant but for its shapes.
LEMMA SameKeeps ==
  ASSUME FillInv, Shape', SessionShape',
         \A o \in Orders : Same(o),
         cycle'.on => \A o \in Orders \cap Seen' : Unfilled(o),
         Targets'
  PROVE  FillInv'
<1>1. OneFill'
  BY DEF FillInv, OneFill, Same
<1>2. cycle'.on => \A o \in Orders \cap Seen' : Unfilled(o)'
  BY DEF Same, Unfilled
<1> QED BY <1>1, <1>2 DEF FillInv

\* the same for the steps of requests that touch neither the order nor the cycle
LEMMA JobKeeps ==
  ASSUME FillInv, UNCHANGED <<row, opened, cycle>>,
         Targets'
  PROVE  FillInv'
<1>1. Shape' /\ SessionShape' /\ Seen' = Seen
  BY DEF FillInv, Shape, SessionShape, Seen
<1>2. \A o \in Orders : Same(o)
  BY DEF Same
<1>3. cycle'.on => \A o \in Orders \cap Seen' : Unfilled(o)
  BY <1>1 DEF FillInv
<1> QED BY <1>1, <1>2, <1>3, SameKeeps
\* A modify, whenever it commits, changes no status: it writes the terms alone.
LEMMA ModifySame ==
  ASSUME Shape, Targets, NEW r \in Requests, ModifyCommit(r)
  PROVE  Shape' /\ Targets' /\ \A o \in Orders : Same(o)
<1> DEFINE k == job[r].order
           ts == [row[k].terms EXCEPT !.price = job[r].price, !.lots = job[r].lots]
<1>1. UNCHANGED opened /\ k \in Orders
  BY DEF ModifyCommit, Targets
<1>2. row' = [row EXCEPT ![k].terms = ts]
  BY DEF ModifyCommit
<1>3. Targets'
  BY DEF ModifyCommit, Targets, Idle
<1> HIDE DEF ts
<1>4. row'[k] = [row[k] EXCEPT !.terms = ts] /\ \A o \in Orders : o # k => row'[o] = row[o]
  BY <1>1, <1>2 DEF Shape
<1>5. row[k] = [status |-> row[k].status, terms |-> row[k].terms]
  BY <1>1 DEF Shape
<1>6. row'[k] = [status |-> row[k].status, terms |-> ts]
  BY <1>4, <1>5
<1>7. \A o \in Orders : Same(o)
  BY <1>1, <1>4, <1>6 DEF Same
<1>8. row' = [o \in Orders |-> row'[o]]
  BY <1>2 DEF Shape
<1>9. \A o \in Orders : row'[o] = [status |-> row'[o].status, terms |-> row'[o].terms]
  <2>1. row'[k] = [status |-> row'[k].status, terms |-> row'[k].terms]
    BY <1>6
  <2>2. ASSUME NEW o \in Orders, o # k
        PROVE  row'[o] = [status |-> row'[o].status, terms |-> row'[o].terms]
    <3>1. row[o] = [status |-> row[o].status, terms |-> row[o].terms]
      BY DEF Shape
    <3> QED BY <3>1, <1>4, <2>2
  <2> QED BY <2>1, <2>2
<1>10. Shape'
  BY <1>1, <1>8, <1>9 DEF Shape
<1> QED BY <1>3, <1>7, <1>10

LEMMA OneAppended ==
  ASSUME NEW x
  PROVE  Len(Append(<<>>, x)) = 1 /\ Append(<<>>, x) # <<>>
<1>1. <<>> \in Seq({x}) /\ Len(<<>>) = 0
  OBVIOUS
<1> QED BY <1>1, AppendProperties

LEMMA FillNext == FillInv /\ [Next]_vars => FillInv'
<1> SUFFICES ASSUME FillInv, [Next]_vars PROVE FillInv'
  OBVIOUS
<1>0. /\ Shape /\ SessionShape /\ OneFill
      /\ cycle.on => \A o \in Orders \cap Seen : Unfilled(o)
      /\ Targets
  BY DEF FillInv
<1>1. ASSUME NEW r \in Requests, PlaceLock(r) \/ PlaceCount(r) \/ PlaceRefused(r)
      PROVE  FillInv'
  <2>1. UNCHANGED <<row, opened, cycle>>
    BY <1>1 DEF PlaceLock, PlaceCount, PlaceRefused
  <2>2. Targets'
    BY <1>0, <1>1 DEF Targets, PlaceLock, PlaceCount, PlaceRefused, Idle
  <2> QED BY <2>1, <2>2, JobKeeps
<1>2. ASSUME NEW r \in Requests, ModifyLoad(r) \/ CancelLoad(r)
      PROVE  FillInv'
  <2>1. UNCHANGED <<row, opened, cycle>>
    BY <1>2 DEF ModifyLoad, CancelLoad
  <2>2. Targets'
    BY <1>0, <1>2 DEF Targets, ModifyLoad, CancelLoad, Pending
  <2> QED BY <2>1, <2>2, JobKeeps
<1>3. ASSUME NEW r \in Requests, PlaceCommit(r) PROVE FillInv'
  <2> PICK k \in Orders, t \in Terms :
        /\ row[k].status = "none"
        /\ row' = [row EXCEPT ![k] = [status |-> "pending", terms |-> t]]
    BY <1>3 DEF PlaceCommit
  <2>1. UNCHANGED <<opened, cycle>>
    BY <1>3 DEF PlaceCommit
  <2>2. Shape'
    BY <1>0, <2>1 DEF Shape
  <2>3. \A o \in Orders : o # k => Same(o)
    BY <1>0, <2>1 DEF Shape, Same
  <2>4. row'[k].status = "pending" /\ opened[k] = <<>> /\ opened'[k] = <<>>
    BY <1>0, <2>1 DEF Shape, OneFill
  <2>5. OneFill'
    BY <1>0, <2>3, <2>4 DEF OneFill, Same
  <2>6. SessionShape' /\ Seen' = Seen /\ cycle'.on = cycle.on
    BY <1>0, <2>1 DEF SessionShape, Seen
  <2>7. ASSUME cycle'.on, NEW o \in Orders \cap Seen' PROVE Unfilled(o)'
    <3>1. Unfilled(o)
      BY <1>0, <2>6, <2>7
    <3> QED BY <3>1, <2>3, <2>4 DEF Unfilled, Same
  <2>8. Targets'
    BY <1>0, <1>3 DEF Targets, PlaceCommit, Idle
  <2> QED BY <2>2, <2>5, <2>6, <2>7, <2>8 DEF FillInv
<1>4. ASSUME NEW r \in Requests, ModifyCommit(r) PROVE FillInv'
  <2>1. Shape' /\ Targets' /\ \A o \in Orders : Same(o)
    BY <1>0, <1>4, ModifySame
  <2>2. SessionShape' /\ Seen' = Seen /\ cycle'.on = cycle.on
    BY <1>0, <1>4 DEF ModifyCommit, SessionShape, Seen
  <2> QED BY <1>0, <2>1, <2>2, SameKeeps
<1>5. ASSUME NEW r \in Requests, CancelCommit(r) PROVE FillInv'
  <2> DEFINE k == job[r].order
  <2>1. UNCHANGED <<opened, cycle>> /\ k \in Orders
    BY <1>0, <1>5 DEF CancelCommit, Targets
  <2>2. Shape' /\ row'[k].status = "cancelled"
    BY <1>0, <1>5, <2>1 DEF Shape, CancelCommit
  <2>3. \A o \in Orders : o # k => Same(o)
    BY <1>0, <1>5, <2>1 DEF Shape, CancelCommit, Same
  <2>4. OneFill'
    BY <1>0, <2>1, <2>2, <2>3 DEF OneFill, Same
  <2>5. SessionShape' /\ Seen' = Seen /\ cycle'.on = cycle.on
    BY <1>0, <2>1 DEF SessionShape, Seen
  <2>6. ASSUME cycle'.on, NEW o \in Orders \cap Seen' PROVE Unfilled(o)'
    <3>1. Unfilled(o)
      BY <1>0, <2>5, <2>6
    <3> QED BY <3>1, <2>1, <2>2, <2>3 DEF Unfilled, Same
  <2>7. Targets'
    BY <1>0, <1>5 DEF Targets, CancelCommit, Idle
  <2> QED BY <2>2, <2>4, <2>5, <2>6, <2>7 DEF FillInv
<1>6. CASE CycleSelect
  <2>1. Shape' /\ \A o \in Orders : Same(o)
    BY <1>0, <1>6 DEF CycleSelect, Shape, Same
  <2>2. SessionShape' /\ Seen' = Pending
    BY <1>6 DEF CycleSelect, SessionShape, Seen
  <2>3. \A o \in Pending : Unfilled(o)
    BY <1>0 DEF Pending, Unfilled, Shape, OneFill
  <2>4. Targets'
    BY <1>0, <1>6 DEF Targets, CycleSelect
  <2> QED BY <2>1, <2>2, <2>3, <2>4, SameKeeps
<1>7. CASE CycleStep
  <2>1. Shape' /\ \A o \in Orders : Same(o)
    BY <1>0, <1>7 DEF CycleStep, Shape, Same
  <2> PICK k \in cycle.todo : Skip(k) \/ Reject(k) \/ Fill(k)
    BY <1>7 DEF CycleStep
  <2>2. cycle.on /\ cycle # Asleep
    BY <1>7 DEF CycleStep, Asleep
  <2>3. SessionShape' /\ cycle'.on /\ Seen' \subseteq Seen
    BY <1>0, <2>2 DEF SessionShape, Seen, Skip, Reject, Fill
  <2>4. \A o \in Orders \cap Seen' : Unfilled(o)
    BY <1>0, <2>2, <2>3
  <2>5. Targets'
    BY <1>0, <1>7 DEF Targets, CycleStep
  <2> QED BY <2>1, <2>3, <2>4, <2>5, SameKeeps
<1>8. CASE CycleCommit
  <2>1. cycle.on /\ ~cycle'.on /\ SessionShape'
    BY <1>8 DEF CycleCommit, Asleep, SessionShape
  <2>2. Shape'
    BY <1>0, <1>8 DEF CycleCommit, Shape
  <2>3. ASSUME NEW o \in Orders, o \in cycle.filled
        PROVE  row'[o].status = "filled" /\ Len(opened'[o]) = 1 /\ opened'[o] # <<>>
    <3>1. opened[o] = <<>>
      BY <1>0, <2>1, <2>3 DEF Seen, Unfilled
    <3>2. opened'[o] = Append(<<>>, Margin(o))
      BY <1>8, <2>3, <3>1 DEF CycleCommit
    <3>3. row'[o] = [row[o] EXCEPT !.status = "filled"]
      BY <1>8, <2>3 DEF CycleCommit
    <3>4. row'[o].status = "filled"
      BY <1>0, <3>3 DEF Shape
    <3> QED BY <3>2, <3>4, OneAppended
  <2>4. ASSUME NEW o \in Orders, o \notin cycle.filled, o \in cycle.rejected
        PROVE  row'[o].status = "rejected" /\ opened'[o] = <<>>
    <3>1. opened[o] = <<>>
      BY <1>0, <2>1, <2>4 DEF Seen, Unfilled
    <3> QED BY <1>0, <1>8, <2>4, <3>1 DEF CycleCommit, Shape
  <2>5. ASSUME NEW o \in Orders, o \notin cycle.filled, o \notin cycle.rejected
        PROVE  Same(o)
    BY <1>8, <2>5 DEF CycleCommit, Same
  <2>6. OneFill'
    <3> SUFFICES ASSUME NEW o \in Orders
        PROVE  /\ Len(opened'[o]) <= 1
               /\ row'[o].status = "filled" => opened'[o] # <<>>
               /\ opened'[o] # <<>> => row'[o].status \in {"filled", "cancelled"}
      BY DEF OneFill
    <3>1. CASE o \in cycle.filled
      <4>1. row'[o].status = "filled" /\ Len(opened'[o]) = 1 /\ opened'[o] # <<>>
        BY <2>3, <3>1
      <4>2. Len(opened'[o]) <= 1
        BY <4>1
      <4> QED BY <4>1, <4>2
    <3>2. CASE o \notin cycle.filled /\ o \in cycle.rejected
      BY <2>4, <3>2
    <3>3. CASE o \notin cycle.filled /\ o \notin cycle.rejected
      BY <1>0, <2>5, <3>3 DEF OneFill, Same
    <3> QED BY <3>1, <3>2, <3>3
  <2>7. Targets'
    BY <1>0, <1>8 DEF Targets, CycleCommit
  <2> QED BY <2>1, <2>2, <2>6, <2>7 DEF FillInv
<1>9. CASE CycleFails
  <2>1. Shape' /\ \A o \in Orders : Same(o)
    BY <1>0, <1>9 DEF CycleFails, Shape, Same
  <2>2. SessionShape' /\ ~cycle'.on
    BY <1>9 DEF CycleFails, SessionShape, Asleep
  <2>3. Targets'
    BY <1>0, <1>9 DEF Targets, CycleFails
  <2> QED BY <2>1, <2>2, <2>3, SameKeeps
<1>10. CASE Quoted \/ UNCHANGED vars
  <2>1. UNCHANGED <<row, opened, cycle, job>>
    BY <1>10 DEF Quoted, vars
  <2>2. Targets'
    BY <1>0, <2>1 DEF Targets
  <2> QED BY <2>1, <2>2, JobKeeps
<1> QED
  BY <1>1, <1>2, <1>3, <1>4, <1>5, <1>6, <1>7, <1>8, <1>9, <1>10
  DEF Next, Request, Engine

\* However requests, cycles and failed cycles interleave, an order opens one
\* position at most, and is filled or was being cancelled when it did.
THEOREM OneFillHolds == Spec => []OneFill
<1>1. FillInv => OneFill
  BY DEF FillInv
<1> QED BY FillInit, FillNext, <1>1, PTL DEF Spec
-----------------------------------------------------------------------------
(* The cap.                                                                *)

\* Who places an order holds the account's lock, so nobody else is about to
\* insert one, and what it counted under the lock still holds.
CapInv ==
  /\ Shape
  /\ Targets
  /\ \A r \in Requests : job[r].op = "place" => lock = r
  /\ \A r \in Requests : job[r] = [op |-> "place", at |-> "counted"] =>
                           Cardinality(Pending) < MaxPending
  /\ PendingCapped

LEMMA FinitePending ==
  /\ IsFiniteSet(Pending) /\ Cardinality(Pending) \in Nat /\ MaxPending \in Nat
BY TablesAreFinite, AmountsAreNatural, FS_Subset, FS_CardinalityType DEF Pending

LEMMA CapInit == Init => CapInv
<1> SUFFICES ASSUME Init PROVE CapInv
  OBVIOUS
<1>1. Pending = {}
  BY DEF Init, Pending
<1>2. Cardinality(Pending) = 0
  BY <1>1, FS_EmptySet
<1>3. PendingCapped
  BY <1>2, FinitePending DEF PendingCapped
<1> QED BY <1>3 DEF Init, CapInv, Shape, Idle, Targets

\* A step that adds no pending order and begins no placement keeps the cap.
LEMMA FewerKeeps ==
  ASSUME CapInv, Shape', Pending' \subseteq Pending, lock' = lock,
         Targets',
         \A r \in Requests : job'[r].op = "place" => job'[r] = job[r]
  PROVE  CapInv'
<1>1. Cardinality(Pending') <= Cardinality(Pending) /\ Cardinality(Pending') \in Nat
  BY FinitePending, FS_Subset, FS_CardinalityType
<1>2. PendingCapped'
  BY <1>1, FinitePending DEF CapInv, PendingCapped
<1>3. \A r \in Requests : job'[r].op = "place" => lock' = r
  BY DEF CapInv
<1>4. ASSUME NEW r \in Requests, job'[r] = [op |-> "place", at |-> "counted"]
      PROVE  Cardinality(Pending') < MaxPending
  <2>1. job[r] = [op |-> "place", at |-> "counted"]
    BY <1>4
  <2>2. Cardinality(Pending) < MaxPending
    BY <2>1 DEF CapInv
  <2> QED BY <2>2, <1>1, FinitePending
<1> QED BY <1>2, <1>3, <1>4 DEF CapInv

LEMMA CapNext == CapInv /\ [Next]_vars => CapInv'
<1> SUFFICES ASSUME CapInv, [Next]_vars PROVE CapInv'
  OBVIOUS
<1>0. /\ Shape /\ Targets /\ PendingCapped
      /\ \A r \in Requests : job[r].op = "place" => lock = r
      /\ \A r \in Requests : job[r] = [op |-> "place", at |-> "counted"] =>
                               Cardinality(Pending) < MaxPending
  BY DEF CapInv
<1>1. ASSUME NEW r \in Requests, PlaceLock(r) PROVE CapInv'
  <2>1. Shape' /\ Pending' = Pending
    BY <1>0, <1>1 DEF PlaceLock, Shape, Pending
  <2>2. job' = [job EXCEPT ![r] = [op |-> "place", at |-> "locked"]] /\ lock' = r
    BY <1>1 DEF PlaceLock
  <2>3. \A q \in Requests : job[q].op # "place"
    BY <1>0, <1>1, TablesAreFinite DEF PlaceLock, Nobody
  <2>4. \A q \in Requests : job'[q].op = "place" => q = r
    BY <1>0, <2>2, <2>3 DEF Targets
  <2>5. \A q \in Requests : job'[q] # [op |-> "place", at |-> "counted"]
    <3>1. job'[r].at = "locked"
      BY <1>0, <2>2 DEF Targets
    <3> QED BY <3>1, <2>4
  <2>6. Targets'
    BY <1>0, <2>2 DEF Targets, Idle
  <2> QED BY <1>0, <2>1, <2>2, <2>4, <2>5, <2>6 DEF CapInv, PendingCapped
<1>2. ASSUME NEW r \in Requests, PlaceCount(r) PROVE CapInv'
  <2>1. Shape' /\ Pending' = Pending
    BY <1>0, <1>2 DEF PlaceCount, Shape, Pending
  <2>2. /\ job' = [job EXCEPT ![r] = [op |-> "place", at |-> "counted"]] /\ lock' = lock
        /\ Cardinality(Pending) < MaxPending
    BY <1>2 DEF PlaceCount
  <2>3. job[r].op = "place"
    BY <1>2 DEF PlaceCount
  <2>4. \A q \in Requests : job'[q].op = "place" => lock' = q
    BY <1>0, <2>2, <2>3 DEF Targets
  <2>5. Targets'
    BY <1>0, <2>2 DEF Targets, Idle
  <2> QED BY <1>0, <2>1, <2>2, <2>4, <2>5 DEF CapInv, PendingCapped
<1>3. ASSUME NEW r \in Requests, PlaceRefused(r) PROVE CapInv'
  <2>1. Shape' /\ Pending' = Pending
    BY <1>0, <1>3 DEF PlaceRefused, Shape, Pending
  <2>2. job' = [job EXCEPT ![r] = Idle] /\ job[r].op = "place"
    BY <1>3 DEF PlaceRefused
  <2>3. \A q \in Requests : job'[q].op # "place"
    BY <1>0, <2>2 DEF Idle, Targets
  <2>4. Targets'
    BY <1>0, <2>2 DEF Targets, Idle
  <2>5. \A q \in Requests : job'[q] # [op |-> "place", at |-> "counted"]
    BY <2>3
  <2> QED BY <1>0, <2>1, <2>3, <2>4, <2>5 DEF CapInv, PendingCapped
<1>4. ASSUME NEW r \in Requests, PlaceCommit(r) PROVE CapInv'
  <2> PICK k \in Orders, t \in Terms :
        row' = [row EXCEPT ![k] = [status |-> "pending", terms |-> t]]
    BY <1>4 DEF PlaceCommit
  <2>1. Shape' /\ Pending' \subseteq Pending \cup {k}
    BY <1>0, <1>4 DEF PlaceCommit, Shape, Pending
  <2>2. job' = [job EXCEPT ![r] = Idle] /\ job[r] = [op |-> "place", at |-> "counted"]
    BY <1>4 DEF PlaceCommit
  <2>3. \A q \in Requests : job'[q].op # "place"
    BY <1>0, <2>2 DEF Idle, Targets
  <2>4. Targets'
    BY <1>0, <2>2 DEF Targets, Idle
  <2>5. Cardinality(Pending) < MaxPending
    BY <1>0, <2>2
  <2>6. /\ IsFiniteSet(Pending \cup {k})
        /\ Cardinality(Pending \cup {k}) \in Nat
        /\ Cardinality(Pending \cup {k}) <= Cardinality(Pending) + 1
    <3>1. CASE k \in Pending
      <4>1. Pending \cup {k} = Pending
        BY <3>1
      <4>2. Cardinality(Pending) <= Cardinality(Pending) + 1
        BY FinitePending
      <4> QED BY <4>1, <4>2, FinitePending
    <3>2. CASE k \notin Pending
      BY <3>2, FinitePending, FS_AddElement
    <3> QED BY <3>1, <3>2
  <2>7. Cardinality(Pending') <= Cardinality(Pending \cup {k}) /\ Cardinality(Pending') \in Nat
    BY <2>1, <2>6, FS_Subset, FS_CardinalityType
  <2>8. PendingCapped'
    BY <2>5, <2>6, <2>7, FinitePending DEF PendingCapped
  <2>9. \A q \in Requests : job'[q] # [op |-> "place", at |-> "counted"]
    BY <2>3
  <2> QED BY <2>1, <2>3, <2>4, <2>8, <2>9 DEF CapInv
<1>5. ASSUME NEW r \in Requests, ModifyLoad(r) \/ CancelLoad(r) PROVE CapInv'
  <2>1. Shape' /\ Pending' = Pending /\ lock' = lock
    BY <1>0, <1>5 DEF ModifyLoad, CancelLoad, Shape, Pending
  <2>2. /\ Targets'
        /\ \A q \in Requests : job'[q].op = "place" => job'[q] = job[q]
    BY <1>0, <1>5 DEF ModifyLoad, CancelLoad, Targets, Pending
  <2> QED BY <2>1, <2>2, FewerKeeps
<1>6. ASSUME NEW r \in Requests, ModifyCommit(r) PROVE CapInv'
  <2>1. lock' = lock /\ \A q \in Requests : job'[q].op = "place" => job'[q] = job[q]
    BY <1>0, <1>6 DEF ModifyCommit, Targets, Idle
  <2>2. Shape' /\ Targets' /\ \A o \in Orders : Same(o)
    BY <1>0, <1>6, ModifySame
  <2>3. Pending' = Pending
    BY <2>2 DEF Pending, Same
  <2> QED BY <2>1, <2>2, <2>3, FewerKeeps
<1>9. ASSUME NEW r \in Requests, CancelCommit(r) PROVE CapInv'
  <2>1. lock' = lock /\ \A q \in Requests : job'[q].op = "place" => job'[q] = job[q]
    BY <1>0, <1>9 DEF CancelCommit, Targets, Idle
  <2>2. job[r].order \in Orders /\ Targets'
    BY <1>0, <1>9 DEF CancelCommit, Targets, Idle
  <2>3. Shape' /\ Pending' \subseteq Pending
    BY <1>0, <1>9, <2>2 DEF CancelCommit, Shape, Pending
  <2> QED BY <2>1, <2>2, <2>3, FewerKeeps
<1>7. CASE CycleCommit
  <2>1. lock' = lock /\ job' = job
    BY <1>7 DEF CycleCommit
  <2>2. Shape' /\ Pending' \subseteq Pending
    BY <1>0, <1>7 DEF CycleCommit, Shape, Pending
  <2>3. Targets'
    BY <1>0, <2>1 DEF Targets
  <2> QED BY <2>1, <2>2, <2>3, FewerKeeps
<1>8. CASE CycleSelect \/ CycleStep \/ CycleFails \/ Quoted \/ UNCHANGED vars
  <2>1. UNCHANGED <<row, opened, lock, job>>
    BY <1>8 DEF CycleSelect, CycleStep, CycleFails, Quoted, vars
  <2>2. Shape' /\ Pending' = Pending
    BY <1>0, <2>1 DEF Shape, Pending
  <2>3. Targets'
    BY <1>0, <2>1 DEF Targets
  <2> QED BY <2>1, <2>2, <2>3, FewerKeeps
<1> QED
  BY <1>1, <1>2, <1>3, <1>4, <1>5, <1>6, <1>7, <1>8, <1>9 DEF Next, Request, Engine

\* However many requests place, modify and cancel at once, the account never
\* holds more than max_pending_orders pending orders.
THEOREM PendingCappedHolds == Spec => []PendingCapped
<1>1. CapInv => PendingCapped
  BY DEF CapInv
<1> QED BY CapInit, CapNext, <1>1, PTL DEF Spec

-----------------------------------------------------------------------------
(***************************************************************************)
(* A cancel that was answered. Between two cycles of the engine, and later *)
(* in any cycle that selected the orders after it, a cancelled order       *)
(* without a position is not among those the engine works on.              *)
(***************************************************************************)

Dead(o) == row[o].status = "cancelled" /\ opened[o] = <<>>

Gone(o) == Dead(o) /\ (cycle.on => o \notin Seen)

LEMMA RequestsLeaveGone ==
  ASSUME FillInv, NEW o \in Orders, Gone(o), NEW r \in Requests, Request(r)
  PROVE  Gone(o)'
<1>1. opened' = opened /\ cycle' = cycle /\ Seen' = Seen
  BY DEF Request, PlaceLock, PlaceCount, PlaceRefused, PlaceCommit, ModifyLoad, ModifyCommit,
         CancelLoad, CancelCommit, Seen
<1>2. row'[o].status = "cancelled"
  <2>1. CASE row' = row
    BY <2>1 DEF Gone, Dead
  <2>2. CASE PlaceCommit(r)
    BY <2>2 DEF PlaceCommit, Gone, Dead, FillInv, Shape
  <2>3. CASE ModifyCommit(r)
    <3>1. Shape /\ Targets
      BY DEF FillInv
    <3>2. Same(o)
      BY <2>3, <3>1, ModifySame
    <3> QED
      BY <3>2 DEF Gone, Dead, Same
  <2>4. CASE CancelCommit(r)
    <3>1. CASE job[r].order = o
      BY <2>4, <3>1 DEF CancelCommit, FillInv, Shape
    <3>2. CASE job[r].order # o
      BY <2>4, <3>2 DEF CancelCommit, Gone, Dead, FillInv, Shape
    <3> QED
      BY <3>1, <3>2
  <2> QED
    BY <2>1, <2>2, <2>3, <2>4
       DEF Request, PlaceLock, PlaceCount, PlaceRefused, ModifyLoad, CancelLoad
<1> QED
  BY <1>1, <1>2 DEF Gone, Dead

LEMMA GoneStays ==
  ASSUME FillInv, NEW o \in Orders, Gone(o), [Next]_vars
  PROVE  Gone(o)'
<1>1. CASE UNCHANGED vars
  BY <1>1 DEF vars, Gone, Dead, Seen
<1>2. CASE \E r \in Requests : Request(r)
  BY <1>2, RequestsLeaveGone
<1>3. CASE CycleSelect
  BY <1>3 DEF CycleSelect, Gone, Dead, Seen, Pending
<1>4. CASE CycleStep
  <2>1. cycle.on /\ cycle # Asleep /\ UNCHANGED <<row, opened>>
    BY <1>4 DEF CycleStep, Asleep
  <2>2. PICK k \in cycle.todo : Skip(k) \/ Reject(k) \/ Fill(k)
    BY <1>4 DEF CycleStep
  <2>3. Seen' \subseteq Seen
    BY <2>1, <2>2 DEF FillInv, SessionShape, Seen, Skip, Reject, Fill
  <2> QED
    BY <2>1, <2>3 DEF Gone, Dead
<1>5. CASE CycleCommit
  BY <1>5 DEF CycleCommit, Gone, Dead, Seen, Asleep
<1>6. CASE CycleFails
  BY <1>6 DEF CycleFails, Gone, Dead, Seen, Asleep
<1>7. CASE Quoted
  BY <1>7 DEF Quoted, Gone, Dead, Seen
<1> QED
  BY <1>1, <1>2, <1>3, <1>4, <1>5, <1>6, <1>7 DEF Next, Engine

\* An order whose cancel committed between two cycles stays cancelled and never
\* opens a position.
THEOREM CancelStandsHolds == Spec => CancelStands
<1>1. Spec => []FillInv
  BY FillInit, FillNext, PTL DEF Spec
<1>2. ASSUME NEW o \in Orders
      PROVE  Spec => [](Dead(o) /\ ~cycle.on => []Dead(o))
  <2>1. FillInv /\ Gone(o) /\ [Next]_vars => Gone(o)'
    BY GoneStays
  <2>2. Dead(o) /\ ~cycle.on => Gone(o)
    BY DEF Gone
  <2>3. Gone(o) => Dead(o)
    BY DEF Gone
  <2> QED
    BY <1>1, <2>1, <2>2, <2>3, PTL DEF Spec
<1> QED
  BY <1>2 DEF CancelStands, Dead

-----------------------------------------------------------------------------
(***************************************************************************)
(* Sums. FoldFunction adds the values of a function over its domain, one   *)
(* element after the other; the function on subsets that it is the value   *)
(* of exists for every finite domain, and a change of one value changes    *)
(* the sum by as much.                                                     *)
(***************************************************************************)

\* g gives the sum of f over each subset of T.
Partial(f, g, s) ==
  IF s = {} THEN 0 ELSE LET x == CHOOSE x \in s : TRUE IN f[x] + g[s \ {x}]

Sums(f, T, g) == g = [s \in SUBSET T |-> Partial(f, g, s)]

\* Of some subsets of a finite set, one has none of the others inside.
LEMMA SmallestSubset ==
  ASSUME NEW D, IsFiniteSet(D), NEW B \in SUBSET (SUBSET D), B # {}
  PROVE  \E T \in B : \A S \in B : S \subseteq T => S = T
<1>1. IsWellFoundedOn(StrictSubsetOrdering(D), SUBSET D)
  BY FS_StrictSubsetOrderingWellFounded, FS_FiniteSubsetsOfFinite
<1>2. PICK T \in B : \A S \in B : <<S, T>> \notin StrictSubsetOrdering(D)
  BY <1>1, WFMin
<1> QED BY <1>2 DEF StrictSubsetOrdering

\* What is left of a set without the element that is added first.
LEMMA OneLess ==
  ASSUME NEW s, s # {}
  PROVE  /\ (CHOOSE x \in s : TRUE) \in s
         /\ s \ {CHOOSE x \in s : TRUE} \subseteq s
         /\ s \ {CHOOSE x \in s : TRUE} # s
OBVIOUS

\* Two functions that give the sums agree where both are defined.
LEMMA SumsUnique ==
  ASSUME NEW f, NEW D, IsFiniteSet(D), NEW S, S \subseteq D, NEW T, T \subseteq D,
         NEW g, Sums(f, S, g), NEW h, Sums(f, T, h)
  PROVE  \A s \in SUBSET (S \cap T) : g[s] = h[s]
<1> DEFINE B == {s \in SUBSET (S \cap T) : g[s] # h[s]}
<1> SUFFICES ASSUME B # {} PROVE FALSE
  OBVIOUS
<1>1. PICK s \in B : \A u \in B : u \subseteq s => u = s
  <2>1. B \in SUBSET (SUBSET D)
    OBVIOUS
  <2> HIDE DEF B
  <2> QED BY <2>1, SmallestSubset
<1>2. g[s] = Partial(f, g, s) /\ h[s] = Partial(f, h, s)
  BY DEF Sums
<1>3. CASE s = {}
  BY <1>2, <1>3 DEF Partial
<1>4. CASE s # {}
  <2> DEFINE x == CHOOSE x \in s : TRUE
  <2>1. s \ {x} \subseteq s /\ s \ {x} # s
    BY <1>4, OneLess
  <2>2. g[s \ {x}] = h[s \ {x}]
    BY <1>1, <2>1
  <2> QED BY <1>2, <1>4, <2>2 DEF Partial
<1> QED BY <1>3, <1>4

\* Such a function exists: a smallest set without one would get its own from those of its
\* subsets.
LEMMA SumsExist ==
  ASSUME NEW f, NEW D, IsFiniteSet(D)
  PROVE  \E g : Sums(f, D, g)
<1> DEFINE B == {T \in SUBSET D : \A g : ~Sums(f, T, g)}
<1>1. B = {}
  <2> SUFFICES ASSUME B # {} PROVE FALSE
    OBVIOUS
  <2>1. PICK T \in B : \A S \in B : S \subseteq T => S = T
    <3>1. B \in SUBSET (SUBSET D)
      OBVIOUS
    <3> HIDE DEF B
    <3> QED BY <3>1, SmallestSubset
  <2> DEFINE H(s) == CHOOSE g : Sums(f, s, g)
             G == [s \in SUBSET T |-> Partial(f, [u \in SUBSET T |-> H(u)[u]], s)]
  <2>2. ASSUME NEW s \in SUBSET T, s # T PROVE Sums(f, s, H(s))
    BY <2>1, <2>2
  <2>3. ASSUME NEW s \in SUBSET T, s # T PROVE G[s] = H(s)[s]
    <3> DEFINE L == [u \in SUBSET T |-> H(u)[u]]
               h == H(s)
    <3>1. Sums(f, s, h)
      BY <2>2, <2>3
    <3>2. G[s] = Partial(f, L, s)
      OBVIOUS
    <3>3. h[s] = Partial(f, h, s)
      <4> HIDE DEF h
      <4> QED BY <3>1 DEF Sums
    <3>4. CASE s = {}
      <4> HIDE DEF h, G, L
      <4> QED BY <3>2, <3>3, <3>4 DEF Partial, h
    <3>5. CASE s # {}
      <4> DEFINE x == CHOOSE x \in s : TRUE
                 u == s \ {x}
                 k == H(u)
      <4>1. u \subseteq s /\ u # s /\ u \in SUBSET T /\ u # T
        BY <3>5, <2>3, OneLess
      <4>2. Sums(f, u, k)
        BY <4>1, <2>2
      <4>3. L[u] = k[u]
        BY <4>1
      <4>4. k[u] = h[u]
        <5> HIDE DEF h, k, u
        <5>1. u \subseteq D /\ s \subseteq D
          BY <2>1, <4>1
        <5>2. \A v \in SUBSET (u \cap s) : k[v] = h[v]
          BY <3>1, <4>2, <5>1, SumsUnique
        <5> QED BY <4>1, <5>2
      <4>5. G[s] = f[x] + L[u]
        <5> HIDE DEF h, G, L
        <5> QED BY <3>2, <3>5 DEF Partial
      <4>6. h[s] = f[x] + h[u]
        <5> HIDE DEF h, G, L
        <5> QED BY <3>3, <3>5 DEF Partial
      <4> HIDE DEF h, G, L, k, u
      <4>7. G[s] = h[s]
        BY <4>3, <4>4, <4>5, <4>6
      <4> QED BY <4>7 DEF h
    <3> QED BY <3>4, <3>5
  <2>4. ASSUME NEW s \in SUBSET T PROVE G[s] = Partial(f, G, s)
    <3> DEFINE L == [u \in SUBSET T |-> H(u)[u]]
    <3>1. G[s] = Partial(f, L, s)
      OBVIOUS
    <3>2. CASE s = {}
      <4> HIDE DEF G, L
      <4> QED BY <3>1, <3>2 DEF Partial
    <3>3. CASE s # {}
      <4> DEFINE x == CHOOSE x \in s : TRUE
                 u == s \ {x}
      <4>1. u \in SUBSET T /\ u # T
        BY <3>3, OneLess
      <4>2. L[u] = G[u]
        <5> HIDE DEF u, G
        <5>1. G[u] = H(u)[u]
          BY <2>3, <4>1
        <5> QED BY <4>1, <5>1
      <4> HIDE DEF G, L
      <4> QED BY <3>1, <3>3, <4>2 DEF Partial
    <3> QED BY <3>2, <3>3
  <2>5. Sums(f, T, G)
    <3>1. G = [s \in SUBSET T |-> G[s]]
      OBVIOUS
    <3> HIDE DEF G
    <3> QED BY <2>4, <3>1 DEF Sums
  <2> HIDE DEF G
  <2> QED BY <2>5
<1> QED BY <1>1

\* The sum of a function's values, as MarginCovered has it.
Total(f) == FoldFunction(+, 0, f)

\* FoldFunction's sum is the value of such a function.
LEMMA TotalIsSum ==
  ASSUME NEW f, IsFiniteSet(DOMAIN f)
  PROVE  \E g : Sums(f, DOMAIN f, g) /\ Total(f) = g[DOMAIN f]
<1> DEFINE D == DOMAIN f
           g == CHOOSE g : Sums(f, D, g)
<1>1. Total(f) = LET iter[s \in SUBSET D] ==
                       IF s = {} THEN 0
                       ELSE LET x == CHOOSE x \in s : TRUE IN f[x] + iter[s \ {x}]
                 IN  iter[D]
  BY DEF Total, FoldFunction, FoldFunctionOnSet, MapThenFoldSet
<1>2. Total(f) = (CHOOSE h : Sums(f, D, h))[D]
  BY <1>1 DEF Sums, Partial
<1>3. Sums(f, D, g)
  BY SumsExist
<1> QED BY <1>2, <1>3

\* A sum of zeros.
LEMMA TotalZero ==
  ASSUME NEW f, IsFiniteSet(DOMAIN f), \A x \in DOMAIN f : f[x] = 0
  PROVE  Total(f) = 0
<1> DEFINE D == DOMAIN f
<1>1. PICK g : Sums(f, D, g) /\ Total(f) = g[D]
  BY TotalIsSum
<1> DEFINE B == {s \in SUBSET D : g[s] # 0}
<1>2. B = {}
  <2> SUFFICES ASSUME B # {} PROVE FALSE
    OBVIOUS
  <2>1. PICK s \in B : \A u \in B : u \subseteq s => u = s
    <3>1. B \in SUBSET (SUBSET D)
      OBVIOUS
    <3> HIDE DEF B
    <3> QED BY <3>1, SmallestSubset
  <2>2. g[s] = Partial(f, g, s)
    BY <1>1 DEF Sums
  <2>3. CASE s = {}
    BY <2>2, <2>3 DEF Partial
  <2>4. CASE s # {}
    <3> DEFINE x == CHOOSE x \in s : TRUE
    <3>1. s \ {x} \subseteq s /\ s \ {x} # s /\ x \in s
      BY <2>4, OneLess
    <3>2. g[s \ {x}] = 0 /\ f[x] = 0
      BY <2>1, <3>1
    <3>3. g[s] = f[x] + g[s \ {x}]
      BY <2>2, <2>4 DEF Partial
    <3> QED BY <3>2, <3>3
  <2> QED BY <2>3, <2>4
<1> QED BY <1>1, <1>2

\* One value changes, by an amount d.
LEMMA TotalChanged ==
  ASSUME NEW D, IsFiniteSet(D), NEW f \in [D -> Int], NEW o \in D, NEW d \in Int
  PROVE  Total([f EXCEPT ![o] = @ + d]) = Total(f) + d /\ Total(f) \in Int
<1> DEFINE h == [f EXCEPT ![o] = @ + d]
<1>0. /\ DOMAIN f = D /\ DOMAIN h = D
      /\ \A x \in D : f[x] \in Int /\ h[x] = IF x = o THEN f[x] + d ELSE f[x]
  OBVIOUS
<1> HIDE DEF h
<1>1. PICK g : Sums(f, D, g) /\ Total(f) = g[D]
  BY <1>0, TotalIsSum
<1>2. PICK k : Sums(h, D, k) /\ Total(h) = k[D]
  BY <1>0, TotalIsSum
<1> DEFINE Right(s) == g[s] \in Int /\ k[s] = IF o \in s THEN g[s] + d ELSE g[s]
           B == {s \in SUBSET D : ~Right(s)}
<1>3. B = {}
  <2> SUFFICES ASSUME B # {} PROVE FALSE
    OBVIOUS
  <2>1. PICK s \in B : \A u \in B : u \subseteq s => u = s
    <3>1. B \in SUBSET (SUBSET D)
      OBVIOUS
    <3> HIDE DEF B
    <3> QED BY <3>1, SmallestSubset
  <2>2. g[s] = Partial(f, g, s) /\ k[s] = Partial(h, k, s)
    BY <1>1, <1>2 DEF Sums
  <2>3. CASE s = {}
    BY <2>2, <2>3 DEF Partial
  <2>4. CASE s # {}
    <3> DEFINE x == CHOOSE x \in s : TRUE
               u == s \ {x}
    <3>1. u \subseteq s /\ u # s /\ x \in s /\ x \notin u /\ (o \in s <=> o = x \/ o \in u)
      BY <2>4, OneLess
    <3>2. Right(u)
      BY <2>1, <3>1
    <3>3. g[s] = f[x] + g[u] /\ k[s] = h[x] + k[u]
      BY <2>2, <2>4 DEF Partial
    <3>4. f[x] \in Int /\ h[x] = IF x = o THEN f[x] + d ELSE f[x]
      BY <1>0, <3>1
    <3> HIDE DEF x, u
    <3>5. Right(s)
      BY <3>1, <3>2, <3>3, <3>4
    <3> QED BY <3>5
  <2> QED BY <2>3, <2>4
<1>4. Right(D)
  BY <1>3
<1> QED BY <1>1, <1>2, <1>4 DEF h

-----------------------------------------------------------------------------
(***************************************************************************)
(* The free margin. What the engine's session holds is the account as it   *)
(* will be when its cycle commits: the orders it fills have no position    *)
(* yet, and will have one each.                                            *)
(***************************************************************************)

\* What the fills of one order took from the account.
Taken(lots) == FoldFunction(LAMBDA l, sum : l + Commission + sum, 0, lots)

\* The sum over no position, and over one.
LEMMA TakenNothing == Taken(<<>>) = 0
<1> DEFINE g == [s \in SUBSET {} |-> 0]
<1>1. Taken(<<>>) = LET iter[s \in SUBSET DOMAIN <<>>] ==
                          IF s = {} THEN 0
                          ELSE LET x == CHOOSE x \in s : TRUE
                               IN  <<>>[x] + Commission + iter[s \ {x}]
                    IN  iter[DOMAIN <<>>]
  BY DEF Taken, FoldFunction, FoldFunctionOnSet, MapThenFoldSet
<1>2. DOMAIN <<>> = {}
  OBVIOUS
<1> DEFINE P(h) == h = [s \in SUBSET {} |->
                         IF s = {} THEN 0
                         ELSE LET x == CHOOSE x \in s : TRUE
                              IN  <<>>[x] + Commission + h[s \ {x}]]
<1>3. Taken(<<>>) = (CHOOSE h : P(h))[{}]
  BY <1>1, <1>2
<1>4. P(g)
  OBVIOUS
<1>5. ASSUME NEW h, P(h) PROVE h[{}] = 0
  BY <1>5
<1> HIDE DEF P, g
<1> QED BY <1>3, <1>4, <1>5

LEMMA TakenOnce ==
  ASSUME NEW l \in Nat
  PROVE  Taken(<<l>>) = l + Commission
<1> DEFINE P(h) == h = [s \in SUBSET {1} |->
                         IF s = {} THEN 0
                         ELSE LET x == CHOOSE x \in s : TRUE
                              IN  <<l>>[x] + Commission + h[s \ {x}]]
           g == [s \in SUBSET {1} |-> IF s = {} THEN 0 ELSE l + Commission + 0]
<1>1. Taken(<<l>>) = LET iter[s \in SUBSET DOMAIN <<l>>] ==
                           IF s = {} THEN 0
                           ELSE LET x == CHOOSE x \in s : TRUE
                                IN  <<l>>[x] + Commission + iter[s \ {x}]
                     IN  iter[DOMAIN <<l>>]
  BY DEF Taken, FoldFunction, FoldFunctionOnSet, MapThenFoldSet
<1>2. DOMAIN <<l>> = {1} /\ <<l>>[1] = l
  OBVIOUS
<1>3. Taken(<<l>>) = (CHOOSE h : P(h))[{1}]
  BY <1>1, <1>2
<1>4. (CHOOSE x \in {1} : TRUE) = 1 /\ {1} \ {1} = {} /\ {1} # {}
  OBVIOUS
<1>5. SUBSET {1} = {{}, {1}}
  OBVIOUS
<1>6. P(g)
  BY <1>2, <1>4, <1>5
<1>7. ASSUME NEW h, P(h) PROVE h[{1}] = l + Commission + 0
  <2>1. h[{}] = 0
    BY <1>7
  <2>2. h[{1}] = <<l>>[1] + Commission + h[{}]
    BY <1>4, <1>7
  <2> QED BY <1>2, <2>1, <2>2
<1>8. Taken(<<l>>) = l + Commission + 0
  <2> HIDE DEF P, g
  <2> QED BY <1>3, <1>6, <1>7
<1> QED BY <1>8, AmountsAreNatural

\* What a position opened for the order took, or will take once the cycle commits.
Projected(o) == IF cycle.on /\ o \in cycle.filled THEN Margin(o) + Commission ELSE Booked(o)

\* Lots are natural numbers wherever they are kept.
LotsAreNatural ==
  /\ \A o \in Orders :
       "lots" \in DOMAIN row[o].terms /\ row[o].terms.lots \in Nat
  /\ \A r \in Requests : job[r].op = "modify" => job[r].lots \in Nat
  /\ \A o \in Orders : opened[o] = <<>> \/ \E l \in Nat : opened[o] = <<l>>
  /\ cycle.on => Seen \subseteq Orders /\ \A o \in Seen : Margin(o) \in Nat

\* The books, those of the session included.
MarginInv ==
  /\ FillInv
  /\ LotsAreNatural
  /\ free \in Int /\ MarginCovered
  /\ cycle.on =>
       /\ cycle.todo \cap cycle.filled = {}
       /\ cycle.free \in Int /\ cycle.free >= -Commission
       /\ cycle.free = Equity - Total([o \in Orders |-> Projected(o)])

\* MarginCovered in terms of Total, in this state and the next.
LEMMA CoveredBy ==
  MarginCovered <=> /\ free = Equity - Total([o \in Orders |-> Booked(o)])
                    /\ free >= -Commission
<1>1. FoldFunction(+, 0, [o \in Orders |-> Booked(o)]) = Total([o \in Orders |-> Booked(o)])
  BY DEF Total, FoldFunction, FoldFunctionOnSet, MapThenFoldSet
<1> QED BY <1>1 DEF MarginCovered

LEMMA CoveredNext ==
  MarginCovered' <=> /\ free' = Equity - Total([o \in Orders |-> Booked(o)'])
                     /\ free' >= -Commission
BY DEF MarginCovered, Total, FoldFunction, FoldFunctionOnSet, MapThenFoldSet

LEMMA BookedTaken ==
  ASSUME NEW o \in Orders
  PROVE  Booked(o) = Taken(opened[o]) /\ Booked(o)' = Taken(opened'[o])
BY DEF Booked, Taken, FoldFunction, FoldFunctionOnSet, MapThenFoldSet

\* The two sums have integers to add.
LEMMA BookedIsNatural ==
  ASSUME LotsAreNatural, NEW o \in Orders
  PROVE  Booked(o) \in Int /\ (opened[o] = <<>> => Booked(o) = 0)
<1>1. Booked(o) = Taken(opened[o])
  BY BookedTaken
<1>2. CASE opened[o] = <<>>
  BY <1>1, <1>2, TakenNothing
<1>3. CASE opened[o] # <<>>
  <2>1. PICK l \in Nat : opened[o] = <<l>>
    BY <1>3 DEF LotsAreNatural
  <2>2. Booked(o) = l + Commission
    BY <1>1, <2>1, TakenOnce
  <2> QED BY <1>3, <2>2, AmountsAreNatural
<1> QED BY <1>2, <1>3

LEMMA ProjectedIsInteger ==
  ASSUME LotsAreNatural, NEW o \in Orders
  PROVE  Projected(o) \in Int
<1>1. CASE cycle.on /\ o \in cycle.filled
  BY <1>1, AmountsAreNatural DEF Projected, LotsAreNatural, Seen
<1>2. CASE ~(cycle.on /\ o \in cycle.filled)
  BY <1>2, BookedIsNatural DEF Projected
<1> QED BY <1>1, <1>2

LEMMA MarginInit == Init => MarginInv
<1> SUFFICES ASSUME Init PROVE MarginInv
  OBVIOUS
<1>1. LotsAreNatural
  BY DEF Init, LotsAreNatural, NoTerms, Idle, Asleep
<1>2. free = Equity /\ ~cycle.on /\ \A o \in Orders : opened[o] = <<>>
  BY DEF Init, Asleep
<1> DEFINE f == [o \in Orders |-> Booked(o)]
<1>3. Total(f) = 0
  <2>1. DOMAIN f = Orders /\ \A o \in Orders : f[o] = 0
    BY <1>1, <1>2, BookedIsNatural
  <2> HIDE DEF f
  <2> QED BY <2>1, TablesAreFinite, TotalZero
<1>4. MarginCovered
  BY <1>2, <1>3, CoveredBy, AmountsAreNatural
<1> QED BY <1>1, <1>2, <1>4, FillInit, AmountsAreNatural DEF MarginInv

\* Requests, quotes and failed cycles move no money.
LEMMA IdleKeepsMargin ==
  ASSUME MarginInv, FillInv', LotsAreNatural', UNCHANGED <<opened, free>>,
         cycle' = cycle \/ cycle' = Asleep
  PROVE  MarginInv'
<1>1. free' \in Int /\ MarginCovered'
  <2>1. \A o \in Orders : Booked(o)' = Booked(o)
    BY BookedTaken
  <2>2. [o \in Orders |-> Booked(o)'] = [o \in Orders |-> Booked(o)]
    BY <2>1
  <2> QED BY <2>2, CoveredBy, CoveredNext DEF MarginInv
<1>2. ASSUME cycle'.on
      PROVE  /\ cycle'.todo \cap cycle'.filled = {}
             /\ cycle'.free \in Int /\ cycle'.free >= -Commission
             /\ cycle'.free = Equity - Total([o \in Orders |-> Projected(o)'])
  <2>1. cycle' = cycle
    BY <1>2 DEF Asleep
  <2>2. \A o \in Orders : Projected(o)' = Projected(o)
    BY <2>1, BookedTaken DEF Projected, Margin
  <2>3. [o \in Orders |-> Projected(o)'] = [o \in Orders |-> Projected(o)]
    BY <2>2
  <2> QED BY <1>2, <2>1, <2>3 DEF MarginInv
<1> QED BY <1>1, <1>2 DEF MarginInv

\* Whatever requests write, lots stay natural numbers.
LEMMA RequestsKeepLots ==
  ASSUME FillInv, LotsAreNatural, NEW r \in Requests, Request(r)
  PROVE  LotsAreNatural'
<1> DEFINE Whole(t) == "lots" \in DOMAIN t /\ t.lots \in Nat
<1>1. UNCHANGED <<opened, cycle>>
  BY DEF Request, PlaceLock, PlaceCount, PlaceRefused, PlaceCommit, ModifyLoad, ModifyCommit,
         CancelLoad, CancelCommit
<1>2. \A o \in Orders : Whole(row'[o].terms)
  <2>1. CASE PlaceCommit(r)
    <3>1. PICK k \in Orders, t \in Terms :
            row' = [row EXCEPT ![k] = [status |-> "pending", terms |-> t]]
      BY <2>1 DEF PlaceCommit
    <3>2. Whole(t)
      <4>1. t \in [kind : Kinds, side : Sides, price : Prices, limit : Prices \cup {NoLimit},
                   lots : LotSizes]
        BY DEF Terms
      <4> QED BY <4>1, AmountsAreNatural
    <3>3. row'[k].terms = t /\ \A o \in Orders : o # k => row'[o] = row[o]
      BY <3>1 DEF FillInv, Shape
    <3> HIDE DEF Whole
    <3>4. \A o \in Orders : Whole(row[o].terms)
      BY DEF LotsAreNatural, Whole
    <3> QED BY <3>2, <3>3, <3>4
  <2>2. CASE ModifyCommit(r)
    <3> DEFINE k == job[r].order
               ts == [row[k].terms EXCEPT !.price = job[r].price, !.lots = job[r].lots]
    <3>1. k \in Orders /\ job[r].lots \in Nat /\ row' = [row EXCEPT ![k].terms = ts]
      BY <2>2 DEF ModifyCommit, FillInv, Targets, LotsAreNatural
    <3>2. Whole(row[k].terms)
      BY <3>1 DEF LotsAreNatural
    <3>3. Whole(ts)
      BY <3>1, <3>2
    <3> HIDE DEF ts, Whole
    <3>4. row'[k].terms = ts /\ \A o \in Orders : o # k => row'[o] = row[o]
      <4>1. row[k] = [status |-> row[k].status, terms |-> row[k].terms] /\ k \in DOMAIN row
        BY <3>1 DEF FillInv, Shape
      <4> QED BY <3>1, <4>1 DEF FillInv, Shape
    <3>5. \A o \in Orders : Whole(row[o].terms)
      BY DEF LotsAreNatural, Whole
    <3> QED BY <3>3, <3>4, <3>5
  <2>3. CASE CancelCommit(r)
    <3> HIDE DEF Whole
    <3>1. \A o \in Orders : row'[o].terms = row[o].terms
      BY <2>3 DEF CancelCommit, FillInv, Shape, Targets
    <3>2. \A o \in Orders : Whole(row[o].terms)
      BY DEF LotsAreNatural, Whole
    <3> QED BY <3>1, <3>2
  <2>4. CASE row' = row
    BY <2>4 DEF LotsAreNatural
  <2> QED BY <2>1, <2>2, <2>3, <2>4
          DEF Request, PlaceLock, PlaceCount, PlaceRefused, ModifyLoad, CancelLoad
<1>3. ASSUME NEW q \in Requests, job'[q].op = "modify" PROVE job'[q].lots \in Nat
  <2>1. CASE job'[q] = job[q]
    BY <1>3, <2>1 DEF LotsAreNatural
  <2>2. CASE job'[q] # job[q]
    <3>1. q = r /\ r \in DOMAIN job
      BY <2>2 DEF FillInv, Targets, Request, PlaceLock, PlaceCount, PlaceRefused, PlaceCommit, ModifyLoad,
                  ModifyCommit, CancelLoad, CancelCommit
    <3>2. ModifyLoad(r)
      BY <1>3, <3>1 DEF FillInv, Targets, Request, PlaceLock, PlaceCount, PlaceRefused, PlaceCommit,
                  ModifyCommit, CancelLoad, CancelCommit, Idle
    <3>3. \E l \in LotSizes : job'[r].lots = l
      BY <3>1, <3>2 DEF ModifyLoad
    <3> QED BY <3>1, <3>3, AmountsAreNatural
  <2> QED BY <2>1, <2>2
<1>4. Seen' = Seen /\ \A o \in Seen : Margin(o)' = Margin(o)
  BY <1>1 DEF Seen, Margin
<1> HIDE DEF Whole
<1>5. cycle'.on => Seen' \subseteq Orders /\ \A o \in Seen' : Margin(o)' \in Nat
  BY <1>1, <1>4 DEF LotsAreNatural
<1>6. \A o \in Orders : opened'[o] = <<>> \/ \E l \in Nat : opened'[o] = <<l>>
  BY <1>1 DEF LotsAreNatural
<1> QED BY <1>2, <1>3, <1>5, <1>6 DEF LotsAreNatural, Whole

\* A step of the cycle that changes no row: the session's orders keep their lots.
LEMMA CycleKeepsLots ==
  ASSUME LotsAreNatural, UNCHANGED <<row, job, opened>>,
         cycle'.on => Seen' \subseteq Orders /\ \A o \in Seen' : Margin(o)' \in Nat
  PROVE  LotsAreNatural'
<1>1. /\ \A o \in Orders : "lots" \in DOMAIN row'[o].terms /\ row'[o].terms.lots \in Nat
      /\ \A r \in Requests : job'[r].op = "modify" => job'[r].lots \in Nat
      /\ \A o \in Orders : opened'[o] = <<>> \/ \E l \in Nat : opened'[o] = <<l>>
  BY DEF LotsAreNatural
<1> QED BY <1>1 DEF LotsAreNatural

\* A session starts with the account as it is.
LEMMA SelectMargin ==
  ASSUME MarginInv, FillInv', CycleSelect
  PROVE  MarginInv'
<1>1. /\ cycle'.on /\ cycle'.free = free /\ cycle'.filled = {} /\ cycle'.rejected = {}
      /\ cycle'.todo = Pending /\ cycle'.copy = [o \in Pending |-> row[o].terms]
      /\ UNCHANGED <<row, opened, free, job>>
  BY DEF CycleSelect
<1>2. LotsAreNatural'
  <2>1. Seen' = Pending
    BY <1>1 DEF Seen
  <2>2. \A o \in Pending : Margin(o)' \in Nat
    BY <1>1 DEF Margin, MarginInv, LotsAreNatural, Pending
  <2> QED BY <1>1, <2>1, <2>2, CycleKeepsLots DEF MarginInv, Pending
<1>3. \A o \in Orders : Booked(o)' = Booked(o) /\ Projected(o)' = Booked(o)
  <2>1. \A o \in Orders : Booked(o)' = Booked(o)
    BY <1>1, BookedTaken
  <2> QED BY <1>1, <2>1 DEF Projected
<1>4. /\ [o \in Orders |-> Booked(o)'] = [o \in Orders |-> Booked(o)]
      /\ [o \in Orders |-> Projected(o)'] = [o \in Orders |-> Booked(o)]
  BY <1>3
<1>5. /\ free \in Int /\ free >= -Commission
      /\ free = Equity - Total([o \in Orders |-> Booked(o)])
  BY CoveredBy DEF MarginInv
<1>6. MarginCovered'
  BY <1>1, <1>4, <1>5, CoveredNext
<1> QED BY <1>1, <1>2, <1>4, <1>5, <1>6 DEF MarginInv

\* An order skipped or rejected is projected as before, and one that is filled takes its
\* lots and one commission.
LEMMA StepMargin ==
  ASSUME MarginInv, FillInv', CycleStep
  PROVE  MarginInv'
<1>1. /\ cycle.on /\ UNCHANGED <<row, opened, free, job>>
  BY DEF CycleStep
<1>2. PICK k \in cycle.todo : Skip(k) \/ Reject(k) \/ Fill(k)
  BY DEF CycleStep
<1>3. cycle = [on |-> TRUE, todo |-> cycle.todo, free |-> cycle.free, copy |-> cycle.copy,
               filled |-> cycle.filled, rejected |-> cycle.rejected]
  BY <1>1 DEF MarginInv, FillInv, SessionShape, Asleep
<1>4. /\ cycle'.on /\ cycle'.copy = cycle.copy /\ cycle'.todo = cycle.todo \ {k}
      /\ cycle'.rejected \subseteq cycle.rejected \cup {k}
      /\ \/ cycle'.filled = cycle.filled /\ cycle'.free = cycle.free
         \/ /\ cycle'.filled = cycle.filled \cup {k}
            /\ cycle'.free = cycle.free - Margin(k) - Commission /\ Margin(k) <= cycle.free
  <2>1. CASE Skip(k)
    <3>1. cycle' = [cycle EXCEPT !.todo = @ \ {k}]
      BY <2>1 DEF Skip
    <3> QED BY <1>3, <3>1
  <2>2. CASE Reject(k)
    <3>1. cycle' = [cycle EXCEPT !.todo = @ \ {k}, !.rejected = @ \cup {k}]
      BY <2>2 DEF Reject
    <3> QED BY <1>3, <3>1
  <2>3. CASE Fill(k)
    <3>1. /\ Margin(k) <= cycle.free
          /\ cycle' = [cycle EXCEPT !.todo = @ \ {k}, !.filled = @ \cup {k},
                                    !.free = @ - Margin(k) - Commission]
      BY <2>3 DEF Fill
    <3> HIDE DEF Margin
    <3> QED BY <1>3, <3>1
  <2> QED BY <1>2, <2>1, <2>2, <2>3
<1>5. Seen' \subseteq Seen /\ k \in Seen /\ \A o \in Seen : Margin(o)' = Margin(o)
  BY <1>1, <1>4 DEF Seen, Margin
<1>6. LotsAreNatural'
  BY <1>1, <1>5, CycleKeepsLots DEF MarginInv, LotsAreNatural
<1>7. \A o \in Orders : Booked(o)' = Booked(o)
  BY <1>1, BookedTaken
<1>8. MarginCovered'
  <2>1. [o \in Orders |-> Booked(o)'] = [o \in Orders |-> Booked(o)]
    BY <1>7
  <2> QED BY <1>1, <2>1, CoveredBy, CoveredNext DEF MarginInv
<1> DEFINE f == [o \in Orders |-> Projected(o)]
           h == [o \in Orders |-> Projected(o)']
<1>9. cycle.free \in Int /\ cycle.free >= -Commission /\ cycle.free = Equity - Total(f)
  BY <1>1 DEF MarginInv
<1>10. CASE cycle'.filled = cycle.filled /\ cycle'.free = cycle.free
  <2>1. \A o \in Orders : Projected(o)' = Projected(o)
    BY <1>1, <1>4, <1>7, <1>10 DEF Projected, Margin
  <2>2. h = f
    BY <2>1
  <2> HIDE DEF f, h
  <2>3. cycle'.free = Equity - Total(h)
    BY <1>9, <1>10, <2>2
  <2>4. cycle'.todo \cap cycle'.filled = {}
    BY <1>1, <1>4, <1>10 DEF MarginInv
  <2> QED BY <1>1, <1>6, <1>8, <1>9, <1>10, <2>3, <2>4 DEF MarginInv, h
<1>11. CASE /\ cycle'.filled = cycle.filled \cup {k}
            /\ cycle'.free = cycle.free - Margin(k) - Commission /\ Margin(k) <= cycle.free
  <2>1. k \in Orders /\ Margin(k) \in Nat
    BY <1>1, <1>5 DEF MarginInv, LotsAreNatural
  <2>2. ASSUME NEW o \in Orders, o # k PROVE Projected(o)' = Projected(o)
    BY <1>1, <1>4, <1>7, <1>11, <2>2 DEF Projected, Margin
  <2>3. opened[k] = <<>>
    BY <1>1, <1>5, <2>1 DEF MarginInv, FillInv, Unfilled
  <2>4. Projected(k)' = Margin(k) + Commission
    BY <1>4, <1>5, <1>11 DEF Projected
  <2>5. k \notin cycle.filled /\ cycle'.todo \cap cycle'.filled = {}
    BY <1>1, <1>2, <1>4, <1>11 DEF MarginInv
  <2>6. Projected(k) = 0
    BY <2>1, <2>3, <2>5, BookedIsNatural DEF Projected, MarginInv
  <2> DEFINE d == Margin(k) + Commission
  <2>7. d \in Int
    BY <2>1, AmountsAreNatural
  <2>8. \A o \in Orders : f[o] \in Int
    BY ProjectedIsInteger DEF MarginInv
  <2>9. h[k] = f[k] + d
    BY <2>1, <2>4, <2>6, <2>7
  <2>10. h = [f EXCEPT ![k] = @ + d]
    BY <2>2, <2>9
  <2>11. f \in [Orders -> Int]
    BY <2>8
  <2>12. Total(h) = Total(f) + d /\ Total(f) \in Int
    <3> HIDE DEF f, h, d
    <3> QED BY <2>1, <2>7, <2>10, <2>11, TablesAreFinite, TotalChanged
  <2>13. cycle'.free = Equity - Total(h) /\ cycle'.free >= -Commission /\ cycle'.free \in Int
    <3> HIDE DEF f, h
    <3> QED BY <1>9, <1>11, <2>1, <2>12, AmountsAreNatural
  <2> HIDE DEF f, h
  <2> QED BY <1>1, <1>6, <1>8, <2>5, <2>13 DEF MarginInv, h
<1> QED BY <1>4, <1>10, <1>11

\* The commit makes of every order what the session projected for it.
LEMMA CommitMargin ==
  ASSUME MarginInv, FillInv', CycleCommit
  PROVE  MarginInv'
<1>1. /\ cycle.on /\ cycle.todo = {} /\ free' = cycle.free /\ job' = job /\ ~cycle'.on
      /\ opened' = [o \in Orders |-> IF o \in cycle.filled
                                      THEN Append(opened[o], Margin(o)) ELSE opened[o]]
  BY DEF CycleCommit, Asleep
<1>2. ASSUME NEW o \in Orders, o \in cycle.filled
      PROVE  Margin(o) \in Nat /\ opened'[o] = <<Margin(o)>>
  <2>1. o \in Seen
    BY <1>1, <1>2 DEF Seen
  <2>2. Margin(o) \in Nat
    BY <1>1, <2>1 DEF MarginInv, LotsAreNatural
  <2>3. opened[o] = <<>>
    BY <1>1, <2>1 DEF MarginInv, FillInv, Unfilled
  <2> HIDE DEF Margin
  <2>4. opened'[o] = Append(<<>>, Margin(o))
    BY <1>1, <1>2, <2>3
  <2> QED BY <2>2, <2>4
<1>3. ASSUME NEW o \in Orders, o \notin cycle.filled PROVE opened'[o] = opened[o]
  BY <1>1, <1>3
<1>4. LotsAreNatural'
  <2>1. \A o \in Orders : opened'[o] = <<>> \/ \E l \in Nat : opened'[o] = <<l>>
    BY <1>2, <1>3 DEF MarginInv, LotsAreNatural
  <2>2. ASSUME NEW o \in Orders PROVE row'[o].terms = row[o].terms
    BY DEF CycleCommit, MarginInv, FillInv, Shape
  <2>3. \A o \in Orders : "lots" \in DOMAIN row'[o].terms /\ row'[o].terms.lots \in Nat
    BY <2>2 DEF MarginInv, LotsAreNatural
  <2>4. \A r \in Requests : job'[r].op = "modify" => job'[r].lots \in Nat
    BY <1>1 DEF MarginInv, LotsAreNatural
  <2> QED BY <1>1, <2>1, <2>3, <2>4 DEF LotsAreNatural
<1>5. ASSUME NEW o \in Orders PROVE Booked(o)' = Projected(o)
  <2>1. CASE o \in cycle.filled
    <3>1. Taken(opened'[o]) = Margin(o) + Commission
      BY <1>2, <2>1, TakenOnce
    <3> QED BY <1>1, <2>1, <3>1, BookedTaken DEF Projected
  <2>2. CASE o \notin cycle.filled
    BY <1>3, <2>2, BookedTaken DEF Projected
  <2> QED BY <2>1, <2>2
<1>6. [o \in Orders |-> Booked(o)'] = [o \in Orders |-> Projected(o)]
  BY <1>5
<1>7. MarginCovered' /\ free' \in Int
  BY <1>1, <1>6, CoveredNext DEF MarginInv
<1> QED BY <1>1, <1>4, <1>7 DEF MarginInv

LEMMA MarginNext == MarginInv /\ [Next]_vars => MarginInv'
<1> SUFFICES ASSUME MarginInv, [Next]_vars PROVE MarginInv'
  OBVIOUS
<1>1. FillInv'
  BY FillNext DEF MarginInv
<1>2. ASSUME NEW r \in Requests, Request(r) PROVE MarginInv'
  <2>1. LotsAreNatural'
    BY <1>2, RequestsKeepLots DEF MarginInv
  <2>2. UNCHANGED <<opened, free, cycle>>
    BY <1>2 DEF Request, PlaceLock, PlaceCount, PlaceRefused, PlaceCommit, ModifyLoad,
                ModifyCommit, CancelLoad, CancelCommit
  <2> QED BY <1>1, <2>1, <2>2, IdleKeepsMargin
<1>3. CASE CycleFails \/ Quoted \/ UNCHANGED vars
  <2>1. UNCHANGED <<row, job, opened, free>> /\ (cycle' = cycle \/ cycle' = Asleep)
    BY <1>3 DEF CycleFails, Quoted, vars
  <2>2. cycle'.on => Seen' \subseteq Orders /\ \A o \in Seen' : Margin(o)' \in Nat
    BY <2>1 DEF Asleep, Seen, Margin, MarginInv, LotsAreNatural
  <2>3. LotsAreNatural'
    BY <2>1, <2>2, CycleKeepsLots DEF MarginInv
  <2> QED BY <1>1, <2>1, <2>3, IdleKeepsMargin
<1> QED
  BY <1>1, <1>2, <1>3, SelectMargin, StepMargin, CommitMargin DEF Next, Engine

\* For any number of orders and requests, and whatever cycles fail, the free margin is what
\* the positions opened left of it, and is overdrawn by one commission at most.
THEOREM MarginCoveredHolds == Spec => []MarginCovered
<1>1. MarginInv => MarginCovered
  BY DEF MarginInv
<1> QED BY MarginInit, MarginNext, <1>1, PTL DEF Spec
=============================================================================

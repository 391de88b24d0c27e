--------------------------- MODULE OptimisticRows ---------------------------
(***************************************************************************)
(* The open positions a terminal displays. A market order shows a row      *)
(* before the server knows of it, a close takes one away before the server *)
(* agreed; polls, answers and push events then correct the list, in any    *)
(* order, and any of them may be lost.                                     *)
(*                                                                         *)
(* A GET is sent and answered in one step and delivered in a later one, so *)
(* what it brings may be out of date.                                      *)
(*                                                                         *)
(* Abstractions. One account, and all orders for one symbol, side and      *)
(* size: the case in which the store cannot tell positions apart. A row is *)
(* the id it goes by and the position whose data it displays. The clocks   *)
(* of client and server agree.                                             *)
(***************************************************************************)
EXTENDS Integers, Sequences, SequencesExt, FiniteSets

CONSTANTS
    MaxActs,        \* bound: the user's clicks and what happens elsewhere, together
    MaxPositions,   \* bound: positions ever opened
    MaxUnderWay     \* bound: different answers of GET /positions under way

VARIABLES
    positions,   \* the store's rows, in the order displayed
    young,       \* what was created less than five seconds ago, oldest first
    acts,        \* the user's clicks, and what happened elsewhere, so far
    requests,    \* POSTs under way
    answers,     \* answers of GET /positions under way
    events,      \* positions whose closing is on its way to the trade socket
    opened,      \* positions the server ever opened
    open         \* those still open

vars == <<positions, young, acts, requests, answers, events, opened, open>>

Ids == 1..MaxPositions
Tokens == {-k : k \in 1..MaxActs}      \* optim-... ids, one for each order
NoData == 0                              \* a row that only says what was ordered

Rows == [name : Ids \union Tokens, of : Ids \union {NoData}]
IsOptimistic(r) == r.name < 0

\* A POST, how it was sent, the rows of before, the positions or the token it is about,
\* the ids the server confirmed, and what the client and the server know of it.
Requests == [name : Tokens, kind : {"market", "close"}, by : {"store", "bare", "panel", "toolbox"},
             prev : Seq(Rows), targets : SUBSET (Ids \union Tokens), ok : SUBSET Ids,
             heard : BOOLEAN]

TypeOK ==
    /\ positions \in Seq(Rows)
    /\ young \in Seq(Ids \union Tokens)
    /\ acts \in 0..MaxActs
    /\ requests \subseteq Requests
    /\ answers \subseteq SUBSET Ids
    /\ events \subseteq Ids
    /\ opened \in 0..MaxPositions
    /\ open \subseteq 1..opened

Init ==
    /\ opened \in 0..MaxPositions
    /\ open = 1..opened
    /\ positions = <<>>
    /\ young = <<>>
    /\ acts = 0
    /\ requests = {}
    /\ answers = {}
    /\ events = {}

-----------------------------------------------------------------------------
(* The merge of a server answer with the rows on screen. *)

\* The rows of an answer: the open positions, newest first.
Snapshot(ids) ==
    LET newest[n \in 0..MaxPositions] ==
            IF n = 0 THEN <<>>
            ELSE IF n \in ids THEN <<[name |-> n, of |-> n]>> \o newest[n - 1]
            ELSE newest[n - 1]
    IN  newest[MaxPositions]

\* The rows displayed that are among good, in the order displayed.
Kept(good) ==
    LET kept[n \in 0..Len(positions)] ==
            IF n = 0 THEN <<>>
            ELSE IF positions[n] \in good THEN Append(kept[n - 1], positions[n])
            ELSE kept[n - 1]
    IN  kept[Len(positions)]

Without(names) == Kept({r \in Rows : r.name \notin names})

\* Variant of Fresh: an optimistic row never goes out of date.
FreshForever(r) == TRUE

\* The row's created_at, of the order or of the position read, is under five seconds old.
Fresh(r) == \E i \in DOMAIN young : young[i] = (IF r.of = NoData THEN r.name ELSE r.of)

\* Each position of the answer takes over the name of the first fresh optimistic row
\* that is left; the optimistic rows no position matched stay on top.
Merged(ids) ==
    LET rows == Snapshot(ids)
        fresh == Kept({r \in Rows : IsOptimistic(r) /\ Fresh(r)})
        matched == IF Len(rows) < Len(fresh) THEN Len(rows) ELSE Len(fresh)
    IN  SubSeq(fresh, matched + 1, Len(fresh))
            \o [i \in DOMAIN rows |->
                    IF i <= matched THEN [rows[i] EXCEPT !.name = fresh[i].name] ELSE rows[i]]

\* Variant of Merged: an optimistic row that a position matched stays as well.
MergedTwice(ids) ==
    LET rows == Snapshot(ids)
        fresh == Kept({r \in Rows : IsOptimistic(r) /\ Fresh(r)})
    IN  fresh \o [i \in DOMAIN rows |->
            IF i <= Len(fresh) THEN [rows[i] EXCEPT !.name = fresh[i].name] ELSE rows[i]]

\* GET /positions is sent and answered, or is lost.
Ask == answers' = IF Cardinality(answers \union {open}) > MaxUnderWay THEN answers
                  ELSE answers \union {open}

\* positionPoll, a refresh button, a tab that becomes visible, an event that only asks
\* for a refresh, the click on Close of a row that still settles.
Poll ==
    /\ Ask
    /\ UNCHANGED <<positions, young, acts, requests, events, opened, open>>

PositionsAnswered(ids) ==
    /\ ids \in answers
    /\ answers' = answers \ {ids}
    /\ positions' = Merged(ids)
    /\ UNCHANGED <<young, acts, requests, events, opened, open>>

\* A GET fails: the rows stay as they are.
AnswerLost(ids) ==
    /\ ids \in answers
    /\ answers' = answers \ {ids}
    /\ UNCHANGED <<positions, young, acts, requests, events, opened, open>>

FiveSecondsPass ==
    /\ young # <<>>
    /\ young' = Tail(young)
    /\ UNCHANGED <<positions, acts, requests, answers, events, opened, open>>

-----------------------------------------------------------------------------
(* Clicks. *)

Acts == acts < MaxActs /\ acts' = acts + 1

Sends(kind, by, prev, targets) ==
    /\ Acts
    /\ requests' = requests \union
          {[name |-> -(acts + 1), kind |-> kind, by |-> by, prev |-> prev,
            targets |-> targets, ok |-> {}, heard |-> FALSE]}

\* A market order, by the store's placeOrder or the order panel's own.  The store shows
\* no row ("bare") while it has no price.
PlaceMarket(by) ==
    /\ Sends("market", by, IF by = "bare" THEN <<>> ELSE positions, {-(acts + 1)})
    /\ IF by = "bare"
       THEN UNCHANGED <<positions, young>>
       ELSE /\ positions' = <<[name |-> -(acts + 1), of |-> NoData]>> \o positions
            /\ young' = Append(young, -(acts + 1))
    /\ UNCHANGED <<answers, events, opened, open>>

\* A full close: the row goes at once.  The toolbox sends an optimistic row's token, too.
Close(r, by) ==
    /\ IsOptimistic(r) => by = "toolbox"
    /\ Sends("close", "panel", <<>>, {r.name})
    /\ positions' = Without({r.name})
    /\ UNCHANGED <<young, answers, events, opened, open>>

\* Close all, the profitable or the losing ones, in parallel: rows with a real id only,
\* and they stay until the server confirms.
BulkClose(names) ==
    /\ names # {}
    /\ names \subseteq {positions[i].name : i \in DOMAIN positions} \intersect Ids
    /\ Sends("close", "store", <<>>, names)
    /\ UNCHANGED <<positions, young, answers, events, opened, open>>

-----------------------------------------------------------------------------
(* The server. *)

Opens ==
    /\ opened < MaxPositions
    /\ opened' = opened + 1
    /\ open' = open \union {opened + 1}
    /\ young' = Append(young, opened + 1)

\* The event of a close reaches the trade socket or is lost.
Closes(id) ==
    /\ id \in open
    /\ open' = open \ {id}
    /\ events' \in {events, events \union {id}}

\* What the client has not heard of yet it may still hear of, or not.
Confirmed(p, t, ids) ==
    requests' = (requests \ {p}) \union
        (IF p.heard THEN {} ELSE {[p EXCEPT !.targets = @ \ {t}, !.ok = @ \union ids]})

\* The server executes a request for target t.
Accept(p, t) ==
    /\ \/ p.kind = "market" /\ Opens /\ Confirmed(p, t, {opened + 1}) /\ UNCHANGED events
       \/ p.kind = "close" /\ Closes(t) /\ Confirmed(p, t, {t}) /\ UNCHANGED <<young, opened>>
    /\ UNCHANGED <<positions, acts, answers>>

\* It refuses it, or the request never gets there.
Refuse(p, t) ==
    /\ Confirmed(p, t, {})
    /\ UNCHANGED <<positions, young, acts, answers, events, opened, open>>

\* The SL/TP engine, a stop-out, a master's close or another device closes a position.
ClosedElsewhere(id) ==
    /\ Acts
    /\ Closes(id)
    /\ UNCHANGED <<positions, young, requests, answers, opened>>

\* A pending order fills, the copy engine or another device opens one.
OpenedElsewhere ==
    /\ Acts
    /\ Opens
    /\ UNCHANGED <<positions, requests, answers, events>>

-----------------------------------------------------------------------------
(* Answers to acts, and events. *)

\* The optimistic row takes the id the order's answer carries.
Promoted(name, id) ==
    [i \in DOMAIN positions |->
        IF positions[i].name = name THEN [positions[i] EXCEPT !.name = id] ELSE positions[i]]

\* What the client shows after an answer: a failed order restores the rows of before it.
AfterAnswer(p, ok) ==
    CASE p.kind = "market" /\ p.by # "bare" /\ ok = {} -> p.prev
      [] p.kind = "market" /\ p.by = "store" /\ ok # {} -> Promoted(p.name, CHOOSE id \in ok : TRUE)
      [] p.kind = "close" /\ p.by = "store" -> Without(ok)
      [] OTHER -> positions

\* The panel's order asks for no positions, nor does one that failed.
Answers(p, ok) ==
    /\ positions' = AfterAnswer(p, ok)
    /\ IF p.kind = "market" /\ (ok = {} \/ p.by = "panel") THEN UNCHANGED answers ELSE Ask

Answered(p) ==
    /\ p.targets = {}
    /\ requests' = requests \ {p}
    /\ Answers(p, p.ok)
    /\ UNCHANGED <<young, acts, events, opened, open>>

\* The client stops waiting, 8 s for a close and 60 s otherwise; the request is still on
\* its way.
GiveUp(p) ==
    /\ ~p.heard
    /\ p.targets # {}
    /\ requests' = (requests \ {p}) \union {[p EXCEPT !.heard = TRUE, !.by = "bare", !.prev = <<>>, !.ok = {}]}
    /\ Answers(p, p.ok)
    /\ UNCHANGED <<young, acts, events, opened, open>>

\* position_closed or stop_out arrives: the row goes, and a refresh is asked for.
ClosedArrives(id) ==
    /\ id \in events
    /\ events' = events \ {id}
    /\ positions' = Without({id})
    /\ Ask
    /\ UNCHANGED <<young, acts, requests, opened, open>>

-----------------------------------------------------------------------------
UserClicks ==
    \/ \E by \in {"store", "bare", "panel"} : PlaceMarket(by)
    \/ \E r \in ToSet(positions), by \in {"panel", "toolbox"} : Close(r, by)
    \/ \E names \in SUBSET Ids : BulkClose(names)

ServerStep ==
    \/ \E p \in requests : \E t \in p.targets : Accept(p, t) \/ Refuse(p, t)
    \/ \E id \in Ids : ClosedElsewhere(id)
    \/ OpenedElsewhere

AnyPositions == \E ids \in answers : PositionsAnswered(ids)

Next ==
    \/ UserClicks
    \/ ServerStep
    \/ Poll \/ AnyPositions \/ FiveSecondsPass
    \/ \E ids \in answers : AnswerLost(ids)
    \/ \E p \in requests : Answered(p) \/ GiveUp(p)
    \/ \E id \in events : ClosedArrives(id)

Spec == Init /\ [][Next]_vars

FairSpec == Spec /\ WF_vars(Poll) /\ SF_vars(AnyPositions) /\ WF_vars(FiveSecondsPass)

-----------------------------------------------------------------------------
(* Properties. *)

\* The page keeps one row of a list for each name.
OneNameEach(list) == \A i, j \in DOMAIN list : list[i].name = list[j].name => i = j

\* A row whose order may still be on its way into an answer.
Awaited(r) == r \in ToSet(positions) /\ IsOptimistic(r) /\ Fresh(r)

\* The list shows the answer, newest first, each position under its own id or the name of
\* an awaited row; above it are the awaited rows that are left; no name comes twice.
ShowsAnswer(list, ids) ==
    /\ \E top \in 0..Len(list) :
        /\ \A i \in 1..top : Awaited(list[i])
        /\ {list[i].of : i \in (top + 1)..Len(list)} = ids
        /\ \A i, j \in (top + 1)..Len(list) : i < j => list[i].of > list[j].of
        /\ \A i \in (top + 1)..Len(list) :
              \/ list[i].name = list[i].of
              \/ \E r \in Rows : Awaited(r) /\ list[i].name = r.name
    /\ OneNameEach(positions) => OneNameEach(list)

\* refreshPositions shows what it was answered, whichever rows of orders and closes it finds.
AnswersShown == [][\A ids \in answers : PositionsAnswered(ids) => ShowsAnswer(positions', ids)]_vars

\* When the clicks, and what happens elsewhere, are over, the rows are the server's open
\* positions, newest first and under their own ids: no optimistic row outlives the order
\* it stood for, a row removed by a close that failed is back, and one that an answer or a
\* restore of before a close brought back is gone.
RowsSettle == <>[](positions = Snapshot(open))
=============================================================================

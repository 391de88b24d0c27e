------------------------- MODULE SettlementPromise --------------------------
(***************************************************************************)
(* What settlement promises, whoever closes and however the sessions       *)
(* interleave: the lots of a position leave it once each, the profit of    *)
(* every lot that left was booked at that moment, and a position out of    *)
(* lots has ended, with one history row for its end.                       *)
(***************************************************************************)
EXTENDS Integers

CONSTANTS Positions, OpenLots

VARIABLES remaining, booked, ended

Init ==
    /\ remaining = [p \in Positions |-> OpenLots]
    /\ booked = [p \in Positions |-> 0]
    /\ ended = [p \in Positions |-> 0]

\* Part of a position is realised and it stays open.
Reduce(p, n) ==
    /\ n \in 1..(remaining[p] - 1)
    /\ remaining' = [remaining EXCEPT ![p] = @ - n]
    /\ booked' = [booked EXCEPT ![p] = @ + n]
    /\ UNCHANGED ended

\* All that remains of the positions in S is realised, in one transaction.
End(S) ==
    /\ \A p \in S : remaining[p] > 0
    /\ remaining' = [p \in Positions |-> IF p \in S THEN 0 ELSE remaining[p]]
    /\ booked' = [p \in Positions |-> IF p \in S THEN booked[p] + remaining[p] ELSE booked[p]]
    /\ ended' = [p \in Positions |-> IF p \in S THEN ended[p] + 1 ELSE ended[p]]

Next ==
    \/ \E p \in Positions, n \in 1..OpenLots : Reduce(p, n)
    \/ \E S \in SUBSET Positions : End(S)

vars == <<remaining, booked, ended>>

Spec == Init /\ [][Next]_vars
=============================================================================

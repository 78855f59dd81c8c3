--------------------------- MODULE MCSalesPublish ---------------------------
(* Instances of SalesPublish for TLC. *)
EXTENDS SalesPublish

CONSTANTS ba, bb, bc, bd, m1, m2, p1, p2

\* ba covers a day and is large; bb covers more but loses 80 percent against
\* ba; bc covers as much as ba and grows; bd is the only batch of another month.
MCMonthOf == [x \in Batch |-> IF x = bd THEN m2 ELSE m1]
MCReadyRows == [x \in Batch |-> CASE x = ba -> 3 [] x = bb -> 1 [] x = bc -> 4 [] x = bd -> 1]
MCReadyQty == [x \in Batch |-> CASE x = ba -> 10 [] x = bb -> 2 [] x = bc -> 12 [] x = bd -> 1]
MCDataEnd == [x \in Batch |-> CASE x = ba -> 1 [] x = bb -> 2 [] x = bc -> 1 [] x = bd -> 1]
=============================================================================

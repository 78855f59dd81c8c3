-------------------------- MODULE MCSalesDashboard --------------------------
(* Instance of SalesDashboard for TLC: the batches of MCSalesPublish. *)
EXTENDS SalesDashboard

CONSTANTS ba, bc, bd, m1, m2, p1, p2, r1

MCMonthOf == [x \in Batch |-> IF x = bd THEN m2 ELSE m1]
MCReadyRows == [x \in Batch |-> CASE x = ba -> 3 [] x = bc -> 4 [] x = bd -> 1]
MCReadyQty == [x \in Batch |-> CASE x = ba -> 10 [] x = bc -> 12 [] x = bd -> 1]
MCDataEnd == [x \in Batch |-> 1]
=============================================================================

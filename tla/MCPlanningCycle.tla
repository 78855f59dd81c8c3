-------------------------- MODULE MCPlanningCycle --------------------------
(* Constants of the run of PlanningCycle. *)
EXTENDS PlanningCycle, TLC

CONSTANTS c1, t1, t2, p1, p2, ch, n1, n2, q1, q2, actual, early, late, sa, se, sl, inc

\* An Actual of months 1 and 2, an Inventory of month 1 and a newer one of both.
MCKindOf == actual :> "ACTUAL" @@ early :> "INVENTORY" @@ late :> "INVENTORY"
MCCoverFrom == actual :> 1 @@ early :> 1 @@ late :> 1
MCCoverTo == actual :> 2 @@ early :> 1 @@ late :> 2
MCVersionOf == sa :> actual @@ se :> early @@ sl :> late
MCFrom == sa :> 1 @@ se :> 1 @@ sl :> 1
MCTo == sa :> 2 @@ se :> 1 @@ sl :> 2

\* Product p2 is only met in the Actual, channel ch only in forecasts.
MCMastersOf == sa :> {p2} @@ se :> {p1} @@ sl :> {p1} @@ inc :> {p1} @@ NoIncoming :> {}
MCFirstName == [m \in Master |-> n1]
MCSelections == {{}, {sa, se}, {sa, se, sl}}
MCLines == {[masters |-> {p1}, outside |-> TRUE], [masters |-> {p1, ch}, outside |-> FALSE]}

MCSymmetry == Permutations(Thread) \cup Permutations(Qty)
=============================================================================

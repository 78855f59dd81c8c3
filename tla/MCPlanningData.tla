--------------------------- MODULE MCPlanningData ---------------------------
(* An instance of PlanningData: two SKUs of a product and one of another,   *)
(* lots of two dates, January with a correction and February, a cycle for   *)
(* March.  Quantities are in tenths of a thousandth.                        *)
EXTENDS PlanningData, TLC

CONSTANTS s1, s2, s3, t1, t2, k1, k2,
          jan, janFix, feb, unstorable, unbalanced, sales, shipments, lee, web

Symmetric == Permutations({t1, t2}) \cup Permutations({k1, k2})

MCKindOf ==
    [s \in {jan, janFix, feb, unstorable, unbalanced, sales, shipments} |->
        CASE s = sales -> "ACTUAL" [] s = shipments -> "INCOMING" [] OTHER -> "INVENTORY"]

Ready ==
    [known |-> Sku, active |-> Sku, productOf |-> [s \in Sku |-> IF s = s3 THEN 2 ELSE 1],
     activeProduct |-> {1, 2}, customers |-> {lee}, nameOf |-> [c \in {lee} |-> lee],
     channelOf |-> [c \in {lee} |-> web]]

\* A SKU was deactivated, a customer lost its channel.
MCMasters == {Ready, [Ready EXCEPT !.active = {s1}, !.channelOf[lee] = NoChannel]}

Stock(n, s, d, w, o, r, i, e) ==
    [no |-> n, cells |-> [sku |-> s, date |-> d, warehouse |-> w, texts |-> "x",
                          opening |-> o, receipt |-> r, issue |-> i, ending |-> e]]

Month(m, rows) ==
    [complete |-> TRUE, policyVersion |-> 1, rows |-> rows, month |-> m,
     policy |-> [w \in {"main", "bond"} |->
                    IF w = "main" THEN "PLANNING_AVAILABLE" ELSE "NON_SELLABLE"]]

Sale(n, s, d, q) ==
    [no |-> n, cells |-> [sku |-> s, date |-> d, month |-> 1, qty |-> q, customer |-> lee,
                          texts |-> "x", status |-> "APPROVED"]]

Line(n, s, q, eta, entry, order, orderQty) ==
    [no |-> n, cells |-> [sku |-> s, qty |-> q, eta |-> eta, entry |-> entry,
                          order |-> order, orderQty |-> orderQty]]

MCContentOf ==
    [s \in {jan, janFix, feb, unstorable, unbalanced, sales, shipments} |->
        CASE s = jan -> Month(1, {Stock(1, s1, 1, "main", 24, Blank, 10, 14),
                                  Stock(2, s2, 2, "main", 0, 0, 0, 0),
                                  Stock(3, s2, 1, "bond", 0, 10, 0, 10),
                                  Stock(4, s2, 1, "main", 4, 0, 0, 4)})
          [] s = janFix -> Month(1, {Stock(1, s1, 1, "main", 20, 0, 20, 0),
                                     Stock(2, s2, 2, "main", 0, 10, 0, 10)})
          [] s = feb -> Month(2, {Stock(1, s1, 1, "main", 10, 0, 10, 0),
                                  Stock(2, s2, 2, "main", 0, 10, 10, 0),
                                  Stock(3, s1, 2, "main", 0, 10, 10, 0)})
          [] s = unstorable -> Month(2, {Stock(1, s1, 1, "main", 4, 4, 0, 8)})
          [] s = unbalanced -> Month(2, {Stock(1, s1, 1, "main", 10, 0, 10, 10)})
          [] s = sales -> [rows |-> {Sale(1, s1, 1, 20), Sale(2, s2, Blank, 14),
                                     Sale(3, s1, Blank, -5)}]
          [] s = shipments ->
                [rows |-> {Line(1, s1, 10, 4, Blank, 1, 20), Line(2, s1, 10, Blank, Blank, 1, Blank),
                           Line(3, s1, 20, 2, Blank, 2, Blank), Line(4, s1, 20, 3, "done", 2, Blank),
                           Line(5, s1, 10, 9, Blank, 3, Blank),
                           Line(6, s1, Blank, Blank, Blank, 3, 10),
                           Line(7, s3, 4, 3, Blank, 4, 8), Line(8, s3, 5, 2, Blank, 4, Blank)}]]
=============================================================================

--------------------------- MODULE MCImportReview ---------------------------
(* Constants of the runs of ImportReview. *)
EXTENDS ImportReview, TLC

CONSTANTS ba, bp, m1, m2, m3, o1, o2

\* Rows 1 and 2 are the Customers of ba, rows 3 and 4 the Products of bp.
MCEntityOf == [b \in Batch |-> IF b = bp THEN "PRODUCT" ELSE "CUSTOMER"]
MCBatchOf == [r \in Row |-> IF r <= 2 THEN ba ELSE bp]
MCCodeOf == [r \in Row |-> IF r \in {1, 3} THEN m1 ELSE m2]
MCNoMasters == [r \in Row |-> {}]

\* Row 1 needs channel m3; the parent of row 2 is master m3, or row 1.
MCChannel == [r \in Row |-> IF r = 1 THEN {m3} ELSE {}]
MCParentMaster == [r \in Row |-> IF r = 2 THEN {m3} ELSE {}]
MCParentRow == [r \in Row |-> IF r = 2 THEN {m1} ELSE {}]

MCSymmetry == Permutations(Operator)
=============================================================================

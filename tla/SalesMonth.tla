----------------------------- MODULE SalesMonth -----------------------------
(***************************************************************************)
(* What publishing sales actuals promises, with no transactions, locks or  *)
(* publishers in sight: every month shows the facts of one current batch,  *)
(* and a publication replaces the current batch and the visible facts in   *)
(* one step.  SalesPublish is shown to implement this specification.       *)
(***************************************************************************)
EXTENDS Integers

CONSTANTS
    Batch,      \* import batches that may ever be uploaded
    Month,      \* snapshot months
    NoBatch,    \* "no batch"
    MonthOf,    \* snapshot month of a batch
    ReadyQty,   \* quantity of a batch's candidates
    DataEnd,    \* last business day a batch covers
    DropNum, DropDen   \* a drop of DropNum/DropDen or more needs approval

VARIABLES
    available,  \* batches whose preview is stored
    current,    \* current batch of each month, or NoBatch
    visible,    \* batches whose candidates are the month's facts
    retired,    \* batches that were current once and have been replaced
    approved    \* <<replaced, replacing>> pairs a user approved

vars == <<available, current, visible, retired, approved>>

BigDrop(old, new) ==
    /\ ReadyQty[old] > 0
    /\ (ReadyQty[old] - ReadyQty[new]) * DropDen >= DropNum * ReadyQty[old]

Init ==
    /\ available = {}
    /\ current = [m \in Month |-> NoBatch]
    /\ visible = [m \in Month |-> {}]
    /\ retired = {}
    /\ approved = {}

Upload(b) ==
    /\ b \notin available
    /\ available' = available \cup {b}
    /\ UNCHANGED <<current, visible, retired, approved>>

\* The first snapshot of a month: nothing to compare with.
PublishFirst(b) ==
    /\ b \in available
    /\ current[MonthOf[b]] = NoBatch
    /\ current' = [current EXCEPT ![MonthOf[b]] = b]
    /\ visible' = [visible EXCEPT ![MonthOf[b]] = {b}]
    /\ UNCHANGED <<available, retired, approved>>

\* A later snapshot covers at least as many days as the one it replaces, and
\* an abnormal drop is approved for exactly the pair it was measured on.
PublishNext(b) ==
    LET old == current[MonthOf[b]] IN
    /\ b \in available \ retired
    /\ old \notin {NoBatch, b}
    /\ DataEnd[b] >= DataEnd[old]
    /\ current' = [current EXCEPT ![MonthOf[b]] = b]
    /\ visible' = [visible EXCEPT ![MonthOf[b]] = {b}]
    /\ retired' = retired \cup {old}
    /\ approved' = IF BigDrop(old, b) THEN approved \cup {<<old, b>>} ELSE approved
    /\ UNCHANGED available

Next == \E b \in Batch : Upload(b) \/ PublishFirst(b) \/ PublishNext(b)

Spec == Init /\ [][Next]_vars
=============================================================================

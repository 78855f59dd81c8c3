----------------------------- MODULE ReviewBook -----------------------------
(***************************************************************************)
(* What the review of an import batch promises, whatever its versions, row *)
(* states and read views: an issue found at staging stays open until an    *)
(* operator acknowledges it, an acknowledged one never reopens, an error   *)
(* cannot be acknowledged at all, and only a batch with nothing open is    *)
(* committed, once (webapp/mdm/import_engine/customer_review.py).          *)
(***************************************************************************)
EXTENDS FiniteSets

CONSTANTS Batch, Issue, IsError(_)

VARIABLES
    status,     \* status of each batch
    open        \* its issues that nobody has acknowledged

bookVars == <<status, open>>

BookStatus == {"ABSENT", "REVIEW", "READY_TO_COMMIT", "COMMITTED"}

BookTypeOK ==
    /\ status \in [Batch -> BookStatus]
    /\ open \in [Batch -> SUBSET Issue]

BookInit ==
    /\ status = [b \in Batch |-> "ABSENT"]
    /\ open = [b \in Batch |-> {}]

Review(left) == IF left = {} THEN "READY_TO_COMMIT" ELSE "REVIEW"

Stage(b) ==
    /\ status[b] = "ABSENT"
    /\ open'[b] \subseteq Issue
    /\ open' = [open EXCEPT ![b] = open'[b]]
    /\ status' = [status EXCEPT ![b] = Review(open'[b])]

AcknowledgeIssues(b) ==
    /\ status[b] = "REVIEW"
    /\ \E chosen \in SUBSET {i \in open[b] : ~IsError(i)} :
        /\ chosen # {}
        /\ open' = [open EXCEPT ![b] = @ \ chosen]
    /\ status' = [status EXCEPT ![b] = Review(open'[b])]

CommitBatch(b) ==
    /\ status[b] = "READY_TO_COMMIT"
    /\ status' = [status EXCEPT ![b] = "COMMITTED"]
    /\ UNCHANGED open

BookNext == \E b \in Batch : Stage(b) \/ AcknowledgeIssues(b) \/ CommitBatch(b)

BookSpec == BookInit /\ [][BookNext]_bookVars

=============================================================================

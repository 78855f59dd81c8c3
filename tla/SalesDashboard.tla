--------------------------- MODULE SalesDashboard ---------------------------
(***************************************************************************)
(* Dashboard readers next to the publishers of SalesPublish:               *)
(* webapp/sales/dashboard_query_service.py and the dashboard routes of     *)
(* webapp/sales/api.py.  A reader takes no lock.  Each request is one      *)
(* database session whose statements all read the snapshot of the first;   *)
(* between the context request, which names the current batch, and the     *)
(* data requests made with that name, anything may be published.           *)
(***************************************************************************)
EXTENDS SalesPublish

CONSTANT Reader

VARIABLES
    rpc,      \* where each reader is
    rview,    \* read view of its session, or NoView
    listed,   \* current batches its context request listed
    rbatch,   \* batch its data request asks for
    outcome,  \* outcome of its last request
    total     \* quantity a summary answered

readerVars == <<rpc, rview, listed, rbatch, outcome, total>>
allVars == <<vars, readerVars>>

Outcome == {"NONE", "OK", "AMBIGUOUS", "INTEGRITY_ERROR", "SNAPSHOT_CHANGED"}
ReaderPC == {"idle", "listing", "chosen", "requested", "validated", "checked", "answered"}

ReaderInit ==
    /\ Init
    /\ rpc = [r \in Reader |-> "idle"]
    /\ rview = [r \in Reader |-> NoView]
    /\ listed = [r \in Reader |-> {}]
    /\ rbatch = [r \in Reader |-> NoBatch]
    /\ outcome = [r \in Reader |-> "NONE"]
    /\ total = [r \in Reader |-> 0]

\* What a statement of r's session reads: the snapshot of its first statement.
Visible(r) == IF rview[r] = NoView THEN db ELSE rview[r]

\* _validate_fact_integrity: the facts of the month and those of them that
\* come from batch c both agree with the counters of c.
FactsIntact(d, c) ==
    LET month == d.facts[MonthOf[c]] IN
    /\ FactsMatch(d, c)
    /\ ReadyRows[c] = IF c \in month THEN ReadyRows[c] ELSE 0
    /\ ReadyQty[c] = IF c \in month THEN ReadyQty[c] ELSE 0

Answer(r, o) ==
    /\ outcome' = [outcome EXCEPT ![r] = o]
    /\ rview' = [rview EXCEPT ![r] = NoView]

Step(r, from, to) ==
    /\ rpc[r] = from
    /\ rpc' = [rpc EXCEPT ![r] = to]
    /\ UNCHANGED vars

\* Mutant: months without a current batch are listed with an empty one.
ListEmptyMonths(r) ==
    /\ Step(r, "idle", "listing")
    /\ rview' = [rview EXCEPT ![r] = Visible(r)]
    /\ listed' = [listed EXCEPT ![r] = {FirstOf(Currents(Visible(r), m)) : m \in Month}]
    /\ outcome' = [outcome EXCEPT ![r] = "NONE"]
    /\ UNCHANGED <<rbatch, total>>

\* list_available_months: the current batches of all months ...
ListMonths(r) ==
    /\ Step(r, "idle", "listing")
    /\ rview' = [rview EXCEPT ![r] = Visible(r)]
    /\ listed' = [listed EXCEPT ![r] = UNION {Currents(Visible(r), m) : m \in Month}]
    /\ outcome' = [outcome EXCEPT ![r] = "NONE"]
    /\ UNCHANGED <<rbatch, total>>

\* Mutant: the facts are checked in a session of their own.
CheckMonthsAfresh(r) ==
    /\ Step(r, "listing", "chosen")
    /\ Answer(r, IF \E c \in listed[r] : ~FactsIntact(db, c) THEN "INTEGRITY_ERROR" ELSE "OK")
    /\ UNCHANGED <<listed, rbatch, total>>

\* ... none of them ambiguous, and their facts intact.
CheckMonths(r) ==
    /\ Step(r, "listing", "chosen")
    /\ Answer(r,
         IF \E c1, c2 \in listed[r] : c1 # c2 /\ MonthOf[c1] = MonthOf[c2] THEN "AMBIGUOUS"
         ELSE IF \E c \in listed[r] : ~FactsIntact(Visible(r), c) THEN "INTEGRITY_ERROR"
         ELSE "OK")
    /\ UNCHANGED <<listed, rbatch, total>>

\* Mutant: the page asks for the batch it uploaded last.
RequestUploaded(r) ==
    /\ Step(r, "chosen", "requested")
    /\ outcome[r] = "OK"
    /\ \E c \in Available(db) : rbatch' = [rbatch EXCEPT ![r] = c]
    /\ rview' = [rview EXCEPT ![r] = Visible(r)]
    /\ outcome' = [outcome EXCEPT ![r] = "NONE"]
    /\ UNCHANGED <<listed, total>>

\* The page asks for the data of a batch the context request listed; the
\* session starts by reading that batch.
RequestSummary(r) ==
    /\ Step(r, "chosen", "requested")
    /\ outcome[r] = "OK"
    /\ \E c \in listed[r] : rbatch' = [rbatch EXCEPT ![r] = c]
    /\ rview' = [rview EXCEPT ![r] = Visible(r)]
    /\ outcome' = [outcome EXCEPT ![r] = "NONE"]
    /\ UNCHANGED <<listed, total>>

\* _validated_batch: it must still be the month's only current batch ...
ValidateBatch(r) ==
    LET currents == Currents(Visible(r), MonthOf[rbatch[r]]) IN
    \/ /\ Step(r, "requested", "validated")
       /\ currents = {rbatch[r]}
       /\ UNCHANGED <<rview, listed, rbatch, outcome, total>>
    \/ /\ Step(r, "requested", "answered")
       /\ currents # {rbatch[r]}
       /\ Answer(r, IF Cardinality(currents) > 1 THEN "AMBIGUOUS" ELSE "SNAPSHOT_CHANGED")
       /\ UNCHANGED <<listed, rbatch, total>>

\* ... with intact facts.
CheckFacts(r) ==
    LET intact == FactsIntact(Visible(r), rbatch[r]) IN
    /\ Step(r, "validated", IF intact THEN "checked" ELSE "answered")
    /\ rview' = [rview EXCEPT ![r] = IF intact THEN @ ELSE NoView]
    /\ outcome' = [outcome EXCEPT ![r] = IF intact THEN @ ELSE "INTEGRITY_ERROR"]
    /\ UNCHANGED <<listed, rbatch, total>>

\* Mutant: the batch is validated in one session and summed up in another.
SummarizeAfresh(r) ==
    LET month == db.facts[MonthOf[rbatch[r]]] IN
    /\ Step(r, "checked", "answered")
    /\ total' = [total EXCEPT ![r] = IF rbatch[r] \in month THEN ReadyQty[rbatch[r]] ELSE 0]
    /\ Answer(r, "OK")
    /\ UNCHANGED <<listed, rbatch>>

\* get_summary: the quantity of the facts bound to the batch.
Summarize(r) ==
    LET month == Visible(r).facts[MonthOf[rbatch[r]]] IN
    /\ Step(r, "checked", "answered")
    /\ total' = [total EXCEPT ![r] = IF rbatch[r] \in month THEN ReadyQty[rbatch[r]] ELSE 0]
    /\ Answer(r, "OK")
    /\ UNCHANGED <<listed, rbatch>>

\* The page is closed, or reloaded from the context request on.
Leave(r) ==
    /\ \E from \in {"chosen", "answered"} : Step(r, from, "idle")
    /\ listed' = [listed EXCEPT ![r] = {}]
    /\ rbatch' = [rbatch EXCEPT ![r] = NoBatch]
    /\ outcome' = [outcome EXCEPT ![r] = "NONE"]
    /\ total' = [total EXCEPT ![r] = 0]
    /\ UNCHANGED rview

Read(r) ==
    \/ ListMonths(r) \/ CheckMonths(r) \/ RequestSummary(r)
    \/ ValidateBatch(r) \/ CheckFacts(r) \/ Summarize(r) \/ Leave(r)

DashboardNext ==
    \/ Next /\ UNCHANGED readerVars
    \/ \E r \in Reader : Read(r)

DashboardSpec == ReaderInit /\ [][DashboardNext]_allVars

-----------------------------------------------------------------------------
(* Properties *)

ReaderTypeOK ==
    /\ rpc \in [Reader -> ReaderPC]
    /\ rview \in [Reader -> DB \cup {NoView}]
    /\ listed \in [Reader -> SUBSET Batch]
    /\ rbatch \in [Reader -> Batch \cup {NoBatch}]
    /\ outcome \in [Reader -> Outcome]
    /\ total \in [Reader -> Nat]

\* A reader never meets a half-published month: neither two current batches
\* nor facts that are not those of the current batch, however its statements
\* interleave with the publishers'.
NoTornMonth ==
    \A r \in Reader : outcome[r] \notin {"AMBIGUOUS", "INTEGRITY_ERROR"}

\* A summary is the whole of the requested batch, which was published.
SummaryIsWhole ==
    \A r \in Reader :
        rpc[r] = "answered" /\ outcome[r] = "OK" =>
            /\ total[r] = ReadyQty[rbatch[r]]
            /\ db.status[rbatch[r]] = "PUBLISHED"

\* A reader is told to reload only when its batch really was replaced since
\* its context request.
ReloadIsJustified ==
    \A r \in Reader :
        outcome[r] = "SNAPSHOT_CHANGED" => db.replacedBy[rbatch[r]] # NoBatch
=============================================================================

---------------------------- MODULE SalesPublish ----------------------------
(***************************************************************************)
(* Publishing one PREVIEW_READY sales batch as the month's current         *)
(* snapshot: webapp/sales/publish_service.py, with the page that shows the *)
(* gate and sends the request (webapp/static/js/sales-actual.js).          *)
(*                                                                         *)
(* db is the committed content of the sales tables.  A publisher works in  *)
(* an InnoDB REPEATABLE READ transaction: its consistent reads all come    *)
(* from view, the snapshot its first consistent read took, its locking     *)
(* reads see db, and its writes reach db at Commit only.                   *)
(*                                                                         *)
(* Candidates are frozen once the preview is stored, so the fact table is  *)
(* abstracted to the set of batches whose candidates it holds, per month.  *)
(* A stored preview always has a data_date_end and counters that agree     *)
(* with its rows (the parser rejects anything else), so the gate's         *)
(* DATA_COVERAGE_UNAVAILABLE and PREVIEW_INTEGRITY_INVALID answers are     *)
(* left out here.                                                          *)
(***************************************************************************)
EXTENDS Integers, FiniteSets, FiniteSetsExt

CONSTANTS
    Batch,          \* import batches that may be uploaded
    Month,          \* <<source_system, snapshot_month>> pairs
    Publisher,      \* users that work on the preview page at the same time
    NoBatch,
    NoPublisher,
    NoView,
    MonthOf,        \* month of a batch
    ReadyRows,      \* number of candidates of a batch
    ReadyQty,       \* their total quantity
    DataEnd,        \* data_date_end
    DropNum, DropDen   \* DROP_THRESHOLD = DropNum / DropDen

ASSUME BatchAssumption ==
    /\ NoBatch \notin Batch
    /\ NoPublisher \notin Publisher
    /\ MonthOf \in [Batch -> Month]
    /\ ReadyRows \in [Batch -> Nat]
    /\ ReadyQty \in [Batch -> Nat]
    /\ DataEnd \in [Batch -> Nat]

\* DROP_THRESHOLD is checked at import time to be in (0, 1].
ASSUME ThresholdAssumption ==
    /\ DropNum \in Nat \ {0}
    /\ DropDen \in Nat \ {0}
    /\ DropNum <= DropDen

VARIABLES
    db,         \* committed sales tables
    monthLock,  \* holder of the advisory lock of each month
    pc,         \* where each publisher is
    batch,      \* the batch its page is about
    codes,      \* the confirmation codes of its request
    shown,      \* the gate its page showed when the request was sent
    view,       \* read view of its transaction, or NoView
    row,        \* batch row read with SELECT ... FOR UPDATE
    gate,       \* gate evaluated by the publish transaction
    result      \* answer of the request

clientVars == <<batch, codes, shown>>
txnVars == <<view, row, gate>>
vars == <<db, monthLock, pc, clientVars, txnVars, result>>

-----------------------------------------------------------------------------
(* The tables *)

Status == {"ABSENT", "PREVIEW_READY", "PUBLISHED"}
ConfirmationCode == {"ABNORMAL_DROP_THRESHOLD"}
Confirmation == [batch: Batch, existing: Batch \cup {NoBatch}, qty: Nat,
                 shownFor: Batch \cup {NoBatch}]

DB == [status: [Batch -> Status],
       replacedBy: [Batch -> Batch \cup {NoBatch}],
       facts: [Month -> SUBSET Batch],
       confirmations: SUBSET Confirmation]

EmptyDB == [status |-> [b \in Batch |-> "ABSENT"],
            replacedBy |-> [b \in Batch |-> NoBatch],
            facts |-> [m \in Month |-> {}],
            confirmations |-> {}]

ASSUME ViewAssumption == NoView \notin DB

\* Batches of month m that are PUBLISHED and not replaced.
Currents(d, m) ==
    {c \in Batch : MonthOf[c] = m /\ d.status[c] = "PUBLISHED" /\ d.replacedBy[c] = NoBatch}

\* The first row of a query's answer, or None.
FirstOf(rows) == IF rows = {} THEN NoBatch ELSE CHOOSE c \in rows : TRUE

\* _current_month_batch: the first such batch other than b, if any.
CurrentBatch(d, b) == FirstOf(Currents(d, MonthOf[b]) \ {b})

\* _month_fact_stats
FactRows(d, m) == MapThenSumSet(LAMBDA b : ReadyRows[b], d.facts[m])
FactQty(d, m) == MapThenSumSet(LAMBDA b : ReadyQty[b], d.facts[m])

\* The facts of its month agree with the counters of batch c.
FactsMatch(d, c) ==
    /\ FactRows(d, MonthOf[c]) = ReadyRows[c]
    /\ FactQty(d, MonthOf[c]) = ReadyQty[c]

\* Mutant: a drop of exactly the threshold passes.
BigDropAboveOnly(old, new) ==
    (ReadyQty[old] - ReadyQty[new]) * DropDen > DropNum * ReadyQty[old]

BigDrop(old, new) ==
    /\ ReadyQty[old] > 0
    /\ (ReadyQty[old] - ReadyQty[new]) * DropDen >= DropNum * ReadyQty[old]

-----------------------------------------------------------------------------
(* The publish gate *)

GateStatus == {"READY", "REQUIRES_CONFIRMATION", "BLOCKED", "IDEMPOTENT"}
Gate == [status: GateStatus, current: Batch \cup {NoBatch}, required: SUBSET ConfirmationCode]

GateOf(st, current) ==
    [status |-> st, current |-> current,
     required |-> IF st = "REQUIRES_CONFIRMATION" THEN ConfirmationCode ELSE {}]

Row == [status: Status, replaced: BOOLEAN]
RowOf(d, b) == [status |-> d.status[b], replaced |-> d.replacedBy[b] # NoBatch]

\* Mutant: a snapshot that covers fewer days than the current one passes.
GateWithoutCoverage(d, b) ==
    LET cur == CurrentBatch(d, b) IN
    IF cur = NoBatch THEN GateOf("READY", NoBatch)
    ELSE IF ~FactsMatch(d, cur) THEN GateOf("BLOCKED", NoBatch)
    ELSE GateOf(IF BigDrop(cur, b) THEN "REQUIRES_CONFIRMATION" ELSE "READY", cur)

\* _evaluate_gate: the gate of a PREVIEW_READY batch b against the month's
\* current batch and facts.
EvaluatedGate(d, b) ==
    LET cur == CurrentBatch(d, b) IN
    CASE cur = NoBatch -> GateOf("READY", NoBatch)
      [] cur # NoBatch /\ DataEnd[b] < DataEnd[cur] -> GateOf("BLOCKED", NoBatch)
      [] cur # NoBatch /\ DataEnd[b] >= DataEnd[cur] /\ ~FactsMatch(d, cur) ->
            GateOf("BLOCKED", NoBatch)
      [] cur # NoBatch /\ DataEnd[b] >= DataEnd[cur] /\ FactsMatch(d, cur) ->
            GateOf(IF BigDrop(cur, b) THEN "REQUIRES_CONFIRMATION" ELSE "READY", cur)

\* _gate_view: r is the batch row, d the snapshot everything else is read from.
GateView(r, d, b) ==
    CASE r.status = "PUBLISHED" /\ r.replaced -> GateOf("BLOCKED", CurrentBatch(d, b))
      [] r.status = "PUBLISHED" /\ ~r.replaced ->
            GateOf(IF FactsMatch(d, b) THEN "IDEMPOTENT" ELSE "BLOCKED", b)
      [] r.status = "PREVIEW_READY" -> EvaluatedGate(d, b)
      [] r.status = "ABSENT" -> GateOf("BLOCKED", NoBatch)

NoGate == GateOf("BLOCKED", NoBatch)
NoRow == [status |-> "ABSENT", replaced |-> FALSE]

-----------------------------------------------------------------------------
(* Initial state *)

PC == {"idle", "preview", "probing", "probed", "locking", "locked", "loaded",
       "gated", "replacing", "committing", "releasing"}
Result == {"NONE", "PUBLISHED", "IDEMPOTENT", "REJECTED", "ERROR"}

Init ==
    /\ db = EmptyDB
    /\ monthLock = [m \in Month |-> NoPublisher]
    /\ pc = [p \in Publisher |-> "idle"]
    /\ batch = [p \in Publisher |-> NoBatch]
    /\ codes = [p \in Publisher |-> {}]
    /\ shown = [p \in Publisher |-> NoGate]
    /\ view = [p \in Publisher |-> NoView]
    /\ row = [p \in Publisher |-> NoRow]
    /\ gate = [p \in Publisher |-> NoGate]
    /\ result = [p \in Publisher |-> "NONE"]

Goto(p, from, to) ==
    /\ pc[p] = from
    /\ pc' = [pc EXCEPT ![p] = to]

\* The answer reaches the page, which still shows the gate it showed before.
EndRequest(p) ==
    /\ codes' = [codes EXCEPT ![p] = {}]
    /\ result' = [result EXCEPT ![p] = "NONE"]
    /\ UNCHANGED <<batch, shown>>

\* The transaction of p ends: its read view and locals are gone.
EndTransaction(p) ==
    /\ view' = [view EXCEPT ![p] = NoView]
    /\ row' = [row EXCEPT ![p] = NoRow]
    /\ gate' = [gate EXCEPT ![p] = NoGate]

-----------------------------------------------------------------------------
(* The page *)

\* create_sales_preview commits the whole preview of a new file at once.
Upload(b) ==
    /\ db.status[b] = "ABSENT"
    /\ db' = [db EXCEPT !.status[b] = "PREVIEW_READY"]
    /\ UNCHANGED <<monthLock, pc, clientVars, txnVars, result>>

\* loadPreview, for the first time or again: read_publish_gate reads row and
\* gate in one snapshot, takes no lock and writes nothing.
OpenPreview(p, b) ==
    /\ db.status[b] # "ABSENT"
    /\ pc[p] \in {"idle", "preview"}
    /\ pc' = [pc EXCEPT ![p] = "preview"]
    /\ batch' = [batch EXCEPT ![p] = b]
    /\ shown' = [shown EXCEPT ![p] = GateView(RowOf(db, b), db, b)]
    /\ UNCHANGED <<db, monthLock, codes, txnVars, result>>

\* publishNow.  The page sends the codes its gate asked for; another client
\* of the endpoint may send any subset of the known codes.
Submit(p, c) ==
    /\ Goto(p, "preview", "probing")
    /\ codes' = [codes EXCEPT ![p] = c]
    /\ UNCHANGED <<db, monthLock, batch, shown, txnVars, result>>

-----------------------------------------------------------------------------
(* publish_batch: from the request to the advisory lock *)

\* The routing probe reads the batch's month: a consistent read, so it
\* establishes the transaction's read view.
Probe(p) ==
    /\ Goto(p, "probing", "probed")
    /\ view' = [view EXCEPT ![p] = db]
    /\ UNCHANGED <<db, monthLock, clientVars, row, gate, result>>

\* Mutant: no rollback after the probe, so its read view is kept.
EndProbeKeepingView(p) ==
    /\ Goto(p, "probed", "locking")
    /\ UNCHANGED <<db, monthLock, clientVars, txnVars, result>>

\* connection.rollback() gives the probe's read view up.
EndProbe(p) ==
    /\ Goto(p, "probed", "locking")
    /\ view' = [view EXCEPT ![p] = NoView]
    /\ UNCHANGED <<db, monthLock, clientVars, row, gate, result>>

\* Mutant: the answer of GET_LOCK is not looked at.
AcquireWithoutLock(p) ==
    /\ Goto(p, "locking", "locked")
    /\ monthLock' = [monthLock EXCEPT ![MonthOf[batch[p]]] = p]
    /\ UNCHANGED <<db, clientVars, txnVars, result>>

\* GET_LOCK returned 1.
AcquireLock(p) ==
    LET m == MonthOf[batch[p]] IN
    /\ Goto(p, "locking", "locked")
    /\ monthLock[m] = NoPublisher
    /\ monthLock' = [monthLock EXCEPT ![m] = p]
    /\ UNCHANGED <<db, clientVars, txnVars, result>>

\* Mutant: GET_LOCK waits without a timeout.
LockNeverTimesOut(p) == FALSE

\* GET_LOCK ran into its timeout: PublishLockBusy, nothing was written.
LockTimeout(p) ==
    /\ Goto(p, "locking", "preview")
    /\ monthLock[MonthOf[batch[p]]] # NoPublisher
    /\ EndRequest(p)
    /\ UNCHANGED <<db, monthLock, txnVars>>

-----------------------------------------------------------------------------
(* _publish_without_lock: the publish transaction *)

\* SELECT ... FOR UPDATE reads the latest committed row and takes no view.
LoadBatch(p) ==
    /\ Goto(p, "locked", "loaded")
    /\ row' = [row EXCEPT ![p] = RowOf(db, batch[p])]
    /\ UNCHANGED <<db, monthLock, clientVars, view, gate, result>>

\* The first consistent read takes the read view, unless the transaction
\* already has one; the gate is evaluated on it and on the loaded row.
EvaluateGate(p) ==
    LET d == IF view[p] = NoView THEN db ELSE view[p] IN
    /\ Goto(p, "loaded", "gated")
    /\ view' = [view EXCEPT ![p] = d]
    /\ gate' = [gate EXCEPT ![p] = GateView(row[p], d, batch[p])]
    /\ UNCHANGED <<db, monthLock, clientVars, row, result>>

\* The batch is the current one already: answer without writing.
AnswerIdempotent(p) ==
    /\ Goto(p, "gated", "releasing")
    /\ gate[p].status = "IDEMPOTENT"
    /\ result' = [result EXCEPT ![p] = "IDEMPOTENT"]
    /\ EndTransaction(p)
    /\ UNCHANGED <<db, monthLock, clientVars>>

\* A READY publish takes no confirmation, a REQUIRES_CONFIRMATION publish
\* exactly the required ones.
Accepted(p) ==
    /\ gate[p].status \in {"READY", "REQUIRES_CONFIRMATION"}
    /\ codes[p] = gate[p].required

\* BLOCKED, superseded, or confirmations that do not fit the gate.
Reject(p) ==
    /\ Goto(p, "gated", "releasing")
    /\ gate[p].status # "IDEMPOTENT"
    /\ ~Accepted(p)
    /\ result' = [result EXCEPT ![p] = "REJECTED"]
    /\ EndTransaction(p)
    /\ UNCHANGED <<db, monthLock, clientVars>>

Accept(p) ==
    /\ Goto(p, "gated", "replacing")
    /\ Accepted(p)
    /\ UNCHANGED <<db, monthLock, clientVars, txnVars, result>>

\* The statements of the transaction, as they change a database d.
DeleteMonthFacts(d, b) == [d EXCEPT !.facts[MonthOf[b]] = {}]

InsertCandidates(d, b) == [d EXCEPT !.facts[MonthOf[b]] = @ \cup {b}]

\* Mutants: the replaced batch is not marked, or all batches of the month are.
MarkNothing(d, old, b) == d

MarkWholeMonth(d, old, b) ==
    [d EXCEPT !.replacedBy = [c \in Batch |->
        IF MonthOf[c] = MonthOf[b] /\ d.status[c] = "PUBLISHED" THEN b ELSE @[c]]]

MarkReplaced(d, old, b) ==
    IF old = NoBatch THEN d ELSE [d EXCEPT !.replacedBy[old] = b]

MarkPublished(d, b) == [d EXCEPT !.status[b] = "PUBLISHED"]

\* Mutant: the quantity change is recorded, not the replaced quantity.
RecordChange(d, g, old, b, s) ==
    [d EXCEPT !.confirmations = @ \cup
        {[batch |-> b, existing |-> old, qty |-> ReadyQty[b] - ReadyQty[g.current],
          shownFor |-> NoBatch] : code \in g.required}]

\* One row per required confirmation of gate g.  shownFor is no column: it is
\* the batch the user's page (gate s) asked to confirm a drop against.
RecordConfirmations(d, g, old, b, s) ==
    [d EXCEPT !.confirmations = @ \cup
        {[batch |-> b, existing |-> old, qty |-> ReadyQty[g.current],
          shownFor |-> IF s.required = {} THEN NoBatch ELSE s.current] : code \in g.required}]

\* _replace_month_facts: DELETE, INSERT, and the count of what is there now.
FactsReplaced(d, b) == InsertCandidates(DeleteMonthFacts(d, b), b)

\* The replaced batch is looked up in the read view once more, then marked;
\* the batch is marked PUBLISHED and the confirmations are inserted.
PublishWrites(p, d) ==
    LET b == batch[p]
        old == CurrentBatch(view[p], b)
    IN  RecordConfirmations(
            MarkPublished(MarkReplaced(FactsReplaced(d, b), old, b), b),
            gate[p], old, b, shown[p])

\* The statements run: nobody else sees their effect yet.  A count that is
\* not the batch's ready_rows raises (StatementFails).
Write(p) ==
    /\ Goto(p, "replacing", "committing")
    /\ FactRows(FactsReplaced(view[p], batch[p]), MonthOf[batch[p]]) = ReadyRows[batch[p]]
    /\ UNCHANGED <<db, monthLock, clientVars, txnVars, result>>

\* COMMIT makes every write of the transaction visible at once.
Commit(p) ==
    /\ Goto(p, "committing", "releasing")
    /\ db' = PublishWrites(p, db)
    /\ result' = [result EXCEPT ![p] = "PUBLISHED"]
    /\ EndTransaction(p)
    /\ UNCHANGED <<monthLock, clientVars>>

\* Mutant: RELEASE_LOCK is not in a finally block.
StatementFailsHoldingLock(p) ==
    /\ \E from \in {"locked", "loaded", "gated", "replacing", "committing"} :
            Goto(p, from, "preview")
    /\ EndRequest(p)
    /\ EndTransaction(p)
    /\ UNCHANGED <<db, monthLock>>

\* A statement raises (deadlock, count mismatch, a failed COMMIT): rollback.
StatementFails(p) ==
    /\ \E from \in {"locked", "loaded", "gated", "replacing", "committing"} :
            Goto(p, from, "releasing")
    /\ result' = [result EXCEPT ![p] = "ERROR"]
    /\ EndTransaction(p)
    /\ UNCHANGED <<db, monthLock, clientVars>>

\* finally: RELEASE_LOCK, after the commit or the rollback.
ReleaseLock(p) ==
    /\ Goto(p, "releasing", "preview")
    /\ monthLock' = [monthLock EXCEPT ![MonthOf[batch[p]]] = NoPublisher]
    /\ EndRequest(p)
    /\ UNCHANGED <<db, txnVars>>

\* The process or its connection dies: the server rolls back and frees the
\* advisory lock the connection held.
ConnectionLost(p) ==
    /\ \E from \in PC \ {"idle", "preview"} : Goto(p, from, "preview")
    /\ monthLock' = [m \in Month |-> IF monthLock[m] = p THEN NoPublisher ELSE monthLock[m]]
    /\ EndRequest(p)
    /\ EndTransaction(p)
    /\ UNCHANGED db

-----------------------------------------------------------------------------
(* The specification *)

\* What the server does for a request it has received.
Serve(p) ==
    \/ Probe(p) \/ EndProbe(p) \/ AcquireLock(p) \/ LockTimeout(p)
    \/ LoadBatch(p) \/ EvaluateGate(p) \/ AnswerIdempotent(p) \/ Reject(p)
    \/ Accept(p) \/ Write(p) \/ Commit(p)
    \/ ReleaseLock(p)

Next ==
    \/ \E b \in Batch : Upload(b)
    \/ \E p \in Publisher :
        \/ \E b \in Batch : OpenPreview(p, b)
        \/ \E c \in SUBSET ConfirmationCode : Submit(p, c)
        \/ Serve(p)
        \/ StatementFails(p)
        \/ ConnectionLost(p)

Spec == Init /\ [][Next]_vars

\* A request thread keeps running; users, failures and crashes owe nothing.
FairSpec == Spec /\ \A p \in Publisher : WF_vars(Serve(p))

-----------------------------------------------------------------------------
(* Properties *)

\* What SalesMonth sees of the committed tables.
Available(d) == {b \in Batch : d.status[b] # "ABSENT"}
Current(d) == [m \in Month |-> FirstOf(Currents(d, m))]
Retired(d) == {b \in Batch : d.replacedBy[b] # NoBatch}
Approved(d) == {<<c.existing, c.batch>> : c \in d.confirmations}

SM == INSTANCE SalesMonth WITH
    available <- Available(db),
    current <- Current(db),
    visible <- db.facts,
    retired <- Retired(db),
    approved <- Approved(db)

TypeOK ==
    /\ db \in DB
    /\ monthLock \in [Month -> Publisher \cup {NoPublisher}]
    /\ pc \in [Publisher -> PC]
    /\ batch \in [Publisher -> Batch \cup {NoBatch}]
    /\ codes \in [Publisher -> SUBSET ConfirmationCode]
    /\ shown \in [Publisher -> Gate]
    /\ view \in [Publisher -> DB \cup {NoView}]
    /\ row \in [Publisher -> Row]
    /\ gate \in [Publisher -> Gate]
    /\ result \in [Publisher -> Result]

\* A month never has two current batches, whatever its publishers do at the
\* same time: the dashboard answers CURRENT_BATCH_AMBIGUOUS when it has.
AtMostOneCurrent ==
    \A m \in Month : \A c1, c2 \in Currents(db, m) : c1 = c2

\* The committed facts of a month are exactly the candidates of its current
\* batch: no publication leaves a part of the replaced snapshot, or none.
FactsMatchCurrent ==
    \A m \in Month : db.facts[m] = Currents(db, m)

\* The replaced_by links of a month form one line: no batch replaces two
\* batches, a link never leaves the month, and it joins published batches.
LineageIsLinear ==
    \A b1, b2 \in Batch :
        LET next == db.replacedBy[b1] IN
        next # NoBatch =>
            /\ next # b1
            /\ MonthOf[next] = MonthOf[b1]
            /\ db.status[b1] = "PUBLISHED" /\ db.status[next] = "PUBLISHED"
            /\ db.replacedBy[b2] = next => b1 = b2

\* A replacement that loses DROP_THRESHOLD of the quantity or more carries a
\* confirmation of exactly that replacement, with the quantity it replaced;
\* no other publication carries one.
DropsAreConfirmed ==
    /\ \A old \in Batch :
        LET new == db.replacedBy[old] IN
        new # NoBatch /\ SM!BigDrop(old, new) =>
            \E c \in db.confirmations :
                c.batch = new /\ c.existing = old /\ c.qty = ReadyQty[old]
    /\ \A c \in db.confirmations :
        c.existing # NoBatch /\ db.replacedBy[c.existing] = c.batch
                             /\ SM!BigDrop(c.existing, c.batch)

\* Until the lock is released, "published" and "already current" are true:
\* the batch named in the answer is the month's current batch.
AnswersAreTrue ==
    \A p \in Publisher :
        result[p] \in {"PUBLISHED", "IDEMPOTENT"} =>
            Currents(db, MonthOf[batch[p]]) = {batch[p]}

\* A superseded batch stays published, and superseded by the same batch.
KeepsSuperseded ==
    \A b \in Batch :
        db.replacedBy[b] # NoBatch => /\ db'.replacedBy[b] = db.replacedBy[b]
                                      /\ db'.status[b] = "PUBLISHED"

SupersededIsFinal == [][KeepsSuperseded]_db

\* Every step is a step of SalesMonth or changes nothing it shows.
ImplementsSalesMonth == SM!Spec

\* Every request is answered, whatever the other publishers do.
RequestsEnd ==
    \A p \in Publisher : pc[p] \notin {"idle", "preview"} ~> pc[p] = "preview"

\* No failure keeps a month locked.
LocksAreFreed ==
    \A m \in Month : monthLock[m] # NoPublisher ~> monthLock[m] = NoPublisher

\* models.py of SalesPublishConfirmation: a confirmation can never be reused
\* to approve a later, different state.  So a user whose page asked to
\* confirm a drop against one batch does not approve a drop against another.
ConfirmationApprovesWhatWasShown ==
    \A c \in db.confirmations : c.shownFor # NoBatch => c.existing = c.shownFor

-----------------------------------------------------------------------------
(* The inductive invariant: what the advisory lock gives a publisher *)

Locked == {"locked", "loaded", "gated", "replacing", "committing", "releasing"}
Viewing == {"gated", "replacing", "committing"}

\* d1 and d2 agree on everything publishing month m reads.
SameMonth(d1, d2, m) ==
    /\ d1.facts[m] = d2.facts[m]
    /\ \A c \in Batch : MonthOf[c] = m =>
        /\ d1.replacedBy[c] = d2.replacedBy[c]
        /\ d1.status[c] = "PUBLISHED" <=> d2.status[c] = "PUBLISHED"

\* A publisher past GET_LOCK owns the lock of its batch's month, and has no
\* read view from before it.
LockInv(p) ==
    /\ pc[p] # "idle" => batch[p] \in Batch /\ db.status[batch[p]] # "ABSENT"
    /\ pc[p] \in Locked => monthLock[MonthOf[batch[p]]] = p
    /\ pc[p] \in {"locking", "locked", "loaded"} => view[p] = NoView
    /\ result[p] # "NONE" => pc[p] = "releasing"

\* What a publisher has read under the lock is still what is committed.
FreshInv(p) ==
    /\ pc[p] \in Viewing \cup {"loaded"} => row[p] = RowOf(db, batch[p])
    /\ pc[p] \in Viewing =>
        /\ view[p] \in DB
        /\ SameMonth(view[p], db, MonthOf[batch[p]])
        /\ gate[p] = GateView(row[p], view[p], batch[p])
    /\ pc[p] \in {"replacing", "committing"} => Accepted(p)

\* From the gate to the commit nothing a publisher decided on has changed.
ReadsStayFresh == \A p \in Publisher : LockInv(p) /\ FreshInv(p)

IInv ==
    /\ TypeOK
    /\ ReadsStayFresh
    /\ AtMostOneCurrent
    /\ FactsMatchCurrent
    /\ LineageIsLinear
    /\ DropsAreConfirmed
    /\ AnswersAreTrue
=============================================================================

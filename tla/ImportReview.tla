---------------------------- MODULE ImportReview ----------------------------
(***************************************************************************)
(* Operational master imports (Customer and Product): a workbook           *)
(* is staged as a batch of rows with findings, operators acknowledge its   *)
(* warnings under a review version, and a commit creates the masters:      *)
(* webapp/mdm/import_engine/customer_review.py with its subclasses,        *)
(* customer_commit.py and product_commit.py, next to the edits of masters  *)
(* in webapp/mdm/api.py.                                                   *)
(*                                                                         *)
(* A request's plain reads come from view, the snapshot of its first read  *)
(* (the scope check of the API); SELECT ... FOR UPDATE reads db.  The ORM  *)
(* session returns an object it still holds as it was loaded, also from a  *)
(* FOR UPDATE query, and writes only the columns that were changed.        *)
(*                                                                         *)
(* Texts are left out: a master is a code whose identity (code and name)   *)
(* is that of the workbook row ("SAME") or another one ("OTHER").  So are  *)
(* INFO findings, requests the API refuses before they touch the database, *)
(* and the second look at Product names that a commit takes.               *)
(***************************************************************************)
EXTENDS Integers, FiniteSets, FiniteSetsExt

CONSTANTS
    Batch,
    Row,            \* staged rows of all batches: numbers, in workbook order
    Master,         \* masters, by code, that rows create or refer to
    Named,          \* masters created or renamed while batches are reviewed
    Switched,       \* masters activated or deactivated meanwhile
    Operator,
    NoOperator,
    NoView,
    EntityOf,       \* entity type of a batch
    BatchOf,        \* batch of a row
    CodeOf,         \* master a row creates
    RefsOf,         \* masters it refers to (channel, salesrep, region, ...)
    ParentOf,       \* its parent Customer: a set of at most one master
    SharedName      \* rows whose name another row or master of the kind has

Entity == {"CUSTOMER", "PRODUCT"}
WarningRule == {"NAME_CONFLICT", "PARENT_UNRESOLVED"}
ErrorRule == {"CODE_CONFLICT", "REFERENCE_UNRESOLVED"}

ASSUME ImportAssumption ==
    /\ Batch # {}
    /\ Row \subseteq Nat
    /\ Named \subseteq Master /\ Switched \subseteq Master
    /\ NoOperator \notin Operator
    /\ EntityOf \in [Batch -> Entity]
    /\ BatchOf \in [Row -> Batch]
    /\ CodeOf \in [Row -> Master]
    /\ RefsOf \in [Row -> SUBSET Master]
    /\ ParentOf \in [Row -> SUBSET Master]
    /\ SharedName \subseteq Row

\* A workbook has finitely many rows; channels, regions and the like are kept
\* in tables of their own, which no import fills.
ASSUME WorkbookAssumption ==
    /\ \A b \in Batch : IsFiniteSet({r \in Row : BatchOf[r] = b})
    /\ \A r, s \in Row : CodeOf[s] \notin RefsOf[r]

VARIABLES
    db,         \* committed import tables and masters
    batchLock,  \* holder of the row lock of each batch
    commitLock, \* holder of the advisory commit lock of each entity type
    pc,         \* where the request of each operator is
    req,        \* the request: its batch, review version and finding ids
    view,       \* read view of its transaction, or NoView
    held        \* the batch object its session holds

vars == <<db, batchLock, commitLock, pc, req, view, held>>

-----------------------------------------------------------------------------
(* The tables *)

BatchStatus == {"ABSENT", "REVIEW", "READY_TO_COMMIT", "COMMITTED"}
RowStatus == {"ABSENT", "READY", "WARNING", "ERROR", "EXISTING", "COMMITTED"}
Reviewed == {"NONE", "FINAL", "PARENT_NULL"}
Phase == {"idle", "scoped", "acking",
          "wanting", "entered", "committing", "revalidated", "releasing"}

\* A finding, or its copy in a later review version; copied tells the copies
\* of two acknowledgements apart (no two of them acknowledge the same origin).
Origin == [row: Row, rule: WarningRule \cup ErrorRule]
Finding == [origin: Origin, version: Nat \ {0}, copied: SUBSET Origin]

BatchRecord == [status: BatchStatus, version: Nat, warnings: Nat, errors: Nat]
RowRecord == [status: RowStatus, reviewed: Reviewed]
MasterRecord == [kind: {"NONE", "SAME", "OTHER"}, active: BOOLEAN]

RowsOf(b) == {r \in Row : BatchOf[r] = b}

\* A decision is the finding it acknowledges.
DB == [batch: [Batch -> BatchRecord], row: [Row -> RowRecord],
       findings: SUBSET Finding, decisions: SUBSET Finding,
       master: [Master -> MasterRecord]]

\* The part of a snapshot that a request on one batch can read.
ViewOf(b) == [batch: BatchRecord, row: [RowsOf(b) -> RowRecord],
              findings: SUBSET Finding, decisions: SUBSET Finding,
              master: [Master -> MasterRecord]]

NoBatchYet == [status |-> "ABSENT", version |-> 0, warnings |-> 0, errors |-> 0]
NoRequest == [batch |-> CHOOSE b \in Batch : TRUE, version |-> 0, chosen |-> {}]

ASSUME ImportViewAssumption == \A b \in Batch : NoView \notin ViewOf(b)

IsWarning(f) == f.origin.rule \in WarningRule

\* _findings, _decisions: what a review version of a batch holds.
FindingsAt(d, b, v) == {f \in d.findings : f.version = v /\ BatchOf[f.origin.row] = b}
DecisionsAt(d, b, v) == {f \in d.decisions : f.version = v /\ BatchOf[f.origin.row] = b}

\* Mutant: staging stores the status VALID of the validator.
RowKeptValid(existing, fs, acked) ==
    IF existing THEN [status |-> "EXISTING", reviewed |-> "NONE"]
    ELSE [status |-> IF \E f \in fs : ~IsWarning(f) THEN "ERROR"
                     ELSE IF fs \ acked # {} THEN "WARNING" ELSE "VALID",
          reviewed |-> "NONE"]

\* One row of _apply_readiness, fs its findings and acked the decided ones.
RowReadiness(existing, fs, acked) ==
    IF existing THEN [status |-> "EXISTING", reviewed |-> "NONE"]
    ELSE IF \E f \in fs : ~IsWarning(f) THEN [status |-> "ERROR", reviewed |-> "NONE"]
    ELSE IF fs \ acked # {} THEN [status |-> "WARNING", reviewed |-> "NONE"]
    ELSE [status |-> "READY",
          reviewed |-> IF \E f \in fs : f.origin.rule = "PARENT_UNRESOLVED"
                       THEN "PARENT_NULL" ELSE "FINAL"]

\* Mutant: open warnings do not keep a batch in review.
ReadyWithoutErrors(b, v, rows) ==
    LET errors == Quantify(RowsOf(b), LAMBDA r : rows[r].status = "ERROR")
    IN  [version |-> v, warnings |-> 0, errors |-> errors,
         status |-> IF errors > 0 THEN "REVIEW" ELSE "READY_TO_COMMIT"]

\* The batch counters and status that follow from the new rows.
BatchReadiness(b, v, rows) ==
    LET warnings == Quantify(RowsOf(b), LAMBDA r : rows[r].status = "WARNING")
        errors == Quantify(RowsOf(b), LAMBDA r : rows[r].status = "ERROR")
    IN  [version |-> v, warnings |-> warnings, errors |-> errors,
         status |-> IF warnings + errors > 0 THEN "REVIEW" ELSE "READY_TO_COMMIT"]

\* f with the values of g where g is defined.
Patched(f, g) == [x \in DOMAIN f |-> IF x \in DOMAIN g THEN g[x] ELSE f[x]]

\* The ORM flushes the columns that differ from what was loaded.
Flushed(loaded, new, current) ==
    [c \in DOMAIN new |-> IF new[c] = loaded[c] THEN current[c] ELSE new[c]]

Init ==
    /\ db = [batch |-> [b \in Batch |-> NoBatchYet],
             row |-> [r \in Row |-> [status |-> "ABSENT", reviewed |-> "NONE"]],
             findings |-> {}, decisions |-> {},
             master |-> [m \in Master |->
                IF \E r \in Row : m \in RefsOf[r]
                THEN [kind |-> "SAME", active |-> TRUE]
                ELSE [kind |-> "NONE", active |-> FALSE]]]
    /\ batchLock = [b \in Batch |-> NoOperator]
    /\ commitLock = [e \in Entity |-> NoOperator]
    /\ pc = [o \in Operator |-> "idle"]
    /\ req = [o \in Operator |-> NoRequest]
    /\ view = [o \in Operator |-> NoView]
    /\ held = [o \in Operator |-> NoBatchYet]

-----------------------------------------------------------------------------
(* Staging a workbook *)

Found(r, rule) == [origin |-> [row |-> r, rule |-> rule], version |-> 1, copied |-> {}]

Exists(r) == db.master[CodeOf[r]].kind = "SAME"
DuplicateInFile(r) == \E s \in RowsOf(BatchOf[r]) \ {r} : CodeOf[s] = CodeOf[r]

\* exact_customer_reference
Resolves(m) == db.master[m].kind = "SAME" /\ db.master[m].active

\* Rows of r's workbook that are its parent Customer.
ParentRows(r) == {s \in RowsOf(BatchOf[r]) : CodeOf[s] \in ParentOf[r]}

\* _customer_v1_identity and _customer_v1_references for a row that is not
\* EXISTING; a parent in the workbook is taken as it is, active or not.
RulesFor(r) ==
    {rule \in WarningRule \cup ErrorRule :
        CASE rule = "CODE_CONFLICT" ->
                DuplicateInFile(r) \/ db.master[CodeOf[r]].kind = "OTHER"
          [] rule = "NAME_CONFLICT" -> r \in SharedName
          [] rule = "REFERENCE_UNRESOLVED" -> \E m \in RefsOf[r] : ~Resolves(m)
          [] rule = "PARENT_UNRESOLVED" ->
                ParentRows(r) = {} /\ \E m \in ParentOf[r] : ~Resolves(m)}

\* Mutant: a committed batch may be staged again under its id.
UnstagedOrDone(b) == db.batch[b].status \in {"ABSENT", "COMMITTED"}

\* A batch id is staged once; uploading it again only previews the batch.
Unstaged(b) == db.batch[b].status = "ABSENT"

\* stage_file
Upload(b) ==
    LET existing(r) == Exists(r) /\ ~DuplicateInFile(r)
        found == UNION {{Found(r, rule) : rule \in RulesFor(r)} :
                            r \in {s \in RowsOf(b) : ~existing(s)}}
        rows == [r \in RowsOf(b) |->
                    RowReadiness(existing(r), {f \in found : f.origin.row = r}, {})]
    IN  /\ Unstaged(b)
        /\ db' = [db EXCEPT !.findings = @ \cup found,
                            !.row = Patched(@, rows),
                            !.batch[b] = BatchReadiness(b, 1, rows)]
        /\ UNCHANGED <<batchLock, commitLock, pc, req, view, held>>

-----------------------------------------------------------------------------
(* Requests and their locks *)

ReadView(b) ==
    [batch |-> db.batch[b], row |-> [r \in RowsOf(b) |-> db.row[r]],
     findings |-> {f \in db.findings : BatchOf[f.origin.row] = b},
     decisions |-> {f \in db.decisions : BatchOf[f.origin.row] = b},
     master |-> db.master]

\* The scope check of the API reads the batch: the snapshot of the
\* transaction is taken here, before any lock.
SubmitAck(o, b) ==
    /\ pc[o] = "idle"
    /\ \E v \in 1..db.batch[b].version :
        \E chosen \in SUBSET {f \in FindingsAt(db, b, v) : IsWarning(f)} :
            /\ chosen # {}
            /\ req' = [req EXCEPT ![o] = [batch |-> b, version |-> v, chosen |-> chosen]]
    \* ProductReviewService refuses a batch with ERROR rows at once
    /\ EntityOf[b] = "CUSTOMER" \/ db.batch[b].errors = 0
    /\ view' = [view EXCEPT ![o] = ReadView(b)]
    /\ pc' = [pc EXCEPT ![o] = "scoped"]
    /\ UNCHANGED <<db, batchLock, commitLock, held>>

SubmitCommit(o, b) ==
    /\ pc[o] = "idle"
    /\ db.batch[b].status # "ABSENT"
    /\ req' = [req EXCEPT ![o] = [batch |-> b, version |-> 0, chosen |-> {}]]
    /\ view' = [view EXCEPT ![o] = ReadView(b)]
    /\ pc' = [pc EXCEPT ![o] = "wanting"]
    /\ UNCHANGED <<db, batchLock, commitLock, held>>

EntityAsked(o) == EntityOf[req[o].batch]

\* _acquire_global_lock, on a connection of its own.
AcquireCommitLock(o) ==
    /\ pc[o] = "wanting"
    /\ commitLock[EntityAsked(o)] = NoOperator
    /\ commitLock' = [commitLock EXCEPT ![EntityAsked(o)] = o]
    /\ pc' = [pc EXCEPT ![o] = "entered"]
    /\ UNCHANGED <<db, batchLock, req, view, held>>

\* End of a request: its transaction's read view and row locks are gone.
EndOfTransaction(o) ==
    /\ batchLock' = [b \in Batch |-> IF batchLock[b] = o THEN NoOperator ELSE batchLock[b]]
    /\ view' = [view EXCEPT ![o] = NoView]
    /\ held' = [held EXCEPT ![o] = NoBatchYet]
    /\ req' = [req EXCEPT ![o] = IF pc'[o] = "releasing" THEN @ ELSE NoRequest]

CommitLockTimeout(o) ==
    /\ pc[o] = "wanting"
    /\ commitLock[EntityAsked(o)] # NoOperator
    /\ pc' = [pc EXCEPT ![o] = "idle"]
    /\ EndOfTransaction(o)
    /\ UNCHANGED <<db, commitLock>>

\* Mutant: the batch of every review is read before the lock is waited for.
StaleHeldBatch(o) ==
    IF pc[o] = "scoped" THEN view[o].batch ELSE db.batch[req[o].batch]

\* get_batch(lock=True).  ProductReviewService.acknowledge has loaded the
\* batch before and keeps it, so that its session returns that object.
HeldBatch(o) ==
    IF pc[o] = "scoped" /\ EntityAsked(o) # "CUSTOMER"
    THEN view[o].batch
    ELSE db.batch[req[o].batch]

LockBatch(o) ==
    /\ pc[o] \in {"scoped", "entered"}
    /\ batchLock[req[o].batch] = NoOperator
    /\ batchLock' = [batchLock EXCEPT ![req[o].batch] = o]
    /\ held' = [held EXCEPT ![o] = HeldBatch(o)]
    /\ pc' = [pc EXCEPT ![o] = IF @ = "scoped" THEN "acking" ELSE "committing"]
    /\ UNCHANGED <<db, commitLock, req, view>>

-----------------------------------------------------------------------------
(* Acknowledging warnings *)

Seen(o) == FindingsAt(view[o], req[o].batch, held[o].version)
SeenDecisions(o) == DecisionsAt(view[o], req[o].batch, held[o].version)

AckAllowed(o) ==
    /\ held[o].status \in {"REVIEW", "READY_TO_COMMIT"}
    /\ req[o].version = held[o].version
    /\ req[o].chosen \subseteq {f \in Seen(o) : IsWarning(f)}
    /\ req[o].chosen \cap SeenDecisions(o) = {}

\* The next version's copy of a finding.
CopyOf(o, f) ==
    [origin |-> f.origin, version |-> held[o].version + 1,
     copied |-> f.copied \cup {g.origin : g \in req[o].chosen}]

\* Mutant: only the new decisions are written under the new version.
NewDecisionsOnly(o) == {CopyOf(o, f) : f \in req[o].chosen}

NewDecisions(o) == {CopyOf(o, f) : f \in SeenDecisions(o) \cup req[o].chosen}

\* uq_mdm_import_decision_version_subject_gate: one decision per subject and
\* version.
UniqueClash(o) ==
    \E d \in NewDecisions(o), e \in db.decisions :
        d.origin = e.origin /\ d.version = e.version

\* acknowledge and _apply_readiness; the writes reach db at the commit.
Acknowledge(o) ==
    LET b == req[o].batch
        next == held[o].version + 1
        copies == {CopyOf(o, f) : f \in Seen(o)}
        findings == FindingsAt(view[o], b, next) \cup copies
        acked == DecisionsAt(view[o], b, next) \cup NewDecisions(o)
        rows == [r \in RowsOf(b) |->
                    RowReadiness(view[o].row[r].status = "EXISTING",
                                 {f \in findings : f.origin.row = r}, acked)]
    IN  /\ pc[o] = "acking"
        /\ AckAllowed(o)
        /\ ~UniqueClash(o)
        /\ db' = [db EXCEPT
                !.findings = @ \cup copies,
                !.decisions = @ \cup NewDecisions(o),
                !.row = Patched(@, [r \in RowsOf(b) |->
                            Flushed(view[o].row[r], rows[r], db.row[r])]),
                !.batch[b] = Flushed(held[o], BatchReadiness(b, next, rows), @)]
        /\ pc' = [pc EXCEPT ![o] = "idle"]
        /\ EndOfTransaction(o)
        /\ UNCHANGED commitLock

RejectAck(o) ==
    /\ pc[o] = "acking"
    /\ ~AckAllowed(o) \/ UniqueClash(o)
    /\ pc' = [pc EXCEPT ![o] = "idle"]
    /\ EndOfTransaction(o)
    /\ UNCHANGED <<db, commitLock>>

-----------------------------------------------------------------------------
(* Committing a batch *)

AskedRows(o) == RowsOf(req[o].batch)
CreateRows(o) == {r \in AskedRows(o) : view[o].row[r].status = "READY"}
ExistingRows(o) == {r \in AskedRows(o) : view[o].row[r].status = "EXISTING"}

\* Mutant: the rows themselves are not looked at.
GateWithoutRows(o) ==
    /\ held[o].status = "READY_TO_COMMIT"
    /\ held[o].errors = 0 /\ held[o].warnings = 0
    /\ Seen(o) \subseteq SeenDecisions(o)

\* _require_commit_batch and _final_quality_gate: the batch is fresh, its
\* rows, findings and decisions are those of the snapshot.
QualityGate(o) ==
    /\ held[o].status = "READY_TO_COMMIT"
    /\ held[o].errors = 0 /\ held[o].warnings = 0
    /\ Seen(o) \subseteq SeenDecisions(o)
    /\ CreateRows(o) \cup ExistingRows(o) = AskedRows(o)

\* Parents of r that are masters: not created by the same workbook.
ParentMasters(o, r) ==
    IF view[o].row[r].reviewed = "PARENT_NULL" THEN {}
    ELSE {m \in ParentOf[r] : \A s \in ParentRows(r) : s \in ExistingRows(o)}

RefsNeeded(o) == UNION {RefsOf[r] \cup ParentMasters(o, r) : r \in CreateRows(o)}
CodesCreated(o) == {CodeOf[r] : r \in CreateRows(o)}

\* The Customer that _revalidate_masters still refers to after its loop over
\* the existing rows: that of the last one.
KeptCustomer(o) ==
    IF EntityAsked(o) = "CUSTOMER"
    THEN {CodeOf[r] : r \in {s \in ExistingRows(o) : \A t \in ExistingRows(o) : t <= s}}
    ELSE {}

\* Mutant: references are read without FOR UPDATE, from the snapshot.
SnapshotReference(o, m) == view[o].master[m]

\* _active_reference
ReferenceRead(o, m) == IF m \in KeptCustomer(o) THEN view[o].master[m] ELSE db.master[m]

ExistingRead(o, m) == IF EntityAsked(o) = "CUSTOMER" THEN view[o].master[m] ELSE db.master[m]

MastersValid(o) ==
    /\ \A r \in ExistingRows(o) : ExistingRead(o, CodeOf[r]).kind = "SAME"
    /\ \A m \in CodesCreated(o) : db.master[m].kind = "NONE"
    /\ \A m \in RefsNeeded(o) : ReferenceRead(o, m).active

\* Master rows and index gaps locked with FOR UPDATE.
LocksOf(o) ==
    IF pc[o] # "revalidated" THEN {}
    ELSE CodesCreated(o) \cup RefsNeeded(o) \cup
         (IF EntityAsked(o) = "CUSTOMER" THEN {} ELSE {CodeOf[r] : r \in ExistingRows(o)})

Unlocked(m) == \A o \in Operator : m \notin LocksOf(o)

\* _revalidate_masters, _revalidate_products.  The gap locks of two commits
\* do not exclude each other, row locks do.
Revalidate(o) ==
    /\ pc[o] = "committing"
    /\ QualityGate(o)
    /\ MastersValid(o)
    /\ \A m \in RefsNeeded(o) : Unlocked(m)
    /\ pc' = [pc EXCEPT ![o] = "revalidated"]
    /\ UNCHANGED <<db, batchLock, commitLock, req, view, held>>

RejectCommit(o) ==
    /\ pc[o] = "committing"
    /\ ~(QualityGate(o) /\ MastersValid(o))
    /\ pc' = [pc EXCEPT ![o] = "releasing"]
    /\ EndOfTransaction(o)
    /\ UNCHANGED <<db, commitLock>>

\* The rest of commit: an insert waits for the gap locks of others, and codes
\* are unique.
CommitMasters(o) ==
    /\ pc[o] = "revalidated"
    /\ \A m \in CodesCreated(o) : db.master[m].kind = "NONE"
    /\ \A m \in CodesCreated(o), p \in Operator \ {o} : m \notin LocksOf(p)
    /\ db' = [db EXCEPT
            !.master = Patched(@, [m \in CodesCreated(o) |-> [kind |-> "SAME", active |-> TRUE]]),
            !.row = Patched(@, [r \in CreateRows(o) |-> [db.row[r] EXCEPT !.status = "COMMITTED"]]),
            !.batch[req[o].batch].status = "COMMITTED"]
    /\ pc' = [pc EXCEPT ![o] = "releasing"]
    /\ EndOfTransaction(o)
    /\ UNCHANGED commitLock

Unlocking(o) ==
    commitLock' = [e \in Entity |-> IF commitLock[e] = o THEN NoOperator ELSE commitLock[e]]

\* _release_global_lock
ReleaseCommitLock(o) ==
    /\ pc[o] = "releasing"
    /\ Unlocking(o)
    /\ pc' = [pc EXCEPT ![o] = "idle"]
    /\ req' = [req EXCEPT ![o] = NoRequest]
    /\ UNCHANGED <<db, batchLock, view, held>>

-----------------------------------------------------------------------------
(* Failures *)

\* A lock wait times out, a deadlock victim is chosen, a statement fails.
StatementFails(o) ==
    /\ pc[o] \in {"scoped", "acking", "entered", "committing", "revalidated"}
    /\ pc' = [pc EXCEPT ![o] = IF @ \in {"scoped", "acking"} THEN "idle" ELSE "releasing"]
    /\ EndOfTransaction(o)
    /\ UNCHANGED <<db, commitLock>>

\* The connection that holds the advisory lock is lost; the session's is not.
LockConnectionLost(o) ==
    /\ \E e \in Entity : commitLock[e] = o
    /\ Unlocking(o)
    /\ UNCHANGED <<db, batchLock, pc, req, view, held>>

-----------------------------------------------------------------------------
(* Edits of masters (webapp/mdm/api.py), one transaction each.  The check  *)
(* that no active record refers to a deactivated Customer is a plain read  *)
(* that a commit can outdate; it is left out.                              *)

SetMaster(m, new) ==
    /\ Unlocked(m)
    /\ db' = [db EXCEPT !.master[m] = new]
    /\ UNCHANGED <<batchLock, commitLock, pc, req, view, held>>

CreateMaster(m) ==
    /\ db.master[m].kind = "NONE"
    /\ \E k \in {"SAME", "OTHER"} : SetMaster(m, [kind |-> k, active |-> TRUE])

RenameMaster(m) ==
    /\ db.master[m].kind # "NONE"
    /\ SetMaster(m, [db.master[m] EXCEPT !.kind = IF @ = "SAME" THEN "OTHER" ELSE "SAME"])

SetActive(m) ==
    /\ db.master[m].kind # "NONE"
    /\ SetMaster(m, [db.master[m] EXCEPT !.active = ~@])

-----------------------------------------------------------------------------

OperatorStep(o) ==
    \/ \E b \in Batch : SubmitAck(o, b) \/ SubmitCommit(o, b)
    \/ AcquireCommitLock(o) \/ CommitLockTimeout(o) \/ LockBatch(o)
    \/ Acknowledge(o) \/ RejectAck(o)
    \/ Revalidate(o) \/ RejectCommit(o) \/ CommitMasters(o) \/ ReleaseCommitLock(o)
    \/ StatementFails(o) \/ LockConnectionLost(o)

MasterEdit ==
    \/ \E m \in Named : CreateMaster(m) \/ RenameMaster(m)
    \/ \E m \in Switched : SetActive(m)

Next ==
    \/ \E b \in Batch : Upload(b)
    \/ \E o \in Operator : OperatorStep(o)
    \/ MasterEdit

Spec == Init /\ [][Next]_vars

-----------------------------------------------------------------------------
(* Properties *)

ReviewTypeOK ==
    /\ db \in DB
    /\ batchLock \in [Batch -> Operator \cup {NoOperator}]
    /\ commitLock \in [Entity -> Operator \cup {NoOperator}]
    /\ pc \in [Operator -> Phase]
    /\ req \in [Operator -> [batch: Batch, version: Nat, chosen: SUBSET Finding]]
    /\ view \in [Operator -> (UNION {ViewOf(b) : b \in Batch}) \cup {NoView}]
    /\ \A o \in Operator : view[o] # NoView => view[o] \in ViewOf(req[o].batch)
    /\ held \in [Operator -> BatchRecord]

\* Batches whose review loads nothing before it holds the batch lock.
FreshReview == {b \in Batch : EntityOf[b] = "CUSTOMER"}

Origins(fs) == {f.origin : f \in fs}
Current(b) == FindingsAt(db, b, db.batch[b].version)
Acknowledged(b) == DecisionsAt(db, b, db.batch[b].version)

\* Every review version of a batch holds exactly one copy of every finding of
\* the first one, and no version is ahead of the batch.
OneCopyPerVersion ==
    \A b \in FreshReview :
        LET last == db.batch[b].version
            all == {f \in db.findings : BatchOf[f.origin.row] = b}
        IN  /\ \A f \in all : f.version <= last
            /\ \A v \in 1..last :
                /\ Origins(FindingsAt(db, b, v)) = Origins(FindingsAt(db, b, 1))
                /\ \A f, g \in FindingsAt(db, b, v) : f.origin = g.origin => f = g

\* A batch is offered for commit, or committed, only with no error and no
\* warning left open, and rows that can be committed.
ReadinessIsTrue ==
    \A b \in FreshReview :
        LET left == Origins(Current(b)) \ Origins(Acknowledged(b)) IN
        /\ db.batch[b].status \in {"READY_TO_COMMIT", "COMMITTED"} => left = {}
        /\ db.batch[b].status = "READY_TO_COMMIT" =>
                \A r \in RowsOf(b) : db.row[r].status \in {"READY", "EXISTING"}

\* A commit is all or nothing: every row of a committed batch was created, and
\* its master is there, or was found to exist; no row of another batch was.
CommitIsWhole ==
    \A r \in {s \in Row : BatchOf[s] \in FreshReview} :
        /\ db.batch[BatchOf[r]].status = "COMMITTED" =>
                db.row[r].status \in {"COMMITTED", "EXISTING"}
        /\ db.row[r].status = "COMMITTED" =>
                /\ db.batch[BatchOf[r]].status = "COMMITTED"
                /\ db.master[CodeOf[r]].kind # "NONE"

\* A row that a commit turns into a master refers, at that moment, to active
\* channels, sales representatives and other reference masters only.
ReferencesAreActive ==
    [][\A r \in Row :
        db.row[r].status # "COMMITTED" /\ db'.row[r].status = "COMMITTED"
            => \A m \in RefsOf[r] : db'.master[m].active]_vars

\* So is its parent Customer, unless the review resolved it to none.
ParentsAreActive ==
    [][\A r \in Row :
        db.row[r] = [status |-> "READY", reviewed |-> "FINAL"]
            /\ db'.row[r].status = "COMMITTED"
            => \A m \in ParentOf[r] : db'.master[m].active]_vars

\* A committed Customer batch keeps its version, its counters and its rows.
CommittedIsFinal ==
    [][\A b \in FreshReview :
        db.batch[b].status = "COMMITTED" =>
            /\ db'.batch[b] = db.batch[b]
            /\ \A r \in RowsOf(b) : db'.row[r] = db.row[r]]_vars

\* A decision is recorded only for a request that names the review version
\* the batch has, so that none is based on an outdated review.
StaleVersionsAreRejected ==
    [][\A b \in Batch :
        (\E d \in db'.decisions \ db.decisions : BatchOf[d.origin.row] = b) =>
            \E o \in Operator :
                /\ pc[o] = "acking" /\ pc'[o] = "idle" /\ req[o].batch = b
                /\ req[o].version = db.batch[b].version]_vars

\* Reviews of Customer batches implement the book of issues: an issue is open
\* as long as the batch's version holds no decision on it.
Book == INSTANCE ReviewBook WITH
    Batch <- FreshReview,
    Issue <- [row: Row, rule: WarningRule \cup ErrorRule],
    IsError <- LAMBDA i : i.rule \in ErrorRule,
    status <- [b \in FreshReview |-> db.batch[b].status],
    open <- [b \in FreshReview |-> Origins(Current(b)) \ Origins(Acknowledged(b))]

ImplementsReviewBook == Book!BookSpec

=============================================================================

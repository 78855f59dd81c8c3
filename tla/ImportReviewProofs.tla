------------------------- MODULE ImportReviewProofs -------------------------
(***************************************************************************)
(* Proofs about ImportReview for any batches, finite workbooks, masters    *)
(* and operators.                                                          *)
(***************************************************************************)
EXTENDS ImportReview, FiniteSetTheorems, TLAPS

-----------------------------------------------------------------------------
(* The inductive invariant *)

RowFindings(d, b, r) == {f \in FindingsAt(d, b, d.batch[b].version) : f.origin.row = r}

Open(d, b) ==
    Origins(FindingsAt(d, b, d.batch[b].version)) \
        Origins(DecisionsAt(d, b, d.batch[b].version))

\* Versions are copies of each other, one copy of each finding in each, and
\* decisions acknowledge warnings among them.
VersionsOK(d, b) ==
    LET last == d.batch[b].version IN
    /\ d.batch[b].status = "ABSENT" <=> last = 0
    /\ \A f \in d.findings : BatchOf[f.origin.row] = b => f.version <= last
    /\ \A v \in 1..last :
        /\ Origins(FindingsAt(d, b, v)) = Origins(FindingsAt(d, b, 1))
        /\ \A f, g \in FindingsAt(d, b, v) : f.origin = g.origin => f = g
    /\ \A f \in d.decisions : BatchOf[f.origin.row] = b => f \in d.findings /\ IsWarning(f)

\* Rows and status of a batch say what its findings and decisions say.
RowsOK(d, b) ==
    LET st == d.batch[b].status
        acked == DecisionsAt(d, b, d.batch[b].version)
    IN  /\ st \in {"REVIEW", "READY_TO_COMMIT"} =>
            /\ \A r \in RowsOf(b) :
                /\ d.row[r] = RowReadiness(d.row[r].status = "EXISTING",
                                           RowFindings(d, b, r), acked)
                /\ d.row[r].status = "EXISTING" => RowFindings(d, b, r) = {}
            /\ st = "READY_TO_COMMIT" <=>
                \A r \in RowsOf(b) : d.row[r].status \notin {"WARNING", "ERROR"}
        /\ st = "COMMITTED" =>
            /\ Open(d, b) = {}
            /\ \A r \in RowsOf(b) : d.row[r].status \in {"COMMITTED", "EXISTING"}
        /\ st = "ABSENT" => \A r \in RowsOf(b) : d.row[r].status = "ABSENT"

\* What a snapshot w of batch b says of the tables d it was taken from: it has
\* all versions up to its own, and its rows are those of its version.
ViewOK(d, w, b) ==
    LET last == w.batch.version IN
    /\ last <= d.batch[b].version
    /\ w.findings = {f \in d.findings : BatchOf[f.origin.row] = b /\ f.version <= last}
    /\ w.decisions = {f \in d.decisions : BatchOf[f.origin.row] = b /\ f.version <= last}
    /\ last = d.batch[b].version /\ d.batch[b].status # "COMMITTED" =>
            \A r \in RowsOf(b) : w.row[r] = d.row[r]
    /\ \A r \in RowsOf(b) : w.row[r].status = "EXISTING" <=> d.row[r].status = "EXISTING"

MastersOK(d) ==
    \A r \in Row :
        BatchOf[r] \in FreshReview /\ d.row[r].status = "COMMITTED" =>
            d.master[CodeOf[r]].kind # "NONE"

InRequest == Phase \ {"idle", "releasing"}
HoldsBatch == {"acking", "committing", "revalidated"}

ViewInv(o) ==
    LET b == req[o].batch IN
    /\ pc[o] \notin InRequest => view[o] = NoView
    /\ pc[o] \in InRequest => view[o] \in ViewOf(b) /\ db.batch[b].status # "ABSENT"
    /\ pc[o] \in InRequest /\ b \in FreshReview => ViewOK(db, view[o], b)
    /\ pc[o] \in {"scoped", "acking"} => req[o].chosen # {}

\* Who holds a batch lock holds the batch as it is, but for the reviews that
\* have loaded it before.
HeldInv(o) ==
    LET b == req[o].batch IN
    /\ pc[o] \in HoldsBatch => batchLock[b] = o
    /\ pc[o] \in HoldsBatch /\ (b \in FreshReview \/ pc[o] # "acking") =>
            held[o] = db.batch[b]

\* From the last validation of a commit to its inserts, its references stay.
CommitInv(o) ==
    pc[o] = "revalidated" =>
        /\ QualityGate(o)
        /\ \A r \in CreateRows(o) : \A m \in RefsOf[r] : db.master[m].active

RequestInv(o) == ViewInv(o) /\ HeldInv(o) /\ CommitInv(o)

ReviewsOK(d) == \A b \in FreshReview : VersionsOK(d, b) /\ RowsOK(d, b)

UnstagedOK(d) == \A b \in Batch : d.batch[b].status = "ABSENT" => d.batch[b].version = 0

IInv ==
    /\ ReviewTypeOK
    /\ ReviewsOK(db)
    /\ UnstagedOK(db)
    /\ MastersOK(db)
    /\ \A o \in Operator : RequestInv(o)

-----------------------------------------------------------------------------
(* The operators of the model *)

LEMMA FlushedRow ==
    ASSUME NEW loaded \in RowRecord, NEW new \in RowRecord, NEW current \in RowRecord
    PROVE  /\ Flushed(loaded, new, current) \in RowRecord
           /\ loaded = current => Flushed(loaded, new, current) = new
BY DEF Flushed, RowRecord

LEMMA FlushedBatch ==
    ASSUME NEW loaded \in BatchRecord, NEW new \in BatchRecord, NEW current \in BatchRecord
    PROVE  /\ Flushed(loaded, new, current) \in BatchRecord
           /\ loaded = current => Flushed(loaded, new, current) = new
           /\ Flushed(loaded, new, current).status \in {new.status, current.status}
BY DEF Flushed, BatchRecord

LEMMA RowReadinessType ==
    ASSUME NEW existing, NEW fs, NEW acked
    PROVE  /\ RowReadiness(existing, fs, acked) \in RowRecord
           /\ RowReadiness(existing, fs, acked).status
                \in {"EXISTING", "ERROR", "WARNING", "READY"}
BY DEF RowReadiness, RowRecord, RowStatus, Reviewed

\* What the status of a row says of its findings.
LEMMA RowReadinessMeans ==
    ASSUME NEW row, NEW fs, NEW acked,
           row = RowReadiness(row.status = "EXISTING", fs, acked)
    PROVE  /\ row.status \in {"EXISTING", "ERROR", "WARNING", "READY"}
           /\ row.status = "READY" => fs \subseteq acked
           /\ fs \subseteq acked /\ (\A f \in fs : IsWarning(f)) =>
                row.status \in {"EXISTING", "READY"}
<1>1. CASE row.status = "EXISTING"
  BY <1>1
<1>2. CASE row.status # "EXISTING"
  BY <1>2 DEF RowReadiness
<1>3. QED
  BY <1>1, <1>2

LEMMA BatchReadinessMeans ==
    ASSUME NEW b \in Batch, NEW v \in Nat, NEW rows
    PROVE  LET new == BatchReadiness(b, v, rows) IN
           /\ new \in BatchRecord
           /\ new.version = v
           /\ new.status \in {"REVIEW", "READY_TO_COMMIT"}
           /\ new.status = "READY_TO_COMMIT" <=>
                \A r \in RowsOf(b) : rows[r].status \notin {"WARNING", "ERROR"}
<1> DEFINE W == {r \in RowsOf(b) : rows[r].status = "WARNING"}
           E == {r \in RowsOf(b) : rows[r].status = "ERROR"}
<1>1. IsFiniteSet(RowsOf(b))
  BY WorkbookAssumption DEF RowsOf
<1>2. IsFiniteSet(W) /\ IsFiniteSet(E)
  BY <1>1, FS_Subset
<1>3. /\ Cardinality(W) \in Nat /\ Cardinality(E) \in Nat
      /\ Cardinality(W) = 0 <=> W = {}
      /\ Cardinality(E) = 0 <=> E = {}
  BY <1>2, FS_CardinalityType, FS_EmptySet
<1>4. BatchReadiness(b, v, rows) =
        [version |-> v, warnings |-> Cardinality(W), errors |-> Cardinality(E),
         status |-> IF Cardinality(W) + Cardinality(E) > 0 THEN "REVIEW" ELSE "READY_TO_COMMIT"]
  BY DEF BatchReadiness, Quantify
<1>5. Cardinality(W) + Cardinality(E) > 0 <=> W # {} \/ E # {}
  BY <1>3
<1>6. W # {} \/ E # {} <=> \E r \in RowsOf(b) : rows[r].status \in {"WARNING", "ERROR"}
  OBVIOUS
<1>7. BatchReadiness(b, v, rows) \in BatchRecord
  BY <1>3, <1>4 DEF BatchRecord, BatchStatus
<1>8. QED
  BY <1>4, <1>5, <1>6, <1>7

LEMMA PatchedType ==
    ASSUME NEW S, NEW T, NEW f \in [S -> T], NEW U \in SUBSET S, NEW g \in [U -> T]
    PROVE  /\ Patched(f, g) \in [S -> T]
           /\ \A x \in U : Patched(f, g)[x] = g[x]
           /\ \A x \in S \ U : Patched(f, g)[x] = f[x]
BY DEF Patched

\* The batch of a finding.
LEMMA FindingType ==
    ASSUME NEW f \in Finding
    PROVE  /\ f.origin \in Origin /\ f.origin.row \in Row /\ BatchOf[f.origin.row] \in Batch
           /\ f.origin.row \in RowsOf(BatchOf[f.origin.row])
           /\ f.version \in Nat \ {0} /\ f.copied \in SUBSET Origin
BY ImportAssumption DEF Finding, Origin, RowsOf

\* Nothing is left open exactly when the rows say so.
LEMMA ReadyMeansNothingOpen ==
    ASSUME NEW d \in DB, NEW b \in Batch, VersionsOK(d, b), RowsOK(d, b),
           d.batch[b].status \in {"REVIEW", "READY_TO_COMMIT"}
    PROVE  d.batch[b].status = "READY_TO_COMMIT" <=> Open(d, b) = {}
<1> DEFINE last == d.batch[b].version
           found == FindingsAt(d, b, last)
           acked == DecisionsAt(d, b, last)
<1>1. last \in Nat /\ last # 0 /\ d.findings \subseteq Finding
  BY DEF DB, BatchRecord, VersionsOK
<1>2. last \in 1..last
  BY <1>1
<1>3. acked \subseteq found /\ \A f \in acked : IsWarning(f)
  BY DEF VersionsOK, DecisionsAt, FindingsAt
<1>4. \A f, g \in found : f.origin = g.origin => f = g
  BY <1>2 DEF VersionsOK
<1>5. Open(d, b) = {} <=> found \subseteq acked
  BY <1>3, <1>4 DEF Open, Origins
<1>6. \A f \in found : f.origin.row \in RowsOf(b)
  BY <1>1, FindingType DEF FindingsAt
<1>7. found \subseteq acked <=> \A r \in RowsOf(b) : RowFindings(d, b, r) \subseteq acked
  BY <1>6 DEF RowFindings
<1>8. ASSUME NEW r \in RowsOf(b)
      PROVE  d.row[r].status \notin {"WARNING", "ERROR"} <=> RowFindings(d, b, r) \subseteq acked
  <2> DEFINE fs == RowFindings(d, b, r)
  <2>1. /\ d.row[r] = RowReadiness(d.row[r].status = "EXISTING", fs, acked)
        /\ d.row[r].status = "EXISTING" => fs = {}
    BY DEF RowsOK
  <2>2. fs \subseteq acked => \A f \in fs : IsWarning(f)
    BY <1>3
  <2>3. /\ d.row[r].status \in {"EXISTING", "ERROR", "WARNING", "READY"}
        /\ d.row[r].status = "READY" => fs \subseteq acked
        /\ fs \subseteq acked /\ (\A f \in fs : IsWarning(f)) =>
                d.row[r].status \in {"EXISTING", "READY"}
    BY <2>1, RowReadinessMeans
  <2>4. fs = {} => fs \subseteq acked
    OBVIOUS
  <2>5. d.row[r].status \notin {"WARNING", "ERROR"} <=> fs \subseteq acked
    <3> HIDE DEF fs, acked
    <3>1. QED
      BY <2>1, <2>2, <2>3, <2>4
  <2>6. QED
    BY <2>5
<1>9. d.batch[b].status = "READY_TO_COMMIT" <=>
        \A r \in RowsOf(b) : d.row[r].status \notin {"WARNING", "ERROR"}
  BY DEF RowsOK
<1>10. QED
  BY <1>5, <1>7, <1>8, <1>9

-----------------------------------------------------------------------------
(* What a change of other batches leaves alone *)

FindingsOf(d, b) == {f \in d.findings : BatchOf[f.origin.row] = b}
DecisionsOf(d, b) == {f \in d.decisions : BatchOf[f.origin.row] = b}

SameReview(d1, d2, b) ==
    /\ d1.batch[b] = d2.batch[b]
    /\ \A r \in RowsOf(b) : d1.row[r] = d2.row[r]
    /\ FindingsOf(d1, b) = FindingsOf(d2, b)
    /\ DecisionsOf(d1, b) = DecisionsOf(d2, b)

LEMMA FrameReview ==
    ASSUME NEW d1, NEW d2, NEW b \in Batch, SameReview(d1, d2, b)
    PROVE  /\ \A v : FindingsAt(d1, b, v) = FindingsAt(d2, b, v)
           /\ \A v : DecisionsAt(d1, b, v) = DecisionsAt(d2, b, v)
           /\ VersionsOK(d1, b) => VersionsOK(d2, b)
           /\ RowsOK(d1, b) => RowsOK(d2, b)
           /\ Open(d1, b) = Open(d2, b)
<1>1. \A f : BatchOf[f.origin.row] = b => (f \in d1.findings <=> f \in d2.findings)
  BY DEF SameReview, FindingsOf
<1>2. \A f : BatchOf[f.origin.row] = b => (f \in d1.decisions <=> f \in d2.decisions)
  BY DEF SameReview, DecisionsOf
<1>3. \A v : FindingsAt(d1, b, v) = FindingsAt(d2, b, v)
  BY <1>1 DEF FindingsAt
<1>4. \A v : DecisionsAt(d1, b, v) = DecisionsAt(d2, b, v)
  BY <1>2 DEF DecisionsAt
<1>5. d1.batch[b] = d2.batch[b]
  BY DEF SameReview
<1>6. VersionsOK(d1, b) => VersionsOK(d2, b)
  BY <1>1, <1>2, <1>3, <1>5 DEF VersionsOK
<1>7. Open(d1, b) = Open(d2, b)
  BY <1>3, <1>4, <1>5 DEF Open
<1>8. \A r \in RowsOf(b) : d1.row[r] = d2.row[r] /\ RowFindings(d1, b, r) = RowFindings(d2, b, r)
  BY <1>3, <1>5 DEF SameReview, RowFindings
<1>9. RowsOK(d1, b) => RowsOK(d2, b)
  BY <1>4, <1>5, <1>7, <1>8 DEF RowsOK
<1>10. QED
  BY <1>3, <1>4, <1>6, <1>7, <1>9

LEMMA FrameView ==
    ASSUME NEW d1, NEW d2, NEW b \in Batch, SameReview(d1, d2, b), NEW w, ViewOK(d1, w, b)
    PROVE  ViewOK(d2, w, b)
<1>1. {f \in d1.findings : BatchOf[f.origin.row] = b /\ f.version <= w.batch.version} =
      {f \in d2.findings : BatchOf[f.origin.row] = b /\ f.version <= w.batch.version}
  BY DEF SameReview, FindingsOf
<1>2. {f \in d1.decisions : BatchOf[f.origin.row] = b /\ f.version <= w.batch.version} =
      {f \in d2.decisions : BatchOf[f.origin.row] = b /\ f.version <= w.batch.version}
  BY DEF SameReview, DecisionsOf
<1>3. QED
  BY <1>1, <1>2 DEF ViewOK, SameReview

\* A snapshot taken now.
LEMMA FreshView ==
    ASSUME ReviewTypeOK, NEW b \in Batch
    PROVE  /\ ReadView(b) \in ViewOf(b)
           /\ VersionsOK(db, b) => ViewOK(db, ReadView(b), b)
<1>1. db \in DB
  BY DEF ReviewTypeOK
<1>2. ReadView(b) \in ViewOf(b)
  <2>1. [r \in RowsOf(b) |-> db.row[r]] \in [RowsOf(b) -> RowRecord]
    BY <1>1 DEF DB, RowsOf
  <2>2. /\ {f \in db.findings : BatchOf[f.origin.row] = b} \in SUBSET Finding
        /\ {f \in db.decisions : BatchOf[f.origin.row] = b} \in SUBSET Finding
        /\ db.batch[b] \in BatchRecord /\ db.master \in [Master -> MasterRecord]
    BY <1>1 DEF DB
  <2>3. QED
    BY <2>1, <2>2 DEF ReadView, ViewOf
<1>3. ASSUME VersionsOK(db, b) PROVE ViewOK(db, ReadView(b), b)
  <2> DEFINE w == ReadView(b)
             last == db.batch[b].version
  <2>1. w.batch = db.batch[b] /\ last \in Nat
    BY <1>1 DEF ReadView, DB, BatchRecord
  <2>2. \A r \in RowsOf(b) : w.row[r] = db.row[r]
    BY DEF ReadView
  <2>3. w.findings = {f \in db.findings : BatchOf[f.origin.row] = b /\ f.version <= last}
    BY <1>3 DEF ReadView, VersionsOK
  <2>4. w.decisions = {f \in db.decisions : BatchOf[f.origin.row] = b /\ f.version <= last}
    BY <1>3 DEF ReadView, VersionsOK
  <2>5. QED
    BY <2>1, <2>2, <2>3, <2>4 DEF ViewOK
<1>4. QED
  BY <1>2, <1>3

-----------------------------------------------------------------------------
(* Staging *)

LEMMA UploadEffect ==
    ASSUME ReviewTypeOK, ReviewsOK(db), NEW b \in Batch, Upload(b)
    PROVE  /\ db' \in DB
           /\ db.batch[b].status = "ABSENT" /\ db'.batch[b].status \in {"REVIEW", "READY_TO_COMMIT"}
           /\ db'.master = db.master
           /\ \A r \in Row : db'.row[r].status = "COMMITTED" => db.row[r].status = "COMMITTED"
           /\ \A c \in Batch \ {b} : SameReview(db, db', c)
           /\ b \in FreshReview => VersionsOK(db', b) /\ RowsOK(db', b)
<1> DEFINE existing(r) == Exists(r) /\ ~DuplicateInFile(r)
           found == UNION {{Found(r, rule) : rule \in RulesFor(r)} :
                            r \in {s \in RowsOf(b) : ~existing(s)}}
           rows == [r \in RowsOf(b) |->
                    RowReadiness(existing(r), {f \in found : f.origin.row = r}, {})]
<1>1. db \in DB /\ db.batch[b].status = "ABSENT"
  BY DEF ReviewTypeOK, Upload, Unstaged
<1>2. db' = [db EXCEPT !.findings = @ \cup found,
                       !.row = Patched(@, rows),
                       !.batch[b] = BatchReadiness(b, 1, rows)]
  BY DEF Upload
<1>3. rows \in [RowsOf(b) -> RowRecord] /\ RowsOf(b) \in SUBSET Row
  BY RowReadinessType DEF RowsOf
<1>4. ASSUME NEW f \in found
      PROVE  /\ f \in Finding /\ f.origin.row \in RowsOf(b) /\ ~existing(f.origin.row)
             /\ f = Found(f.origin.row, f.origin.rule)
             /\ BatchOf[f.origin.row] = b /\ f.version = 1
  <2>1. PICK r \in RowsOf(b) : ~existing(r) /\ \E rule \in RulesFor(r) : f = Found(r, rule)
    <3> HIDE DEF existing
    <3>1. QED
      OBVIOUS
  <2> PICK rule \in RulesFor(r) : f = Found(r, rule)
    BY <2>1
  <2>2. rule \in WarningRule \cup ErrorRule /\ r \in Row /\ BatchOf[r] = b
    BY <2>1 DEF RulesFor, RowsOf
  <2>3. /\ f = [origin |-> [row |-> r, rule |-> rule], version |-> 1, copied |-> {}]
        /\ f.origin.row = r /\ f.origin.rule = rule /\ f.version = 1
    BY <2>1 DEF Found
  <2>4. f \in Finding
    BY <2>2, <2>3 DEF Finding, Origin
  <2>5. QED
    BY <2>1, <2>2, <2>3, <2>4
<1> HIDE DEF existing, found
<1>5. /\ BatchReadiness(b, 1, rows) \in BatchRecord
      /\ BatchReadiness(b, 1, rows).version = 1
      /\ BatchReadiness(b, 1, rows).status \in {"REVIEW", "READY_TO_COMMIT"}
      /\ BatchReadiness(b, 1, rows).status = "READY_TO_COMMIT" <=>
                \A r \in RowsOf(b) : rows[r].status \notin {"WARNING", "ERROR"}
  BY BatchReadinessMeans
<1>6. /\ Patched(db.row, rows) \in [Row -> RowRecord]
      /\ \A r \in RowsOf(b) : Patched(db.row, rows)[r] = rows[r]
      /\ \A r \in Row \ RowsOf(b) : Patched(db.row, rows)[r] = db.row[r]
  <2>1. db.row \in [Row -> RowRecord]
    BY <1>1 DEF DB
  <2> HIDE DEF rows
  <2>2. QED
    BY <1>3, <2>1, PatchedType
<1>7. ASSUME NEW r \in RowsOf(b)
      PROVE  /\ rows[r] \in RowRecord
             /\ rows[r].status \in {"EXISTING", "ERROR", "WARNING", "READY"}
             /\ rows[r].status = "EXISTING" <=> existing(r)
             /\ rows[r] = RowReadiness(rows[r].status = "EXISTING",
                                       {f \in found : f.origin.row = r}, {})
  <2>1. rows[r] = RowReadiness(existing(r), {f \in found : f.origin.row = r}, {})
    OBVIOUS
  <2>2. rows[r].status = "EXISTING" <=> existing(r)
    BY <2>1 DEF RowReadiness
  <2>3. rows[r] = RowReadiness(rows[r].status = "EXISTING",
                               {f \in found : f.origin.row = r}, {})
    BY <2>1, <2>2 DEF RowReadiness
  <2>4. QED
    BY <2>1, <2>2, <2>3, RowReadinessType
<1> HIDE DEF rows
<1>8. /\ db'.findings = db.findings \cup found /\ db'.decisions = db.decisions
      /\ db'.row = Patched(db.row, rows) /\ db'.master = db.master
      /\ db'.batch = [db.batch EXCEPT ![b] = BatchReadiness(b, 1, rows)]
      /\ db' \in DB
  <2>1. db' = [batch |-> [db.batch EXCEPT ![b] = BatchReadiness(b, 1, rows)],
               row |-> Patched(db.row, rows), findings |-> db.findings \cup found,
               decisions |-> db.decisions, master |-> db.master]
    BY <1>1, <1>2 DEF DB
  <2>2. [db.batch EXCEPT ![b] = BatchReadiness(b, 1, rows)] \in [Batch -> BatchRecord]
    BY <1>1, <1>5 DEF DB
  <2>3. db.findings \cup found \in SUBSET Finding
    BY <1>1, <1>4 DEF DB
  <2>4. QED
    BY <1>1, <1>6, <2>1, <2>2, <2>3 DEF DB
<1>9. db'.batch[b] = BatchReadiness(b, 1, rows) /\ \A c \in Batch \ {b} : db'.batch[c] = db.batch[c]
  BY <1>1, <1>8 DEF DB
<1>10. ASSUME NEW c \in Batch \ {b} PROVE SameReview(db, db', c)
  <2>1. \A r \in RowsOf(c) : r \in Row \ RowsOf(b)
    BY DEF RowsOf
  <2>2. FindingsOf(db', c) = FindingsOf(db, c)
    BY <1>4, <1>8 DEF FindingsOf
  <2>3. QED
    BY <1>6, <1>8, <1>9, <2>1, <2>2 DEF SameReview, DecisionsOf
<1>11. \A r \in Row : db'.row[r].status = "COMMITTED" => db.row[r].status = "COMMITTED"
  BY <1>6, <1>7, <1>8
<1>12. ASSUME b \in FreshReview PROVE VersionsOK(db', b) /\ RowsOK(db', b)
  <2>1. VersionsOK(db, b) /\ db.batch[b].version = 0 /\ db.findings \subseteq Finding
    BY <1>1, <1>12 DEF ReviewsOK, VersionsOK, DB
  <2>2. FindingsOf(db, b) = {} /\ DecisionsOf(db, b) = {}
    <3>1. \A f \in db.findings : BatchOf[f.origin.row] = b => f.version <= 0
      BY <2>1 DEF VersionsOK
    <3>2. \A f \in db.findings : f.version \in Nat \ {0}
      BY <2>1 DEF Finding
    <3>3. FindingsOf(db, b) = {}
      BY <3>1, <3>2 DEF FindingsOf
    <3>4. QED
      BY <2>1, <3>3 DEF FindingsOf, DecisionsOf, VersionsOK
  <2>3. db'.batch[b].version = 1 /\ db'.batch[b].status \in {"REVIEW", "READY_TO_COMMIT"}
    BY <1>5, <1>9
  <2>4. /\ FindingsAt(db', b, 1) = found
        /\ \A v : DecisionsAt(db', b, v) = {}
    BY <1>4, <1>8, <2>2 DEF FindingsAt, DecisionsAt, FindingsOf, DecisionsOf
  <2>5. VersionsOK(db', b)
    <3>1. \A f \in db'.findings : BatchOf[f.origin.row] = b => f.version = 1
      BY <1>4, <1>8, <2>2 DEF FindingsOf
    <3>2. \A f, g \in found : f.origin = g.origin => f = g
      BY <1>4
    <3>3. \A f \in db'.decisions : BatchOf[f.origin.row] # b
      BY <1>8, <2>2 DEF DecisionsOf
    <3>4. \A v \in 1..1 : v = 1
      OBVIOUS
    <3>5. QED
      BY <2>3, <2>4, <3>1, <3>2, <3>3, <3>4 DEF VersionsOK
  <2>6. RowsOK(db', b)
    <3>1. \A r \in RowsOf(b) : /\ db'.row[r] = rows[r]
                               /\ RowFindings(db', b, r) = {f \in found : f.origin.row = r}
      BY <1>6, <1>8, <2>3, <2>4 DEF RowFindings
    <3>2. \A r \in RowsOf(b) : rows[r].status = "EXISTING" => {f \in found : f.origin.row = r} = {}
      BY <1>4, <1>7
    <3>3. \A r \in RowsOf(b) : db'.row[r] = RowReadiness(db'.row[r].status = "EXISTING",
                RowFindings(db', b, r), DecisionsAt(db', b, 1))
      BY <1>7, <2>4, <3>1
    <3>4. db'.batch[b].status = "READY_TO_COMMIT" <=>
                \A r \in RowsOf(b) : db'.row[r].status \notin {"WARNING", "ERROR"}
      BY <1>5, <1>9, <3>1
    <3>5. QED
      BY <2>3, <3>1, <3>2, <3>3, <3>4 DEF RowsOK
  <2>7. QED
    BY <2>5, <2>6
<1>13. QED
  BY <1>1, <1>5, <1>8, <1>9, <1>10, <1>11, <1>12

-----------------------------------------------------------------------------
(* Acknowledging *)

NextVersion(o) == held[o].version + 1
AckCopies(o) == {CopyOf(o, f) : f \in Seen(o)}
AckFindings(o) == FindingsAt(view[o], req[o].batch, NextVersion(o)) \cup AckCopies(o)
AckDecisions(o) == DecisionsAt(view[o], req[o].batch, NextVersion(o)) \cup NewDecisions(o)
AckRows(o) ==
    [r \in RowsOf(req[o].batch) |->
        RowReadiness(view[o].row[r].status = "EXISTING",
                     {f \in AckFindings(o) : f.origin.row = r}, AckDecisions(o))]
FlushedRows(o) ==
    [r \in RowsOf(req[o].batch) |-> Flushed(view[o].row[r], AckRows(o)[r], db.row[r])]
AckBatch(o) == BatchReadiness(req[o].batch, NextVersion(o), AckRows(o))

LEMMA AckTypes ==
    ASSUME ReviewTypeOK, NEW o \in Operator, ViewInv(o), Acknowledge(o)
    PROVE  /\ req[o].batch \in Batch /\ held[o] \in BatchRecord /\ view[o] \in ViewOf(req[o].batch)
           /\ db \in DB /\ pc[o] = "acking" /\ db.batch[req[o].batch].status # "ABSENT"
           /\ req[o].chosen \in SUBSET Seen(o) /\ req[o].chosen # {}
           /\ \A f \in req[o].chosen : IsWarning(f)
           /\ SeenDecisions(o) \subseteq Finding /\ Seen(o) \subseteq Finding
<1>1. /\ req[o].batch \in Batch /\ held[o] \in BatchRecord /\ db \in DB /\ pc[o] = "acking"
      /\ req[o].chosen \in SUBSET {f \in Seen(o) : IsWarning(f)}
  BY DEF ReviewTypeOK, Acknowledge, AckAllowed
<1>2. /\ view[o] \in ViewOf(req[o].batch) /\ db.batch[req[o].batch].status # "ABSENT"
      /\ req[o].chosen # {}
  BY <1>1 DEF ViewInv, InRequest, Phase
<1>3. view[o].findings \subseteq Finding /\ view[o].decisions \subseteq Finding
  BY <1>2 DEF ViewOf
<1>4. QED
  BY <1>1, <1>2, <1>3 DEF Seen, SeenDecisions, FindingsAt, DecisionsAt

LEMMA CopyType ==
    ASSUME ReviewTypeOK, NEW o \in Operator, req[o].chosen \subseteq Finding, NEW f \in Finding
    PROVE  /\ CopyOf(o, f) \in Finding
           /\ CopyOf(o, f).origin = f.origin /\ CopyOf(o, f).version = NextVersion(o)
           /\ NextVersion(o) \in Nat \ {0}
<1>1. held[o].version \in Nat
  BY DEF ReviewTypeOK, BatchRecord
<1>2. {g.origin : g \in req[o].chosen} \subseteq Origin
  BY FindingType
<1>3. f.copied \cup {g.origin : g \in req[o].chosen} \in SUBSET Origin
  BY <1>2, FindingType
<1>4. held[o].version + 1 \in Nat \ {0} /\ f.origin \in Origin
  BY <1>1, FindingType
<1>5. QED
  BY <1>3, <1>4 DEF CopyOf, Finding, NextVersion

LEMMA AckFields ==
    ASSUME ReviewTypeOK, NEW o \in Operator, ViewInv(o), Acknowledge(o)
    PROVE  LET b == req[o].batch IN
           /\ db' \in DB
           /\ db'.findings = db.findings \cup AckCopies(o)
           /\ db'.decisions = db.decisions \cup NewDecisions(o)
           /\ \A r \in RowsOf(b) : db'.row[r] = Flushed(view[o].row[r], AckRows(o)[r], db.row[r])
           /\ \A r \in Row \ RowsOf(b) : db'.row[r] = db.row[r]
           /\ db'.batch[b] = Flushed(held[o], AckBatch(o), db.batch[b])
           /\ \A c \in Batch \ {b} : db'.batch[c] = db.batch[c]
           /\ db'.master = db.master
           /\ AckBatch(o) \in BatchRecord
           /\ \A r \in RowsOf(b) : AckRows(o)[r] \in RowRecord
<1> DEFINE b == req[o].batch
<1>1. /\ b \in Batch /\ held[o] \in BatchRecord /\ view[o] \in ViewOf(b) /\ db \in DB
      /\ req[o].chosen \in SUBSET Seen(o)
      /\ SeenDecisions(o) \subseteq Finding /\ Seen(o) \subseteq Finding
  BY AckTypes
<1>2. db' = [db EXCEPT
                !.findings = @ \cup AckCopies(o),
                !.decisions = @ \cup NewDecisions(o),
                !.row = Patched(@, FlushedRows(o)),
                !.batch[b] = Flushed(held[o], AckBatch(o), @)]
  BY DEF Acknowledge, AckCopies, AckFindings, AckDecisions, AckRows, AckBatch, FlushedRows,
         NextVersion
<1>3. AckCopies(o) \subseteq Finding /\ NewDecisions(o) \subseteq Finding
  <2>1. req[o].chosen \subseteq Finding
    BY <1>1
  <2>2. \A f \in Finding : CopyOf(o, f) \in Finding
    BY <2>1, CopyType
  <2>3. QED
    BY <1>1, <2>1, <2>2 DEF AckCopies, NewDecisions
<1>4. ASSUME NEW r \in RowsOf(b)
      PROVE  AckRows(o)[r] \in RowRecord /\ FlushedRows(o)[r] \in RowRecord
  <2>1. AckRows(o)[r] \in RowRecord
    BY RowReadinessType DEF AckRows
  <2>2. view[o].row[r] \in RowRecord /\ db.row[r] \in RowRecord
    BY <1>1 DEF ViewOf, DB, RowsOf
  <2>3. QED
    BY <2>1, <2>2, FlushedRow DEF FlushedRows
<1>5. AckBatch(o) \in BatchRecord
  <2>1. NextVersion(o) \in Nat
    BY <1>1 DEF NextVersion, BatchRecord
  <2>2. QED
    BY <1>1, <2>1, BatchReadinessMeans DEF AckBatch
<1>6. Flushed(held[o], AckBatch(o), db.batch[b]) \in BatchRecord
  <2>1. db.batch[b] \in BatchRecord
    BY <1>1 DEF DB
  <2>2. QED
    BY <1>1, <1>5, <2>1, FlushedBatch
<1>7. FlushedRows(o) \in [RowsOf(b) -> RowRecord] /\ RowsOf(b) \in SUBSET Row
  BY <1>4 DEF FlushedRows, RowsOf
<1>8. /\ Patched(db.row, FlushedRows(o)) \in [Row -> RowRecord]
      /\ \A r \in RowsOf(b) : Patched(db.row, FlushedRows(o))[r] = FlushedRows(o)[r]
      /\ \A r \in Row \ RowsOf(b) : Patched(db.row, FlushedRows(o))[r] = db.row[r]
  <2>1. db.row \in [Row -> RowRecord]
    BY <1>1 DEF DB
  <2>2. QED
    BY <1>7, <2>1, PatchedType
<1>9. db' = [batch |-> [db.batch EXCEPT ![b] = Flushed(held[o], AckBatch(o), @)],
             row |-> Patched(db.row, FlushedRows(o)),
             findings |-> db.findings \cup AckCopies(o),
             decisions |-> db.decisions \cup NewDecisions(o), master |-> db.master]
  BY <1>1, <1>2 DEF DB
<1>10. [db.batch EXCEPT ![b] = Flushed(held[o], AckBatch(o), @)] \in [Batch -> BatchRecord]
  BY <1>1, <1>6 DEF DB
<1>11. db' \in DB
  BY <1>1, <1>3, <1>8, <1>9, <1>10 DEF DB
<1>12. /\ db'.batch[b] = Flushed(held[o], AckBatch(o), db.batch[b])
       /\ \A c \in Batch \ {b} : db'.batch[c] = db.batch[c]
  BY <1>1, <1>9 DEF DB
<1>13. \A r \in RowsOf(b) : db'.row[r] = Flushed(view[o].row[r], AckRows(o)[r], db.row[r])
  BY <1>8, <1>9 DEF FlushedRows
<1>14. QED
  BY <1>4, <1>5, <1>8, <1>9, <1>11, <1>12, <1>13

\* Whatever its session held, an acknowledgement stays within its batch and
\* commits nothing.
LEMMA AckEffect ==
    ASSUME ReviewTypeOK, NEW o \in Operator, ViewInv(o), Acknowledge(o)
    PROVE  LET b == req[o].batch IN
           /\ db' \in DB /\ db'.batch[b].status # "ABSENT" /\ db'.master = db.master
           /\ \A r \in Row : db'.row[r].status = "COMMITTED" => db.row[r].status = "COMMITTED"
           /\ \A c \in Batch \ {b} : SameReview(db, db', c)
<1> DEFINE b == req[o].batch
<1>1. /\ b \in Batch /\ held[o] \in BatchRecord /\ view[o] \in ViewOf(b) /\ db \in DB
      /\ req[o].chosen \in SUBSET Seen(o) /\ db.batch[b].status # "ABSENT"
      /\ SeenDecisions(o) \subseteq Finding /\ Seen(o) \subseteq Finding
  BY AckTypes
<1>2. /\ db' \in DB
      /\ db'.findings = db.findings \cup AckCopies(o)
      /\ db'.decisions = db.decisions \cup NewDecisions(o)
      /\ \A r \in RowsOf(b) : db'.row[r] = Flushed(view[o].row[r], AckRows(o)[r], db.row[r])
      /\ \A r \in Row \ RowsOf(b) : db'.row[r] = db.row[r]
      /\ db'.batch[b] = Flushed(held[o], AckBatch(o), db.batch[b])
      /\ \A c \in Batch \ {b} : db'.batch[c] = db.batch[c]
      /\ db'.master = db.master
      /\ AckBatch(o) \in BatchRecord
      /\ \A r \in RowsOf(b) : AckRows(o)[r] \in RowRecord
  BY AckFields
<1>3. db'.batch[b].status # "ABSENT"
  <2>1. db.batch[b] \in BatchRecord
    BY <1>1 DEF DB
  <2>2. Flushed(held[o], AckBatch(o), db.batch[b]).status \in {AckBatch(o).status, db.batch[b].status}
    BY <1>1, <1>2, <2>1, FlushedBatch
  <2>3. NextVersion(o) \in Nat
    BY <1>1 DEF NextVersion, BatchRecord
  <2>4. AckBatch(o).status \in {"REVIEW", "READY_TO_COMMIT"}
    BY <1>1, <2>3, BatchReadinessMeans DEF AckBatch
  <2>5. QED
    BY <1>1, <1>2, <2>2, <2>4
<1>4. ASSUME NEW r \in Row, db'.row[r].status = "COMMITTED"
      PROVE  db.row[r].status = "COMMITTED"
  <2>1. CASE r \in RowsOf(b)
    <3>1. AckRows(o)[r].status # "COMMITTED" /\ AckRows(o)[r] \in RowRecord
      BY <2>1, RowReadinessType DEF AckRows
    <3>2. view[o].row[r] \in RowRecord /\ db.row[r] \in RowRecord
      BY <1>1, <2>1 DEF ViewOf, DB
    <3>3. Flushed(view[o].row[r], AckRows(o)[r], db.row[r]).status
            \in {AckRows(o)[r].status, db.row[r].status}
      BY <3>1, <3>2 DEF Flushed, RowRecord
    <3>4. QED
      BY <1>2, <1>4, <2>1, <3>1, <3>3
  <2>2. CASE r \notin RowsOf(b)
    BY <1>2, <1>4, <2>2
  <2>3. QED
    BY <2>1, <2>2
<1>5. \A f \in AckCopies(o) \cup NewDecisions(o) : BatchOf[f.origin.row] = b
  <2>1. \A f \in Seen(o) \cup SeenDecisions(o) : BatchOf[f.origin.row] = b
    BY DEF Seen, SeenDecisions, FindingsAt, DecisionsAt
  <2>2. \A f \in Finding : CopyOf(o, f).origin = f.origin
    BY DEF CopyOf
  <2>3. QED
    BY <1>1, <2>1, <2>2 DEF AckCopies, NewDecisions
<1>6. ASSUME NEW c \in Batch \ {b} PROVE SameReview(db, db', c)
  <2>1. \A r \in RowsOf(c) : r \in Row \ RowsOf(b)
    BY DEF RowsOf
  <2>2. FindingsOf(db, c) = FindingsOf(db', c) /\ DecisionsOf(db, c) = DecisionsOf(db', c)
    BY <1>2, <1>5 DEF FindingsOf, DecisionsOf
  <2>3. QED
    BY <1>2, <2>1, <2>2 DEF SameReview
<1>7. QED
  BY <1>2, <1>3, <1>4, <1>6

\* A review that held nothing before the batch lock reads what is committed:
\* a warning of the batch's version is in its snapshot only if all of the
\* version is.
LEMMA AckReadsAreFresh ==
    ASSUME ReviewTypeOK, ReviewsOK(db), NEW o \in Operator, ViewInv(o), HeldInv(o),
           Acknowledge(o), req[o].batch \in FreshReview
    PROVE  LET b == req[o].batch
               last == db.batch[b].version
           IN  /\ held[o] = db.batch[b] /\ last \in Nat \ {0}
               /\ Seen(o) = FindingsAt(db, b, last)
               /\ SeenDecisions(o) = DecisionsAt(db, b, last)
               /\ AckFindings(o) = AckCopies(o) /\ AckDecisions(o) = NewDecisions(o)
               /\ \A r \in RowsOf(b) : view[o].row[r] = db.row[r]
               /\ db.batch[b].status = "REVIEW"
               /\ req[o].chosen \cap DecisionsAt(db, b, last) = {}
<1> DEFINE b == req[o].batch
           w == view[o]
           last == db.batch[b].version
<1>1. /\ b \in Batch /\ w \in ViewOf(b) /\ db \in DB /\ pc[o] = "acking"
      /\ req[o].chosen \in SUBSET Seen(o) /\ req[o].chosen # {}
      /\ db.batch[b].status # "ABSENT"
  BY AckTypes
<1>2. held[o] = db.batch[b]
  BY <1>1 DEF HeldInv, HoldsBatch
<1>3. VersionsOK(db, b) /\ RowsOK(db, b) /\ ViewOK(db, w, b)
  BY <1>1 DEF ReviewsOK, ViewInv, InRequest, Phase
<1>4. last \in Nat \ {0} /\ w.batch.version \in Nat
  BY <1>1, <1>3 DEF DB, ViewOf, BatchRecord, VersionsOK
<1>5. w.batch.version = last
  <2>1. PICK f \in req[o].chosen : f \in FindingsAt(w, b, last)
    BY <1>1, <1>2 DEF Seen
  <2>2. last <= w.batch.version
    BY <1>3, <2>1 DEF ViewOK, FindingsAt
  <2>3. QED
    BY <1>3, <1>4, <2>2 DEF ViewOK
<1>6. /\ w.findings = {f \in db.findings : BatchOf[f.origin.row] = b /\ f.version <= last}
      /\ w.decisions = {f \in db.decisions : BatchOf[f.origin.row] = b /\ f.version <= last}
  BY <1>3, <1>5 DEF ViewOK
<1>7. Seen(o) = FindingsAt(db, b, last) /\ SeenDecisions(o) = DecisionsAt(db, b, last)
  BY <1>2, <1>4, <1>6 DEF Seen, SeenDecisions, FindingsAt, DecisionsAt
<1>8. ~(last + 1 <= last) /\ NextVersion(o) = last + 1
  BY <1>2, <1>4 DEF NextVersion
<1>9. FindingsAt(w, b, last + 1) = {} /\ DecisionsAt(w, b, last + 1) = {}
  BY <1>6, <1>8 DEF FindingsAt, DecisionsAt
<1>10. db.batch[b].status \in {"REVIEW", "READY_TO_COMMIT"}
       /\ req[o].chosen \cap SeenDecisions(o) = {}
  BY <1>2 DEF Acknowledge, AckAllowed
<1>11. db.batch[b].status # "READY_TO_COMMIT"
  <2>1. SUFFICES ASSUME db.batch[b].status = "READY_TO_COMMIT" PROVE FALSE
    OBVIOUS
  <2>2. Open(db, b) = {}
    BY <1>1, <1>3, <2>1, ReadyMeansNothingOpen
  <2>3. PICK f \in req[o].chosen : f \in FindingsAt(db, b, last)
    BY <1>1, <1>7
  <2>4. PICK g \in DecisionsAt(db, b, last) : g.origin = f.origin
    BY <2>2, <2>3 DEF Open, Origins
  <2>5. g \in FindingsAt(db, b, last)
    BY <1>3, <2>4 DEF VersionsOK, DecisionsAt, FindingsAt
  <2>6. f = g
    BY <1>3, <1>4, <2>3, <2>4, <2>5 DEF VersionsOK
  <2>7. QED
    BY <1>7, <1>10, <2>4, <2>6
<1>12. \A r \in RowsOf(b) : w.row[r] = db.row[r]
  BY <1>3, <1>5, <1>10 DEF ViewOK
<1>13. QED
  BY <1>2, <1>4, <1>7, <1>8, <1>9, <1>10, <1>11, <1>12 DEF AckFindings, AckDecisions

\* What it leaves: one more version, with what was chosen decided in it.
LEMMA FreshAckEffect ==
    ASSUME ReviewTypeOK, ReviewsOK(db), NEW o \in Operator, ViewInv(o), HeldInv(o),
           Acknowledge(o), req[o].batch \in FreshReview
    PROVE  LET b == req[o].batch
               last == db.batch[b].version
           IN  /\ VersionsOK(db', b) /\ RowsOK(db', b)
               /\ last \in Nat /\ db'.batch[b].version = last + 1
               /\ db.batch[b].status = "REVIEW"
               /\ db'.batch[b].status \in {"REVIEW", "READY_TO_COMMIT"}
               /\ \A f \in FindingsOf(db', b) :
                    f \in FindingsOf(db, b) \/ f.version = last + 1
               /\ \A f \in DecisionsOf(db', b) :
                    f \in DecisionsOf(db, b) \/ f.version = last + 1
               /\ FindingsOf(db, b) \subseteq FindingsOf(db', b)
               /\ DecisionsOf(db, b) \subseteq DecisionsOf(db', b)
               /\ \A r \in RowsOf(b) :
                    db'.row[r].status = "EXISTING" <=> db.row[r].status = "EXISTING"
               /\ Open(db', b) = Open(db, b) \ Origins(req[o].chosen)
               /\ Origins(req[o].chosen) \subseteq Open(db, b)
               /\ Origins(req[o].chosen) # {}
               /\ \A f \in req[o].chosen : IsWarning(f)
<1> DEFINE b == req[o].batch
           last == db.batch[b].version
           next == last + 1
           found == FindingsAt(db, b, last)
           acked == DecisionsAt(db, b, last)
           chosen == req[o].chosen
<1>1. /\ b \in Batch /\ held[o] \in BatchRecord /\ db \in DB
      /\ chosen \in SUBSET Seen(o) /\ chosen # {} /\ \A f \in chosen : IsWarning(f)
      /\ SeenDecisions(o) \subseteq Finding /\ Seen(o) \subseteq Finding
  BY AckTypes
<1>2. /\ held[o] = db.batch[b] /\ last \in Nat \ {0}
      /\ Seen(o) = found /\ SeenDecisions(o) = acked
      /\ AckFindings(o) = AckCopies(o) /\ AckDecisions(o) = NewDecisions(o)
      /\ \A r \in RowsOf(b) : view[o].row[r] = db.row[r]
      /\ db.batch[b].status = "REVIEW"
      /\ chosen \cap acked = {}
  BY AckReadsAreFresh
<1>3. /\ db' \in DB
      /\ db'.findings = db.findings \cup AckCopies(o)
      /\ db'.decisions = db.decisions \cup NewDecisions(o)
      /\ \A r \in RowsOf(b) : db'.row[r] = Flushed(view[o].row[r], AckRows(o)[r], db.row[r])
      /\ db'.batch[b] = Flushed(held[o], AckBatch(o), db.batch[b])
      /\ AckBatch(o) \in BatchRecord
      /\ \A r \in RowsOf(b) : AckRows(o)[r] \in RowRecord
  BY AckFields
<1>4. VersionsOK(db, b) /\ RowsOK(db, b)
  BY DEF ReviewsOK
<1>5. acked \subseteq found /\ (\A f \in acked : IsWarning(f))
      /\ (\A f, g \in found : f.origin = g.origin => f = g)
  <2>1. last \in 1..last
    BY <1>2
  <2>2. acked \subseteq found /\ \A f \in acked : IsWarning(f)
    BY <1>4 DEF VersionsOK, DecisionsAt, FindingsAt
  <2>3. \A f, g \in found : f.origin = g.origin => f = g
    BY <1>4, <2>1 DEF VersionsOK
  <2>4. QED
    BY <2>2, <2>3
<1>6. chosen \subseteq Finding /\ chosen \subseteq found
  BY <1>1, <1>2
<1>7. \A f \in Finding : /\ CopyOf(o, f) \in Finding
                         /\ CopyOf(o, f).origin = f.origin /\ CopyOf(o, f).version = next
  BY <1>2, <1>6, CopyType DEF NextVersion
<1>8. NextVersion(o) = next /\ next \in Nat \ {0} /\ last < next
  BY <1>2 DEF NextVersion
<1>9. \A f \in AckCopies(o) : /\ f.version = next /\ BatchOf[f.origin.row] = b
                              /\ f.origin \in Origins(found)
  BY <1>1, <1>2, <1>7 DEF AckCopies, FindingsAt, Origins
<1>10. NewDecisions(o) \subseteq AckCopies(o) /\ \A f \in NewDecisions(o) : IsWarning(f)
  <2>1. acked \cup chosen \subseteq found
    BY <1>5, <1>6
  <2>2. \A f \in acked \cup chosen : IsWarning(f) /\ f \in Finding
    BY <1>1, <1>2, <1>5, <1>6
  <2>3. \A f \in acked \cup chosen : IsWarning(CopyOf(o, f))
    BY <1>7, <2>2 DEF IsWarning
  <2>4. QED
    BY <1>2, <2>1, <2>3 DEF NewDecisions, AckCopies
<1>11. Origins(AckCopies(o)) = Origins(found)
  <2>1. \A f \in found : CopyOf(o, f).origin = f.origin
    BY <1>1, <1>2, <1>7
  <2>2. QED
    BY <1>2, <2>1 DEF AckCopies, Origins
<1>12. Origins(NewDecisions(o)) = Origins(acked) \cup Origins(chosen)
  <2>1. \A f \in acked \cup chosen : CopyOf(o, f).origin = f.origin
    BY <1>1, <1>2, <1>6, <1>7
  <2>2. QED
    BY <1>2, <2>1 DEF NewDecisions, Origins
<1>13. \A f, g \in AckCopies(o) : f.origin = g.origin => f = g
  <2>1. SUFFICES ASSUME NEW x \in found, NEW y \in found,
                        CopyOf(o, x).origin = CopyOf(o, y).origin
                 PROVE  CopyOf(o, x) = CopyOf(o, y)
    BY <1>2 DEF AckCopies
  <2>2. x.origin = y.origin
    BY <1>1, <1>2, <1>7, <2>1
  <2>3. QED
    BY <1>5, <2>2
<1>14. /\ FindingsOf(db', b) = FindingsOf(db, b) \cup AckCopies(o)
       /\ DecisionsOf(db', b) = DecisionsOf(db, b) \cup NewDecisions(o)
  BY <1>3, <1>9, <1>10 DEF FindingsOf, DecisionsOf
<1>15. \A f \in db.findings : BatchOf[f.origin.row] = b => f.version <= last
  BY <1>4 DEF VersionsOK
<1>16. db.findings \subseteq Finding
  BY <1>1 DEF DB
<1>17. \A f \in db.findings : BatchOf[f.origin.row] = b => f.version # next
  BY <1>8, <1>15, <1>16, <1>2 DEF Finding
<1>18. /\ FindingsAt(db', b, next) = AckCopies(o)
       /\ DecisionsAt(db', b, next) = NewDecisions(o)
       /\ \A v \in 1..last : FindingsAt(db', b, v) = FindingsAt(db, b, v)
  <2>1. \A f \in db.decisions : BatchOf[f.origin.row] = b => f.version # next
    BY <1>4, <1>17 DEF VersionsOK
  <2>2. \A v \in 1..last : v # next
    BY <1>2
  <2>3. FindingsAt(db', b, next) = AckCopies(o)
    BY <1>3, <1>9, <1>17 DEF FindingsAt
  <2>4. DecisionsAt(db', b, next) = NewDecisions(o)
    BY <1>3, <1>9, <1>10, <2>1 DEF DecisionsAt
  <2>5. \A v \in 1..last : FindingsAt(db', b, v) = FindingsAt(db, b, v)
    BY <1>3, <1>9, <2>2 DEF FindingsAt
  <2>6. QED
    BY <2>3, <2>4, <2>5
<1>19. /\ db'.batch[b] = AckBatch(o)
       /\ \A r \in RowsOf(b) : db'.row[r] = AckRows(o)[r]
  <2>1. db.batch[b] \in BatchRecord /\ \A r \in RowsOf(b) : db.row[r] \in RowRecord
    BY <1>1 DEF DB, RowsOf
  <2>2. Flushed(held[o], AckBatch(o), db.batch[b]) = AckBatch(o)
    BY <1>1, <1>2, <1>3, <2>1, FlushedBatch
  <2>3. ASSUME NEW r \in RowsOf(b)
        PROVE  Flushed(view[o].row[r], AckRows(o)[r], db.row[r]) = AckRows(o)[r]
    BY <1>2, <1>3, <2>1, FlushedRow
  <2>4. QED
    BY <1>3, <2>2, <2>3
<1>20. /\ db'.batch[b].version = next
       /\ db'.batch[b].status \in {"REVIEW", "READY_TO_COMMIT"}
       /\ db'.batch[b].status = "READY_TO_COMMIT" <=>
            \A r \in RowsOf(b) : AckRows(o)[r].status \notin {"WARNING", "ERROR"}
  BY <1>1, <1>8, <1>19, BatchReadinessMeans DEF AckBatch
<1>21. VersionsOK(db', b)
  <2>1. \A f \in db'.findings : BatchOf[f.origin.row] = b => f.version <= next
    BY <1>2, <1>3, <1>8, <1>9, <1>15, <1>16 DEF Finding
  <2>2. Origins(FindingsAt(db', b, 1)) = Origins(FindingsAt(db, b, 1)) /\ 1 \in 1..last
    BY <1>2, <1>18
  <2>3. ASSUME NEW v \in 1..next
        PROVE  /\ Origins(FindingsAt(db', b, v)) = Origins(FindingsAt(db', b, 1))
               /\ \A f, g \in FindingsAt(db', b, v) : f.origin = g.origin => f = g
    <3>1. CASE v \in 1..last
      BY <1>4, <1>18, <2>2, <3>1 DEF VersionsOK
    <3>2. CASE v = next
      <4>1. Origins(found) = Origins(FindingsAt(db, b, 1))
        BY <1>2, <1>4 DEF VersionsOK
      <4>2. QED
        BY <1>11, <1>13, <1>18, <2>2, <3>2, <4>1
    <3>3. QED
      BY <1>2, <3>1, <3>2
  <2>4. \A f \in db'.decisions : BatchOf[f.origin.row] = b => f \in db'.findings /\ IsWarning(f)
    BY <1>3, <1>4, <1>10 DEF VersionsOK
  <2>5. QED
    BY <1>8, <1>20, <2>1, <2>3, <2>4 DEF VersionsOK
<1>22. ASSUME NEW r \in RowsOf(b)
       PROVE  /\ db'.row[r].status = "EXISTING" <=> db.row[r].status = "EXISTING"
              /\ RowFindings(db', b, r) = {f \in AckCopies(o) : f.origin.row = r}
              /\ db'.row[r] = RowReadiness(db'.row[r].status = "EXISTING",
                                           RowFindings(db', b, r), NewDecisions(o))
              /\ db'.row[r].status = "EXISTING" => RowFindings(db', b, r) = {}
  <2>1. db'.row[r] = RowReadiness(db.row[r].status = "EXISTING",
                                  {f \in AckCopies(o) : f.origin.row = r}, NewDecisions(o))
    BY <1>2, <1>19 DEF AckRows
  <2>2. db'.row[r].status = "EXISTING" <=> db.row[r].status = "EXISTING"
    BY <2>1 DEF RowReadiness
  <2>3. RowFindings(db', b, r) = {f \in AckCopies(o) : f.origin.row = r}
    BY <1>18, <1>20 DEF RowFindings
  <2>4. db'.row[r] = RowReadiness(db'.row[r].status = "EXISTING",
                                  {f \in AckCopies(o) : f.origin.row = r}, NewDecisions(o))
    BY <2>1, <2>2 DEF RowReadiness
  <2>5. ASSUME db.row[r].status = "EXISTING", NEW f \in AckCopies(o), f.origin.row = r
        PROVE  FALSE
    <3>1. PICK g \in found : g.origin = f.origin
      BY <1>9 DEF Origins
    <3>2. g \in RowFindings(db, b, r)
      BY <2>5, <3>1 DEF RowFindings
    <3>3. QED
      BY <1>2, <1>4, <2>5, <3>2 DEF RowsOK
  <2>6. QED
    BY <2>2, <2>3, <2>4, <2>5
<1>23. RowsOK(db', b)
  BY <1>18, <1>19, <1>20, <1>22 DEF RowsOK
<1>24. Open(db', b) = Open(db, b) \ Origins(chosen)
  BY <1>11, <1>12, <1>18, <1>20 DEF Open
<1>25. Origins(chosen) \subseteq Open(db, b)
  BY <1>2, <1>5, <1>6 DEF Open, Origins
<1>26. Origins(chosen) # {}
  BY <1>1 DEF Origins
<1>27. QED
  BY <1>1, <1>2, <1>9, <1>10, <1>14, <1>20, <1>21, <1>22, <1>23, <1>24, <1>25, <1>26

-----------------------------------------------------------------------------
(* Committing *)

LEMMA CommitFields ==
    ASSUME ReviewTypeOK, NEW o \in Operator, ViewInv(o), HeldInv(o), CommitInv(o),
           CommitMasters(o)
    PROVE  LET b == req[o].batch IN
           /\ b \in Batch /\ pc[o] = "revalidated" /\ view[o] \in ViewOf(b)
           /\ CreateRows(o) \subseteq RowsOf(b) /\ CodesCreated(o) \subseteq Master
           /\ held[o] = db.batch[b] /\ db.batch[b].status = "READY_TO_COMMIT"
           /\ db' \in DB
           /\ db'.findings = db.findings /\ db'.decisions = db.decisions
           /\ \A r \in CreateRows(o) : db'.row[r] = [db.row[r] EXCEPT !.status = "COMMITTED"]
           /\ \A r \in Row \ CreateRows(o) : db'.row[r] = db.row[r]
           /\ \A m \in CodesCreated(o) : db'.master[m] = [kind |-> "SAME", active |-> TRUE]
           /\ \A m \in Master \ CodesCreated(o) : db'.master[m] = db.master[m]
           /\ db'.batch[b] = [db.batch[b] EXCEPT !.status = "COMMITTED"]
           /\ \A c \in Batch \ {b} : db'.batch[c] = db.batch[c]
<1> DEFINE b == req[o].batch
           rows == [r \in CreateRows(o) |-> [db.row[r] EXCEPT !.status = "COMMITTED"]]
           masters == [m \in CodesCreated(o) |-> [kind |-> "SAME", active |-> TRUE]]
<1>1. b \in Batch /\ db \in DB /\ pc[o] = "revalidated"
  BY DEF ReviewTypeOK, CommitMasters
<1>2. view[o] \in ViewOf(b) /\ held[o] = db.batch[b] /\ QualityGate(o)
  BY <1>1 DEF ViewInv, HeldInv, CommitInv, InRequest, HoldsBatch, Phase
<1>3. db.batch[b].status = "READY_TO_COMMIT"
  BY <1>2 DEF QualityGate
<1>4. CreateRows(o) \subseteq RowsOf(b) /\ CreateRows(o) \in SUBSET Row
  BY DEF CreateRows, AskedRows, RowsOf
<1>5. CodesCreated(o) \in SUBSET Master
  BY <1>4, ImportAssumption DEF CodesCreated
<1>6. db' = [db EXCEPT !.master = Patched(@, masters), !.row = Patched(@, rows),
                       !.batch[b].status = "COMMITTED"]
  BY DEF CommitMasters
<1>7. /\ db.row \in [Row -> RowRecord] /\ db.master \in [Master -> MasterRecord]
      /\ db.batch \in [Batch -> BatchRecord]
  BY <1>1 DEF DB
<1>8. rows \in [CreateRows(o) -> RowRecord]
  <2>1. \A r \in Row : [db.row[r] EXCEPT !.status = "COMMITTED"] \in RowRecord
    BY <1>7 DEF RowRecord, RowStatus
  <2>2. QED
    BY <1>4, <2>1
<1>9. masters \in [CodesCreated(o) -> MasterRecord]
  BY DEF MasterRecord
<1>10. /\ \A r \in CreateRows(o) : rows[r] = [db.row[r] EXCEPT !.status = "COMMITTED"]
       /\ \A m \in CodesCreated(o) : masters[m] = [kind |-> "SAME", active |-> TRUE]
  OBVIOUS
<1> HIDE DEF rows, masters
<1>11. /\ Patched(db.row, rows) \in [Row -> RowRecord]
       /\ \A r \in CreateRows(o) : Patched(db.row, rows)[r] = rows[r]
       /\ \A r \in Row \ CreateRows(o) : Patched(db.row, rows)[r] = db.row[r]
  BY <1>4, <1>7, <1>8 DEF Patched
<1>12. /\ Patched(db.master, masters) \in [Master -> MasterRecord]
       /\ \A m \in CodesCreated(o) : Patched(db.master, masters)[m] = masters[m]
       /\ \A m \in Master \ CodesCreated(o) : Patched(db.master, masters)[m] = db.master[m]
  BY <1>5, <1>7, <1>9 DEF Patched
<1>13. db' = [batch |-> [db.batch EXCEPT ![b] = [@ EXCEPT !.status = "COMMITTED"]],
              row |-> Patched(db.row, rows), findings |-> db.findings,
              decisions |-> db.decisions, master |-> Patched(db.master, masters)]
  BY <1>1, <1>6 DEF DB
<1>14. [db.batch EXCEPT ![b] = [@ EXCEPT !.status = "COMMITTED"]] \in [Batch -> BatchRecord]
  BY <1>1, <1>7 DEF BatchRecord, BatchStatus
<1>15. db' \in DB
  BY <1>1, <1>11, <1>12, <1>13, <1>14 DEF DB
<1>16. /\ db'.batch[b] = [db.batch[b] EXCEPT !.status = "COMMITTED"]
       /\ \A c \in Batch \ {b} : db'.batch[c] = db.batch[c]
  BY <1>1, <1>7, <1>13
<1>17. QED
  BY <1>1, <1>2, <1>3, <1>4, <1>5, <1>10, <1>11, <1>12, <1>13, <1>15, <1>16

LEMMA CommitEffect ==
    ASSUME ReviewTypeOK, ReviewsOK(db), MastersOK(db), NEW o \in Operator,
           ViewInv(o), HeldInv(o), CommitInv(o), CommitMasters(o)
    PROVE  LET b == req[o].batch IN
           /\ MastersOK(db')
           /\ \A c \in Batch \ {b} : SameReview(db, db', c)
           /\ b \in FreshReview =>
                /\ VersionsOK(db', b) /\ RowsOK(db', b) /\ Open(db', b) = Open(db, b)
                /\ \A r \in RowsOf(b) :
                    db'.row[r].status = "EXISTING" <=> db.row[r].status = "EXISTING"
<1> DEFINE b == req[o].batch
<1>1. /\ b \in Batch /\ pc[o] = "revalidated" /\ view[o] \in ViewOf(b)
      /\ CreateRows(o) \subseteq RowsOf(b) /\ CodesCreated(o) \subseteq Master
      /\ held[o] = db.batch[b] /\ db.batch[b].status = "READY_TO_COMMIT"
      /\ db' \in DB
      /\ db'.findings = db.findings /\ db'.decisions = db.decisions
      /\ \A r \in CreateRows(o) : db'.row[r] = [db.row[r] EXCEPT !.status = "COMMITTED"]
      /\ \A r \in Row \ CreateRows(o) : db'.row[r] = db.row[r]
      /\ \A m \in CodesCreated(o) : db'.master[m] = [kind |-> "SAME", active |-> TRUE]
      /\ \A m \in Master \ CodesCreated(o) : db'.master[m] = db.master[m]
      /\ db'.batch[b] = [db.batch[b] EXCEPT !.status = "COMMITTED"]
      /\ \A c \in Batch \ {b} : db'.batch[c] = db.batch[c]
  BY CommitFields
<1>2. db \in DB /\ RowsOf(b) \subseteq Row /\ QualityGate(o)
  BY <1>1 DEF ReviewTypeOK, RowsOf, CommitInv
<1>3. MastersOK(db')
  <2>1. SUFFICES ASSUME NEW r \in Row, BatchOf[r] \in FreshReview,
                        db'.row[r].status = "COMMITTED"
                 PROVE  db'.master[CodeOf[r]].kind # "NONE"
    BY DEF MastersOK
  <2>2. CodeOf[r] \in Master
    BY ImportAssumption
  <2>3. CASE CodeOf[r] \in CodesCreated(o)
    BY <1>1, <2>3
  <2>4. CASE CodeOf[r] \notin CodesCreated(o)
    <3>1. r \notin CreateRows(o)
      BY <2>4 DEF CodesCreated
    <3>2. QED
      BY <1>1, <2>1, <2>2, <2>4, <3>1 DEF MastersOK
  <2>5. QED
    BY <2>3, <2>4
<1>4. ASSUME NEW c \in Batch \ {b} PROVE SameReview(db, db', c)
  <2>1. \A r \in RowsOf(c) : r \in Row \ CreateRows(o)
    BY <1>1 DEF RowsOf
  <2>2. QED
    BY <1>1, <2>1 DEF SameReview, FindingsOf, DecisionsOf
<1>5. ASSUME b \in FreshReview
      PROVE  /\ VersionsOK(db', b) /\ RowsOK(db', b) /\ Open(db', b) = Open(db, b)
             /\ \A r \in RowsOf(b) :
                    db'.row[r].status = "EXISTING" <=> db.row[r].status = "EXISTING"
  <2>1. VersionsOK(db, b) /\ RowsOK(db, b) /\ ViewOK(db, view[o], b)
    BY <1>1, <1>5 DEF ReviewsOK, ViewInv, InRequest, Phase
  <2>2. db.batch[b] \in BatchRecord /\ \A r \in RowsOf(b) : db.row[r] \in RowRecord
    BY <1>1, <1>2 DEF DB
  <2>3. db'.batch[b].status = "COMMITTED" /\ db'.batch[b].version = db.batch[b].version
    BY <1>1, <2>2 DEF BatchRecord
  <2>4. /\ \A v : FindingsAt(db', b, v) = FindingsAt(db, b, v)
        /\ \A v : DecisionsAt(db', b, v) = DecisionsAt(db, b, v)
    BY <1>1 DEF FindingsAt, DecisionsAt
  <2>5. Open(db', b) = Open(db, b)
    BY <2>3, <2>4 DEF Open
  <2>6. Open(db, b) = {}
    BY <1>1, <1>2, <2>1, ReadyMeansNothingOpen
  <2>7. VersionsOK(db', b)
    BY <1>1, <2>1, <2>3, <2>4 DEF VersionsOK
  <2>8. ASSUME NEW r \in RowsOf(b)
        PROVE  /\ db'.row[r].status \in {"COMMITTED", "EXISTING"}
               /\ db'.row[r].status = "EXISTING" <=> db.row[r].status = "EXISTING"
    <3>1. r \in Row
      BY <1>2
    <3>2. CASE r \in CreateRows(o)
      <4>1. view[o].row[r].status = "READY"
        BY <3>2 DEF CreateRows
      <4>2. db.row[r].status # "EXISTING"
        BY <2>1, <4>1 DEF ViewOK
      <4>3. db'.row[r].status = "COMMITTED"
        BY <1>1, <2>2, <3>2 DEF RowRecord
      <4>4. QED
        BY <4>2, <4>3
    <3>3. CASE r \notin CreateRows(o)
      <4>1. r \in ExistingRows(o)
        BY <1>2, <3>3 DEF QualityGate, AskedRows
      <4>2. db.row[r].status = "EXISTING"
        BY <2>1, <4>1 DEF ExistingRows, ViewOK
      <4>3. QED
        BY <1>1, <3>1, <3>3, <4>2
    <3>4. QED
      BY <3>2, <3>3
  <2>9. RowsOK(db', b)
    BY <2>3, <2>5, <2>6, <2>8 DEF RowsOK
  <2>10. QED
    BY <2>5, <2>7, <2>8, <2>9
<1>6. QED
  BY <1>3, <1>4, <1>5

-----------------------------------------------------------------------------
(* The requests of other operators *)

\* The gate of p's request does not change while its request does not.
LEMMA GateStays ==
    ASSUME NEW p \in Operator,
           pc'[p] = pc[p], req'[p] = req[p], view'[p] = view[p], held'[p] = held[p]
    PROVE  /\ QualityGate(p) => QualityGate(p)'
           /\ CreateRows(p)' = CreateRows(p)
BY DEF QualityGate, CreateRows, ExistingRows, AskedRows, Seen, SeenDecisions

\* A step that changes tables of batch b or masters that p has not locked.
LEMMA OtherRequest ==
    ASSUME NEW p \in Operator, RequestInv(p), NEW b \in Batch, req[p].batch \in Batch,
           pc'[p] = pc[p], req'[p] = req[p], view'[p] = view[p], held'[p] = held[p],
           \A c \in Batch : batchLock[c] = p => batchLock'[c] = p,
           \A c \in Batch \ {b} : SameReview(db, db', c),
           pc[p] \in InRequest /\ req[p].batch = b /\ b \in FreshReview =>
                (ViewOK(db, view[p], b) => ViewOK(db', view[p], b)),
           pc[p] \in InRequest /\ req[p].batch = b => db'.batch[b].status # "ABSENT",
           pc[p] \in HoldsBatch /\ req[p].batch = b => db'.batch[b] = db.batch[b],
           \A m \in LocksOf(p) \cap Master : db.master[m].active => db'.master[m].active
    PROVE  RequestInv(p)'
<1> DEFINE c == req[p].batch
<1>1. c # b => db'.batch[c] = db.batch[c]
  BY DEF SameReview
<1>2. ViewInv(p)'
  <2>1. pc[p] \in InRequest => db'.batch[c].status # "ABSENT"
    BY <1>1 DEF RequestInv, ViewInv
  <2>2. ASSUME pc[p] \in InRequest, c \in FreshReview PROVE ViewOK(db', view[p], c)
    <3>1. ViewOK(db, view[p], c)
      BY <2>2 DEF RequestInv, ViewInv
    <3>2. CASE c = b
      BY <2>2, <3>1, <3>2
    <3>3. CASE c # b
      <4>1. SameReview(db, db', c)
        BY <3>3
      <4>2. QED
        BY <3>1, <4>1, FrameView
    <3>4. QED
      BY <3>2, <3>3
  <2>3. QED
    BY <2>1, <2>2 DEF RequestInv, ViewInv
<1>3. HeldInv(p)'
  BY <1>1 DEF RequestInv, HeldInv
<1>4. CommitInv(p)'
  <2>1. SUFFICES ASSUME pc[p] = "revalidated"
                 PROVE  /\ QualityGate(p)'
                        /\ \A r \in CreateRows(p)' : \A m \in RefsOf[r] : db'.master[m].active
    BY DEF CommitInv
  <2>2. /\ QualityGate(p)
        /\ \A r \in CreateRows(p) : \A m \in RefsOf[r] : db.master[m].active
    BY <2>1 DEF RequestInv, CommitInv
  <2>3. \A r \in CreateRows(p) : \A m \in RefsOf[r] : m \in LocksOf(p) \cap Master
    <3>1. CreateRows(p) \subseteq Row
      BY DEF CreateRows, AskedRows, RowsOf
    <3>2. \A r \in CreateRows(p) : RefsOf[r] \subseteq Master
      BY <3>1, ImportAssumption
    <3>3. QED
      BY <2>1, <3>2 DEF LocksOf, RefsNeeded
  <2>4. QED
    BY <2>2, <2>3, GateStays
<1>5. QED
  BY <1>2, <1>3, <1>4 DEF RequestInv

\* A step that changes no table.
LEMMA QuietForOthers ==
    ASSUME NEW p \in Operator, RequestInv(p), ReviewTypeOK, db' = db,
           pc'[p] = pc[p], req'[p] = req[p], view'[p] = view[p], held'[p] = held[p],
           \A c \in Batch : batchLock[c] = p => batchLock'[c] = p
    PROVE  RequestInv(p)'
<1>1. req[p].batch \in Batch
  BY DEF ReviewTypeOK
<1>2. \A c \in Batch : SameReview(db, db', c)
  BY DEF SameReview
<1>3. pc[p] \in InRequest => db.batch[req[p].batch].status # "ABSENT"
  BY DEF RequestInv, ViewInv
<1>4. QED
  BY <1>1, <1>2, <1>3, OtherRequest

TablesInv == db \in DB /\ ReviewsOK(db) /\ UnstagedOK(db) /\ MastersOK(db)

LEMMA Assembled ==
    ASSUME ReviewTypeOK', TablesInv', \A p \in Operator : RequestInv(p)'
    PROVE  IInv'
BY DEF IInv, TablesInv

LEMMA RequestBatch ==
    ASSUME IInv, NEW p \in Operator
    PROVE  /\ req[p].batch \in Batch /\ RequestInv(p) /\ pc[p] \in Phase
           /\ ReviewTypeOK /\ TablesInv /\ NoOperator \notin Operator
BY ImportAssumption DEF IInv, ReviewTypeOK, TablesInv

-----------------------------------------------------------------------------
(* Steps that change no table *)

USE DEF InRequest, HoldsBatch

LEMMA SubmitStep ==
    ASSUME IInv, NEW o \in Operator, NEW b \in Batch, SubmitAck(o, b) \/ SubmitCommit(o, b)
    PROVE  IInv'
<1>1. /\ ReviewTypeOK /\ TablesInv /\ UNCHANGED <<db, batchLock, commitLock, held>>
      /\ pc[o] = "idle"
  BY RequestBatch DEF SubmitAck, SubmitCommit
<1>2. PICK rq \in [batch: {b}, version: Nat, chosen: SUBSET Finding], to \in {"scoped", "wanting"} :
        /\ req' = [req EXCEPT ![o] = rq] /\ pc' = [pc EXCEPT ![o] = to]
        /\ to = "scoped" => rq.chosen # {}
        /\ view' = [view EXCEPT ![o] = ReadView(b)]
        /\ db.batch[b].status # "ABSENT"
  <2>1. CASE SubmitAck(o, b)
    <3>1. PICK v \in 1..db.batch[b].version :
            \E chosen \in SUBSET {f \in FindingsAt(db, b, v) : IsWarning(f)} :
                chosen # {} /\ req' = [req EXCEPT ![o] = [batch |-> b, version |-> v,
                                                          chosen |-> chosen]]
      BY <2>1 DEF SubmitAck
    <3>2. PICK chosen \in SUBSET {f \in FindingsAt(db, b, v) : IsWarning(f)} :
                chosen # {} /\ req' = [req EXCEPT ![o] = [batch |-> b, version |-> v,
                                                          chosen |-> chosen]]
      BY <3>1
    <3>3. db.batch[b].version \in Nat /\ db.findings \subseteq Finding
      BY <1>1 DEF TablesInv, DB, BatchRecord
    <3>4. v \in Nat /\ db.batch[b].version # 0
      BY <3>3
    <3>5. db.batch[b].status # "ABSENT"
      BY <1>1, <3>4 DEF TablesInv, UnstagedOK
    <3>6. chosen \in SUBSET Finding
      BY <3>3 DEF FindingsAt
    <3>7. [batch |-> b, version |-> v, chosen |-> chosen] \in
                [batch: {b}, version: Nat, chosen: SUBSET Finding]
      BY <3>4, <3>6
    <3>8. /\ pc' = [pc EXCEPT ![o] = "scoped"] /\ view' = [view EXCEPT ![o] = ReadView(b)]
      BY <2>1 DEF SubmitAck
    <3>9. QED
      BY <3>2, <3>5, <3>7, <3>8
  <2>2. CASE SubmitCommit(o, b)
    <3>1. /\ req' = [req EXCEPT ![o] = [batch |-> b, version |-> 0, chosen |-> {}]]
          /\ pc' = [pc EXCEPT ![o] = "wanting"] /\ view' = [view EXCEPT ![o] = ReadView(b)]
          /\ db.batch[b].status # "ABSENT"
      BY <2>2 DEF SubmitCommit
    <3>2. [batch |-> b, version |-> 0, chosen |-> {}] \in
                [batch: {b}, version: Nat, chosen: SUBSET Finding]
      OBVIOUS
    <3>3. QED
      BY <3>1, <3>2
  <2>3. QED
    BY <2>1, <2>2
<1>3. ReadView(b) \in ViewOf(b) /\ (VersionsOK(db, b) => ViewOK(db, ReadView(b), b))
  BY <1>1, FreshView
<1>4. /\ pc'[o] = to /\ req'[o] = rq /\ view'[o] = ReadView(b)
      /\ rq.batch = b
  BY <1>1, <1>2 DEF ReviewTypeOK
<1>5. ASSUME NEW p \in Operator \ {o}
      PROVE  pc'[p] = pc[p] /\ req'[p] = req[p] /\ view'[p] = view[p] /\ held'[p] = held[p]
  BY <1>1, <1>2 DEF ReviewTypeOK
<1>6. ReviewTypeOK'
  <2>1. pc' \in [Operator -> Phase]
    BY <1>1, <1>2 DEF ReviewTypeOK, Phase
  <2>2. req' \in [Operator -> [batch: Batch, version: Nat, chosen: SUBSET Finding]]
    BY <1>1, <1>2 DEF ReviewTypeOK
  <2>3. view' \in [Operator -> (UNION {ViewOf(c) : c \in Batch}) \cup {NoView}]
    BY <1>1, <1>2, <1>3 DEF ReviewTypeOK
  <2>4. \A p \in Operator : view'[p] # NoView => view'[p] \in ViewOf(req'[p].batch)
    BY <1>1, <1>3, <1>4, <1>5 DEF ReviewTypeOK
  <2>5. QED
    BY <1>1, <2>1, <2>2, <2>3, <2>4 DEF ReviewTypeOK
<1>7. TablesInv'
  BY <1>1 DEF TablesInv
<1>8. RequestInv(o)'
  <2>1. ViewInv(o)'
    <3>1. b \in FreshReview => VersionsOK(db, b)
      BY <1>1 DEF TablesInv, ReviewsOK
    <3>2. QED
      BY <1>1, <1>2, <1>3, <1>4, <3>1 DEF ViewInv, Phase
  <2>2. HeldInv(o)' /\ CommitInv(o)'
    BY <1>4 DEF HeldInv, CommitInv
  <2>3. QED
    BY <2>1, <2>2 DEF RequestInv
<1>9. ASSUME NEW p \in Operator PROVE RequestInv(p)'
  <2>1. CASE p = o
    BY <1>8, <2>1
  <2>2. CASE p # o
    BY <1>1, <1>5, <2>2, QuietForOthers, RequestBatch
  <2>3. QED
    BY <2>1, <2>2
<1>10. QED
  BY <1>6, <1>7, <1>9, Assembled

LEMMA TransactionEnds ==
    ASSUME IInv, NEW o \in Operator, NEW to \in {"idle", "releasing"},
           pc' = [pc EXCEPT ![o] = to], EndOfTransaction(o)
    PROVE  /\ db' \in DB /\ commitLock' \in [Entity -> Operator \cup {NoOperator}]
                => ReviewTypeOK'
           /\ RequestInv(o)'
           /\ \A p \in Operator \ {o} :
                /\ pc'[p] = pc[p] /\ req'[p] = req[p] /\ view'[p] = view[p] /\ held'[p] = held[p]
                /\ \A c \in Batch : batchLock[c] = p => batchLock'[c] = p
<1>1. ReviewTypeOK /\ NoOperator \notin Operator
  BY RequestBatch
<1>2. pc'[o] = to /\ view'[o] = NoView
  BY <1>1 DEF ReviewTypeOK, EndOfTransaction
<1>3. ASSUME NEW p \in Operator \ {o}
      PROVE  /\ pc'[p] = pc[p] /\ req'[p] = req[p] /\ view'[p] = view[p] /\ held'[p] = held[p]
             /\ \A c \in Batch : batchLock[c] = p => batchLock'[c] = p
  BY <1>1 DEF ReviewTypeOK, EndOfTransaction
<1>4. RequestInv(o)'
  BY <1>2 DEF RequestInv, ViewInv, HeldInv, CommitInv
<1>5. ASSUME db' \in DB, commitLock' \in [Entity -> Operator \cup {NoOperator}]
      PROVE  ReviewTypeOK'
  <2>1. (CHOOSE b \in Batch : TRUE) \in Batch
    BY ImportAssumption
  <2>2. NoRequest \in [batch: Batch, version: Nat, chosen: SUBSET Finding]
    BY <2>1 DEF NoRequest
  <2>3. NoBatchYet \in BatchRecord
    BY DEF NoBatchYet, BatchRecord, BatchStatus
  <2>4. batchLock' \in [Batch -> Operator \cup {NoOperator}]
    BY <1>1 DEF ReviewTypeOK, EndOfTransaction
  <2>5. pc' \in [Operator -> Phase]
    BY <1>1 DEF ReviewTypeOK, Phase
  <2>6. req' \in [Operator -> [batch: Batch, version: Nat, chosen: SUBSET Finding]]
    BY <1>1, <2>2 DEF ReviewTypeOK, EndOfTransaction
  <2>7. /\ view' \in [Operator -> (UNION {ViewOf(b) : b \in Batch}) \cup {NoView}]
        /\ held' \in [Operator -> BatchRecord]
    BY <1>1, <2>3 DEF ReviewTypeOK, EndOfTransaction
  <2>8. \A p \in Operator : view'[p] # NoView => view'[p] \in ViewOf(req'[p].batch)
    <3>1. \A p \in Operator : view[p] # NoView => view[p] \in ViewOf(req[p].batch)
      BY <1>1 DEF ReviewTypeOK
    <3>2. QED
      BY <1>2, <1>3, <3>1
  <2>9. QED
    BY <1>5, <2>4, <2>5, <2>6, <2>7, <2>8 DEF ReviewTypeOK
<1>6. QED
  BY <1>3, <1>4, <1>5

\* A request that ends without having changed a table.
LEMMA GiveUpStep ==
    ASSUME IInv, NEW o \in Operator,
           CommitLockTimeout(o) \/ RejectAck(o) \/ RejectCommit(o) \/ StatementFails(o)
    PROVE  IInv'
<1>1. ReviewTypeOK /\ TablesInv
  BY RequestBatch
<1>2. PICK to \in {"idle", "releasing"} :
        pc' = [pc EXCEPT ![o] = to] /\ EndOfTransaction(o) /\ UNCHANGED <<db, commitLock>>
  BY <1>1 DEF CommitLockTimeout, RejectAck, RejectCommit, StatementFails, ReviewTypeOK
<1>3. db' = db /\ db' \in DB /\ commitLock' \in [Entity -> Operator \cup {NoOperator}]
  BY <1>1, <1>2 DEF ReviewTypeOK
<1>4. /\ ReviewTypeOK' /\ RequestInv(o)'
      /\ \A p \in Operator \ {o} :
            /\ pc'[p] = pc[p] /\ req'[p] = req[p] /\ view'[p] = view[p] /\ held'[p] = held[p]
            /\ \A c \in Batch : batchLock[c] = p => batchLock'[c] = p
  BY <1>2, <1>3, TransactionEnds
<1>5. TablesInv'
  BY <1>1, <1>3 DEF TablesInv
<1>6. ASSUME NEW p \in Operator PROVE RequestInv(p)'
  <2>1. CASE p = o
    BY <1>4, <2>1
  <2>2. CASE p # o
    BY <1>1, <1>3, <1>4, <2>2, QuietForOthers, RequestBatch
  <2>3. QED
    BY <2>1, <2>2
<1>7. QED
  BY <1>4, <1>5, <1>6, Assembled

\* The advisory commit lock plays no part in the invariant: the batch lock does.
LEMMA CommitLockStep ==
    ASSUME IInv, NEW o \in Operator,
           AcquireCommitLock(o) \/ ReleaseCommitLock(o) \/ LockConnectionLost(o)
    PROVE  IInv'
<1>1. ReviewTypeOK /\ TablesInv
  BY RequestBatch
<1>2. UNCHANGED <<db, batchLock, view, held>>
  BY DEF AcquireCommitLock, ReleaseCommitLock, LockConnectionLost
<1>3. commitLock' \in [Entity -> Operator \cup {NoOperator}]
  BY <1>1 DEF ReviewTypeOK, AcquireCommitLock, ReleaseCommitLock, LockConnectionLost, Unlocking
<1>4. (CHOOSE b \in Batch : TRUE) \in Batch
  BY ImportAssumption
<1>5. NoRequest \in [batch: Batch, version: Nat, chosen: SUBSET Finding]
  BY <1>4 DEF NoRequest
<1>6. /\ pc' \in [Operator -> Phase]
      /\ req' \in [Operator -> [batch: Batch, version: Nat, chosen: SUBSET Finding]]
  <2>1. CASE AcquireCommitLock(o)
    BY <1>1, <2>1 DEF ReviewTypeOK, AcquireCommitLock, Phase
  <2>2. CASE ReleaseCommitLock(o)
    BY <1>1, <1>5, <2>2 DEF ReviewTypeOK, ReleaseCommitLock, Phase
  <2>3. CASE LockConnectionLost(o)
    BY <1>1, <2>3 DEF ReviewTypeOK, LockConnectionLost
  <2>4. QED
    BY <2>1, <2>2, <2>3
<1>7. ASSUME NEW p \in Operator \ {o} PROVE pc'[p] = pc[p] /\ req'[p] = req[p]
  BY <1>1 DEF ReviewTypeOK, AcquireCommitLock, ReleaseCommitLock, LockConnectionLost
<1>8. \/ pc[o] = "wanting" /\ pc'[o] = "entered" /\ req'[o] = req[o]
      \/ pc[o] = "releasing" /\ pc'[o] = "idle"
      \/ pc'[o] = pc[o] /\ req'[o] = req[o]
  BY <1>1 DEF ReviewTypeOK, AcquireCommitLock, ReleaseCommitLock, LockConnectionLost
<1>9. RequestInv(o)
  BY RequestBatch
<1>10. RequestInv(o)'
  <2>1. CASE pc[o] = "wanting" /\ pc'[o] = "entered" /\ req'[o] = req[o]
    BY <1>2, <1>9, <2>1 DEF RequestInv, ViewInv, HeldInv, CommitInv, Phase
  <2>2. CASE pc[o] = "releasing" /\ pc'[o] = "idle"
    BY <1>2, <1>9, <2>2 DEF RequestInv, ViewInv, HeldInv, CommitInv
  <2>3. CASE pc'[o] = pc[o] /\ req'[o] = req[o]
    BY <1>1, <1>2, <1>9, <2>3, QuietForOthers
  <2>4. QED
    BY <1>8, <2>1, <2>2, <2>3
<1>11. ReviewTypeOK'
  <2>1. \A p \in Operator : view'[p] # NoView => view'[p] \in ViewOf(req'[p].batch)
    <3>1. view[o] # NoView => req'[o] = req[o]
      BY <1>8, <1>9 DEF RequestInv, ViewInv
    <3>2. QED
      BY <1>1, <1>2, <1>7, <3>1 DEF ReviewTypeOK
  <2>2. QED
    BY <1>1, <1>2, <1>3, <1>6, <2>1 DEF ReviewTypeOK
<1>12. TablesInv'
  BY <1>1, <1>2 DEF TablesInv
<1>13. ASSUME NEW p \in Operator PROVE RequestInv(p)'
  <2>1. CASE p = o
    BY <1>10, <2>1
  <2>2. CASE p # o
    BY <1>1, <1>2, <1>7, <2>2, QuietForOthers, RequestBatch
  <2>3. QED
    BY <2>1, <2>2
<1>14. QED
  BY <1>11, <1>12, <1>13, Assembled

\* The batch is locked, and read as it is if nothing held it before.
LEMMA LockBatchStep ==
    ASSUME IInv, NEW o \in Operator, LockBatch(o)
    PROVE  IInv'
<1> DEFINE b == req[o].batch
           to == IF pc[o] = "scoped" THEN "acking" ELSE "committing"
<1>1. ReviewTypeOK /\ TablesInv /\ NoOperator \notin Operator /\ b \in Batch /\ RequestInv(o)
  BY RequestBatch
<1>2. /\ pc[o] \in {"scoped", "entered"} /\ batchLock[b] = NoOperator
      /\ batchLock' = [batchLock EXCEPT ![b] = o]
      /\ held' = [held EXCEPT ![o] = HeldBatch(o)]
      /\ pc' = [pc EXCEPT ![o] = to]
      /\ UNCHANGED <<db, commitLock, req, view>>
  BY DEF LockBatch
<1>3. view[o] \in ViewOf(b) /\ db.batch[b].status # "ABSENT"
  BY <1>1, <1>2 DEF RequestInv, ViewInv, Phase
<1>4. HeldBatch(o) \in BatchRecord
  BY <1>1, <1>3 DEF HeldBatch, ReviewTypeOK, DB, ViewOf
<1>5. b \in FreshReview \/ pc[o] # "scoped" => HeldBatch(o) = db.batch[b]
  BY DEF HeldBatch, EntityAsked, FreshReview
<1>6. pc'[o] = to /\ held'[o] = HeldBatch(o) /\ batchLock'[b] = o
  BY <1>1, <1>2 DEF ReviewTypeOK
<1>7. ASSUME NEW p \in Operator \ {o}
      PROVE  /\ pc'[p] = pc[p] /\ held'[p] = held[p]
             /\ \A c \in Batch : batchLock[c] = p => batchLock'[c] = p
  BY <1>1, <1>2 DEF ReviewTypeOK
<1>8. ReviewTypeOK'
  BY <1>1, <1>2, <1>4 DEF ReviewTypeOK, Phase
<1>9. TablesInv'
  BY <1>1, <1>2 DEF TablesInv
<1>10. RequestInv(o)'
  <2>1. ViewInv(o)'
    BY <1>1, <1>2, <1>6 DEF RequestInv, ViewInv, Phase
  <2>2. HeldInv(o)'
    BY <1>2, <1>5, <1>6 DEF HeldInv
  <2>3. CommitInv(o)'
    BY <1>6 DEF CommitInv
  <2>4. QED
    BY <2>1, <2>2, <2>3 DEF RequestInv
<1>11. ASSUME NEW p \in Operator PROVE RequestInv(p)'
  <2>1. CASE p = o
    BY <1>10, <2>1
  <2>2. CASE p # o
    BY <1>1, <1>2, <1>7, <2>2, QuietForOthers, RequestBatch
  <2>3. QED
    BY <2>1, <2>2
<1>12. QED
  BY <1>8, <1>9, <1>11, Assembled

\* The references of a commit are active and locked from here on.
LEMMA RevalidateStep ==
    ASSUME IInv, NEW o \in Operator, Revalidate(o)
    PROVE  IInv'
<1>1. ReviewTypeOK /\ TablesInv /\ RequestInv(o)
  BY RequestBatch
<1>2. /\ pc[o] = "committing" /\ QualityGate(o) /\ MastersValid(o)
      /\ pc' = [pc EXCEPT ![o] = "revalidated"]
      /\ UNCHANGED <<db, batchLock, commitLock, req, view, held>>
  BY DEF Revalidate
<1>3. pc'[o] = "revalidated"
  BY <1>1, <1>2 DEF ReviewTypeOK
<1>4. ReviewTypeOK'
  BY <1>1, <1>2 DEF ReviewTypeOK, Phase
<1>5. TablesInv'
  BY <1>1, <1>2 DEF TablesInv
<1>6. ASSUME NEW r \in CreateRows(o), NEW m \in RefsOf[r] PROVE db.master[m].active
  <2>1. r \in Row
    BY DEF CreateRows, AskedRows, RowsOf
  <2>2. m \in RefsNeeded(o)
    BY DEF RefsNeeded
  <2>3. m \notin KeptCustomer(o)
    <3>1. \A s \in Row : m # CodeOf[s]
      BY <2>1, WorkbookAssumption
    <3>3. ExistingRows(o) \subseteq Row
      BY DEF ExistingRows, AskedRows, RowsOf
    <3>4. QED
      BY <3>1, <3>3 DEF KeptCustomer
  <2>4. ReferenceRead(o, m) = db.master[m]
    BY <2>3 DEF ReferenceRead
  <2>5. QED
    BY <1>2, <2>2, <2>4 DEF MastersValid
<1>7. RequestInv(o)'
  <2>1. ViewInv(o)' /\ HeldInv(o)'
    BY <1>1, <1>2, <1>3 DEF RequestInv, ViewInv, HeldInv, Phase
  <2>2. CommitInv(o)'
    <3>1. QualityGate(o)' /\ CreateRows(o)' = CreateRows(o)
      BY <1>2 DEF QualityGate, CreateRows, ExistingRows, AskedRows, Seen, SeenDecisions
    <3>2. QED
      BY <1>2, <1>6, <3>1 DEF CommitInv
  <2>3. QED
    BY <2>1, <2>2 DEF RequestInv
<1>8. ASSUME NEW p \in Operator PROVE RequestInv(p)'
  <2>1. CASE p = o
    BY <1>7, <2>1
  <2>2. CASE p # o
    <3>1. pc'[p] = pc[p]
      BY <1>1, <1>2, <2>2 DEF ReviewTypeOK
    <3>2. QED
      BY <1>1, <1>2, <3>1, QuietForOthers, RequestBatch
  <2>3. QED
    BY <2>1, <2>2
<1>9. QED
  BY <1>4, <1>5, <1>8, Assembled

-----------------------------------------------------------------------------
(* Steps that change tables *)

\* A step on batch b leaves the others as they are.
LEMMA TablesStay ==
    ASSUME TablesInv, NEW b \in Batch, db' \in DB, MastersOK(db'),
           \A c \in Batch \ {b} : SameReview(db, db', c),
           db'.batch[b].status # "ABSENT",
           b \in FreshReview => VersionsOK(db', b) /\ RowsOK(db', b)
    PROVE  TablesInv'
<1>1. ASSUME NEW c \in FreshReview PROVE VersionsOK(db', c) /\ RowsOK(db', c)
  <2>1. c \in Batch /\ VersionsOK(db, c) /\ RowsOK(db, c)
    BY <1>1 DEF FreshReview, TablesInv, ReviewsOK
  <2>2. CASE c = b
    BY <1>1, <2>2
  <2>3. CASE c # b
    <3>1. SameReview(db, db', c)
      BY <2>1, <2>3
    <3>2. QED
      BY <2>1, <3>1, FrameReview
  <2>4. QED
    BY <2>2, <2>3
<1>2. UnstagedOK(db')
  <2>1. \A c \in Batch \ {b} : db'.batch[c] = db.batch[c]
    BY DEF SameReview
  <2>2. QED
    BY <2>1 DEF UnstagedOK, TablesInv
<1>3. QED
  BY <1>1, <1>2 DEF TablesInv, ReviewsOK

LEMMA UploadStep ==
    ASSUME IInv, NEW b \in Batch, Upload(b)
    PROVE  IInv'
<1>1. ReviewTypeOK /\ TablesInv /\ ReviewsOK(db) /\ MastersOK(db)
  BY DEF IInv, TablesInv, ReviewTypeOK
<1>2. UNCHANGED <<batchLock, commitLock, pc, req, view, held>>
  BY DEF Upload
<1>3. /\ db' \in DB
      /\ db.batch[b].status = "ABSENT" /\ db'.batch[b].status \in {"REVIEW", "READY_TO_COMMIT"}
      /\ db'.master = db.master
      /\ \A r \in Row : db'.row[r].status = "COMMITTED" => db.row[r].status = "COMMITTED"
      /\ \A c \in Batch \ {b} : SameReview(db, db', c)
      /\ b \in FreshReview => VersionsOK(db', b) /\ RowsOK(db', b)
  BY <1>1, UploadEffect
<1>4. MastersOK(db')
  BY <1>1, <1>3 DEF MastersOK
<1>5. TablesInv'
  BY <1>1, <1>3, <1>4, TablesStay
<1>6. ReviewTypeOK'
  BY <1>1, <1>2, <1>3 DEF ReviewTypeOK
<1>7. ASSUME NEW p \in Operator PROVE RequestInv(p)'
  <2>1. RequestInv(p) /\ req[p].batch \in Batch
    BY RequestBatch
  <2>2. pc[p] \in InRequest => req[p].batch # b
    BY <1>3, <2>1 DEF RequestInv, ViewInv
  <2>3. pc[p] \in HoldsBatch => req[p].batch # b
    BY <2>2 DEF Phase
  <2>4. QED
    BY <1>2, <1>3, <2>1, <2>2, <2>3, OtherRequest
<1>8. QED
  BY <1>5, <1>6, <1>7, Assembled

\* Two requests never hold one batch.
LEMMA OneHolder ==
    ASSUME IInv, NEW o \in Operator, NEW p \in Operator \ {o}, pc[o] \in HoldsBatch
    PROVE  ~(pc[p] \in HoldsBatch /\ req[p].batch = req[o].batch)
<1>1. HeldInv(o) /\ HeldInv(p)
  BY DEF IInv, RequestInv
<1>2. QED
  BY <1>1 DEF HeldInv

LEMMA AcknowledgeStep ==
    ASSUME IInv, NEW o \in Operator, Acknowledge(o)
    PROVE  IInv'
<1> DEFINE b == req[o].batch
           last == db.batch[b].version
<1>1. /\ ReviewTypeOK /\ TablesInv /\ RequestInv(o) /\ b \in Batch
      /\ ReviewsOK(db) /\ MastersOK(db) /\ ViewInv(o) /\ HeldInv(o)
  BY RequestBatch DEF TablesInv, RequestInv
<1>2. /\ pc[o] = "acking" /\ pc' = [pc EXCEPT ![o] = "idle"] /\ EndOfTransaction(o)
      /\ commitLock' = commitLock
  BY DEF Acknowledge
<1>3. /\ db' \in DB /\ db'.batch[b].status # "ABSENT" /\ db'.master = db.master
      /\ \A r \in Row : db'.row[r].status = "COMMITTED" => db.row[r].status = "COMMITTED"
      /\ \A c \in Batch \ {b} : SameReview(db, db', c)
  BY <1>1, AckEffect
<1>4. ASSUME b \in FreshReview
      PROVE  /\ VersionsOK(db', b) /\ RowsOK(db', b)
             /\ last \in Nat /\ db'.batch[b].version = last + 1
             /\ \A f \in FindingsOf(db', b) : f \in FindingsOf(db, b) \/ f.version = last + 1
             /\ \A f \in DecisionsOf(db', b) : f \in DecisionsOf(db, b) \/ f.version = last + 1
             /\ FindingsOf(db, b) \subseteq FindingsOf(db', b)
             /\ DecisionsOf(db, b) \subseteq DecisionsOf(db', b)
             /\ \A r \in RowsOf(b) :
                    db'.row[r].status = "EXISTING" <=> db.row[r].status = "EXISTING"
  BY <1>1, <1>4, FreshAckEffect
<1>5. MastersOK(db')
  BY <1>1, <1>3 DEF MastersOK
<1>6. TablesInv'
  BY <1>1, <1>3, <1>4, <1>5, TablesStay
<1>7. commitLock' \in [Entity -> Operator \cup {NoOperator}]
  BY <1>1, <1>2 DEF ReviewTypeOK
<1>8. /\ ReviewTypeOK' /\ RequestInv(o)'
      /\ \A p \in Operator \ {o} :
            /\ pc'[p] = pc[p] /\ req'[p] = req[p] /\ view'[p] = view[p] /\ held'[p] = held[p]
            /\ \A c \in Batch : batchLock[c] = p => batchLock'[c] = p
  BY <1>2, <1>3, <1>7, TransactionEnds
<1>9. ASSUME b \in FreshReview, NEW w \in ViewOf(b), ViewOK(db, w, b)
      PROVE  ViewOK(db', w, b)
  <2>1. w.batch.version \in Nat /\ w.batch.version <= last
    BY <1>9 DEF ViewOf, BatchRecord, ViewOK
  <2>2. /\ db'.batch[b].version = last + 1 /\ last \in Nat
        /\ w.batch.version <= last + 1 /\ w.batch.version # last + 1
        /\ ~(last + 1 <= w.batch.version)
    BY <1>4, <1>9, <2>1
  <2>3. w.findings = {f \in db'.findings :
                        BatchOf[f.origin.row] = b /\ f.version <= w.batch.version}
    BY <1>4, <1>9, <2>2 DEF ViewOK, FindingsOf
  <2>4. w.decisions = {f \in db'.decisions :
                        BatchOf[f.origin.row] = b /\ f.version <= w.batch.version}
    BY <1>4, <1>9, <2>2 DEF ViewOK, DecisionsOf
  <2>5. \A r \in RowsOf(b) : w.row[r].status = "EXISTING" <=> db'.row[r].status = "EXISTING"
    BY <1>4, <1>9 DEF ViewOK
  <2>6. QED
    BY <2>2, <2>3, <2>4, <2>5 DEF ViewOK
<1>10. ASSUME NEW p \in Operator PROVE RequestInv(p)'
  <2>1. CASE p = o
    BY <1>8, <2>1
  <2>2. CASE p # o
    <3>1. RequestInv(p) /\ req[p].batch \in Batch
      BY RequestBatch
    <3>2. pc[p] \in InRequest => view[p] \in ViewOf(req[p].batch)
      BY <3>1 DEF RequestInv, ViewInv
    <3>3. ~(pc[p] \in HoldsBatch /\ req[p].batch = b)
      BY <1>2, <2>2, OneHolder
    <3>4. QED
      BY <1>1, <1>3, <1>8, <1>9, <2>2, <3>1, <3>2, <3>3, OtherRequest
  <2>3. QED
    BY <2>1, <2>2
<1>11. QED
  BY <1>6, <1>8, <1>10, Assembled

LEMMA CommitMastersStep ==
    ASSUME IInv, NEW o \in Operator, CommitMasters(o)
    PROVE  IInv'
<1> DEFINE b == req[o].batch
<1>1. /\ ReviewTypeOK /\ TablesInv /\ RequestInv(o) /\ b \in Batch
      /\ ReviewsOK(db) /\ MastersOK(db) /\ ViewInv(o) /\ HeldInv(o) /\ CommitInv(o)
  BY RequestBatch DEF TablesInv, RequestInv
<1>2. /\ pc[o] = "revalidated" /\ pc' = [pc EXCEPT ![o] = "releasing"] /\ EndOfTransaction(o)
      /\ commitLock' = commitLock
  BY DEF CommitMasters
<1>3. /\ db' \in DB
      /\ db'.findings = db.findings /\ db'.decisions = db.decisions
      /\ \A m \in CodesCreated(o) : db'.master[m] = [kind |-> "SAME", active |-> TRUE]
      /\ \A m \in Master \ CodesCreated(o) : db'.master[m] = db.master[m]
      /\ db'.batch[b] = [db.batch[b] EXCEPT !.status = "COMMITTED"]
  BY <1>1, CommitFields
<1>4. db'.batch[b].status = "COMMITTED" /\ db'.batch[b].version = db.batch[b].version
  <2>1. db.batch[b] \in BatchRecord
    BY <1>1 DEF TablesInv, DB
  <2>2. QED
    BY <1>3, <2>1 DEF BatchRecord
<1>5. /\ MastersOK(db')
      /\ \A c \in Batch \ {b} : SameReview(db, db', c)
      /\ b \in FreshReview =>
            /\ VersionsOK(db', b) /\ RowsOK(db', b)
            /\ \A r \in RowsOf(b) :
                    db'.row[r].status = "EXISTING" <=> db.row[r].status = "EXISTING"
  BY <1>1, CommitEffect
<1>6. TablesInv'
  BY <1>1, <1>3, <1>4, <1>5, TablesStay
<1>7. commitLock' \in [Entity -> Operator \cup {NoOperator}]
  BY <1>1, <1>2 DEF ReviewTypeOK
<1>8. /\ ReviewTypeOK' /\ RequestInv(o)'
      /\ \A p \in Operator \ {o} :
            /\ pc'[p] = pc[p] /\ req'[p] = req[p] /\ view'[p] = view[p] /\ held'[p] = held[p]
            /\ \A c \in Batch : batchLock[c] = p => batchLock'[c] = p
  BY <1>2, <1>3, <1>7, TransactionEnds
<1>9. ASSUME b \in FreshReview, NEW w, ViewOK(db, w, b)
      PROVE  ViewOK(db', w, b)
  BY <1>3, <1>4, <1>5, <1>9 DEF ViewOK
<1>10. ASSUME NEW p \in Operator PROVE RequestInv(p)'
  <2>1. CASE p = o
    BY <1>8, <2>1
  <2>2. CASE p # o
    <3>1. RequestInv(p) /\ req[p].batch \in Batch
      BY RequestBatch
    <3>2. ~(pc[p] \in HoldsBatch /\ req[p].batch = b)
      BY <1>2, <2>2, OneHolder
    <3>3. \A m \in LocksOf(p) \cap Master : db.master[m].active => db'.master[m].active
      BY <1>3
    <3>4. db'.batch[b].status # "ABSENT"
      BY <1>4
    <3>5. QED
      BY <1>1, <1>5, <1>8, <1>9, <2>2, <3>1, <3>2, <3>3, <3>4, OtherRequest
  <2>3. QED
    BY <2>1, <2>2
<1>11. QED
  BY <1>6, <1>8, <1>10, Assembled

\* An edit of a master waits for the locks of every commit.
LEMMA MasterEditStep ==
    ASSUME IInv, MasterEdit
    PROVE  IInv'
<1>1. ReviewTypeOK /\ TablesInv /\ ReviewsOK(db) /\ MastersOK(db) /\ db \in DB
  BY DEF IInv, TablesInv, ReviewTypeOK
<1>2. Named \subseteq Master /\ Switched \subseteq Master
  BY ImportAssumption
<1>3. PICK m \in Master, new \in MasterRecord : SetMaster(m, new) /\ new.kind # "NONE"
  <2>1. CASE \E m \in Named : CreateMaster(m)
    <3>1. PICK m \in Named : CreateMaster(m)
      BY <2>1
    <3>2. PICK k \in {"SAME", "OTHER"} : SetMaster(m, [kind |-> k, active |-> TRUE])
      BY <3>1 DEF CreateMaster
    <3>3. [kind |-> k, active |-> TRUE] \in MasterRecord
      BY DEF MasterRecord
    <3>4. QED
      BY <1>2, <3>2, <3>3
  <2>2. CASE \E m \in Named : RenameMaster(m)
    <3>1. PICK m \in Named : RenameMaster(m)
      BY <2>2
    <3> DEFINE new == [db.master[m] EXCEPT !.kind = IF @ = "SAME" THEN "OTHER" ELSE "SAME"]
    <3>2. SetMaster(m, new)
      BY <3>1 DEF RenameMaster
    <3>3. db.master[m] \in MasterRecord
      BY <1>1, <1>2 DEF DB
    <3>4. new \in MasterRecord /\ new.kind # "NONE"
      BY <3>3 DEF MasterRecord
    <3>5. QED
      BY <1>2, <3>2, <3>4
  <2>3. CASE \E m \in Switched : SetActive(m)
    <3>1. PICK m \in Switched : SetActive(m)
      BY <2>3
    <3> DEFINE new == [db.master[m] EXCEPT !.active = ~@]
    <3>2. SetMaster(m, new) /\ db.master[m].kind # "NONE"
      BY <3>1 DEF SetActive
    <3>3. db.master[m] \in MasterRecord
      BY <1>1, <1>2 DEF DB
    <3>4. new \in MasterRecord /\ new.kind = db.master[m].kind
      BY <3>3 DEF MasterRecord
    <3>5. QED
      BY <1>2, <3>2, <3>4
  <2>4. QED
    BY <2>1, <2>2, <2>3 DEF MasterEdit
<1>4. /\ Unlocked(m) /\ db' = [db EXCEPT !.master[m] = new]
      /\ UNCHANGED <<batchLock, commitLock, pc, req, view, held>>
  BY <1>3 DEF SetMaster
<1>5. /\ db'.batch = db.batch /\ db'.row = db.row
      /\ db'.findings = db.findings /\ db'.decisions = db.decisions
      /\ db'.master = [db.master EXCEPT ![m] = new] /\ db' \in DB
  <2>1. db.master \in [Master -> MasterRecord]
    BY <1>1 DEF DB
  <2>2. db' = [batch |-> db.batch, row |-> db.row, findings |-> db.findings,
               decisions |-> db.decisions, master |-> [db.master EXCEPT ![m] = new]]
    BY <1>1, <1>4 DEF DB
  <2>3. [db.master EXCEPT ![m] = new] \in [Master -> MasterRecord]
    BY <1>3, <2>1
  <2>4. QED
    BY <1>1, <2>2, <2>3 DEF DB
<1>6. db'.master[m] = new /\ \A n \in Master \ {m} : db'.master[n] = db.master[n]
  BY <1>1, <1>5 DEF DB
<1>7. \A c \in Batch : SameReview(db, db', c)
  BY <1>5 DEF SameReview, FindingsOf, DecisionsOf
<1>8. MastersOK(db')
  <2>1. \A r \in Row : CodeOf[r] \in Master
    BY ImportAssumption
  <2>2. QED
    BY <1>1, <1>3, <1>5, <1>6, <2>1 DEF MastersOK
<1>9. TablesInv'
  <2>1. ASSUME NEW c \in FreshReview PROVE VersionsOK(db', c) /\ RowsOK(db', c)
    <3>1. c \in Batch /\ VersionsOK(db, c) /\ RowsOK(db, c)
      BY <1>1, <2>1 DEF FreshReview, ReviewsOK
    <3>2. SameReview(db, db', c)
      BY <1>7, <3>1
    <3>3. QED
      BY <3>1, <3>2, FrameReview
  <2>2. UnstagedOK(db')
    BY <1>1, <1>5 DEF UnstagedOK, TablesInv
  <2>3. QED
    BY <1>5, <1>8, <2>1, <2>2 DEF TablesInv, ReviewsOK
<1>10. ReviewTypeOK'
  BY <1>1, <1>4, <1>5 DEF ReviewTypeOK
<1>11. ASSUME NEW p \in Operator PROVE RequestInv(p)'
  <2> DEFINE b == req[p].batch
  <2>1. RequestInv(p) /\ b \in Batch
    BY RequestBatch
  <2>2. m \notin LocksOf(p)
    BY <1>4 DEF Unlocked
  <2>3. \A n \in LocksOf(p) \cap Master : db'.master[n] = db.master[n]
    BY <1>6, <2>2
  <2>4. /\ \A w : ViewOK(db, w, b) => ViewOK(db', w, b)
        /\ db'.batch[b] = db.batch[b]
    BY <1>5, <1>7, <2>1, FrameView
  <2>5. pc[p] \in InRequest => db'.batch[b].status # "ABSENT"
    BY <2>1, <2>4 DEF RequestInv, ViewInv
  <2>6. QED
    BY <1>4, <1>7, <2>1, <2>3, <2>4, <2>5, OtherRequest
<1>12. QED
  BY <1>9, <1>10, <1>11, Assembled

-----------------------------------------------------------------------------
(* The invariant and what follows from it *)

LEMMA InitIInv == Init => IInv
<1> SUFFICES ASSUME Init PROVE IInv
  OBVIOUS
<1>1. (CHOOSE b \in Batch : TRUE) \in Batch
  BY ImportAssumption
<1>2. NoRequest \in [batch: Batch, version: Nat, chosen: SUBSET Finding]
  BY <1>1 DEF NoRequest
<1>3. NoBatchYet \in BatchRecord /\ NoBatchYet.status = "ABSENT" /\ NoBatchYet.version = 0
  BY DEF NoBatchYet, BatchRecord, BatchStatus
<1>4. db \in DB
  <2>1. [status |-> "ABSENT", reviewed |-> "NONE"] \in RowRecord
    BY DEF RowRecord, RowStatus, Reviewed
  <2>2. /\ [kind |-> "SAME", active |-> TRUE] \in MasterRecord
        /\ [kind |-> "NONE", active |-> FALSE] \in MasterRecord
    BY DEF MasterRecord
  <2>3. QED
    BY <1>3, <2>1, <2>2 DEF Init, DB
<1>5. /\ \A b \in Batch : db.batch[b].status = "ABSENT" /\ db.batch[b].version = 0
      /\ \A r \in Row : db.row[r].status = "ABSENT"
      /\ db.findings = {} /\ db.decisions = {}
  BY <1>3 DEF Init
<1>6. ReviewTypeOK
  BY <1>2, <1>3, <1>4 DEF Init, ReviewTypeOK, Phase
<1>7. ReviewsOK(db)
  <2>1. SUFFICES ASSUME NEW b \in FreshReview PROVE VersionsOK(db, b) /\ RowsOK(db, b)
    BY DEF ReviewsOK
  <2>2. b \in Batch /\ RowsOf(b) \subseteq Row
    BY DEF FreshReview, RowsOf
  <2>3. VersionsOK(db, b)
    BY <1>5, <2>2 DEF VersionsOK
  <2>4. RowsOK(db, b)
    BY <1>5, <2>2 DEF RowsOK
  <2>5. QED
    BY <2>3, <2>4
<1>8. UnstagedOK(db) /\ MastersOK(db)
  BY <1>5 DEF UnstagedOK, MastersOK
<1>9. \A o \in Operator : RequestInv(o)
  BY DEF Init, RequestInv, ViewInv, HeldInv, CommitInv
<1>10. QED
  BY <1>6, <1>7, <1>8, <1>9 DEF IInv

LEMMA NextIInv == IInv /\ [Next]_vars => IInv'
<1> SUFFICES ASSUME IInv, [Next]_vars PROVE IInv'
  OBVIOUS
<1>1. CASE UNCHANGED vars
  <2>1. ReviewTypeOK' /\ TablesInv'
    BY <1>1 DEF vars, IInv, ReviewTypeOK, TablesInv
  <2>2. \A p \in Operator : RequestInv(p)'
    BY <1>1, QuietForOthers, RequestBatch DEF vars
  <2>3. QED
    BY <2>1, <2>2, Assembled
<1>2. CASE \E b \in Batch : Upload(b)
  BY <1>2, UploadStep
<1>3. ASSUME NEW o \in Operator, OperatorStep(o) PROVE IInv'
  BY <1>3, SubmitStep, CommitLockStep, GiveUpStep, LockBatchStep, AcknowledgeStep,
     RevalidateStep, CommitMastersStep DEF OperatorStep
<1>4. CASE MasterEdit
  BY <1>4, MasterEditStep
<1>5. QED
  BY <1>1, <1>2, <1>3, <1>4 DEF Next

\* The inductive invariant: versions of a review are copies of each other, rows
\* and status say what the findings and decisions say, a snapshot holds whole
\* versions, and who holds a batch lock holds the batch as it is.
THEOREM ReviewInvariance == Spec => []IInv
BY InitIInv, NextIInv, PTL DEF Spec

\* The tables, locks, requests, snapshots and held batches of the import review
\* have the types of the columns and objects they stand for.
THEOREM ReviewTyping == Spec => []ReviewTypeOK
<1>1. IInv => ReviewTypeOK
  BY DEF IInv
<1>2. QED
  BY <1>1, ReviewInvariance, PTL

\* Each acknowledgement of a Customer batch copies its findings once and whole
\* into the next version, whatever the order of concurrent acknowledgements.
THEOREM VersionsAreCopies == Spec => []OneCopyPerVersion
<1>1. IInv => OneCopyPerVersion
  BY DEF IInv, ReviewsOK, VersionsOK, OneCopyPerVersion
<1>2. QED
  BY <1>1, ReviewInvariance, PTL

\* A Customer batch is READY_TO_COMMIT or COMMITTED only when nothing is left
\* open in its version, and its rows are READY or EXISTING.
THEOREM ReadinessMeansReviewed == Spec => []ReadinessIsTrue
<1>1. IInv => ReadinessIsTrue
  <2>1. SUFFICES ASSUME IInv, NEW b \in FreshReview
                 PROVE  /\ db.batch[b].status \in {"READY_TO_COMMIT", "COMMITTED"} =>
                                Origins(Current(b)) \ Origins(Acknowledged(b)) = {}
                        /\ db.batch[b].status = "READY_TO_COMMIT" =>
                                \A r \in RowsOf(b) : db.row[r].status \in {"READY", "EXISTING"}
    BY DEF ReadinessIsTrue
  <2>2. b \in Batch /\ VersionsOK(db, b) /\ RowsOK(db, b) /\ db \in DB
    BY <2>1 DEF IInv, ReviewsOK, ReviewTypeOK, FreshReview
  <2>3. Origins(Current(b)) \ Origins(Acknowledged(b)) = Open(db, b)
    BY DEF Current, Acknowledged, Open
  <2>4. db.batch[b].status \in {"READY_TO_COMMIT", "COMMITTED"} => Open(db, b) = {}
    BY <2>2, ReadyMeansNothingOpen DEF RowsOK
  <2>5. ASSUME db.batch[b].status = "READY_TO_COMMIT", NEW r \in RowsOf(b)
        PROVE  db.row[r].status \in {"READY", "EXISTING"}
    <3>1. /\ db.row[r] = RowReadiness(db.row[r].status = "EXISTING", RowFindings(db, b, r),
                                      DecisionsAt(db, b, db.batch[b].version))
          /\ db.row[r].status \notin {"WARNING", "ERROR"}
      BY <2>2, <2>5 DEF RowsOK
    <3>2. db.row[r].status \in {"EXISTING", "ERROR", "WARNING", "READY"}
      BY <3>1, RowReadinessMeans
    <3>3. QED
      BY <3>1, <3>2
  <2>6. QED
    BY <2>3, <2>4, <2>5
<1>2. QED
  BY <1>1, ReviewInvariance, PTL

\* A Customer batch is committed as a whole: its rows are COMMITTED or EXISTING
\* once it is, no row is before, and every committed row has its master.
THEOREM CommitsAreWhole == Spec => []CommitIsWhole
<1>1. IInv => CommitIsWhole
  <2>1. SUFFICES ASSUME IInv, NEW r \in Row, BatchOf[r] \in FreshReview
                 PROVE  /\ db.batch[BatchOf[r]].status = "COMMITTED" =>
                                db.row[r].status \in {"COMMITTED", "EXISTING"}
                        /\ db.row[r].status = "COMMITTED" =>
                                /\ db.batch[BatchOf[r]].status = "COMMITTED"
                                /\ db.master[CodeOf[r]].kind # "NONE"
    BY DEF CommitIsWhole
  <2> DEFINE b == BatchOf[r]
             st == db.batch[b].status
  <2>2. RowsOK(db, b) /\ r \in RowsOf(b) /\ b \in Batch /\ db \in DB
    BY <2>1 DEF IInv, ReviewsOK, ReviewTypeOK, FreshReview, RowsOf
  <2>3. st \in {"ABSENT", "REVIEW", "READY_TO_COMMIT", "COMMITTED"}
    BY <2>2 DEF DB, BatchRecord, BatchStatus
  <2>4. st = "COMMITTED" => db.row[r].status \in {"COMMITTED", "EXISTING"}
    BY <2>2 DEF RowsOK
  <2>5. st = "ABSENT" => db.row[r].status # "COMMITTED"
    BY <2>2 DEF RowsOK
  <2>6. ASSUME st \in {"REVIEW", "READY_TO_COMMIT"} PROVE db.row[r].status # "COMMITTED"
    <3>1. db.row[r] = RowReadiness(db.row[r].status = "EXISTING", RowFindings(db, b, r),
                                   DecisionsAt(db, b, db.batch[b].version))
      BY <2>2, <2>6 DEF RowsOK
    <3>2. db.row[r].status \in {"EXISTING", "ERROR", "WARNING", "READY"}
      BY <3>1, RowReadinessMeans
    <3>3. QED
      BY <3>2
  <2>7. db.row[r].status = "COMMITTED" => db.master[CodeOf[r]].kind # "NONE"
    BY <2>1 DEF IInv, MastersOK
  <2>8. QED
    BY <2>3, <2>4, <2>5, <2>6, <2>7
<1>2. QED
  BY <1>1, ReviewInvariance, PTL

-----------------------------------------------------------------------------
(* What steps may do *)

\* The only steps that change a batch, a row, a finding or a decision.
LEMMA ReviewSteps ==
    ASSUME [Next]_vars
    PROVE  \/ db'.batch = db.batch /\ db'.row = db.row
              /\ db'.findings = db.findings /\ db'.decisions = db.decisions
           \/ \E b \in Batch : Upload(b)
           \/ \E o \in Operator : Acknowledge(o) \/ CommitMasters(o)
<1>1. CASE MasterEdit
  <2>1. PICK m \in Master : \E new : SetMaster(m, new)
    BY <1>1, ImportAssumption DEF MasterEdit, CreateMaster, RenameMaster, SetActive
  <2>2. PICK new : db' = [db EXCEPT !.master[m] = new]
    BY <2>1 DEF SetMaster
  <2>3. QED
    BY <2>2
<1>2. ASSUME NEW o \in Operator, OperatorStep(o), ~Acknowledge(o), ~CommitMasters(o)
      PROVE  db' = db
  BY <1>2 DEF OperatorStep, SubmitAck, SubmitCommit, AcquireCommitLock, CommitLockTimeout,
      LockBatch, RejectAck, Revalidate, RejectCommit, ReleaseCommitLock, StatementFails,
      LockConnectionLost
<1>3. CASE UNCHANGED vars
  BY <1>3 DEF vars
<1>4. QED
  BY <1>1, <1>2, <1>3 DEF Next

\* A committed Customer batch keeps its version, its counters and its rows: a
\* review or a commit that was late finds the batch as it is under its lock.
THEOREM CommittedBatchesStay == Spec => CommittedIsFinal
<1> DEFINE Final(b) == /\ db'.batch[b] = db.batch[b]
                       /\ \A r \in RowsOf(b) : db'.row[r] = db.row[r]
<1>1. ASSUME IInv, [Next]_vars, NEW b \in FreshReview, db.batch[b].status = "COMMITTED"
      PROVE  Final(b)
  <2>1. /\ b \in Batch /\ ReviewTypeOK /\ ReviewsOK(db) /\ MastersOK(db)
        /\ \A o \in Operator : req[o].batch \in Batch /\ ViewInv(o) /\ HeldInv(o) /\ CommitInv(o)
    BY <1>1, RequestBatch DEF IInv, RequestInv, FreshReview
  <2>2. CASE db'.batch = db.batch /\ db'.row = db.row
    BY <2>2
  <2>3. ASSUME NEW c \in Batch, Upload(c) PROVE Final(b)
    BY <1>1, <2>1, <2>3, UploadEffect DEF SameReview
  <2>4. ASSUME NEW o \in Operator, Acknowledge(o) PROVE Final(b)
    <3>1. \A c \in Batch \ {req[o].batch} : SameReview(db, db', c)
      BY <2>1, <2>4, AckEffect
    <3>2. req[o].batch \in FreshReview => db.batch[req[o].batch].status = "REVIEW"
      BY <2>1, <2>4, FreshAckEffect
    <3>3. QED
      BY <1>1, <2>1, <3>1, <3>2 DEF SameReview
  <2>5. ASSUME NEW o \in Operator, CommitMasters(o) PROVE Final(b)
    <3>1. \A c \in Batch \ {req[o].batch} : SameReview(db, db', c)
      BY <2>1, <2>5, CommitEffect
    <3>2. db.batch[req[o].batch].status = "READY_TO_COMMIT"
      BY <2>1, <2>5, CommitFields
    <3>3. QED
      BY <1>1, <2>1, <3>1, <3>2 DEF SameReview
  <2>6. QED
    BY <1>1, <2>2, <2>3, <2>4, <2>5, ReviewSteps
<1>2. IInv /\ [Next]_vars =>
        [\A b \in FreshReview : db.batch[b].status = "COMMITTED" =>
            /\ db'.batch[b] = db.batch[b]
            /\ \A r \in RowsOf(b) : db'.row[r] = db.row[r]]_vars
  BY <1>1
<1>3. QED
  BY <1>2, ReviewInvariance, PTL DEF Spec, CommittedIsFinal

\* A row becomes a master only while every channel, representative, region and
\* other reference of it is active, although other operators switch them.
THEOREM CommittedReferencesAreActive == Spec => ReferencesAreActive
<1>1. ASSUME IInv, [Next]_vars, NEW r \in Row,
             db.row[r].status # "COMMITTED", db'.row[r].status = "COMMITTED",
             NEW m \in RefsOf[r]
      PROVE  db'.master[m].active
  <2>1. /\ ReviewTypeOK /\ ReviewsOK(db) /\ MastersOK(db)
        /\ \A o \in Operator : req[o].batch \in Batch /\ ViewInv(o) /\ HeldInv(o) /\ CommitInv(o)
    BY <1>1, RequestBatch DEF IInv, RequestInv
  <2>2. ~(db'.row = db.row)
    BY <1>1
  <2>3. ASSUME NEW b \in Batch, Upload(b) PROVE FALSE
    BY <1>1, <2>1, <2>3, UploadEffect
  <2>4. ASSUME NEW o \in Operator, Acknowledge(o) PROVE FALSE
    BY <1>1, <2>1, <2>4, AckEffect
  <2>5. PICK o \in Operator : CommitMasters(o)
    BY <1>1, <2>2, <2>3, <2>4, ReviewSteps
  <2>6. /\ pc[o] = "revalidated"
        /\ \A s \in Row \ CreateRows(o) : db'.row[s] = db.row[s]
        /\ \A n \in CodesCreated(o) : db'.master[n] = [kind |-> "SAME", active |-> TRUE]
        /\ \A n \in Master \ CodesCreated(o) : db'.master[n] = db.master[n]
    BY <2>1, <2>5, CommitFields
  <2>7. r \in CreateRows(o)
    BY <1>1, <2>6
  <2>8. db.master[m].active
    BY <2>1, <2>6, <2>7 DEF CommitInv
  <2>9. m \in Master
    BY ImportAssumption
  <2>10. QED
    BY <2>6, <2>8, <2>9
<1>2. IInv /\ [Next]_vars =>
        [\A r \in Row :
            db.row[r].status # "COMMITTED" /\ db'.row[r].status = "COMMITTED"
                => \A m \in RefsOf[r] : db'.master[m].active]_vars
  BY <1>1
<1>3. QED
  BY <1>2, ReviewInvariance, PTL DEF Spec, ReferencesAreActive

-----------------------------------------------------------------------------
(* Reviews implement the book of issues *)

LEMMA BookStutter ==
    ASSUME \A b \in FreshReview : SameReview(db, db', b)
    PROVE  UNCHANGED Book!bookVars
<1>1. \A b \in FreshReview : b \in Batch
  BY DEF FreshReview
<1>2. \A b \in FreshReview : db'.batch[b] = db.batch[b] /\ Open(db', b) = Open(db, b)
  BY <1>1, FrameReview DEF SameReview
<1>3. QED
  BY <1>2 DEF Book!bookVars, Open, Current, Acknowledged

\* A step on fresh batch b that leaves b ready exactly when nothing is open.
LEMMA BookChange ==
    ASSUME NEW b \in FreshReview, \A c \in Batch \ {b} : SameReview(db, db', c)
    PROVE  /\ [c \in FreshReview |-> Origins(Current(c)) \ Origins(Acknowledged(c))]' =
              [[c \in FreshReview |-> Origins(Current(c)) \ Origins(Acknowledged(c))]
                    EXCEPT ![b] = Open(db', b)]
           /\ [c \in FreshReview |-> db.batch[c].status]' =
              [[c \in FreshReview |-> db.batch[c].status] EXCEPT ![b] = db'.batch[b].status]
<1>1. \A c \in FreshReview \ {b} : db'.batch[c] = db.batch[c] /\ Open(db', c) = Open(db, c)
  BY FrameReview DEF SameReview, FreshReview
<1>2. /\ \A c \in FreshReview : Origins(Current(c)) \ Origins(Acknowledged(c)) = Open(db, c)
      /\ \A c \in FreshReview : (Origins(Current(c)) \ Origins(Acknowledged(c)))' = Open(db', c)
  BY DEF Open, Current, Acknowledged
<1>3. [c \in FreshReview |-> Origins(Current(c)) \ Origins(Acknowledged(c))] =
      [c \in FreshReview |-> Open(db, c)]
  BY <1>2
<1>4. [c \in FreshReview |-> Origins(Current(c)) \ Origins(Acknowledged(c))]' =
      [c \in FreshReview |-> Open(db', c)]
  BY DEF Open, Current, Acknowledged
<1>5. [c \in FreshReview |-> Open(db', c)] =
      [[c \in FreshReview |-> Open(db, c)] EXCEPT ![b] = Open(db', b)]
  BY <1>1
<1>6. QED
  BY <1>1, <1>3, <1>4, <1>5

LEMMA OpenIsIssues ==
    ASSUME NEW d \in DB, NEW b \in Batch
    PROVE  Open(d, b) \subseteq [row: Row, rule: WarningRule \cup ErrorRule]
BY DEF Open, Origins, FindingsAt, DB, Finding, Origin

\* The status of a fresh batch in review says whether something is open.
LEMMA ReviewStatus ==
    ASSUME NEW d \in DB, NEW b \in Batch, VersionsOK(d, b), RowsOK(d, b),
           d.batch[b].status \in {"REVIEW", "READY_TO_COMMIT"}
    PROVE  d.batch[b].status = Book!Review(Open(d, b))
<1>1. d.batch[b].status = "READY_TO_COMMIT" <=> Open(d, b) = {}
  BY ReadyMeansNothingOpen
<1>2. QED
  BY <1>1 DEF Book!Review

LEMMA BookStages ==
    ASSUME IInv, NEW b \in FreshReview, Upload(b)
    PROVE  Book!Stage(b)
<1>1. ReviewTypeOK /\ ReviewsOK(db) /\ b \in Batch
  BY DEF IInv, FreshReview
<1>2. /\ db' \in DB
      /\ db.batch[b].status = "ABSENT" /\ db'.batch[b].status \in {"REVIEW", "READY_TO_COMMIT"}
      /\ \A c \in Batch \ {b} : SameReview(db, db', c)
      /\ VersionsOK(db', b) /\ RowsOK(db', b)
  BY <1>1, UploadEffect
<1>3. /\ Open(db', b) \subseteq [row: Row, rule: WarningRule \cup ErrorRule]
      /\ db'.batch[b].status = Book!Review(Open(db', b))
  BY <1>1, <1>2, OpenIsIssues, ReviewStatus
<1>4. [c \in FreshReview |-> Origins(Current(c)) \ Origins(Acknowledged(c))]'[b] = Open(db', b)
  BY DEF Open, Current, Acknowledged
<1>5. QED
  BY <1>2, <1>3, <1>4, BookChange DEF Book!Stage

LEMMA BookAcknowledges ==
    ASSUME IInv, NEW o \in Operator, Acknowledge(o), NEW b \in FreshReview, b = req[o].batch
    PROVE  Book!AcknowledgeIssues(b)
<1> DEFINE chosen == Origins(req[o].chosen)
<1>1. ReviewTypeOK /\ ReviewsOK(db) /\ b \in Batch /\ ViewInv(o) /\ HeldInv(o) /\ db \in DB
  BY RequestBatch DEF IInv, RequestInv, TablesInv
<1>2. /\ db' \in DB /\ \A c \in Batch \ {b} : SameReview(db, db', c)
  BY <1>1, AckEffect
<1>3. /\ VersionsOK(db', b) /\ RowsOK(db', b)
      /\ db.batch[b].status = "REVIEW"
      /\ db'.batch[b].status \in {"REVIEW", "READY_TO_COMMIT"}
      /\ Open(db', b) = Open(db, b) \ chosen
      /\ chosen \subseteq Open(db, b) /\ chosen # {}
      /\ \A f \in req[o].chosen : IsWarning(f)
  BY <1>1, FreshAckEffect
<1>4. db'.batch[b].status = Book!Review(Open(db', b))
  BY <1>1, <1>2, <1>3, ReviewStatus
<1>5. \A i \in chosen : i.rule \notin ErrorRule
  BY <1>3 DEF Origins, IsWarning, WarningRule, ErrorRule
<1>6. /\ [c \in FreshReview |-> Origins(Current(c)) \ Origins(Acknowledged(c))]'[b] = Open(db', b)
      /\ [c \in FreshReview |-> Origins(Current(c)) \ Origins(Acknowledged(c))][b] = Open(db, b)
  BY DEF Open, Current, Acknowledged
<1>7. chosen \in SUBSET {i \in Open(db, b) : ~(i.rule \in ErrorRule)}
  BY <1>3, <1>5
<1>8. /\ [c \in FreshReview |-> Origins(Current(c)) \ Origins(Acknowledged(c))]' =
            [[c \in FreshReview |-> Origins(Current(c)) \ Origins(Acknowledged(c))]
                EXCEPT ![b] = Open(db', b)]
      /\ [c \in FreshReview |-> db.batch[c].status]' =
            [[c \in FreshReview |-> db.batch[c].status] EXCEPT ![b] = db'.batch[b].status]
  BY <1>2, BookChange
<1> HIDE DEF chosen
<1>9. \E ch \in SUBSET {i \in [c \in FreshReview |-> Origins(Current(c)) \ Origins(Acknowledged(c))][b] :
                            ~(i.rule \in ErrorRule)} :
        /\ ch # {}
        /\ [c \in FreshReview |-> Origins(Current(c)) \ Origins(Acknowledged(c))]' =
            [[c \in FreshReview |-> Origins(Current(c)) \ Origins(Acknowledged(c))]
                EXCEPT ![b] = @ \ ch]
  <2>1. chosen \in SUBSET {i \in [c \in FreshReview |-> Origins(Current(c)) \ Origins(Acknowledged(c))][b] :
                            ~(i.rule \in ErrorRule)}
    BY <1>6, <1>7
  <2>2. [c \in FreshReview |-> Origins(Current(c)) \ Origins(Acknowledged(c))]' =
            [[c \in FreshReview |-> Origins(Current(c)) \ Origins(Acknowledged(c))]
                EXCEPT ![b] = @ \ chosen]
    BY <1>3, <1>6, <1>8
  <2>3. QED
    BY <1>3, <2>1, <2>2
<1>10. /\ [c \in FreshReview |-> db.batch[c].status][b] = "REVIEW"
       /\ [c \in FreshReview |-> db.batch[c].status]' =
            [[c \in FreshReview |-> db.batch[c].status] EXCEPT ![b] =
                Book!Review([c \in FreshReview |-> Origins(Current(c)) \ Origins(Acknowledged(c))]'[b])]
  BY <1>3, <1>4, <1>6, <1>8
<1>11. QED
  BY <1>9, <1>10 DEF Book!AcknowledgeIssues

LEMMA BookCommits ==
    ASSUME IInv, NEW o \in Operator, CommitMasters(o), NEW b \in FreshReview, b = req[o].batch
    PROVE  Book!CommitBatch(b)
<1>1. /\ ReviewTypeOK /\ ReviewsOK(db) /\ MastersOK(db) /\ b \in Batch /\ db \in DB
      /\ ViewInv(o) /\ HeldInv(o) /\ CommitInv(o)
  BY RequestBatch DEF IInv, RequestInv, TablesInv
<1>2. /\ db.batch[b].status = "READY_TO_COMMIT"
      /\ db'.batch[b] = [db.batch[b] EXCEPT !.status = "COMMITTED"]
  BY <1>1, CommitFields
<1>3. db'.batch[b].status = "COMMITTED"
  <2>1. db.batch[b] \in BatchRecord
    BY <1>1 DEF DB
  <2>2. QED
    BY <1>2, <2>1 DEF BatchRecord
<1>4. /\ \A c \in Batch \ {b} : SameReview(db, db', c)
      /\ Open(db', b) = Open(db, b)
  BY <1>1, CommitEffect
<1>5. [c \in FreshReview |-> Origins(Current(c)) \ Origins(Acknowledged(c))][b] = Open(db, b)
  BY DEF Open, Current, Acknowledged
<1>6. /\ [c \in FreshReview |-> Origins(Current(c)) \ Origins(Acknowledged(c))]' =
            [[c \in FreshReview |-> Origins(Current(c)) \ Origins(Acknowledged(c))]
                EXCEPT ![b] = Open(db', b)]
      /\ [c \in FreshReview |-> db.batch[c].status]' =
            [[c \in FreshReview |-> db.batch[c].status] EXCEPT ![b] = db'.batch[b].status]
  BY <1>4, BookChange
<1>7. UNCHANGED [c \in FreshReview |-> Origins(Current(c)) \ Origins(Acknowledged(c))]
  BY <1>4, <1>5, <1>6
<1>8. QED
  BY <1>2, <1>3, <1>6, <1>7 DEF Book!CommitBatch

\* Reviews of Customer batches, with their versions, snapshots, copies and row
\* states, do to the open issues of a batch only what the book of issues allows:
\* none reopens, no error is acknowledged, and none is left open by a commit.
THEOREM ReviewsImplementTheBook == Spec => ImplementsReviewBook
<1>1. Init => Book!BookInit
  <2>1. SUFFICES ASSUME Init PROVE Book!BookInit
    OBVIOUS
  <2>2. \A b \in FreshReview : b \in Batch
    BY DEF FreshReview
  <2>3. /\ \A b \in FreshReview : db.batch[b].status = "ABSENT"
        /\ \A b \in FreshReview : Origins(Current(b)) \ Origins(Acknowledged(b)) = {}
    BY <2>1, <2>2 DEF Init, NoBatchYet, Origins, Current, Acknowledged, FindingsAt, DecisionsAt
  <2>4. QED
    BY <2>3 DEF Book!BookInit
<1>2. IInv /\ [Next]_vars => [Book!BookNext]_(Book!bookVars)
  <2>1. SUFFICES ASSUME IInv, [Next]_vars PROVE Book!BookNext \/ UNCHANGED Book!bookVars
    OBVIOUS
  <2>2. /\ ReviewTypeOK /\ ReviewsOK(db) /\ MastersOK(db)
        /\ \A o \in Operator : req[o].batch \in Batch /\ ViewInv(o) /\ HeldInv(o) /\ CommitInv(o)
        /\ FreshReview \subseteq Batch
    BY <2>1, RequestBatch DEF IInv, RequestInv, FreshReview
  <2>3. CASE db'.batch = db.batch /\ db'.row = db.row
             /\ db'.findings = db.findings /\ db'.decisions = db.decisions
    BY <2>3, BookStutter DEF SameReview, FindingsOf, DecisionsOf
  <2>4. ASSUME NEW b \in Batch, Upload(b)
        PROVE  Book!BookNext \/ UNCHANGED Book!bookVars
    <3>1. \A c \in Batch \ {b} : SameReview(db, db', c)
      BY <2>2, <2>4, UploadEffect
    <3>2. b \in FreshReview => Book!Stage(b)
      BY <2>1, <2>4, BookStages
    <3>3. b \notin FreshReview => UNCHANGED Book!bookVars
      BY <2>2, <3>1, BookStutter
    <3>4. QED
      BY <3>2, <3>3 DEF Book!BookNext
  <2>5. ASSUME NEW o \in Operator, Acknowledge(o)
        PROVE  Book!BookNext \/ UNCHANGED Book!bookVars
    <3>1. \A c \in Batch \ {req[o].batch} : SameReview(db, db', c)
      BY <2>2, <2>5, AckEffect
    <3>2. ASSUME NEW b \in FreshReview, b = req[o].batch PROVE Book!AcknowledgeIssues(b)
      BY <2>1, <2>5, <3>2, BookAcknowledges
    <3>3. req[o].batch \notin FreshReview => UNCHANGED Book!bookVars
      BY <2>2, <3>1, BookStutter
    <3>4. QED
      BY <3>2, <3>3 DEF Book!BookNext
  <2>6. ASSUME NEW o \in Operator, CommitMasters(o)
        PROVE  Book!BookNext \/ UNCHANGED Book!bookVars
    <3>1. \A c \in Batch \ {req[o].batch} : SameReview(db, db', c)
      BY <2>2, <2>6, CommitEffect
    <3>2. ASSUME NEW b \in FreshReview, b = req[o].batch PROVE Book!CommitBatch(b)
      BY <2>1, <2>6, <3>2, BookCommits
    <3>3. req[o].batch \notin FreshReview => UNCHANGED Book!bookVars
      BY <2>2, <3>1, BookStutter
    <3>4. QED
      BY <3>2, <3>3 DEF Book!BookNext
  <2>7. QED
    BY <2>1, <2>3, <2>4, <2>5, <2>6, ReviewSteps
<1>3. QED
  BY <1>1, <1>2, ReviewInvariance, PTL DEF Spec, ImplementsReviewBook, Book!BookSpec
=============================================================================

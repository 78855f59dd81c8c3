------------------------- MODULE BootstrapImportProofs ------------------------
(***************************************************************************)
(* Proofs about BootstrapImport for any batches, workbooks, masters and    *)
(* threads.                                                                *)
(***************************************************************************)
EXTENDS BootstrapImport, FiniteSetTheorems, TLAPS

\* The fields of a batch, of a staged row and of a master.
BatchFields == {"status", "version", "confirmed", "decisions"}
RowFields == {"issues", "status", "channel", "salesrep", "parent"}
MasterFields == {"name", "code", "refs", "parent", "active", "names", "related", "byHand"}

Numbers(b) == {r.no : r \in RowsOf[b]}

\* A status says what was confirmed, and that what was found is settled.
StatusSays(b) ==
    LET s == batch[b].status IN
    /\ s \in {"ABSENT", "CONFIRMED"} \cup Mutable \cup Final
    /\ batch[b].version \in 1 .. MaxVersion
    /\ s \in Mutable \cup {"ABSENT"} => batch[b].confirmed = None
    /\ s \in {"CONFIRMED", "COMMITTED", "FAILED"} => batch[b].confirmed = batch[b].version
    /\ s \in {"READY_TO_CONFIRM", "CONFIRMED", "COMMITTED", "FAILED"} =>
          Subjects(b) \subseteq Settled(batch[b].decisions)

\* A parent somebody mapped a row to is a master.
TargetsExist(b) ==
    \A d \in batch[b].decisions : d.choice = "MAP_PARENT" => d.target \in DOMAIN masters \cup {None}

\* A reference that staging froze leads to a master, or to a row of a staged
\* batch, of the name the row gave.
MasterNamed(ref, name) == ref.kind = "MASTER" /\ BearsName(ref.at, name)

StagedRow(ref, c, name) ==
    \E q \in RowsOf[c] : q.name = name /\ ref = [kind |-> "STAGED", at |-> <<c, q.no>>]

Frozen(ref, type, name) ==
    \/ ref = None
    \/ MasterNamed(ref, name)
    \/ \E c \in Batch : TypeOf[c] = type /\ StagedRow(ref, c, name)

NamesParent(b, r) == InBatch(b, r) /\ r.parent \notin {None, r.name}

FrozenParent(ref, b, r) ==
    \/ StagedRow(ref, b, r.parent)
    \/ ~NamesParent(b, r) /\ (ref = None \/ MasterNamed(ref, r.parent))

FrozenRow(row, b, r) ==
    /\ DOMAIN row = RowFields
    /\ TypeOf[b] = "CUSTOMER" =>
          /\ Frozen(row.channel, "CHANNEL", r.channel)
          /\ Frozen(row.salesrep, "SALESREP", r.salesrep)
          /\ FrozenParent(row.parent, b, r)

RowsSay(b) ==
    /\ DOMAIN staged[b] = IF batch[b].status = "ABSENT" THEN {} ELSE Numbers(b)
    /\ \A n \in DOMAIN staged[b] :
          /\ FrozenRow(staged[b][n], b, Row(b, n))
          /\ staged[b][n].status = "COMMITTED" <=> batch[b].status = "COMMITTED"

BatchInv(b) ==
    /\ DOMAIN batch[b] = BatchFields
    /\ StatusSays(b)
    /\ TargetsExist(b)
    /\ RowsSay(b)

MasterInv(id) ==
    /\ DOMAIN masters[id] = MasterFields
    /\ masters[id].parent \in DOMAIN masters \cup {None}
    /\ masters[id].name \in masters[id].names /\ masters[id].refs \in masters[id].related

\* What a commit saw is still there, or was changed by hand since.
StillThere(now) ==
    /\ \A id \in DOMAIN now.masters :
          /\ id \in DOMAIN masters
          /\ now.masters[id].names \subseteq masters[id].names
          /\ now.masters[id].refs \in masters[id].related
    /\ \A k \in DOMAIN now.mappings : k \in DOMAIN mappings /\ mappings[k] = now.mappings[k]
    /\ now.committed \subseteq CommittedNow

\* A commit has its batch for itself and finds it as it was confirmed.
JobInv(t) ==
    job[t] # NoJob =>
        /\ job[t].stage \in {"COMMITTING", "FAILING"}
        /\ job[t].batch \in Batch
        /\ job[t].stage = "COMMITTING" =>
              /\ batch[job[t].batch].status = "CONFIRMED"
              /\ StillThere(job[t].now)
              /\ \A u \in Thread : Committing(u) /\ job[u].batch = job[t].batch => u = t

IInv ==
    /\ DOMAIN batch = Batch /\ DOMAIN staged = Batch /\ DOMAIN job = Thread
    /\ \A b \in Batch : BatchInv(b)
    /\ \A id \in DOMAIN masters : MasterInv(id)
    /\ \A t \in Thread : JobInv(t)

\* One source system, as every import of this edition has.
OneSystem == \A b, c \in Batch : SystemOf[b] = SystemOf[c]

KeyOf(b, id) == <<id[1], SystemOf[b], id[2]>>

\* The masters of imports are mapped, under a name they bear or bore.
Labelled(ms, mp) ==
    \A id \in DOMAIN ms \ {m.id : m \in Manual} : \A b \in Batch :
        KeyOf(b, id) \in DOMAIN mp /\ mp[KeyOf(b, id)] \in ms[id].names

\* The parent of a master comes from a row, or was set by hand after it.
Credible(id) == masters[id].byHand \/ ParentSaid(id)

\* The parents a commit saw are the present ones, if they have not been changed.
ParentsSeen(ms) ==
    \A id \in DOMAIN ms : masters[id].parent = ms[id].parent \/ Credible(id)

SInv ==
    /\ Labelled(masters, mappings)
    /\ \A t \in Thread : Committing(t) => /\ Labelled(job[t].now.masters, job[t].now.mappings)
                                          /\ ParentsSeen(job[t].now.masters)
    /\ MastersSayWhatRowsSay

-----------------------------------------------------------------------------
(* Staging *)

LEMMA RowOfNumber ==
    ASSUME NEW b \in Batch
    PROVE  /\ \A r \in RowsOf[b] : Row(b, r.no) = r
           /\ \A n \in Numbers(b) : Row(b, n) \in RowsOf[b] /\ Row(b, n).no = n
BY IdentityAssumption DEF Row, Numbers

LEMMA OneOfOne ==
    ASSUME NEW S, Cardinality(S) = 1
    PROVE  (CHOOSE c \in S : TRUE) \in S
<1>1. S # {}
  BY FS_EmptySet
<1>2. QED
  BY <1>1

LEMMA CandidateNamed ==
    ASSUME IInv, NEW type, NEW name, NEW c \in Candidates(type, name)
    PROVE  \/ MasterNamed(c, name)
           \/ /\ type # "CUSTOMER"
              /\ \E b \in Batch : TypeOf[b] = type /\ StagedRow(c, b, name)
<1>1. CASE \E id \in MastersNamed(type, name) : c = [kind |-> "MASTER", at |-> id]
  BY <1>1 DEF MastersNamed, MasterNamed, BearsName, IInv, MasterInv
<1>2. CASE \E p \in StagedNamed(type, name) : c = [kind |-> "STAGED", at |-> p]
  <2>1. PICK p \in StagedNamed(type, name) : c = [kind |-> "STAGED", at |-> p]
    BY <1>2
  <2>2. type # "CUSTOMER"
    BY <2>1 DEF StagedNamed
  <2>3. PICK b \in Batch : /\ TypeOf[b] = type
                           /\ \E r \in RowsOf[b] : r.name = name /\ p = <<b, r.no>>
    BY <2>1, <2>2 DEF StagedNamed
  <2>4. StagedRow(c, b, name)
    BY <2>1, <2>3 DEF StagedRow
  <2>5. QED
    BY <2>2, <2>3, <2>4
<1>3. QED
  BY <1>1, <1>2 DEF Candidates

\* A reference is none, or leads to what it names.
LEMMA ReferenceFreezes ==
    ASSUME IInv, NEW type, NEW name
    PROVE  /\ Frozen(Reference(type, name), type, name)
           /\ type = "CUSTOMER" =>
                 Reference(type, name) = None \/ MasterNamed(Reference(type, name), name)
<1> DEFINE usable == {c \in Candidates(type, name) : Usable(c)}
<1>1. CASE Cardinality(usable) = 1
  <2>1. Reference(type, name) \in usable
    BY <1>1, OneOfOne DEF Reference
  <2>2. Reference(type, name) \in Candidates(type, name)
    BY <2>1
  <2>3. QED
    BY <2>2, CandidateNamed DEF Frozen
<1>2. CASE Cardinality(usable) # 1
  BY <1>2 DEF Reference, Frozen
<1>3. QED
  BY <1>1, <1>2

\* A parent is the row of the workbook when one alone has its name.
LEMMA ParentFreezes ==
    ASSUME IInv, NEW b \in Batch, NEW r \in RowsOf[b]
    PROVE  FrozenParent(ParentOf(b, r), b, r)
<1>1. CASE r.parent \in {None, r.name}
  BY <1>1 DEF FrozenParent, ParentOf, NamesParent
<1>2. CASE r.parent \notin {None, r.name} /\ InBatch(b, r)
  <2> DEFINE q == CHOOSE q \in ParentRows(b, r) : TRUE
  <2>1. q \in ParentRows(b, r)
    BY <1>2, OneOfOne DEF InBatch
  <2>2. q \in RowsOf[b] /\ q.name = r.parent
    BY <2>1 DEF ParentRows
  <2>3. ParentOf(b, r) = [kind |-> "STAGED", at |-> <<b, q.no>>]
    BY <1>2 DEF ParentOf
  <2> HIDE DEF q
  <2>4. QED
    BY <2>2, <2>3 DEF FrozenParent, StagedRow
<1>3. CASE r.parent \notin {None, r.name} /\ ~InBatch(b, r)
  <2>1. ParentOf(b, r) = Reference("CUSTOMER", r.parent)
    BY <1>3 DEF ParentOf
  <2>2. QED
    BY <1>3, <2>1, ReferenceFreezes DEF FrozenParent, NamesParent
<1>4. QED
  BY <1>1, <1>2, <1>3

LEMMA EvaluatedFreezes ==
    ASSUME IInv, NEW b \in Batch, NEW r \in RowsOf[b]
    PROVE  /\ FrozenRow(Evaluated(b, r), b, r)
           /\ Evaluated(b, r).status # "COMMITTED"
<1> DEFINE e == Evaluated(b, r)
<1>1. DOMAIN e = RowFields /\ e.status # "COMMITTED"
  BY DEF Evaluated, RowFields
<1>2. ASSUME TypeOf[b] = "CUSTOMER"
      PROVE  /\ e.channel = Reference("CHANNEL", r.channel)
             /\ e.salesrep = Reference("SALESREP", r.salesrep)
             /\ e.parent = ParentOf(b, r)
  BY <1>2 DEF Evaluated
<1> HIDE DEF e
<1>3. FrozenRow(e, b, r)
  BY <1>1, <1>2, ReferenceFreezes, ParentFreezes DEF FrozenRow
<1>4. QED
  BY <1>1, <1>3 DEF e

-----------------------------------------------------------------------------
(* What a step leaves as it was *)

\* Masters have had the names and the relations they had, mappings keep labels.
MastersKept ==
    \A id \in DOMAIN masters :
        /\ id \in DOMAIN masters'
        /\ masters[id].names \subseteq masters'[id].names
        /\ masters[id].related \subseteq masters'[id].related

\* A parent that is changed by hand is known to be.
HandMarks ==
    \A id \in DOMAIN masters :
        /\ masters[id].byHand => masters'[id].byHand
        /\ masters'[id].parent # masters[id].parent => masters'[id].byHand

MappingsKept == \A k \in DOMAIN mappings : k \in DOMAIN mappings' /\ mappings'[k] = mappings[k]

LEMMA FrozenStays ==
    ASSUME MastersKept, NEW row, NEW b \in Batch, NEW r, FrozenRow(row, b, r)
    PROVE  FrozenRow(row, b, r)'
<1>1. ASSUME NEW ref, NEW name, MasterNamed(ref, name)
      PROVE  MasterNamed(ref, name)'
  BY <1>1 DEF MasterNamed, BearsName, MastersKept
<1>2. ASSUME NEW ref, NEW c, NEW name, StagedRow(ref, c, name)
      PROVE  StagedRow(ref, c, name)'
  BY <1>2 DEF StagedRow
<1>3. ASSUME NEW ref, NEW type, NEW name, Frozen(ref, type, name)
      PROVE  Frozen(ref, type, name)'
  BY <1>1, <1>2, <1>3 DEF Frozen
<1>4. NamesParent(b, r)' <=> NamesParent(b, r)
  BY DEF NamesParent, InBatch, ParentRows
<1>5. ASSUME NEW ref, FrozenParent(ref, b, r)
      PROVE  FrozenParent(ref, b, r)'
  BY <1>1, <1>2, <1>4, <1>5 DEF FrozenParent
<1>6. QED
  BY <1>3, <1>5 DEF FrozenRow

LEMMA SubjectsStay ==
    ASSUME NEW b \in Batch, DOMAIN staged'[b] = DOMAIN staged[b],
           \A n \in DOMAIN staged[b] : staged'[b][n].issues = staged[b][n].issues
    PROVE  Subjects(b)' = Subjects(b)
<1>1. \A n \in DOMAIN staged[b] : IssuesOf(b, n)' = IssuesOf(b, n)
  BY DEF IssuesOf
<1>2. \A n, i : Subject(b, n, i)' = Subject(b, n, i)
  BY DEF Subject, Row, Allowed
<1>3. QED
  BY <1>1, <1>2 DEF Subjects

LEMMA BatchStays ==
    ASSUME MastersKept, NEW b \in Batch, BatchInv(b),
           batch'[b] = batch[b], staged'[b] = staged[b]
    PROVE  BatchInv(b)'
<1>1. StatusSays(b)'
  <2>1. Subjects(b)' = Subjects(b)
    BY SubjectsStay
  <2>2. Settled(batch'[b].decisions) = Settled(batch[b].decisions)
    OBVIOUS
  <2>3. StatusSays(b)
    BY DEF BatchInv
  <2>4. QED
    BY <2>1, <2>3 DEF StatusSays, Settled, Decided
<1>2. TargetsExist(b)'
  BY DEF BatchInv, TargetsExist, MastersKept
<1>3. RowsSay(b)'
  <2>1. \A n \in DOMAIN staged[b] : FrozenRow(staged[b][n], b, Row(b, n))
    BY DEF BatchInv, RowsSay
  <2>2. ASSUME NEW n \in DOMAIN staged[b]
        PROVE  FrozenRow(staged[b][n], b, Row(b, n))'
    <3>1. FrozenRow(staged[b][n], b, Row(b, n))
      BY <2>1
    <3>2. \A row, r : FrozenRow(row, b, r) => FrozenRow(row, b, r)'
      BY FrozenStays
    <3>3. QED
      BY <3>1, <3>2 DEF Row
  <2>3. QED
    BY <2>2 DEF BatchInv, RowsSay, Numbers
<1>4. QED
  BY <1>1, <1>2, <1>3 DEF BatchInv

\* Commits under way still find what they saw, unless their batch changes.
LEMMA JobsStay ==
    ASSUME IInv, MastersKept, MappingsKept, CommittedNow \subseteq CommittedNow',
           DOMAIN job' = Thread,
           \A t \in Thread : \/ job'[t] = job[t]
                             \/ job'[t] = NoJob
                             \/ Committing(t) /\ job'[t] = [stage |-> "FAILING", batch |-> job[t].batch],
           \A t \in Thread : Committing(t)' =>
               batch'[job[t].batch].status = batch[job[t].batch].status
    PROVE  \A t \in Thread : JobInv(t)'
<1>1. ASSUME NEW now, StillThere(now)
      PROVE  StillThere(now)'
  BY <1>1 DEF StillThere, MastersKept, MappingsKept
<1>2. ASSUME NEW t \in Thread, job'[t] = job[t]
      PROVE  JobInv(t)'
  <2>1. JobInv(t)
    BY DEF IInv
  <2>2. ASSUME NEW u \in Thread, Committing(u)'
        PROVE  Committing(u) /\ job'[u] = job[u]
    BY <2>2 DEF Committing
  <2>3. ASSUME job[t] # NoJob, job[t].stage = "COMMITTING"
        PROVE  /\ batch'[job[t].batch].status = "CONFIRMED"
               /\ StillThere(job[t].now)'
    <3>1. Committing(t)'
      BY <1>2, <2>3 DEF Committing
    <3>2. batch[job[t].batch].status = "CONFIRMED" /\ StillThere(job[t].now)
      BY <2>1, <2>3 DEF JobInv
    <3>3. StillThere(job[t].now)'
      <4> DEFINE n == job[t].now
      <4>1. job'[t].now = n
        BY <1>2
      <4>2. StillThere(n)
        BY <3>2
      <4>3. \A now : StillThere(now) => /\ \A id \in DOMAIN now.masters :
                                             /\ id \in DOMAIN masters'
                                             /\ now.masters[id].names \subseteq masters'[id].names
                                             /\ now.masters[id].refs \in masters'[id].related
                                        /\ \A k \in DOMAIN now.mappings :
                                             k \in DOMAIN mappings' /\ mappings'[k] = now.mappings[k]
                                        /\ now.committed \subseteq CommittedNow'
        BY <1>1 DEF StillThere
      <4>4. QED
        BY <4>1, <4>2, <4>3 DEF StillThere
    <3>4. QED
      BY <3>1, <3>2, <3>3
  <2>4. QED
    BY <1>2, <2>1, <2>2, <2>3 DEF JobInv
<1>3. ASSUME NEW t \in Thread, job'[t] = NoJob
      PROVE  JobInv(t)'
  BY <1>3 DEF JobInv
<1>4. ASSUME NEW t \in Thread, Committing(t), job'[t] = [stage |-> "FAILING", batch |-> job[t].batch]
      PROVE  JobInv(t)'
  BY <1>4 DEF JobInv, IInv, Committing
<1>5. QED
  BY <1>2, <1>3, <1>4

\* Nothing but a batch that no commit holds changes.
LEMMA OtherBatchesStay ==
    ASSUME IInv, NEW b \in Batch, BatchInv(b)',
           DOMAIN batch' = Batch, DOMAIN staged' = Batch, DOMAIN job' = Thread,
           batch[b].status # "COMMITTED", ~Held(b),
           \A c \in Batch \ {b} : batch'[c] = batch[c] /\ staged'[c] = staged[c],
           \A t \in Thread : job'[t] = job[t] \/ job'[t] = NoJob,
           UNCHANGED <<masters, mappings>>
    PROVE  IInv'
<1>1. MastersKept /\ MappingsKept
  BY DEF MastersKept, MappingsKept
<1>2. \A c \in Batch : BatchInv(c)'
  BY <1>1, BatchStays DEF IInv
<1>3. CommittedNow \subseteq CommittedNow'
  BY DEF CommittedNow
<1>4. \A t \in Thread : Committing(t)' => /\ Committing(t) /\ job'[t] = job[t]
                                          /\ job[t].batch \in Batch \ {b}
  BY DEF Committing, Held, IInv, JobInv
<1>5. \A t \in Thread : JobInv(t)'
  BY <1>1, <1>3, <1>4, JobsStay
<1>6. \A id \in DOMAIN masters' : MasterInv(id)'
  BY DEF IInv, MasterInv
<1>7. QED
  BY <1>2, <1>5, <1>6 DEF IInv

\* Nothing but requests and masters change.
LEMMA BatchesStay ==
    ASSUME IInv, MastersKept, UNCHANGED <<batch, staged, mappings>>, DOMAIN job' = Thread,
           \A id \in DOMAIN masters' : MasterInv(id)',
           \A t \in Thread : \/ job'[t] = job[t]
                             \/ job'[t] = NoJob
                             \/ Committing(t) /\ job'[t] = [stage |-> "FAILING", batch |-> job[t].batch]
    PROVE  IInv'
<1>1. MappingsKept
  BY DEF MappingsKept
<1>2. \A c \in Batch : BatchInv(c)'
  BY BatchStays DEF IInv
<1>3. CommittedNow \subseteq CommittedNow'
  BY DEF CommittedNow
<1>4. \A t \in Thread : JobInv(t)'
  BY <1>1, <1>3, JobsStay
<1>5. QED
  BY <1>2, <1>4 DEF IInv

-----------------------------------------------------------------------------
(* The steps of the review *)

LEMMA StagingKeeps ==
    ASSUME IInv, NEW b \in Batch, StageFile(b)
    PROVE  IInv'
<1>1. /\ batch[b].status = "ABSENT"
      /\ batch' = [batch EXCEPT ![b].status = "READY_FOR_REVIEW"]
      /\ staged' = [staged EXCEPT ![b] = [n \in Numbers(b) |-> Evaluated(b, Row(b, n))]]
      /\ UNCHANGED <<masters, mappings, job>>
  BY DEF StageFile, Numbers
<1>2. BatchInv(b) /\ b \in DOMAIN batch /\ b \in DOMAIN staged
  BY DEF IInv
<1>3. /\ DOMAIN batch'[b] = BatchFields
      /\ batch'[b].status = "READY_FOR_REVIEW"
      /\ batch'[b].version = batch[b].version
      /\ batch'[b].confirmed = batch[b].confirmed
      /\ batch'[b].decisions = batch[b].decisions
  BY <1>1, <1>2 DEF BatchInv, BatchFields
<1>4. MastersKept
  BY <1>1 DEF MastersKept
<1>5. RowsSay(b)'
  <2>1. DOMAIN staged'[b] = Numbers(b)
    BY <1>1, <1>2
  <2>2. ASSUME NEW n \in Numbers(b)
        PROVE  /\ FrozenRow(staged'[b][n], b, Row(b, n))
               /\ staged'[b][n].status # "COMMITTED"
    <3>1. staged'[b][n] = Evaluated(b, Row(b, n))
      BY <1>1, <1>2
    <3>2. QED
      BY <3>1, EvaluatedFreezes, RowOfNumber
  <2>3. \A n \in Numbers(b) : FrozenRow(staged[b][n], b, Row(b, n))'
    <3> SUFFICES ASSUME NEW n \in Numbers(b)
                 PROVE  FrozenRow(staged[b][n], b, Row(b, n))'
      OBVIOUS
    <3>1. \A row, r : FrozenRow(row, b, r) => FrozenRow(row, b, r)'
      BY <1>4, FrozenStays
    <3>2. QED
      BY <2>2, <3>1 DEF Row
  <2>4. QED
    BY <1>3, <2>1, <2>2, <2>3 DEF RowsSay, Numbers
<1>6. StatusSays(b)'
  BY <1>1, <1>2, <1>3 DEF BatchInv, StatusSays, Mutable, Final
<1>7. TargetsExist(b)'
  BY <1>1, <1>2, <1>3 DEF BatchInv, TargetsExist
<1>8. ~Held(b)
  BY <1>1 DEF Held, IInv, JobInv, Committing
<1>9. BatchInv(b)'
  BY <1>3, <1>5, <1>6, <1>7 DEF BatchInv
<1>10. QED
  BY <1>1, <1>2, <1>8, <1>9, OtherBatchesStay DEF IInv

\* Decisions and states of the review change no staged row.
LEMMA ReviewKeeps ==
    ASSUME IInv, NEW b \in Batch, ~Held(b),
           batch[b].status \notin {"ABSENT", "COMMITTED"},
           batch'[b].status \notin {"ABSENT", "COMMITTED"},
           DOMAIN batch' = Batch, DOMAIN batch'[b] = BatchFields,
           \A c \in Batch \ {b} : batch'[c] = batch[c],
           DOMAIN job' = Thread, \A t \in Thread : job'[t] = job[t] \/ job'[t] = NoJob,
           StatusSays(b)', TargetsExist(b)',
           UNCHANGED <<staged, masters, mappings>>
    PROVE  IInv'
<1>1. MastersKept
  BY DEF MastersKept
<1>2. BatchInv(b)
  BY DEF IInv
<1>3. RowsSay(b)'
  <2>1. \A n \in DOMAIN staged[b] : FrozenRow(staged[b][n], b, Row(b, n))'
    <3>1. \A n \in DOMAIN staged[b] : FrozenRow(staged[b][n], b, Row(b, n))
      BY <1>2 DEF BatchInv, RowsSay
    <3>2. \A row, r : FrozenRow(row, b, r) => FrozenRow(row, b, r)'
      BY <1>1, FrozenStays
    <3>3. QED
      BY <3>1, <3>2 DEF Row
  <2>2. QED
    BY <1>2, <2>1 DEF BatchInv, RowsSay, Numbers
<1>4. BatchInv(b)'
  BY <1>3 DEF BatchInv
<1>5. QED
  BY <1>4, OtherBatchesStay DEF IInv

LEMMA SubjectsUnchanged ==
    ASSUME UNCHANGED staged, NEW b
    PROVE  Subjects(b)' = Subjects(b)
BY DEF Subjects, IssuesOf, Subject, Row, Allowed

LEMMA DecisionsKeep ==
    ASSUME IInv, NEW b \in Batch, NEW new \in SUBSET Decidable(b), AppendDecisions(b, new)
    PROVE  IInv'
<1> DEFINE decisions == {d \in batch[b].decisions : d.subject \notin Decided(new)} \cup new
           after == [status |-> IF Ready(b, decisions) THEN "READY_TO_CONFIRM" ELSE "RESOLVING",
                     version |-> batch[b].version + 1, confirmed |-> None, decisions |-> decisions]
<1>1. /\ ~Held(b) /\ batch[b].status \in Mutable /\ batch[b].version < MaxVersion
      /\ batch' = [batch EXCEPT ![b] = after]
      /\ UNCHANGED <<staged, masters, mappings, job>>
  BY DEF AppendDecisions
<1>2. DOMAIN batch = Batch /\ BatchInv(b)
  BY DEF IInv
<1>3. batch'[b] = after /\ DOMAIN batch' = Batch /\ \A c \in Batch \ {b} : batch'[c] = batch[c]
  BY <1>1, <1>2
<1>4. StatusSays(b)'
  <2>1. batch[b].version + 1 \in 1 .. MaxVersion
    BY <1>1, <1>2, BootstrapAssumption DEF BatchInv, StatusSays
  <2>2. Subjects(b)' = Subjects(b)
    BY <1>1, SubjectsUnchanged
  <2>3. after.status = "READY_TO_CONFIRM" => Subjects(b) \subseteq Settled(decisions)
    BY DEF Ready
  <2>4. after.status \in {"READY_TO_CONFIRM", "RESOLVING"}
    OBVIOUS
  <2>5. Settled(batch[b].decisions)' = Settled(decisions)
    BY <1>3 DEF Settled, Decided
  <2>6. after.version = batch[b].version + 1 /\ after.confirmed = None
    OBVIOUS
  <2> HIDE DEF after, decisions
  <2>7. QED
    BY <1>3, <2>1, <2>2, <2>3, <2>4, <2>5, <2>6 DEF StatusSays, Mutable, Final
<1>5. TargetsExist(b)'
  <2>1. ASSUME NEW d \in new, d.choice = "MAP_PARENT"
        PROVE  d.target \in DOMAIN masters \cup {None}
    <3>1. PICK s, c, t : t \in Target(c) /\ d = [subject |-> s, choice |-> c, target |-> t]
      BY DEF Decidable
    <3>2. QED
      BY <2>1, <3>1 DEF Target
  <2>2. \A d \in batch[b].decisions : d.choice = "MAP_PARENT" => d.target \in DOMAIN masters \cup {None}
    BY <1>2 DEF BatchInv, TargetsExist
  <2>3. batch'[b].decisions = decisions
    BY <1>3
  <2>4. QED
    BY <1>1, <2>1, <2>2, <2>3 DEF TargetsExist
<1>6. DOMAIN batch'[b] = BatchFields /\ batch'[b].status \notin {"ABSENT", "COMMITTED"}
  BY <1>3 DEF BatchFields
<1>7. batch[b].status \notin {"ABSENT", "COMMITTED"}
  BY <1>1 DEF Mutable
<1> HIDE DEF after
<1>8. QED
  BY <1>1, <1>3, <1>4, <1>5, <1>6, <1>7, ReviewKeeps DEF IInv

LEMMA ConfirmationKeeps ==
    ASSUME IInv, NEW b \in Batch, Confirm(b)
    PROVE  IInv'
<1>1. /\ ~Held(b) /\ batch[b].status \in Mutable
      /\ batch' = [batch EXCEPT ![b].status = "CONFIRMED", ![b].confirmed = batch[b].version]
      /\ UNCHANGED <<staged, masters, mappings, job>>
      /\ Subjects(b) \subseteq Settled(batch[b].decisions)
  BY DEF Confirm, Ready
<1>2. DOMAIN batch = Batch /\ BatchInv(b)
  BY DEF IInv
<1>3. /\ DOMAIN batch' = Batch /\ \A c \in Batch \ {b} : batch'[c] = batch[c]
      /\ DOMAIN batch'[b] = BatchFields
      /\ batch'[b].status = "CONFIRMED" /\ batch'[b].confirmed = batch[b].version
      /\ batch'[b].version = batch[b].version /\ batch'[b].decisions = batch[b].decisions
  BY <1>1, <1>2 DEF BatchInv, BatchFields
<1>4. Subjects(b)' = Subjects(b)
  BY <1>1, SubjectsUnchanged
<1>5. StatusSays(b)'
  BY <1>1, <1>2, <1>3, <1>4 DEF BatchInv, StatusSays, Settled, Decided, Mutable, Final
<1>6. TargetsExist(b)'
  BY <1>1, <1>2, <1>3 DEF BatchInv, TargetsExist
<1>7. batch[b].status \notin {"ABSENT", "COMMITTED"}
  BY <1>1 DEF Mutable
<1>8. QED
  BY <1>1, <1>3, <1>5, <1>6, <1>7, ReviewKeeps DEF IInv

\* A cancellation, and the record of a failure.
LEMMA EndingKeeps ==
    ASSUME IInv, NEW b \in Batch, NEW s \in {"CANCELLED", "FAILED"}, ~Held(b),
           batch[b].status \in Mutable \cup {"CONFIRMED"},
           s = "FAILED" => batch[b].status = "CONFIRMED",
           batch' = [batch EXCEPT ![b].status = s],
           DOMAIN job' = Thread, \A t \in Thread : job'[t] = job[t] \/ job'[t] = NoJob,
           UNCHANGED <<staged, masters, mappings>>
    PROVE  IInv'
<1>2. DOMAIN batch = Batch /\ BatchInv(b)
  BY DEF IInv
<1>3. /\ DOMAIN batch' = Batch /\ \A c \in Batch \ {b} : batch'[c] = batch[c]
      /\ DOMAIN batch'[b] = BatchFields
      /\ batch'[b].status = s /\ batch'[b].confirmed = batch[b].confirmed
      /\ batch'[b].version = batch[b].version /\ batch'[b].decisions = batch[b].decisions
  BY <1>2 DEF BatchInv, BatchFields
<1>4. Subjects(b)' = Subjects(b)
  BY SubjectsUnchanged
<1>5. StatusSays(b)'
  BY <1>2, <1>3, <1>4 DEF BatchInv, StatusSays, Settled, Decided, Mutable, Final
<1>6. TargetsExist(b)'
  BY <1>2, <1>3 DEF BatchInv, TargetsExist
<1>7. batch[b].status \notin {"ABSENT", "COMMITTED"} /\ s \notin {"ABSENT", "COMMITTED"}
  BY DEF Mutable
<1>8. QED
  BY <1>3, <1>5, <1>6, <1>7, ReviewKeeps

LEMMA RecordingKeeps ==
    ASSUME IInv, NEW t \in Thread, RecordFailure(t)
    PROVE  IInv'
<1> DEFINE b == job[t].batch
<1>1. /\ job[t] # NoJob /\ job[t].stage = "FAILING" /\ ~Held(b)
      /\ job' = [job EXCEPT ![t] = NoJob]
      /\ UNCHANGED <<staged, masters, mappings>>
  BY DEF RecordFailure
<1>2. b \in Batch
  BY <1>1 DEF IInv, JobInv
<1>3. DOMAIN job' = Thread /\ \A u \in Thread : job'[u] = job[u] \/ job'[u] = NoJob
  BY <1>1 DEF IInv
<1>4. CASE StillConfirmed(b)
  <2>1. batch' = [batch EXCEPT ![b].status = "FAILED"] /\ batch[b].status = "CONFIRMED"
    BY <1>4 DEF RecordFailure, StillConfirmed
  <2> HIDE DEF b
  <2>2. QED
    BY <1>1, <1>2, <1>3, <2>1, EndingKeeps
<1>5. CASE ~StillConfirmed(b)
  <2>1. batch' = batch
    BY <1>5 DEF RecordFailure
  <2>2. \A id \in DOMAIN masters' : MasterInv(id)'
    BY <1>1 DEF IInv, MasterInv
  <2>3. MastersKept
    BY <1>1 DEF MastersKept
  <2>4. QED
    BY <1>1, <1>3, <2>1, <2>2, <2>3, BatchesStay
<1>6. QED
  BY <1>4, <1>5

\* A commit is refused, fails or is lost.
LEMMA GivingUpKeeps ==
    ASSUME IInv, NEW t \in Thread, RefuseCommit(t) \/ CommitFails(t) \/ LoseJob(t)
    PROVE  IInv'
<1>1. UNCHANGED <<batch, staged, masters, mappings>>
  BY DEF RefuseCommit, CommitFails, LoseJob
<1>2. /\ DOMAIN job' = Thread
      /\ \A u \in Thread : \/ job'[u] = job[u]
                           \/ job'[u] = NoJob
                           \/ Committing(u) /\ job'[u] = [stage |-> "FAILING", batch |-> job[u].batch]
  BY DEF RefuseCommit, CommitFails, LoseJob, IInv
<1>3. \A id \in DOMAIN masters' : MasterInv(id)'
  BY <1>1 DEF IInv, MasterInv
<1>4. MastersKept
  BY <1>1 DEF MastersKept
<1>5. QED
  BY <1>1, <1>2, <1>3, <1>4, BatchesStay

LEMMA BeginningKeeps ==
    ASSUME IInv, NEW t \in Thread, NEW b \in Batch, BeginCommit(t, b)
    PROVE  IInv'
<1> DEFINE now == [masters |-> masters, mappings |-> mappings, committed |-> CommittedNow]
           begun == [stage |-> "COMMITTING", batch |-> b, now |-> now]
<1>1. /\ job[t] = NoJob /\ ~Held(b) /\ batch[b].status = "CONFIRMED"
      /\ job' = [job EXCEPT ![t] = begun]
      /\ UNCHANGED <<batch, staged, masters, mappings>>
  BY DEF BeginCommit
<1>2. DOMAIN job = Thread /\ \A u \in Thread : JobInv(u)
  BY DEF IInv
<1>3. job'[t] = begun /\ DOMAIN job' = Thread /\ \A u \in Thread \ {t} : job'[u] = job[u]
  BY <1>1, <1>2
<1>4. MastersKept /\ \A id \in DOMAIN masters' : MasterInv(id)'
  BY <1>1 DEF IInv, MasterInv, MastersKept
<1>5. \A c \in Batch : BatchInv(c)'
  BY <1>1, <1>4, BatchStays DEF IInv
<1>6. \A now_ : StillThere(now_)' <=> StillThere(now_)
  BY <1>1 DEF StillThere, CommittedNow
<1>7. begun.stage = "COMMITTING" /\ begun.batch = b /\ begun.now = now
  OBVIOUS
<1>8. StillThere(now)
  BY DEF StillThere, IInv, MasterInv
<1> HIDE DEF now, begun
<1>9. \A u \in Thread : Committing(u) => job[u].batch # b
  BY <1>1, <1>2 DEF Held, Committing
<1>10. JobInv(t)'
  <2>1. ASSUME NEW u \in Thread, Committing(u)', job'[u].batch = b
        PROVE  u = t
    BY <1>3, <1>9, <2>1 DEF Committing
  <2>2. StillThere(job[t].now)'
    <3>1. /\ \A id \in DOMAIN now.masters :
                /\ id \in DOMAIN masters'
                /\ now.masters[id].names \subseteq masters'[id].names
                /\ now.masters[id].refs \in masters'[id].related
          /\ \A k \in DOMAIN now.mappings : k \in DOMAIN mappings' /\ mappings'[k] = now.mappings[k]
          /\ now.committed \subseteq CommittedNow'
      BY <1>1, <1>8 DEF StillThere, CommittedNow
    <3>2. QED
      BY <1>3, <1>7, <3>1 DEF StillThere
  <2>3. QED
    BY <1>1, <1>3, <1>7, <2>1, <2>2 DEF JobInv
<1>11. ASSUME NEW u \in Thread, u # t
       PROVE  JobInv(u)'
  <2>1. job'[u] = job[u] /\ JobInv(u)
    BY <1>2, <1>3, <1>11
  <2>2. ASSUME job[u] # NoJob, job[u].stage = "COMMITTING"
        PROVE  \A v \in Thread : Committing(v)' /\ job'[v].batch = job[u].batch => v = u
    BY <1>2, <1>3, <1>7, <1>9, <2>1, <2>2 DEF JobInv, Committing
  <2>3. ASSUME job[u] # NoJob, job[u].stage = "COMMITTING"
        PROVE  StillThere(job[u].now)'
    <3>1. StillThere(job[u].now)
      BY <2>1, <2>3 DEF JobInv
    <3>2. QED
      BY <1>1, <2>1, <3>1 DEF StillThere, CommittedNow
  <2>4. QED
    BY <1>1, <2>1, <2>2, <2>3 DEF JobInv
<1>12. QED
  BY <1>1, <1>3, <1>4, <1>5, <1>10, <1>11 DEF IInv

\* The edits by hand, and what each leaves of the masters there were.
HandStep ==
    \/ \E m \in Manual : CreateMaster(m)
    \/ \E id \in Switched : SetActive(id)
    \/ \E p \in Patches : UpdateMaster(p.id, p.given)
    \/ \E id, product \in DOMAIN masters : ReassignSku(id, product)

MastersEdited ==
    /\ MastersKept /\ HandMarks
    /\ \A id \in DOMAIN masters' : MasterInv(id)'
    /\ DOMAIN masters' \ {m.id : m \in Manual} \subseteq DOMAIN masters

\* An edit of one master leaves the others alone.
LEMMA OneEdited ==
    ASSUME IInv, NEW id \in DOMAIN masters, NEW after,
           masters' = [masters EXCEPT ![id] = after],
           DOMAIN after = MasterFields,
           after.parent \in DOMAIN masters \cup {None},
           after.name \in after.names, after.refs \in after.related,
           masters[id].names \subseteq after.names, masters[id].related \subseteq after.related,
           masters[id].byHand => after.byHand,
           after.parent # masters[id].parent => after.byHand
    PROVE  MastersEdited
<1>1. /\ DOMAIN masters' = DOMAIN masters /\ masters'[id] = after
      /\ \A x \in DOMAIN masters \ {id} : masters'[x] = masters[x]
  OBVIOUS
<1>2. \A x \in DOMAIN masters : MasterInv(x)
  BY DEF IInv
<1>3. MastersKept
  BY <1>1 DEF MastersKept
<1>4. HandMarks
  BY <1>1 DEF HandMarks
<1>5. \A x \in DOMAIN masters' : MasterInv(x)'
  BY <1>1, <1>2 DEF MasterInv
<1>6. QED
  BY <1>1, <1>3, <1>4, <1>5 DEF MastersEdited

LEMMA UpdateEdits ==
    ASSUME IInv, NEW id, NEW given, UpdateMaster(id, given)
    PROVE  MastersEdited
<1> DEFINE m == masters[id]
           value(f, old) == IF f \in DOMAIN given THEN given[f] ELSE old
           name == value("name", m.name)
           parent == value("parent", m.parent)
           refs == IF id[1] # "CUSTOMER" THEN m.refs
                   ELSE <<value("channel", m.refs[1]), value("salesrep", m.refs[2])>>
           after == [name |-> name, code |-> value("code", m.code), refs |-> refs,
                     parent |-> parent, active |-> m.active,
                     names |-> m.names \cup {name}, related |-> m.related \cup {refs},
                     byHand |-> m.byHand \/ parent # m.parent]
<1>1. id \in DOMAIN masters /\ masters' = [masters EXCEPT ![id] = after]
  BY DEF UpdateMaster
<1>2. parent \in DOMAIN masters \cup {None}
  <2>1. CASE "parent" \in DOMAIN given
    <3>1. "parent" \in DOMAIN Related
      BY DEF Related
    <3>2. given["parent"] = None \/ Active(given["parent"], Related["parent"])
      BY <2>1, <3>1 DEF UpdateMaster
    <3>3. QED
      BY <2>1, <3>2 DEF Active
  <2>2. CASE "parent" \notin DOMAIN given
    BY <1>1, <2>2 DEF IInv, MasterInv
  <2>3. QED
    BY <2>1, <2>2
<1>3. /\ DOMAIN after = MasterFields /\ after.parent = parent
      /\ after.name \in after.names /\ after.refs \in after.related
      /\ m.names \subseteq after.names /\ m.related \subseteq after.related
      /\ m.byHand => after.byHand
      /\ parent # m.parent => after.byHand
  BY DEF MasterFields
<1> HIDE DEF after, parent
<1>4. QED
  BY <1>1, <1>2, <1>3, OneEdited

LEMMA ReassignEdits ==
    ASSUME IInv, NEW id, NEW product, ReassignSku(id, product)
    PROVE  MastersEdited
<1> DEFINE m == masters[id]
           refs == <<product>>
           after == [m EXCEPT !.refs = refs, !.related = @ \cup {refs}]
<1>1. id \in DOMAIN masters
      /\ masters' = [masters EXCEPT ![id].refs = refs, ![id].related = @ \cup {refs}]
  BY DEF ReassignSku
<1>2. MasterInv(id)
  BY <1>1 DEF IInv
<1>3. masters' = [masters EXCEPT ![id] = after]
  BY <1>1
<1>4. /\ DOMAIN after = MasterFields /\ after.parent = m.parent /\ after.byHand = m.byHand
      /\ after.name = m.name /\ after.names = m.names
      /\ after.refs = refs /\ after.related = m.related \cup {refs}
  BY <1>2 DEF MasterInv, MasterFields
<1> HIDE DEF after, refs
<1>5. /\ m.parent \in DOMAIN masters \cup {None} /\ m.name \in m.names
      /\ m.byHand => after.byHand
  BY <1>2, <1>4 DEF MasterInv
<1> HIDE DEF m
<1>6. QED
  BY <1>1, <1>3, <1>4, <1>5, OneEdited DEF m

LEMMA ActiveEdits ==
    ASSUME IInv, NEW id, SetActive(id)
    PROVE  MastersEdited
<1> DEFINE m == masters[id]
           after == [m EXCEPT !.active = ~@]
<1>1. id \in DOMAIN masters /\ masters' = [masters EXCEPT ![id].active = ~@]
  BY DEF SetActive
<1>2. MasterInv(id)
  BY <1>1 DEF IInv
<1>3. masters' = [masters EXCEPT ![id] = after]
  BY <1>1
<1>4. /\ DOMAIN after = MasterFields /\ after.parent = m.parent /\ after.byHand = m.byHand
      /\ after.name = m.name /\ after.names = m.names
      /\ after.refs = m.refs /\ after.related = m.related
  BY <1>2 DEF MasterInv, MasterFields
<1> HIDE DEF after
<1>5. /\ m.parent \in DOMAIN masters \cup {None} /\ m.name \in m.names /\ m.refs \in m.related
      /\ m.byHand => after.byHand
  BY <1>2, <1>4 DEF MasterInv
<1> HIDE DEF m
<1>6. QED
  BY <1>1, <1>3, <1>4, <1>5, OneEdited DEF m

LEMMA CreationEdits ==
    ASSUME IInv, NEW m \in Manual, CreateMaster(m)
    PROVE  MastersEdited
<1> DEFINE made == Made(m.name, m.code, m.refs, m.parent)
<1>1. /\ m.id \notin DOMAIN masters
      /\ masters' = [id \in DOMAIN masters \cup {m.id} |->
                        IF id = m.id THEN made ELSE masters[id]]
      /\ m.parent \in DOMAIN masters \cup {None}
  BY DEF CreateMaster, Active
<1>2. /\ DOMAIN made = MasterFields /\ made.parent = m.parent
      /\ made.name \in made.names /\ made.refs \in made.related
  BY DEF Made, MasterFields
<1> HIDE DEF made
<1>3. /\ DOMAIN masters' = DOMAIN masters \cup {m.id} /\ masters'[m.id] = made
      /\ \A x \in DOMAIN masters : masters'[x] = masters[x]
  BY <1>1
<1>4. MastersKept /\ HandMarks
  BY <1>3 DEF MastersKept, HandMarks
<1>5. \A x \in DOMAIN masters : MasterInv(x)
  BY DEF IInv
<1>6. \A x \in DOMAIN masters' : MasterInv(x)'
  BY <1>1, <1>2, <1>3, <1>5 DEF MasterInv
<1>7. QED
  BY <1>3, <1>4, <1>6 DEF MastersEdited

LEMMA HandKeeps ==
    ASSUME IInv, HandStep
    PROVE  IInv' /\ MastersEdited
<1>1. UNCHANGED <<batch, staged, mappings, job>>
  BY DEF HandStep, CreateMaster, SetActive, UpdateMaster, ReassignSku
<1>2. MastersEdited
  BY CreationEdits, ActiveEdits, UpdateEdits, ReassignEdits DEF HandStep
<1>3. DOMAIN job' = Thread /\ \A t \in Thread : job'[t] = job[t]
  BY <1>1 DEF IInv
<1>4. QED
  BY <1>1, <1>2, <1>3, BatchesStay DEF MastersEdited

-----------------------------------------------------------------------------
(* The commit *)

\* Each row has its entry, and every entry an identity of its batch.
LEMMA EntryOfRow ==
    ASSUME NEW b \in Batch, NEW r \in RowsOf[b]
    PROVE  \E e \in Entries(b) :
              /\ e.id = Identity(b, r) /\ e.label = r.name
              /\ TypeOf[b] = "CUSTOMER" =>
                    e.refs = <<Reached(b, staged[b][r.no].channel), Reached(b, staged[b][r.no].salesrep)>>
              /\ TypeOf[b] = "SKU" => e.refs = <<ProductId(r)>>
<1>1. CASE TypeOf[b] = "CUSTOMER"
  <2> DEFINE e == Entry(Identity(b, r), r.name, r.code,
                        <<Reached(b, staged[b][r.no].channel), Reached(b, staged[b][r.no].salesrep)>>)
  <2>1. e \in Entries(b)
    BY <1>1 DEF Entries
  <2>2. QED
    BY <1>1, <2>1 DEF Entry
<1>2. CASE TypeOf[b] = "SKU"
  <2> DEFINE e == Entry(Identity(b, r), r.name, r.code, <<ProductId(r)>>)
  <2>1. e \in Entries(b)
    BY <1>2 DEF Entries
  <2>2. QED
    BY <1>2, <2>1 DEF Entry
<1>3. CASE TypeOf[b] \notin {"CUSTOMER", "SKU"}
  <2> DEFINE e == Entry(Identity(b, r), r.name, r.code, <<>>)
  <2>1. e \in Entries(b)
    BY <1>3 DEF Entries
  <2>2. QED
    BY <1>3, <2>1 DEF Entry
<1>4. QED
  BY <1>1, <1>2, <1>3

LEMMA EntryHasIdentity ==
    ASSUME NEW b \in Batch, NEW e \in Entries(b)
    PROVE  e.id \in Identities /\ e.id = <<e.id[1], e.id[2]>>
<1>1. \E r \in RowsOf[b] : e.id \in {Identity(b, r), ProductId(r), RegionId(b, r)}
  <2>1. CASE TypeOf[b] = "CUSTOMER"
    BY <2>1 DEF Entries, Entry
  <2>2. CASE TypeOf[b] = "SKU"
    BY <2>2 DEF Entries, Entry
  <2>3. CASE TypeOf[b] \notin {"CUSTOMER", "SKU"}
    BY <2>3 DEF Entries, Entry
  <2>4. QED
    BY <2>1, <2>2, <2>3
<1>2. PICK r \in RowsOf[b] : e.id \in {Identity(b, r), ProductId(r), RegionId(b, r)}
  BY <1>1
<1>3. e.id \in Identities
  BY <1>2 DEF Identities
<1>4. \E x, y : e.id = <<x, y>>
  BY <1>2 DEF Identity, ProductId, RegionId
<1>5. QED
  BY <1>3, <1>4

\* A parent some row of the batch gives to a master.
GivenParent(b, id, p) ==
    \E r \in RowsOf[b] : /\ TypeOf[b] = "CUSTOMER" /\ Identity(b, r) = id
                         /\ ParentId(b, r) # None /\ p = ParentId(b, r)

\* The parent of a master that the commit read.
Seen(now, id) == IF id \in DOMAIN now.masters THEN now.masters[id].parent ELSE None

\* The masters after a commit: the ones there were, and one of each new identity.
LEMMA WrittenMasters ==
    ASSUME IInv, NEW b \in Batch, NEW now
    PROVE  LET W == Written(b, now) IN
           /\ \A id : id \in DOMAIN W <=> id \in DOMAIN masters \/ \E e \in New(b, now) : e.id = id
           /\ \A id \in DOMAIN W :
                 /\ DOMAIN W[id] = MasterFields
                 /\ W[id].name \in W[id].names /\ W[id].refs \in W[id].related
                 /\ id \in DOMAIN masters => /\ W[id].names = masters[id].names
                                             /\ W[id].related = masters[id].related
                 /\ id \notin DOMAIN masters =>
                       \E e \in New(b, now) : e.id = id /\ W[id].names = {e.label} /\ W[id].related = {e.refs}
                 /\ \/ GivenParent(b, id, W[id].parent)
                    \/ /\ \A p : GivenParent(b, id, p) => p = Seen(now, id)
                       /\ id \in DOMAIN masters => /\ W[id].parent = masters[id].parent
                                                   /\ W[id].byHand = masters[id].byHand
                       /\ id \notin DOMAIN masters => W[id].parent = None
<1> DEFINE W == Written(b, now)
           new == New(b, now)
           entry(id) == CHOOSE e \in new : e.id = id
           made(id) == Made(entry(id).label, entry(id).code, entry(id).refs, None)
           before(id) == IF id \in DOMAIN masters THEN masters[id] ELSE made(id)
           given(id) == ParentsGiven(b, id, now)
           parent(id) == CHOOSE p \in given(id) : TRUE
           after(id) == IF given(id) = {} THEN before(id)
                        ELSE [before(id) EXCEPT !.parent = parent(id), !.byHand = FALSE]
<1>1. W = [id \in DOMAIN masters \cup {e.id : e \in new} |-> after(id)]
  BY DEF Written
<1>2. DOMAIN W = DOMAIN masters \cup {e.id : e \in new} /\ \A id \in DOMAIN W : W[id] = after(id)
  BY <1>1
<1>3. ASSUME NEW id \in DOMAIN W
      PROVE  /\ DOMAIN W[id] = MasterFields
             /\ W[id].name \in W[id].names /\ W[id].refs \in W[id].related
             /\ id \in DOMAIN masters => /\ W[id].names = masters[id].names
                                         /\ W[id].related = masters[id].related
             /\ id \notin DOMAIN masters =>
                   \E e \in new : e.id = id /\ W[id].names = {e.label} /\ W[id].related = {e.refs}
             /\ \/ GivenParent(b, id, W[id].parent)
                \/ /\ \A p : GivenParent(b, id, p) => p = Seen(now, id)
                   /\ id \in DOMAIN masters => /\ W[id].parent = masters[id].parent
                                               /\ W[id].byHand = masters[id].byHand
                   /\ id \notin DOMAIN masters => W[id].parent = None
  <2> DEFINE m == before(id)
  <2>1. W[id] = after(id)
    BY <1>2
  <2>2. DOMAIN m = MasterFields /\ m.name \in m.names /\ m.refs \in m.related
    <3>1. CASE id \in DOMAIN masters
      BY <3>1 DEF IInv, MasterInv
    <3>2. CASE id \notin DOMAIN masters
      BY <3>2 DEF Made, MasterFields
    <3>3. QED
      BY <3>1, <3>2
  <2>3. /\ id \in DOMAIN masters => m = masters[id]
        /\ id \notin DOMAIN masters =>
              m.names = {entry(id).label} /\ m.related = {entry(id).refs} /\ m.parent = None
    BY DEF Made
  <2>4. id \notin DOMAIN masters => entry(id) \in new /\ entry(id).id = id
    BY <1>2
  <2>5. given(id) = {} => \A p : GivenParent(b, id, p) => p = Seen(now, id)
    BY DEF GivenParent, ParentsGiven, Seen
  <2>6. given(id) # {} => GivenParent(b, id, parent(id))
    BY DEF GivenParent, ParentsGiven
  <2>7. W[id] = IF given(id) = {} THEN m ELSE [m EXCEPT !.parent = parent(id), !.byHand = FALSE]
    BY <2>1
  <2> HIDE DEF m, given, parent, entry, W, new, after
  <2>8. CASE given(id) = {}
    BY <2>2, <2>3, <2>4, <2>5, <2>7, <2>8
  <2>9. CASE given(id) # {}
    <3>1. /\ DOMAIN W[id] = MasterFields /\ W[id].parent = parent(id)
          /\ W[id].name = m.name /\ W[id].refs = m.refs
          /\ W[id].names = m.names /\ W[id].related = m.related
      BY <2>2, <2>7, <2>9 DEF MasterFields
    <3>2. QED
      BY <2>2, <2>3, <2>4, <2>6, <2>9, <3>1
  <2>10. QED
    BY <2>8, <2>9
<1> HIDE DEF W
<1>4. \A id : id \in DOMAIN W <=> id \in DOMAIN masters \/ \E e \in new : e.id = id
  <2>1. DOMAIN W = DOMAIN masters \cup {e.id : e \in new}
    BY <1>2
  <2> HIDE DEF new
  <2>2. QED
    BY <2>1
<1>5. QED
  BY <1>3, <1>4 DEF W

\* Where the parent of a row leads: to a master, or to a customer of the batch.
LEMMA ParentLeads ==
    ASSUME IInv, NEW b \in Batch, NEW r \in RowsOf[b],
           TypeOf[b] = "CUSTOMER", batch[b].status # "ABSENT", ParentId(b, r) # None
    PROVE  \/ Mapped(b, r) # {} /\ ParentId(b, r) \in DOMAIN masters
           \/ Mapped(b, r) = {} /\ BearsName(ParentId(b, r), r.parent)
           \/ /\ Mapped(b, r) = {}
              /\ \E q \in RowsOf[b] : q.name = r.parent /\ ParentId(b, r) = Identity(b, q)
<1>1. CASE Mapped(b, r) # {}
  <2> DEFINE d == CHOOSE d \in Mapped(b, r) : TRUE
  <2>1. d \in Mapped(b, r) /\ ParentId(b, r) = d.target
    BY <1>1 DEF ParentId
  <2>2. d \in batch[b].decisions /\ d.choice = "MAP_PARENT"
    BY <2>1 DEF Mapped
  <2>3. QED
    BY <1>1, <2>1, <2>2 DEF IInv, BatchInv, TargetsExist
<1>2. CASE Mapped(b, r) = {}
  <2> DEFINE ref == staged[b][r.no].parent
  <2>1. FrozenParent(ref, b, r)
    <3>1. r.no \in DOMAIN staged[b] /\ Row(b, r.no) = r
      BY RowOfNumber DEF IInv, BatchInv, RowsSay, Numbers
    <3>2. QED
      BY <3>1 DEF IInv, BatchInv, RowsSay, FrozenRow
  <2>2. ParentId(b, r) = Reached(b, ref)
    BY <1>2 DEF ParentId
  <2> HIDE DEF ref
  <2>3. CASE StagedRow(ref, b, r.parent)
    <3>1. PICK q \in RowsOf[b] : q.name = r.parent /\ ref = [kind |-> "STAGED", at |-> <<b, q.no>>]
      BY <2>3 DEF StagedRow
    <3>2. ref # None
      BY <2>2 DEF Reached
    <3>3. Reached(b, ref) = Identity(b, Row(b, q.no))
      BY <3>1, <3>2 DEF Reached
    <3>4. Row(b, q.no) = q
      BY RowOfNumber
    <3>5. QED
      BY <1>2, <2>2, <3>1, <3>3, <3>4
  <2>4. CASE MasterNamed(ref, r.parent)
    BY <1>2, <2>2, <2>4 DEF MasterNamed, Reached
  <2>5. CASE ref = None
    BY <2>2, <2>5 DEF Reached
  <2>6. QED
    BY <2>1, <2>3, <2>4, <2>5 DEF FrozenParent
<1>3. QED
  BY <1>1, <1>2

\* The mappings after a commit: the ones there were, and those of unmapped entries.
LEMMA WrittenMappings ==
    ASSUME NEW t \in Thread, CommitBatch(t)
    PROVE  LET b == job[t].batch  now == job[t].now IN
           /\ MappingsKept
           /\ \A e \in Unmapped(b, now) :
                 /\ MappingKey(b, e) \in DOMAIN mappings'
                 /\ \E d \in Entries(b) : /\ MappingKey(b, d) = MappingKey(b, e)
                                          /\ mappings'[MappingKey(b, e)] = d.label
<1> DEFINE b == job[t].batch
           now == job[t].now
           entryOf(k) == CHOOSE e \in Entries(b) : MappingKey(b, e) = k
           labels == [k \in {MappingKey(b, e) : e \in Unmapped(b, now)} |-> entryOf(k).label]
<1>1. /\ ~Unstorable(b, now)
      /\ mappings' = [k \in DOMAIN mappings \cup DOMAIN labels |->
                         IF k \in DOMAIN labels THEN labels[k] ELSE mappings[k]]
  BY DEF CommitBatch
<1>2. \A e \in Unmapped(b, now) : MappingKey(b, e) \notin DOMAIN mappings
  BY <1>1 DEF Unstorable
<1>3. DOMAIN labels = {MappingKey(b, e) : e \in Unmapped(b, now)}
  OBVIOUS
<1>4. ASSUME NEW e \in Unmapped(b, now)
      PROVE  \E d \in Entries(b) : MappingKey(b, d) = MappingKey(b, e) /\ labels[MappingKey(b, e)] = d.label
  <2>1. e \in Entries(b)
    BY DEF Unmapped
  <2>2. /\ entryOf(MappingKey(b, e)) \in Entries(b)
        /\ MappingKey(b, entryOf(MappingKey(b, e))) = MappingKey(b, e)
    BY <2>1
  <2>3. QED
    BY <2>2
<1> HIDE DEF labels
<1>5. MappingsKept
  BY <1>1, <1>2, <1>3 DEF MappingsKept
<1>6. QED
  BY <1>1, <1>3, <1>4, <1>5

\* Every entry of a batch is a master after its commit.
LEMMA EntriesWritten ==
    ASSUME IInv, NEW b \in Batch, NEW now, StillThere(now), NEW e \in Entries(b)
    PROVE  e.id \in DOMAIN Written(b, now)
<1>1. CASE e.id \in DOMAIN now.masters
  BY <1>1, WrittenMasters DEF StillThere
<1>2. CASE e.id \notin DOMAIN now.masters
  <2>1. e \in New(b, now)
    BY <1>2 DEF New
  <2>2. QED
    BY <2>1, WrittenMasters
<1>3. QED
  BY <1>1, <1>2

LEMMA CommitKeeps ==
    ASSUME IInv, NEW t \in Thread, CommitBatch(t)
    PROVE  IInv' /\ MastersKept
<1>0. PICK b, now : b = job[t].batch /\ now = job[t].now
  OBVIOUS
<1> DEFINE W == Written(b, now)
<1>1. /\ job[t] # NoJob /\ job[t].stage = "COMMITTING" /\ Committing(t)
      /\ masters' = W
      /\ batch' = [batch EXCEPT ![b].status = "COMMITTED"]
      /\ staged' = [staged EXCEPT ![b] = [n \in DOMAIN @ |-> [@[n] EXCEPT !.status = "COMMITTED"]]]
      /\ job' = [job EXCEPT ![t] = NoJob]
  BY <1>0 DEF CommitBatch, Committing
<1>2. MappingsKept
  BY WrittenMappings
<1>3. b \in Batch /\ batch[b].status = "CONFIRMED" /\ StillThere(now)
      /\ \A u \in Thread : Committing(u) /\ job[u].batch = b => u = t
  BY <1>0, <1>1 DEF IInv, JobInv
<1>4. BatchInv(b) /\ DOMAIN batch = Batch /\ DOMAIN staged = Batch /\ DOMAIN job = Thread
  BY <1>3 DEF IInv
<1>5. MastersKept
  BY <1>1, <1>3, WrittenMasters DEF MastersKept
<1>6. \A id \in DOMAIN masters' : MasterInv(id)'
  <2> SUFFICES ASSUME NEW id \in DOMAIN W
               PROVE  /\ DOMAIN W[id] = MasterFields /\ W[id].parent \in DOMAIN W \cup {None}
                      /\ W[id].name \in W[id].names /\ W[id].refs \in W[id].related
    BY <1>1 DEF MasterInv
  <2>1. /\ DOMAIN W[id] = MasterFields /\ DOMAIN masters \subseteq DOMAIN W
        /\ W[id].name \in W[id].names /\ W[id].refs \in W[id].related
    BY <1>3, WrittenMasters
  <2>2. CASE GivenParent(b, id, W[id].parent)
    <3>1. PICK r \in RowsOf[b] : /\ TypeOf[b] = "CUSTOMER" /\ ParentId(b, r) # None
                                 /\ W[id].parent = ParentId(b, r)
      BY <2>2 DEF GivenParent
    <3>2. \/ ParentId(b, r) \in DOMAIN masters
          \/ \E q \in RowsOf[b] : ParentId(b, r) = Identity(b, q)
      BY <1>3, <3>1, ParentLeads DEF BearsName
    <3>3. \A q \in RowsOf[b] : Identity(b, q) \in DOMAIN W
      <4> SUFFICES ASSUME NEW q \in RowsOf[b]
                   PROVE  Identity(b, q) \in DOMAIN W
        OBVIOUS
      <4>1. PICK e \in Entries(b) : e.id = Identity(b, q)
        BY <1>3, EntryOfRow
      <4>2. QED
        BY <1>3, <4>1, EntriesWritten
    <3>4. QED
      BY <2>1, <3>1, <3>2, <3>3
  <2>3. CASE \/ id \in DOMAIN masters /\ W[id].parent = masters[id].parent
             \/ W[id].parent = None
    BY <2>1, <2>3 DEF IInv, MasterInv
  <2>4. QED
    BY <1>3, <2>1, <2>2, <2>3, WrittenMasters
<1>7. /\ DOMAIN batch' = Batch /\ DOMAIN staged' = Batch /\ DOMAIN job' = Thread
      /\ \A c \in Batch \ {b} : batch'[c] = batch[c] /\ staged'[c] = staged[c]
      /\ job'[t] = NoJob /\ \A u \in Thread \ {t} : job'[u] = job[u]
  BY <1>1, <1>4
<1>8. /\ DOMAIN batch'[b] = BatchFields /\ batch'[b].status = "COMMITTED"
      /\ batch'[b].confirmed = batch[b].confirmed /\ batch'[b].version = batch[b].version
      /\ batch'[b].decisions = batch[b].decisions
  BY <1>1, <1>3, <1>4 DEF BatchInv, BatchFields
<1>9. /\ DOMAIN staged'[b] = DOMAIN staged[b]
      /\ \A n \in DOMAIN staged[b] : staged'[b][n] = [staged[b][n] EXCEPT !.status = "COMMITTED"]
  BY <1>1, <1>3, <1>4
<1>10. ASSUME NEW n \in DOMAIN staged[b]
       PROVE  /\ DOMAIN staged'[b][n] = RowFields /\ staged'[b][n].status = "COMMITTED"
              /\ staged'[b][n].issues = staged[b][n].issues
              /\ staged'[b][n].channel = staged[b][n].channel
              /\ staged'[b][n].salesrep = staged[b][n].salesrep
              /\ staged'[b][n].parent = staged[b][n].parent
  <2>1. DOMAIN staged[b][n] = RowFields
    BY <1>4 DEF BatchInv, RowsSay, FrozenRow
  <2>2. QED
    BY <1>9, <2>1 DEF RowFields
<1>11. StatusSays(b)'
  <2>1. Subjects(b)' = Subjects(b)
    BY <1>3, <1>9, <1>10, SubjectsStay
  <2>2. QED
    BY <1>3, <1>4, <1>8, <2>1 DEF BatchInv, StatusSays, Settled, Decided, Mutable, Final
<1>12. TargetsExist(b)'
  BY <1>4, <1>5, <1>8 DEF BatchInv, TargetsExist, MastersKept
<1>13. RowsSay(b)'
  <2>1. ASSUME NEW n \in DOMAIN staged[b]
        PROVE  FrozenRow(staged[b][n], b, Row(b, n))'
    <3>1. FrozenRow(staged[b][n], b, Row(b, n))
      BY <1>4 DEF BatchInv, RowsSay
    <3>2. FrozenRow(staged'[b][n], b, Row(b, n))
      BY <1>10, <3>1 DEF FrozenRow
    <3>3. \A row, r : FrozenRow(row, b, r) => FrozenRow(row, b, r)'
      BY <1>3, <1>5, FrozenStays
    <3>4. QED
      BY <3>2, <3>3 DEF Row
  <2>2. QED
    BY <1>3, <1>4, <1>8, <1>9, <1>10, <2>1 DEF BatchInv, RowsSay, Numbers
<1>14. \A c \in Batch : BatchInv(c)'
  <2>1. BatchInv(b)'
    BY <1>8, <1>11, <1>12, <1>13 DEF BatchInv
  <2>2. \A c \in Batch \ {b} : BatchInv(c)'
    BY <1>5, <1>7, BatchStays DEF IInv
  <2>3. QED
    BY <2>1, <2>2
<1>15. \A u \in Thread : JobInv(u)'
  <2>1. CommittedNow \subseteq CommittedNow'
    BY <1>3, <1>7, <1>8 DEF CommittedNow
  <2>2. \A u \in Thread : Committing(u)' =>
            Committing(u) /\ job[u].batch \in Batch \ {b}
    BY <1>0, <1>3, <1>7 DEF Committing, IInv, JobInv
  <2>3. QED
    BY <1>2, <1>5, <1>7, <2>1, <2>2, JobsStay
<1>16. QED
  BY <1>5, <1>6, <1>7, <1>14, <1>15 DEF IInv

-----------------------------------------------------------------------------

LEMMA InitIInv == Init => IInv
<1> SUFFICES ASSUME Init
             PROVE  IInv
  OBVIOUS
<1>1. ASSUME NEW b \in Batch
      PROVE  BatchInv(b)
  <2>1. batch[b] = [status |-> "ABSENT", version |-> 1, confirmed |-> None, decisions |-> {}]
    BY DEF Init
  <2>2. /\ DOMAIN batch[b] = BatchFields /\ batch[b].status = "ABSENT" /\ batch[b].version = 1
        /\ batch[b].confirmed = None /\ batch[b].decisions = {}
    BY <2>1 DEF BatchFields
  <2>3. DOMAIN staged[b] = {}
    BY DEF Init
  <2>4. StatusSays(b)
    BY <2>2, BootstrapAssumption DEF StatusSays, Mutable, Final
  <2>5. QED
    BY <2>2, <2>3, <2>4 DEF BatchInv, TargetsExist, RowsSay
<1>2. DOMAIN masters = {}
  BY DEF Init
<1>3. \A t \in Thread : job[t] = NoJob
  BY DEF Init
<1>4. DOMAIN batch = Batch /\ DOMAIN staged = Batch /\ DOMAIN job = Thread
  BY DEF Init
<1>5. QED
  BY <1>1, <1>2, <1>3, <1>4 DEF IInv, JobInv

LEMMA CancelKeeps ==
    ASSUME IInv, NEW b \in Batch, Cancel(b)
    PROVE  IInv'
<1>1. /\ ~Held(b) /\ batch[b].status \in Mutable \cup {"CONFIRMED"}
      /\ batch' = [batch EXCEPT ![b].status = "CANCELLED"]
      /\ UNCHANGED <<staged, masters, mappings, job>>
  BY DEF Cancel
<1>2. QED
  BY <1>1, EndingKeeps DEF IInv

LEMMA NextIInv == IInv /\ [Next]_vars => IInv'
<1> SUFFICES ASSUME IInv, [Next]_vars
             PROVE  IInv'
  OBVIOUS
<1>1. CASE \E b \in Batch : StageFile(b) \/ Confirm(b) \/ Cancel(b)
  BY <1>1, StagingKeeps, ConfirmationKeeps, CancelKeeps
<1>2. CASE \E b \in Batch : \E new \in SUBSET Decidable(b) : AppendDecisions(b, new)
  BY <1>2, DecisionsKeep
<1>3. CASE \E t \in Thread, b \in Batch : BeginCommit(t, b)
  BY <1>3, BeginningKeeps
<1>4. CASE \E t \in Thread : CommitBatch(t) \/ RefuseCommit(t) \/ CommitFails(t)
  BY <1>4, CommitKeeps, GivingUpKeeps
<1>5. CASE \E t \in Thread : RecordFailure(t) \/ LoseJob(t)
  BY <1>5, RecordingKeeps, GivingUpKeeps
<1>6. CASE HandStep
  BY <1>6, HandKeeps
<1>7. CASE UNCHANGED vars
  <2>1. UNCHANGED <<batch, staged, masters, mappings, job>>
    BY <1>7 DEF vars
  <2>2. MastersKept /\ \A id \in DOMAIN masters' : MasterInv(id)'
    BY <2>1 DEF MastersKept, IInv, MasterInv
  <2>3. QED
    BY <2>1, <2>2, BatchesStay DEF IInv
<1>8. QED
  BY <1>1, <1>2, <1>3, <1>4, <1>5, <1>6, <1>7 DEF Next, HandStep

\* The inductive invariant: statuses, decisions and staged rows say what was
\* confirmed, references lead to masters of the name they gave, now or until
\* they were renamed by hand, and a commit has its batch for itself and still
\* finds what it saw, or what it was until somebody changed it by hand.
THEOREM BootstrapInvariance == Spec => []IInv
BY InitIInv, NextIInv, PTL DEF Spec

\* A confirmed, committed or failed batch was confirmed in its present version
\* with everything found settled; rows are committed with their batch, parents
\* are masters, and a request commits or fails.
THEOREM BootstrapTyping == Spec => []BootstrapTypeOK
<1>1. IInv => BootstrapTypeOK
  BY DEF IInv, BatchInv, StatusSays, RowsSay, MasterInv, JobInv, BootstrapTypeOK
<1>2. QED
  BY <1>1, BootstrapInvariance, PTL

LEMMA EndedStep ==
    ASSUME IInv, [Next]_vars, NEW b \in Batch, batch[b].status \in Final
    PROVE  batch'[b] = batch[b] /\ staged'[b] = staged[b]
<1>1. batch[b].status \notin Mutable \cup {"ABSENT", "CONFIRMED"} /\ DOMAIN batch = Batch /\ DOMAIN staged = Batch
  BY DEF Final, Mutable, IInv
<1>2. CASE \E c \in Batch : StageFile(c) \/ Confirm(c) \/ Cancel(c)
  BY <1>1, <1>2 DEF StageFile, Confirm, Cancel
<1>3. CASE \E c \in Batch : \E new \in SUBSET Decidable(c) : AppendDecisions(c, new)
  BY <1>1, <1>3 DEF AppendDecisions
<1>4. CASE \E t \in Thread : CommitBatch(t)
  <2>1. PICK t \in Thread : CommitBatch(t)
    BY <1>4
  <2>2. job[t].batch \in Batch /\ batch[job[t].batch].status = "CONFIRMED"
    BY <2>1 DEF CommitBatch, Committing, IInv, JobInv
  <2>3. QED
    BY <1>1, <2>1, <2>2 DEF CommitBatch
<1>5. CASE \E t \in Thread : RecordFailure(t)
  BY <1>1, <1>5 DEF RecordFailure, StillConfirmed, IInv, JobInv
<1>6. CASE UNCHANGED <<batch, staged>>
  BY <1>6
<1>7. QED
  BY <1>2, <1>3, <1>4, <1>5, <1>6 DEF Next, vars, BeginCommit, RefuseCommit, CommitFails, LoseJob,
                                      CreateMaster, SetActive, UpdateMaster, ReassignSku

\* A batch that was committed, cancelled or recorded as failed stays as it is,
\* also when a failure is recorded after the batch was released.
THEOREM EndedBatchesStay == Spec => EndedStaysEnded
<1>1. IInv /\ [Next]_vars =>
        [\A b \in Batch : batch[b].status \in Final => batch'[b] = batch[b] /\ staged'[b] = staged[b]]_vars
  BY EndedStep
<1>2. QED
  BY <1>1, BootstrapInvariance, PTL DEF Spec, EndedStaysEnded

-----------------------------------------------------------------------------
(* What masters say of the rows they come from *)

Said(b, r) ==
    LET id == Identity(b, r) IN
    /\ BearsName(id, r.name)
    /\ mappings[<<id[1], SystemOf[b], id[2]>>] = r.name
    /\ TypeOf[b] = "CUSTOMER" =>
          /\ \E refs \in masters[id].related :
                BearsName(refs[1], r.channel) /\ BearsName(refs[2], r.salesrep)
          /\ NamesParent(b, r) => Credible(id)
    /\ TypeOf[b] = "SKU" => <<ProductId(r)>> \in masters[id].related

LEMMA AllSaid ==
    MastersSayWhatRowsSay <=> \A b \in CommittedNow : \A r \in RowsOf[b] : Said(b, r)
BY DEF MastersSayWhatRowsSay, Said, NamesParent, Credible

\* An entry has its identity to itself: no master made by hand has it.
LEMMA EntryKey ==
    ASSUME NEW b \in Batch, NEW e \in Entries(b)
    PROVE  /\ \A m \in Manual : m.id # e.id
           /\ MappingKey(b, e) = KeyOf(b, e.id)
           /\ \A d \in Entries(b) : MappingKey(b, d) = MappingKey(b, e) => d.id = e.id
<1>1. \A m \in Manual : m.id # e.id
  BY EntryHasIdentity, IdentityAssumption
<1>2. ASSUME NEW d \in Entries(b), MappingKey(b, d) = MappingKey(b, e)
      PROVE  d.id = e.id
  <2>1. d.id[1] = e.id[1] /\ d.id[2] = e.id[2]
    BY <1>2 DEF MappingKey
  <2>2. d.id = <<d.id[1], d.id[2]>> /\ e.id = <<e.id[1], e.id[2]>>
    BY EntryHasIdentity
  <2>3. QED
    BY <2>1, <2>2
<1>3. QED
  BY <1>1, <1>2 DEF MappingKey, KeyOf

\* Entries of one identity agree, and a commit leaves each of them as its master.
LEMMA EntriesSay ==
    ASSUME IInv, NEW b \in Batch, NEW now, StillThere(now), Labelled(now.masters, now.mappings),
           ~Reused(b, now), ~Unstorable(b, now), NEW e \in Entries(b)
    PROVE  LET W == Written(b, now) IN
           /\ e.id \in DOMAIN W
           /\ e.label \in W[e.id].names
           /\ e.refs # <<>> => e.refs \in W[e.id].related
<1> DEFINE W == Written(b, now)
<1>1. e.id \in DOMAIN W
  BY EntriesWritten
<1>2. \A d \in Entries(b) : d.id = e.id => d.label = e.label /\ d.refs = e.refs
  BY DEF Reused
<1>3. CASE e.id \in DOMAIN now.masters
  <2>1. e.id \in DOMAIN masters /\ now.masters[e.id].names \subseteq masters[e.id].names
        /\ now.masters[e.id].refs \in masters[e.id].related
    BY <1>3 DEF StillThere
  <2>2. MappingKey(b, e) \in DOMAIN now.mappings
        /\ now.mappings[MappingKey(b, e)] \in now.masters[e.id].names
    BY <1>3, EntryKey DEF Labelled
  <2>3. now.mappings[MappingKey(b, e)] = e.label
    BY <2>2 DEF Reused, Unmapped
  <2>4. e.refs # <<>> => now.masters[e.id].refs = e.refs
    <3>1. e \in Entries(b) \ New(b, now)
      BY <1>3 DEF New
    <3>2. None \notin ReferencesOf(b)
      BY DEF Unstorable
    <3>3. QED
      BY <3>1, <3>2 DEF Reused
  <2>5. W[e.id].names = masters[e.id].names /\ W[e.id].related = masters[e.id].related
    BY <1>1, <2>1, WrittenMasters
  <2>6. QED
    BY <1>1, <2>1, <2>2, <2>3, <2>4, <2>5
<1>4. CASE e.id \notin DOMAIN now.masters
  <2>1. e \in New(b, now)
    BY <1>4 DEF New
  <2>2. e.id \notin DOMAIN masters
    BY <2>1 DEF Unstorable
  <2>3. PICK d \in New(b, now) : d.id = e.id /\ W[e.id].names = {d.label} /\ W[e.id].related = {d.refs}
    BY <1>1, <2>2, WrittenMasters
  <2>4. d \in Entries(b)
    BY DEF New
  <2>5. QED
    BY <1>1, <1>2, <2>3, <2>4
<1>5. QED
  BY <1>3, <1>4

\* Every entry of a batch is mapped under its label after the commit.
LEMMA EntryMapped ==
    ASSUME IInv, NEW t \in Thread, CommitBatch(t), NEW b, b = job[t].batch, NEW e \in Entries(b)
    PROVE  KeyOf(b, e.id) \in DOMAIN mappings' /\ mappings'[KeyOf(b, e.id)] = e.label
<1>1. PICK now : now = job[t].now
  OBVIOUS
<1>2. ~Reused(b, now) /\ b \in Batch /\ StillThere(now)
  BY <1>1 DEF CommitBatch, Committing, IInv, JobInv
<1>3. MappingKey(b, e) = KeyOf(b, e.id)
  BY <1>2, EntryKey
<1>4. CASE e \in Unmapped(b, now)
  <2>1. PICK d \in Entries(b) : /\ MappingKey(b, d) = MappingKey(b, e)
                                /\ mappings'[MappingKey(b, e)] = d.label
    BY <1>1, <1>4, WrittenMappings
  <2>2. d.id = e.id
    BY <1>2, <2>1, EntryKey
  <2>3. d.label = e.label
    BY <1>2, <2>1, <2>2 DEF Reused
  <2>4. MappingKey(b, e) \in DOMAIN mappings'
    BY <1>1, <1>4, WrittenMappings
  <2>5. QED
    BY <1>3, <2>1, <2>3, <2>4
<1>5. CASE e \notin Unmapped(b, now)
  <2>1. MappingKey(b, e) \in DOMAIN now.mappings /\ now.mappings[MappingKey(b, e)] = e.label
    BY <1>2, <1>5 DEF Unmapped, Reused
  <2>2. MappingKey(b, e) \in DOMAIN mappings /\ mappings[MappingKey(b, e)] = e.label
    BY <1>2, <2>1 DEF StillThere
  <2>3. MappingsKept
    BY WrittenMappings
  <2>4. QED
    BY <1>3, <2>2, <2>3 DEF MappingsKept
<1>6. QED
  BY <1>4, <1>5

\* The commit maps what it creates, under the name it gives.
LEMMA CommitLabels ==
    ASSUME IInv, OneSystem, Labelled(masters, mappings), NEW t \in Thread, CommitBatch(t),
           Labelled(job[t].now.masters, job[t].now.mappings)
    PROVE  Labelled(masters, mappings)'
<1>1. PICK b, now : b = job[t].batch /\ now = job[t].now
  OBVIOUS
<1>2. /\ ~Reused(b, now) /\ ~Unstorable(b, now) /\ masters' = Written(b, now)
      /\ b \in Batch /\ StillThere(now) /\ Labelled(now.masters, now.mappings)
  BY <1>1 DEF CommitBatch, Committing, IInv, JobInv
<1>3. MappingsKept
  BY WrittenMappings
<1>4. ASSUME NEW id \in DOMAIN masters', \A m \in Manual : m.id # id, NEW c \in Batch
      PROVE  KeyOf(c, id) \in DOMAIN mappings' /\ mappings'[KeyOf(c, id)] \in masters'[id].names
  <2>1. KeyOf(c, id) = KeyOf(b, id)
    BY <1>2 DEF KeyOf, OneSystem
  <2>2. CASE id \in DOMAIN masters
    <3>1. KeyOf(b, id) \in DOMAIN mappings /\ mappings[KeyOf(b, id)] \in masters[id].names
      BY <1>2, <1>4, <2>2 DEF Labelled
    <3>2. masters'[id].names = masters[id].names
      BY <1>2, <1>4, <2>2, WrittenMasters
    <3>3. QED
      BY <1>3, <2>1, <3>1, <3>2 DEF MappingsKept
  <2>3. CASE id \notin DOMAIN masters
    <3>1. PICK e \in New(b, now) : e.id = id /\ masters'[id].names = {e.label}
      BY <1>2, <1>4, <2>3, WrittenMasters
    <3>2. e \in Entries(b)
      BY DEF New
    <3>3. KeyOf(b, id) \in DOMAIN mappings' /\ mappings'[KeyOf(b, id)] = e.label
      BY <1>1, <3>1, <3>2, EntryMapped
    <3>4. QED
      BY <2>1, <3>1, <3>3
  <2>4. QED
    BY <2>2, <2>3
<1>5. QED
  BY <1>4 DEF Labelled

\* A reference of a row that is committed leads to a master of the name it gave.
LEMMA ReferenceReached ==
    ASSUME IInv, MastersSayWhatRowsSay, NEW b \in Batch, NEW ref, NEW type, NEW name,
           Frozen(ref, type, name), ref # None,
           ref.kind = "STAGED" => ref.at[1] \in CommittedNow
    PROVE  BearsName(Reached(b, ref), name)
<1>1. CASE MasterNamed(ref, name)
  BY <1>1 DEF MasterNamed, Reached
<1>2. CASE \E c \in Batch : StagedRow(ref, c, name)
  <2>0. PICK c \in Batch : StagedRow(ref, c, name)
    BY <1>2
  <2>1. PICK q \in RowsOf[c] : q.name = name /\ ref = [kind |-> "STAGED", at |-> <<c, q.no>>]
    BY <2>0 DEF StagedRow
  <2>2. Reached(b, ref) = Identity(c, q) /\ c \in CommittedNow
    BY <2>1, RowOfNumber DEF Reached
  <2>3. Said(c, q)
    BY <2>1, <2>2, AllSaid
  <2>4. QED
    BY <2>1, <2>2, <2>3 DEF Said
<1>3. QED
  BY <1>1, <1>2 DEF Frozen

\* What a commit leaves of its batch and of the others.
LEMMA CommitRetains ==
    ASSUME IInv, NEW t \in Thread, CommitBatch(t)
    PROVE  LET b == job[t].batch IN
           /\ b \in Batch
           /\ \A c \in Batch \ {b} : batch'[c] = batch[c] /\ staged'[c] = staged[c]
           /\ CommittedNow' = CommittedNow \cup {b} /\ b \notin CommittedNow
           /\ batch'[b].decisions = batch[b].decisions
           /\ \A r \in RowsOf[b] : /\ FrozenRow(staged[b][r.no], b, r)
                                   /\ staged'[b][r.no].parent = staged[b][r.no].parent
<1>0. PICK b : b = job[t].batch
  OBVIOUS
<1>1. /\ batch' = [batch EXCEPT ![b].status = "COMMITTED"]
      /\ staged' = [staged EXCEPT ![b] = [n \in DOMAIN @ |-> [@[n] EXCEPT !.status = "COMMITTED"]]]
      /\ b \in Batch /\ batch[b].status = "CONFIRMED"
  BY <1>0 DEF CommitBatch, Committing, IInv, JobInv
<1>2. BatchInv(b) /\ DOMAIN batch = Batch /\ DOMAIN staged = Batch
  BY <1>1 DEF IInv
<1>3. DOMAIN batch' = Batch /\ \A c \in Batch \ {b} : batch'[c] = batch[c] /\ staged'[c] = staged[c]
  BY <1>1, <1>2
<1>4. batch'[b].status = "COMMITTED" /\ batch'[b].decisions = batch[b].decisions
  BY <1>1, <1>2 DEF BatchInv, BatchFields
<1>5. CommittedNow' = CommittedNow \cup {b} /\ b \notin CommittedNow
  BY <1>1, <1>3, <1>4 DEF CommittedNow
<1>6. ASSUME NEW r \in RowsOf[b]
      PROVE  /\ FrozenRow(staged[b][r.no], b, r)
             /\ staged'[b][r.no].parent = staged[b][r.no].parent
  <2>1. r.no \in DOMAIN staged[b] /\ Row(b, r.no) = r
    BY <1>1, <1>2, RowOfNumber DEF BatchInv, RowsSay, Numbers
  <2>2. FrozenRow(staged[b][r.no], b, r)
    BY <1>2, <2>1 DEF BatchInv, RowsSay
  <2>3. staged'[b][r.no] = [staged[b][r.no] EXCEPT !.status = "COMMITTED"]
    BY <1>1, <1>2, <2>1
  <2>4. QED
    BY <2>2, <2>3 DEF FrozenRow, RowFields
<1>7. QED
  BY <1>0, <1>1, <1>3, <1>4, <1>5, <1>6

\* A parent that a commit gives is one its row says.
LEMMA GivenIsSaid ==
    ASSUME IInv, NEW t \in Thread, CommitBatch(t),
           Labelled(job[t].now.masters, job[t].now.mappings),
           NEW id, GivenParent(job[t].batch, id, masters'[id].parent)
    PROVE  ParentSaid(id)'
<1>1. PICK b, now : b = job[t].batch /\ now = job[t].now
  OBVIOUS
<1>2. /\ ~Reused(b, now) /\ ~Unstorable(b, now) /\ masters' = Written(b, now)
      /\ b \in Batch /\ StillThere(now) /\ Labelled(now.masters, now.mappings)
      /\ batch[b].status = "CONFIRMED"
  BY <1>1 DEF CommitBatch, Committing, IInv, JobInv
<1>3. PICK r \in RowsOf[b] : /\ TypeOf[b] = "CUSTOMER" /\ Identity(b, r) = id
                             /\ ParentId(b, r) # None /\ masters'[id].parent = ParentId(b, r)
  BY <1>1 DEF GivenParent
<1>4. MastersKept
  BY CommitKeeps
<1>5. batch'[b].decisions = batch[b].decisions /\ staged'[b][r.no].parent = staged[b][r.no].parent
      /\ b \in CommittedNow'
  BY <1>1, CommitRetains
<1>6. Mapped(b, r)' = Mapped(b, r) /\ ParentId(b, r)' = ParentId(b, r)
  BY <1>5 DEF Mapped, ParentId, Reached, Identity, Row
<1>7. ASSUME Mapped(b, r) = {}
      PROVE  BearsName(ParentId(b, r), r.parent)'
  <2>1. CASE BearsName(ParentId(b, r), r.parent)
    BY <1>4, <1>6, <2>1 DEF BearsName, MastersKept
  <2>2. CASE \E q \in RowsOf[b] : q.name = r.parent /\ ParentId(b, r) = Identity(b, q)
    <3>1. PICK q \in RowsOf[b] : q.name = r.parent /\ ParentId(b, r) = Identity(b, q)
      BY <2>2
    <3>2. PICK e \in Entries(b) : e.id = Identity(b, q) /\ e.label = q.name
      BY <1>2, EntryOfRow
    <3>3. e.id \in DOMAIN masters' /\ e.label \in masters'[e.id].names
      BY <1>2, EntriesSay
    <3>4. QED
      BY <1>6, <3>1, <3>2, <3>3 DEF BearsName
  <2>3. QED
    BY <1>2, <1>3, <1>7, <2>1, <2>2, ParentLeads
<1>8. QED
  BY <1>3, <1>5, <1>6, <1>7 DEF ParentSaid, Identity

\* What a committed row said of a parent stays said.
LEMMA ParentSaidStays ==
    ASSUME MastersKept, CommittedNow \subseteq CommittedNow',
           \A c \in CommittedNow : batch'[c] = batch[c] /\ staged'[c] = staged[c],
           NEW id, ParentSaid(id), masters'[id].parent = masters[id].parent
    PROVE  ParentSaid(id)'
<1>1. PICK c \in CommittedNow : \E q \in RowsOf[c] :
          /\ Identity(c, q) = id /\ masters[id].parent = ParentId(c, q)
          /\ Mapped(c, q) = {} => BearsName(masters[id].parent, q.parent)
  BY DEF ParentSaid
<1>2. PICK q \in RowsOf[c] :
          /\ Identity(c, q) = id /\ masters[id].parent = ParentId(c, q)
          /\ Mapped(c, q) = {} => BearsName(masters[id].parent, q.parent)
  BY <1>1
<1>3. Mapped(c, q)' = Mapped(c, q) /\ ParentId(c, q)' = ParentId(c, q)
  <2>1. batch'[c] = batch[c] /\ staged'[c] = staged[c]
    OBVIOUS
  <2>2. Mapped(c, q)' = Mapped(c, q)
    BY <2>1 DEF Mapped
  <2>3. QED
    BY <2>1, <2>2 DEF ParentId, Reached, Identity, Row
<1>4. Mapped(c, q) = {} => BearsName(masters[id].parent, q.parent)'
  BY <1>2 DEF BearsName, MastersKept, Identity
<1>5. QED
  BY <1>2, <1>3, <1>4 DEF ParentSaid, Identity

\* A step that keeps credible parents credible.
ParentsKept ==
    \A id \in DOMAIN masters :
        \/ Credible(id)'
        \/ /\ masters'[id].parent = masters[id].parent
           /\ masters[id].byHand => masters'[id].byHand

LEMMA CredibleStays ==
    ASSUME MastersKept, ParentsKept, CommittedNow \subseteq CommittedNow',
           \A c \in CommittedNow : batch'[c] = batch[c] /\ staged'[c] = staged[c],
           NEW id \in DOMAIN masters, Credible(id)
    PROVE  Credible(id)'
<1>1. CASE Credible(id)'
  BY <1>1
<1>2. CASE /\ masters'[id].parent = masters[id].parent
           /\ masters[id].byHand => masters'[id].byHand
  <2>1. CASE masters[id].byHand
    BY <1>2, <2>1 DEF Credible
  <2>2. CASE ParentSaid(id)
    <3>1. ParentSaid(id)'
      BY <1>2, <2>2, ParentSaidStays
    <3>2. QED
      BY <3>1 DEF Credible
  <2>3. QED
    BY <2>1, <2>2 DEF Credible
<1>3. QED
  BY <1>1, <1>2 DEF ParentsKept

\* The parents a commit saw stay the present ones, or credible.
LEMMA SeenStays ==
    ASSUME MastersKept, ParentsKept, CommittedNow \subseteq CommittedNow',
           \A c \in CommittedNow : batch'[c] = batch[c] /\ staged'[c] = staged[c],
           NEW ms, DOMAIN ms \subseteq DOMAIN masters, ParentsSeen(ms)
    PROVE  \A id \in DOMAIN ms : masters'[id].parent = ms[id].parent \/ Credible(id)'
<1> SUFFICES ASSUME NEW id \in DOMAIN ms
             PROVE  masters'[id].parent = ms[id].parent \/ Credible(id)'
  OBVIOUS
<1>1. CASE Credible(id)
  BY <1>1, CredibleStays
<1>2. CASE masters[id].parent = ms[id].parent
  BY <1>2 DEF ParentsKept
<1>3. QED
  BY <1>1, <1>2 DEF ParentsSeen

\* What a commit under way saw stays labelled, its parents present or credible.
LEMMA SeenKept ==
    ASSUME IInv, SInv, MastersKept, ParentsKept, CommittedNow \subseteq CommittedNow',
           \A c \in CommittedNow : batch'[c] = batch[c] /\ staged'[c] = staged[c],
           NEW t \in Thread, Committing(t), job'[t] = job[t]
    PROVE  /\ Labelled(job[t].now.masters, job[t].now.mappings)'
           /\ ParentsSeen(job[t].now.masters)'
<1>1. PICK now : now = job[t].now
  OBVIOUS
<1>2. Labelled(now.masters, now.mappings) /\ ParentsSeen(now.masters)
  BY <1>1 DEF SInv
<1>3. DOMAIN now.masters \subseteq DOMAIN masters
  BY <1>1 DEF IInv, JobInv, Committing, StillThere
<1>4. \A id \in DOMAIN now.masters : masters'[id].parent = now.masters[id].parent \/ Credible(id)'
  <2>1. PICK ms : ms = now.masters
    OBVIOUS
  <2>2. \A id \in DOMAIN ms : masters'[id].parent = ms[id].parent \/ Credible(id)'
    BY <1>2, <1>3, <2>1, SeenStays
  <2>3. QED
    BY <2>1, <2>2
<1>5. job'[t].now = now
  BY <1>1
<1>6. Labelled(job[t].now.masters, job[t].now.mappings)'
  BY <1>2, <1>5 DEF Labelled, KeyOf
<1>7. ParentsSeen(job[t].now.masters)'
  BY <1>4, <1>5 DEF ParentsSeen
<1>8. QED
  BY <1>6, <1>7

\* Rows that were committed keep their say, also when parents are given anew.
LEMMA SaidStays ==
    ASSUME MastersKept, ParentsKept, MappingsKept, Labelled(masters, mappings), MastersSayWhatRowsSay,
           CommittedNow \subseteq CommittedNow',
           \A c \in CommittedNow : batch'[c] = batch[c] /\ staged'[c] = staged[c],
           NEW b \in CommittedNow, NEW r \in RowsOf[b]
    PROVE  Said(b, r)'
<1> DEFINE id == Identity(b, r)
<1>1. Said(b, r) /\ b \in Batch
  BY AllSaid DEF CommittedNow
<1>2. \A ref, name : BearsName(ref, name) => BearsName(ref, name)'
  BY DEF BearsName, MastersKept
<1>3. id \in DOMAIN masters /\ masters[id].related \subseteq masters'[id].related
  BY <1>1 DEF Said, BearsName, MastersKept
<1>4. mappings'[KeyOf(b, id)] = r.name
  <2>1. id \in Identities
    BY <1>1 DEF Identities
  <2>2. id \notin {m.id : m \in Manual}
    BY <2>1, IdentityAssumption
  <2>3. KeyOf(b, id) \in DOMAIN mappings
    BY <1>1, <1>3, <2>2 DEF Labelled
  <2>4. mappings[KeyOf(b, id)] = r.name
    BY <1>1 DEF Said, KeyOf
  <2>5. QED
    BY <2>3, <2>4 DEF MappingsKept
<1>5. ASSUME TypeOf[b] = "CUSTOMER"
      PROVE  \E refs \in masters'[id].related :
                BearsName(refs[1], r.channel)' /\ BearsName(refs[2], r.salesrep)'
  <2>1. PICK refs \in masters[id].related : BearsName(refs[1], r.channel) /\ BearsName(refs[2], r.salesrep)
    BY <1>1, <1>5 DEF Said
  <2>2. QED
    BY <1>2, <1>3, <2>1
<1>6. ASSUME TypeOf[b] = "CUSTOMER", NamesParent(b, r)
      PROVE  Credible(id)'
  <2>1. Credible(id)
    BY <1>1, <1>6 DEF Said
  <2>2. QED
    BY <1>3, <2>1, CredibleStays
<1>7. TypeOf[b] = "SKU" => <<ProductId(r)>> \in masters'[id].related
  BY <1>1, <1>3 DEF Said
<1>8. NamesParent(b, r)' <=> NamesParent(b, r)
  BY DEF NamesParent, InBatch, ParentRows
<1>9. BearsName(id, r.name)'
  BY <1>1, <1>2 DEF Said
<1>10. QED
  BY <1>4, <1>5, <1>6, <1>7, <1>8, <1>9 DEF Said, KeyOf, Identity, ProductId

\* A commit keeps what was committed, and parents or their credit.
LEMMA CommitKeepsParents ==
    ASSUME IInv, SInv, NEW t \in Thread, CommitBatch(t)
    PROVE  /\ ParentsKept /\ CommittedNow \subseteq CommittedNow'
           /\ \A c \in CommittedNow : batch'[c] = batch[c] /\ staged'[c] = staged[c]
<1>1. PICK b, now : b = job[t].batch /\ now = job[t].now
  OBVIOUS
<1>2. Committing(t) /\ masters' = Written(b, now) /\ b \in Batch
  BY <1>1 DEF CommitBatch, Committing, IInv, JobInv
<1>3. ASSUME NEW id \in DOMAIN masters
      PROVE  \/ Credible(id)'
             \/ /\ masters'[id].parent = masters[id].parent
                /\ masters[id].byHand => masters'[id].byHand
  <2>1. CASE GivenParent(b, id, masters'[id].parent)
    <3>1. Labelled(job[t].now.masters, job[t].now.mappings)
      BY <1>2 DEF SInv
    <3>2. ParentSaid(id)'
      BY <1>1, <2>1, <3>1, GivenIsSaid
    <3>3. QED
      BY <3>2 DEF Credible
  <2>2. CASE ~GivenParent(b, id, masters'[id].parent)
    BY <1>2, <2>2, WrittenMasters
  <2>3. QED
    BY <2>1, <2>2
<1>4. /\ \A c \in Batch \ {b} : batch'[c] = batch[c] /\ staged'[c] = staged[c]
      /\ CommittedNow' = CommittedNow \cup {b} /\ b \notin CommittedNow
  BY <1>1, CommitRetains
<1>5. \A c \in CommittedNow : c \in Batch \ {b}
  BY <1>4 DEF CommittedNow
<1>6. QED
  BY <1>3, <1>4, <1>5 DEF ParentsKept

\* The rows a commit commits say what their masters now are.
LEMMA CommitSays ==
    ASSUME IInv, OneSystem, SInv, NEW t \in Thread, CommitBatch(t),
           NEW b, b = job[t].batch, NEW r \in RowsOf[b]
    PROVE  Said(b, r)'
<1>1. PICK now : b = job[t].batch /\ now = job[t].now
  OBVIOUS
<1>2. /\ ~Reused(b, now) /\ ~Unreachable(b, now) /\ ~Unstorable(b, now) /\ masters' = Written(b, now)
      /\ b \in Batch /\ StillThere(now) /\ Labelled(now.masters, now.mappings)
      /\ batch[b].status = "CONFIRMED" /\ BatchInv(b) /\ Committing(t)
  BY <1>1 DEF CommitBatch, Committing, IInv, JobInv, SInv
<1>3. MastersKept
  BY CommitKeeps
<1>4. FrozenRow(staged[b][r.no], b, r) /\ r.no \in DOMAIN staged[b] /\ r \in RowsOf[b]
  BY <1>1, <1>2, CommitRetains DEF BatchInv, RowsSay, Numbers
<1>5. PICK e \in Entries(b) :
          /\ e.id = Identity(b, r) /\ e.label = r.name
          /\ TypeOf[b] = "CUSTOMER" =>
                e.refs = <<Reached(b, staged[b][r.no].channel), Reached(b, staged[b][r.no].salesrep)>>
          /\ TypeOf[b] = "SKU" => e.refs = <<ProductId(r)>>
  BY <1>2, <1>4, EntryOfRow
<1> DEFINE id == Identity(b, r)
<1>6. /\ id \in DOMAIN masters' /\ r.name \in masters'[id].names
      /\ e.refs # <<>> => e.refs \in masters'[id].related
  BY <1>2, <1>5, EntriesSay
<1>7. /\ ParentsKept /\ CommittedNow \subseteq CommittedNow'
      /\ \A c \in CommittedNow : batch'[c] = batch[c] /\ staged'[c] = staged[c]
  BY CommitKeepsParents
<1>8. mappings'[KeyOf(b, id)] = r.name
  BY <1>5, EntryMapped
<1>9. ASSUME NEW ref \in {staged[b][r.no].channel, staged[b][r.no].salesrep}, TypeOf[b] = "CUSTOMER",
             NEW type, NEW name, Frozen(ref, type, name)
      PROVE  Reached(b, ref) \in DOMAIN masters' /\ name \in masters'[Reached(b, ref)].names
  <2>1. ref \in ReferencesOf(b)
    BY <1>4, <1>9 DEF ReferencesOf
  <2>2. ref # None /\ (ref.kind = "STAGED" => ref.at[1] \in now.committed)
    BY <1>2, <2>1 DEF Unstorable, Unreachable
  <2>3. ref.kind = "STAGED" => ref.at[1] \in CommittedNow
    BY <1>2, <2>2 DEF StillThere
  <2>4. BearsName(Reached(b, ref), name)
    BY <1>2, <1>9, <2>2, <2>3, ReferenceReached DEF SInv
  <2>5. QED
    BY <1>3, <2>4 DEF BearsName, MastersKept
<1>10. ASSUME TypeOf[b] = "CUSTOMER"
       PROVE  \E refs \in masters'[id].related :
                 BearsName(refs[1], r.channel)' /\ BearsName(refs[2], r.salesrep)'
  <2>1. PICK x, y : x = Reached(b, staged[b][r.no].channel) /\ y = Reached(b, staged[b][r.no].salesrep)
    OBVIOUS
  <2>2. e.refs = <<x, y>>
    BY <1>5, <1>10, <2>1
  <2>3. e.refs \in masters'[id].related /\ e.refs[1] = x /\ e.refs[2] = y
    <3>1. e.refs # <<>>
      BY <2>2
    <3>2. QED
      BY <1>6, <2>2, <3>1
  <2>4. /\ x \in DOMAIN masters' /\ r.channel \in masters'[x].names
        /\ y \in DOMAIN masters' /\ r.salesrep \in masters'[y].names
    <3>1. /\ Frozen(staged[b][r.no].channel, "CHANNEL", r.channel)
          /\ Frozen(staged[b][r.no].salesrep, "SALESREP", r.salesrep)
      BY <1>4, <1>10 DEF FrozenRow
    <3>2. QED
      BY <1>9, <1>10, <2>1, <3>1
  <2>5. QED
    BY <2>3, <2>4 DEF BearsName
<1>11. ASSUME TypeOf[b] = "CUSTOMER", NamesParent(b, r)
       PROVE  Credible(id)'
  <2>1. ParentId(b, r) # None
    <3>1. CASE Mapped(b, r) # {}
      BY <1>2, <1>4, <3>1 DEF ParentId, Unreachable
    <3>2. CASE Mapped(b, r) = {}
      <4>1. PICK q \in RowsOf[b] : staged[b][r.no].parent = [kind |-> "STAGED", at |-> <<b, q.no>>]
        BY <1>4, <1>11 DEF FrozenRow, FrozenParent, StagedRow
      <4>2. staged[b][r.no].parent \in [kind : {"STAGED"}, at : {b} \X {s.no : s \in RowsOf[b]}]
        BY <4>1
      <4>3. staged[b][r.no].parent # None
        BY <1>2, <4>2, IdentityAssumption
      <4>4. ParentId(b, r) = Identity(b, q)
        BY <1>2, <3>2, <4>1, <4>3, RowOfNumber DEF ParentId, Reached
      <4>5. Identity(b, q) # None
        BY <1>2, IdentityAssumption DEF Identities
      <4>6. QED
        BY <4>4, <4>5
    <3>3. QED
      BY <3>1, <3>2
  <2>2. GivenParent(b, id, ParentId(b, r))
    BY <1>4, <1>11, <2>1 DEF GivenParent
  <2>3. CASE GivenParent(b, id, masters'[id].parent)
    <3>1. ParentSaid(id)'
      BY <1>1, <1>2, <2>3, GivenIsSaid
    <3>2. QED
      BY <3>1 DEF Credible
  <2>4. CASE ~GivenParent(b, id, masters'[id].parent)
    <3>1. /\ ParentId(b, r) = Seen(now, id)
          /\ id \in DOMAIN masters => masters'[id].parent = masters[id].parent
      BY <1>2, <1>6, <2>2, <2>4, WrittenMasters
    <3>2. id \in DOMAIN now.masters /\ now.masters[id].parent = ParentId(b, r)
      BY <2>1, <3>1 DEF Seen
    <3>3. id \in DOMAIN masters
      BY <1>2, <3>2 DEF StillThere
    <3>4. masters[id].parent # now.masters[id].parent
      BY <2>2, <2>4, <3>1, <3>2, <3>3
    <3>5. Credible(id)
      BY <1>1, <1>2, <3>2, <3>4 DEF SInv, ParentsSeen
    <3>6. QED
      BY <1>3, <1>7, <3>3, <3>5, CredibleStays
  <2>5. QED
    BY <2>3, <2>4
<1>12. ASSUME TypeOf[b] = "SKU"
       PROVE  <<ProductId(r)>> \in masters'[id].related
  <2>1. PICK x : x = ProductId(r)
    OBVIOUS
  <2>2. e.refs = <<x>>
    BY <1>5, <1>12, <2>1
  <2>3. e.refs # <<>>
    BY <2>2
  <2>4. QED
    BY <1>6, <2>1, <2>2, <2>3
<1>13. NamesParent(b, r)' <=> NamesParent(b, r)
  BY DEF NamesParent, InBatch, ParentRows
<1>14. QED
  BY <1>6, <1>8, <1>10, <1>11, <1>12, <1>13 DEF Said, BearsName, KeyOf, Identity, ProductId

LEMMA CommitSInv ==
    ASSUME IInv, OneSystem, SInv, NEW t \in Thread, CommitBatch(t)
    PROVE  SInv'
<1>1. PICK b, now : b = job[t].batch /\ now = job[t].now
  OBVIOUS
<1>2. Committing(t) /\ job' = [job EXCEPT ![t] = NoJob] /\ masters' = Written(b, now)
      /\ DOMAIN job = Thread /\ b \in Batch
  BY <1>1 DEF CommitBatch, Committing, IInv, JobInv
<1>3. Labelled(masters, mappings)'
  BY <1>2, CommitLabels DEF SInv
<1>4. MastersKept /\ MappingsKept
  BY CommitKeeps, WrittenMappings
<1>5. /\ ParentsKept /\ CommittedNow \subseteq CommittedNow'
      /\ \A c \in CommittedNow : batch'[c] = batch[c] /\ staged'[c] = staged[c]
  BY CommitKeepsParents
<1>6. ASSUME NEW u \in Thread, Committing(u)'
      PROVE  /\ Labelled(job[u].now.masters, job[u].now.mappings)'
             /\ ParentsSeen(job[u].now.masters)'
  <2>1. job'[u] = job[u] /\ Committing(u)
    BY <1>2, <1>6 DEF Committing
  <2>2. QED
    BY <1>4, <1>5, <2>1, SeenKept
<1>7. CommittedNow' = CommittedNow \cup {b}
  BY <1>1, CommitRetains
<1>8. ASSUME NEW c \in CommittedNow', NEW r \in RowsOf[c]
      PROVE  Said(c, r)'
  <2>1. CASE c = b
    BY <1>1, <2>1, CommitSays
  <2>2. CASE c \in CommittedNow
    BY <1>4, <1>5, <2>2, SaidStays DEF SInv
  <2>3. QED
    BY <1>7, <2>1, <2>2
<1>9. MastersSayWhatRowsSay'
  BY <1>8 DEF MastersSayWhatRowsSay, Said, NamesParent, Credible
<1>10. QED
  BY <1>3, <1>6, <1>9 DEF SInv

\* No other step touches a committed batch, and parents change by hand only.
LEMMA OtherSteps ==
    ASSUME IInv, [Next]_vars, \A t \in Thread : ~CommitBatch(t)
    PROVE  /\ MastersKept /\ HandMarks
           /\ CommittedNow' = CommittedNow /\ mappings' = mappings
           /\ DOMAIN masters' \ {m.id : m \in Manual} \subseteq DOMAIN masters
<1>1. CASE HandStep
  <2>1. MastersEdited
    BY <1>1, HandKeeps
  <2>2. CommittedNow' = CommittedNow /\ mappings' = mappings
    BY <1>1 DEF HandStep, CreateMaster, SetActive, UpdateMaster, ReassignSku, CommittedNow
  <2>3. QED
    BY <2>1, <2>2 DEF MastersEdited
<1>2. CASE UNCHANGED <<masters, mappings>> /\ ~HandStep
  <2>1. MastersKept /\ HandMarks
    BY <1>2 DEF MastersKept, HandMarks
  <2>2. CASE \E b \in Batch : \/ StageFile(b) \/ Confirm(b) \/ Cancel(b)
                              \/ \E new \in SUBSET Decidable(b) : AppendDecisions(b, new)
    <3>1. PICK b \in Batch : \/ StageFile(b) \/ Confirm(b) \/ Cancel(b)
                             \/ \E new \in SUBSET Decidable(b) : AppendDecisions(b, new)
      BY <2>2
    <3>2. DOMAIN batch = Batch /\ BatchInv(b)
      BY DEF IInv
    <3>3. /\ \A c \in Batch \ {b} : batch'[c] = batch[c]
          /\ batch[b].status # "COMMITTED" /\ batch'[b].status # "COMMITTED"
      <4>1. CASE StageFile(b)
        BY <3>2, <4>1 DEF StageFile, BatchInv, BatchFields
      <4>2. CASE Confirm(b)
        BY <3>2, <4>2 DEF Confirm, BatchInv, BatchFields, Mutable
      <4>3. CASE Cancel(b)
        BY <3>2, <4>3 DEF Cancel, BatchInv, BatchFields, Mutable
      <4>4. CASE \E new \in SUBSET Decidable(b) : AppendDecisions(b, new)
        <5>1. PICK new \in SUBSET Decidable(b) : AppendDecisions(b, new)
          BY <4>4
        <5> DEFINE decisions == {d \in batch[b].decisions : d.subject \notin Decided(new)} \cup new
                   after == [status |-> IF Ready(b, decisions) THEN "READY_TO_CONFIRM" ELSE "RESOLVING",
                             version |-> batch[b].version + 1, confirmed |-> None,
                             decisions |-> decisions]
        <5>2. batch[b].status \in Mutable /\ batch' = [batch EXCEPT ![b] = after]
          BY <5>1 DEF AppendDecisions
        <5>3. after.status # "COMMITTED"
          OBVIOUS
        <5> HIDE DEF after
        <5>4. QED
          BY <3>2, <5>2, <5>3 DEF Mutable
      <4>5. QED
        BY <3>1, <4>1, <4>2, <4>3, <4>4
    <3>4. CommittedNow' = CommittedNow
      BY <3>3 DEF CommittedNow
    <3>5. QED
      BY <1>2, <2>1, <3>4
  <2>3. CASE \E t \in Thread : RecordFailure(t)
    <3>1. PICK t \in Thread : RecordFailure(t)
      BY <2>3
    <3>2. PICK b : b = job[t].batch
      OBVIOUS
    <3>3. b \in Batch /\ DOMAIN batch = Batch /\ BatchInv(b)
      BY <3>1, <3>2 DEF RecordFailure, IInv, JobInv
    <3>4. \/ batch' = batch
          \/ batch' = [batch EXCEPT ![b].status = "FAILED"] /\ batch[b].status = "CONFIRMED"
      BY <3>1, <3>2 DEF RecordFailure, StillConfirmed
    <3>5. CommittedNow' = CommittedNow
      BY <3>3, <3>4 DEF CommittedNow, BatchInv, BatchFields
    <3>6. QED
      BY <1>2, <2>1, <3>5
  <2>4. CASE UNCHANGED batch
    BY <1>2, <2>1, <2>4 DEF CommittedNow
  <2>5. QED
    BY <1>1, <1>2, <2>2, <2>3, <2>4 DEF Next, HandStep, vars, BeginCommit, RefuseCommit, CommitFails,
                                       LoseJob
<1>3. QED
  BY <1>1, <1>2 DEF Next, HandStep, vars, StageFile, Confirm, Cancel, AppendDecisions, BeginCommit,
                    RefuseCommit, CommitFails, RecordFailure, LoseJob

LEMMA NextSInv ==
    ASSUME IInv, OneSystem, SInv, [Next]_vars
    PROVE  SInv'
<1>1. CASE \E t \in Thread : CommitBatch(t)
  BY <1>1, CommitSInv
<1>2. CASE \A t \in Thread : ~CommitBatch(t)
  <2>1. /\ MastersKept /\ HandMarks
        /\ CommittedNow' = CommittedNow /\ mappings' = mappings
        /\ DOMAIN masters' \ {m.id : m \in Manual} \subseteq DOMAIN masters
    BY <1>2, OtherSteps
  <2>2. MappingsKept /\ CommittedNow \subseteq CommittedNow'
    BY <2>1 DEF MappingsKept
  <2>3. ParentsKept
    <3>1. \A id : masters'[id].byHand => Credible(id)'
      BY DEF Credible
    <3>2. QED
      BY <2>1, <3>1 DEF HandMarks, ParentsKept
  <2>4. \A c \in CommittedNow : batch'[c] = batch[c] /\ staged'[c] = staged[c]
    BY EndedStep DEF CommittedNow, Final
  <2>5. Labelled(masters, mappings)'
    <3>1. Labelled(masters', mappings')
      BY <2>1 DEF SInv, Labelled, MastersKept
    <3>2. QED
      BY <3>1 DEF Labelled, KeyOf
  <2>6. ASSUME NEW t \in Thread, Committing(t)'
        PROVE  /\ Labelled(job[t].now.masters, job[t].now.mappings)'
               /\ ParentsSeen(job[t].now.masters)'
    <3>1. \/ Committing(t) /\ job'[t] = job[t]
          \/ /\ job'[t].now.masters = masters /\ job'[t].now.mappings = mappings
             /\ masters' = masters
      <4>1. DOMAIN job = Thread /\ \A u \in Thread : JobInv(u)
        BY DEF IInv
      <4>2. CASE \E u \in Thread, b \in Batch : BeginCommit(u, b)
        BY <2>6, <4>1, <4>2 DEF BeginCommit, Committing
      <4>3. CASE \E u \in Thread : RefuseCommit(u) \/ CommitFails(u) \/ RecordFailure(u) \/ LoseJob(u)
        BY <2>6, <4>1, <4>3 DEF RefuseCommit, CommitFails, RecordFailure, LoseJob, Committing
      <4>4. CASE job' = job
        BY <2>6, <4>4 DEF Committing
      <4>5. QED
        BY <1>2, <4>2, <4>3, <4>4 DEF Next, vars, StageFile, Confirm, Cancel, AppendDecisions,
                                      CreateMaster, SetActive, UpdateMaster, ReassignSku
    <3>2. CASE Committing(t) /\ job'[t] = job[t]
      BY <2>1, <2>2, <2>3, <2>4, <3>2, SeenKept
    <3>3. CASE /\ job'[t].now.masters = masters /\ job'[t].now.mappings = mappings
               /\ masters' = masters
      <4>1. Labelled(job'[t].now.masters, job'[t].now.mappings)
        BY <3>3 DEF SInv
      <4>2. Labelled(job[t].now.masters, job[t].now.mappings)'
        BY <4>1 DEF Labelled, KeyOf
      <4>3. ParentsSeen(job[t].now.masters)'
        BY <3>3 DEF ParentsSeen
      <4>4. QED
        BY <4>2, <4>3
    <3>4. QED
      BY <3>1, <3>2, <3>3
  <2>7. \A c \in CommittedNow' : \A r \in RowsOf[c] : Said(c, r)'
    BY <2>1, <2>2, <2>3, <2>4, SaidStays DEF SInv
  <2>8. MastersSayWhatRowsSay'
    BY <2>7 DEF MastersSayWhatRowsSay, Said, NamesParent, Credible
  <2>9. QED
    BY <2>5, <2>6, <2>8 DEF SInv
<1>3. QED
  BY <1>1, <1>2

LEMMA InitSInv == Init => SInv
<1> SUFFICES ASSUME Init
             PROVE  SInv
  OBVIOUS
<1>1. DOMAIN masters = {} /\ \A t \in Thread : job[t] = NoJob
  BY DEF Init
<1>2. \A b \in Batch : batch[b].status # "COMMITTED"
  BY DEF Init
<1>3. QED
  BY <1>1, <1>2 DEF SInv, Labelled, Committing, MastersSayWhatRowsSay, CommittedNow

\* With one source system, through any commits, failures and edits by hand:
\* every row that was committed has its master and its mapping under the name
\* it gave, and that master has, or had until somebody changed it by hand, that
\* name and the references the row gave; its parent is one that a row of its
\* identity gave, or one that was set by hand.
THEOREM MastersAreRows == OneSystem => (Spec => []MastersSayWhatRowsSay)
<1> SUFFICES ASSUME OneSystem
             PROVE  Spec => []MastersSayWhatRowsSay
  OBVIOUS
<1>1. IInv /\ SInv /\ [Next]_vars => SInv'
  BY NextSInv
<1>2. SInv => MastersSayWhatRowsSay
  BY DEF SInv
<1>3. QED
  BY <1>1, <1>2, InitSInv, BootstrapInvariance, PTL DEF Spec
=============================================================================

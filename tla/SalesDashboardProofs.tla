------------------------ MODULE SalesDashboardProofs ------------------------
(***************************************************************************)
(* Proofs about SalesDashboard for any readers, and any batches, months,   *)
(* publishers and thresholds.                                              *)
(***************************************************************************)
EXTENDS SalesDashboard, SalesPublishProofs, FiniteSetTheorems

-----------------------------------------------------------------------------
(* Facts of one batch *)

\* The function MapThenSumSet applies to S.
SumOver(f, S) ==
    CHOOSE g : g = [s \in SUBSET S |->
        IF s = {} THEN 0 ELSE f[CHOOSE y \in s : TRUE] + g[s \ {CHOOSE y \in s : TRUE}]]

LEMMA SumOfOne ==
    ASSUME NEW f, NEW x, f[x] \in Nat
    PROVE  SumOver(f, {x})[{x}] = f[x]
<1> DEFINE Def(g) == [s \in SUBSET {x} |->
                IF s = {} THEN 0 ELSE f[CHOOSE y \in s : TRUE] + g[s \ {CHOOSE y \in s : TRUE}]]
           sums == [s \in SUBSET {x} |-> IF s = {} THEN 0 ELSE f[x]]
           iter == CHOOSE g : g = Def(g)
<1>1. SUBSET {x} = {{}, {x}} /\ {} # {x}
  OBVIOUS
<1>2. (CHOOSE y \in {x} : TRUE) = x
  OBVIOUS
<1>3. sums = Def(sums)
  <2>1. \A s \in SUBSET {x} : sums[s] = Def(sums)[s]
    BY <1>1, <1>2
  <2>2. QED
    BY <2>1
<1>4. iter = Def(iter)
  <2> HIDE DEF Def, sums
  <2>1. QED
    BY <1>3
<1>5. iter[{}] = 0
  BY <1>1, <1>4
<1>6. iter[{x}] = f[x] + iter[{}]
  <2>1. iter[{x}] = f[CHOOSE y \in {x} : TRUE] + iter[{x} \ {CHOOSE y \in {x} : TRUE}]
    <3>1. iter[{x}] = Def(iter)[{x}]
      BY <1>4
    <3> HIDE DEF iter
    <3>2. QED
      BY <1>1, <3>1
  <2>2. {x} \ {x} = {}
    OBVIOUS
  <2>3. QED
    BY <1>2, <2>1, <2>2
<1>7. QED
  BY <1>5, <1>6 DEF SumOver

\* What FactsMatch and the integrity check find when a month holds one batch.
LEMMA FactsOfOne ==
    ASSUME NEW d, NEW c \in Batch, d.facts[MonthOf[c]] = {c}
    PROVE  FactsIntact(d, c)
<1> DEFINE m == MonthOf[c]
<1>1. ReadyRows[c] \in Nat /\ ReadyQty[c] \in Nat
  BY BatchAssumption
<1>2. FactRows(d, m) = SumOver(ReadyRows, d.facts[m])[d.facts[m]]
  BY DEF FactRows, SumOver, MapThenSumSet, MapThenFoldSet
<1>3. FactQty(d, m) = SumOver(ReadyQty, d.facts[m])[d.facts[m]]
  BY DEF FactQty, SumOver, MapThenSumSet, MapThenFoldSet
<1>4. FactRows(d, m) = ReadyRows[c] /\ FactQty(d, m) = ReadyQty[c]
  BY <1>1, <1>2, <1>3, SumOfOne
<1>5. QED
  BY <1>4 DEF FactsIntact, FactsMatch

-----------------------------------------------------------------------------
(* What a snapshot shows, and what stays true after it was taken *)

\* A snapshot whose months have one current batch each, and its facts.
Sound(d) ==
    /\ d \in DB
    /\ \A m \in Month : d.facts[m] = Currents(d, m)
    /\ \A m \in Month : \A c1, c2 \in Currents(d, m) : c1 = c2

\* What was published or replaced in d1 is so in d2.
Before(d1, d2) ==
    \A c \in Batch :
        /\ d1.status[c] = "PUBLISHED" => d2.status[c] = "PUBLISHED"
        /\ d1.replacedBy[c] # NoBatch => d2.replacedBy[c] # NoBatch

LEMMA NotMoreThanOne ==
    ASSUME NEW S, \A x, y \in S : x = y
    PROVE  ~(Cardinality(S) > 1)
<1>1. CASE S = {}
  BY <1>1, FS_EmptySet
<1>2. ASSUME NEW x \in S PROVE ~(Cardinality(S) > 1)
  <2>1. S = {x}
    OBVIOUS
  <2>2. Cardinality(S) = 1
    BY <2>1, FS_Singleton
  <2>3. QED
    BY <2>2
<1>3. QED
  BY <1>1, <1>2

LEMMA CommittedIsSound ==
    ASSUME IInv
    PROVE  Sound(db)
BY DEF IInv, TypeOK, AtMostOneCurrent, FactsMatchCurrent, Sound

LEMMA TablesGrow ==
    ASSUME IInv, [Next]_vars
    PROVE  Before(db, db')
<1>1. db \in DB /\ NoBatch \notin Batch
  BY BatchAssumption DEF IInv, TypeOK
<1>2. CASE db' = db
  BY <1>2 DEF Before
<1>3. ASSUME NEW b \in Batch, Upload(b) PROVE Before(db, db')
  BY <1>1, <1>3 DEF Upload, DB, Before
<1>4. ASSUME NEW p \in Publisher, Commit(p) PROVE Before(db, db')
  <2> DEFINE b == batch[p]
             old == CurrentBatch(view[p], b)
  <2>1. /\ b \in Batch /\ db.status[b] = "PREVIEW_READY"
        /\ old \in Batch \cup {NoBatch}
        /\ db'.status = [db.status EXCEPT ![b] = "PUBLISHED"]
        /\ db'.replacedBy = IF old = NoBatch THEN db.replacedBy
                            ELSE [db.replacedBy EXCEPT ![old] = b]
    BY <1>4, CommitEffect DEF IInv
  <2>2. QED
    BY <1>1, <2>1 DEF DB, Before
<1>5. QED
  BY <1>2, <1>3, <1>4, DbChanges

-----------------------------------------------------------------------------
(* The inductive invariant of the readers *)

InSession == {"listing", "requested", "validated", "checked"}

\* What a session reads was committed as it is, and the present builds on it.
ViewInv(r) ==
    /\ rview[r] # NoView <=> rpc[r] \in InSession
    /\ rpc[r] \in InSession => Sound(rview[r]) /\ Before(rview[r], db)

\* The batches listed, and the one asked for, were published when they were read.
BatchInv(r) ==
    /\ rpc[r] = "listing" => listed[r] = UNION {Currents(rview[r], m) : m \in Month}
    /\ \A c \in listed[r] : db.status[c] = "PUBLISHED"
    /\ rpc[r] \in {"requested", "validated", "checked"} =>
            rbatch[r] \in Batch /\ rview[r].status[rbatch[r]] = "PUBLISHED"
    /\ rpc[r] \in {"validated", "checked"} =>
            Currents(rview[r], MonthOf[rbatch[r]]) = {rbatch[r]}

OutcomeInv(r) ==
    /\ outcome[r] \notin {"AMBIGUOUS", "INTEGRITY_ERROR"}
    /\ rpc[r] = "answered" /\ outcome[r] = "OK" =>
            total[r] = ReadyQty[rbatch[r]] /\ db.status[rbatch[r]] = "PUBLISHED"
    /\ outcome[r] = "SNAPSHOT_CHANGED" =>
            rbatch[r] \in Batch /\ db.replacedBy[rbatch[r]] # NoBatch
    /\ rpc[r] = "answered" => rbatch[r] \in Batch

ReaderInv(r) == ViewInv(r) /\ BatchInv(r) /\ OutcomeInv(r)

DInv == IInv /\ ReaderTypeOK /\ \A r \in Reader : ReaderInv(r)

\* Publishers do not disturb a reader.
LEMMA PublisherStep ==
    ASSUME DInv, [Next]_vars, UNCHANGED readerVars
    PROVE  DInv'
<1>1. IInv'
  BY NextInvariant DEF DInv
<1>2. Before(db, db')
  BY TablesGrow DEF DInv
<1>3. ReaderTypeOK'
  BY DEF DInv, ReaderTypeOK, readerVars
<1>4. ASSUME NEW r \in Reader PROVE ReaderInv(r)'
  <2>1. ReaderInv(r) /\ listed[r] \in SUBSET Batch
    BY DEF DInv, ReaderTypeOK
  <2>2. ViewInv(r)'
    BY <1>2, <2>1 DEF ReaderInv, ViewInv, Before, readerVars
  <2>3. BatchInv(r)'
    BY <1>2, <2>1 DEF ReaderInv, BatchInv, Before, readerVars
  <2>4. OutcomeInv(r)'
    BY <1>2, <2>1 DEF ReaderInv, OutcomeInv, Before, readerVars
  <2>5. QED
    BY <2>2, <2>3, <2>4 DEF ReaderInv
<1>5. QED
  BY <1>1, <1>3, <1>4 DEF DInv

\* A reader changes nothing that is not its own.
LEMMA ReadTypes ==
    ASSUME DInv, NEW r \in Reader, Read(r)
    PROVE  ReaderTypeOK'
<1> USE DEF ReaderTypeOK, ReaderPC, Outcome, Answer, Step
<1>1. ReaderTypeOK /\ db \in DB /\ NoView \notin DB
  BY ViewAssumption DEF DInv, IInv, TypeOK
<1>2. Visible(r) \in DB
  BY <1>1 DEF Visible
<1>3. CASE ListMonths(r)
  <2>1. UNION {Currents(Visible(r), m) : m \in Month} \in SUBSET Batch
    BY DEF Currents
  <2>2. QED
    BY <1>1, <1>2, <1>3, <2>1 DEF ListMonths
<1>4. CASE CheckMonths(r)
  BY <1>1, <1>4 DEF CheckMonths
<1>5. CASE RequestSummary(r)
  BY <1>1, <1>2, <1>5 DEF RequestSummary
<1>6. CASE ValidateBatch(r)
  BY <1>1, <1>6 DEF ValidateBatch
<1>7. CASE CheckFacts(r)
  BY <1>1, <1>7 DEF CheckFacts
<1>8. CASE Summarize(r)
  <2>1. rbatch[r] \in Batch
    BY <1>1, <1>8 DEF Summarize, DInv, ReaderInv, BatchInv
  <2>2. ReadyQty[rbatch[r]] \in Nat
    BY <2>1, BatchAssumption
  <2>3. QED
    BY <1>1, <1>8, <2>2 DEF Summarize
<1>9. CASE Leave(r)
  BY <1>1, <1>9 DEF Leave
<1>10. QED
  BY <1>3, <1>4, <1>5, <1>6, <1>7, <1>8, <1>9 DEF Read

LEMMA OtherReaders ==
    ASSUME DInv, NEW r \in Reader, Read(r), NEW q \in Reader \ {r}, ReaderInv(q)
    PROVE  ReaderInv(q)'
<1>1. /\ db' = db /\ rpc'[q] = rpc[q] /\ rview'[q] = rview[q] /\ listed'[q] = listed[q]
      /\ rbatch'[q] = rbatch[q] /\ outcome'[q] = outcome[q] /\ total'[q] = total[q]
  BY DEF DInv, ReaderTypeOK, Read, ListMonths, CheckMonths, RequestSummary, ValidateBatch,
         CheckFacts, Summarize, Leave, Answer, Step, vars
<1>2. QED
  BY <1>1 DEF ReaderInv, ViewInv, BatchInv, OutcomeInv

\* The batch of a validated month is all its facts.
LEMMA OneBatchIntact ==
    ASSUME NEW d, Sound(d), NEW c \in Batch, Currents(d, MonthOf[c]) = {c}
    PROVE  d.facts[MonthOf[c]] = {c} /\ FactsIntact(d, c)
<1>1. d.facts[MonthOf[c]] = {c}
  BY BatchAssumption DEF Sound
<1>2. QED
  BY <1>1, FactsOfOne

\* A reader's own step.
LEMMA OwnStep ==
    ASSUME DInv, NEW r \in Reader, Read(r), ReaderTypeOK'
    PROVE  ReaderInv(r)'
<1> USE DEF Answer, Step, InSession
<1> DEFINE d == rview[r]
<1>1. /\ ReaderTypeOK /\ ViewInv(r) /\ BatchInv(r) /\ OutcomeInv(r)
      /\ db \in DB /\ NoView \notin DB /\ Sound(db)
  BY ViewAssumption, CommittedIsSound DEF DInv, IInv, TypeOK, ReaderInv
<1>2. Before(db, db)
  BY DEF Before
<1>3. rpc[r] \in InSession => Visible(r) = d
  BY <1>1 DEF ViewInv, Visible
<1>4. rpc[r] \notin InSession => Visible(r) = db
  BY <1>1 DEF ViewInv, Visible
<1>5. db' = db
  BY DEF Read, ListMonths, CheckMonths, RequestSummary, ValidateBatch,
         CheckFacts, Summarize, Leave, vars
<1> USE <1>1, <1>2, <1>3, <1>4, <1>5 DEF ReaderTypeOK
<1>6. CASE ListMonths(r)
  <2>1. /\ rpc'[r] = "listing" /\ rview'[r] = db /\ outcome'[r] = "NONE"
        /\ listed'[r] = UNION {Currents(db, m) : m \in Month}
    BY <1>6 DEF ListMonths
  <2>2. \A c \in listed'[r] : db.status[c] = "PUBLISHED"
    BY <2>1 DEF Currents
  <2>3. ViewInv(r)'
    BY <2>1 DEF ViewInv
  <2>4. BatchInv(r)'
    BY <2>1, <2>2 DEF BatchInv
  <2>5. OutcomeInv(r)'
    BY <2>1 DEF OutcomeInv
  <2>6. QED
    BY <2>3, <2>4, <2>5 DEF ReaderInv
<1>7. CASE CheckMonths(r)
  <2>1. rpc[r] = "listing" /\ Visible(r) = d /\ Sound(d)
    BY <1>7 DEF CheckMonths, ViewInv
  <2>2. listed[r] = UNION {Currents(d, m) : m \in Month}
    BY <2>1 DEF BatchInv
  <2>3. ASSUME NEW c \in listed[r]
        PROVE  c \in Batch /\ MonthOf[c] \in Month /\ c \in Currents(d, MonthOf[c])
    BY <2>2, BatchAssumption DEF Currents
  <2>4. \A c1, c2 \in listed[r] : MonthOf[c1] = MonthOf[c2] => c1 = c2
    BY <2>1, <2>3 DEF Sound
  <2>5. ASSUME NEW c \in listed[r] PROVE FactsIntact(d, c)
    <3>1. Currents(d, MonthOf[c]) = {c}
      BY <2>1, <2>3 DEF Sound
    <3>2. QED
      BY <2>1, <2>3, <3>1, OneBatchIntact
  <2>6. outcome' = [outcome EXCEPT ![r] = "OK"]
    BY <1>7, <2>1, <2>4, <2>5 DEF CheckMonths
  <2>7. /\ rpc'[r] = "chosen" /\ rview'[r] = NoView /\ outcome'[r] = "OK"
        /\ listed' = listed
    BY <1>7, <2>6 DEF CheckMonths
  <2>8. QED
    BY <2>7 DEF ReaderInv, ViewInv, BatchInv, OutcomeInv
<1>8. CASE RequestSummary(r)
  <2>1. /\ rpc'[r] = "requested" /\ rview'[r] = db /\ outcome'[r] = "NONE"
        /\ rbatch'[r] \in listed[r] /\ listed' = listed
    BY <1>8 DEF RequestSummary
  <2>2. rbatch'[r] \in Batch /\ db.status[rbatch'[r]] = "PUBLISHED"
    BY <2>1 DEF BatchInv
  <2>3. ViewInv(r)'
    BY <2>1 DEF ViewInv
  <2>4. BatchInv(r)'
    BY <2>1, <2>2 DEF BatchInv
  <2>5. OutcomeInv(r)'
    BY <2>1 DEF OutcomeInv
  <2>6. QED
    BY <2>3, <2>4, <2>5 DEF ReaderInv
<1>9. CASE ValidateBatch(r)
  <2> DEFINE c == rbatch[r]
             currents == Currents(d, MonthOf[c])
  <2>1. /\ rpc[r] = "requested" /\ Visible(r) = d /\ Sound(d) /\ Before(d, db)
        /\ c \in Batch /\ d.status[c] = "PUBLISHED" /\ MonthOf[c] \in Month
    BY <1>9, BatchAssumption DEF ValidateBatch, ViewInv, BatchInv
  <2>2. CASE currents = {c}
    <3>1. /\ rpc'[r] = "validated"
          /\ UNCHANGED <<rview, listed, rbatch, outcome, total>>
      BY <1>9, <2>1, <2>2 DEF ValidateBatch
    <3>2. QED
      BY <2>1, <2>2, <3>1 DEF ReaderInv, ViewInv, BatchInv, OutcomeInv
  <2>3. CASE currents # {c}
    <3>1. c \notin currents
      BY <2>1, <2>3 DEF Sound
    <3>2. db.replacedBy[c] # NoBatch
      BY <2>1, <3>1 DEF Currents, Before
    <3>3. \A c1, c2 \in currents : c1 = c2
      BY <2>1 DEF Sound
    <3>4. ~(Cardinality(currents) > 1)
      BY <3>3, NotMoreThanOne
    <3>5. /\ rpc'[r] = "answered" /\ rview'[r] = NoView /\ outcome'[r] = "SNAPSHOT_CHANGED"
          /\ UNCHANGED <<listed, rbatch, total>>
      BY <1>9, <2>1, <2>3, <3>4 DEF ValidateBatch
    <3>6. QED
      BY <2>1, <3>2, <3>5 DEF ReaderInv, ViewInv, BatchInv, OutcomeInv
  <2>4. QED
    BY <2>2, <2>3
<1>10. CASE CheckFacts(r)
  <2>1. /\ rpc[r] = "validated" /\ Visible(r) = d /\ Sound(d)
        /\ rbatch[r] \in Batch /\ Currents(d, MonthOf[rbatch[r]]) = {rbatch[r]}
    BY <1>10 DEF CheckFacts, ViewInv, BatchInv
  <2>2. FactsIntact(Visible(r), rbatch[r])
    BY <2>1, OneBatchIntact
  <2>3. rpc'[r] = "checked" /\ rview'[r] = rview[r] /\ outcome'[r] = outcome[r]
        /\ UNCHANGED <<listed, rbatch, total>>
    BY <1>10, <2>2 DEF CheckFacts
  <2>4. QED
    BY <2>1, <2>3 DEF ReaderInv, ViewInv, BatchInv, OutcomeInv
<1>11. CASE Summarize(r)
  <2>1. /\ rpc[r] = "checked" /\ Visible(r) = d /\ Sound(d) /\ Before(d, db)
        /\ rbatch[r] \in Batch /\ d.status[rbatch[r]] = "PUBLISHED"
        /\ Currents(d, MonthOf[rbatch[r]]) = {rbatch[r]}
    BY <1>11 DEF Summarize, ViewInv, BatchInv
  <2>2. rbatch[r] \in d.facts[MonthOf[rbatch[r]]] /\ db.status[rbatch[r]] = "PUBLISHED"
    <3>1. d.facts[MonthOf[rbatch[r]]] = {rbatch[r]}
      BY <2>1, OneBatchIntact
    <3>2. QED
      BY <2>1, <3>1 DEF Before
  <2>3. /\ rpc'[r] = "answered" /\ rview'[r] = NoView /\ outcome'[r] = "OK"
        /\ total'[r] = ReadyQty[rbatch[r]] /\ UNCHANGED <<listed, rbatch>>
    BY <1>11, <2>1, <2>2 DEF Summarize
  <2>4. QED
    BY <2>1, <2>2, <2>3 DEF ReaderInv, ViewInv, BatchInv, OutcomeInv
<1>12. CASE Leave(r)
  <2>1. /\ rpc[r] \in {"chosen", "answered"} /\ rpc'[r] = "idle" /\ rview' = rview
        /\ listed'[r] = {} /\ outcome'[r] = "NONE"
    BY <1>12 DEF Leave
  <2>2. QED
    BY <2>1 DEF ReaderInv, ViewInv, BatchInv, OutcomeInv
<1>13. QED
  BY <1>6, <1>7, <1>8, <1>9, <1>10, <1>11, <1>12 DEF Read

LEMMA ReadStep ==
    ASSUME DInv, NEW r \in Reader, Read(r)
    PROVE  DInv'
<1>1. UNCHANGED vars
  BY DEF Read, ListMonths, CheckMonths, RequestSummary, ValidateBatch,
         CheckFacts, Summarize, Leave, Step
<1>2. IInv'
  BY <1>1, NextInvariant DEF DInv
<1>3. ReaderTypeOK'
  BY ReadTypes
<1>4. ASSUME NEW q \in Reader PROVE ReaderInv(q)'
  BY <1>3, OtherReaders, OwnStep DEF DInv
<1>5. QED
  BY <1>2, <1>3, <1>4 DEF DInv

-----------------------------------------------------------------------------
(* What the dashboard promises *)

\* The readers' invariant holds in every reachable state.
THEOREM DashboardInvariance == DashboardSpec => []DInv
<1>1. ReaderInit => DInv
  <2> SUFFICES ASSUME ReaderInit PROVE DInv
    OBVIOUS
  <2>1. IInv
    BY InitInvariant DEF ReaderInit
  <2>2. ReaderTypeOK
    BY DEF ReaderInit, ReaderTypeOK, ReaderPC, Outcome
  <2>3. ASSUME NEW r \in Reader PROVE ReaderInv(r)
    BY DEF ReaderInit, ReaderInv, ViewInv, BatchInv, OutcomeInv, InSession
  <2>4. QED
    BY <2>1, <2>2, <2>3 DEF DInv
<1>2. DInv /\ [DashboardNext]_allVars => DInv'
  <2> SUFFICES ASSUME DInv, [DashboardNext]_allVars
               PROVE  DInv'
    OBVIOUS
  <2>1. CASE Next /\ UNCHANGED readerVars
    BY <2>1, PublisherStep
  <2>2. ASSUME NEW r \in Reader, Read(r) PROVE DInv'
    BY <2>2, ReadStep
  <2>3. CASE UNCHANGED allVars
    <3>1. UNCHANGED vars /\ UNCHANGED readerVars
      BY <2>3 DEF allVars
    <3>2. QED
      BY <3>1, PublisherStep
  <2>4. QED
    BY <2>1, <2>2, <2>3 DEF DashboardNext
<1>3. QED
  BY <1>1, <1>2, PTL DEF DashboardSpec

\* Every variable of a reader stays in its type.
THEOREM ReaderTyping == DashboardSpec => []ReaderTypeOK
<1>1. DInv => ReaderTypeOK
  BY DEF DInv
<1>2. QED
  BY DashboardInvariance, <1>1, PTL

\* No reader meets two current batches of a month, or facts that are not those
\* of its current batch, though it takes no lock.
THEOREM MonthsAreNeverTorn == DashboardSpec => []NoTornMonth
<1>1. DInv => NoTornMonth
  BY DEF DInv, ReaderInv, OutcomeInv, NoTornMonth
<1>2. QED
  BY DashboardInvariance, <1>1, PTL

\* A summary that is answered is the whole of the published batch asked for.
THEOREM SummariesAreWhole == DashboardSpec => []SummaryIsWhole
<1>1. DInv => SummaryIsWhole
  BY DEF DInv, ReaderInv, OutcomeInv, SummaryIsWhole
<1>2. QED
  BY DashboardInvariance, <1>1, PTL

\* SNAPSHOT_CHANGED is answered only when the batch asked for was replaced.
THEOREM ReloadsAreJustified == DashboardSpec => []ReloadIsJustified
<1>1. DInv => ReloadIsJustified
  BY DEF DInv, ReaderInv, OutcomeInv, ReloadIsJustified
<1>2. QED
  BY DashboardInvariance, <1>1, PTL
=============================================================================

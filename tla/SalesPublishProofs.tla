------------------------- MODULE SalesPublishProofs -------------------------
(***************************************************************************)
(* Proofs about SalesPublish for any batches, months, publishers and       *)
(* thresholds.                                                             *)
(***************************************************************************)
EXTENDS SalesPublish, TLAPS

-----------------------------------------------------------------------------
(* The statements and the gate stay inside their types *)

LEMMA CurrentBatchType ==
    ASSUME NEW d, NEW b \in Batch
    PROVE  /\ CurrentBatch(d, b) \in (Currents(d, MonthOf[b]) \ {b}) \cup {NoBatch}
           /\ CurrentBatch(d, b) = NoBatch <=> Currents(d, MonthOf[b]) \ {b} = {}
<1> DEFINE others == Currents(d, MonthOf[b]) \ {b}
<1>1. others # {} => (CHOOSE c \in others : TRUE) \in others
  OBVIOUS
<1>2. NoBatch \notin others
  BY BatchAssumption DEF Currents
<1>3. QED
  BY <1>1, <1>2 DEF CurrentBatch, FirstOf

LEMMA CurrentsAreBatches ==
    ASSUME NEW d, NEW m
    PROVE  Currents(d, m) \subseteq Batch
BY DEF Currents

LEMMA GateOfType ==
    ASSUME NEW st \in GateStatus, NEW cur \in Batch \cup {NoBatch}
    PROVE  GateOf(st, cur) \in Gate
BY DEF GateOf, Gate

LEMMA GateViewType ==
    ASSUME NEW d, NEW b \in Batch, NEW r \in Row
    PROVE  GateView(r, d, b) \in Gate
<1>1. CurrentBatch(d, b) \in Batch \cup {NoBatch}
  BY CurrentBatchType, CurrentsAreBatches
<1>2. DataEnd \in [Batch -> Nat]
  BY BatchAssumption
<1>3. EvaluatedGate(d, b) \in Gate
  <2> DEFINE cur == CurrentBatch(d, b)
  <2>1. CASE cur = NoBatch
    BY <2>1, GateOfType DEF EvaluatedGate, GateStatus
  <2>2. CASE cur # NoBatch /\ DataEnd[b] < DataEnd[cur]
    BY <2>2, <1>1, <1>2, GateOfType DEF EvaluatedGate, GateStatus
  <2>3. CASE cur # NoBatch /\ DataEnd[b] >= DataEnd[cur] /\ ~FactsMatch(d, cur)
    BY <2>3, <1>1, <1>2, GateOfType DEF EvaluatedGate, GateStatus
  <2>4. CASE cur # NoBatch /\ DataEnd[b] >= DataEnd[cur] /\ FactsMatch(d, cur)
    BY <2>4, <1>1, <1>2, GateOfType DEF EvaluatedGate, GateStatus
  <2>5. cur # NoBatch => DataEnd[b] < DataEnd[cur] \/ DataEnd[b] >= DataEnd[cur]
    BY <1>1, <1>2
  <2>6. QED
    BY <2>1, <2>2, <2>3, <2>4, <2>5
<1>4. CASE r.status = "PUBLISHED"
  BY <1>4, <1>1, GateOfType DEF GateView, GateStatus, Row
<1>5. CASE r.status = "PREVIEW_READY"
  BY <1>5, <1>3 DEF GateView
<1>6. CASE r.status = "ABSENT"
  BY <1>6, GateOfType DEF GateView, GateStatus
<1>7. QED
  BY <1>4, <1>5, <1>6 DEF Row, Status

\* What a gate says about the row and the snapshot it was evaluated on.
LEMMA IdempotentMeansCurrent ==
    ASSUME NEW d, NEW b \in Batch, NEW r \in Row, GateView(r, d, b).status = "IDEMPOTENT"
    PROVE  r.status = "PUBLISHED" /\ ~r.replaced
<1>1. EvaluatedGate(d, b).status # "IDEMPOTENT"
  <2> DEFINE cur == CurrentBatch(d, b)
  <2>1. cur \in Batch \cup {NoBatch}
    BY CurrentBatchType, CurrentsAreBatches
  <2>2. cur # NoBatch => DataEnd[b] < DataEnd[cur] \/ DataEnd[b] >= DataEnd[cur]
    BY <2>1, BatchAssumption
  <2>3. QED
    BY <2>2 DEF EvaluatedGate, GateOf
<1>2. r.status # "PREVIEW_READY" /\ r.status # "ABSENT"
  BY <1>1 DEF GateView, GateOf
<1>3. ~(r.status = "PUBLISHED" /\ r.replaced)
  BY DEF GateView, GateOf
<1>4. QED
  BY <1>2, <1>3 DEF Row, Status

LEMMA AcceptableMeans ==
    ASSUME NEW d, NEW b \in Batch, NEW r \in Row,
           GateView(r, d, b).status \in {"READY", "REQUIRES_CONFIRMATION"}
    PROVE  LET cur == CurrentBatch(d, b) IN
           /\ r.status = "PREVIEW_READY"
           /\ GateView(r, d, b).current = cur
           /\ cur # NoBatch => DataEnd[b] >= DataEnd[cur]
           /\ GateView(r, d, b).required =
                IF cur # NoBatch /\ BigDrop(cur, b) THEN ConfirmationCode ELSE {}
<1> DEFINE cur == CurrentBatch(d, b)
<1>1. cur \in Batch \cup {NoBatch}
  BY CurrentBatchType, CurrentsAreBatches
<1>2. r.status = "PREVIEW_READY"
  BY DEF GateView, GateOf, Row, Status
<1>3. GateView(r, d, b) = EvaluatedGate(d, b)
  BY <1>2 DEF GateView
<1>4. CASE cur = NoBatch
  <2>1. EvaluatedGate(d, b) = GateOf("READY", NoBatch)
    BY <1>4 DEF EvaluatedGate
  <2>2. QED
    BY <1>2, <1>3, <1>4, <2>1 DEF GateOf
<1>5. CASE cur # NoBatch
  <2>1. DataEnd[b] >= DataEnd[cur] \/ DataEnd[b] < DataEnd[cur]
    BY <1>1, <1>5, BatchAssumption
  <2>2. ~(DataEnd[b] < DataEnd[cur])
    <3>1. ASSUME DataEnd[b] < DataEnd[cur] PROVE EvaluatedGate(d, b) = GateOf("BLOCKED", NoBatch)
      BY <1>1, <1>5, <3>1, BatchAssumption DEF EvaluatedGate
    <3>2. QED
      BY <3>1, <1>3 DEF GateOf
  <2>3. FactsMatch(d, cur)
    <3>1. ASSUME ~FactsMatch(d, cur) PROVE EvaluatedGate(d, b).status = "BLOCKED"
      BY <1>5, <2>1, <2>2, <3>1 DEF EvaluatedGate, GateOf
    <3>2. QED
      BY <3>1, <1>3 DEF GateOf
  <2>4. EvaluatedGate(d, b) =
            GateOf(IF BigDrop(cur, b) THEN "REQUIRES_CONFIRMATION" ELSE "READY", cur)
    BY <1>5, <2>1, <2>2, <2>3 DEF EvaluatedGate
  <2>5. QED
    BY <1>2, <1>3, <1>5, <2>1, <2>2, <2>4 DEF GateOf
<1>6. QED
  BY <1>4, <1>5

-----------------------------------------------------------------------------
(* Steps that leave the committed tables alone *)

DbInv == AtMostOneCurrent /\ FactsMatchCurrent /\ LineageIsLinear /\ DropsAreConfirmed

LEMMA DbInvUnchanged ==
    ASSUME DbInv, db' = db
    PROVE  DbInv'
BY DEF DbInv, AtMostOneCurrent, FactsMatchCurrent, LineageIsLinear, DropsAreConfirmed

USE DEF LockInv, FreshInv, Accepted, Goto, EndTransaction, EndRequest

\* The page and the way to the lock.
LEMMA OpenPreviewStep ==
    ASSUME TypeOK, ReadsStayFresh, AnswersAreTrue,
           NEW p \in Publisher, NEW b \in Batch, OpenPreview(p, b)
    PROVE  TypeOK' /\ ReadsStayFresh' /\ AnswersAreTrue'
<1> USE DEF OpenPreview, clientVars, txnVars
<1>1. GateView(RowOf(db, b), db, b) \in Gate
  BY GateViewType DEF RowOf, Row, TypeOK, DB
<1>2. TypeOK'
  BY <1>1 DEF TypeOK, PC
<1>3. ReadsStayFresh'
  BY DEF ReadsStayFresh, TypeOK, Locked, Viewing
<1>4. AnswersAreTrue'
  BY DEF ReadsStayFresh, TypeOK, AnswersAreTrue
<1>5. QED
  BY <1>2, <1>3, <1>4

LEMMA RequestStep ==
    ASSUME TypeOK, ReadsStayFresh, AnswersAreTrue, NEW p \in Publisher,
           \/ \E c \in SUBSET ConfirmationCode : Submit(p, c)
           \/ Probe(p) \/ EndProbe(p) \/ AcquireLock(p) \/ LockTimeout(p)
    PROVE  TypeOK' /\ ReadsStayFresh' /\ AnswersAreTrue'
<1> USE DEF clientVars, txnVars
<1>1. ASSUME NEW c \in SUBSET ConfirmationCode, Submit(p, c)
      PROVE  TypeOK' /\ ReadsStayFresh' /\ AnswersAreTrue'
  <2> USE <1>1 DEF Submit
  <2>1. TypeOK'
    BY DEF TypeOK, PC
  <2>2. ReadsStayFresh' /\ AnswersAreTrue'
    BY DEF ReadsStayFresh, TypeOK, Locked, Viewing, AnswersAreTrue
  <2>3. QED
    BY <2>1, <2>2
<1>2. CASE Probe(p)
  <2> USE <1>2 DEF Probe
  <2>1. TypeOK'
    BY DEF TypeOK, PC
  <2>2. ReadsStayFresh' /\ AnswersAreTrue'
    BY DEF ReadsStayFresh, TypeOK, Locked, Viewing, AnswersAreTrue
  <2>3. QED
    BY <2>1, <2>2
<1>3. CASE EndProbe(p)
  <2> USE <1>3 DEF EndProbe
  <2>1. TypeOK'
    BY DEF TypeOK, PC
  <2>2. ReadsStayFresh' /\ AnswersAreTrue'
    BY DEF ReadsStayFresh, TypeOK, Locked, Viewing, AnswersAreTrue
  <2>3. QED
    BY <2>1, <2>2
<1>4. CASE AcquireLock(p)
  <2> USE <1>4 DEF AcquireLock
  <2>1. TypeOK'
    BY DEF TypeOK, PC
  <2>2. batch[p] \in Batch /\ MonthOf[batch[p]] \in Month
    BY BatchAssumption DEF ReadsStayFresh
  <2>3. ASSUME NEW q \in Publisher
        PROVE  LockInv(q)'
    <3>1. LockInv(q)
      BY DEF ReadsStayFresh
    <3>2. pc'[q] \in Locked => monthLock'[MonthOf[batch'[q]]] = q
      BY <2>2, <3>1, BatchAssumption DEF TypeOK, Locked
    <3>3. QED
      BY <3>1, <3>2 DEF TypeOK, Locked
  <2>4. ASSUME NEW q \in Publisher
        PROVE  FreshInv(q)'
    BY DEF ReadsStayFresh, TypeOK, Viewing
  <2>5. AnswersAreTrue'
    BY DEF ReadsStayFresh, TypeOK, AnswersAreTrue
  <2>6. QED
    BY <2>1, <2>3, <2>4, <2>5 DEF ReadsStayFresh
<1>5. CASE LockTimeout(p)
  <2> USE <1>5 DEF LockTimeout
  <2>1. TypeOK'
    BY DEF TypeOK, PC, Result
  <2>2. ReadsStayFresh' /\ AnswersAreTrue'
    BY DEF ReadsStayFresh, TypeOK, Locked, Viewing, AnswersAreTrue
  <2>3. QED
    BY <2>1, <2>2
<1>6. QED
  BY <1>1, <1>2, <1>3, <1>4, <1>5

\* The publish transaction up to its commit, and every way it can end.
LEMMA TransactionStep ==
    ASSUME TypeOK, ReadsStayFresh, AnswersAreTrue, AtMostOneCurrent, NEW p \in Publisher,
           \/ LoadBatch(p) \/ EvaluateGate(p) \/ AnswerIdempotent(p) \/ Reject(p)
           \/ Accept(p) \/ Write(p) \/ StatementFails(p) \/ ReleaseLock(p)
           \/ ConnectionLost(p)
    PROVE  TypeOK' /\ ReadsStayFresh' /\ AnswersAreTrue'
<1> USE DEF clientVars, txnVars
<1>r. RowOf(db, batch[p]) \in Row /\ NoRow \in Row /\ NoGate \in Gate
  <2>1. pc[p] # "idle"
    BY DEF LoadBatch, EvaluateGate, AnswerIdempotent, Reject, Accept, Write,
           StatementFails, ReleaseLock, ConnectionLost
  <2>2. batch[p] \in Batch
    BY <2>1 DEF ReadsStayFresh
  <2>3. NoGate \in Gate
    BY GateOfType DEF NoGate, GateStatus
  <2>4. QED
    BY <2>2, <2>3 DEF RowOf, Row, NoRow, Status, TypeOK, DB
<1>1. CASE LoadBatch(p)
  <2> USE <1>1 DEF LoadBatch
  <2>1. TypeOK'
    BY <1>r DEF TypeOK, PC
  <2>2. ASSUME NEW q \in Publisher
        PROVE  LockInv(q)'
    BY DEF ReadsStayFresh, TypeOK, Locked
  <2>3. ASSUME NEW q \in Publisher
        PROVE  FreshInv(q)'
    BY DEF ReadsStayFresh, TypeOK, Viewing
  <2>4. AnswersAreTrue'
    BY DEF ReadsStayFresh, TypeOK, AnswersAreTrue
  <2>5. QED
    BY <2>1, <2>2, <2>3, <2>4 DEF ReadsStayFresh
<1>2. CASE EvaluateGate(p)
  <2> USE <1>2 DEF EvaluateGate
  <2>1. view[p] = NoView /\ batch[p] \in Batch /\ row[p] \in Row /\ db \in DB
    BY DEF ReadsStayFresh, TypeOK
  <2>2. view' = [view EXCEPT ![p] = db] /\ gate' = [gate EXCEPT ![p] = GateView(row[p], db, batch[p])]
    BY <2>1
  <2>3. GateView(row[p], db, batch[p]) \in Gate
    BY <2>1, GateViewType
  <2>4. TypeOK'
    BY <2>1, <2>2, <2>3 DEF TypeOK, PC
  <2>5. SameMonth(db, db, MonthOf[batch[p]])
    BY DEF SameMonth
  <2>6. ASSUME NEW q \in Publisher
        PROVE  LockInv(q)'
    BY <2>1, <2>2 DEF ReadsStayFresh, TypeOK, Locked
  <2>7. ASSUME NEW q \in Publisher
        PROVE  FreshInv(q)'
    BY <2>1, <2>2, <2>5 DEF ReadsStayFresh, TypeOK, Viewing
  <2>8. AnswersAreTrue'
    BY DEF ReadsStayFresh, TypeOK, AnswersAreTrue
  <2>9. QED
    BY <2>4, <2>6, <2>7, <2>8 DEF ReadsStayFresh
<1>3. CASE AnswerIdempotent(p)
  <2> USE <1>3 DEF AnswerIdempotent
  <2>1. TypeOK'
    BY <1>r DEF TypeOK, PC, Result
  <2>2. ReadsStayFresh'
    BY DEF ReadsStayFresh, TypeOK, Locked, Viewing
  <2>3. batch[p] \in Currents(db, MonthOf[batch[p]])
    <3>1. row[p] = RowOf(db, batch[p]) /\ gate[p] = GateView(row[p], view[p], batch[p])
          /\ batch[p] \in Batch /\ gate[p].status = "IDEMPOTENT"
      BY DEF ReadsStayFresh, Viewing
    <3>2. row[p] \in Row
      BY DEF TypeOK
    <3>3. row[p].status = "PUBLISHED" /\ ~row[p].replaced
      BY <3>1, <3>2, IdempotentMeansCurrent
    <3>4. /\ RowOf(db, batch[p]).status = db.status[batch[p]]
          /\ RowOf(db, batch[p]).replaced <=> db.replacedBy[batch[p]] # NoBatch
      BY Zenon DEF RowOf
    <3>5. db.status[batch[p]] = "PUBLISHED" /\ db.replacedBy[batch[p]] = NoBatch
      BY <3>1, <3>3, <3>4
    <3>6. QED
      BY <3>1, <3>5 DEF Currents
  <2>4. Currents(db, MonthOf[batch[p]]) = {batch[p]}
    BY <2>3, BatchAssumption DEF AtMostOneCurrent, Currents
  <2>5. AnswersAreTrue'
    BY <2>4 DEF AnswersAreTrue, TypeOK
  <2>6. QED
    BY <2>1, <2>2, <2>5
<1>4. CASE Reject(p)
  <2> USE <1>4 DEF Reject
  <2>1. TypeOK'
    BY <1>r DEF TypeOK, PC, Result
  <2>2. ASSUME NEW q \in Publisher
        PROVE  LockInv(q)'
    BY DEF ReadsStayFresh, TypeOK, Locked
  <2>3. ASSUME NEW q \in Publisher
        PROVE  FreshInv(q)'
    BY DEF ReadsStayFresh, TypeOK, Viewing
  <2>4. AnswersAreTrue'
    BY DEF ReadsStayFresh, TypeOK, AnswersAreTrue
  <2>5. QED
    BY <2>1, <2>2, <2>3, <2>4 DEF ReadsStayFresh
<1>5. CASE Accept(p) \/ Write(p)
  <2> USE <1>5 DEF Accept, Write
  <2>1. TypeOK'
    BY DEF TypeOK, PC
  <2>2. ASSUME NEW q \in Publisher
        PROVE  LockInv(q)'
    BY DEF ReadsStayFresh, TypeOK, Locked
  <2>3. ASSUME NEW q \in Publisher
        PROVE  FreshInv(q)'
    BY DEF ReadsStayFresh, TypeOK, Viewing
  <2>4. AnswersAreTrue'
    BY DEF ReadsStayFresh, TypeOK, AnswersAreTrue
  <2>5. QED
    BY <2>1, <2>2, <2>3, <2>4 DEF ReadsStayFresh
<1>6. CASE StatementFails(p)
  <2> USE <1>6 DEF StatementFails
  <2>1. TypeOK'
    BY <1>r DEF TypeOK, PC, Result
  <2>2. ASSUME NEW q \in Publisher
        PROVE  LockInv(q)'
    BY DEF ReadsStayFresh, TypeOK, Locked
  <2>3. ASSUME NEW q \in Publisher
        PROVE  FreshInv(q)'
    BY DEF ReadsStayFresh, TypeOK, Viewing
  <2>4. AnswersAreTrue'
    BY DEF ReadsStayFresh, TypeOK, AnswersAreTrue
  <2>5. QED
    BY <2>1, <2>2, <2>3, <2>4 DEF ReadsStayFresh
<1>7. CASE ReleaseLock(p)
  <2> USE <1>7 DEF ReleaseLock
  <2>1. TypeOK'
    BY DEF TypeOK, PC, Result
  <2>2. ASSUME NEW q \in Publisher
        PROVE  LockInv(q)'
    BY DEF ReadsStayFresh, TypeOK, Locked
  <2>3. ASSUME NEW q \in Publisher
        PROVE  FreshInv(q)'
    BY DEF ReadsStayFresh, TypeOK, Viewing
  <2>4. AnswersAreTrue'
    BY DEF ReadsStayFresh, TypeOK, AnswersAreTrue
  <2>5. QED
    BY <2>1, <2>2, <2>3, <2>4 DEF ReadsStayFresh
<1>8. CASE ConnectionLost(p)
  <2> USE <1>8 DEF ConnectionLost
  <2>1. TypeOK'
    BY <1>r DEF TypeOK, PC, Result
  <2>2. ASSUME NEW q \in Publisher
        PROVE  LockInv(q)'
    <3>1. LockInv(q) /\ (pc[q] \in Locked => MonthOf[batch[q]] \in Month)
      BY BatchAssumption DEF ReadsStayFresh, Locked
    <3>2. pc'[q] \in Locked => monthLock'[MonthOf[batch'[q]]] = q
      BY <3>1, BatchAssumption DEF TypeOK, Locked
    <3>3. QED
      BY <3>1, <3>2 DEF TypeOK, Locked
  <2>3. ASSUME NEW q \in Publisher
        PROVE  FreshInv(q)'
    BY DEF ReadsStayFresh, TypeOK, Viewing
  <2>4. AnswersAreTrue'
    BY DEF ReadsStayFresh, TypeOK, AnswersAreTrue
  <2>5. QED
    BY <2>1, <2>2, <2>3, <2>4 DEF ReadsStayFresh
<1>9. QED
  BY <1>1, <1>2, <1>3, <1>4, <1>5, <1>6, <1>7, <1>8

-----------------------------------------------------------------------------
(* Steps that change the committed tables *)

LEMMA SameMonthCurrents ==
    ASSUME NEW d1, NEW d2, NEW m, SameMonth(d1, d2, m)
    PROVE  Currents(d1, m) = Currents(d2, m)
BY DEF SameMonth, Currents

\* What a commit finds and what it leaves.
LEMMA CommitEffect ==
    ASSUME TypeOK, ReadsStayFresh, AtMostOneCurrent, NEW p \in Publisher, Commit(p)
    PROVE  LET b == batch[p]
               m == MonthOf[b]
               old == CurrentBatch(view[p], b)
           IN  /\ b \in Batch /\ m \in Month /\ db.status[b] = "PREVIEW_READY"
               /\ old \in Batch \cup {NoBatch}
               /\ Currents(db, m) = IF old = NoBatch THEN {} ELSE {old}
               /\ old # NoBatch => DataEnd[b] >= DataEnd[old] /\ old # b
               /\ db' \in DB
               /\ db'.status = [db.status EXCEPT ![b] = "PUBLISHED"]
               /\ db'.replacedBy = IF old = NoBatch THEN db.replacedBy
                                   ELSE [db.replacedBy EXCEPT ![old] = b]
               /\ db'.facts = [db.facts EXCEPT ![m] = {b}]
               /\ \E s \in Batch \cup {NoBatch} :
                    db'.confirmations = db.confirmations \cup
                        IF old # NoBatch /\ BigDrop(old, b)
                        THEN {[batch |-> b, existing |-> old, qty |-> ReadyQty[old],
                               shownFor |-> s]}
                        ELSE {}
<1> DEFINE b == batch[p]
           m == MonthOf[b]
           old == CurrentBatch(view[p], b)
           s == IF shown[p].required = {} THEN NoBatch ELSE shown[p].current
           new == IF old # NoBatch /\ BigDrop(old, b)
                  THEN {[batch |-> b, existing |-> old, qty |-> ReadyQty[old], shownFor |-> s]}
                  ELSE {}
<1>1. /\ pc[p] = "committing" /\ b \in Batch /\ row[p] = RowOf(db, b)
      /\ SameMonth(view[p], db, m) /\ gate[p] = GateView(row[p], view[p], b)
      /\ gate[p].status \in {"READY", "REQUIRES_CONFIRMATION"}
  BY DEF Commit, ReadsStayFresh, Viewing
<1>2. row[p] \in Row /\ m \in Month /\ db \in DB /\ s \in Batch \cup {NoBatch}
  BY <1>1, BatchAssumption DEF TypeOK, Gate
<1>3. /\ row[p].status = "PREVIEW_READY" /\ gate[p].current = old
      /\ old # NoBatch => DataEnd[b] >= DataEnd[old]
      /\ gate[p].required = IF old # NoBatch /\ BigDrop(old, b) THEN ConfirmationCode ELSE {}
  BY <1>1, <1>2, AcceptableMeans
<1>4. db.status[b] = "PREVIEW_READY"
  BY <1>1, <1>3 DEF RowOf
<1>5. b \notin Currents(db, m)
  BY <1>4 DEF Currents
<1>6. Currents(view[p], m) = Currents(db, m)
  BY <1>1, SameMonthCurrents
<1>7. /\ old \in Currents(db, m) \cup {NoBatch}
      /\ old = NoBatch <=> Currents(db, m) = {}
      /\ old # b
  BY <1>1, <1>5, <1>6, CurrentBatchType, BatchAssumption
<1>8. old \in Batch \cup {NoBatch} /\ Currents(db, m) = IF old = NoBatch THEN {} ELSE {old}
  BY <1>2, <1>7, CurrentsAreBatches DEF AtMostOneCurrent
<1>9. {[batch |-> b, existing |-> old, qty |-> ReadyQty[gate[p].current], shownFor |-> s]
            : code \in gate[p].required} = new
  BY <1>3 DEF ConfirmationCode
<1>10. new \subseteq Confirmation
  BY <1>1, <1>2, <1>8, BatchAssumption DEF Confirmation
<1>11. db' = PublishWrites(p, db)
  BY DEF Commit
<1>12. db' = [status |-> [db.status EXCEPT ![b] = "PUBLISHED"],
              replacedBy |-> IF old = NoBatch THEN db.replacedBy
                             ELSE [db.replacedBy EXCEPT ![old] = b],
              facts |-> [db.facts EXCEPT ![m] = {b}],
              confirmations |-> db.confirmations \cup new]
  <2> DEFINE R(st, rb, fs, cs) == [status |-> st, replacedBy |-> rb, facts |-> fs,
                                   confirmations |-> cs]
             newStatus == [db.status EXCEPT ![b] = "PUBLISHED"]
             newFacts == [db.facts EXCEPT ![m] = {b}]
             newReplacedBy == IF old = NoBatch THEN db.replacedBy
                              ELSE [db.replacedBy EXCEPT ![old] = b]
  <2>1. FactsReplaced(db, b) = R(db.status, db.replacedBy, newFacts, db.confirmations)
    <3>1. db = R(db.status, db.replacedBy, db.facts, db.confirmations)
      BY <1>2 DEF DB
    <3>2. DeleteMonthFacts(db, b) =
            R(db.status, db.replacedBy, [db.facts EXCEPT ![m] = {}], db.confirmations)
      BY <3>1 DEF DeleteMonthFacts
    <3>3. [[db.facts EXCEPT ![m] = {}] EXCEPT ![m] = @ \cup {b}] = newFacts
      BY <1>2 DEF DB
    <3>4. QED
      BY <3>2, <3>3 DEF FactsReplaced, InsertCandidates
  <2>2. MarkReplaced(FactsReplaced(db, b), old, b) =
            R(db.status, newReplacedBy, newFacts, db.confirmations)
    <3>1. CASE old = NoBatch
      BY <2>1, <3>1 DEF MarkReplaced
    <3>2. CASE old # NoBatch
      <4>1. newReplacedBy = [db.replacedBy EXCEPT ![old] = b]
        BY <3>2
      <4> HIDE DEF newReplacedBy, newFacts, old, b
      <4>2. QED
        BY <2>1, <3>2, <4>1 DEF MarkReplaced
    <3>3. QED
      BY <3>1, <3>2
  <2>3. MarkPublished(MarkReplaced(FactsReplaced(db, b), old, b), b) =
            R(newStatus, newReplacedBy, newFacts, db.confirmations)
    <3> HIDE DEF newReplacedBy, newFacts, old, b
    <3>1. QED
      BY <2>2 DEF MarkPublished
  <2>4. ASSUME NEW st, NEW rb, NEW fs, NEW cs
        PROVE  RecordConfirmations(R(st, rb, fs, cs), gate[p], old, b, shown[p]) =
                    R(st, rb, fs, cs \cup new)
    <3>1. RecordConfirmations(R(st, rb, fs, cs), gate[p], old, b, shown[p]) =
            [R(st, rb, fs, cs) EXCEPT !.confirmations = cs \cup new]
      BY <1>9 DEF RecordConfirmations
    <3> HIDE DEF new
    <3>2. QED
      BY <3>1
  <2>5. PublishWrites(p, db) = RecordConfirmations(
            MarkPublished(MarkReplaced(FactsReplaced(db, b), old, b), b),
            gate[p], old, b, shown[p])
    BY DEF PublishWrites
  <2>6. PublishWrites(p, db) = R(newStatus, newReplacedBy, newFacts, db.confirmations \cup new)
    <3> HIDE DEF R, new, newStatus, newReplacedBy, newFacts, old, b
    <3>1. RecordConfirmations(R(newStatus, newReplacedBy, newFacts, db.confirmations),
                              gate[p], old, b, shown[p]) =
            R(newStatus, newReplacedBy, newFacts, db.confirmations \cup new)
      BY <2>4
    <3>2. QED
      BY <2>3, <2>5, <3>1
  <2>7. QED
    BY <1>11, <2>6
<1>13. db' \in DB
  BY <1>1, <1>2, <1>8, <1>10, <1>12 DEF DB, Status
<1>14. QED
  BY <1>1, <1>2, <1>3, <1>4, <1>7, <1>8, <1>12, <1>13

\* A new preview is nobody's batch yet and no current batch.
LEMMA UploadStep ==
    ASSUME TypeOK, ReadsStayFresh, AnswersAreTrue, DbInv, NEW b \in Batch, Upload(b)
    PROVE  TypeOK' /\ ReadsStayFresh' /\ AnswersAreTrue' /\ DbInv'
<1> USE DEF clientVars, txnVars
<1>1. /\ db \in DB /\ db.status[b] = "ABSENT"
      /\ db'.status = [db.status EXCEPT ![b] = "PREVIEW_READY"]
      /\ db'.replacedBy = db.replacedBy /\ db'.facts = db.facts
      /\ db'.confirmations = db.confirmations
  BY DEF Upload, TypeOK, DB
<1>2. db' \in DB
  <2>1. db' = [db EXCEPT !.status = [db.status EXCEPT ![b] = "PREVIEW_READY"]]
    BY DEF Upload
  <2>2. [db.status EXCEPT ![b] = "PREVIEW_READY"] \in [Batch -> Status]
    BY <1>1 DEF DB, Status
  <2>3. QED
    BY <1>1, <2>1, <2>2 DEF DB
<1>3. TypeOK'
  BY <1>2 DEF Upload, TypeOK
<1>4. \A c \in Batch : /\ db'.status[c] = "PUBLISHED" <=> db.status[c] = "PUBLISHED"
                       /\ db.status[c] # "ABSENT" => db'.status[c] = db.status[c]
  BY <1>1 DEF DB
<1>5. \A n : Currents(db', n) = Currents(db, n)
  BY <1>1, <1>4 DEF Currents
<1>6. ASSUME NEW q \in Publisher
      PROVE  LockInv(q)'
  BY <1>1, <1>4 DEF Upload, ReadsStayFresh
<1>7. ASSUME NEW q \in Publisher
      PROVE  FreshInv(q)'
  <2>1. UNCHANGED <<pc, row, gate, view, batch, codes>>
    BY DEF Upload
  <2>2. pc[q] \in Viewing \cup {"loaded"} => row[q] = RowOf(db', batch[q])
    <3>1. ASSUME pc[q] \in Viewing \cup {"loaded"}
          PROVE  RowOf(db', batch[q]) = RowOf(db, batch[q])
      <4>1. batch[q] \in Batch /\ db.status[batch[q]] # "ABSENT"
        BY <3>1 DEF ReadsStayFresh, Viewing
      <4>2. db'.status[batch[q]] = db.status[batch[q]]
        BY <1>4, <4>1
      <4>3. QED
        BY <1>1, <4>2 DEF RowOf
    <3>2. QED
      BY <3>1 DEF ReadsStayFresh
  <2>3. pc[q] \in Viewing => SameMonth(view[q], db', MonthOf[batch[q]])
    BY <1>1, <1>4 DEF ReadsStayFresh, SameMonth
  <2>4. QED
    BY <2>1, <2>2, <2>3 DEF ReadsStayFresh
<1>8. AnswersAreTrue'
  BY <1>5 DEF Upload, AnswersAreTrue
<1>9. AtMostOneCurrent' /\ FactsMatchCurrent'
  BY <1>1, <1>5 DEF DbInv, AtMostOneCurrent, FactsMatchCurrent
<1>10. LineageIsLinear'
  BY <1>1, <1>4 DEF DbInv, LineageIsLinear, DB
<1>11. DropsAreConfirmed'
  BY <1>1 DEF DbInv, DropsAreConfirmed
<1>12. QED
  BY <1>3, <1>6, <1>7, <1>8, <1>9, <1>10, <1>11 DEF DbInv, ReadsStayFresh

\* After a commit the published batch is the current one of its month, and
\* the other months are as they were.
LEMMA CommitCurrents ==
    ASSUME TypeOK, ReadsStayFresh, AtMostOneCurrent, LineageIsLinear,
           NEW p \in Publisher, Commit(p)
    PROVE  /\ Currents(db', MonthOf[batch[p]]) = {batch[p]}
           /\ \A n \in Month \ {MonthOf[batch[p]]} : Currents(db', n) = Currents(db, n)
<1> DEFINE b == batch[p]
           m == MonthOf[b]
           old == CurrentBatch(view[p], b)
<1>1. /\ b \in Batch /\ m \in Month /\ db.status[b] = "PREVIEW_READY"
      /\ old \in Batch \cup {NoBatch}
      /\ Currents(db, m) = IF old = NoBatch THEN {} ELSE {old}
      /\ old # NoBatch => old # b
      /\ db'.status = [db.status EXCEPT ![b] = "PUBLISHED"]
      /\ db'.replacedBy = IF old = NoBatch THEN db.replacedBy
                          ELSE [db.replacedBy EXCEPT ![old] = b]
  BY CommitEffect
<1>2. db \in DB /\ NoBatch \notin Batch
  BY BatchAssumption DEF TypeOK
<1> HIDE DEF b, m, old
<1>3. db.replacedBy[b] = NoBatch
  BY <1>1, <1>2 DEF LineageIsLinear, DB
<1>4. old # NoBatch => MonthOf[old] = m
  BY <1>1 DEF Currents
<1>5. m = MonthOf[b]
  BY DEF m
<1>6. ASSUME NEW c \in Batch, MonthOf[c] = m
      PROVE  c \in Currents(db', m) <=> c = b
  <2>1. CASE c = b
    BY <1>1, <1>2, <1>3, <1>5, <2>1 DEF Currents, DB
  <2>2. CASE c # b /\ c = old
    BY <1>1, <1>2, <2>2 DEF Currents, DB
  <2>3. CASE c # b /\ c # old
    BY <1>1, <1>2, <1>6, <2>3 DEF Currents, DB
  <2>4. QED
    BY <2>1, <2>2, <2>3
<1>7. Currents(db', m) = {b}
  BY <1>1, <1>5, <1>6 DEF Currents
<1>8. ASSUME NEW n \in Month \ {m}
      PROVE  Currents(db', n) = Currents(db, n)
  BY <1>1, <1>2, <1>4, <1>5 DEF Currents, DB
<1>9. QED
  BY <1>7, <1>8 DEF b, m

LEMMA CommitStep ==
    ASSUME TypeOK, ReadsStayFresh, AnswersAreTrue, DbInv, NEW p \in Publisher, Commit(p)
    PROVE  TypeOK' /\ ReadsStayFresh' /\ AnswersAreTrue' /\ DbInv'
<1> USE DEF clientVars, txnVars
<1> DEFINE b == batch[p]
           m == MonthOf[b]
           old == CurrentBatch(view[p], b)
           confirmed(s) == [batch |-> b, existing |-> old, qty |-> ReadyQty[old],
                            shownFor |-> s]
<1>1. /\ b \in Batch /\ m \in Month /\ db.status[b] = "PREVIEW_READY"
      /\ old \in Batch \cup {NoBatch}
      /\ Currents(db, m) = IF old = NoBatch THEN {} ELSE {old}
      /\ old # NoBatch => old # b
      /\ db' \in DB
      /\ db'.status = [db.status EXCEPT ![b] = "PUBLISHED"]
      /\ db'.replacedBy = IF old = NoBatch THEN db.replacedBy
                          ELSE [db.replacedBy EXCEPT ![old] = b]
      /\ db'.facts = [db.facts EXCEPT ![m] = {b}]
  BY CommitEffect DEF DbInv
<1>2. PICK s \in Batch \cup {NoBatch} :
        db'.confirmations = db.confirmations \cup
            IF old # NoBatch /\ BigDrop(old, b) THEN {confirmed(s)} ELSE {}
  BY CommitEffect DEF DbInv
<1>3. /\ Currents(db', m) = {b}
      /\ \A n \in Month \ {m} : Currents(db', n) = Currents(db, n)
  BY CommitCurrents DEF DbInv
<1>4. db \in DB /\ NoBatch \notin Batch /\ \A c \in Batch : MonthOf[c] \in Month
  BY BatchAssumption DEF TypeOK
<1>5. old # NoBatch => /\ old \in Batch /\ MonthOf[old] = m
                       /\ db.status[old] = "PUBLISHED" /\ db.replacedBy[old] = NoBatch
  BY <1>1 DEF Currents
<1>6. \A c \in Batch : MonthOf[c] # m =>
        db'.status[c] = db.status[c] /\ db'.replacedBy[c] = db.replacedBy[c]
  BY <1>1, <1>4, <1>5 DEF DB
<1>7. TypeOK'
  <2>1. NoRow \in Row /\ NoGate \in Gate
    BY GateOfType DEF NoGate, GateStatus, NoRow, Row, Status
  <2>2. QED
    BY <1>1, <2>1 DEF Commit, TypeOK, PC, Result
<1>8. ASSUME NEW q \in Publisher \ {p}, pc[q] \in Locked
      PROVE  MonthOf[batch[q]] \in Month \ {m}
  <2>1. pc[p] \in Locked /\ pc[q] # "idle"
    BY <1>8 DEF Commit, Locked
  <2>2. batch[q] \in Batch /\ monthLock[MonthOf[batch[q]]] = q /\ monthLock[m] = p
    BY <1>8, <2>1 DEF ReadsStayFresh
  <2>3. QED
    BY <1>4, <2>2
<1>9. ASSUME NEW q \in Publisher
      PROVE  LockInv(q)'
  <2>1. \A c \in Batch : db.status[c] # "ABSENT" => db'.status[c] # "ABSENT"
    BY <1>1, <1>4 DEF DB
  <2>2. UNCHANGED <<batch, monthLock>>
    BY DEF Commit
  <2>3. LockInv(q) /\ LockInv(p)
    BY DEF ReadsStayFresh
  <2>4. pc'[q] # "idle" => pc[q] # "idle"
    BY DEF Commit, TypeOK
  <2>5. pc'[q] \in Locked => pc[q] \in Locked
    BY DEF Commit, TypeOK, Locked
  <2>6. pc'[q] \in {"locking", "locked", "loaded"} => view'[q] = NoView
    BY <2>3 DEF Commit, TypeOK
  <2>7. result'[q] # "NONE" => pc'[q] = "releasing"
    BY <2>3 DEF Commit, TypeOK
  <2>8. QED
    BY <2>1, <2>2, <2>3, <2>4, <2>5, <2>6, <2>7
<1>10. ASSUME NEW q \in Publisher
       PROVE  FreshInv(q)'
  <2>1. CASE q = p
    BY <2>1 DEF Commit, TypeOK, Viewing
  <2>2. CASE q # p
    <3>1. /\ pc'[q] = pc[q] /\ row'[q] = row[q] /\ view'[q] = view[q] /\ gate'[q] = gate[q]
          /\ batch' = batch /\ codes' = codes
      BY <2>2 DEF Commit, TypeOK
    <3>2. ASSUME pc[q] \in Viewing \cup {"loaded"}
          PROVE  /\ batch[q] \in Batch /\ MonthOf[batch[q]] \in Month \ {m}
                 /\ RowOf(db', batch[q]) = RowOf(db, batch[q])
      <4>1. pc[q] \in Locked /\ pc[q] # "idle"
        BY <3>2 DEF Locked, Viewing
      <4>2. batch[q] \in Batch /\ MonthOf[batch[q]] \in Month \ {m}
        BY <1>8, <2>2, <4>1 DEF ReadsStayFresh
      <4>3. QED
        BY <1>6, <4>2 DEF RowOf
    <3>3. pc[q] \in Viewing => SameMonth(view[q], db', MonthOf[batch[q]])
      BY <1>1, <1>4, <1>6, <3>2 DEF ReadsStayFresh, SameMonth, DB
    <3>4. FreshInv(q)
      BY DEF ReadsStayFresh
    <3>5. QED
      BY <3>1, <3>2, <3>3, <3>4
  <2>3. QED
    BY <2>1, <2>2
<1>11. AnswersAreTrue'
  <2>1. ASSUME NEW q \in Publisher, result'[q] \in {"PUBLISHED", "IDEMPOTENT"}
        PROVE  Currents(db', MonthOf[batch[q]]) = {batch[q]}
    <3>1. CASE q = p
      BY <1>3, <3>1
    <3>2. CASE q # p
      <4>1. result[q] = result'[q]
        BY <3>2 DEF Commit, TypeOK
      <4>2. pc[q] \in Locked
        BY <2>1, <4>1 DEF ReadsStayFresh, Locked
      <4>3. QED
        BY <1>3, <1>8, <2>1, <3>2, <4>1, <4>2 DEF AnswersAreTrue
    <3>3. QED
      BY <3>1, <3>2
  <2>2. batch' = batch
    BY DEF Commit
  <2>3. QED
    BY <2>1, <2>2 DEF AnswersAreTrue
<1>12. AtMostOneCurrent' /\ FactsMatchCurrent'
  BY <1>1, <1>3, <1>4 DEF DbInv, AtMostOneCurrent, FactsMatchCurrent, DB
<1>13. LineageIsLinear'
  BY <1>1, <1>4, <1>5 DEF DbInv, LineageIsLinear, DB
<1>14. DropsAreConfirmed'
  <2>1. ASSUME NEW o \in Batch, db'.replacedBy[o] # NoBatch, SM!BigDrop(o, db'.replacedBy[o])
        PROVE  \E c \in db'.confirmations :
                    c.batch = db'.replacedBy[o] /\ c.existing = o /\ c.qty = ReadyQty[o]
    <3>1. CASE o = old /\ old # NoBatch
      <4>1. db'.replacedBy[o] = b
        BY <1>1, <1>4, <3>1 DEF DB
      <4>2. confirmed(s) \in db'.confirmations
        BY <1>2, <2>1, <3>1, <4>1 DEF BigDrop, SM!BigDrop
      <4>3. QED
        BY <3>1, <4>1, <4>2
    <3>2. CASE o # old \/ old = NoBatch
      <4>1. db'.replacedBy[o] = db.replacedBy[o]
        BY <1>1, <1>4, <3>2 DEF DB
      <4>2. QED
        BY <1>2, <2>1, <4>1 DEF DbInv, DropsAreConfirmed
    <3>3. QED
      BY <3>1, <3>2
  <2>2. ASSUME NEW c \in db'.confirmations
        PROVE  /\ c.existing # NoBatch /\ db'.replacedBy[c.existing] = c.batch
               /\ SM!BigDrop(c.existing, c.batch)
    <3>1. CASE c \in db.confirmations
      <4>1. /\ c.existing # NoBatch /\ db.replacedBy[c.existing] = c.batch
            /\ SM!BigDrop(c.existing, c.batch)
        BY <3>1 DEF DbInv, DropsAreConfirmed
      <4>2. c.batch # NoBatch /\ c.existing \in Batch
        BY <1>4, <3>1, <4>1 DEF DB, Confirmation
      <4>3. db'.replacedBy[c.existing] = db.replacedBy[c.existing]
        BY <1>1, <1>4, <1>5, <4>1, <4>2 DEF DB
      <4>4. QED
        BY <4>1, <4>3
    <3>2. CASE c \notin db.confirmations
      <4>1. old # NoBatch /\ BigDrop(old, b) /\ c = confirmed(s)
        BY <1>2, <3>2
      <4>2. c.existing = old /\ c.batch = b
        BY <4>1
      <4>3. db'.replacedBy[old] = b
        BY <1>1, <1>4, <4>1 DEF DB
      <4>4. QED
        BY <4>1, <4>2, <4>3 DEF BigDrop, SM!BigDrop
    <3>3. QED
      BY <3>1, <3>2
  <2>3. QED
    BY <2>1, <2>2 DEF DropsAreConfirmed
<1>15. QED
  BY <1>7, <1>9, <1>10, <1>11, <1>12, <1>13, <1>14 DEF DbInv, ReadsStayFresh

-----------------------------------------------------------------------------
(* The invariant holds *)

LEMMA InitInvariant ==
    ASSUME Init
    PROVE  IInv
<1> USE DEF Init
<1>1. EmptyDB \in DB
  BY DEF EmptyDB, DB, Status
<1>2. TypeOK
  <2>1. NoRow \in Row /\ NoGate \in Gate
    BY GateOfType DEF NoGate, GateStatus, NoRow, Row, Status
  <2>2. QED
    BY <1>1, <2>1 DEF TypeOK, PC, Result
<1>3. \A m \in Month : Currents(db, m) = {}
  BY DEF Currents, EmptyDB
<1>4. ReadsStayFresh
  BY DEF ReadsStayFresh, Locked, Viewing
<1>5. AtMostOneCurrent /\ FactsMatchCurrent
  BY <1>3 DEF AtMostOneCurrent, FactsMatchCurrent, EmptyDB
<1>6. LineageIsLinear /\ DropsAreConfirmed /\ AnswersAreTrue
  BY DEF LineageIsLinear, DropsAreConfirmed, AnswersAreTrue, EmptyDB
<1>7. QED
  BY <1>2, <1>4, <1>5, <1>6 DEF IInv

LEMMA NextInvariant ==
    ASSUME IInv, [Next]_vars
    PROVE  IInv'
<1> USE DEF IInv
<1>0. DbInv
  BY DEF DbInv
<1>1. ASSUME NEW b \in Batch, Upload(b) PROVE IInv'
  BY <1>0, <1>1, UploadStep DEF DbInv
<1>2. ASSUME NEW p \in Publisher, NEW b \in Batch, OpenPreview(p, b) PROVE IInv'
  <2>1. db' = db
    BY <1>2 DEF OpenPreview
  <2>2. QED
    BY <1>0, <1>2, <2>1, OpenPreviewStep, DbInvUnchanged DEF DbInv
<1>3. ASSUME NEW p \in Publisher,
             \/ \E c \in SUBSET ConfirmationCode : Submit(p, c)
             \/ Probe(p) \/ EndProbe(p) \/ AcquireLock(p) \/ LockTimeout(p)
      PROVE  IInv'
  <2>1. db' = db
    BY <1>3 DEF Submit, Probe, EndProbe, AcquireLock, LockTimeout
  <2>2. QED
    BY <1>0, <1>3, <2>1, RequestStep, DbInvUnchanged DEF DbInv
<1>4. ASSUME NEW p \in Publisher,
             \/ LoadBatch(p) \/ EvaluateGate(p) \/ AnswerIdempotent(p) \/ Reject(p)
             \/ Accept(p) \/ Write(p) \/ StatementFails(p) \/ ReleaseLock(p)
             \/ ConnectionLost(p)
      PROVE  IInv'
  <2>1. db' = db
    BY <1>4 DEF LoadBatch, EvaluateGate, AnswerIdempotent, Reject, Accept, Write,
                StatementFails, ReleaseLock, ConnectionLost
  <2>2. QED
    BY <1>0, <1>4, <2>1, TransactionStep, DbInvUnchanged DEF DbInv
<1>5. ASSUME NEW p \in Publisher, Commit(p) PROVE IInv'
  BY <1>0, <1>5, CommitStep DEF DbInv
<1>6. CASE UNCHANGED vars
  <2> USE <1>6 DEF vars, clientVars, txnVars
  <2>1. DbInv'
    BY <1>0, DbInvUnchanged
  <2>2. TypeOK'
    BY DEF TypeOK
  <2>3. ReadsStayFresh' /\ AnswersAreTrue'
    BY DEF ReadsStayFresh, AnswersAreTrue
  <2>4. QED
    BY <2>1, <2>2, <2>3 DEF DbInv
<1> HIDE DEF IInv
<1>7. ASSUME NEW p \in Publisher, Serve(p) PROVE IInv'
  BY <1>3, <1>4, <1>5, <1>7 DEF Serve
<1>8. QED
  BY <1>1, <1>2, <1>3, <1>4, <1>6, <1>7 DEF Next

\* The inductive invariant holds in every reachable state.
THEOREM Invariance == Spec => []IInv
<1>1. Init => IInv
  BY InitInvariant
<1>2. IInv /\ [Next]_vars => IInv'
  BY NextInvariant
<1>3. QED
  BY <1>1, <1>2, PTL DEF Spec

\* Every variable stays in its type.
THEOREM Typing == Spec => []TypeOK
<1>1. IInv => TypeOK
  BY DEF IInv
<1>2. QED
  BY Invariance, <1>1, PTL

\* Whatever publishers do at the same time, a month has at most one current
\* batch, and its facts are exactly that batch's candidates.
THEOREM OneSnapshotPerMonth == Spec => [](AtMostOneCurrent /\ FactsMatchCurrent)
<1>1. IInv => AtMostOneCurrent /\ FactsMatchCurrent
  BY DEF IInv
<1>2. QED
  BY Invariance, <1>1, PTL

\* The committed facts of a month are exactly its current batch's candidates.
THEOREM FactsAreCurrent == Spec => []FactsMatchCurrent
<1>1. IInv => FactsMatchCurrent
  BY DEF IInv
<1>2. QED
  BY Invariance, <1>1, PTL

\* The replaced_by links of a month form one line of published batches.
THEOREM LinearLineage == Spec => []LineageIsLinear
<1>1. IInv => LineageIsLinear
  BY DEF IInv
<1>2. QED
  BY Invariance, <1>1, PTL

\* Every abnormal drop carries its confirmation, and nothing else does.
THEOREM ConfirmedDrops == Spec => []DropsAreConfirmed
<1>1. IInv => DropsAreConfirmed
  BY DEF IInv
<1>2. QED
  BY Invariance, <1>1, PTL

\* "Published" and "already current" are true when they are answered.
THEOREM TrueAnswers == Spec => []AnswersAreTrue
<1>1. IInv => AnswersAreTrue
  BY DEF IInv
<1>2. QED
  BY Invariance, <1>1, PTL

\* What the gate decided on under the advisory lock still holds at commit.
THEOREM FreshReads == Spec => []ReadsStayFresh
<1>1. IInv => ReadsStayFresh
  BY DEF IInv
<1>2. QED
  BY Invariance, <1>1, PTL

-----------------------------------------------------------------------------
(* What a step may do to the committed tables *)

LEMMA DbChanges ==
    ASSUME [Next]_vars
    PROVE  \/ db' = db
           \/ \E b \in Batch : Upload(b)
           \/ \E p \in Publisher : Commit(p)
BY DEF Next, Serve, OpenPreview, Submit, Probe, EndProbe, AcquireLock, LockTimeout,
       LoadBatch, EvaluateGate, AnswerIdempotent, Reject, Accept, Write,
       StatementFails, ReleaseLock, ConnectionLost, vars

\* A superseded batch stays published and superseded by the same batch.
THEOREM SupersededStays == Spec => SupersededIsFinal
<1>1. IInv /\ [Next]_vars => [KeepsSuperseded]_db
  <2> SUFFICES ASSUME IInv, [Next]_vars
               PROVE  [KeepsSuperseded]_db
    OBVIOUS
  <2>1. db \in DB /\ LineageIsLinear /\ NoBatch \notin Batch
    BY BatchAssumption DEF IInv, TypeOK
  <2>2. \A c \in Batch : db.replacedBy[c] # NoBatch => db.status[c] = "PUBLISHED"
    BY <2>1 DEF LineageIsLinear
  <2>3. ASSUME NEW b \in Batch, Upload(b) PROVE KeepsSuperseded
    BY <2>1, <2>2, <2>3 DEF Upload, DB, KeepsSuperseded
  <2>4. ASSUME NEW p \in Publisher, Commit(p) PROVE KeepsSuperseded
    <3> DEFINE b == batch[p]
               old == CurrentBatch(view[p], b)
    <3>1. /\ Currents(db, MonthOf[b]) = IF old = NoBatch THEN {} ELSE {old}
          /\ b \in Batch /\ db.status[b] = "PREVIEW_READY"
          /\ db'.status = [db.status EXCEPT ![b] = "PUBLISHED"]
          /\ db'.replacedBy = IF old = NoBatch THEN db.replacedBy
                              ELSE [db.replacedBy EXCEPT ![old] = b]
      BY <2>4, CommitEffect DEF IInv
    <3>2. old # NoBatch => db.replacedBy[old] = NoBatch
      BY <3>1 DEF Currents
    <3>3. QED
      BY <2>1, <2>2, <3>1, <3>2 DEF DB, KeepsSuperseded
  <2>5. QED
    BY <2>3, <2>4, DbChanges
<1>2. QED
  BY <1>1, Invariance, PTL DEF Spec, SupersededIsFinal

-----------------------------------------------------------------------------
(* SalesPublish implements SalesMonth *)

LEMMA AbstractInit ==
    ASSUME Init
    PROVE  SM!Init
<1>1. \A m \in Month : Currents(db, m) = {}
  BY DEF Init, Currents, EmptyDB
<1>2. QED
  BY <1>1 DEF Init, SM!Init, Available, Current, FirstOf, Retired, Approved, EmptyDB

LEMMA AbstractUpload ==
    ASSUME TypeOK, NEW b \in Batch, Upload(b)
    PROVE  SM!Upload(b)
<1>1. /\ db \in DB /\ db.status[b] = "ABSENT"
      /\ db'.status = [db.status EXCEPT ![b] = "PREVIEW_READY"]
      /\ db'.replacedBy = db.replacedBy /\ db'.facts = db.facts
      /\ db'.confirmations = db.confirmations
  BY DEF Upload, TypeOK, DB
<1>2. \A m \in Month : Currents(db', m) = Currents(db, m)
  BY <1>1 DEF Currents, DB
<1>3. Current(db') = Current(db)
  BY <1>2 DEF Current
<1>4. Available(db') = Available(db) \cup {b} /\ b \notin Available(db)
  BY <1>1 DEF Available, DB
<1>5. Retired(db') = Retired(db) /\ Approved(db') = Approved(db)
  BY <1>1 DEF Retired, Approved
<1>6. QED
  BY <1>1, <1>3, <1>4, <1>5 DEF SM!Upload

LEMMA AbstractCommit ==
    ASSUME IInv, NEW p \in Publisher, Commit(p)
    PROVE  SM!PublishFirst(batch[p]) \/ SM!PublishNext(batch[p])
<1> DEFINE b == batch[p]
           m == MonthOf[b]
           old == CurrentBatch(view[p], b)
           confirmed(s) == [batch |-> b, existing |-> old, qty |-> ReadyQty[old],
                            shownFor |-> s]
<1>1. /\ b \in Batch /\ m \in Month /\ db.status[b] = "PREVIEW_READY"
      /\ old \in Batch \cup {NoBatch}
      /\ Currents(db, m) = IF old = NoBatch THEN {} ELSE {old}
      /\ old # NoBatch => DataEnd[b] >= DataEnd[old] /\ old # b
      /\ db'.status = [db.status EXCEPT ![b] = "PUBLISHED"]
      /\ db'.replacedBy = IF old = NoBatch THEN db.replacedBy
                          ELSE [db.replacedBy EXCEPT ![old] = b]
      /\ db'.facts = [db.facts EXCEPT ![m] = {b}]
  BY CommitEffect DEF IInv
<1>2. PICK s \in Batch \cup {NoBatch} :
        db'.confirmations = db.confirmations \cup
            IF old # NoBatch /\ BigDrop(old, b) THEN {confirmed(s)} ELSE {}
  BY CommitEffect DEF IInv
<1>3. /\ Currents(db', m) = {b}
      /\ \A n \in Month \ {m} : Currents(db', n) = Currents(db, n)
  BY CommitCurrents DEF IInv
<1>4. db \in DB /\ NoBatch \notin Batch /\ LineageIsLinear
  BY BatchAssumption DEF IInv, TypeOK
<1>5. Current(db)[m] = old
  BY <1>1 DEF Current, FirstOf
<1>6. Current(db') = [Current(db) EXCEPT ![m] = b]
  <2>1. \A n \in Month : Current(db')[n] = IF n = m THEN b ELSE Current(db)[n]
    <3>1. FirstOf({b}) = b
      BY <1>1, <1>4 DEF FirstOf
    <3>2. QED
      BY <1>3, <3>1 DEF Current
  <2>2. QED
    BY <2>1 DEF Current
<1>7. Available(db') = Available(db) /\ b \in Available(db)
  BY <1>1, <1>4 DEF Available, DB
<1>8. db.replacedBy[b] = NoBatch
  BY <1>1, <1>4 DEF LineageIsLinear, DB
<1>9. b \notin Retired(db)
  BY <1>8 DEF Retired
<1>10. CASE old = NoBatch
  <2>1. Retired(db') = Retired(db) /\ Approved(db') = Approved(db)
    BY <1>1, <1>2, <1>10 DEF Retired, Approved
  <2>2. SM!PublishFirst(b)
    <3> HIDE DEF b, old
    <3>1. QED
      BY <1>1, <1>5, <1>6, <1>7, <1>10, <2>1 DEF SM!PublishFirst
  <2>3. QED
    BY <2>2
<1>11. CASE old # NoBatch
  <2>1. Retired(db') = Retired(db) \cup {old}
    BY <1>1, <1>4, <1>11 DEF Retired, DB
  <2>2. BigDrop(old, b) <=> SM!BigDrop(old, b)
    BY DEF BigDrop, SM!BigDrop
  <2>3. CASE BigDrop(old, b)
    <3>1. db'.confirmations = db.confirmations \cup {confirmed(s)}
      BY <1>2, <1>11, <2>3
    <3>2. confirmed(s).existing = old /\ confirmed(s).batch = b
      OBVIOUS
    <3>3. Approved(db') = Approved(db) \cup {<<old, b>>}
      BY <3>1, <3>2 DEF Approved
    <3>4. SM!PublishNext(b)
      <4> HIDE DEF b, old
      <4>1. QED
        BY <1>1, <1>5, <1>6, <1>7, <1>9, <1>11, <2>1, <2>2, <2>3, <3>3 DEF SM!PublishNext
    <3>5. QED
      BY <3>4
  <2>4. CASE ~BigDrop(old, b)
    <3>1. Approved(db') = Approved(db)
      BY <1>2, <2>4 DEF Approved
    <3>2. SM!PublishNext(b)
      <4> HIDE DEF b, old
      <4>1. QED
        BY <1>1, <1>5, <1>6, <1>7, <1>9, <1>11, <2>1, <2>2, <2>4, <3>1 DEF SM!PublishNext
    <3>3. QED
      BY <3>2
  <2>5. QED
    BY <2>3, <2>4
<1>12. QED
  BY <1>10, <1>11

\* Every behaviour of the publishers is, seen through the committed tables,
\* a behaviour of SalesMonth.
THEOREM Refinement == Spec => ImplementsSalesMonth
<1>1. Init => SM!Init
  BY AbstractInit
<1>2. IInv /\ [Next]_vars => [SM!Next]_SM!vars
  <2> SUFFICES ASSUME IInv, [Next]_vars
               PROVE  [SM!Next]_SM!vars
    OBVIOUS
  <2>1. CASE db' = db
    BY <2>1 DEF SM!vars, Available, Current, Retired, Approved, Currents
  <2>2. ASSUME NEW b \in Batch, Upload(b) PROVE SM!Next
    BY <2>2, AbstractUpload DEF SM!Next, IInv
  <2>3. ASSUME NEW p \in Publisher, Commit(p) PROVE SM!Next
    <3>1. batch[p] \in Batch
      BY <2>3 DEF IInv, ReadsStayFresh, Commit
    <3>2. QED
      BY <2>3, <3>1, AbstractCommit DEF SM!Next
  <2>4. QED
    BY <2>1, <2>2, <2>3, DbChanges
<1>3. QED
  BY <1>1, <1>2, Invariance, PTL DEF Spec, ImplementsSalesMonth, SM!Spec
=============================================================================

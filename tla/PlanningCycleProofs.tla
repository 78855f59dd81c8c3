------------------------ MODULE PlanningCycleProofs ------------------------
(***************************************************************************)
(* Proofs about PlanningCycle for any cycles, threads, masters, sources,   *)
(* quantities and bounds.                                                  *)
(***************************************************************************)
EXTENDS PlanningCycle, TLAPS

\* What a request may make of the cycle it locked.
Effect(r, cyc, next) ==
    \/ /\ r.op = "SOURCES" /\ Choosable(r.bound) /\ r.forecast \in 0..Len(cyc.versions)
       /\ next = WithSources(cyc, r)
    \/ r.op = "SAVE" /\ Savable(cyc, r.base, r.lines) /\ next = WithForecast(cyc, r.lines)
    \/ r.op = "WRITE" /\ next = WithVersion(cyc, r.lines)
    \/ r.op = "ORDER" /\ next = WithOrder(cyc, r.product, r.qty)
    \/ /\ r.op = "CONFIRM" /\ cyc.orders[r.product] # NoOrder
       /\ next = WithConfirmation(cyc, r.product)
    \/ /\ r.op = "LOCK" /\ Lockable(cyc, r.forecast)
       /\ \E seen \in [Master -> Name] : next = WithLock(cyc, r.incoming, r.forecast, seen)

\* A running transaction owns its cycle's row, so what it prepared is still true.
JobIsFresh(t) ==
    job[t] # NoJob =>
        LET r == job[t].request IN
        /\ db[r.cycle].status = "OPEN"
        /\ Effect(r, db[r.cycle], job[t].next)
        /\ \A u \in Thread \ {t} : job[u] # NoJob => job[u].request.cycle # r.cycle

CycleIsSound(cyc) ==
    /\ \A s, u \in cyc.bound : s # u => ~Overlap(s, u)
    /\ cyc.status = "LOCKED" => AdoptedWhole(cyc)

IInv ==
    /\ CycleTypeOK
    /\ \A t \in Thread : JobIsFresh(t)
    /\ \A c \in Cycle : CycleIsSound(db[c])

-----------------------------------------------------------------------------
(* What the writers make of a cycle *)

LEMMA SourcesType ==
    ASSUME NEW cyc \in CycleRecord, NEW r \in SourcesRequest
    PROVE  WithSources(cyc, r) \in CycleRecord
BY DEF WithSources, CycleRecord, SourcesRequest

LEMMA VersionType ==
    ASSUME NEW cyc \in CycleRecord, NEW lines \in ForecastLines
    PROVE  /\ WithVersion(cyc, lines) \in CycleRecord
           /\ WithForecast(cyc, lines) \in CycleRecord
<1>1. Append(cyc.versions, lines) \in Seq(ForecastLines) /\ Len(cyc.versions) + 1 \in Nat
  BY DEF CycleRecord
<1>2. QED
  BY <1>1 DEF WithVersion, WithForecast, CycleRecord

LEMMA OrdersType ==
    ASSUME NEW qty \in Qty
    PROVE  /\ FirstOrder(qty) \in Order
           /\ \A old \in Order : ChangedOrder(old, qty) \in Order
<1>1. FirstOrder(qty) \in Order
  <2>1. <<>> \in Seq(Revision)
    OBVIOUS
  <2>2. QED
    BY <2>1 DEF FirstOrder, Order
<1>2. ASSUME NEW old \in Order PROVE ChangedOrder(old, qty) \in Order
  <2>1. [qty |-> old.qty, confirmed |-> old.confirmed] \in Revision
    BY DEF Order, Revision
  <2>2. Append(old.log, [qty |-> old.qty, confirmed |-> old.confirmed]) \in Seq(Revision)
    BY <2>1 DEF Order
  <2>3. QED
    BY <2>2 DEF ChangedOrder, Order
<1>3. QED
  BY <1>1, <1>2

LEMMA OrderType ==
    ASSUME NEW cyc \in CycleRecord, NEW p \in Product, NEW qty \in Qty
    PROVE  WithOrder(cyc, p, qty) \in CycleRecord
<1> DEFINE old == cyc.orders[p]
           new == IF old = NoOrder THEN FirstOrder(qty)
                  ELSE IF old.qty = qty THEN old ELSE ChangedOrder(old, qty)
<1>1. cyc.orders \in [Product -> Order \cup {NoOrder}]
  BY DEF CycleRecord
<1>2. new \in Order
  BY <1>1, OrdersType
<1>3. WithOrder(cyc, p, qty) = [cyc EXCEPT !.orders = [cyc.orders EXCEPT ![p] = new]]
  BY DEF WithOrder, CycleRecord
<1>4. [cyc.orders EXCEPT ![p] = new] \in [Product -> Order \cup {NoOrder}]
  <2> HIDE DEF new
  <2>1. QED
    BY <1>1, <1>2
<1>5. QED
  <2> HIDE DEF new
  <2>1. QED
    BY <1>3, <1>4 DEF CycleRecord

LEMMA ConfirmationType ==
    ASSUME NEW cyc \in CycleRecord, NEW p \in Product, cyc.orders[p] # NoOrder
    PROVE  WithConfirmation(cyc, p) \in CycleRecord
<1>1. cyc.orders \in [Product -> Order \cup {NoOrder}] /\ cyc.orders[p] \in Order
  BY DEF CycleRecord
<1>2. [cyc.orders[p] EXCEPT !.confirmed = TRUE] \in Order
  BY <1>1 DEF Order
<1>3. WithConfirmation(cyc, p) =
        [cyc EXCEPT !.orders = [cyc.orders EXCEPT ![p] = [cyc.orders[p] EXCEPT !.confirmed = TRUE]]]
  BY DEF WithConfirmation, CycleRecord
<1>4. QED
  BY <1>1, <1>2, <1>3 DEF CycleRecord

LEMMA LockType ==
    ASSUME NEW cyc \in CycleRecord, NEW incoming \in Incoming, NEW n \in Nat,
           NEW seen \in [Master -> Name]
    PROVE  WithLock(cyc, incoming, n, seen) \in CycleRecord
<1>1. [m \in Master |-> IF m \in Archived(cyc, incoming) THEN seen[m] ELSE NoName]
        \in [Master -> Name \cup {NoName}]
  OBVIOUS
<1>2. QED
  BY <1>1 DEF WithLock, CycleRecord, CycleStatus

LEMMA RequestKinds ==
    ASSUME NEW r \in Request
    PROVE  /\ r.cycle \in Cycle
           /\ r.op = "SOURCES" => r \in SourcesRequest
           /\ r.op = "SAVE" => r \in SaveRequest
           /\ r.op = "WRITE" => r \in WriteRequest
           /\ r.op = "ORDER" => r \in OrderRequest
           /\ r.op = "CONFIRM" => r \in ConfirmRequest
           /\ r.op = "LOCK" => r \in LockRequest
BY DEF Request, SourcesRequest, SaveRequest, WriteRequest, OrderRequest,
       ConfirmRequest, LockRequest

LEMMA EffectType ==
    ASSUME NEW cyc \in CycleRecord, NEW r \in Request, NEW next, Effect(r, cyc, next)
    PROVE  next \in CycleRecord
<1>1. CASE r.op = "SOURCES"
  BY <1>1, RequestKinds, SourcesType DEF Effect
<1>2. CASE r.op = "SAVE"
  BY <1>2, RequestKinds, VersionType DEF Effect, SaveRequest
<1>3. CASE r.op = "WRITE"
  BY <1>3, RequestKinds, VersionType DEF Effect, WriteRequest
<1>4. CASE r.op = "ORDER"
  BY <1>4, RequestKinds, OrderType DEF Effect, OrderRequest
<1>5. CASE r.op = "CONFIRM"
  BY <1>5, RequestKinds, ConfirmationType DEF Effect, ConfirmRequest
<1>6. CASE r.op = "LOCK"
  BY <1>6, RequestKinds, LockType DEF Effect, LockRequest
<1>7. QED
  BY <1>1, <1>2, <1>3, <1>4, <1>5, <1>6 DEF Effect

-----------------------------------------------------------------------------
(* Soundness of a committed cycle *)

LEMMA ArchivedMasters ==
    ASSUME NEW cyc \in CycleRecord, NEW incoming \in Incoming
    PROVE  Archived(cyc, incoming) \subseteq Master
<1>1. MastersOf[incoming] \subseteq Master
  BY SourcesAssumption
<1>2. \A s \in cyc.bound : MastersOf[s] \subseteq Master
  BY SourcesAssumption DEF CycleRecord
<1>3. Ordered(cyc) \subseteq Master
  BY MastersAssumption DEF Ordered
<1>4. \A i \in DOMAIN cyc.versions : cyc.versions[i].masters \subseteq Master
  <2>1. cyc.versions \in Seq(ForecastLines)
    BY DEF CycleRecord
  <2>2. \A i \in DOMAIN cyc.versions : cyc.versions[i] \in ForecastLines
    BY <2>1
  <2>3. QED
    BY <2>2 DEF ForecastLines
<1>5. QED
  BY <1>1, <1>2, <1>3, <1>4 DEF Archived, SourceMasters, ForecastMasters

LEMMA LockedWhole ==
    ASSUME NEW cyc \in CycleRecord, NEW incoming \in Incoming, NEW n, Lockable(cyc, n),
           NEW seen \in [Master -> Name]
    PROVE  AdoptedWhole(WithLock(cyc, incoming, n, seen))
<1> DEFINE next == WithLock(cyc, incoming, n, seen)
<1>1. /\ next.bound = cyc.bound /\ next.incoming = incoming /\ next.adopted = n
      /\ next.versions = cyc.versions /\ next.orders = cyc.orders
      /\ next.archive =
            [m \in Master |-> IF m \in Archived(cyc, incoming) THEN seen[m] ELSE NoName]
  BY DEF WithLock, CycleRecord
<1>2. Ordered(next) = Ordered(cyc) /\ ForecastMasters(next) = ForecastMasters(cyc)
  BY <1>1 DEF Ordered, ForecastMasters
<1>3. n \in DOMAIN cyc.versions
  BY DEF Lockable
<1>4. cyc.versions[n].masters \subseteq ForecastMasters(cyc)
  BY <1>3 DEF ForecastMasters
<1>5. Visible(next) \cup ForecastMasters(next) \subseteq Archived(cyc, incoming)
  BY <1>1, <1>2, <1>4 DEF Visible, Archived
<1>6. Archived(cyc, incoming) \subseteq Master
  BY ArchivedMasters
<1>7. \A m \in Archived(cyc, incoming) : next.archive[m] # NoName
  BY <1>1, <1>6, MastersAssumption
<1>8. AdoptedWhole(next)
  <2> HIDE DEF next
  <2>1. \A m \in Visible(next) \cup ForecastMasters(next) : next.archive[m] # NoName
    BY <1>5, <1>7
  <2>2. \A p \in Ordered(next) : next.orders[p].confirmed
    BY <1>1, <1>2 DEF Lockable
  <2>3. QED
    BY <1>1, <1>2, <1>3, <2>1, <2>2 DEF AdoptedWhole, Lockable, BindingsLockable
<1>9. QED
  BY <1>8

LEMMA EffectSound ==
    ASSUME NEW cyc \in CycleRecord, NEW r \in Request, NEW next, Effect(r, cyc, next),
           CycleIsSound(cyc), cyc.status = "OPEN"
    PROVE  CycleIsSound(next)
<1>1. CASE r.op = "SOURCES"
  <2>1. next.bound = r.bound /\ next.status = "OPEN" /\ Choosable(r.bound)
    BY <1>1 DEF Effect, WithSources, CycleRecord
  <2>2. QED
    BY <2>1 DEF CycleIsSound, Choosable
<1>2. CASE r.op = "LOCK"
  <2>1. PICK seen \in [Master -> Name] :
            next = WithLock(cyc, r.incoming, r.forecast, seen)
    BY <1>2 DEF Effect
  <2>2. r.incoming \in Incoming /\ Lockable(cyc, r.forecast)
    BY <1>2, RequestKinds DEF Effect, LockRequest
  <2>3. AdoptedWhole(next)
    BY <2>1, <2>2, LockedWhole
  <2>4. next.bound = cyc.bound
    BY <2>1 DEF WithLock, CycleRecord
  <2>5. QED
    BY <2>3, <2>4 DEF CycleIsSound
<1>3. CASE r.op \notin {"SOURCES", "LOCK"}
  <2>1. next.bound = cyc.bound /\ next.status = "OPEN"
    BY <1>3 DEF Effect, WithForecast, WithVersion, WithOrder, WithConfirmation, CycleRecord
  <2>2. QED
    BY <2>1 DEF CycleIsSound
<1>4. QED
  BY <1>1, <1>2, <1>3

-----------------------------------------------------------------------------
(* Every writer prepares an effect of its request *)

Working(t) ==
    \/ ChooseSources(t) \/ SaveForecast(t) \/ WriteForecastVersion(t)
    \/ WriteFinalOrder(t) \/ ConfirmFinalOrder(t) \/ LockPlanningCycle(t)

Prepared(t) ==
    \E r \in Request, next \in CycleRecord :
        Prepare(t, r, next) /\ Effect(r, db[r.cycle], next)

LEMMA PreparedBy ==
    ASSUME CycleTypeOK, NEW t \in Thread, NEW r \in Request, NEW next,
           Prepare(t, r, next), Effect(r, db[r.cycle], next)
    PROVE  Prepared(t)
<1>1. db[r.cycle] \in CycleRecord
  BY RequestKinds DEF CycleTypeOK
<1>2. QED
  BY <1>1, EffectType DEF Prepared

LEMMA WorkPrepares ==
    ASSUME CycleTypeOK, NEW t \in Thread, Working(t)
    PROVE  Prepared(t)
<1>1. CASE ChooseSources(t)
  <2>1. PICK c \in Cycle, bound \in Selections, incoming \in Incoming \cup {NoIncoming} :
        \E n \in 0..Len(db[c].versions) :
            LET r == [op |-> "SOURCES", cycle |-> c, bound |-> bound,
                      incoming |-> incoming, forecast |-> n]
            IN  Choosable(bound) /\ Prepare(t, r, WithSources(db[c], r))
    BY <1>1 DEF ChooseSources
  <2>2. PICK n \in 0..Len(db[c].versions) :
            LET r == [op |-> "SOURCES", cycle |-> c, bound |-> bound,
                      incoming |-> incoming, forecast |-> n]
            IN  Choosable(bound) /\ Prepare(t, r, WithSources(db[c], r))
    BY <2>1
  <2> DEFINE r == [op |-> "SOURCES", cycle |-> c, bound |-> bound,
                   incoming |-> incoming, forecast |-> n]
  <2>3. Len(db[c].versions) \in Nat
    BY DEF CycleTypeOK, CycleRecord
  <2>4. r \in Request
    BY <2>3, SourcesAssumption DEF Request, SourcesRequest
  <2>5. Effect(r, db[c], WithSources(db[c], r))
    BY <2>2 DEF Effect
  <2>6. QED
    <3>1. Prepare(t, r, WithSources(db[c], r)) /\ r.cycle = c
      BY <2>2
    <3> HIDE DEF r
    <3>2. QED
      BY <2>4, <2>5, <3>1, PreparedBy
<1>2. CASE SaveForecast(t)
  <2> DEFINE c == page[t].cycle
             base == page[t].adopted
  <2>1. c \in Cycle /\ base \in Nat
    BY <1>2 DEF SaveForecast, CycleTypeOK, Page
  <2>2. PICK lines \in Lines :
            /\ Savable(db[c], base, lines)
            /\ Prepare(t, [op |-> "SAVE", cycle |-> c, base |-> base, lines |-> lines],
                       WithForecast(db[c], lines))
    BY <1>2 DEF SaveForecast
  <2> DEFINE r == [op |-> "SAVE", cycle |-> c, base |-> base, lines |-> lines]
  <2>3. r \in Request
    BY <2>1, MastersAssumption DEF Request, SaveRequest
  <2>4. Effect(r, db[c], WithForecast(db[c], lines))
    BY <2>2 DEF Effect
  <2>5. QED
    <3>1. Prepare(t, r, WithForecast(db[c], lines)) /\ r.cycle = c
      BY <2>2
    <3> HIDE DEF r, c
    <3>2. QED
      BY <2>3, <2>4, <3>1, PreparedBy
<1>3. CASE WriteForecastVersion(t)
  <2>1. PICK c \in Cycle, lines \in Lines :
            Prepare(t, [op |-> "WRITE", cycle |-> c, lines |-> lines], WithVersion(db[c], lines))
    BY <1>3 DEF WriteForecastVersion
  <2> DEFINE r == [op |-> "WRITE", cycle |-> c, lines |-> lines]
  <2>2. r \in Request
    BY MastersAssumption DEF Request, WriteRequest
  <2>3. Effect(r, db[c], WithVersion(db[c], lines))
    BY DEF Effect
  <2>4. QED
    <3>1. Prepare(t, r, WithVersion(db[c], lines)) /\ r.cycle = c
      BY <2>1
    <3> HIDE DEF r
    <3>2. QED
      BY <2>2, <2>3, <3>1, PreparedBy
<1>4. CASE WriteFinalOrder(t)
  <2>1. PICK c \in Cycle, p \in Product, qty \in Qty :
            Prepare(t, [op |-> "ORDER", cycle |-> c, product |-> p, qty |-> qty],
                    WithOrder(db[c], p, qty))
    BY <1>4 DEF WriteFinalOrder
  <2> DEFINE r == [op |-> "ORDER", cycle |-> c, product |-> p, qty |-> qty]
  <2>2. r \in Request
    BY DEF Request, OrderRequest
  <2>3. Effect(r, db[c], WithOrder(db[c], p, qty))
    BY DEF Effect
  <2>4. QED
    <3>1. Prepare(t, r, WithOrder(db[c], p, qty)) /\ r.cycle = c
      BY <2>1
    <3> HIDE DEF r
    <3>2. QED
      BY <2>2, <2>3, <3>1, PreparedBy
<1>5. CASE ConfirmFinalOrder(t)
  <2>1. PICK c \in Cycle, p \in Product :
            /\ db[c].orders[p] # NoOrder
            /\ Prepare(t, [op |-> "CONFIRM", cycle |-> c, product |-> p],
                       WithConfirmation(db[c], p))
    BY <1>5 DEF ConfirmFinalOrder
  <2> DEFINE r == [op |-> "CONFIRM", cycle |-> c, product |-> p]
  <2>2. r \in Request
    BY DEF Request, ConfirmRequest
  <2>3. Effect(r, db[c], WithConfirmation(db[c], p))
    BY <2>1 DEF Effect
  <2>4. QED
    <3>1. Prepare(t, r, WithConfirmation(db[c], p)) /\ r.cycle = c
      BY <2>1
    <3> HIDE DEF r
    <3>2. QED
      BY <2>2, <2>3, <3>1, PreparedBy
<1>6. CASE LockPlanningCycle(t)
  <2>1. PICK c \in Cycle, incoming \in Incoming : \E n \in DOMAIN db[c].versions :
            /\ Lockable(db[c], n)
            /\ Prepare(t, [op |-> "LOCK", cycle |-> c, incoming |-> incoming, forecast |-> n],
                       WithLock(db[c], incoming, n, names))
    BY <1>6 DEF LockPlanningCycle
  <2>2. PICK n \in DOMAIN db[c].versions :
            /\ Lockable(db[c], n)
            /\ Prepare(t, [op |-> "LOCK", cycle |-> c, incoming |-> incoming, forecast |-> n],
                       WithLock(db[c], incoming, n, names))
    BY <2>1
  <2> DEFINE r == [op |-> "LOCK", cycle |-> c, incoming |-> incoming, forecast |-> n]
  <2>3. n \in Nat
    BY DEF CycleTypeOK, CycleRecord
  <2>4. r \in Request
    BY <2>3 DEF Request, LockRequest
  <2>5. Effect(r, db[c], WithLock(db[c], incoming, n, names))
    BY <2>2 DEF Effect, CycleTypeOK
  <2>6. QED
    <3>1. Prepare(t, r, WithLock(db[c], incoming, n, names)) /\ r.cycle = c
      BY <2>2
    <3> HIDE DEF r
    <3>2. QED
      BY <2>4, <2>5, <3>1, PreparedBy
<1>7. QED
  BY <1>1, <1>2, <1>3, <1>4, <1>5, <1>6 DEF Working

-----------------------------------------------------------------------------
(* The inductive invariant *)

LEMMA InitSound == Init => IInv
<1> SUFFICES ASSUME Init PROVE IInv
  OBVIOUS
<1>1. EmptyCycle \in CycleRecord
  BY DEF EmptyCycle, CycleRecord, CycleStatus
<1>2. CycleTypeOK
  BY <1>1, MastersAssumption DEF Init, CycleTypeOK
<1>3. \A t \in Thread : JobIsFresh(t)
  BY DEF Init, JobIsFresh
<1>4. \A c \in Cycle : CycleIsSound(db[c])
  BY DEF Init, CycleIsSound, EmptyCycle
<1>5. QED
  BY <1>2, <1>3, <1>4 DEF IInv

\* The statements of a transaction run while nobody else has the row.
LEMMA PreparedInv ==
    ASSUME IInv, NEW t \in Thread, Prepared(t)
    PROVE  IInv'
<1>1. PICK r \in Request, next \in CycleRecord :
          Prepare(t, r, next) /\ Effect(r, db[r.cycle], next)
  BY DEF Prepared
<1>2. /\ job[t] = NoJob /\ RowFree(r.cycle) /\ db[r.cycle].status = "OPEN"
      /\ job' = [job EXCEPT ![t] = [request |-> r, next |-> next]]
      /\ UNCHANGED <<db, names, page>>
  BY <1>1 DEF Prepare
<1>3. CycleTypeOK
  BY DEF IInv
<1>4. [request |-> r, next |-> next] \in Job /\ [request |-> r, next |-> next] # NoJob
  BY NoJobAssumption DEF Job
<1>5. CycleTypeOK'
  BY <1>2, <1>3, <1>4 DEF CycleTypeOK
<1>6. job'[t] = [request |-> r, next |-> next] /\ \A u \in Thread \ {t} : job'[u] = job[u]
  BY <1>2, <1>3 DEF CycleTypeOK
<1>7. ASSUME NEW u \in Thread PROVE JobIsFresh(u)'
  <2>1. CASE u = t
    BY <1>1, <1>2, <1>6, <2>1 DEF JobIsFresh, RowFree
  <2>2. CASE u # t
    <3>1. JobIsFresh(u)
      BY DEF IInv
    <3>2. job[u] # NoJob => job[u].request.cycle # r.cycle
      BY <1>2 DEF RowFree
    <3>3. QED
      BY <1>2, <1>6, <2>2, <3>1, <3>2 DEF JobIsFresh
  <2>3. QED
    BY <2>1, <2>2
<1>8. (\A c \in Cycle : CycleIsSound(db[c]))'
  BY <1>2 DEF IInv
<1>9. QED
  BY <1>5, <1>7, <1>8 DEF IInv

\* The commit makes true what was prepared from the row it still owns.
LEMMA CommitInv ==
    ASSUME IInv, NEW t \in Thread, Commit(t)
    PROVE  /\ IInv'
           /\ job[t].request \in Request
           /\ db[job[t].request.cycle] \in CycleRecord
           /\ db[job[t].request.cycle].status = "OPEN"
           /\ Effect(job[t].request, db[job[t].request.cycle], job[t].next)
<1> DEFINE r == job[t].request
           next == job[t].next
<1>1. /\ job[t] # NoJob
      /\ db' = [db EXCEPT ![r.cycle] = next]
      /\ job' = [job EXCEPT ![t] = NoJob]
      /\ UNCHANGED <<names, page>>
  BY DEF Commit
<1>2. CycleTypeOK /\ JobIsFresh(t)
  BY DEF IInv
<1>3. r \in Request /\ next \in CycleRecord /\ r.cycle \in Cycle
  <2>1. job[t] \in Job
    BY <1>1, <1>2 DEF CycleTypeOK
  <2>2. r \in Request /\ next \in CycleRecord
    BY <2>1 DEF Job
  <2> HIDE DEF r, next
  <2>3. QED
    BY <2>2, RequestKinds
<1>4. db[r.cycle] \in CycleRecord /\ db[r.cycle].status = "OPEN" /\ Effect(r, db[r.cycle], next)
  BY <1>1, <1>2, <1>3 DEF JobIsFresh, CycleTypeOK
<1>5. IInv'
  <2> HIDE DEF r, next
  <2>1. CycleTypeOK'
    BY <1>1, <1>2, <1>3 DEF CycleTypeOK
  <2>2. ASSUME NEW u \in Thread PROVE JobIsFresh(u)'
    <3>1. CASE u = t
      BY <1>1, <1>2, <3>1 DEF JobIsFresh, CycleTypeOK
    <3>2. CASE u # t
      <4>1. job'[u] = job[u] /\ \A v \in Thread : job'[v] # NoJob => job'[v] = job[v]
        BY <1>1, <1>2, <3>2 DEF CycleTypeOK
      <4>2. JobIsFresh(u)
        BY DEF IInv
      <4>3. job[u] # NoJob => job[u].request.cycle # r.cycle
        BY <1>1, <1>2, <3>2 DEF JobIsFresh, r
      <4>4. job[u] # NoJob => db'[job[u].request.cycle] = db[job[u].request.cycle]
        BY <1>1, <1>2, <4>3 DEF CycleTypeOK
      <4>5. QED
        BY <4>1, <4>2, <4>4 DEF JobIsFresh
    <3>3. QED
      BY <3>1, <3>2
  <2>3. ASSUME NEW c \in Cycle PROVE CycleIsSound(db[c])'
    <3>1. CASE c = r.cycle
      <4>1. CycleIsSound(db[c])
        BY DEF IInv
      <4>2. CycleIsSound(next)
        BY <1>3, <1>4, <3>1, <4>1, EffectSound
      <4>3. db'[c] = next
        BY <1>1, <1>2, <3>1 DEF CycleTypeOK
      <4>4. QED
        BY <4>2, <4>3
    <3>2. CASE c # r.cycle
      <4>1. db'[c] = db[c]
        BY <1>1, <1>2, <3>2 DEF CycleTypeOK
      <4>2. QED
        BY <4>1 DEF IInv
    <3>3. QED
      BY <3>1, <3>2
  <2>4. QED
    BY <2>1, <2>2, <2>3 DEF IInv
<1>6. QED
  BY <1>3, <1>4, <1>5

LEMMA CreateInv ==
    ASSUME IInv, NEW c \in Cycle, CreateCycle(c)
    PROVE  IInv'
<1>1. /\ db[c].status = "ABSENT"
      /\ db' = [db EXCEPT ![c].status = "OPEN"]
      /\ UNCHANGED <<names, page, job>>
  BY DEF CreateCycle
<1>2. CycleTypeOK /\ CycleIsSound(db[c])
  BY DEF IInv
<1>3. db[c] \in CycleRecord
  BY <1>2 DEF CycleTypeOK
<1>4. db'[c] = [db[c] EXCEPT !.status = "OPEN"] /\ \A d \in Cycle \ {c} : db'[d] = db[d]
  BY <1>1, <1>2 DEF CycleTypeOK
<1>5. [db[c] EXCEPT !.status = "OPEN"] \in CycleRecord
  BY <1>3 DEF CycleRecord, CycleStatus
<1>6. CycleTypeOK'
  BY <1>1, <1>2, <1>4, <1>5 DEF CycleTypeOK
<1>7. ASSUME NEW u \in Thread PROVE JobIsFresh(u)'
  <2>1. JobIsFresh(u)
    BY DEF IInv
  <2>2. job[u] # NoJob => job[u].request.cycle # c
    BY <1>1, <2>1 DEF JobIsFresh
  <2>3. job[u] # NoJob => job[u].request.cycle \in Cycle
    <3>1. job[u] # NoJob => job[u].request \in Request
      BY <1>2 DEF CycleTypeOK, Job
    <3>2. QED
      BY <3>1, RequestKinds
  <2>4. QED
    BY <1>1, <1>4, <2>1, <2>2, <2>3 DEF JobIsFresh
<1>8. ASSUME NEW d \in Cycle PROVE CycleIsSound(db[d])'
  <2>1. CASE d = c
    BY <1>2, <1>3, <1>4, <2>1 DEF CycleIsSound, CycleRecord
  <2>2. CASE d # c
    BY <1>4, <2>2 DEF IInv
  <2>3. QED
    BY <2>1, <2>2
<1>9. QED
  BY <1>6, <1>7, <1>8 DEF IInv

LEMMA OthersInv ==
    ASSUME IInv
    PROVE  /\ \A t \in Thread : Rollback(t) => IInv'
           /\ \A t \in Thread, c \in Cycle : ReadWorkbench(t, c) => IInv'
           /\ \A m \in Renamed, name \in Name : RenameMaster(m, name) => IInv'
<1> USE DEF IInv
<1>1. ASSUME NEW t \in Thread, Rollback(t) PROVE IInv'
  <2>1. CycleTypeOK' /\ \A u \in Thread : job'[u] = NoJob \/ job'[u] = job[u]
    BY <1>1 DEF Rollback, CycleTypeOK
  <2>2. \A u \in Thread : JobIsFresh(u)'
    BY <1>1, <2>1 DEF Rollback, JobIsFresh
  <2>3. QED
    BY <1>1, <2>1, <2>2 DEF Rollback
<1>2. ASSUME NEW t \in Thread, NEW c \in Cycle, ReadWorkbench(t, c) PROVE IInv'
  <2>1. [cycle |-> c, adopted |-> db[c].adopted] \in Page
    BY DEF CycleTypeOK, CycleRecord, Page
  <2>2. CycleTypeOK'
    BY <1>2, <2>1 DEF ReadWorkbench, CycleTypeOK
  <2>3. \A u \in Thread : JobIsFresh(u)'
    BY <1>2 DEF ReadWorkbench, JobIsFresh
  <2>4. QED
    BY <1>2, <2>2, <2>3 DEF ReadWorkbench
<1>3. ASSUME NEW m \in Renamed, NEW name \in Name, RenameMaster(m, name) PROVE IInv'
  <2>1. CycleTypeOK'
    BY <1>3 DEF RenameMaster, CycleTypeOK
  <2>2. \A u \in Thread : JobIsFresh(u)'
    BY <1>3 DEF RenameMaster, JobIsFresh
  <2>3. QED
    BY <1>3, <2>1, <2>2 DEF RenameMaster
<1>4. QED
  BY <1>1, <1>2, <1>3

LEMMA StutterInv == IInv /\ UNCHANGED vars => IInv'
BY DEF vars, IInv, CycleTypeOK, JobIsFresh

\* The steps of the specification, by what they do to the tables.
LEMMA Steps ==
    ASSUME CycleTypeOK, Next
    PROVE  \/ \E c \in Cycle : CreateCycle(c)
           \/ \E t \in Thread : Prepared(t) \/ Commit(t) \/ Rollback(t)
           \/ \E t \in Thread, c \in Cycle : ReadWorkbench(t, c)
           \/ \E m \in Renamed, name \in Name : RenameMaster(m, name)
<1>1. \A t \in Thread : Working(t) => Prepared(t)
  BY WorkPrepares
<1>2. QED
  BY <1>1 DEF Next, Working

LEMMA NextInv == IInv /\ [Next]_vars => IInv'
<1> SUFFICES ASSUME IInv, [Next]_vars PROVE IInv'
  OBVIOUS
<1>1. CASE Next
  BY <1>1, Steps, CreateInv, PreparedInv, CommitInv, OthersInv DEF IInv
<1>2. CASE UNCHANGED vars
  BY <1>2, StutterInv
<1>3. QED
  BY <1>1, <1>2

LEMMA Invariance == Spec => []IInv
BY InitSound, NextInv, PTL DEF Spec

-----------------------------------------------------------------------------
(* The properties *)

\* The tables keep their types: a lock stores an incoming snapshot where one belongs
\* and a version number where one belongs.
THEOREM Typing == Spec => []CycleTypeOK
BY Invariance, PTL DEF IInv

LEMMA SoundMonths == IInv => OneVersionPerMonth
<1> SUFFICES ASSUME IInv,
                    NEW c \in Cycle, NEW s \in db[c].bound, NEW u \in db[c].bound,
                    NEW month \in From[s]..To[s],
                    KindOf[VersionOf[s]] = KindOf[VersionOf[u]], month \in From[u]..To[u]
             PROVE  VersionOf[s] = VersionOf[u]
  BY DEF OneVersionPerMonth
<1>1. s \in Slice /\ u \in Slice
  BY DEF IInv, CycleTypeOK, CycleRecord
<1>2. From[s] \in Nat /\ To[s] \in Nat /\ From[u] \in Nat /\ To[u] \in Nat
  BY <1>1, SourcesAssumption
<1>3. Overlap(s, u)
  BY <1>2 DEF Overlap
<1>4. QED
  BY <1>3 DEF IInv, CycleIsSound

\* Whatever is chosen, saved, ordered and locked concurrently, no month of a cycle is
\* covered by two versions of one type.
THEOREM OneVersion == Spec => []OneVersionPerMonth
BY Invariance, SoundMonths, PTL

LEMMA SoundLocks == IInv => LockedIsComplete
BY DEF IInv, CycleIsSound, LockedIsComplete

\* A locked cycle was adopted whole and has a name for all that its page and
\* histories can show, for any number of threads, versions and masters.
THEOREM Complete == Spec => []LockedIsComplete
BY Invariance, SoundLocks, PTL

\* The cycle rows change by a creation or by the commit of one transaction.
LEMMA RowSteps ==
    ASSUME IInv, [Next]_vars
    PROVE  \/ db' = db
           \/ \E c \in Cycle : CreateCycle(c)
           \/ \E t \in Thread : Commit(t)
<1>1. CASE Next
  <2>1. CASE \E t \in Thread : Prepared(t)
    BY <2>1 DEF Prepared, Prepare
  <2>2. CASE \E t \in Thread : Rollback(t)
    BY <2>2 DEF Rollback
  <2>3. CASE \E t \in Thread, c \in Cycle : ReadWorkbench(t, c)
    BY <2>3 DEF ReadWorkbench
  <2>4. CASE \E m \in Renamed, name \in Name : RenameMaster(m, name)
    BY <2>4 DEF RenameMaster
  <2>5. QED
    BY <1>1, <2>1, <2>2, <2>3, <2>4, Steps DEF IInv
<1>2. CASE UNCHANGED vars
  BY <1>2 DEF vars
<1>3. QED
  BY <1>1, <1>2

LEMMA LockedKept ==
    ASSUME IInv, [Next]_vars, NEW c \in Cycle, db[c].status = "LOCKED"
    PROVE  db'[c] = db[c]
<1>1. db \in [Cycle -> CycleRecord]
  BY DEF IInv, CycleTypeOK
<1>2. ASSUME NEW d \in Cycle, CreateCycle(d) PROVE db'[c] = db[c]
  BY <1>1, <1>2 DEF CreateCycle
<1>3. ASSUME NEW t \in Thread, Commit(t) PROVE db'[c] = db[c]
  <2>1. db[job[t].request.cycle].status = "OPEN"
    BY <1>3, CommitInv
  <2>2. QED
    BY <1>1, <1>3, <2>1 DEF Commit
<1>4. QED
  BY <1>2, <1>3, RowSteps

\* A locked cycle's page and histories never change again, whatever others do.
THEOREM Frozen == Spec => LockedPageIsFrozen
<1>1. ASSUME IInv, [Next]_vars, NEW c \in Cycle, db[c].status = "LOCKED"
      PROVE  db'[c].status = "LOCKED" /\ WorkbenchPage(c)' = WorkbenchPage(c)
  BY <1>1, LockedKept DEF WorkbenchPage, ShownName
<1>2. IInv /\ [Next]_vars =>
        [\A c \in Cycle :
            db[c].status = "LOCKED" =>
                db'[c].status = "LOCKED" /\ WorkbenchPage(c)' = WorkbenchPage(c)]_vars
  BY <1>1
<1>3. QED
  BY <1>2, Invariance, PTL DEF Spec, LockedPageIsFrozen

\* A transaction that ends and leaves other rows behind has committed.
LEMMA EndsByCommit ==
    ASSUME IInv, Next, NEW t \in Thread, job[t] # NoJob, job'[t] = NoJob, db' # db
    PROVE  Commit(t)
<1>1. ASSUME NEW c \in Cycle, CreateCycle(c) PROVE FALSE
  BY <1>1 DEF CreateCycle
<1>2. ASSUME NEW u \in Thread, Commit(u) PROVE u = t
  BY <1>2 DEF Commit, IInv, CycleTypeOK
<1>3. QED
  BY <1>1, <1>2, RowSteps

LEMMA SaveCommits ==
    ASSUME IInv, NEW t \in Thread, Commit(t), job[t].request.op = "SAVE"
    PROVE  LET c == job[t].request.cycle
               base == job[t].request.base
           IN  /\ db[c].adopted = base
               /\ base # 0 => ~db[c].versions[base].outside
               /\ \A n \in DOMAIN db[c].versions : db'[c].versions[n] = db[c].versions[n]
               /\ db'[c].adopted = Len(db[c].versions) + 1
<1> DEFINE r == job[t].request
           c == r.cycle
           cyc == db[c]
<1>1. /\ r \in Request /\ cyc \in CycleRecord
      /\ Savable(cyc, r.base, r.lines) /\ job[t].next = WithForecast(cyc, r.lines)
  BY CommitInv DEF Effect
<1>2. c \in Cycle /\ r.lines \in ForecastLines
  <2> HIDE DEF r
  <2>1. r.op = "SAVE"
    BY DEF r
  <2>2. QED
    BY <1>1, <2>1, RequestKinds DEF SaveRequest
<1>3. db'[c] = WithForecast(cyc, r.lines)
  BY <1>1, <1>2 DEF Commit, IInv, CycleTypeOK
<1>4. /\ db'[c].versions = Append(cyc.versions, r.lines)
      /\ db'[c].adopted = Len(cyc.versions) + 1
  <2> HIDE DEF c, r, cyc
  <2>1. QED
    BY <1>1, <1>3 DEF WithForecast, WithVersion, CycleRecord
<1>5. \A n \in DOMAIN cyc.versions : Append(cyc.versions, r.lines)[n] = cyc.versions[n]
  <2> HIDE DEF c, r, cyc
  <2>1. cyc.versions \in Seq(ForecastLines)
    BY <1>1 DEF CycleRecord
  <2>2. QED
    BY <1>2, <2>1
<1>6. QED
  BY <1>1, <1>4, <1>5 DEF Savable

\* A save replaces exactly the version its page showed, whatever was saved, chosen or
\* locked between the page and the commit.
THEOREM Saves == Spec => SavesReplaceWhatTheyShow
<1> DEFINE Replaces ==
        \A t \in Thread :
            job[t] # NoJob /\ job'[t] = NoJob /\ db' # db /\ job[t].request.op = "SAVE" =>
                LET c == job[t].request.cycle
                    base == job[t].request.base
                IN  /\ db[c].adopted = base
                    /\ base # 0 => ~db[c].versions[base].outside
                    /\ \A n \in DOMAIN db[c].versions : db'[c].versions[n] = db[c].versions[n]
                    /\ db'[c].adopted = Len(db[c].versions) + 1
<1>1. IInv /\ Next => Replaces
  BY EndsByCommit, SaveCommits
<1>2. IInv /\ [Next]_vars => [Replaces]_vars
  BY <1>1
<1>3. QED
  BY <1>2, Invariance, PTL DEF Spec, SavesReplaceWhatTheyShow
=============================================================================

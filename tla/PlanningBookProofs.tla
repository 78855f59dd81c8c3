------------------------- MODULE PlanningBookProofs -------------------------
(***************************************************************************)
(* PlanningCycle implements PlanningBook.                                  *)
(***************************************************************************)
EXTENDS PlanningCycleProofs, SequenceTheorems

LEMMA SeqOf ==
    ASSUME NEW T, NEW n \in Nat, NEW f \in [1..n -> T]
    PROVE  f \in Seq(T) /\ Len(f) = n
BY SeqDef

\* A function that prolongs a sequence by one element is the appended sequence.
LEMMA AppendOf ==
    ASSUME NEW T, NEW s \in Seq(T), NEW e \in T, NEW f,
           DOMAIN f = 1..Len(s) + 1, f = [n \in DOMAIN f |-> f[n]],
           \A n \in 1..Len(s) : f[n] = s[n], f[Len(s) + 1] = e
    PROVE  f = Append(s, e)
<1>1. /\ Len(s) \in Nat /\ Append(s, e) \in Seq(T) /\ Len(Append(s, e)) = Len(s) + 1
      /\ \A n \in 1..Len(s) : Append(s, e)[n] = s[n]
      /\ Append(s, e)[Len(s) + 1] = e
  BY AppendProperties, LenProperties
<1>2. Append(s, e) \in [1..Len(s) + 1 -> T]
  BY <1>1, LenProperties
<1>3. \A n \in 1..Len(s) + 1 : n \in 1..Len(s) \/ n = Len(s) + 1
  BY <1>1
<1>4. \A n \in 1..Len(s) + 1 : f[n] = Append(s, e)[n]
  BY <1>1, <1>3
<1>5. QED
  <2> DEFINE g == Append(s, e)
             k == Len(s) + 1
  <2>1. g = [n \in 1..k |-> g[n]] /\ f = [n \in 1..k |-> f[n]] /\ \A n \in 1..k : f[n] = g[n]
    BY <1>2, <1>4
  <2> HIDE DEF g, k
  <2>2. f = g
    BY <2>1
  <2>3. QED
    BY <2>2 DEF g

-----------------------------------------------------------------------------
(* What the writers mean to the book *)

LEMMA ForecastsType ==
    ASSUME NEW cyc \in CycleRecord
    PROVE  ForecastsOf(cyc) \in Seq(SUBSET Master) /\ Len(ForecastsOf(cyc)) = Len(cyc.versions)
<1>1. cyc.versions \in Seq(ForecastLines)
  BY DEF CycleRecord
<1>2. Len(cyc.versions) \in Nat /\ DOMAIN cyc.versions = 1..Len(cyc.versions)
  BY <1>1
<1>3. \A n \in 1..Len(cyc.versions) : cyc.versions[n].masters \in SUBSET Master
  <2>1. \A n \in 1..Len(cyc.versions) : cyc.versions[n] \in ForecastLines
    BY <1>1
  <2>2. QED
    BY <2>1 DEF ForecastLines
<1>4. ForecastsOf(cyc) \in [1..Len(cyc.versions) -> SUBSET Master]
  BY <1>2, <1>3 DEF ForecastsOf
<1>5. QED
  BY <1>2, <1>4, SeqOf

LEMMA ForecastAppended ==
    ASSUME NEW cyc \in CycleRecord, NEW lines \in ForecastLines, NEW next,
           next.versions = Append(cyc.versions, lines)
    PROVE  ForecastsOf(next) = Append(ForecastsOf(cyc), lines.masters)
<1> DEFINE old == cyc.versions
           new == Append(old, lines)
<1>1. old \in Seq(ForecastLines)
  BY DEF CycleRecord
<1>2. /\ Len(old) \in Nat /\ DOMAIN old = 1..Len(old)
      /\ DOMAIN new = 1..Len(old) + 1
      /\ \A n \in 1..Len(old) : new[n] = old[n]
      /\ new[Len(old) + 1] = lines
  <2> HIDE DEF old
  <2>1. QED
    BY <1>1
<1>3. ForecastsOf(cyc) \in Seq(SUBSET Master) /\ Len(ForecastsOf(cyc)) = Len(old)
  BY ForecastsType
<1>4. lines.masters \in SUBSET Master
  BY DEF ForecastLines
<1>5. \A n \in 1..Len(old) : ForecastsOf(cyc)[n] = old[n].masters
  BY <1>2 DEF ForecastsOf
<1>6. ForecastsOf(next) = [n \in 1..Len(old) + 1 |-> new[n].masters]
  BY <1>2 DEF ForecastsOf
<1>7. /\ \A n \in 1..Len(old) : n \in 1..Len(old) + 1
      /\ Len(old) + 1 \in 1..Len(old) + 1
  BY <1>2
<1>8. /\ \A n \in 1..Len(old) : ForecastsOf(next)[n] = ForecastsOf(cyc)[n]
      /\ ForecastsOf(next)[Len(old) + 1] = lines.masters
  <2> HIDE DEF old, new
  <2>1. QED
    BY <1>2, <1>5, <1>6, <1>7
<1>9. QED
  <2> HIDE DEF old, new
  <2>1. DOMAIN ForecastsOf(next) = 1..Len(old) + 1
    BY <1>6
  <2>2. ForecastsOf(next) = [n \in DOMAIN ForecastsOf(next) |-> ForecastsOf(next)[n]]
    BY <1>6
  <2>3. QED
    BY <1>3, <1>4, <1>8, <2>1, <2>2, AppendOf

LEMMA QuantitiesType ==
    ASSUME NEW order \in Order
    PROVE  /\ [n \in DOMAIN order.log |-> order.log[n].qty] \in Seq(Qty)
           /\ Quantities(order) \in Seq(Qty) /\ Quantities(order) # <<>>
           /\ Quantities(order)[Len(Quantities(order))] = order.qty
<1> DEFINE before == [n \in DOMAIN order.log |-> order.log[n].qty]
<1>1. order.log \in Seq(Revision) /\ order.qty \in Qty /\ order # NoOrder
  BY NoOrderAssumption DEF Order
<1>2. \A n \in 1..Len(order.log) : order.log[n].qty \in Qty
  <2>1. \A n \in 1..Len(order.log) : order.log[n] \in Revision
    BY <1>1
  <2>2. QED
    BY <2>1 DEF Revision
<1>3. before \in Seq(Qty)
  <2>1. Len(order.log) \in Nat /\ DOMAIN order.log = 1..Len(order.log)
    BY <1>1
  <2>2. before \in [1..Len(order.log) -> Qty]
    BY <1>2, <2>1
  <2>3. QED
    BY <2>1, <2>2, SeqOf
<1>4. Quantities(order) = Append(before, order.qty)
  BY <1>1 DEF Quantities
<1>5. QED
  <2> HIDE DEF before
  <2>1. /\ Append(before, order.qty) \in Seq(Qty) /\ Append(before, order.qty) # <<>>
        /\ Append(before, order.qty)[Len(Append(before, order.qty))] = order.qty
    BY <1>1, <1>3, AppendProperties
  <2>2. QED
    BY <1>3, <1>4, <2>1 DEF before

LEMMA QuantityAppended ==
    ASSUME NEW order \in Order, NEW qty \in Qty
    PROVE  Quantities(ChangedOrder(order, qty)) = Append(Quantities(order), qty)
<1> DEFINE old == order.log
           revision == [qty |-> order.qty, confirmed |-> order.confirmed]
           new == Append(old, revision)
           before == [n \in DOMAIN old |-> old[n].qty]
           after == [n \in DOMAIN new |-> new[n].qty]
<1>1. old \in Seq(Revision) /\ revision \in Revision /\ order.qty \in Qty
  BY DEF Order, Revision
<1>2. /\ Len(old) \in Nat /\ DOMAIN old = 1..Len(old)
      /\ DOMAIN new = 1..Len(old) + 1
      /\ \A n \in 1..Len(old) : new[n] = old[n]
      /\ new[Len(old) + 1] = revision
  <2> HIDE DEF old, revision
  <2>1. QED
    BY <1>1
<1>3. before \in Seq(Qty) /\ Len(before) = Len(old)
  <2>1. before \in Seq(Qty)
    BY QuantitiesType
  <2>2. DOMAIN before = 1..Len(before) /\ Len(before) \in Nat /\ DOMAIN before = 1..Len(old)
    <3>1. DOMAIN before = 1..Len(old)
      BY <1>2
    <3> HIDE DEF before
    <3>2. QED
      BY <2>1, <3>1
  <2>3. QED
    BY <1>2, <2>1, <2>2
<1>4. \A n \in 1..Len(old) : before[n] = old[n].qty
  BY <1>2
<1>5. after = [n \in 1..Len(old) + 1 |-> new[n].qty]
  BY <1>2
<1>6. /\ \A n \in 1..Len(old) : n \in 1..Len(old) + 1
      /\ Len(old) + 1 \in 1..Len(old) + 1
  BY <1>2
<1>7. /\ \A n \in 1..Len(old) : after[n] = before[n]
      /\ after[Len(old) + 1] = order.qty
  <2>1. revision.qty = order.qty
    OBVIOUS
  <2> HIDE DEF before, old, new, after, revision
  <2>2. QED
    BY <1>2, <1>4, <1>5, <1>6, <2>1
<1>8. after = Append(before, order.qty)
  <2> HIDE DEF before, old, new, after
  <2>1. DOMAIN after = 1..Len(old) + 1 /\ after = [n \in DOMAIN after |-> after[n]]
    BY <1>5
  <2>2. QED
    BY <1>1, <1>3, <1>7, <2>1, AppendOf
<1>9. Quantities(order) = Append(before, order.qty)
  BY NoOrderAssumption DEF Quantities, Order
<1>10. ChangedOrder(order, qty) \in Order
  BY <1>1 DEF ChangedOrder, Order
<1>11. Quantities(ChangedOrder(order, qty)) = Append(after, qty)
  BY <1>10, NoOrderAssumption DEF Quantities, ChangedOrder
<1>12. QED
  BY <1>8, <1>9, <1>11

LEMMA OrderDecides ==
    ASSUME NEW cyc \in CycleRecord, NEW p \in Product, NEW qty \in Qty,
           cyc.orders[p] # NoOrder => cyc.orders[p].qty # qty
    PROVE  LET next == WithOrder(cyc, p, qty)
           IN  /\ DecisionsOf(next) = [DecisionsOf(cyc) EXCEPT ![p] = Append(@, qty)]
               /\ ApprovedOf(next) = ApprovedOf(cyc) \ {p}
               /\ DecisionsOf(cyc)[p] # <<>> =>
                      DecisionsOf(cyc)[p][Len(DecisionsOf(cyc)[p])] # qty
<1> DEFINE old == cyc.orders[p]
           new == IF old = NoOrder THEN FirstOrder(qty) ELSE ChangedOrder(old, qty)
           next == WithOrder(cyc, p, qty)
<1>1. cyc.orders \in [Product -> Order \cup {NoOrder}] /\ (old # NoOrder => old \in Order)
  BY DEF CycleRecord
<1>2. next.orders = [cyc.orders EXCEPT ![p] = new]
  BY DEF WithOrder, CycleRecord
<1>3. new \in Order /\ new.confirmed = FALSE /\ Quantities(new) = Append(Quantities(old), qty)
  <2>1. CASE old = NoOrder
    <3>1. FirstOrder(qty) \in Order /\ FirstOrder(qty) # NoOrder
      BY OrdersType, NoOrderAssumption
    <3>2. [n \in DOMAIN <<>> |-> FirstOrder(qty).log[n].qty] = <<>>
      OBVIOUS
    <3>3. FirstOrder(qty).log = <<>> /\ FirstOrder(qty).qty = qty
      BY DEF FirstOrder
    <3>4. Quantities(FirstOrder(qty)) = Append(<<>>, qty)
      BY <3>1, <3>2, <3>3 DEF Quantities
    <3>5. QED
      BY <2>1, <3>1, <3>4 DEF Quantities, FirstOrder
  <2>2. CASE old # NoOrder
    <3>1. old \in Order
      BY <1>1, <2>2
    <3>2. ChangedOrder(old, qty) \in Order
      BY <3>1, OrdersType
    <3>3. QED
      BY <2>2, <3>1, <3>2, QuantityAppended DEF ChangedOrder
  <2>3. QED
    BY <2>1, <2>2
<1>4. new # NoOrder
  BY <1>3, NoOrderAssumption
<1>5. /\ DecisionsOf(next) = [DecisionsOf(cyc) EXCEPT ![p] = Append(@, qty)]
      /\ ApprovedOf(next) = ApprovedOf(cyc) \ {p}
  <2> HIDE DEF old, new, next
  <2>1. \A q \in Product : next.orders[q] = IF q = p THEN new ELSE cyc.orders[q]
    BY <1>1, <1>2
  <2>2. DecisionsOf(next) = [DecisionsOf(cyc) EXCEPT ![p] = Append(@, qty)]
    BY <1>3, <2>1 DEF DecisionsOf, old
  <2>3. ApprovedOf(next) = ApprovedOf(cyc) \ {p}
    BY <1>3, <1>4, <2>1 DEF ApprovedOf, Ordered
  <2>4. QED
    BY <2>2, <2>3
<1>6. DecisionsOf(cyc)[p] = Quantities(old)
  BY DEF DecisionsOf
<1>7. old # NoOrder => Quantities(old)[Len(Quantities(old))] # qty
  BY <1>1, QuantitiesType
<1>8. old = NoOrder => Quantities(old) = <<>>
  BY DEF Quantities
<1>9. QED
  <2> HIDE DEF old, next
  <2>1. QED
    BY <1>5, <1>6, <1>7, <1>8 DEF next

LEMMA Decides ==
    ASSUME NEW cyc \in CycleRecord
    PROVE  {p \in Product : DecisionsOf(cyc)[p] # <<>>} = Ordered(cyc)
<1>1. \A p \in Product : cyc.orders[p] # NoOrder => cyc.orders[p] \in Order
  BY DEF CycleRecord
<1>2. \A p \in Product : DecisionsOf(cyc)[p] = Quantities(cyc.orders[p])
  BY DEF DecisionsOf
<1>3. \A p \in Product : cyc.orders[p] # NoOrder <=> Quantities(cyc.orders[p]) # <<>>
  BY <1>1, QuantitiesType DEF Quantities
<1>4. QED
  BY <1>2, <1>3 DEF Ordered

LEMMA ConfirmationApproves ==
    ASSUME NEW cyc \in CycleRecord, NEW p \in Product, cyc.orders[p] # NoOrder
    PROVE  LET next == WithConfirmation(cyc, p)
           IN  /\ DecisionsOf(next) = DecisionsOf(cyc)
               /\ ApprovedOf(next) = ApprovedOf(cyc) \cup {p}
<1> DEFINE old == cyc.orders[p]
           new == [old EXCEPT !.confirmed = TRUE]
           next == WithConfirmation(cyc, p)
<1>1. cyc.orders \in [Product -> Order \cup {NoOrder}] /\ old \in Order
  BY DEF CycleRecord
<1>2. next.orders = [cyc.orders EXCEPT ![p] = new]
  BY DEF WithConfirmation, CycleRecord
<1>3. new \in Order /\ new.confirmed = TRUE /\ new.qty = old.qty /\ new.log = old.log
  BY <1>1 DEF Order
<1>4. old # NoOrder /\ new # NoOrder
  BY <1>1, <1>3, NoOrderAssumption
<1>5. Quantities(new) = Quantities(old)
  BY <1>3, <1>4 DEF Quantities
<1>6. QED
  <2> HIDE DEF old, new, next
  <2>1. \A q \in Product : next.orders[q] = IF q = p THEN new ELSE cyc.orders[q]
    BY <1>1, <1>2
  <2>2. DecisionsOf(next) = DecisionsOf(cyc)
    BY <1>5, <2>1 DEF DecisionsOf, old
  <2>3. ApprovedOf(next) = ApprovedOf(cyc) \cup {p}
    BY <1>3, <1>4, <2>1 DEF ApprovedOf, Ordered, old
  <2>4. QED
    BY <2>2, <2>3 DEF next

-----------------------------------------------------------------------------
(* Every step is a step of the book *)

Rows == db \in [Cycle -> CycleRecord]

\* One cycle of the book changes when its row does.
BookChanges(c, next) ==
    /\ [d \in Cycle |-> db'[d].status] =
           [[d \in Cycle |-> db[d].status] EXCEPT ![c] = next.status]
    /\ [d \in Cycle |-> PlanOf(db'[d])] =
           [[d \in Cycle |-> PlanOf(db[d])] EXCEPT ![c] = PlanOf(next)]
    /\ [d \in Cycle |-> ForecastsOf(db'[d])] =
           [[d \in Cycle |-> ForecastsOf(db[d])] EXCEPT ![c] = ForecastsOf(next)]
    /\ [d \in Cycle |-> DecisionsOf(db'[d])] =
           [[d \in Cycle |-> DecisionsOf(db[d])] EXCEPT ![c] = DecisionsOf(next)]
    /\ [d \in Cycle |-> ApprovedOf(db'[d])] =
           [[d \in Cycle |-> ApprovedOf(db[d])] EXCEPT ![c] = ApprovedOf(next)]
    /\ [d \in Cycle |-> db'[d].archive] =
           [[d \in Cycle |-> db[d].archive] EXCEPT ![c] = next.archive]

LEMMA RowChanges ==
    ASSUME Rows, NEW c \in Cycle, NEW next, db' = [db EXCEPT ![c] = next]
    PROVE  BookChanges(c, next)
<1>1. \A d \in Cycle : db'[d] = IF d = c THEN next ELSE db[d]
  BY DEF Rows
<1>2. \A d \in Cycle :
        /\ PlanOf(db'[d]) = IF d = c THEN PlanOf(next) ELSE PlanOf(db[d])
        /\ ForecastsOf(db'[d]) = IF d = c THEN ForecastsOf(next) ELSE ForecastsOf(db[d])
        /\ DecisionsOf(db'[d]) = IF d = c THEN DecisionsOf(next) ELSE DecisionsOf(db[d])
        /\ ApprovedOf(db'[d]) = IF d = c THEN ApprovedOf(next) ELSE ApprovedOf(db[d])
        /\ db'[d].status = IF d = c THEN next.status ELSE db[d].status
        /\ db'[d].archive = IF d = c THEN next.archive ELSE db[d].archive
  BY <1>1
<1>3. [d \in Cycle |-> PlanOf(db'[d])] =
          [[d \in Cycle |-> PlanOf(db[d])] EXCEPT ![c] = PlanOf(next)]
  BY <1>2
<1>4. [d \in Cycle |-> ForecastsOf(db'[d])] =
          [[d \in Cycle |-> ForecastsOf(db[d])] EXCEPT ![c] = ForecastsOf(next)]
  BY <1>2
<1>5. [d \in Cycle |-> DecisionsOf(db'[d])] =
          [[d \in Cycle |-> DecisionsOf(db[d])] EXCEPT ![c] = DecisionsOf(next)]
  BY <1>2
<1>6. [d \in Cycle |-> ApprovedOf(db'[d])] =
          [[d \in Cycle |-> ApprovedOf(db[d])] EXCEPT ![c] = ApprovedOf(next)]
  BY <1>2
<1>7. [d \in Cycle |-> db'[d].status] =
          [[d \in Cycle |-> db[d].status] EXCEPT ![c] = next.status]
  BY <1>2
<1>8. [d \in Cycle |-> db'[d].archive] =
          [[d \in Cycle |-> db[d].archive] EXCEPT ![c] = next.archive]
  BY <1>2
<1>9. QED
  BY <1>3, <1>4, <1>5, <1>6, <1>7, <1>8 DEF BookChanges

LEMMA CreatesBook ==
    ASSUME Rows, NEW c \in Cycle, CreateCycle(c)
    PROVE  Book!Create(c)
<1> DEFINE next == [db[c] EXCEPT !.status = "OPEN"]
<1>1. db[c] \in CycleRecord /\ db[c].status = "ABSENT" /\ db' = [db EXCEPT ![c] = next]
  BY DEF Rows, CreateCycle
<1>2. /\ next.status = "OPEN" /\ next.archive = db[c].archive
      /\ PlanOf(next) = PlanOf(db[c]) /\ ForecastsOf(next) = ForecastsOf(db[c])
      /\ DecisionsOf(next) = DecisionsOf(db[c]) /\ ApprovedOf(next) = ApprovedOf(db[c])
  BY <1>1 DEF CycleRecord, PlanOf, ForecastsOf, DecisionsOf, ApprovedOf, Ordered
<1>3. QED
  <2> HIDE DEF next
  <2>1. BookChanges(c, next)
    BY <1>1, RowChanges
  <2>2. QED
    BY <1>1, <1>2, <2>1 DEF BookChanges, Book!Create

LEMMA SourcesBook ==
    ASSUME Rows, NEW c \in Cycle, NEW r \in SourcesRequest, db[c].status = "OPEN",
           r.forecast \in 0..Len(db[c].versions),
           db' = [db EXCEPT ![c] = WithSources(db[c], r)]
    PROVE  Book!ChangePlan(c)
<1> DEFINE next == WithSources(db[c], r)
           selection == Chosen(r.bound, r.incoming)
<1>1. db[c] \in CycleRecord
  BY DEF Rows
<1>2. /\ next.status = db[c].status /\ next.archive = db[c].archive
      /\ PlanOf(next) = [selection |-> selection, adopted |-> r.forecast]
      /\ ForecastsOf(next) = ForecastsOf(db[c])
      /\ DecisionsOf(next) = DecisionsOf(db[c]) /\ ApprovedOf(next) = ApprovedOf(db[c])
  BY <1>1 DEF CycleRecord, WithSources, PlanOf, ForecastsOf, DecisionsOf, ApprovedOf, Ordered
<1>3. selection \in SelectionsOf(SUBSET Slice, Incoming \cup {NoIncoming})
  BY DEF SelectionsOf, SourcesRequest
<1>4. Len(ForecastsOf(db[c])) = Len(db[c].versions)
  BY <1>1, ForecastsType
<1>5. QED
  <2> HIDE DEF next, selection
  <2>1. BookChanges(c, next)
    BY RowChanges DEF next
  <2>2. [d \in Cycle |-> PlanOf(db[d])]' =
            [[d \in Cycle |-> PlanOf(db[d])] EXCEPT ![c] = Book!Plan(selection, r.forecast)]
    BY <1>2, <2>1 DEF BookChanges, Book!Plan
  <2>3. r.forecast \in 0..Len([d \in Cycle |-> ForecastsOf(db[d])][c])
    BY <1>4
  <2>4. UNCHANGED <<[d \in Cycle |-> db[d].status], [d \in Cycle |-> ForecastsOf(db[d])],
                    [d \in Cycle |-> DecisionsOf(db[d])], [d \in Cycle |-> ApprovedOf(db[d])],
                    [d \in Cycle |-> db[d].archive]>>
    BY <1>2, <2>1 DEF BookChanges
  <2>5. QED
    BY <1>3, <2>2, <2>3, <2>4 DEF Book!ChangePlan

LEMMA ForecastBook ==
    ASSUME Rows, NEW c \in Cycle, NEW lines \in ForecastLines, db[c].status = "OPEN",
           NEW next, next \in {WithVersion(db[c], lines), WithForecast(db[c], lines)},
           db' = [db EXCEPT ![c] = next]
    PROVE  Book!Forecast(c)
<1>1. db[c] \in CycleRecord
  BY DEF Rows
<1>2. /\ next.status = db[c].status /\ next.archive = db[c].archive
      /\ next.versions = Append(db[c].versions, lines)
      /\ next.bound = db[c].bound /\ next.incoming = db[c].incoming
      /\ next.orders = db[c].orders
      /\ next.adopted \in {db[c].adopted, Len(db[c].versions) + 1}
  BY <1>1 DEF CycleRecord, WithVersion, WithForecast
<1>3. /\ PlanOf(next) = [PlanOf(db[c]) EXCEPT !.adopted = next.adopted]
      /\ PlanOf(db[c]).adopted = db[c].adopted
      /\ DecisionsOf(next) = DecisionsOf(db[c]) /\ ApprovedOf(next) = ApprovedOf(db[c])
  BY <1>2 DEF PlanOf, DecisionsOf, ApprovedOf, Ordered
<1>4. ForecastsOf(next) = Append(ForecastsOf(db[c]), lines.masters)
  BY <1>1, <1>2, ForecastAppended
<1>5. Len(ForecastsOf(db[c])) = Len(db[c].versions) /\ lines.masters \in SUBSET Master
  BY <1>1, ForecastsType DEF ForecastLines
<1>6. BookChanges(c, next)
  BY RowChanges
<1>7. [d \in Cycle |-> ForecastsOf(db[d])]' =
          [[d \in Cycle |-> ForecastsOf(db[d])] EXCEPT ![c] = Append(@, lines.masters)]
  BY <1>4, <1>6 DEF BookChanges
<1>8. [d \in Cycle |-> PlanOf(db[d])]' =
          [[d \in Cycle |-> PlanOf(db[d])] EXCEPT ![c].adopted = next.adopted]
  BY <1>3, <1>6 DEF BookChanges
<1>9. next.adopted \in {[d \in Cycle |-> PlanOf(db[d])][c].adopted,
                        Len([d \in Cycle |-> ForecastsOf(db[d])][c]) + 1}
  BY <1>2, <1>3, <1>5
<1>10. UNCHANGED <<[d \in Cycle |-> db[d].status], [d \in Cycle |-> DecisionsOf(db[d])],
                   [d \in Cycle |-> ApprovedOf(db[d])], [d \in Cycle |-> db[d].archive]>>
  BY <1>2, <1>3, <1>6 DEF BookChanges
<1>11. QED
  BY <1>5, <1>7, <1>8, <1>9, <1>10 DEF Book!Forecast

LEMMA OrderBook ==
    ASSUME Rows, NEW c \in Cycle, NEW p \in Product, NEW qty \in Qty, db[c].status = "OPEN",
           db' = [db EXCEPT ![c] = WithOrder(db[c], p, qty)]
    PROVE  db' = db \/ Book!Decide(c, p, qty)
<1> DEFINE next == WithOrder(db[c], p, qty)
<1>1. db[c] \in CycleRecord
  BY DEF Rows
<1>2. CASE db[c].orders[p] # NoOrder /\ db[c].orders[p].qty = qty
  <2>1. next = db[c]
    BY <1>1, <1>2 DEF WithOrder, CycleRecord
  <2>2. QED
    BY <2>1 DEF Rows
<1>3. CASE db[c].orders[p] # NoOrder => db[c].orders[p].qty # qty
  <2>1. /\ next.status = db[c].status /\ next.archive = db[c].archive
        /\ PlanOf(next) = PlanOf(db[c]) /\ ForecastsOf(next) = ForecastsOf(db[c])
    BY <1>1 DEF CycleRecord, WithOrder, PlanOf, ForecastsOf
  <2>2. /\ DecisionsOf(next) = [DecisionsOf(db[c]) EXCEPT ![p] = Append(@, qty)]
        /\ ApprovedOf(next) = ApprovedOf(db[c]) \ {p}
        /\ DecisionsOf(db[c])[p] # <<>> =>
               DecisionsOf(db[c])[p][Len(DecisionsOf(db[c])[p])] # qty
    <3> DEFINE cyc == db[c]
    <3>1. cyc \in CycleRecord /\ (cyc.orders[p] # NoOrder => cyc.orders[p].qty # qty)
      BY <1>1, <1>3
    <3> HIDE DEF cyc, next
    <3>2. LET after == WithOrder(cyc, p, qty)
          IN  /\ DecisionsOf(after) = [DecisionsOf(cyc) EXCEPT ![p] = Append(@, qty)]
              /\ ApprovedOf(after) = ApprovedOf(cyc) \ {p}
              /\ DecisionsOf(cyc)[p] # <<>> =>
                     DecisionsOf(cyc)[p][Len(DecisionsOf(cyc)[p])] # qty
      BY <3>1, OrderDecides
    <3>3. QED
      BY <3>2 DEF cyc, next
  <2>3. QED
    <3> HIDE DEF next
    <3>1. BookChanges(c, next)
      BY RowChanges DEF next
    <3>2. Book!Decide(c, p, qty)
      BY <2>1, <2>2, <3>1 DEF BookChanges, Book!Decide
    <3>3. QED
      BY <3>2
<1>4. QED
  BY <1>2, <1>3

LEMMA ConfirmationBook ==
    ASSUME Rows, NEW c \in Cycle, NEW p \in Product, db[c].status = "OPEN",
           db[c].orders[p] # NoOrder,
           db' = [db EXCEPT ![c] = WithConfirmation(db[c], p)]
    PROVE  Book!Approve(c, p)
<1> DEFINE next == WithConfirmation(db[c], p)
<1>1. db[c] \in CycleRecord
  BY DEF Rows
<1>2. /\ next.status = db[c].status /\ next.archive = db[c].archive
      /\ PlanOf(next) = PlanOf(db[c]) /\ ForecastsOf(next) = ForecastsOf(db[c])
  BY <1>1 DEF CycleRecord, WithConfirmation, PlanOf, ForecastsOf
<1>3. /\ DecisionsOf(next) = DecisionsOf(db[c])
      /\ ApprovedOf(next) = ApprovedOf(db[c]) \cup {p}
  BY <1>1, ConfirmationApproves
<1>4. p \in {q \in Product : DecisionsOf(db[c])[q] # <<>>}
  BY <1>1, Decides DEF Ordered
<1>5. QED
  <2> HIDE DEF next
  <2>1. BookChanges(c, next)
    BY RowChanges DEF next
  <2>2. QED
    BY <1>2, <1>3, <1>4, <2>1 DEF BookChanges, Book!Approve, Book!Decided

\* What a closing does with the selection, the forecast and the kept masters it picks.
ClosesWith(c, chosen, i, k) ==
    /\ Book!Kept(c, chosen) \subseteq k
    /\ [d \in Cycle |-> PlanOf(db[d])]' =
           [[d \in Cycle |-> PlanOf(db[d])] EXCEPT ![c] = Book!Plan(chosen, i)]
    /\ \E current \in [Master -> Name] :
           [d \in Cycle |-> db[d].archive]' =
               [[d \in Cycle |-> db[d].archive] EXCEPT ![c] =
                   [m \in Master |-> IF m \in k THEN current[m] ELSE NoName]]

\* What the lock leaves of an open row, with its selection, forecast, kept masters and names.
ClosedRow(cyc, next, chosen, i, k, seen) ==
    /\ chosen \in SelectionsOf(SUBSET Slice, Incoming \cup {NoIncoming})
    /\ i \in 1..Len(ForecastsOf(cyc))
    /\ k \in SUBSET Master
    /\ next.status = "LOCKED"
    /\ next.archive = [m \in Master |-> IF m \in k THEN seen[m] ELSE NoName]
    /\ PlanOf(next) = [selection |-> chosen, adopted |-> i]
    /\ ForecastsOf(next) = ForecastsOf(cyc)
    /\ DecisionsOf(next) = DecisionsOf(cyc) /\ ApprovedOf(next) = ApprovedOf(cyc)
    /\ Ordered(cyc) # {} /\ Ordered(cyc) = ApprovedOf(cyc)
    /\ ShownBy(chosen) \cup Ordered(cyc)
           \cup UNION {ForecastsOf(cyc)[n] : n \in DOMAIN ForecastsOf(cyc)} \subseteq k

LEMMA ClosesBook ==
    ASSUME Rows, NEW c \in Cycle, NEW next, BookChanges(c, next), db[c].status = "OPEN",
           NEW chosen, NEW i, NEW k, NEW seen \in [Master -> Name],
           ClosedRow(db[c], next, chosen, i, k, seen)
    PROVE  Book!Close(c)
<1> USE DEF ClosedRow
<1>1. {p \in Product : DecisionsOf(db[c])[p] # <<>>} = Ordered(db[c])
  BY Decides DEF Rows
<1>2. Book!Decided(c) # {} /\ Book!Decided(c) = [d \in Cycle |-> ApprovedOf(db[d])][c]
  BY <1>1 DEF Book!Decided
<1>3. Book!Kept(c, chosen) \subseteq k
  BY <1>1 DEF Book!Kept, Book!Decided
<1>4. [d \in Cycle |-> PlanOf(db[d])]' =
          [[d \in Cycle |-> PlanOf(db[d])] EXCEPT ![c] = Book!Plan(chosen, i)]
  BY DEF BookChanges, Book!Plan
<1>5. [d \in Cycle |-> db[d].archive]' =
          [[d \in Cycle |-> db[d].archive] EXCEPT ![c] =
              [m \in Master |-> IF m \in k THEN seen[m] ELSE NoName]]
  BY DEF BookChanges
<1>6. [d \in Cycle |-> db[d].status]' = [[d \in Cycle |-> db[d].status] EXCEPT ![c] = "LOCKED"]
  BY DEF BookChanges
<1>7. UNCHANGED <<[d \in Cycle |-> ForecastsOf(db[d])], [d \in Cycle |-> DecisionsOf(db[d])],
                  [d \in Cycle |-> ApprovedOf(db[d])]>>
  <2>1. UNCHANGED [d \in Cycle |-> ForecastsOf(db[d])]
    BY DEF BookChanges
  <2>2. UNCHANGED [d \in Cycle |-> DecisionsOf(db[d])]
    BY DEF BookChanges
  <2>3. UNCHANGED [d \in Cycle |-> ApprovedOf(db[d])]
    BY DEF BookChanges
  <2>4. QED
    BY <2>1, <2>2, <2>3
<1>8. i \in 1..Len([d \in Cycle |-> ForecastsOf(db[d])][c])
  OBVIOUS
<1>9. [d \in Cycle |-> db[d].status][c] = "OPEN"
  OBVIOUS
<1>10. ClosesWith(c, chosen, i, k)
  BY <1>3, <1>4, <1>5 DEF ClosesWith
<1>11. \E s \in SelectionsOf(SUBSET Slice, Incoming \cup {NoIncoming}),
          n \in 1..Len([d \in Cycle |-> ForecastsOf(db[d])][c]), kept \in SUBSET Master :
        ClosesWith(c, s, n, kept)
  BY <1>8, <1>10
<1>12. QED
  BY <1>2, <1>6, <1>7, <1>9, <1>11 DEF Book!Close, ClosesWith

\* The lock keeps a name for everything the book's reader meets.
LEMMA LockBook ==
    ASSUME Rows, NEW c \in Cycle, NEW incoming \in Incoming, NEW n, NEW seen \in [Master -> Name],
           db[c].status = "OPEN", Lockable(db[c], n),
           db' = [db EXCEPT ![c] = WithLock(db[c], incoming, n, seen)]
    PROVE  Book!Close(c)
<1> DEFINE cyc == db[c]
           next == WithLock(cyc, incoming, n, seen)
           selection == Chosen(cyc.bound, incoming)
           kept == Archived(cyc, incoming)
<1>1. cyc \in CycleRecord
  BY DEF Rows
<1>2. /\ next.status = "LOCKED"
      /\ next.archive = [m \in Master |-> IF m \in kept THEN seen[m] ELSE NoName]
      /\ PlanOf(next) = [selection |-> selection, adopted |-> n]
      /\ ForecastsOf(next) = ForecastsOf(cyc)
      /\ DecisionsOf(next) = DecisionsOf(cyc) /\ ApprovedOf(next) = ApprovedOf(cyc)
  BY <1>1 DEF CycleRecord, WithLock, PlanOf, ForecastsOf, DecisionsOf, ApprovedOf, Ordered
<1>3. selection \in SelectionsOf(SUBSET Slice, Incoming \cup {NoIncoming})
  <2>1. cyc.bound \in SUBSET Slice
    BY <1>1 DEF CycleRecord
  <2> HIDE DEF cyc
  <2>2. QED
    BY <2>1 DEF SelectionsOf
<1>4. n \in 1..Len(ForecastsOf(cyc))
  <2> HIDE DEF cyc
  <2>1. cyc.versions \in Seq(ForecastLines) /\ n \in DOMAIN cyc.versions
    BY <1>1 DEF CycleRecord, Lockable, cyc
  <2>2. QED
    BY <1>1, <2>1, ForecastsType
<1>5. Ordered(cyc) # {} /\ Ordered(cyc) = ApprovedOf(cyc)
  BY DEF Lockable, ApprovedOf
<1>6. kept \in SUBSET Master
  <2> HIDE DEF cyc
  <2>1. QED
    BY <1>1, ArchivedMasters
<1>7. ShownBy(selection) \cup Ordered(cyc)
          \cup UNION {ForecastsOf(cyc)[i] : i \in DOMAIN ForecastsOf(cyc)} \subseteq kept
  BY DEF ShownBy, Chosen, Archived, ForecastsOf, ForecastMasters
<1>8. QED
  <2> HIDE DEF cyc, next, selection, kept
  <2>1. BookChanges(c, next)
    BY RowChanges DEF next, cyc
  <2>2. ClosedRow(cyc, next, selection, n, kept, seen)
    BY <1>2, <1>3, <1>4, <1>5, <1>6, <1>7 DEF ClosedRow
  <2>3. QED
    BY <2>1, <2>2, ClosesBook DEF cyc

LEMMA LockEffectBook ==
    ASSUME Rows, NEW c \in Cycle, NEW incoming \in Incoming, NEW n, NEW next,
           db[c].status = "OPEN", Lockable(db[c], n), db' = [db EXCEPT ![c] = next],
           \E seen \in [Master -> Name] : next = WithLock(db[c], incoming, n, seen)
    PROVE  Book!BookNext
<1>1. Book!Close(c)
  BY LockBook
<1>2. QED
  BY <1>1 DEF Book!BookNext

LEMMA CommitBook ==
    ASSUME IInv, NEW t \in Thread, Commit(t)
    PROVE  db' = db \/ Book!BookNext
<1> DEFINE r == job[t].request
           c == r.cycle
           next == job[t].next
<1>1. Rows
  BY DEF Rows, IInv, CycleTypeOK
<1>2. r \in Request /\ db[c].status = "OPEN" /\ Effect(r, db[c], next)
  BY CommitInv
<1>3. db' = [db EXCEPT ![c] = next]
  BY DEF Commit
<1> HIDE DEF r, next
<1>4. c \in Cycle
  BY <1>2, RequestKinds
<1> HIDE DEF c
<1>5. CASE r.op = "SOURCES"
  <2>1. r \in SourcesRequest /\ r.forecast \in 0..Len(db[c].versions) /\ next = WithSources(db[c], r)
    BY <1>2, <1>5, RequestKinds DEF Effect
  <2>2. Book!ChangePlan(c)
    BY <1>1, <1>2, <1>3, <1>4, <2>1, SourcesBook
  <2>3. QED
    BY <1>4, <2>2 DEF Book!BookNext
<1>6. CASE r.op \in {"SAVE", "WRITE"}
  <2>1. r.lines \in ForecastLines
    BY <1>2, <1>6, RequestKinds DEF SaveRequest, WriteRequest
  <2>2. next \in {WithVersion(db[c], r.lines), WithForecast(db[c], r.lines)}
    BY <1>2, <1>6 DEF Effect
  <2>3. Book!Forecast(c)
    BY <1>1, <1>2, <1>3, <1>4, <2>1, <2>2, ForecastBook
  <2>4. QED
    BY <1>4, <2>3 DEF Book!BookNext
<1>7. CASE r.op = "ORDER"
  <2>1. r.product \in Product /\ r.qty \in Qty
    BY <1>2, <1>7, RequestKinds DEF OrderRequest
  <2>2. next = WithOrder(db[c], r.product, r.qty)
    BY <1>2, <1>7 DEF Effect
  <2>3. db' = db \/ Book!Decide(c, r.product, r.qty)
    BY <1>1, <1>2, <1>3, <1>4, <2>1, <2>2, OrderBook
  <2>4. QED
    BY <1>4, <2>1, <2>3 DEF Book!BookNext
<1>8. CASE r.op = "CONFIRM"
  <2>1. r.product \in Product
    BY <1>2, <1>8, RequestKinds DEF ConfirmRequest
  <2>2. db[c].orders[r.product] # NoOrder /\ next = WithConfirmation(db[c], r.product)
    BY <1>2, <1>8 DEF Effect
  <2>3. Book!Approve(c, r.product)
    BY <1>1, <1>2, <1>3, <1>4, <2>1, <2>2, ConfirmationBook
  <2>4. QED
    BY <1>4, <2>1, <2>3 DEF Book!BookNext
<1>9. CASE r.op = "LOCK"
  <2>1. r.incoming \in Incoming
    BY <1>2, <1>9, RequestKinds DEF LockRequest
  <2>2. \E seen \in [Master -> Name] : next = WithLock(db[c], r.incoming, r.forecast, seen)
    BY <1>2, <1>9 DEF Effect
  <2>3. Lockable(db[c], r.forecast)
    BY <1>2, <1>9 DEF Effect
  <2>4. QED
    BY <1>1, <1>2, <1>3, <1>4, <2>1, <2>2, <2>3, LockEffectBook
<1>10. QED
  BY <1>2, <1>5, <1>6, <1>7, <1>8, <1>9 DEF Effect

LEMMA InitBook == Init => Book!BookInit
<1> SUFFICES ASSUME Init PROVE Book!BookInit
  OBVIOUS
<1>1. \A c \in Cycle : db[c] = EmptyCycle
  BY DEF Init
<1>2. /\ EmptyCycle.status = "ABSENT"
      /\ EmptyCycle.archive = [m \in Master |-> NoName]
      /\ PlanOf(EmptyCycle) = [selection |-> Chosen({}, NoIncoming), adopted |-> 0]
      /\ \A p \in Product : EmptyCycle.orders[p] = NoOrder
      /\ EmptyCycle.versions = <<>>
  BY DEF EmptyCycle, PlanOf
<1>3. ForecastsOf(EmptyCycle) = <<>>
  BY <1>2 DEF ForecastsOf
<1>4. DecisionsOf(EmptyCycle) = [p \in Product |-> <<>>]
  BY <1>2 DEF DecisionsOf, Quantities
<1>5. ApprovedOf(EmptyCycle) = {}
  BY <1>2 DEF ApprovedOf, Ordered
<1>6. QED
  <2> DEFINE empty == EmptyCycle
  <2>1. /\ [c \in Cycle |-> db[c].status] = [c \in Cycle |-> empty.status]
        /\ [c \in Cycle |-> PlanOf(db[c])] = [c \in Cycle |-> PlanOf(empty)]
        /\ [c \in Cycle |-> ForecastsOf(db[c])] = [c \in Cycle |-> ForecastsOf(empty)]
        /\ [c \in Cycle |-> DecisionsOf(db[c])] = [c \in Cycle |-> DecisionsOf(empty)]
        /\ [c \in Cycle |-> ApprovedOf(db[c])] = [c \in Cycle |-> ApprovedOf(empty)]
        /\ [c \in Cycle |-> db[c].archive] = [c \in Cycle |-> empty.archive]
    BY <1>1
  <2> HIDE DEF empty
  <2>2. QED
    BY <1>2, <1>3, <1>4, <1>5, <2>1 DEF empty, Book!BookInit, Book!Plan

LEMMA BookStutters == UNCHANGED db => UNCHANGED Book!bookVars
BY DEF Book!bookVars

LEMMA NextBook == IInv /\ [Next]_vars => [Book!BookNext]_(Book!bookVars)
<1> SUFFICES ASSUME IInv, [Next]_vars PROVE Book!BookNext \/ UNCHANGED Book!bookVars
  OBVIOUS
<1>1. ASSUME NEW c \in Cycle, CreateCycle(c) PROVE Book!BookNext
  <2>1. Book!Create(c)
    BY <1>1, CreatesBook DEF Rows, IInv, CycleTypeOK
  <2>2. QED
    BY <2>1 DEF Book!BookNext
<1>2. QED
  BY <1>1, CommitBook, RowSteps, BookStutters

\* Locking the row, adopting by number and logging the old revision implement, for any
\* number of cycles, threads and requests, a cycle that only appends and closes whole.
THEOREM Refinement == Spec => ImplementsPlanningBook
BY InitBook, NextBook, Invariance, PTL DEF Spec, ImplementsPlanningBook, Book!BookSpec
=============================================================================

----------------------------- MODULE LotLifecycle ----------------------------
(***************************************************************************)
(* The life of a production lot, a product and a production date, as       *)
(* production_lot_lifecycle.py computes it from selected inventory         *)
(* versions, and what the page of a cycle makes of the stored results.     *)
(* A selection is a function from version keys to [month, rows].  No       *)
(* return policy is configured in this edition.                            *)
(***************************************************************************)
EXTENDS DatasetImport, Sequences

CONSTANT NoMonth

\* Versions are selected once each and never two of one month.
Selectable(selection) ==
    \A k, l \in DOMAIN selection : selection[k].month = selection[l].month => k = l

LotOf(r) == <<r.product, r.date>>

LotRows(version, lot) == {r \in Planning(version.rows) : LotOf(r) = lot}

LotsOf(selection) ==
    UNION {{LotOf(r) : r \in Planning(selection[k].rows)} : k \in DOMAIN selection}

\* The versions in which a lot was seen.
SourcesOf(selection, lot) == {k \in DOMAIN selection : LotRows(selection[k], lot) # {}}

\* Versions of different months, sorted by month.
InMonthOrder(selection, keys) ==
    CHOOSE s \in [1 .. Cardinality(keys) -> keys] :
        \A i, j \in DOMAIN s : i < j => selection[s[i]].month < selection[s[j]].month

\* Its balances in the months it was seen, in their order.
Observations(selection, lot) ==
    LET inOrder == InMonthOrder(selection, SourcesOf(selection, lot))
    IN  [i \in DOMAIN inOrder |->
            [month |-> selection[inOrder[i]].month,
             qty |-> Balances(LotRows(selection[inOrder[i]], lot))]]

\* Mutant: the last month is taken, not the first of the zero months at the end.
LastZero(obs) ==
    IF obs[Len(obs)].qty["ending"] = 0 THEN obs[Len(obs)].month ELSE NoMonth

\* Going back from the last month while the month before also ends at zero.
TerminalSoldOutMonth(obs) ==
    LET back[i \in 1 .. Len(obs)] ==
            IF i > 1 /\ obs[i - 1].qty["ending"] = 0 THEN back[i - 1] ELSE i
    IN  IF obs[Len(obs)].qty["ending"] = 0 THEN obs[back[Len(obs)]].month ELSE NoMonth

FirstReceiptMonth(obs) ==
    LET received == {i \in DOMAIN obs : obs[i].qty["receipt"] > 0}
    IN  IF received = {} THEN NoMonth ELSE obs[Min(received)].month

PreExisting(obs) == obs[1].qty["opening"] > 0

\* Rows of a lot that never held stock nor received any are not a life.
HasLife(obs) == PreExisting(obs) \/ FirstReceiptMonth(obs) # NoMonth

Lifecycle(obs) ==
    LET inbound == IF PreExisting(obs) THEN NoMonth ELSE FirstReceiptMonth(obs)
        soldOut == TerminalSoldOutMonth(obs)
    IN  [state |-> IF soldOut # NoMonth THEN "SOLD_OUT"
                   ELSE IF PreExisting(obs) THEN "PRE_EXISTING" ELSE "ACTIVE",
         inbound |-> inbound,
         soldOut |-> soldOut,
         consumption |-> IF inbound # NoMonth /\ soldOut # NoMonth
                         THEN soldOut - inbound + 1 ELSE 0]

\* The results of one calculation: the lots with a life.
Lifecycles(selection) ==
    [lot \in {l \in LotsOf(selection) : HasLife(Observations(selection, l))} |->
        [values |-> Lifecycle(Observations(selection, lot)),
         sources |-> SourcesOf(selection, lot)]]

\* The checks of the table: months in order, at least one month consumed.
Storable(values) ==
    values.inbound # NoMonth /\ values.soldOut # NoMonth =>
        /\ values.inbound <= values.soldOut
        /\ values.consumption >= 1

-----------------------------------------------------------------------------
(* The page of a cycle: r in revisions is a result with its sources. *)

\* The results that cover the sources of all the others.
Covering(candidates) ==
    {r \in candidates : \A q \in candidates : q.sources \subseteq r.sources}

\* What the page says of a lot: nothing, one result, or that it cannot tell.
LotLine(candidates) ==
    IF candidates = {} THEN {}
    ELSE IF Cardinality(Covering(candidates)) = 1 THEN Covering(candidates)
    ELSE candidates \cup {Blank}

\* The SKU facts of a product add up to its product fact.
Reconciled(version, p) ==
    /\ p \in DOMAIN version.facts.product
    /\ LET skus == {s \in DOMAIN version.facts.sku : version.facts.sku[s].product = p}
       IN  /\ skus # {}
           /\ MapThenSumSet(LAMBDA s : version.facts.sku[s].qty["ending"], skus)
                = version.facts.product[p]["ending"]

\* The quantities left of the lots of a product, while its stored rows add up
\* too.
Remaining(version, p) ==
    LET mine == {r \in Planning(version.rows) : r.product = p}
        byLot == Grouped(mine, [r \in mine |-> LotOf(r)])
    IN  IF Reconciled(version, p)
             /\ StoredSum(mine, "ending") = version.facts.product[p]["ending"]
        THEN [lot \in DOMAIN byLot |-> StoredSum(byLot[lot], "ending")]
        ELSE [lot \in {} |-> 0]
=============================================================================

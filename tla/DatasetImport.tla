---------------------------- MODULE DatasetImport ----------------------------
(***************************************************************************)
(* The import contracts of the planning datasets (webapp/ordering): what a *)
(* preview finds in the rows of a monthly inventory, of actual sales and   *)
(* of incoming shipments, and the facts a commit derives from the rows.    *)
(* A row is a number and its cells; a cell is blank, does not parse, or    *)
(* has its value.  Cells that only have to be there are one cell "texts";  *)
(* a date is its month where only the month counts.  Quantities are        *)
(* counted in the smallest fraction the workbooks write: a preview and its *)
(* rows keep them as written, the tables keep thousandths, of Fine         *)
(* fractions each.                                                         *)
(***************************************************************************)
EXTENDS Integers, FiniteSetsExt

CONSTANTS
    Blank, Garbled,     \* a cell without a value, one that does not parse
    NoProduct, NoChannel, NoDate,
    Fine                \* how many of its fractions make a thousandth

ASSUME FineAssumption == Fine \in Nat \ {0}

-----------------------------------------------------------------------------
(* Masters: m.known and m.active are SKUs, m.productOf[s] the product of a *)
(* SKU, m.activeProduct products; m.customers are customers with           *)
(* m.nameOf[c] and m.channelOf[c].                                         *)

HasProduct(m, s) == s \in m.known /\ m.productOf[s] # NoProduct

\* Inventory wants an active SKU of an active product, the others any product.
ActiveMapping(m, s) ==
    s \in m.active /\ HasProduct(m, s) /\ m.productOf[s] \in m.activeProduct

\* The customers an ERP name may mean.
Matches(m, name) ==
    {c \in m.customers : m.nameOf[c] = name /\ m.channelOf[c] # NoChannel}

-----------------------------------------------------------------------------
(* Rows and sums *)

Found(code, condition) == {c \in {code} : condition}

SumOf(rows, f) == MapThenSumSet(LAMBDA r : r[f], rows)

\* A quantity in a NUMERIC(18,3) column: the nearest thousandth, halves away
\* from zero.
Rounded(q) ==
    IF q >= 0 THEN Fine * ((2 * q + Fine) \div (2 * Fine))
    ELSE -(Fine * ((Fine - 2 * q) \div (2 * Fine)))

\* The sum of a column of stored rows, each rounded when it was inserted.
StoredSum(rows, f) == MapThenSumSet(LAMBDA r : Rounded(r[f]), rows)

Grouped(rows, key) == [k \in {key[r] : r \in rows} |-> {r \in rows : key[r] = k}]

-----------------------------------------------------------------------------
(* Inventory *)

Balance == {"opening", "receipt", "issue", "ending"}

\* A blank quantity is zero, a blank date an error, a blank text missing.
InventoryValue(f, cell) ==
    CASE f \in Balance /\ cell = Blank -> 0
      [] f = "date" /\ cell = Blank -> Garbled
      [] OTHER -> cell

InventoryValues(row) == [f \in DOMAIN row.cells |-> InventoryValue(f, row.cells[f])]

Negative(v, f) == v[f] # Garbled /\ v[f] < 0

Unbalanced(v) ==
    /\ \A f \in Balance : v[f] # Garbled
    /\ v["opening"] + v["receipt"] - v["issue"] # v["ending"]

InventoryRowFindings(row, m) ==
    LET v == InventoryValues(row)
    IN  Found("INVENTORY_VALUE_INVALID", \E f \in DOMAIN v : v[f] = Garbled)
          \cup Found("INVENTORY_REQUIRED_FIELD_MISSING", \E f \in DOMAIN v : v[f] = Blank)
          \cup Found("INVENTORY_BALANCE_QUANTITY_NEGATIVE",
                     Negative(v, "opening") \/ Negative(v, "ending"))
          \cup Found("INVENTORY_BALANCE_MISMATCH", Unbalanced(v))
          \cup Found("INVENTORY_ACTIVE_SKU_NOT_FOUND",
                     v["sku"] \notin {Blank, Garbled} /\ v["sku"] \notin m.active)
          \cup Found("INVENTORY_VALID_PRODUCT_NOT_FOUND",
                     v["sku"] \in m.active /\ ~ActiveMapping(m, v["sku"]))

\* A row without findings must lie in a warehouse the policy classifies.
InventoryFindings(row, m, policy) ==
    LET found == InventoryRowFindings(row, m)
    IN  IF found # {} THEN found
        ELSE Found("INVENTORY_WAREHOUSE_SCOPE_UNCLASSIFIED",
                   row.cells["warehouse"] \notin DOMAIN policy)

InventoryRow(row, m, policy) ==
    LET v == InventoryValues(row)
    IN  [no |-> row.no, sku |-> v["sku"], product |-> m.productOf[v["sku"]],
         date |-> v["date"], status |-> policy[v["warehouse"]],
         opening |-> v["opening"], receipt |-> v["receipt"],
         issue |-> v["issue"], ending |-> v["ending"]]

\* A file names its month, whether it covers it, and the policy's version.
InventoryPreview(file, m) ==
    [errors |->
        Found("INVENTORY_PERIOD_NOT_COMPLETE_MONTH", ~file.complete)
            \cup Found("INVENTORY_PLANNING_POLICY_VERSION_REQUIRED", file.policyVersion = Blank)
            \cup Found("INVENTORY_NO_DATA_ROWS", file.rows = {})
            \cup UNION {InventoryFindings(r, m, file.policy) : r \in file.rows},
     rows |-> {InventoryRow(r, m, file.policy) :
                  r \in {q \in file.rows : InventoryFindings(q, m, file.policy) = {}}},
     from |-> file.month, to |-> file.month]

\* Only stock available for planning makes facts and lots.
Planning(rows) == {r \in rows : r.status = "PLANNING_AVAILABLE"}

Balances(rows) == [f \in Balance |-> SumOf(rows, f)]

\* Facts are added up before they are stored.
StoredBalances(rows) == [f \in Balance |-> Rounded(Balances(rows)[f])]

InventoryFacts(rows) ==
    LET stock == Planning(rows)
        bySku == Grouped(stock, [r \in stock |-> r.sku])
        byProduct == Grouped(stock, [r \in stock |-> r.product])
    IN  [sku |-> [s \in DOMAIN bySku |->
                    [product |-> (CHOOSE r \in bySku[s] : TRUE).product,
                     qty |-> StoredBalances(bySku[s])]],
         product |-> [p \in DOMAIN byProduct |-> StoredBalances(byProduct[p])]]

\* What the tables of rows, SKU and product facts check.
Balanced(q) ==
    /\ q["opening"] >= 0 /\ q["ending"] >= 0
    /\ q["opening"] + q["receipt"] - q["issue"] = q["ending"]

InventoryFits(rows) ==
    LET facts == InventoryFacts(rows)
    IN  /\ \A r \in rows : Balanced([f \in Balance |-> Rounded(r[f])])
        /\ \A s \in DOMAIN facts.sku : Balanced(facts.sku[s].qty)
        /\ \A p \in DOMAIN facts.product : Balanced(facts.product[p])

-----------------------------------------------------------------------------
(* Actual sales *)

ActualRequired == {"customer", "sku", "texts"}

ActualFindings(row, m) ==
    LET v == row.cells
    IN  Found("ACTUAL_SALES_DATE_INVALID", v["month"] \in {Blank, Garbled})
          \cup Found("ACTUAL_SALES_PRODUCTION_DATE_INVALID", v["date"] = Garbled)
          \cup Found("ACTUAL_SALES_VALUE_INVALID",
                     v["qty"] \in {Blank, Garbled} \/ v["sku"] = Garbled)
          \cup Found("ACTUAL_SALES_REQUIRED_FIELD_MISSING",
                     \E f \in ActualRequired : v[f] \in {Blank, Garbled})
          \cup Found("ACTUAL_SALES_STATUS_NOT_APPROVED", v["status"] # "APPROVED")
          \cup Found("ACTUAL_SALES_CUSTOMER_UNRESOLVED",
                     Cardinality(Matches(m, v["customer"])) # 1)
          \cup Found("ACTUAL_SALES_PRODUCT_UNRESOLVED", ~HasProduct(m, v["sku"]))

ActualRow(row, m) ==
    LET customer == CHOOSE c \in Matches(m, row.cells["customer"]) : TRUE
    IN  [no |-> row.no, month |-> row.cells["month"], channel |-> m.channelOf[customer],
         product |-> m.productOf[row.cells["sku"]], qty |-> row.cells["qty"],
         date |-> IF row.cells["date"] = Blank THEN NoDate ELSE row.cells["date"]]

\* The period is the one the valid rows span.
ActualPreview(file, m) ==
    LET valid == {ActualRow(r, m) : r \in {q \in file.rows : ActualFindings(q, m) = {}}}
        months == {r.month : r \in valid}
    IN  [errors |->
            Found("ACTUAL_SALES_NO_DATA_ROWS", file.rows = {})
                \cup UNION {ActualFindings(r, m) : r \in file.rows},
         rows |-> valid,
         from |-> IF months = {} THEN Blank ELSE Min(months),
         to |-> IF months = {} THEN Blank ELSE Max(months)]

\* Rows without a production date count for the channel alone.
ActualFacts(rows) ==
    LET dated == {r \in rows : r.date # NoDate}
        byChannel == Grouped(rows, [r \in rows |-> <<r.channel, r.product, r.month>>])
        byDate == Grouped(dated, [r \in dated |-> <<r.product, r.date, r.month>>])
    IN  [channel |-> [k \in DOMAIN byChannel |-> Rounded(SumOf(byChannel[k], "qty"))],
         production |-> [k \in DOMAIN byDate |-> Rounded(SumOf(byDate[k], "qty"))]]

-----------------------------------------------------------------------------
(* Incoming shipments *)

\* An order quantity is written once for the rows of an order.
OrderQty(file, row) ==
    LET given == {r \in file.rows : /\ r.no <= row.no
                                    /\ r.cells["order"] = row.cells["order"]
                                    /\ r.cells["sku"] = row.cells["sku"]
                                    /\ r.cells["orderQty"] # Blank}
    IN  IF given = {} THEN Blank
        ELSE (CHOOSE r \in given : \A q \in given : q.no <= r.no).cells["orderQty"]

IncomingFindings(file, row, m) ==
    LET v == row.cells
    IN  Found("INCOMING_SKU_INVALID", v["sku"] = Garbled)
          \cup Found("INCOMING_SKU_REQUIRED", v["sku"] \in {Blank, Garbled})
          \cup Found("INCOMING_PRODUCT_UNRESOLVED", ~HasProduct(m, v["sku"]))
          \cup Found("INCOMING_QUANTITY_INVALID",
                     Garbled \in {v["qty"], OrderQty(file, row)})
          \cup Found("INCOMING_QUANTITY_NEGATIVE",
                     v["qty"] \notin {Blank, Garbled} /\ v["qty"] < 0)
          \cup Found("INCOMING_ETA_INVALID", v["eta"] = Garbled)

\* A line is a shipment when it has a quantity.
IncomingRow(file, row, m) ==
    [no |-> row.no, product |-> m.productOf[row.cells["sku"]], qty |-> row.cells["qty"],
     eta |-> IF row.cells["eta"] = Blank THEN NoDate ELSE row.cells["eta"],
     entered |-> row.cells["entry"] # Blank, order |-> OrderQty(file, row)]

IncomingPreview(file, m) ==
    [errors |->
        Found("INCOMING_NO_DATA_ROWS", file.rows = {})
            \cup UNION {IncomingFindings(file, r, m) : r \in file.rows},
     rows |-> {IncomingRow(file, r, m) :
                  r \in {q \in file.rows : IncomingFindings(file, q, m) = {}}},
     from |-> Blank, to |-> Blank]

\* What is still to arrive.
FutureSupply(rows) == {r \in rows : r.qty # Blank /\ ~r.entered}

\* Reported, not stored.
ProductTotals(rows) ==
    LET supply == FutureSupply(rows)
        byProduct == Grouped(supply, [r \in supply |-> r.product])
    IN  [p \in DOMAIN byProduct |-> SumOf(byProduct[p], "qty")]

\* Mutant: the page counts shipments that were entered into a warehouse.
AnyShipment(lines, p) == {l \in lines : l.product = p /\ l.qty # Blank}

PageLines(lines, p) == {l \in lines : l.product = p /\ l.qty # Blank /\ ~l.entered}

\* The page of a cycle places the supply of a product before, in or after the
\* four months from its month on, or under no date.
IncomingPlaces(lines, p, first) ==
    LET mine == PageLines(lines, p)
        arriving == {l \in mine : l.eta # NoDate}
    IN  [unscheduled |-> StoredSum({l \in mine : l.eta = NoDate}, "qty"),
         overdue |-> StoredSum({l \in arriving : l.eta < first}, "qty"),
         scheduled |-> [n \in 0 .. 3 |-> StoredSum({l \in arriving : l.eta = first + n}, "qty")]]

-----------------------------------------------------------------------------
(* Commits *)

Preview(kind, file, m) ==
    CASE kind = "INVENTORY" -> InventoryPreview(file, m)
      [] kind = "ACTUAL" -> ActualPreview(file, m)
      [] kind = "INCOMING" -> IncomingPreview(file, m)

\* One error blocks a batch; an inventory is allowed to have no valid rows
\* without one, which a batch of rows never has.
CommitAllowed(kind, p) ==
    /\ p.errors = {}
    /\ kind # "INVENTORY" => p.rows # {}

Facts(kind, rows) ==
    CASE kind = "INVENTORY" -> InventoryFacts(rows)
      [] kind = "ACTUAL" -> ActualFacts(rows)
      [] kind = "INCOMING" -> ProductTotals(rows)
=============================================================================

----------------------------- MODULE PlanningData ----------------------------
(***************************************************************************)
(* Importing planning datasets and storing what production lots made of    *)
(* them (webapp/ordering).  Previews, commits and calculations are calls   *)
(* of services that nothing serialises: each commit is one transaction     *)
(* that looks for duplicates in its own snapshot, and lot results are      *)
(* appended under the row lock of the newest revision of the lot.  A cycle *)
(* binds inventory versions while it is open and shows the lots whose      *)
(* results rest on them; its lock is stamped before it is committed.       *)
(* Versions, snapshots and results are never changed or deleted.  The two  *)
(* clocks that stamp the lock and the results are taken to agree.          *)
(***************************************************************************)
EXTENDS LotLifecycle

CONSTANTS
    Thread,
    Sku, Date,
    Product,        \* their ids, which order the results of a calculation
    Source,         \* workbooks
    KindOf,         \* what each is imported as
    ContentOf,      \* its month, policy and rows, as DatasetImport reads them
    Key,            \* version keys and snapshot keys
    Masters,        \* states the master data goes through
    CycleMonth,     \* the month of the cycle
    MaxVersions,    \* bound on the committed versions and snapshots
    MaxRevisions,   \* bound on the revisions of a lot
    NoVersion, NoJob

Lot == Product \X Date

ASSUME PlanningDataAssumption ==
    /\ KindOf \in [Source -> {"INVENTORY", "ACTUAL", "INCOMING"}]
    /\ DOMAIN ContentOf = Source
    /\ Product \subseteq Nat /\ Date \subseteq Nat
    /\ CycleMonth \in Nat /\ MaxVersions \in Nat /\ MaxRevisions \in Nat
    /\ IsFiniteSet(Key) /\ NoMonth \notin Nat

\* Products and SKUs come from the masters; what parses is a date, a quantity
\* or a number; a policy knows three scopes.
ASSUME ContentAssumption ==
    /\ \A m \in Masters :
          m.known \subseteq Sku /\ \A s \in m.known : m.productOf[s] \in Product \cup {NoProduct}
    /\ \A s \in Source :
          /\ IsFiniteSet(ContentOf[s].rows)
          /\ KindOf[s] = "ACTUAL" =>
                \A r \in ContentOf[s].rows : r.cells["qty"] \in Int \cup {Blank, Garbled}
          /\ KindOf[s] = "INCOMING" =>
                \A r \in ContentOf[s].rows :
                    \A f \in {"qty", "eta"} : r.cells[f] \in Int \cup {Blank, Garbled}
    /\ \A s \in {x \in Source : KindOf[x] = "INVENTORY"} :
          /\ ContentOf[s].month \in Nat
          /\ \A w \in DOMAIN ContentOf[s].policy :
                ContentOf[s].policy[w] \in {"PLANNING_AVAILABLE", "IN_TRANSIT", "NON_SELLABLE"}
          /\ \A r \in ContentOf[s].rows :
                /\ r.no \in Nat
                /\ {"sku", "date", "warehouse"} \cup Balance \subseteq DOMAIN r.cells
                /\ r.cells["date"] \in Date \cup {Blank, Garbled}
                /\ \A f \in Balance : r.cells[f] \in Int \cup {Blank, Garbled}

VARIABLES
    versions,   \* the committed dataset version of each version key
    snapshots,  \* the committed incoming snapshot of each snapshot key
    revisions,  \* the committed revisions of each lot
    cycle,      \* the status of the cycle and the versions it is bound to
    job         \* what each thread is doing

vars == <<versions, snapshots, revisions, cycle, job>>

-----------------------------------------------------------------------------
(* Tables *)

\* The dataset version keys in use.
Committed == {k \in Key : versions[k] # NoVersion}

Inventories == {k \in Committed : KindOf[versions[k].source] = "INVENTORY"}

Stored == Cardinality(Committed) + Cardinality({k \in Key : snapshots[k] # NoVersion})

\* unseen is history: the keys still free when duplicates were looked for.
IsVersion(v) ==
    /\ v.source \in Source
    /\ v.unseen \subseteq Key
    /\ KindOf[v.source] = "INVENTORY" =>
          /\ v.from \in Nat /\ v.to = v.from
          /\ v.rows \subseteq
                [no : Nat, sku : Sku, product : Product, date : Date,
                 status : {"PLANNING_AVAILABLE", "IN_TRANSIT", "NON_SELLABLE"},
                 opening : Nat, receipt : Int, issue : Int, ending : Nat]

\* late: stamped after the lock of the cycle.  seen is history: the revisions
\* of the lot in the snapshot of the transaction that wrote it.
Revision ==
    [no : Nat \ {0},
     values : [state : {"SOLD_OUT", "PRE_EXISTING", "ACTIVE"}, inbound : Nat \cup {NoMonth},
               soldOut : Nat \cup {NoMonth}, consumption : Int],
     sources : SUBSET Key, late : BOOLEAN, seen : Nat]

Stage == {"CHECKED", "PERSISTING"}

DataTypeOK ==
    /\ \A k \in Committed : IsVersion(versions[k])
    /\ \A lot \in Lot : \A i \in DOMAIN revisions[lot] :
          /\ revisions[lot][i] \in Revision
          /\ revisions[lot][i].no = i
          /\ revisions[lot][i].sources \subseteq Inventories
          /\ Storable(revisions[lot][i].values)
    /\ cycle.status \in {"OPEN", "LOCKING", "LOCKED"}
    /\ cycle.bound \subseteq Inventories
    /\ \A t \in Thread : job[t] # NoJob => job[t].stage \in Stage

Init ==
    /\ versions = [k \in Key |-> NoVersion]
    /\ snapshots = [k \in Key |-> NoVersion]
    /\ revisions = [lot \in Lot |-> <<>>]
    /\ cycle = [status |-> "OPEN", bound |-> {}]
    /\ job = [t \in Thread |-> NoJob]

-----------------------------------------------------------------------------
(* Imports *)

\* A preview is made of a workbook and the masters of some earlier moment, which
\* are not read again: others may have edited them since.
Previews == [s \in Source |-> {Preview(KindOf[s], ContentOf[s], m) : m \in Masters}]

\* Mutant: the row hash is compared with the batch's, which never match.
NoneAlike(s, p) == {k \in Committed : versions[k].source = s /\ versions[k].from = Blank}

\* The versions made from the same workbook for the same period.
SameSource(s, p) ==
    {k \in Committed : /\ versions[k].source = s
                       /\ versions[k].from = p.from /\ versions[k].to = p.to}

\* A dataset is committed under a key; its transaction first looks for duplicates.
CheckDuplicates(t, s, p, k) ==
    /\ job[t] = NoJob
    /\ KindOf[s] # "INCOMING"
    /\ CommitAllowed(KindOf[s], p)
    /\ k \notin Committed
    /\ SameSource(s, p) = {}
    /\ job' = [job EXCEPT ![t] = [stage |-> "CHECKED", source |-> s, preview |-> p,
                                  key |-> k, unseen |-> Key \ Committed]]
    /\ UNCHANGED <<versions, snapshots, revisions, cycle>>

\* Only the key is unique. Rows and facts are rounded as they are inserted, and
\* then checked: what does not fit is not committed at all.
CommitVersion(t) ==
    /\ job[t] # NoJob /\ job[t].stage = "CHECKED"
    /\ job[t].key \notin Committed
    /\ KindOf[job[t].source] = "INVENTORY" => InventoryFits(job[t].preview.rows)
    /\ Stored < MaxVersions
    /\ LET p == job[t].preview IN
         versions' = [versions EXCEPT ![job[t].key] =
                        [source |-> job[t].source, from |-> p.from, to |-> p.to,
                         rows |-> p.rows, facts |-> Facts(KindOf[job[t].source], p.rows),
                         unseen |-> job[t].unseen]]
    /\ job' = [job EXCEPT ![t] = NoJob]
    /\ UNCHANGED <<snapshots, revisions, cycle>>

\* An incoming snapshot is compared by its key alone, which is also unique.
CommitIncoming(s, p, k) ==
    /\ KindOf[s] = "INCOMING"
    /\ CommitAllowed("INCOMING", p)
    /\ snapshots[k] = NoVersion
    /\ Stored < MaxVersions
    /\ snapshots' = [snapshots EXCEPT ![k] =
                       [source |-> s, rows |-> p.rows, totals |-> Facts("INCOMING", p.rows)]]
    /\ UNCHANGED <<versions, revisions, cycle, job>>

-----------------------------------------------------------------------------
(* Lot results *)

Selection(keys) ==
    [k \in keys |-> [month |-> versions[k].from, rows |-> versions[k].rows]]

\* Results are calculated from versions, which never change, and handed to a
\* transaction; its first statement, a plain read, fixes what plain reads see.
CalculateAndPersist(t, keys) ==
    /\ job[t] = NoJob
    /\ keys # {} /\ keys \subseteq Inventories
    /\ Selectable(Selection(keys))
    /\ LET results == Lifecycles(Selection(keys)) IN
         job' = [job EXCEPT ![t] =
                   [stage |-> "PERSISTING", results |-> results, left |-> DOMAIN results,
                    seen |-> [lot \in Lot |-> Len(revisions[lot])],
                    new |-> [lot \in {} |-> NoVersion]]]
    /\ UNCHANGED <<versions, snapshots, revisions, cycle>>

Persisting(t) == job[t] # NoJob /\ job[t].stage = "PERSISTING"

\* The lots whose newest revision a transaction has locked or appended.
Held(t) == IF Persisting(t) THEN DOMAIN job[t].results \ job[t].left ELSE {}

\* Results come in the order of product and production date.
NextLot(t) ==
    CHOOSE l \in job[t].left :
        \A k \in job[t].left : l[1] < k[1] \/ (l[1] = k[1] /\ l[2] <= k[2])

\* The newest revision is read under a lock, its sources by a plain read, which
\* finds none when it was committed after the snapshot.
AlreadyStored(result, lot, seen) ==
    \E n \in {Len(revisions[lot])} :
        /\ n > 0
        /\ revisions[lot][n].values = result.values
        /\ result.sources = IF n <= seen THEN revisions[lot][n].sources ELSE {}

\* A row is stamped when it is inserted.
Late(status) == status # "OPEN"

\* Mutant: a revision gets the number of the newest one.
SameNumber(result, lot, seen) ==
    [no |-> Len(revisions[lot]), values |-> result.values,
     sources |-> result.sources, late |-> Late(cycle.status), seen |-> seen]

AppendedRow(result, lot, seen) ==
    [no |-> Len(revisions[lot]) + 1, values |-> result.values,
     sources |-> result.sources, late |-> Late(cycle.status), seen |-> seen]

\* One result: the row lock, then nothing or an insert that the checks accept.
PersistNext(t) ==
    /\ Persisting(t) /\ job[t].left # {}
    /\ LET lot == NextLot(t)
           result == job[t].results[lot]
           stored == AlreadyStored(result, lot, job[t].seen[lot])
       IN  /\ \A u \in Thread \ {t} : lot \notin Held(u)
           /\ stored \/ (Storable(result.values) /\ Len(revisions[lot]) < MaxRevisions)
           /\ job' = [job EXCEPT
                        ![t].left = @ \ {lot},
                        ![t].new = IF stored THEN @
                                   ELSE [l \in DOMAIN @ \cup {lot} |->
                                           IF l = lot
                                           THEN AppendedRow(result, lot, job[t].seen[lot])
                                           ELSE @[l]]]
    /\ UNCHANGED <<versions, snapshots, revisions, cycle>>

\* All the results of the batch become visible together.
CommitPersist(t) ==
    /\ Persisting(t) /\ job[t].left = {}
    /\ revisions' = [lot \in Lot |->
                       IF lot \in DOMAIN job[t].new
                       THEN Append(revisions[lot], job[t].new[lot]) ELSE revisions[lot]]
    /\ job' = [job EXCEPT ![t] = NoJob]
    /\ UNCHANGED <<versions, snapshots, cycle>>

\* A refusal, a constraint, a deadlock or a lost connection: nothing is kept.
EndJob(t) ==
    /\ job[t] # NoJob
    /\ job' = [job EXCEPT ![t] = NoJob]
    /\ UNCHANGED <<versions, snapshots, revisions, cycle>>

-----------------------------------------------------------------------------
(* The cycle *)

\* Sources of one kind never share a month.
ChooseInventories(keys) ==
    /\ cycle.status = "OPEN"
    /\ keys # cycle.bound
    /\ keys \subseteq Inventories
    /\ Selectable(Selection(keys))
    /\ cycle' = [cycle EXCEPT !.bound = keys]
    /\ UNCHANGED <<versions, snapshots, revisions, job>>

\* locked_at is set, then the rest of the transaction runs.
StampLock ==
    /\ cycle.status = "OPEN" /\ cycle.bound # {}
    /\ cycle' = [cycle EXCEPT !.status = "LOCKING"]
    /\ UNCHANGED <<versions, snapshots, revisions, job>>

CommitLock ==
    /\ cycle.status = "LOCKING"
    /\ cycle' = [cycle EXCEPT !.status = "LOCKED"]
    /\ UNCHANGED <<versions, snapshots, revisions, job>>

Next ==
    \/ \E t \in Thread, k \in Key, s \in Source :
          \E p \in Previews[s] : CheckDuplicates(t, s, p, k)
    \/ \E t \in Thread : CommitVersion(t)
    \/ \E k \in Key, s \in Source : \E p \in Previews[s] : CommitIncoming(s, p, k)
    \/ \E t \in Thread, keys \in SUBSET Key : CalculateAndPersist(t, keys)
    \/ \E t \in Thread : PersistNext(t) \/ CommitPersist(t) \/ EndJob(t)
    \/ \E keys \in SUBSET Key : ChooseInventories(keys)
    \/ StampLock
    \/ CommitLock

Spec == Init /\ [][Next]_vars

-----------------------------------------------------------------------------
(* The page *)

\* Inventories up to the month before the cycle's.
Eligible == {k \in cycle.bound : versions[k].to <= CycleMonth - 1}

\* Mutant: a locked page also takes results stamped after the lock.
AnyStamp(r) == cycle.status \in {"OPEN", "LOCKED"} \/ ~r.late

InTime(r) == cycle.status = "LOCKED" => ~r.late

Candidates(lot) ==
    {r \in {revisions[lot][i] : i \in DOMAIN revisions[lot]} :
        r.sources # {} /\ r.sources \subseteq Eligible /\ InTime(r)}

\* The inventory of the month before the cycle's gives the quantities left.
Baseline == {k \in cycle.bound : versions[k].from = CycleMonth - 1}

Details ==
    [lot \in Lot |->
        [line |-> LotLine(Candidates(lot)),
         left |-> {Remaining(versions[k], lot[1]) : k \in Baseline}]]

-----------------------------------------------------------------------------
(* Properties *)

Places(snapshot, p) == IncomingPlaces(snapshot.rows, p, CycleMonth)

Beyond(snapshot, p) ==
    StoredSum({l \in PageLines(snapshot.rows, p) : l.eta # NoDate /\ l.eta > CycleMonth + 3},
              "qty")

\* As close as n roundings allow, each of half a thousandth at most.
Near(a, b, n) == 2 * (a - b) <= Fine * n /\ 2 * (b - a) <= Fine * n

\* Quantities in whole thousandths.
Whole(rows, f) == \A r \in rows : r[f] % Fine = 0

\* Two totals of rows, after n roundings: equal when nothing was rounded.
Agree(a, b, n, whole) == Near(a, b, n) /\ (whole => a = b)

EndingOfSkus(version, p) ==
    MapThenSumSet(LAMBDA s : version.facts.sku[s].qty["ending"],
                  {s \in DOMAIN version.facts.sku : version.facts.sku[s].product = p})

\* What was imported adds up wherever it is shown, but for the rounding of what
\* is stored: rows, SKU and product facts of an inventory, so the page finds lots
\* to list unless a quantity was rounded; channel and production totals of sales;
\* the supply reported for a snapshot and where the page puts it.
ImportsAddUp ==
    /\ \A k \in Inventories :
          /\ \A r \in versions[k].rows : r.opening + r.receipt - r.issue = r.ending
          /\ \A p \in DOMAIN versions[k].facts.product :
                LET total == versions[k].facts.product[p]["ending"]
                    mine == {r \in Planning(versions[k].rows) : r.product = p}
                    skus == {r.sku : r \in mine}
                    whole == Whole(mine, "ending")
                IN  /\ Agree(EndingOfSkus(versions[k], p), total, Cardinality(skus) + 1, whole)
                    /\ Agree(StoredSum(mine, "ending"), total, Cardinality(mine) + 1, whole)
                    /\ whole => DOMAIN Remaining(versions[k], p) # {}
    /\ \A k \in Committed \ Inventories :
          LET facts == versions[k].facts
              rows == versions[k].rows
              dated == {r \in rows : r.date # NoDate}
          IN  /\ Agree(MapThenSumSet(LAMBDA g : facts.channel[g], DOMAIN facts.channel),
                       StoredSum(rows, "qty"),
                       Cardinality(DOMAIN facts.channel) + Cardinality(rows), Whole(rows, "qty"))
              /\ Agree(MapThenSumSet(LAMBDA g : facts.production[g], DOMAIN facts.production),
                       StoredSum(dated, "qty"),
                       Cardinality(DOMAIN facts.production) + Cardinality(dated),
                       Whole(dated, "qty"))
    /\ \A k \in Key : snapshots[k] # NoVersion =>
          \A p \in DOMAIN snapshots[k].totals :
             LET placed == Places(snapshots[k], p)
                 lines == PageLines(snapshots[k].rows, p)
             IN  Agree(placed.unscheduled + placed.overdue + Beyond(snapshots[k], p)
                          + MapThenSumSet(LAMBDA n : placed.scheduled[n], 0 .. 3),
                       snapshots[k].totals[p], Cardinality(lines), Whole(lines, "qty"))

\* Nothing is stored twice in a row: a second version of one workbook, or a
\* revision equal to the one before it, was written by a transaction that began
\* before the first was committed (the duplicate checks take no lock).
RepeatsOverlap ==
    /\ \A k, l \in Committed :
          k # l /\ versions[k].source = versions[l].source =>
              k \in versions[l].unseen /\ l \in versions[k].unseen
    /\ \A lot \in Lot : \A i \in 2 .. Len(revisions[lot]) :
          LET r == revisions[lot][i]
              last == revisions[lot][i - 1]
          IN  r.values = last.values /\ r.sources = last.sources => r.seen < i - 1

\* What a lot had at the end of a month, and received in it.
QtyOf(lot, k, f) == SumOf(LotRows(versions[k], lot), f)

\* A stored result says of its sources what they say, in every order of imports,
\* corrections and calculations: the lot is sold out from the first month after
\* which all the months it was seen in end at zero, and came in with its first
\* receipt unless it was there before.
ResultsSayWhatSourcesSay ==
    \A lot \in Lot : \A i \in DOMAIN revisions[lot] :
        LET r == revisions[lot][i]
            month == {versions[k].from : k \in r.sources}
            ends == {versions[k].from : k \in {s \in r.sources : QtyOf(lot, s, "ending") = 0}}
            receipts == {versions[k].from : k \in {s \in r.sources : QtyOf(lot, s, "receipt") > 0}}
            empty == {m \in month : \A n \in month : n >= m => n \in ends}
            old == \E k \in r.sources :
                      versions[k].from = Min(month) /\ QtyOf(lot, k, "opening") > 0
        IN  /\ \A k \in r.sources : LotRows(versions[k], lot) # {}
            /\ r.values.soldOut = IF empty = {} THEN NoMonth ELSE Min(empty)
            /\ r.values.inbound = IF old THEN NoMonth ELSE Min(receipts)
            /\ r.values.state = "SOLD_OUT" <=> empty # {}
            /\ r.values.state = "PRE_EXISTING" <=> old /\ empty = {}

\* The lots of a locked cycle stay as they are, except for results that were
\* stamped before the lock and committed after it.
LockedLotsAreFrozen ==
    [][cycle.status = "LOCKED" =>
          \A lot \in Lot :
             Details'[lot] # Details[lot] =>
                 \E i \in DOMAIN revisions'[lot] \ DOMAIN revisions[lot] :
                     ~revisions'[lot][i].late]_vars

\* Every calculated result fits the table: a lot is not sold out before it came
\* in, and at least one month was consumed (ck_ord_lot_date_order).
ResultsFitTheTable ==
    \A t \in Thread :
        Persisting(t) => \A lot \in DOMAIN job[t].results : Storable(job[t].results[lot].values)
=============================================================================

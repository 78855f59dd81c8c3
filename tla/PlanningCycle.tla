---------------------------- MODULE PlanningCycle ---------------------------
(***************************************************************************)
(* Planning cycles: choosing sources, saving forecasts, ordering and the   *)
(* one-shot lock (webapp/ordering).  Every writer and every reader of a    *)
(* cycle begins with SELECT cycle ... FOR UPDATE, so a transaction that    *)
(* changes a cycle owns its row from its first statement to its commit;    *)
(* masters are edited by others at any time.  A request that is refused    *)
(* changes nothing and has no action.  Cycles, dataset versions, incoming  *)
(* snapshots and masters are never deleted: foreign keys restrict it.      *)
(***************************************************************************)
EXTENDS Naturals, Sequences

CONSTANTS
    Cycle,
    Thread,             \* request threads, each with the page its user sees
    Master, Product,    \* products and channels; the products among them
    Name, NoName,       \* display names
    FirstName,          \* the names the masters were created with
    Renamed,            \* the masters somebody renames
    Qty,                \* order quantities
    Dataset,            \* dataset versions
    KindOf,             \* their type
    CoverFrom, CoverTo, \* the months they cover
    Slice,              \* periods of dataset versions that a user can bind
    VersionOf,          \* the dataset version of a slice
    From, To,           \* its months
    Incoming,           \* incoming snapshots
    MastersOf,          \* masters of the lines of a slice or snapshot
    Selections,         \* sets of slices a user may submit
    Lines,              \* forecast lines a user may submit
    MaxVersions,        \* bound on the forecast versions of a cycle
    MaxRevisions,       \* bound on the revisions of an order
    NoIncoming, NoOrder, NoCycle, NoJob

\* The lines of a forecast: their masters, and whether a month lies outside T to T+3.
ForecastLines == [masters : SUBSET Master, outside : BOOLEAN]

ASSUME MastersAssumption ==
    /\ Product \subseteq Master
    /\ Renamed \subseteq Master
    /\ FirstName \in [Master -> Name]
    /\ NoName \notin Name
    /\ Lines \subseteq ForecastLines

ASSUME SourcesAssumption ==
    /\ KindOf \in [Dataset -> {"ACTUAL", "INVENTORY"}]
    /\ CoverFrom \in [Dataset -> Nat] /\ CoverTo \in [Dataset -> Nat]
    /\ VersionOf \in [Slice -> Dataset]
    /\ From \in [Slice -> Nat] /\ To \in [Slice -> Nat]
    /\ Selections \subseteq SUBSET Slice
    /\ MastersOf \in [Slice \cup Incoming \cup {NoIncoming} -> SUBSET Master]
    /\ MastersOf[NoIncoming] = {}
    /\ NoIncoming \notin Incoming

VARIABLES
    db,         \* the committed cycles
    names,      \* the committed display names of the masters
    page,       \* what the page of each thread's user was shown last
    job         \* the transaction of each thread

vars == <<db, names, page, job>>

-----------------------------------------------------------------------------
(* Tables *)

\* A revision keeps the quantity and confirmation before a change.
Revision == [qty : Qty, confirmed : BOOLEAN]

Order == [qty : Qty, confirmed : BOOLEAN, log : Seq(Revision)]

ASSUME NoOrderAssumption == NoOrder \notin Order

CycleStatus == {"ABSENT", "OPEN", "LOCKED"}

CycleRecord ==
    [status : CycleStatus, bound : SUBSET Slice, incoming : Incoming \cup {NoIncoming},
     adopted : Nat, versions : Seq(ForecastLines),
     orders : [Product -> Order \cup {NoOrder}], archive : [Master -> Name \cup {NoName}]]

EmptyCycle ==
    [status |-> "ABSENT", bound |-> {}, incoming |-> NoIncoming, adopted |-> 0,
     versions |-> <<>>, orders |-> [p \in Product |-> NoOrder],
     archive |-> [m \in Master |-> NoName]]

Ordered(cyc) == {p \in Product : cyc.orders[p] # NoOrder}

ForecastMasters(cyc) == UNION {cyc.versions[n].masters : n \in DOMAIN cyc.versions}

SourceMasters(bound, incoming) == MastersOf[incoming] \cup UNION {MastersOf[s] : s \in bound}

\* The masters the cycle's page shows.
Visible(cyc) ==
    SourceMasters(cyc.bound, cyc.incoming) \cup Ordered(cyc)
        \cup IF cyc.adopted = 0 THEN {} ELSE cyc.versions[cyc.adopted].masters

-----------------------------------------------------------------------------
(* Requests *)

SourcesRequest ==
    [op : {"SOURCES"}, cycle : Cycle, bound : SUBSET Slice,
     incoming : Incoming \cup {NoIncoming}, forecast : Nat]
SaveRequest == [op : {"SAVE"}, cycle : Cycle, base : Nat, lines : ForecastLines]
WriteRequest == [op : {"WRITE"}, cycle : Cycle, lines : ForecastLines]
OrderRequest == [op : {"ORDER"}, cycle : Cycle, product : Product, qty : Qty]
ConfirmRequest == [op : {"CONFIRM"}, cycle : Cycle, product : Product]
LockRequest == [op : {"LOCK"}, cycle : Cycle, incoming : Incoming, forecast : Nat]

Request ==
    SourcesRequest \cup SaveRequest \cup WriteRequest \cup OrderRequest
        \cup ConfirmRequest \cup LockRequest

\* A running transaction: what was asked and the cycle its commit leaves.
Job == [request : Request, next : CycleRecord]

ASSUME NoJobAssumption == NoJob \notin Job

Page == [cycle : Cycle, adopted : Nat]

ASSUME NoPageAssumption == NoCycle \notin Page

CycleTypeOK ==
    /\ db \in [Cycle -> CycleRecord]
    /\ names \in [Master -> Name]
    /\ page \in [Thread -> Page \cup {NoCycle}]
    /\ job \in [Thread -> Job \cup {NoJob}]

Init ==
    /\ db = [c \in Cycle |-> EmptyCycle]
    /\ names = FirstName
    /\ page = [t \in Thread |-> NoCycle]
    /\ job = [t \in Thread |-> NoJob]

\* Mutant: the cycle is read without FOR UPDATE.
RowRead(c) == c \in Cycle

\* Nobody holds the row of the cycle.
RowFree(c) == \A t \in Thread : job[t] # NoJob => job[t].request.cycle # c

\* Mutant: the status of the cycle is not checked.
PrepareAnyway(t, request, next) ==
    /\ job[t] = NoJob
    /\ RowFree(request.cycle)
    /\ job' = [job EXCEPT ![t] = [request |-> request, next |-> next]]
    /\ UNCHANGED <<db, names, page>>

\* A writer locks the row, finds the cycle OPEN and prepares its statements.
Prepare(t, request, next) ==
    /\ job[t] = NoJob
    /\ RowFree(request.cycle)
    /\ db[request.cycle].status = "OPEN"
    /\ job' = [job EXCEPT ![t] = [request |-> request, next |-> next]]
    /\ UNCHANGED <<db, names, page>>

-----------------------------------------------------------------------------
(* Sources *)

Fits(s) ==
    /\ CoverFrom[VersionOf[s]] <= From[s]
    /\ From[s] <= To[s]
    /\ To[s] <= CoverTo[VersionOf[s]]

\* Mutant: the last month of a slice is taken as its end.
OverlapInside(s, u) ==
    /\ KindOf[VersionOf[s]] = KindOf[VersionOf[u]]
    /\ From[s] < To[u]
    /\ From[u] < To[s]

Overlap(s, u) ==
    /\ KindOf[VersionOf[s]] = KindOf[VersionOf[u]]
    /\ From[s] <= To[u]
    /\ From[u] <= To[s]

\* choose_sources wants one slice per type and month.
Choosable(bound) ==
    /\ \A s \in bound : Fits(s)
    /\ \A s, u \in bound : s # u => ~Overlap(s, u)

WithSources(cyc, r) ==
    [cyc EXCEPT !.bound = r.bound, !.incoming = r.incoming, !.adopted = r.forecast]

ChooseSources(t) ==
    \E c \in Cycle, bound \in Selections, incoming \in Incoming \cup {NoIncoming} :
    \E n \in 0..Len(db[c].versions) :
        LET r == [op |-> "SOURCES", cycle |-> c, bound |-> bound,
                  incoming |-> incoming, forecast |-> n]
        IN  /\ Choosable(bound)
            /\ Prepare(t, r, WithSources(db[c], r))

-----------------------------------------------------------------------------
(* Forecasts *)

\* write_forecast_version: the next number, lines and all.
WithVersion(cyc, lines) == [cyc EXCEPT !.versions = Append(@, lines)]

\* save_forecast adopts the version it writes, in one transaction.
WithForecast(cyc, lines) ==
    [WithVersion(cyc, lines) EXCEPT !.adopted = Len(cyc.versions) + 1]

\* Mutant: the expected version is not compared.
SavableAnyBase(cyc, base, lines) ==
    /\ ~lines.outside
    /\ base # 0 => ~cyc.versions[base].outside

\* The page's selection is still the cycle's, and no line would be lost.
Savable(cyc, base, lines) ==
    /\ cyc.adopted = base
    /\ ~lines.outside
    /\ base # 0 => ~cyc.versions[base].outside

SaveForecast(t) ==
    /\ page[t] # NoCycle
    /\ LET c == page[t].cycle IN
        /\ Len(db[c].versions) < MaxVersions
        /\ \E lines \in Lines :
            /\ Savable(db[c], page[t].adopted, lines)
            /\ Prepare(t, [op |-> "SAVE", cycle |-> c, base |-> page[t].adopted, lines |-> lines],
                       WithForecast(db[c], lines))

\* The service on its own: a version that nothing adopts yet.
WriteForecastVersion(t) ==
    \E c \in Cycle, lines \in Lines :
        /\ Len(db[c].versions) < MaxVersions
        /\ Prepare(t, [op |-> "WRITE", cycle |-> c, lines |-> lines], WithVersion(db[c], lines))

-----------------------------------------------------------------------------
(* Final orders *)

FirstOrder(qty) == [qty |-> qty, confirmed |-> FALSE, log |-> <<>>]

\* The old quantity becomes a revision; a changed quantity is unconfirmed.
ChangedOrder(order, qty) ==
    [qty |-> qty, confirmed |-> FALSE,
     log |-> Append(order.log, [qty |-> order.qty, confirmed |-> order.confirmed])]

WithOrder(cyc, p, qty) ==
    [cyc EXCEPT !.orders[p] =
        IF @ = NoOrder THEN FirstOrder(qty)
        ELSE IF @.qty = qty THEN @ ELSE ChangedOrder(@, qty)]

WriteFinalOrder(t) ==
    \E c \in Cycle, p \in Product, qty \in Qty :
        /\ db[c].orders[p] # NoOrder => Len(db[c].orders[p].log) < MaxRevisions
        /\ Prepare(t, [op |-> "ORDER", cycle |-> c, product |-> p, qty |-> qty],
                   WithOrder(db[c], p, qty))

WithConfirmation(cyc, p) == [cyc EXCEPT !.orders[p].confirmed = TRUE]

ConfirmFinalOrder(t) ==
    \E c \in Cycle, p \in Product :
        /\ db[c].orders[p] # NoOrder
        /\ Prepare(t, [op |-> "CONFIRM", cycle |-> c, product |-> p],
                   WithConfirmation(db[c], p))

-----------------------------------------------------------------------------
(* The lock *)

\* _bindings: here two slices of one version may overlap.
BindingsLockable(bound) ==
    /\ \A s \in bound : Fits(s)
    /\ \A s, u \in bound : Overlap(s, u) => VersionOf[s] = VersionOf[u]
    /\ {KindOf[VersionOf[s]] : s \in bound} = {"ACTUAL", "INVENTORY"}

Lockable(cyc, n) ==
    /\ BindingsLockable(cyc.bound)
    /\ n \in DOMAIN cyc.versions
    /\ Ordered(cyc) # {}
    /\ \A m \in Master : cyc.archive[m] = NoName
    /\ \A p \in Ordered(cyc) : cyc.orders[p].confirmed

\* Mutant: only what the page shows is archived, not the history.
ArchivedPage(cyc, incoming) == SourceMasters(cyc.bound, incoming) \cup Visible(cyc)

\* Products of the sources, of every version and of the orders; channels of every version.
Archived(cyc, incoming) ==
    SourceMasters(cyc.bound, incoming) \cup ForecastMasters(cyc) \cup Ordered(cyc)

\* Mutant: the two selected ids are swapped.
WithLockSwapped(cyc, incoming, n, seen) ==
    [cyc EXCEPT !.status = "LOCKED", !.incoming = n, !.adopted = incoming,
        !.archive = [m \in Master |-> IF m \in Archived(cyc, incoming) THEN seen[m] ELSE NoName]]

\* The names are those of the read view that begins after the row locks.
WithLock(cyc, incoming, n, seen) ==
    [cyc EXCEPT !.status = "LOCKED", !.incoming = incoming, !.adopted = n,
        !.archive = [m \in Master |-> IF m \in Archived(cyc, incoming) THEN seen[m] ELSE NoName]]

LockPlanningCycle(t) ==
    \E c \in Cycle, incoming \in Incoming :
    \E n \in DOMAIN db[c].versions :
        /\ Lockable(db[c], n)
        /\ Prepare(t, [op |-> "LOCK", cycle |-> c, incoming |-> incoming, forecast |-> n],
                   WithLock(db[c], incoming, n, names))

-----------------------------------------------------------------------------
(* The end of a transaction, pages and masters *)

Commit(t) ==
    /\ job[t] # NoJob
    /\ db' = [db EXCEPT ![job[t].request.cycle] = job[t].next]
    /\ job' = [job EXCEPT ![t] = NoJob]
    /\ UNCHANGED <<names, page>>

\* A statement fails, the lock wait times out or the connection dies.
Rollback(t) ==
    /\ job[t] # NoJob
    /\ job' = [job EXCEPT ![t] = NoJob]
    /\ UNCHANGED <<db, names, page>>

CreateCycle(c) ==
    /\ db[c].status = "ABSENT"
    /\ db' = [db EXCEPT ![c].status = "OPEN"]
    /\ UNCHANGED <<names, page, job>>

\* read_workbench takes the row lock as well, so it waits for a writer.
ReadWorkbench(t, c) ==
    /\ job[t] = NoJob
    /\ RowFree(c)
    /\ db[c].status # "ABSENT"
    /\ page' = [page EXCEPT ![t] = [cycle |-> c, adopted |-> db[c].adopted]]
    /\ UNCHANGED <<db, names, job>>

RenameMaster(m, name) ==
    /\ name # names[m]
    /\ names' = [names EXCEPT ![m] = name]
    /\ UNCHANGED <<db, page, job>>

Next ==
    \/ \E c \in Cycle : CreateCycle(c)
    \/ \E t \in Thread, c \in Cycle : ReadWorkbench(t, c)
    \/ \E m \in Renamed, name \in Name : RenameMaster(m, name)
    \/ \E t \in Thread :
        \/ ChooseSources(t) \/ SaveForecast(t) \/ WriteForecastVersion(t)
        \/ WriteFinalOrder(t) \/ ConfirmFinalOrder(t) \/ LockPlanningCycle(t)
        \/ Commit(t) \/ Rollback(t)

Spec == Init /\ [][Next]_vars

-----------------------------------------------------------------------------
(* Properties *)

\* No month of a cycle is covered by two versions of one type, so read_workbench
\* never meets the 'Baseline Conflict' of two inventory versions.
OneVersionPerMonth ==
    \A c \in Cycle : \A s, u \in db[c].bound : \A month \in From[s]..To[s] :
        KindOf[VersionOf[s]] = KindOf[VersionOf[u]] /\ month \in From[u]..To[u]
            => VersionOf[s] = VersionOf[u]

AdoptedWhole(cyc) ==
    /\ {KindOf[VersionOf[s]] : s \in cyc.bound} = {"ACTUAL", "INVENTORY"}
    /\ cyc.incoming \in Incoming
    /\ cyc.adopted \in DOMAIN cyc.versions
    /\ Ordered(cyc) # {}
    /\ \A p \in Ordered(cyc) : cyc.orders[p].confirmed
    /\ \A m \in Visible(cyc) \cup ForecastMasters(cyc) : cyc.archive[m] # NoName

\* A locked cycle was adopted whole: sources of both types, an incoming snapshot,
\* one of its forecasts, confirmed orders, and a name for whatever its page and the
\* history of all its versions can show, those saved by others included.
LockedIsComplete == \A c \in Cycle : db[c].status = "LOCKED" => AdoptedWhole(db[c])

\* read_workbench and the histories: names come from the masters while the cycle is
\* open and from its snapshots once it is locked.
ShownName(c, m) == IF db[c].status = "LOCKED" THEN db[c].archive[m] ELSE names[m]

WorkbenchPage(c) ==
    [bound |-> db[c].bound, incoming |-> db[c].incoming, adopted |-> db[c].adopted,
     versions |-> db[c].versions, orders |-> db[c].orders,
     names |-> [m \in Visible(db[c]) \cup ForecastMasters(db[c]) |-> ShownName(c, m)]]

\* Whatever later requests do and however masters are renamed, a locked cycle's page
\* and histories show what they showed when it was locked.
LockedPageIsFrozen ==
    [][\A c \in Cycle :
        db[c].status = "LOCKED" => db'[c].status = "LOCKED" /\ WorkbenchPage(c)' = WorkbenchPage(c)
      ]_vars

\* A save that adopts its new version replaces the version its page showed, even if
\* others saved or chose in between, and that version had no line outside the page.
SavesReplaceWhatTheyShow ==
    [][\A t \in Thread :
        job[t] # NoJob /\ job'[t] = NoJob /\ db' # db /\ job[t].request.op = "SAVE" =>
            LET c == job[t].request.cycle
                base == job[t].request.base
            IN  /\ db[c].adopted = base
                /\ base # 0 => ~db[c].versions[base].outside
                /\ \A n \in DOMAIN db[c].versions : db'[c].versions[n] = db[c].versions[n]
                /\ db'[c].adopted = Len(db[c].versions) + 1
      ]_vars

\* The choices of sources, as the abstract cycle sees them.
Chosen(bound, incoming) == [bound |-> bound, incoming |-> incoming]

SelectionsOf(bounds, incomings) == {Chosen(b, i) : b \in bounds, i \in incomings}

ShownBy(selection) == SourceMasters(selection.bound, selection.incoming)

Quantities(order) ==
    IF order = NoOrder THEN <<>>
    ELSE Append([n \in DOMAIN order.log |-> order.log[n].qty], order.qty)

PlanOf(cyc) == [selection |-> Chosen(cyc.bound, cyc.incoming), adopted |-> cyc.adopted]

ForecastsOf(cyc) == [n \in DOMAIN cyc.versions |-> cyc.versions[n].masters]

DecisionsOf(cyc) == [p \in Product |-> Quantities(cyc.orders[p])]

ApprovedOf(cyc) == {p \in Ordered(cyc) : cyc.orders[p].confirmed}

Book == INSTANCE PlanningBook WITH
    Selection <- SelectionsOf(SUBSET Slice, Incoming \cup {NoIncoming}),
    NoSelection <- Chosen({}, NoIncoming),
    Shown <- ShownBy,
    state <- [c \in Cycle |-> db[c].status],
    plan <- [c \in Cycle |-> PlanOf(db[c])],
    forecasts <- [c \in Cycle |-> ForecastsOf(db[c])],
    decisions <- [c \in Cycle |-> DecisionsOf(db[c])],
    approved <- [c \in Cycle |-> ApprovedOf(db[c])],
    archive <- [c \in Cycle |-> db[c].archive]

\* The row lock, the adoption by number and the pre-change revisions implement a cycle
\* whose forecasts and decisions are only appended and whose lock freezes all of it.
ImplementsPlanningBook == Book!BookSpec

=============================================================================

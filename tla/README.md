# Specifications of the CCG work panel

TLA+ models of the concurrent core of this repository (a FastAPI application over
MySQL/InnoDB, SQLite in tests), TLC runs on small instances and TLAPS proofs for
every instance.

## The system

| Component | Source | State it keeps | Operations | Hard parts | What makes it correct |
|---|---|---|---|---|---|
| Sales upload and preview | `webapp/sales/parser.py`, `mapping.py`, `preview_service.py` | import batches, rows, candidates, issues | upload a workbook, read a preview | two uploads of one file; mapping against masters that change | a stored preview is complete and frozen; one batch per file |
| Sales publish | `webapp/sales/publish_service.py` | fact table, batch lineage, confirmations | evaluate the gate, publish | advisory month lock, REPEATABLE READ snapshots, partial failure, retries | a month is one snapshot; drops are confirmed; lineage is linear |
| Sales dashboard | `webapp/sales/dashboard_query_service.py` | none (read only) | context, summary, series, rankings | lock-free readers during a publication; a batch id that went stale | no torn month, no mixture of two batches |
| Planning cycle | `webapp/ordering/planning_cycle_lock.py`, `forecast_version.py`, `final_order.py`, `workbench*.py`, `api.py` | cycles, bound dataset versions, forecast versions and revisions, final orders | create, choose sources, save, order, confirm, lock | edits racing the lock; two editors of one cycle | a locked cycle never changes; versions are dense and immutable |
| Production lots | `webapp/ordering/production_lot_lifecycle.py`, `lifecycle_persistence.py`, `workbench_details.py` | revisions of lot results and their sources | calculate, persist, show in a cycle | concurrent runs; which month a lot sold out; results stamped around a lock | a result says what its sources say; the lots of a locked cycle stay |
| Dataset imports | `webapp/ordering/*_import.py`, `*_commit.py` | dataset versions, rows and facts; incoming snapshots | preview, commit | check-then-insert; masters edited after the preview; totals derived several times | totals add up wherever they are shown; repeats come from overlapping requests only |
| Operational master imports | `webapp/mdm/import_engine/*_review.py`, `*_commit.py`, `mdm/*_import/api.py` | import batches, findings, decisions, masters | upload, acknowledge, commit | versioned review, global commit lock, masters that change under review | what is committed is what was reviewed |
| Bootstrap import | `webapp/mdm/import_engine/service.py`, `confirmation.py`, `resolution.py`, `commit.py`, `workflow.py`, `matching.py`, `identity.py` | the same tables, with decisions; masters and their source mappings | stage, resolve, confirm, commit, cancel | failure recorded in a second transaction; cancel racing commit; masters identified by row numbers | a confirmed batch has everything decided; an ended batch stays; masters say what the rows said |
| Master data CRUD | `webapp/mdm/api.py`, `models.py` | masters | create, update, deactivate | edits next to imports | unique keys, live references |
| Accounts | `webapp/auth/*`, `webapp/create_user.py` | users, permissions, `auth_version` (SQLite) | login, create, update, change or reset password | requests act for a user read earlier; tokens racing account changes; the last manager | a manager remains; old tokens die and stay dead |
| Pages | `webapp/static/js/*` | the form that is open | show, send | stale forms | covered with the component they belong to |

Users act through HTTP requests, each in a thread of its own. Threads share nothing
but the database: every interaction below is between database transactions, or
between a request and what its page was shown by an earlier one. The engine is
created in `webapp/mdm/database.py` without an isolation level, so MySQL's
REPEATABLE READ applies: a transaction's plain SELECTs all read the snapshot its
first plain SELECT took; `FOR UPDATE`, UPDATE, DELETE and INSERT see the latest
committed rows; `GET_LOCK` and `FOR UPDATE` take no snapshot. These rules are the
main source of the interesting behaviour and are modelled explicitly.

## Modules

    SalesMonth            what publishing promises: one current snapshot per month
      ^ implemented by
    SalesPublish          page, publish request, lock, read views, failures
      ^ extended by
    SalesDashboard        readers next to the publishers
    SalesPublishProofs    theorems about SalesPublish
      ^ extended by
    SalesDashboardProofs  theorems about the readers

    PlanningBook          what a planning cycle promises: append, then close whole
      ^ implemented by
    PlanningCycle         sources, forecasts, orders, confirmations and the lock
    PlanningCycleProofs   its invariant and properties
    PlanningBookProofs    the implementation of PlanningBook

    ReviewBook            what a review promises: issues only shrink, commit when none is open
      ^ implemented by
    ImportReview          staging, versioned acknowledgement, commit, edits of masters
    ImportReviewProofs    its invariant and properties, the implementation of ReviewBook

    DatasetImport         what previews find in rows, and the facts a commit derives
      ^ used by
    LotLifecycle          the life of a lot, and what the page makes of results
      ^ used by
    PlanningData          concurrent commits, lot results and the lock of a cycle
    PlanningDataProofs    its invariant and properties

    BootstrapImport       staging, decisions, confirmation, commit and its failure
    BootstrapImportProofs its invariants and properties

    Accounts              accounts, permissions, tokens and the requests that edit them
    AccountsProofs        its invariants and properties

    MCSalesPublish, MCSalesDashboard, MCPlanningCycle, MCImportReview,
    MCPlanningData, MCBootstrapImport, MCAccounts
                          values of the constants for TLC

These systems share one database and little else that matters to a property: sales
publication never reads a planning table, planning reads masters by their display
names only, imports write masters, and accounts are a file of their own. Each module
therefore has the edits of masters it can meet (`RenameMaster`, `CreateMaster`,
`UpdateMaster`, `ReassignSku`, `SetActive`, or previews made of earlier `Masters`) as
actions of its own.
`PlanningData` has the part of a cycle that lot results depend on, its bound inventories
and its lock; `PlanningCycle` has all the rest of a cycle.

### SalesMonth

State: stored previews, the current batch and the visible facts of each month,
retired batches, approved drops. A publication changes current batch, facts,
lineage and approval in one step. There are no transactions in it.

### SalesPublish

`db` is the committed content of `sales_import_batch`, `sales_fact` and
`sales_publish_confirmation`. Candidates never change after the preview's commit,
so the facts of a month are the set of batches whose candidates they are; row
counts and quantities follow from the set. The advisory lock is `monthLock`.

| Model | Code |
|---|---|
| `OpenPreview` | `loadPreview` -> `read_publish_gate`; it also runs after every publication, as a request of its own that may fail |
| `Submit` | `publishNow`, or any client of the endpoint |
| `Probe`, `EndProbe` | the routing probe and the rollback that ends its snapshot |
| `AcquireLock`, `LockTimeout` | `GET_LOCK` |
| `LoadBatch` | `_batch_mapping(for_update=True)`: no read view |
| `EvaluateGate` | `_gate_view`: its first plain SELECT takes the read view |
| `AnswerIdempotent`, `Reject`, `Accept` | the early exits of `_publish_without_lock` |
| `Write`, `Commit` | the statements up to `connection.commit()`; `PublishWrites` composes them in order |
| `StatementFails` | `except: rollback; raise` |
| `ReleaseLock` | `finally: RELEASE_LOCK` |
| `ConnectionLost` | the process or connection dies: the server rolls back and frees the lock |

The writes of a transaction are invisible until its commit, so `Write` only performs
the check of the inserted row count, and `Commit` applies the statements to `db`. Rows
written by two publishers of different months are disjoint; for one month the lock
excludes the other. The gate's two blocks that no stored preview can meet
(`PREVIEW_INTEGRITY_INVALID`, `DATA_COVERAGE_UNAVAILABLE`) are left out.
`shownFor` in a confirmation is not a column: it remembers which comparison the
page showed, for the one property about it.

### SalesDashboard

A reader's context request (`ListMonths`, `CheckMonths`) and data request
(`RequestSummary`, `ValidateBatch`, `CheckFacts`, `Summarize`) are sessions of several
statements, each session reading its own snapshot, interleaved with every step of the
publishers. Filters, grouping and paging are left out: they select among rows the
same checks have bound to the batch.

### PlanningBook and PlanningCycle

`db[c]` is the row of a cycle with its bindings, versions, orders and display
snapshots; `job[t]` is the transaction a request thread runs. Every writer and every
reader of a cycle starts with `SELECT ... FOR UPDATE` on its row, so a writer either
finds the row free (`RowFree`), checks what the code checks and prepares its statements
(`Prepare`), or waits, which is no state of its own. `Commit` makes them visible,
`Rollback` is any failure before. Requests that are refused change nothing and have no
action.

| Model | Code |
|---|---|
| `CreateCycle` | `api.create_cycle` |
| `ChooseSources`, `Choosable` | `api.choose_sources`: one slice per type and month |
| `SaveForecast`, `Savable` | `workbench.save_forecast`, called by the page with the version it shows |
| `WriteForecastVersion` | `forecast_version.write_forecast_version` on its own |
| `WriteFinalOrder`, `ChangedOrder` | `final_order.write_final_order`, `service_contract.confirmation_after_quantity_change` |
| `ConfirmFinalOrder` | `final_order.confirm_final_order` |
| `LockPlanningCycle`, `Lockable`, `Archived` | `planning_cycle_lock.lock_planning_cycle`, `_bindings` |
| `ReadWorkbench`, `WorkbenchPage`, `ShownName` | `workbench.read_workbench`, the two histories |
| `RenameMaster` | `mdm/api.py` `update`, which takes no cycle row |

A forecast is the set of masters of its lines and whether one lies outside T to T+3:
that is all that saving, showing and archiving look at. Quantities of orders are model
values. The names a lock archives are those of its read view, which begins after all
its locking reads: in the model, at `Prepare`. The MySQL triggers that refuse writes to
a locked cycle are left out, so what is shown holds by the services' own checks, on
SQLite as well. The guards against unresolved identities cannot fail: foreign keys
restrict every deletion.

`PlanningBook` has no rows or requests: forecasts and decisions are appended, an
approval belongs to the last decision, and `Close` keeps a name for all that a reader
can meet. The mapping drops bindings' periods, keeps forecasts as sets of masters, and
reads decisions off the pre-change revisions followed by the current quantity, as
`read_final_order_history` does.

### ReviewBook and ImportReview

`db` holds the import tables and the masters; `view` is the snapshot part of a
request's batch, `held` the batch object in its session. That object matters: a
`FOR UPDATE` query does not refresh an object the session already holds. `batchLock` is
the row lock, `commitLock` the `GET_LOCK` per entity.

| Model | Code |
|---|---|
| `Upload`, `RulesFor` | `stage_file` and the Customer rules that look at masters and other rows |
| `SubmitAck`, `LockBatch`, `HeldBatch` | the route's unlocked read, then `acknowledge` |
| `Acknowledge`, `RejectAck`, `NewDecisions`, `RowReadiness`, `BatchReadiness` | `acknowledge`, `_apply_readiness`: version n's findings and decisions are copied to n+1 |
| `SubmitCommit`, `AcquireCommitLock`, `CommitLockTimeout` | `commit`, `_acquire_global_lock` |
| `Revalidate`, `RejectCommit`, `QualityGate`, `MastersValid` | `_final_quality_gate`, `_revalidate_masters` |
| `CommitMasters`, `ReleaseCommitLock` | the inserts and the end of `commit` |
| `StatementFails`, `LockConnectionLost` | `except`; MySQL frees a lost connection's lock |
| `CreateMaster`, `RenameMaster`, `SetActive` | the master data routes |

Rows are numbers in workbook order, masters are codes with the kind of name they carry
(none, the workbook's, another). A finding is its rule and row. Texts, INFO findings
and the second look at Product names are left out, and so are the Goods and SKU
commits. `ReviewBook` sees the open issues of each batch and whether it is committed.

### DatasetImport, LotLifecycle and PlanningData

`DatasetImport` and `LotLifecycle` are operators. A row is its number and its cells; a
cell is `Blank`, `Garbled` (it does not parse) or a value, so parsing is what it makes of
a cell: a blank quantity is zero in an inventory, an error in actual sales and no shipment
in incoming lines. Texts that only have to be there are one cell. `PlanningData` has the
tables and the services.

| Model | Code |
|---|---|
| `InventoryPreview`, `ActualPreview`, `IncomingPreview` | `validate_inventory_import`, `validate_actual_sales_import`, `validate_incoming_import`: blocking findings, normalised rows, period |
| `Previews` | a preview keeps the masters it resolved; its commit does not read them again |
| `CheckDuplicates`, `CommitVersion` | `commit_inventory_preview`, `commit_actual_sales_preview`: checks in the snapshot, then inserts; only the version key is unique |
| `CommitIncoming` | `commit_incoming_preview`, which checks the snapshot key alone |
| `Facts` | the derived facts of a commit, computed from exact quantities |
| `Rounded`, `StoredSum`, `StoredBalances` | rows, SKU facts, product facts and shipments as `NUMERIC(18,3)` columns keep them, each rounded half up on its own; a sum of rows adds what is stored |
| `Balanced`, `InventoryFits` | the checks of the inventory tables on what is stored: a file that breaks one is not committed |
| `Lifecycles`, `TerminalSoldOutMonth` | `calculate_production_lot_lifecycles`, `_terminal_sold_out_month` |
| `CalculateAndPersist`, `PersistNext`, `AlreadyStored`, `AppendedRow`, `CommitPersist` | `persist_lifecycle_results`: lot by lot, the newest revision under a row lock, its sources by a plain read of the older snapshot |
| `EndJob` | a refusal, a constraint, a deadlock: the transaction is rolled back |
| `ChooseInventories`, `StampLock`, `CommitLock` | the sources of a cycle; `locked_at` is set before the lock is committed |
| `Details`, `Eligible`, `InTime`, `LotLine`, `Remaining` | `read_details` |
| `IncomingPlaces` | the supply columns of `read_workbench` |

`late`, `seen` and `unseen` are history: whether a row's `created_at` is after `locked_at`,
and what the transaction that wrote it could see. A lot that must wait for another
transaction's row lock has no enabled `PersistNext`; results come in one order of lots.

### BootstrapImport

| Model | Code |
|---|---|
| `StageFile`, `Issues`, `Evaluated`, `Reference` | `stage_file` in bootstrap mode, `evaluate_workbook`, `matching.py`: references to masters or to rows of other staged batches are frozen |
| `AppendDecisions`, `Subjects`, `Options`, `Ready` | `resolve`, `acknowledge` -> `_append`, the gates |
| `Confirm`, `Cancel`, `DependenciesMet` | `confirmation.py` |
| `BeginCommit`, `CommitBatch` | `commit`: the batch row is locked, everything else is read in one snapshot (`now`) |
| `Entries`, `Identity`, `Reused`, `Written` | `_mapping_entity` and the four `_commit_*`: masters by identity key, labels and references compared |
| `RefuseCommit` | `WorkflowError`: rolled back, still confirmed |
| `CommitFails`, `RecordFailure`, `StillConfirmed`, `LoseJob` | any other error: the rollback frees the batch, then `_record_failure` locks it again |
| `ParentsGiven` | the second loop of `_commit_customers`: a parent is written when it differs from the one the commit read, since the session writes only what changed |
| `CreateMaster`, `UpdateMaster`, `SetActive` | the master data routes `create`, `update` and `lifecycle`, with `resolve_payload` |
| `ReassignSku` | `POST /skus/{id}/reassign-product` |

Every issue has a subject, and a decision is on a subject: a row, a code that repeats, or
all rows with a warning. `_validate_resolution` also accepts a decision on a row without
the issue; of these the commit reads the ones on parents, which are `Overruled`. `Held`
is the row lock of a commit; the other calls are one transaction behind it.

Edits by hand take no lock an import takes, so they happen between any two steps, also between
a frozen reference and its commit and between a commit's snapshot and its writes. `names`,
`related` and `byHand` of a master are history, not columns: the names and the relations (a
customer's channel and representative, an SKU's product) it has had, and whether its parent
was set by hand after the last row that gave it one. A customer's region and the provinces are
not tracked: the commit neither compares nor rewrites them.

### Accounts

| Model | Code |
|---|---|
| `Init` | an empty user table, or one from before permissions and versions (`Legacy`) |
| `MigrateAccountDb` | `migrate_account_db`: every entry, the server's start and the tools alike, runs it first; accounts get the defaults of their role |
| `InitializeAccounts` | `demo/initialize_accounts.py`: whichever of its accounts are missing, with their permissions |
| `Login`, `CreateToken` | the row of the password check, then `auth_version` by a second connection |
| `ReadUser`, `ReadPermissions` | `active_user_from_token`: user and permissions are two statements |
| `CheckUsername`, `CreateAccount` | `create_account`: the unique name decides |
| `UpdateAccount`, `OtherManagers`, `Bump` | `update_account` after `BEGIN IMMEDIATE` |
| `ResetAccountPassword`; `VerifyOldPassword`, `ChangePassword` | the two ways to set a password |
| `AddUser` | `create_user.py` |
| `EndRequest` | any refusal, failure or end of a read |

A request acts for the user it read, however long ago. `password`, `verified` and `live` in a
token are history, for the properties: the password that was verified, the version its row had
then, and whether the account was active when `create_token` read it again. Time and hashes are
left out.

## Runs

| Run | Instance | Shows |
|---|---|---|
| `SalesPublish` | 2 publishers, 1 month, 3 batches: `ba`; `bc` grows as far; `bb` reaches further and loses exactly 80 % | type, one current batch, facts = current batch, linear lineage, confirmed drops, true answers, fresh reads, superseded is final, refinement of `SalesMonth` |
| `SalesPublishLive` | 2 publishers, 2 months, a batch each | every request ends, every lock is freed |
| `SalesPublishShown` | as `SalesPublish` | violation: a confirmation approves a comparison its user did not see |
| `SalesDashboard` | 2 publishers, 1 reader, 1 month, 2 batches | no torn month, whole summaries, justified reloads |
| `PlanningCycle` | 2 threads, 1 cycle, 2 products and a channel that is renamed, 3 slices of which two overlap in one month, 2 versions, 1 revision | type, one version per month, a locked cycle is complete and frozen, saves replace what they show, refinement of `PlanningBook` |
| `ImportReview` | 2 operators, a Customer batch of 2 rows that share a name and are created under a channel and a parent; the channel is switched, the parent named while it runs | type, one copy per version, readiness is true, commits are whole and final, references are active, refinement of `ReviewBook` |
| `ImportReviewStale` | 2 operators, a Product batch | violation: a stale review version is accepted |
| `ImportCommitParent` | as `ImportReview`, the parent an existing row of the workbook | violation: a Customer under an inactive parent |
| `PlanningData` | 2 threads, 2 keys, 2 SKUs of a product and one of another, 2 production dates; January with fractions of a thousandth, a correction of it, February, a file that does not balance and one that does so only until it is rounded, sales and shipments; masters before and after a deactivation; a cycle for March | type, repeats come from overlapping transactions, totals add up, results say what their sources say, locked lots stay |
| `PlanningDataChecks` | as `PlanningData` | violation: a calculated result that the table refuses |
| `BootstrapImport` | 2 threads; a channel, two lists of sales representatives that disagree, four customer files with and without parents of which one follows another, three SKU files of which one moves an SKU to another product; by hand a customer is made, a channel switched, a representative renamed as another, a customer moved to another representative and code, renamed, parted from its parent, and SKUs reassigned | statuses mean what they say, masters say what rows say, ended batches stay |
| `Accounts` | 2 clients, 2 accounts, from an empty table or an old one with one account; 2 passwords, User Management, 2 versions | type, a manager remains, tokens die with their password and stay dead |

Bounds. Two publishers suffice for every pairwise race on a month's lock; a third
would only wait with the second. Three batches give first publication, replacement
with and without a confirmation, rejected coverage regression, and re-publication of a
superseded batch. `bb` loses exactly the threshold, the edge of the comparison. Counters
are fixed per batch, so nothing needs a state constraint, and every reachable state
is visited. The theorems remove all of these bounds.

Two threads are enough for a cycle as well: its row admits one transaction at a time,
so a third thread adds only pages, and a page is stale or not. Two versions give a
save over a save, an adopted version next to one nobody adopted (whose names only the
lock's archive keeps) and the choice between them; one revision gives a confirmed
quantity that is changed. `MaxVersions` and `MaxRevisions` bound the two sequences that
grow. One cycle is enough because a transaction never touches two. Two operators and
two rows give an import batch a finding shared by rows, findings of each row, and
every order of acknowledgement and commit; more rows only repeat them. The theorems
about `PlanningCycle` again need none of these bounds.

`PlanningData`: two keys and two threads give a workbook stored twice and every overlap
of a commit, a calculation and the lock. Two months have lots that end at zero at the
start, at the end or in both, and one that comes and goes in one month. Two revisions
give a repeat. The shipment lines lie before, in and past the four months shown,
without a date, without a quantity, and entered. `MaxVersions` bounds what is committed.
`Fine` is the number of units in a thousandth: with 10, files have quantities that are whole
thousandths, quantities that round down and up, and halves that round up, in rows that are added.
The run reaches 288,462 states in two minutes.

`BootstrapImport`: `Together` bounds which batches are staged beside each other: both lists
with the channel and a customer file, in every order; a customer file whose parents have to be
decided; two customer files that identify a row alike and give it different parents; SKU files, which
refer to no other batch. `Follows` makes a customer file wait in the last two until what it
refers to, or the file before it, has ended: both are bounds on staging alone. A review version
of 2 is one round of decisions, of every subset. `Patches` are the updates by hand, one for each
kind that could part a master from its rows: a name that another file uses, a relation and a code
at once, a name and the parent; an SKU may go to any active product. `Unasked` names the
row whose parent may be decided although nothing was found: the one of the file that gives a parent in its
workbook. The run reaches 356,940 states. The theorems need none of these bounds.

`Accounts`: two managers are what it takes to deactivate each other. Version 2 is two
changes of a password, to another and back, or one and a deactivation. User Management is the only
module in the run: no level of another one decides whether a request of this component is
answered. The run reaches 1,046,464 states.

Threads, clients, passwords, order quantities and operators are interchangeable and TLC
uses that symmetry in runs of safety properties only.

Fairness (`FairSpec`): weak fairness of `Serve(p)`, a request thread that keeps
running. It holds because a thread never waits for anything without a timeout:
`GET_LOCK` has one, which is `LockTimeout`. Nothing is assumed of users, failures
or crashes.

## Proofs

`SalesPublishProofs` proves, for all finite or infinite sets of batches, months and
publishers and for every threshold that satisfy the three assumptions of
`SalesPublish`:
`Typing`, `OneSnapshotPerMonth`, `FactsAreCurrent`, `LinearLineage`, `ConfirmedDrops`,
`TrueAnswers`, `FreshReads`, `SupersededStays` and `Refinement`.

The inductive invariant is `IInv`. One current batch per month is not inductive: a
publisher about to commit could mark a batch that is no longer current. What makes
it so is `ReadsStayFresh`. `LockInv` says a publisher past `GET_LOCK` owns its month
and has no read view from before; `FreshInv` says the row, the read view and the
gate it holds still agree with the committed tables of its month. Every step that
changes a month is `Commit` of the lock's owner, so nobody else's reads go stale
(`SameMonth`). From `IInv` each commit is a `PublishFirst` or `PublishNext` of
`SalesMonth`, and every other step a stutter or `Upload`.

`PlanningCycleProofs` and `PlanningBookProofs` prove, for any cycles, threads, masters,
sources, quantities and bounds: `Typing`, `OneVersion`, `Complete`, `Frozen`, `Saves`
and `Refinement`. The invariant `IInv` says that what a transaction prepared is still
an effect of its request on the row as it is now (`JobIsFresh`), which holds because no
other transaction can have that row, and that every committed cycle is sound
(`CycleIsSound`). Without the first, a commit could overwrite a locked cycle with what
was right when it was prepared: the mutants of `RowFree` and `Prepare` do just that.
`EffectType` and `EffectSound` say what each request makes of a cycle, `WorkPrepares`
that every writer prepares such an effect, `LockedWhole` that the lock's archive has a
name for all that page and histories show. For the refinement, `CommitBook` maps each
kind of commit to one action of the book; `QuantityAppended` and `ForecastAppended` are the
facts about sequences it needs. The assumptions are the named ones of `PlanningCycle`:
the constants have their types and the distinguished values are no members of them.

`AccountsProofs` proves, for any users, clients, modules, passwords, forms and bound on versions
that satisfy `AccountsAssumption`: `Typing`, `AManagerRemains`, `TokensDieWithPasswords` and
`RefusedTokensStayRefused`. The properties alone are not inductive. `UntouchedBefore` says that
before the migration nobody is logged in and no account has a permission, so the migration can
only add managers and no request runs before it. `LoginsAreBehind` says that a checked login is
for an account that exists, verified at a version no later than the present one and, if at the
present one, with the present password of an account that is active. `TokensAreBehind` says that a
token is no newer than its account, which a later version could make valid; that one of the present
version is for an active account if it was created for one, and for the present password
unless it is `Raced`; and that every token that is not `Raced` was created for an active account. Every write is one account that becomes a successor of itself (`OneWrite`: no earlier
version, a later one for a new password or a deactivation), and a manager stops being one only
beside another (`Managed`). `WriteKeeps`, `ReadKeeps`, `MigrateKeeps` and `InitializeKeeps` carry
the invariant over the four kinds of step. Breaking `Bump` or `OtherManagers` as the mutants do
breaks these proofs. `AManagerRemains` is about steps: a table without a manager exists, namely an
empty one, and nothing here promises that somebody fills it.

`SalesDashboardProofs` proves `ReaderTyping`, `MonthsAreNeverTorn`, `SummariesAreWhole` and
`ReloadsAreJustified`, for any readers beside the publishers above. The invariant `DInv` adds to
`IInv` that a reader's snapshot was committed as it is (`Sound`) and that the present builds on it
(`Before`: what was published or replaced stays so). A summary needs the first, a justified
reload the second: the batch missing from the newer snapshot was published once, and only a
replacement takes it away. The integrity check sums over the facts of a month;
`SumOfOne` and `FactsOfOne` evaluate it for the one batch that is there.

`ImportReviewProofs` proves `ReviewTyping`, `VersionsAreCopies`, `ReadinessMeansReviewed`,
`CommitsAreWhole`, `CommittedBatchesStay`, `CommittedReferencesAreActive` and
`ReviewsImplementTheBook`, for any operators, masters and batches of finitely many rows each
(`ImportAssumption`, `WorkbookAssumption`, `ImportViewAssumption`: no row creates a
master that a row needs as its channel, representative or region, since those have imports or
routes of their own; a parent may well be another row). The properties hold of batches in `FreshReview`, the
Customer review: the others break them, which is the finding of `ImportReviewStale`. The invariant
`IInv` says that the versions of a batch are copies of its first (`VersionsOK`), that rows and
status follow from findings and decisions (`RowsOK`), that a snapshot holds all versions up to
its own and its rows as they are while its version is the last (`ViewOK`), that whoever has
passed the batch lock holds the batch as it is (`HeldInv`), and that between the last
validation and the inserts the locked references stay active (`CommitInv`). `ViewOK` is what makes a
late acknowledgement harmless: its view may be old, but then its version is, and it is refused
under the lock. For the refinement each acknowledgement removes acknowledged warnings from the
open issues of its batch, and nothing else does.

`PlanningDataProofs` proves `DataTyping`, `RepeatsAreOverlaps`, `ImportsDoAddUp`,
`ResultsAreTrue` and `LockedStayFrozen`, for any workbooks of finitely many rows, masters, lots,
threads and bounds (`PlanningDataAssumption`, `ContentAssumption`: products, dates and numbers are
what a parser can return, keys are finitely many). `ImportInv` says that every version was
previewed from its workbook and has the facts of its rows (`SnapshotInv`: so has every incoming
snapshot), and that two versions of one workbook did not see each other (`PairInv`); it rests on
`PeriodOfWorkbook`: a preview that may be committed has the period of its workbook, whatever masters it was
made with. `PersistInv` says that every stored result is one its sources give and that the
rows a transaction has prepared remain the next ones of their lots (`Transaction`), since nobody
else can have the row lock of those lots. `ResultsAreTrue` needs facts about ordering by month
(`MonthOrderExists` and its kin, by least counterexample, since an induction over sets is out of
reach), which make the way through the months one, whatever order the versions were
selected in. A locked cycle's lots stay because its versions do and later results are stamped
later. `ImportsDoAddUp` needs sums over sets: `Adds` says what a sum of all parts of a set is,
`SumsExist` and `OneSum` (least counterexamples again) that a finite set has exactly one, so that it
does not matter in which order the library's fold takes elements away, and `DisjointSums` and
`GroupedSums` that groups add up to what was grouped. The rest is grouping: SKU facts
reconcile with product facts because one set of masters gave all rows of a version their
products (`InventoryBalances`), and the page's months, overdue, later and unscheduled supply are a
partition of the lines that are counted in the total (`PlacesAddUp`). Quantities are integers of
`Fine` to a thousandth, for any `Fine` (`FineAssumption`: a positive number), so as many decimals as a
file may have. What is stored is rounded, number by number: `RoundedNear` says by half a thousandth at most,
`NearAdds` and `RoundedSums` that errors add, `WholeAdds` that sums of whole thousandths are whole and
thus unrounded. `StoredSumIsNear`, `RoundedGroups` and the predicates `InventoryAddsUp`, `SalesAddUp` and
`SupplyAddsUp` then bound each total by the number of roundings in it, zero for whole thousandths.

`BootstrapImportProofs` proves `BootstrapTyping`, `EndedBatchesStay` and `MastersAreRows`, for any
batches, workbooks, masters and threads (`BootstrapAssumption`; `IdentityAssumption`: row
numbers are unique in a file, and a master made by hand has a random identity no row has). `IInv`
says that statuses and decisions agree, that a frozen reference leads to a master that bears, or bore
until somebody renamed it, the name its row gave, or to a row of that name (`FrozenRow`), and that a commit is
alone with its batch and still finds what its snapshot showed, or what it was until somebody changed
it by hand (`StillThere`: the names and relations a master had are never forgotten, mappings keep labels).
`HandKeeps` carries this over the edits by hand (`UpdateEdits`, `ReassignEdits`, `ActiveEdits`, `CreationEdits`),
each of one master. `MastersAreRows` needs two facts more, `SInv`: every imported master is mapped under a
name it bears or bore (`Labelled`), now and in every snapshot a commit works from; and the parents such a snapshot shows are the present
ones, or the present ones are credible (`ParentsSeen`; `Credible`: given by a committed row or set by hand). With the
first, a row that meets an existing identity is compared with a name of that master; without it a
mapping could lag behind. The second is for the parents a commit does not write because its snapshot
already shows them: by then somebody may have changed them. The theorem has `OneSystem` for a hypothesis: with two
source systems it is false, see below. The default `EXCEL_BOOTSTRAP` is the only system the bootstrap mode is given. The
proof of each commit composes `EntriesSay` (each entry becomes a master that names it), `EntryMapped`,
`CommitLabels`, `ReferenceReached`, `GivenIsSaid` and `CommitKeepsParents`; `SaidStays` carries the rows
committed before over every step. What the theorem leaves open is what a hand does: after it, a row's
master may have another name, channel, representative, product or parent. It says that nothing else does that.

Only model-checked: liveness (`RequestsEnd`, `LocksAreFreed`), and that the four properties of
the violation runs fail. Every safety invariant and action property of the passing runs is
proved, `MastersSayWhatRowsSay` for one source system.

## Divergences found

`SalesPublishShown`: `SalesPublishConfirmation` says a confirmation "can never be
reused to approve a later, different state". The row cannot; the user's tick can. The
request names a code, not the batch the drop was measured against. Page of p1 shows
"bb drops against ba", p2 publishes bc, p1 ticks and publishes: the drop of bb against bc is
recorded as confirmed by p1, who never saw it.

`ImportReviewStale`: the Product, Goods and SKU reviews load the batch to look at its
entity, keep it, and call the base class, whose `FOR UPDATE` query waits for the row but
returns the object as it was. Two operators who both saw version 1 are both accepted;
both write version 2, each finding has two copies in it, and one of each can never be
acknowledged: the batch stays in review. The Customer review keeps nothing and is right
(`OneCopyPerVersion` of `ImportReview`).

`ImportCommitParent`: the commit re-reads every reference with a lock. The Customers of
existing rows were read without one just before, and the last of them is still held by a local
variable; if it is the parent of a new row, the locking read returns it as it was in
the snapshot, active, although it has been deactivated since.

`PlanningDataChecks`: `_terminal_sold_out_month` goes back over every month that ends at
zero, also those before the lot came in. ERP extracts keep all-zero rows, so a lot may be
listed with zeros in January and be received and issued whole in February: sold out in
January, inbound in February, consumption 0. `ck_ord_lot_date_order` and
`ck_ord_lot_consumption_nonnegative` (`ordering/models.py`) reject the row, and the
results of every other lot of the calculation roll back with it.

Met while modelling, and stated in no run:

- `KEEP_SEPARATE` settles repeated customer codes ("rows remain separate and are not
  merged", `validation.py`), but the code is unique in the customer table: the commit of such
  a batch always fails (`Unstorable`).
- A decision closes `CHANNEL_UNRESOLVED` and `SALESREP_UNRESOLVED`, but the commit never
  reads it: the customer has no channel, and the commit fails.
- A decision on `PRODUCT_MERGE_CONFLICT` is accepted and kept, but as a governance
  confirmation, which settles no error (`Settled`): such a batch can only be cancelled.
- Customers and sales representatives are identified by their row number without the
  source system: a second system's row 2 becomes the first system's master.
  `MastersSayWhatRowsSay` is checked, proved, and true for one system only.
- The importers accept quantities with more than three decimals; rows, SKU facts, product facts and
  shipments are stored as `NUMERIC(18,3)`, each rounded on its own. Two SKUs of 0.0004 are stored as 0.000
  each and their product as 0.001: `workbench_details.py` then calls the inventory anomalous and shows no
  lots, or the table's check of opening, receipt, issue and ending refuses the whole file at its commit
  (`InventoryFits`), after a preview without a finding. `ImportsAddUp` allows for it; files in whole
  thousandths are exact. Quantities beyond eighteen digits are not modelled.
- A login compares the password with one row and reads `auth_version` by a second connection
  (`router.py`, `create_token`). If the password is changed between the two, the token for the old one has
  the new version and is accepted; if the account is deactivated between them, its token is accepted once the
  account is activated again. `AcceptedUnderPassword` and `RefusedStaysRefused` except such tokens
  (`Raced`), and hold of all others.
- A name or a relation that was changed by hand is not looked at by later imports: a row is compared with the
  label of its mapping, and a customer's channel and representative with the present ones, so a file that was committed before is
  refused as `SOURCE_KEY_REUSED` once somebody has moved one of its customers, and its renamed masters keep their new
  names without a finding.
- A later customer file with the same row number, name and references gives the customer a new parent without
  a finding. A proof that a committed row keeps its parent failed on this, and TLC found the two
  files; `ParentSaid` says what is true, that the parent is one some row of that identity
  gave, or one set by hand after it. `PARENT_CYCLE` looks inside one workbook (`validation.py`), and the commit
  refuses only a customer that is its own parent, so two files can close a cycle of parents.
- Regions and provinces are never looked up by name, so one that exists under another
  identity fails the commit on the unique name.
- `AlreadyStored` compares with sources read in an old snapshot: two overlapping runs store
  one result twice, and the page then says it cannot tell which is right
  (`RepeatsOverlap` allows exactly this).

## Plan

1. Done: sales publication, dashboard, proofs of both; `PlanningCycle`, `PlanningBook`, proofs;
   `ImportReview`, `ReviewBook`, proofs; `DatasetImport`, `LotLifecycle`, `PlanningData`,
   proofs; `BootstrapImport`, proofs; `Accounts`, proofs.
2. More about what is proved: the lock of a cycle and the lots it binds in one theorem.
3. `SalesPreview`: duplicate uploads, mapping, preview integrity; discharges what
   `SalesPublish` leaves out of its gate.

## Not modelled

The operational Product, Goods and SKU row rules and text normalisation (per-row
functions without concurrent state), the reading of workbook files, the projection
arithmetic of the planning page, return policies of lots (nothing configures one),
merges of product representatives, rendering, paging, demo data, deployment and
migrations. Nothing in the repository calls the lot persistence or stages a file in
bootstrap mode; their modules take any order of calls. The clocks that stamp `locked_at`
and `created_at` are taken to agree. The race of two commits that create one code needs
two mechanisms to fail (the locking read and the unique index). `PROJECT.json` lists
every component with its status.

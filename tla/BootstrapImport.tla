---------------------------- MODULE BootstrapImport ---------------------------
(***************************************************************************)
(* The bootstrap import of master data (webapp/mdm/import_engine): a       *)
(* workbook of channels, sales representatives, customers or SKUs is       *)
(* staged, its findings are decided on, the review is confirmed and then   *)
(* committed.  Every call locks its batch first and reads everything else  *)
(* in a snapshot taken afterwards.  A commit that fails technically rolls  *)
(* back, which releases the batch, and records the failure in a second     *)
(* transaction.  Masters are identified by where a row came from: a row    *)
(* number, a channel index, a code.  The governance rules are empty in     *)
(* this edition, and nothing writes aliases.                               *)
(***************************************************************************)
EXTENDS Integers, FiniteSets, FiniteSetsExt

CONSTANTS
    Batch, Thread,
    TypeOf,         \* entity type of a batch
    SystemOf,       \* its source system
    RowsOf,         \* its rows: [no, name, code, channel, salesrep, region,
                    \*   parent, product, form, complete], None where unused
    Manual,         \* masters created by hand: [id, name, code, refs, parent]
    Switched,       \* ids of masters that are activated or deactivated
    Patches,        \* updates by hand: [id, given], given the fields of the request
    Unasked,        \* bound: <<batch, row number>> whose parent is decided unasked
    MaxVersion,     \* bound on the review versions of a batch
    Together,       \* bound: sets of batches that are staged beside each other
    Follows,        \* bound: batches whose end the staging of a batch waits for
    None, NoJob

Type == {"CHANNEL", "SALESREP", "CUSTOMER", "SKU"}

ASSUME BootstrapAssumption ==
    /\ TypeOf \in [Batch -> Type]
    /\ DOMAIN SystemOf = Batch /\ DOMAIN RowsOf = Batch
    /\ MaxVersion \in Nat \ {0}
    /\ Together \subseteq SUBSET Batch
    /\ Follows \in [Batch -> SUBSET Batch]

VARIABLES
    batch,      \* status, review version, confirmed version and decisions
    staged,     \* what staging found in the rows of each batch
    masters,    \* committed masters by id, the type and the identity key; history:
                \* the names and the relations they have had, and a parent set by hand
    mappings,   \* labels of <<type, source system, identity key>>
    job         \* commits under way

vars == <<batch, staged, masters, mappings, job>>

Mutable == {"READY_FOR_REVIEW", "RESOLVING", "READY_TO_CONFIRM"}
Final == {"COMMITTED", "CANCELLED", "FAILED"}

Row(b, n) == CHOOSE r \in RowsOf[b] : r.no = n

-----------------------------------------------------------------------------
(* Staging *)

\* Candidates for a reference: masters of the name, and for channels and sales
\* representatives the sound rows of batches nobody has begun to review.
MastersNamed(type, name) ==
    {id \in DOMAIN masters : id[1] = type /\ masters[id].name = name}

StagedNamed(type, name) ==
    IF type = "CUSTOMER" THEN {}
    ELSE UNION {{<<b, r.no>> : r \in {q \in RowsOf[b] : /\ q.name = name
                                                        /\ staged[b][q.no].status # "ERROR"}} :
                   b \in {c \in Batch : /\ TypeOf[c] = type
                                        /\ batch[c].status = "READY_FOR_REVIEW"}}

Candidates(type, name) ==
    {[kind |-> "MASTER", at |-> id] : id \in MastersNamed(type, name)}
        \cup {[kind |-> "STAGED", at |-> p] : p \in StagedNamed(type, name)}

Usable(c) == c.kind = "STAGED" \/ masters[c.at].active

Reference(type, name) ==
    LET usable == {c \in Candidates(type, name) : Usable(c)}
    IN  IF Cardinality(usable) = 1 THEN CHOOSE c \in usable : TRUE ELSE None

Issue(code, severity, condition) ==
    {i \in {[code |-> code, severity |-> severity]} : condition}

Repeats(b, r, f) == \E q \in RowsOf[b] : q.no # r.no /\ q[f] = r[f]

\* A reference without exactly one usable candidate is an error.
ReferenceIssues(type, name, unresolved) ==
    LET found == Candidates(type, name)
        inactive == found # {} /\ \A c \in found : ~Usable(c)
        missing == Reference(type, name) = None
    IN  Issue("INACTIVE_REFERENCE", "ERROR", inactive)
          \cup Issue(unresolved, "ERROR", missing /\ ~inactive)

\* A parent is a row of the workbook if its name is unique there, or a master;
\* a row that names itself has none.
ParentRows(b, r) == {q \in RowsOf[b] : q.name = r.parent}

InBatch(b, r) == Cardinality(ParentRows(b, r)) = 1

ParentOf(b, r) ==
    IF r.parent \in {None, r.name} THEN None
    ELSE IF InBatch(b, r)
    THEN [kind |-> "STAGED", at |-> <<b, (CHOOSE q \in ParentRows(b, r) : TRUE).no>>]
    ELSE Reference("CUSTOMER", r.parent)

\* The master a row stands for by its code, else by its name.
MatchedMaster(b, r) ==
    LET coded == {id \in DOMAIN masters : id[1] = TypeOf[b] /\ masters[id].code = r.code}
        named == MastersNamed(TypeOf[b], r.name)
        found == IF coded # {} THEN coded ELSE named
    IN  IF Cardinality(found) = 1 THEN found ELSE {}

ParentIsSelf(b, r) ==
    LET p == ParentOf(b, r)
    IN  /\ p # None /\ MatchedMaster(b, r) # {}
        /\ MatchedMaster(b, r) = IF p.kind = "MASTER" THEN {p.at}
                                 ELSE MatchedMaster(b, Row(b, p.at[2]))

\* The rows whose parents are parents of theirs.
InCycle(b, r) ==
    LET next(n) == LET p == ParentOf(b, Row(b, n)) IN
                       IF p # None /\ p.kind = "STAGED" THEN {p.at[2]} ELSE {}
        up[k \in 0 .. Cardinality(RowsOf[b])] ==
            IF k = 0 THEN next(r.no) ELSE up[k - 1] \cup UNION {next(n) : n \in up[k - 1]}
    IN  r.no \in up[Cardinality(RowsOf[b])]

Variants(b, product) == {q.form : q \in {s \in RowsOf[b] : s.product = product}}

\* What evaluate_workbook finds in a row, by the type of its batch.
Issues(b, r) ==
    Issue("REQUIRED_FIELD_MISSING", "ERROR", ~r.complete) \cup
    CASE TypeOf[b] = "CHANNEL" ->
            Issue("CHANNEL_BOOTSTRAP_REQUIRED", "WARNING", MastersNamed("CHANNEL", r.name) = {})
              \cup Issue("POSSIBLE_DUPLICATE_NAME", "WARNING", Repeats(b, r, "name"))
      [] TypeOf[b] = "SALESREP" ->
            Issue("SALESREP_AMBIGUOUS", "WARNING", Repeats(b, r, "name"))
      [] TypeOf[b] = "CUSTOMER" ->
            Issue("DUPLICATE_CUSTOMER_CODE", "WARNING", Repeats(b, r, "code"))
              \cup ReferenceIssues("CHANNEL", r.channel, "CHANNEL_UNRESOLVED")
              \cup ReferenceIssues("SALESREP", r.salesrep, "SALESREP_UNRESOLVED")
              \cup Issue("SALESREP_AMBIGUOUS", "WARNING",
                         /\ Reference("SALESREP", r.salesrep) = None
                         /\ Cardinality(Candidates("SALESREP", r.salesrep)) > 1)
              \cup Issue("PARENT_UNRESOLVED", "WARNING",
                         r.parent \notin {None, r.name} /\ ParentOf(b, r) = None)
              \cup Issue("PARENT_SELF", "ERROR", ParentIsSelf(b, r))
              \cup Issue("PARENT_CYCLE", "ERROR", InCycle(b, r))
      [] TypeOf[b] = "SKU" ->
            Issue("PRODUCT_CANDIDATE", "WARNING", TRUE)
              \cup Issue("DUPLICATE_UNIQUE_CODE", "ERROR", Repeats(b, r, "code"))
              \cup Issue("PRODUCT_MERGE_CONFLICT", "ERROR",
                         Cardinality(Variants(b, r.product)) > 1)

HasSeverity(issues, s) == \E i \in issues : i.severity = s

Evaluated(b, r) ==
    LET issues == Issues(b, r)
    IN  [issues |-> issues,
         status |-> IF HasSeverity(issues, "ERROR") THEN "ERROR"
                    ELSE IF HasSeverity(issues, "WARNING") THEN "WARNING" ELSE "VALID",
         channel |-> IF TypeOf[b] = "CUSTOMER" THEN Reference("CHANNEL", r.channel) ELSE None,
         salesrep |-> IF TypeOf[b] = "CUSTOMER" THEN Reference("SALESREP", r.salesrep) ELSE None,
         parent |-> IF TypeOf[b] = "CUSTOMER" THEN ParentOf(b, r) ELSE None]

-----------------------------------------------------------------------------
(* The review *)

\* Decisions settle errors of a row, findings that need one, and warnings.
Allowed(code) ==
    CASE code \in {"CHANNEL_UNRESOLVED", "SALESREP_UNRESOLVED"} -> {"RESOLVED"}
      [] code = "DUPLICATE_CUSTOMER_CODE" -> {"KEEP_SEPARATE"}
      [] code = "PARENT_UNRESOLVED" -> {"SET_NULL", "MAP_PARENT"}
      [] code = "PRODUCT_MERGE_CONFLICT" -> {"MERGE_OR_KEEP"}
      [] OTHER -> {}

IssuesOf(b, n) == staged[b][n].issues

\* A warning is acknowledged for all its rows together, no row has number 0;
\* a decision on customer codes that repeat is one per code.
Subject(b, n, i) ==
    CASE i.severity = "WARNING" /\ Allowed(i.code) = {} -> <<i.code, 0>>
      [] i.code = "DUPLICATE_CUSTOMER_CODE" -> <<i.code, Row(b, n).code>>
      [] OTHER -> <<i.code, n>>

Subjects(b) ==
    UNION {{Subject(b, n, i) : i \in IssuesOf(b, n)} : n \in DOMAIN staged[b]}

Options(s) ==
    IF Allowed(s[1]) # {} THEN Allowed(s[1])
    ELSE IF s[2] = 0 THEN {"ACKNOWLEDGE"} ELSE {}

\* A parent is mapped to some customer, which the commit looks for.
Target(choice) ==
    IF choice = "MAP_PARENT"
    THEN {id \in DOMAIN masters : id[1] = "CUSTOMER"} \cup {None} ELSE {None}

\* A decision on a row is also accepted where nothing was found; the commit
\* reads the ones on parents.
Overruled(b) == {<<"PARENT_UNRESOLVED", n>> : n \in {k \in DOMAIN staged[b] : <<b, k>> \in Unasked}}

Decidable(b) ==
    UNION {UNION {{[subject |-> s, choice |-> c, target |-> t] : t \in Target(c)} :
                     c \in Options(s)} : s \in Subjects(b) \cup Overruled(b)}

Decided(decisions) == {d.subject : d \in decisions}

\* A decision on a merge conflict counts as governance: its error stays open.
Settled(decisions) == {s \in Decided(decisions) : s[1] # "PRODUCT_MERGE_CONFLICT"}

\* Mutant: errors that nothing can settle are passed over.
ReadyWithErrors(b, decisions) ==
    {s \in Subjects(b) : Options(s) # {}} \subseteq Decided(decisions)

\* Everything found is settled: the errors too.
Ready(b, decisions) == Subjects(b) \subseteq Settled(decisions)

\* The masters a customer refers to come from committed batches of its source.
DependenciesMet(b, committed) ==
    TypeOf[b] = "CUSTOMER" =>
        {"CHANNEL", "SALESREP"} \subseteq
            {TypeOf[c] : c \in {d \in committed : SystemOf[d] = SystemOf[b]}}

CommittedNow == {b \in Batch : batch[b].status = "COMMITTED"}

-----------------------------------------------------------------------------

Held(b) == \E t \in Thread : job[t] # NoJob /\ job[t].stage = "COMMITTING" /\ job[t].batch = b

Init ==
    /\ batch = [b \in Batch |-> [status |-> "ABSENT", version |-> 1, confirmed |-> None,
                                 decisions |-> {}]]
    /\ staged = [b \in Batch |-> [n \in {} |-> None]]
    /\ masters = [id \in {} |-> None]
    /\ mappings = [k \in {} |-> None]
    /\ job = [t \in Thread |-> NoJob]

StageFile(b) ==
    /\ batch[b].status = "ABSENT"
    /\ \E s \in Together : {c \in Batch : batch[c].status # "ABSENT"} \cup {b} \subseteq s
    /\ \A c \in Follows[b] : batch[c].status \in Final
    /\ staged' = [staged EXCEPT ![b] = [n \in {r.no : r \in RowsOf[b]} |-> Evaluated(b, Row(b, n))]]
    /\ batch' = [batch EXCEPT ![b].status = "READY_FOR_REVIEW"]
    /\ UNCHANGED <<masters, mappings, job>>

\* New decisions replace those on the same subjects and copy the others.
AppendDecisions(b, new) ==
    /\ ~Held(b)
    /\ batch[b].status \in Mutable
    /\ batch[b].version < MaxVersion
    /\ new # {} /\ Cardinality(Decided(new)) = Cardinality(new)
    /\ LET decisions == {d \in batch[b].decisions : d.subject \notin Decided(new)} \cup new
       IN  batch' = [batch EXCEPT ![b] =
                       [status |-> IF Ready(b, decisions) THEN "READY_TO_CONFIRM" ELSE "RESOLVING",
                        version |-> @.version + 1, confirmed |-> None,
                        decisions |-> decisions]]
    /\ UNCHANGED <<staged, masters, mappings, job>>

Confirm(b) ==
    /\ ~Held(b)
    /\ batch[b].status \in Mutable
    /\ Ready(b, batch[b].decisions)
    /\ DependenciesMet(b, CommittedNow)
    /\ batch' = [batch EXCEPT ![b].status = "CONFIRMED", ![b].confirmed = batch[b].version]
    /\ UNCHANGED <<staged, masters, mappings, job>>

Cancel(b) ==
    /\ ~Held(b)
    /\ batch[b].status \in Mutable \cup {"CONFIRMED"}
    /\ batch' = [batch EXCEPT ![b].status = "CANCELLED"]
    /\ UNCHANGED <<staged, masters, mappings, job>>

-----------------------------------------------------------------------------
(* Commit: now is what its snapshot shows. *)

Identity(b, r) ==
    <<TypeOf[b], IF TypeOf[b] \in {"CHANNEL", "SKU"} THEN r.code ELSE r.no>>

ProductId(r) == <<"PRODUCT", r.product>>

\* A region is identified by the first row that names it.
RegionId(b, r) == <<"REGION", Min({q.no : q \in {s \in RowsOf[b] : s.region = r.region}})>>

Identities ==
    UNION {UNION {{Identity(b, r), ProductId(r), RegionId(b, r)} : r \in RowsOf[b]} : b \in Batch}

\* Rows have numbers of their own; a master made by hand gets a random identity.
ASSUME IdentityAssumption ==
    /\ \A b \in Batch : \A q, r \in RowsOf[b] : q.no = r.no => q = r
    /\ \A m \in Manual : m.id \notin Identities
    /\ None \notin Identities
    /\ \A b \in Batch : None \notin [kind : {"STAGED"}, at : {b} \X {r.no : r \in RowsOf[b]}]

\* The master a frozen reference leads to.
Reached(b, ref) ==
    IF ref = None THEN None
    ELSE IF ref.kind = "MASTER" THEN ref.at
    ELSE Identity(ref.at[1], Row(ref.at[1], ref.at[2]))

\* The masters the rows of a batch stand for.
Entry(id, label, code, refs) == [id |-> id, label |-> label, code |-> code, refs |-> refs]

Entries(b) ==
    LET rows == RowsOf[b] IN
    CASE TypeOf[b] = "CUSTOMER" ->
            {Entry(Identity(b, r), r.name, r.code,
                   <<Reached(b, staged[b][r.no].channel), Reached(b, staged[b][r.no].salesrep)>>) :
                r \in rows}
              \cup {Entry(RegionId(b, r), r.region, r.region, <<>>) :
                      r \in {q \in rows : q.region # None}}
      [] TypeOf[b] = "SKU" ->
            {Entry(Identity(b, r), r.name, r.code, <<ProductId(r)>>) : r \in rows}
              \cup {Entry(ProductId(r), r.product, r.product, <<>>) : r \in rows}
      [] OTHER -> {Entry(Identity(b, r), r.name, r.code, <<>>) : r \in rows}

MappingKey(b, e) == <<e.id[1], SystemOf[b], e.id[2]>>

New(b, now) == {e \in Entries(b) : e.id \notin DOMAIN now.masters}

Unmapped(b, now) == {e \in Entries(b) : MappingKey(b, e) \notin DOMAIN now.mappings}

\* What the customers of a batch refer to.
ReferencesOf(b) ==
    UNION {{staged[b][n].channel, staged[b][n].salesrep} :
              n \in {k \in DOMAIN staged[b] : TypeOf[b] = "CUSTOMER"}}

\* Mutant: the label of a mapping is not compared.
AnyLabel(b, now) ==
    \E d, e \in Entries(b) : d.id = e.id /\ d.label # e.label /\ DOMAIN now.mappings # {}

\* A key that is bound to another subject, or to one with other references.
Reused(b, now) ==
    \/ \E e \in Entries(b) \ Unmapped(b, now) : now.mappings[MappingKey(b, e)] # e.label
    \/ \E d, e \in Entries(b) : d.id = e.id /\ (d.label # e.label \/ d.refs # e.refs)
    \/ \E e \in Entries(b) \ New(b, now) : e.refs # <<>> /\ now.masters[e.id].refs # e.refs
                                           /\ None \notin ReferencesOf(b)

Mapped(b, r) ==
    {d \in batch[b].decisions : d.subject = <<"PARENT_UNRESOLVED", r.no>> /\ d.choice = "MAP_PARENT"}

ParentId(b, r) ==
    IF Mapped(b, r) # {} THEN (CHOOSE d \in Mapped(b, r) : TRUE).target
    ELSE Reached(b, staged[b][r.no].parent)

\* A staged reference of a batch that was never committed, a parent that is
\* not there or is the customer itself.
Unreachable(b, now) ==
    \/ \E ref \in ReferencesOf(b) :
          ref # None /\ ref.kind = "STAGED" /\ ref.at[1] \notin now.committed
    \/ \E r \in RowsOf[b] :
          \/ \E d \in Mapped(b, r) : d.target = None
          \/ ParentId(b, r) = Identity(b, r)

\* What the database or the program does not accept: a customer without a
\* channel or sales representative, codes and names that are taken.
Coded == {"CHANNEL", "CUSTOMER", "SKU", "PRODUCT", "REGION"}

Unstorable(b, now) ==
    LET new == New(b, now)
    IN  \/ None \in ReferencesOf(b)
        \/ \E e \in new :
              \/ e.id \in DOMAIN masters
              \/ /\ e.id[1] \in Coded
                 /\ \/ \E id \in DOMAIN masters : id[1] = e.id[1] /\ masters[id].code = e.code
                    \/ \E d \in new : d.id[1] = e.id[1] /\ d.id # e.id /\ d.code = e.code
        \/ \E e \in Unmapped(b, now) : MappingKey(b, e) \in DOMAIN mappings

BeginCommit(t, b) ==
    /\ job[t] = NoJob /\ ~Held(b)
    /\ batch[b].status = "CONFIRMED"
    /\ batch[b].confirmed = batch[b].version
    /\ Ready(b, batch[b].decisions)
    /\ DependenciesMet(b, CommittedNow)
    /\ job' = [job EXCEPT ![t] =
                 [stage |-> "COMMITTING", batch |-> b,
                  now |-> [masters |-> masters, mappings |-> mappings, committed |-> CommittedNow]]]
    /\ UNCHANGED <<batch, staged, masters, mappings>>

Committing(t) == job[t] # NoJob /\ job[t].stage = "COMMITTING"

\* A master as it is made, with what it has had so far.
Made(name, code, refs, parent) ==
    [name |-> name, code |-> code, refs |-> refs, parent |-> parent, active |-> TRUE,
     names |-> {name}, related |-> {refs}, byHand |-> FALSE]

\* The parents the rows of an identity name; the one the commit read is not written.
ParentsGiven(b, id, now) ==
    {ParentId(b, r) : r \in {q \in RowsOf[b] : TypeOf[b] = "CUSTOMER" /\ Identity(b, q) = id}}
        \ {None, IF id \in DOMAIN now.masters THEN now.masters[id].parent ELSE None}

\* The masters after the commit; a parent that was found replaces the old one.
Written(b, now) ==
    LET new == New(b, now)
        entry(id) == CHOOSE e \in new : e.id = id
    IN  [id \in DOMAIN masters \cup {e.id : e \in new} |->
            LET m == IF id \in DOMAIN masters THEN masters[id]
                     ELSE Made(entry(id).label, entry(id).code, entry(id).refs, None)
            IN  IF ParentsGiven(b, id, now) = {} THEN m
                ELSE [m EXCEPT !.parent = CHOOSE p \in ParentsGiven(b, id, now) : TRUE,
                               !.byHand = FALSE]]

CommitBatch(t) ==
    /\ Committing(t)
    /\ LET b == job[t].batch
           now == job[t].now
           labels == [k \in {MappingKey(b, e) : e \in Unmapped(b, now)} |->
                         (CHOOSE e \in Entries(b) : MappingKey(b, e) = k).label]
       IN  /\ ~Reused(b, now) /\ ~Unreachable(b, now) /\ ~Unstorable(b, now)
           /\ masters' = Written(b, now)
           /\ mappings' = [k \in DOMAIN mappings \cup DOMAIN labels |->
                             IF k \in DOMAIN labels THEN labels[k] ELSE mappings[k]]
           /\ batch' = [batch EXCEPT ![b].status = "COMMITTED"]
           /\ staged' = [staged EXCEPT ![b] = [n \in DOMAIN @ |-> [@[n] EXCEPT !.status = "COMMITTED"]]]
    /\ job' = [job EXCEPT ![t] = NoJob]

\* A refusal rolls back and leaves the batch confirmed; so does a crash.
RefuseCommit(t) ==
    /\ Committing(t)
    /\ Reused(job[t].batch, job[t].now) \/ Unreachable(job[t].batch, job[t].now)
    /\ job' = [job EXCEPT ![t] = NoJob]
    /\ UNCHANGED <<batch, staged, masters, mappings>>

\* Anything else that fails, a constraint or a connection, also releases the
\* batch, and is recorded afterwards.
CommitFails(t) ==
    /\ Committing(t)
    /\ job' = [job EXCEPT ![t] = [stage |-> "FAILING", batch |-> job[t].batch]]
    /\ UNCHANGED <<batch, staged, masters, mappings>>

\* Mutant: the failure is recorded whatever became of the batch.
AnyFailure(b) == batch[b].status # "ABSENT"

StillConfirmed(b) == batch[b].status = "CONFIRMED"

RecordFailure(t) ==
    /\ job[t] # NoJob /\ job[t].stage = "FAILING"
    /\ ~Held(job[t].batch)
    /\ batch' = IF StillConfirmed(job[t].batch)
                THEN [batch EXCEPT ![job[t].batch].status = "FAILED"] ELSE batch
    /\ job' = [job EXCEPT ![t] = NoJob]
    /\ UNCHANGED <<staged, masters, mappings>>

\* The record is lost when the second transaction fails as well.
LoseJob(t) ==
    /\ job[t] # NoJob
    /\ job' = [job EXCEPT ![t] = NoJob]
    /\ UNCHANGED <<batch, staged, masters, mappings>>

-----------------------------------------------------------------------------
(* Masters are also kept by hand. *)

Active(id, type) == id \in DOMAIN masters /\ id[1] = type /\ masters[id].active

Taken(type, code, others) ==
    code # None /\ \E id \in others : id[1] = type /\ masters[id].code = code

\* SKUs are not made by hand; a customer refers to what is active.
CreateMaster(m) ==
    /\ m.id \notin DOMAIN masters /\ m.id[1] # "SKU"
    /\ ~Taken(m.id[1], m.code, DOMAIN masters)
    /\ m.id[1] = "CUSTOMER" => Active(m.refs[1], "CHANNEL") /\ Active(m.refs[2], "SALESREP")
    /\ m.parent # None => Active(m.parent, "CUSTOMER")
    /\ masters' = [id \in DOMAIN masters \cup {m.id} |->
                     IF id = m.id THEN Made(m.name, m.code, m.refs, m.parent) ELSE masters[id]]
    /\ UNCHANGED <<batch, staged, mappings, job>>

\* What an update may give; a region's code stands for its name, which is unique.
Editable ==
    [CHANNEL |-> {"name"}, SALESREP |-> {"name", "code"}, REGION |-> {"code"},
     CUSTOMER |-> {"name", "code", "channel", "salesrep", "parent"},
     PRODUCT |-> {"name", "code"}, SKU |-> {"name"}]

Related == [channel |-> "CHANNEL", salesrep |-> "SALESREP", parent |-> "CUSTOMER"]

UpdateMaster(id, given) ==
    /\ id \in DOMAIN masters /\ DOMAIN given \subseteq Editable[id[1]]
    /\ "code" \in DOMAIN given => ~Taken(id[1], given.code, DOMAIN masters \ {id})
    /\ \A f \in DOMAIN given \cap DOMAIN Related :
          IF given[f] = None THEN f = "parent" ELSE Active(given[f], Related[f])
    /\ "parent" \in DOMAIN given => given.parent # id
    /\ LET m == masters[id]
           value(f, old) == IF f \in DOMAIN given THEN given[f] ELSE old
           name == value("name", m.name)
           parent == value("parent", m.parent)
           refs == IF id[1] # "CUSTOMER" THEN m.refs
                   ELSE <<value("channel", m.refs[1]), value("salesrep", m.refs[2])>>
       IN  masters' = [masters EXCEPT ![id] =
                         [name |-> name, code |-> value("code", m.code), refs |-> refs,
                          parent |-> parent, active |-> m.active,
                          names |-> m.names \cup {name}, related |-> m.related \cup {refs},
                          byHand |-> m.byHand \/ parent # m.parent]]
    /\ UNCHANGED <<batch, staged, mappings, job>>

ReassignSku(id, product) ==
    /\ id \in DOMAIN masters /\ id[1] = "SKU"
    /\ Active(product, "PRODUCT") /\ masters[id].refs # <<product>>
    /\ masters' = [masters EXCEPT ![id].refs = <<product>>, ![id].related = @ \cup {<<product>>}]
    /\ UNCHANGED <<batch, staged, mappings, job>>

SetActive(id) ==
    /\ id \in DOMAIN masters
    /\ masters' = [masters EXCEPT ![id].active = ~@]
    /\ UNCHANGED <<batch, staged, mappings, job>>

Next ==
    \/ \E b \in Batch : StageFile(b) \/ Confirm(b) \/ Cancel(b)
    \/ \E b \in Batch : \E new \in SUBSET Decidable(b) : AppendDecisions(b, new)
    \/ \E t \in Thread, b \in Batch : BeginCommit(t, b)
    \/ \E t \in Thread : CommitBatch(t) \/ RefuseCommit(t) \/ CommitFails(t)
    \/ \E t \in Thread : RecordFailure(t) \/ LoseJob(t)
    \/ \E m \in Manual : CreateMaster(m)
    \/ \E id \in Switched : SetActive(id)
    \/ \E p \in Patches : UpdateMaster(p.id, p.given)
    \/ \E id, product \in DOMAIN masters : ReassignSku(id, product)

Spec == Init /\ [][Next]_vars

-----------------------------------------------------------------------------
(* Properties *)

\* The types, and what a status means: only a batch that was confirmed has a
\* confirmed version, the current one, with everything found settled, and the
\* rows of a committed batch alone are committed (workflow.py, resolution.py).
BootstrapTypeOK ==
    /\ \A b \in Batch :
          LET s == batch[b].status IN
          /\ s \in {"ABSENT", "CONFIRMED"} \cup Mutable \cup Final
          /\ batch[b].version \in 1 .. MaxVersion
          /\ s \in Mutable \cup {"ABSENT"} => batch[b].confirmed = None
          /\ s \in {"CONFIRMED", "COMMITTED", "FAILED"} =>
                batch[b].confirmed = batch[b].version
          /\ s \in {"READY_TO_CONFIRM", "CONFIRMED", "COMMITTED", "FAILED"} =>
                Subjects(b) \subseteq Settled(batch[b].decisions)
          /\ \A n \in DOMAIN staged[b] : staged[b][n].status = "COMMITTED" <=> s = "COMMITTED"
    /\ \A id \in DOMAIN masters :
          /\ masters[id].parent \in DOMAIN masters \cup {None}
          /\ masters[id].name \in masters[id].names /\ masters[id].refs \in masters[id].related
    /\ \A t \in Thread : job[t] # NoJob => job[t].stage \in {"COMMITTING", "FAILING"}

\* A batch that was committed, cancelled or recorded as failed stays as it is,
\* whatever commit, cancellation or failure record is still under way: the
\* failure of a commit is recorded after its batch was released (commit.py).
EndedStaysEnded ==
    [][\A b \in Batch : batch[b].status \in Final =>
          batch'[b] = batch[b] /\ staged'[b] = staged[b]]_vars

\* A master bears a name, or bore it until somebody renamed it by hand.
BearsName(ref, name) == ref \in DOMAIN masters /\ name \in masters[ref].names

\* The parent of a master is the one a committed row gave it: a customer of that
\* name, unless it was decided otherwise.
ParentSaid(id) ==
    \E b \in CommittedNow : \E r \in RowsOf[b] :
        /\ Identity(b, r) = id /\ masters[id].parent = ParentId(b, r)
        /\ Mapped(b, r) = {} => BearsName(masters[id].parent, r.parent)

\* The rows of committed batches are the masters they were committed as, through
\* all the batches of one source system and whatever is edited by hand between
\* and during commits: each row's master has its name and is mapped under it, a
\* customer has the channel and the sales representative its row named, an SKU
\* is of its product, or had them until somebody changed them by hand, and a
\* customer whose row named a parent has that parent, the one a row of the same
\* identity gave it since, or one set by hand after them.  Masters are identified
\* by row numbers, references are frozen long before the commit, and a commit
\* compares with what its snapshot shows (commit.py, api.py).
MastersSayWhatRowsSay ==
    \A b \in CommittedNow : \A r \in RowsOf[b] :
        LET id == Identity(b, r) IN
        /\ BearsName(id, r.name)
        /\ mappings[<<id[1], SystemOf[b], id[2]>>] = r.name
        /\ TypeOf[b] = "CUSTOMER" =>
              /\ \E refs \in masters[id].related :
                    BearsName(refs[1], r.channel) /\ BearsName(refs[2], r.salesrep)
              /\ InBatch(b, r) /\ r.parent \notin {None, r.name} =>
                    masters[id].byHand \/ ParentSaid(id)
        /\ TypeOf[b] = "SKU" => <<ProductId(r)>> \in masters[id].related
=============================================================================

\* Two operators of a Customer batch: a channel, a shared name, a parent Customer,
\* and masters edited beside them.
SPECIFICATION Spec
CONSTANTS
    ba = ba
    bp = bp
    m1 = m1
    m2 = m2
    m3 = m3
    o1 = o1
    o2 = o2
    NoOperator = NoOperator
    NoView = NoView
    Batch = {ba}
    Row = {1, 2}
    Master = {m1, m2, m3}
    Operator = {o1, o2}
    EntityOf <- MCEntityOf
    BatchOf <- MCBatchOf
    CodeOf <- MCCodeOf
    RefsOf <- MCChannel
    ParentOf <- MCParentMaster
    SharedName = {1}
    Named = {m1}
    Switched = {m3}
SYMMETRY MCSymmetry
INVARIANTS
    ReviewTypeOK
    OneCopyPerVersion
    ReadinessIsTrue
    CommitIsWhole
PROPERTIES
    CommittedIsFinal
    ImplementsReviewBook
    ReferencesAreActive

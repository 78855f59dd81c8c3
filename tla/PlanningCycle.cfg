\* Two editors of one cycle, next to a user who renames masters.
SPECIFICATION Spec
CONSTANTS
    c1 = c1
    t1 = t1
    t2 = t2
    p1 = p1
    p2 = p2
    ch = ch
    n1 = n1
    n2 = n2
    q1 = q1
    q2 = q2
    actual = actual
    early = early
    late = late
    sa = sa
    se = se
    sl = sl
    inc = inc
    Cycle = {c1}
    Thread = {t1, t2}
    Master = {p1, p2, ch}
    Product = {p1}
    Name = {n1, n2}
    NoName = NoName
    FirstName <- MCFirstName
    Renamed = {ch}
    Qty = {q1, q2}
    Dataset = {actual, early, late}
    KindOf <- MCKindOf
    CoverFrom <- MCCoverFrom
    CoverTo <- MCCoverTo
    Slice = {sa, se, sl}
    VersionOf <- MCVersionOf
    From <- MCFrom
    To <- MCTo
    Incoming = {inc}
    MastersOf <- MCMastersOf
    Selections <- MCSelections
    Lines <- MCLines
    MaxVersions = 2
    MaxRevisions = 1
    NoIncoming = NoIncoming
    NoOrder = NoOrder
    NoCycle = NoCycle
    NoJob = NoJob
SYMMETRY MCSymmetry
INVARIANTS
    CycleTypeOK
    OneVersionPerMonth
    LockedIsComplete
PROPERTIES
    LockedPageIsFrozen
    SavesReplaceWhatTheyShow
    ImplementsPlanningBook

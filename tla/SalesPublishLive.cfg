\* Two publishers, two months: what must eventually happen.
SPECIFICATION FairSpec
CONSTANTS
    ba = ba
    bb = bb
    bc = bc
    bd = bd
    m1 = m1
    m2 = m2
    p1 = p1
    p2 = p2
    NoBatch = NoBatch
    NoPublisher = NoPublisher
    NoView = NoView
    Batch = {ba, bd}
    Month = {m1, m2}
    Publisher = {p1, p2}
    MonthOf <- MCMonthOf
    ReadyRows <- MCReadyRows
    ReadyQty <- MCReadyQty
    DataEnd <- MCDataEnd
    DropNum = 8
    DropDen = 10
PROPERTIES
    RequestsEnd
    LocksAreFreed

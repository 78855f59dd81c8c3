\* One reader next to two publishers of a month with two batches.
SPECIFICATION DashboardSpec
CONSTANTS
    ba = ba
    bc = bc
    bd = bd
    m1 = m1
    m2 = m2
    p1 = p1
    p2 = p2
    r1 = r1
    NoBatch = NoBatch
    NoPublisher = NoPublisher
    NoView = NoView
    Batch = {ba, bc}
    Month = {m1}
    Publisher = {p1, p2}
    Reader = {r1}
    MonthOf <- MCMonthOf
    ReadyRows <- MCReadyRows
    ReadyQty <- MCReadyQty
    DataEnd <- MCDataEnd
    DropNum = 8
    DropDen = 10
INVARIANTS
    ReaderTypeOK
    NoTornMonth
    SummaryIsWhole
    ReloadIsJustified

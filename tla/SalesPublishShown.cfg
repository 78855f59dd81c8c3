\* Is a confirmation bound to the comparison its user saw?
SPECIFICATION Spec
CONSTANTS
    ba = ba
    bb = bb
    bc = bc
    bd = bd
    m1 = m1
    m2 = m2
    p1 = p1
    p2 = p2
    NoBatch = NoBatch
    NoPublisher = NoPublisher
    NoView = NoView
    Batch = {ba, bb, bc}
    Month = {m1}
    Publisher = {p1, p2}
    MonthOf <- MCMonthOf
    ReadyRows <- MCReadyRows
    ReadyQty <- MCReadyQty
    DataEnd <- MCDataEnd
    DropNum = 8
    DropDen = 10
INVARIANTS
    ConfirmationApprovesWhatWasShown

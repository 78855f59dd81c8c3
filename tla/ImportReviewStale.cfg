\* Two operators acknowledge the two warnings of a Product batch.
SPECIFICATION Spec
CONSTANTS
    ba = ba
    bp = bp
    m1 = m1
    m2 = m2
    m3 = m3
    o1 = o1
    o2 = o2
    NoOperator = NoOperator
    NoView = NoView
    Batch = {bp}
    Row = {3, 4}
    Master = {m1, m2, m3}
    Operator = {o1, o2}
    EntityOf <- MCEntityOf
    BatchOf <- MCBatchOf
    CodeOf <- MCCodeOf
    RefsOf <- MCNoMasters
    ParentOf <- MCNoMasters
    SharedName = {3, 4}
    Named = {}
    Switched = {}
SYMMETRY MCSymmetry
PROPERTIES
    StaleVersionsAreRejected

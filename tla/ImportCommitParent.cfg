\* A Customer batch whose first row exists and is the parent of the second.
SPECIFICATION Spec
CONSTANTS
    ba = ba
    bp = bp
    m1 = m1
    m2 = m2
    m3 = m3
    o1 = o1
    o2 = o2
    NoOperator = NoOperator
    NoView = NoView
    Batch = {ba}
    Row = {1, 2}
    Master = {m1, m2, m3}
    Operator = {o1, o2}
    EntityOf <- MCEntityOf
    BatchOf <- MCBatchOf
    CodeOf <- MCCodeOf
    RefsOf <- MCChannel
    ParentOf <- MCParentRow
    SharedName = {}
    Named = {m1}
    Switched = {m1}
SYMMETRY MCSymmetry
PROPERTIES
    ParentsAreActive

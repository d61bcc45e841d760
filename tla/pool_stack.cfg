\* Three threads, two blocks: pops, pushes and blocks that come back.
SPECIFICATION Spec
CONSTANTS
    t1 = t1
    t2 = t2
    t3 = t3
    b1 = b1
    b2 = b2
    b3 = b3
    Threads = {t1, t2, t3}
    Blocks = {b1, b2}
    Null = Null
    MaxOps = 6
SYMMETRY Symmetry
CHECK_DEADLOCK FALSE
INVARIANTS
    TypeOK
    Linked
    OnePlace
    AvailAccounts
PROPERTIES
    PoolSpec

SPECIFICATION Spec
CONSTANTS
    p1 = p1
    p2 = p2
    b1 = b1
    i1 = i1
    t1 = t1
    t2 = t2
    t3 = t3
    t4 = t4
    t5 = t5
    None = None
    Producers = {p1}
    BankPollers = {}
    InstPollers = {i1}
    Tags = {t1, t2, t3, t4, t5}
    NumMsgs = 4
    ReqSlots = 2
    RespSlots = 4
    MinResps = 2
    Irq = FALSE
    Quotas = {0}
    MaxSends = 5
SYMMETRY Symmetry
INVARIANTS
    NoOverrun

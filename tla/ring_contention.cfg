SPECIFICATION Spec
CONSTANTS
    p1 = p1
    p2 = p2
    b1 = b1
    i1 = i1
    t1 = t1
    t2 = t2
    t3 = t3
    t4 = t4
    t5 = t5
    None = None
    Producers = {p1, p2}
    BankPollers = {b1}
    InstPollers = {i1}
    Tags = {t1, t2, t3}
    NumMsgs = 3
    ReqSlots = 3
    RespSlots = 4
    MinResps = 2
    Irq = FALSE
    Quotas = {0, 1}
    MaxSends = 4
SYMMETRY Symmetry
INVARIANTS
    TypeOK
    Conservation
    PollExclusion
    Accounting
    InFlightBound
PROPERTIES
    RetryOnlyWhenFull
    ChannelSpec

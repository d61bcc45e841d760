\* Nothing fails: two instances, three requests each.
SPECIFICATION Spec
CONSTANTS
    NumInstances = 2
    Faulty <- Nobody
    Refusable <- Nobody
    PollerMayFail = FALSE
    Interruptible = FALSE
    MainMayFail = FALSE
    CreateMayFail = FALSE
INVARIANTS
    TypeOK
    MemoryOutlivesRequests
    RemoveNeverRetries
    FrameOutlivesWorkers
    UsageCounts

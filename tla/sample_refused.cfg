\* The service refuses the third submission.
SPECIFICATION Spec
CONSTANTS
    NumInstances = 1
    Faulty <- One
    Refusable <- Last
    PollerMayFail = FALSE
    Interruptible = FALSE
    MainMayFail = FALSE
    CreateMayFail = FALSE
INVARIANTS
    MemoryOutlivesRequests

\* Every call of one of two workers may fail, and every call of main.  A worker
\* that is forsaken waits for ever, and the program may stop there.
SPECIFICATION FairSpec
CONSTANTS
    NumInstances = 2
    Faulty <- One
    Refusable <- Any
    PollerMayFail = TRUE
    Interruptible = TRUE
    MainMayFail = TRUE
    CreateMayFail = TRUE
CHECK_DEADLOCK FALSE
INVARIANTS
    SuccessMeansDone
PROPERTIES
    RemovedIsFinal
    Finishes

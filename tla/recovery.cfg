\* One thread submits, polls and polls for events; the device fails twice.
SPECIFICATION FairSpec
CONSTANTS
    a1 = a1
    a2 = a2
    Threads = {a1, a2}
    Setups <- SafeSetups
    NumMsgs = 3
    MaxRequests = 3
    MaxFails = 2
CHECK_DEADLOCK FALSE
INVARIANTS
    TypeOK
    RestartClean
    DummyOrder
PROPERTIES
    Served
    Resumes
    ChannelSpec

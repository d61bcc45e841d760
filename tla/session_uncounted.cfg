\* A stateless session whose buffers may have no physical address.
SPECIFICATION Spec
CONSTANTS
    a1 = a1
    a2 = a2
    c1 = c1
    c2 = c2
    s1 = s1
    s2 = s2
    s3 = s3
    Callers = {a1, a2}
    Cookies = {c1, c2}
    SyncCookies = {s1, s2, s3}
    Null = Null
    SessStates = {"stateless"}
    Modes = {"async"}
    Flushes = {"final"}
    CreateFails = {"stateless"}
    NoCookie = {}
    NoSyncCookie = {}
    MaxCalls = 3
CHECK_DEADLOCK FALSE
INVARIANTS
    RemovedMeansIdle

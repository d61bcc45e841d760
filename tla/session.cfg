\* Two threads and three calls on a stateful or stateless session.
SPECIFICATION FairSpec
CONSTANTS
    a1 = a1
    a2 = a2
    c1 = c1
    c2 = c2
    s1 = s1
    s2 = s2
    s3 = s3
    Callers = {a1, a2}
    Cookies = {c1, c2}
    SyncCookies = {s1, s2, s3}
    Null = Null
    SessStates = {"stateful", "stateless"}
    Modes = {"sync", "async"}
    Flushes = {"none", "final"}
    CreateFails = {"stateful"}
    NoCookie = {"stateless"}
    NoSyncCookie = {"stateless"}
    MaxCalls = 3
CHECK_DEADLOCK FALSE
INVARIANTS
    TypeOK
    OneInFlight
    RemovedMeansIdle
    SyncCookieOutlives
PROPERTIES
    Framing
    CountDrains

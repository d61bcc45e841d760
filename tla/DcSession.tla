----------------------------- MODULE DcSession -----------------------------
(***************************************************************************)
(* One compression session and the calls on it: threads that submit, the   *)
(* poller that makes the callbacks, and the application that resets,       *)
(* removes and initialises the session.                                    *)
(*                                                                         *)
(* A stateful session lets one request be in flight; its spin lock guards  *)
(* the test and the increment of the count.  A session without a callback  *)
(* is synchronous: the caller waits on a semaphore in a cookie of its own, *)
(* for at most DC_SYNC_CALLBACK_TIMEOUT.                                   *)
(*                                                                         *)
(* The application keeps the session while a call on it executes: reset    *)
(* and remove only meet requests in flight.  sessDirection is compress or  *)
(* decompress, not combined.  The response of a firmware that knows no     *)
(* compression is left out.                                                *)
(***************************************************************************)
EXTENDS Integers, FiniteSets

CONSTANTS
    Callers,      \* threads that submit on the session
    Cookies,      \* compression cookies: compression_mem_pool
    SyncCookies,  \* memory for synchronous cookies
    Null,         \* no cookie
    SessStates,   \* kinds of session: "stateful", "stateless"
    Modes,        \* "sync", "async"
    Flushes,      \* flush flags in use: "none", "final"
    CreateFails,  \* kinds of session whose dcCreateRequest may fail
    NoCookie,     \* kinds of session that may find the pool disabled
    NoSyncCookie, \* kinds of session that may get no synchronous cookie
    MaxCalls      \* bound of the model: calls that submit

ASSUME NullAssumption == Null \notin Cookies \cup SyncCookies
ASSUME KindsAssumption ==
    /\ SessStates \subseteq {"stateful", "stateless"}
    /\ Modes \subseteq {"sync", "async"}
    /\ MaxCalls \in Nat

VARIABLES
    sessState, mode,     \* how the session was initialised
    alive,               \* initialised and not removed
    sessionLock,
    stateless,           \* pendingStatelessCbCount
    stateful,            \* pendingStatefulCbCount
    requestType, previousRequestType,
    sopProcessed,        \* isSopFor{Compression,Decompression}Processed
    pool,                \* cookies not in use
    req,                 \* cookie: the request dcCreateRequest made
    device,              \* cookies whose requests the device has
    open,                \* history: the device is in the middle of a stream
    pc, call,            \* caller: where it is, the call it makes
    allocated,           \* synchronous cookies that are not freed
    posted, complete, canceled,  \* their fields
    ppc, answered, ptag, \* poller: where it is, the cookie, callbackTag
    calls                \* calls begun

setupVars  == <<sessState, mode, alive>>
typeVars   == <<requestType, previousRequestType, sopProcessed>>
reqVars    == <<pool, req>>
devVars    == <<device, open>>
syncVars   == <<allocated, posted, complete, canceled>>
pollVars   == <<ppc, answered, ptag>>
vars == <<setupVars, sessionLock, stateless, stateful, typeVars, reqVars,
          devVars, pc, call, syncVars, pollVars, calls>>

Stateful == sessState = "stateful"
NoRequest == [flush |-> Null, sop |-> FALSE, tag |-> Null]

\* A call: its flush flag, whether it has no data, the cookies it got.
NoCall == [flush |-> Null, zero |-> FALSE, cookie |-> Null, tag |-> Null]

Init ==
    /\ sessState \in SessStates
    /\ mode \in Modes
    /\ alive = TRUE
    /\ sessionLock = 0
    /\ stateless = 0
    /\ stateful = 0
    /\ requestType = "first"
    /\ previousRequestType = "first"
    /\ sopProcessed = FALSE
    /\ pool = Cookies
    /\ req = [c \in Cookies |-> NoRequest]
    /\ device = {}
    /\ open = FALSE
    /\ pc = [t \in Callers |-> "idle"]
    /\ call = [t \in Callers |-> NoCall]
    /\ allocated = {}
    /\ posted = {}
    /\ complete = {}
    /\ canceled = {}
    /\ ppc = "idle"
    /\ answered = Null
    /\ ptag = Null
    /\ calls = 0

\* The call goes on, or returns.
Goto(t, l) == pc' = [pc EXCEPT ![t] = l] /\ call' = call
Return(t) ==
    /\ pc' = [pc EXCEPT ![t] = "idle"]
    /\ call' = [call EXCEPT ![t] = NoCall]

\* Where it goes once the session has let it in.
Enter == IF mode = "sync" THEN "sync" ELSE "alloc"

-----------------------------------------------------------------------------
(* cpaDcCompressData2 and cpaDcDecompressData: the session lets one        *)
(* stateful request in.                                                    *)

\* The checks of the arguments have passed.
Begin(t) ==
    /\ alive
    /\ pc[t] = "idle"
    /\ calls < MaxCalls
    /\ calls' = calls + 1
    /\ \E f \in Flushes, z \in {FALSE, Stateful} :
          call' = [call EXCEPT ![t].flush = f, ![t].zero = z]
    /\ pc' = [pc EXCEPT ![t] = IF Stateful THEN "lock" ELSE Enter]
    /\ UNCHANGED <<setupVars, sessionLock, stateless, stateful, typeVars,
                   reqVars, devVars, syncVars, pollVars>>

\* Wrong variant of Lock: the value the exchange returns is not looked at.
LockIgnored(t) ==
    /\ pc[t] = "lock"
    /\ sessionLock' = 1
    /\ Goto(t, "check")
    /\ UNCHANGED <<setupVars, stateless, stateful, typeVars, reqVars, devVars,
                   syncVars, pollVars, calls>>

\* while (osalAtomicTestAndSet(1, &sessionLock)) ends.
Lock(t) ==
    /\ pc[t] = "lock"
    /\ sessionLock = 0
    /\ sessionLock' = 1
    /\ Goto(t, "check")
    /\ UNCHANGED <<setupVars, stateless, stateful, typeVars, reqVars, devVars,
                   syncVars, pollVars, calls>>

\* dcZeroLengthRequests answers a request without data itself, unless it
\* ends a stream that is open.
AnsweredHere(t) ==
    call[t].zero /\ (requestType = "first" \/ call[t].flush = "none")

\* A request is in flight: release, return RETRY.  Or the request is
\* answered here: release, call back in the caller's thread.
Release(t) ==
    /\ pc[t] = "check"
    /\ stateful # 0 \/ AnsweredHere(t)
    /\ sessionLock' = 0
    /\ Return(t)
    /\ UNCHANGED <<setupVars, stateless, stateful, typeVars, reqVars, devVars,
                   syncVars, pollVars, calls>>

\* No request is in flight, and this one is not answered here.
Pass(t) ==
    /\ pc[t] = "check"
    /\ stateful = 0
    /\ ~AnsweredHere(t)
    /\ Goto(t, "admit")
    /\ UNCHANGED <<setupVars, sessionLock, stateless, stateful, typeVars,
                   reqVars, devVars, syncVars, pollVars, calls>>

\* osalAtomicInc(&pendingStatefulCbCount)
Admit(t) ==
    /\ pc[t] = "admit"
    /\ stateful' = stateful + 1
    /\ Goto(t, "unlock")
    /\ UNCHANGED <<setupVars, sessionLock, stateless, typeVars, reqVars,
                   devVars, syncVars, pollVars, calls>>

\* osalAtomicRelease(&sessionLock)
Unlock(t) ==
    /\ pc[t] = "unlock"
    /\ sessionLock' = 0
    /\ Goto(t, Enter)
    /\ UNCHANGED <<setupVars, stateless, stateful, typeVars, reqVars, devVars,
                   syncVars, pollVars, calls>>

-----------------------------------------------------------------------------
(* dcCompDecompData: a synchronous cookie, a compression cookie, the       *)
(* request, the ring.                                                      *)

\* LacSync_CreateSyncCookie; which free memory it gets makes no difference.
CreateSyncCookie(t) ==
    /\ pc[t] = "sync"
    /\ allocated # SyncCookies
    /\ LET s == CHOOSE s \in SyncCookies : s \notin allocated
       IN /\ allocated' = allocated \cup {s}
          /\ call' = [call EXCEPT ![t].tag = s]
    /\ pc' = [pc EXCEPT ![t] = "alloc"]
    /\ UNCHANGED <<setupVars, sessionLock, stateless, stateful, typeVars,
                   reqVars, devVars, posted, complete, canceled, pollVars,
                   calls>>

\* There is no memory for it: the call returns, and leaves the count.
CreateSyncCookieFails(t) ==
    /\ pc[t] = "sync"
    /\ sessState \in NoSyncCookie
    /\ Return(t)
    /\ UNCHANGED <<setupVars, sessionLock, stateless, stateful, typeVars,
                   reqVars, devVars, syncVars, pollVars, calls>>

\* Lac_MemPoolEntryAlloc, tried again while the pool is empty.
AllocCookie(t) ==
    /\ pc[t] = "alloc"
    /\ \E c \in pool :
          /\ pool' = pool \ {c}
          /\ call' = [call EXCEPT ![t].cookie = c]
    /\ pc' = [pc EXCEPT ![t] = "create"]
    /\ UNCHANGED <<setupVars, sessionLock, stateless, stateful, typeVars, req,
                   devVars, syncVars, pollVars, calls>>

\* A call that sent nothing returns, if synchronous by way of
\* LacSync_SetSyncCookieComplete and LacSync_DestroySyncCookie.
Leave(t) ==
    IF mode = "sync"
    THEN complete' = complete \cup {call[t].tag} /\ Goto(t, "destroy")
    ELSE complete' = complete /\ Return(t)

\* The pool is disabled: RESOURCE, and the count is left.
AllocFails(t) ==
    /\ pc[t] = "alloc"
    /\ sessState \in NoCookie
    /\ Leave(t)
    /\ UNCHANGED <<setupVars, sessionLock, stateless, stateful, typeVars,
                   reqVars, devVars, allocated, posted, canceled, pollVars,
                   calls>>

\* dcCreateRequest for a stateful session marks the start of the stream, and
\* says what the next request is.
CreateRequest(t) ==
    /\ pc[t] = "create"
    /\ req' = [req EXCEPT ![call[t].cookie] =
                 [flush |-> call[t].flush, tag |-> call[t].tag,
                  sop |-> requestType = "first" \/ ~sopProcessed]]
    /\ IF Stateful
       THEN /\ previousRequestType' = requestType
            /\ sopProcessed' = TRUE
            /\ requestType' = IF call[t].flush = "final"
                              THEN "first" ELSE "subsequent"
            /\ Goto(t, "put")
       ELSE UNCHANGED typeVars /\ Goto(t, "count")
    /\ UNCHANGED <<setupVars, sessionLock, stateless, stateful, pool, devVars,
                   syncVars, pollVars, calls>>

\* dcCreateRequest fails: an address has no translation.
CreateRequestFails(t) ==
    /\ pc[t] = "create"
    /\ sessState \in CreateFails
    /\ Goto(t, "undo")
    /\ UNCHANGED <<setupVars, sessionLock, stateless, stateful, typeVars,
                   reqVars, devVars, syncVars, pollVars, calls>>

\* osalAtomicInc(&pendingStatelessCbCount)
Count(t) ==
    /\ pc[t] = "count"
    /\ stateless' = stateless + 1
    /\ Goto(t, "put")
    /\ UNCHANGED <<setupVars, sessionLock, stateful, typeVars, reqVars,
                   devVars, syncVars, pollVars, calls>>

\* dcSendRequest, and the ring takes the request.
Put(t) ==
    /\ pc[t] = "put"
    /\ device' = device \cup {call[t].cookie}
    /\ open' = TRUE
    /\ IF mode = "sync"
       THEN /\ pc' = [pc EXCEPT ![t] = "wait"]
            /\ call' = [call EXCEPT ![t].cookie = Null]
       ELSE Return(t)
    /\ UNCHANGED <<setupVars, sessionLock, stateless, stateful, typeVars,
                   reqVars, syncVars, pollVars, calls>>

\* Wrong variant of PutRetry: the type of the request is not restored.
PutRetryForgetful(t) ==
    /\ pc[t] = "put"
    /\ Goto(t, "undo")
    /\ UNCHANGED <<setupVars, sessionLock, stateless, stateful, typeVars,
                   reqVars, devVars, syncVars, pollVars, calls>>

\* dcSendRequest, and the ring, which other sessions share, is full.
PutRetry(t) ==
    /\ pc[t] = "put"
    /\ requestType' = IF Stateful THEN previousRequestType ELSE requestType
    /\ Goto(t, "undo")
    /\ UNCHANGED <<setupVars, sessionLock, stateless, stateful,
                   previousRequestType, sopProcessed, reqVars, devVars,
                   syncVars, pollVars, calls>>

\* Wrong variant of Undo: only a stateless request is taken off its count.
UndoStateless(t) ==
    /\ pc[t] = "undo"
    /\ stateful' = stateful
    /\ stateless' = IF Stateful THEN stateless ELSE stateless - 1
    /\ pool' = pool \cup {call[t].cookie}
    /\ Leave(t)
    /\ UNCHANGED <<setupVars, sessionLock, typeVars, req, devVars, allocated,
                   posted, canceled, pollVars, calls>>

\* The request was not sent: the count, whether it was incremented or not,
\* then the cookie.
Undo(t) ==
    /\ pc[t] = "undo"
    /\ stateful' = IF Stateful THEN stateful - 1 ELSE stateful
    /\ stateless' = IF Stateful THEN stateless ELSE stateless - 1
    /\ pool' = pool \cup {call[t].cookie}
    /\ Leave(t)
    /\ UNCHANGED <<setupVars, sessionLock, typeVars, req, devVars, allocated,
                   posted, canceled, pollVars, calls>>

-----------------------------------------------------------------------------
(* The caller of a synchronous session waits.                              *)

\* LacSync_WaitForCallback gets the semaphore.
WaitDone(t) ==
    /\ pc[t] = "wait"
    /\ call[t].tag \in posted
    /\ posted' = posted \ {call[t].tag}
    /\ complete' = complete \cup {call[t].tag}
    /\ Goto(t, "destroy")
    /\ UNCHANGED <<setupVars, sessionLock, stateless, stateful, typeVars,
                   reqVars, devVars, allocated, canceled, pollVars, calls>>

\* It does not, in time.
WaitTimeout(t) ==
    /\ pc[t] = "wait"
    /\ call[t].tag \notin posted
    /\ Goto(t, "destroy")
    /\ UNCHANGED <<setupVars, sessionLock, stateless, stateful, typeVars,
                   reqVars, devVars, syncVars, pollVars, calls>>

\* Wrong variant of DestroySyncCookie: an operation that has not completed
\* has its cookie freed as well.
DestroyIncomplete(t) ==
    /\ pc[t] = "destroy"
    /\ allocated' = allocated \ {call[t].tag}
    /\ complete' = complete \ {call[t].tag}
    /\ Return(t)
    /\ UNCHANGED <<setupVars, sessionLock, stateless, stateful, typeVars,
                   reqVars, devVars, posted, canceled, pollVars, calls>>

\* LacSync_DestroySyncCookie: the cookie of an operation that has not
\* completed is canceled, and leaks.
DestroySyncCookie(t) ==
    /\ pc[t] = "destroy"
    /\ IF call[t].tag \in complete
       THEN allocated' = allocated \ {call[t].tag} /\ canceled' = canceled
       ELSE allocated' = allocated /\ canceled' = canceled \cup {call[t].tag}
    /\ complete' = complete \ {call[t].tag}
    /\ Return(t)
    /\ UNCHANGED <<setupVars, sessionLock, stateless, stateful, typeVars,
                   reqVars, devVars, posted, pollVars, calls>>

Caller(t) ==
    \/ Lock(t) \/ Release(t) \/ Pass(t) \/ Admit(t) \/ Unlock(t)
    \/ CreateSyncCookie(t) \/ CreateSyncCookieFails(t)
    \/ AllocCookie(t) \/ AllocFails(t)
    \/ CreateRequest(t) \/ CreateRequestFails(t) \/ Count(t)
    \/ Put(t) \/ PutRetry(t) \/ Undo(t)
    \/ WaitDone(t) \/ WaitTimeout(t) \/ DestroySyncCookie(t)

-----------------------------------------------------------------------------
(* The one thread that polls the ring runs dcCompression_ProcessCallback.  *)

\* The device (external) has answered a request; the poller notes what it
\* needs of the cookie and sets the type of the next request, which is the
\* first of a stream only if this one ended it and passed.
Answer ==
    /\ ppc = "idle"
    /\ \E c \in device, pass \in BOOLEAN :
          LET ended == req[c].flush = "final" /\ pass
          IN /\ device' = device \ {c}
             /\ open' = ~ended
             /\ requestType' = IF ended THEN "first" ELSE "subsequent"
             /\ answered' = c
             /\ ptag' = req[c].tag
    /\ ppc' = "dec"
    /\ UNCHANGED <<setupVars, sessionLock, stateless, stateful,
                   previousRequestType, sopProcessed, reqVars, pc, call,
                   syncVars, calls>>

\* The count of pending callbacks; a stateful one never goes below zero.
\* From here on the callback leaves the session alone.
CallbackDec ==
    /\ ppc = "dec"
    /\ stateful' = IF Stateful /\ stateful # 0 THEN stateful - 1 ELSE stateful
    /\ stateless' = IF Stateful THEN stateless ELSE stateless - 1
    /\ ppc' = "free"
    /\ UNCHANGED <<setupVars, sessionLock, typeVars, reqVars, devVars, pc,
                   call, syncVars, answered, ptag, calls>>

\* Lac_MemPoolEntryFree
CallbackFree ==
    /\ ppc = "free"
    /\ pool' = pool \cup {answered}
    /\ req' = [req EXCEPT ![answered] = NoRequest]
    /\ answered' = Null
    /\ ppc' = "call"
    /\ UNCHANGED <<setupVars, sessionLock, stateless, stateful, typeVars,
                   devVars, pc, call, syncVars, ptag, calls>>

\* pCbFunc: the application's, or LacSync_GenWakeupSyncCaller, which returns
\* when the operation was canceled.
CallbackCall ==
    /\ ppc = "call"
    /\ IF mode = "sync" /\ ptag \notin canceled
       THEN ppc' = "post" /\ ptag' = ptag
       ELSE ppc' = "idle" /\ ptag' = Null
    /\ UNCHANGED <<setupVars, sessionLock, stateless, stateful, typeVars,
                   reqVars, devVars, pc, call, syncVars, answered, calls>>

\* It sets the status and posts the semaphore.
CallbackPost ==
    /\ ppc = "post"
    /\ posted' = posted \cup {ptag}
    /\ ppc' = "idle"
    /\ ptag' = Null
    /\ UNCHANGED <<setupVars, sessionLock, stateless, stateful, typeVars,
                   reqVars, devVars, pc, call, allocated, complete, canceled,
                   answered, calls>>

Poller ==
    \/ CallbackDec \/ CallbackFree
    \/ CallbackCall \/ CallbackPost

-----------------------------------------------------------------------------
(* The application, while no call on the session executes.                 *)

Quiet == alive /\ \A t \in Callers : pc[t] = "idle"

\* cpaDcResetSession; RETRY, and no change, while callbacks are pending.
ResetSession ==
    /\ Quiet
    /\ stateless = 0 /\ stateful = 0
    /\ requestType' = "first"
    /\ open' = FALSE
    /\ UNCHANGED <<setupVars, sessionLock, stateless, stateful,
                   previousRequestType, sopProcessed, reqVars, device, pc,
                   call, syncVars, pollVars, calls>>

\* Wrong variant of RemoveSession: only stateful callbacks are looked for.
RemoveSessionStateful ==
    /\ Quiet
    /\ stateful = 0
    /\ alive' = FALSE
    /\ sessionLock' = 0
    /\ UNCHANGED <<sessState, mode, stateless, stateful, typeVars, reqVars,
                   devVars, pc, call, syncVars, pollVars, calls>>

\* cpaDcRemoveSession; RETRY while callbacks are pending.
RemoveSession ==
    /\ Quiet
    /\ stateless = 0 /\ stateful = 0
    /\ alive' = FALSE
    /\ sessionLock' = IF Stateful THEN 0 ELSE sessionLock
    /\ UNCHANGED <<sessState, mode, stateless, stateful, typeVars, reqVars,
                   devVars, pc, call, syncVars, pollVars, calls>>

\* cpaDcInitSession in the memory, zeroed, of a session that was removed.
InitSession ==
    /\ ~alive
    /\ alive' = TRUE
    /\ sessionLock' = 0
    /\ stateless' = 0
    /\ stateful' = 0
    /\ requestType' = "first"
    /\ previousRequestType' = "first"
    /\ sopProcessed' = FALSE
    /\ open' = FALSE
    /\ UNCHANGED <<sessState, mode, reqVars, device, pc, call, syncVars,
                   pollVars, calls>>

Next ==
    \/ \E t \in Callers : Begin(t) \/ Caller(t)
    \/ Answer
    \/ Poller
    \/ ResetSession \/ RemoveSession \/ InitSession

Spec == Init /\ [][Next]_vars

\* A call and a callback go on; the device answers what it was given.
Fairness ==
    /\ \A t \in Callers : WF_vars(Caller(t))
    /\ WF_vars(Answer)
    /\ WF_vars(Poller)

FairSpec == Spec /\ Fairness

-----------------------------------------------------------------------------
(* Properties.                                                             *)

\* Callers between the increment of the stateful count and the ring.
Admitted == {t \in Callers : pc[t] \in {"unlock", "sync", "alloc", "create",
                                        "put", "undo"}}

\* The request whose callback still uses the session.
Answering == IF ppc = "dec" THEN {answered} ELSE {}

\* Requests the session was used for and will be used for again.
Outstanding == device \cup Answering

pcStates == {"idle", "lock", "check", "admit", "unlock", "sync", "alloc",
             "create", "count", "put", "undo", "wait", "destroy"}

Requests == [flush : Flushes \cup {Null}, sop : BOOLEAN,
             tag : SyncCookies \cup {Null}]
CallRecords == [flush : Flushes \cup {Null}, zero : BOOLEAN,
                cookie : Cookies \cup {Null}, tag : SyncCookies \cup {Null}]

\* Every variable has its type; the count of a stateful session stays zero
\* or one.  (The stateless count is an integer: see RemovedMeansIdle.)
TypeOK ==
    /\ sessState \in SessStates
    /\ mode \in Modes
    /\ alive \in BOOLEAN
    /\ sessionLock \in {0, 1}
    /\ stateless \in Int
    /\ stateful \in {0, 1}
    /\ requestType \in {"first", "subsequent"}
    /\ previousRequestType \in {"first", "subsequent"}
    /\ sopProcessed \in BOOLEAN
    /\ pool \subseteq Cookies
    /\ req \in [Cookies -> Requests]
    /\ device \subseteq Cookies
    /\ open \in BOOLEAN
    /\ pc \in [Callers -> pcStates]
    /\ call \in [Callers -> CallRecords]
    /\ allocated \subseteq SyncCookies
    /\ posted \subseteq SyncCookies
    /\ complete \subseteq SyncCookies
    /\ canceled \subseteq SyncCookies
    /\ ppc \in {"idle", "dec", "free", "call", "post"}
    /\ answered \in Cookies \cup {Null}
    /\ ptag \in SyncCookies \cup {Null}
    /\ calls \in 0..MaxCalls

\* A stateful session has one request at most, from the increment to the
\* decrement: its context buffer and the type of the request, which has no
\* lock of its own, belong to that request ("As stateful mode do not support
\* more than one in-flight request there is no need to use spinlocks").
OneInFlight ==
    Stateful =>
        /\ \A t, u \in Admitted : t = u
        /\ \A c, d \in Outstanding : c = d
        /\ Admitted = {} \/ Outstanding = {}

\* When cpaDcRemoveSession has returned SUCCESS the memory of the session may
\* be freed: no request is outstanding that will use it ("Removal will fail
\* if outstanding calls still exist for the initialized session handle").
RemovedMeansIdle == ~alive => Outstanding = {}

\* The device gets the start of a stream when it is not in the middle of one
\* and only then, whatever was refused, failed or answered before.
Framing ==
    [][\A c \in device' \ device : Stateful => (req[c].sop <=> ~open)]_vars

\* A late callback never touches a synchronous cookie that its caller, whose
\* wait has timed out, has freed ("the callback might panic").
SyncCookieOutlives ==
    mode = "sync" =>
        /\ \A c \in device : req[c].tag \in allocated
        /\ ppc # "idle" => ptag \in allocated

\* A stateful session does not stay busy for ever: the count that refuses
\* every other request comes back to zero.
CountDrains == stateful # 0 ~> stateful = 0
=============================================================================

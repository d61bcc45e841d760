-------------------------- MODULE DcSession_proofs --------------------------
(***************************************************************************)
(* The safety of a compression session, proved for any number of callers,  *)
(* cookies and calls, and for every failure the constants allow.  The      *)
(* inductive invariant IInv is the conjunction of eight parts, each with a  *)
(* lemma that says a step of Next preserves it.                            *)
(***************************************************************************)
EXTENDS DcSession, TLAPS

\* A caller that holds a compression cookie it has not put on the ring.
Holding(t) == pc[t] \in {"create", "count", "put", "undo"}

\* The poller holds the cookie of the request it calls back.
Freeing == ppc \in {"dec", "free"}

\* A caller with a synchronous cookie; one whose request is not sent.
Unsent(t) == mode = "sync" /\ pc[t] \in {"alloc", "create", "count", "put",
                                         "undo"}
Tagged(t) == mode = "sync" /\ pc[t] \in {"alloc", "create", "count", "put",
                                         "undo", "wait", "destroy"}

\* The synchronous cookies that callbacks still to be made will use.
Owed(s) ==
    mode = "sync" /\ ((\E c \in device : req[c].tag = s)
                      \/ (ppc # "idle" /\ ptag = s))

\* The types, without what they owe to the other parts.
TypeInv ==
    /\ sessState \in SessStates
    /\ mode \in Modes
    /\ alive \in BOOLEAN
    /\ sessionLock \in {0, 1}
    /\ stateless \in Int
    /\ stateful \in {0, 1}
    /\ requestType \in {"first", "subsequent"}
    /\ previousRequestType \in {"first", "subsequent"}
    /\ sopProcessed \in BOOLEAN
    /\ req \in [Cookies -> Requests]
    /\ open \in BOOLEAN
    /\ pc \in [Callers -> pcStates]
    /\ call \in [Callers -> CallRecords]
    /\ ppc \in {"idle", "dec", "free", "call", "post"}
    /\ answered \in Cookies \cup {Null}
    /\ ptag \in SyncCookies \cup {Null}
    /\ calls \in 0..MaxCalls

\* Where callers can be: the places of stateful and of synchronous calls, and
\* nowhere once the session is removed.
PlaceInv ==
    /\ \A t \in Callers :
          /\ pc[t] \in {"lock", "check", "admit", "unlock"} => Stateful
          /\ pc[t] = "count" => ~Stateful
          /\ pc[t] \in {"sync", "wait", "destroy"} => mode = "sync"
          /\ ~alive => pc[t] = "idle"
    /\ ppc = "post" => mode = "sync"

\* The session lock is held from the exchange to the release.
Locking(t) == pc[t] \in {"check", "admit", "unlock"}
LockInv ==
    /\ \A t \in Callers : Locking(t) => sessionLock = 1
    /\ \A t, u \in Callers : Locking(t) /\ Locking(u) => t = u

\* A stateful request in the driver or outstanding is counted, and is alone.
CountInv ==
    Stateful =>
        /\ OneInFlight
        /\ Admitted # {} \/ Outstanding # {} => stateful = 1
        /\ \A t \in Callers : pc[t] = "admit" =>
              stateful = 0 /\ Admitted = {} /\ Outstanding = {}

\* A compression cookie is in the pool, with one caller, with the device or
\* with the poller.
CookieInv ==
    /\ pool \subseteq Cookies
    /\ device \subseteq Cookies
    /\ pool \cap device = {}
    /\ \A t \in Callers : Holding(t) =>
          call[t].cookie \in Cookies \ (pool \cup device)
    /\ \A t, u \in Callers : Holding(t) /\ Holding(u) /\ t # u =>
          call[t].cookie # call[u].cookie
    /\ Freeing =>
          /\ answered \in Cookies \ (pool \cup device)
          /\ \A t \in Callers : Holding(t) => call[t].cookie # answered

\* A synchronous cookie belongs to one call, and stays allocated while that
\* call or its callback needs it.
SyncInv ==
    /\ allocated \subseteq SyncCookies
    /\ posted \cup complete \cup canceled \subseteq allocated
    /\ posted \cap complete = {}
    /\ \A t \in Callers : Tagged(t) =>
          call[t].tag \in allocated /\ call[t].tag \notin canceled
    /\ \A t, u \in Callers : Tagged(t) /\ Tagged(u) /\ t # u =>
          call[t].tag # call[u].tag
    /\ \A t \in Callers : Unsent(t) =>
          /\ call[t].tag \notin posted \cup complete
          /\ ~Owed(call[t].tag)
          /\ pc[t] \in {"count", "put"} =>
                req[call[t].cookie].tag = call[t].tag
    /\ \A s \in SyncCookies \cup {Null} :
          Owed(s) => s \in allocated \ (posted \cup complete)
    /\ mode = "sync" =>
          /\ \A c, d \in device : req[c].tag = req[d].tag => c = d
          /\ ppc # "idle" => \A c \in device : req[c].tag # ptag

\* Nothing is outstanding on a stateful session that was removed.
RestInv == (~alive /\ Stateful) => Outstanding = {}

\* What the session says of the next request agrees with what the device has
\* seen: between two requests, and for the request about to be sent.
FrameInv ==
    Stateful =>
        /\ ~sopProcessed =>
              /\ requestType = "first"
              /\ device = {}
              /\ \A t \in Callers : pc[t] # "put"
        /\ device = {} /\ (\A t \in Callers : pc[t] # "put") =>
              (requestType = "first" <=> ~open)
        /\ \A t \in Callers : pc[t] = "put" =>
              /\ req[call[t].cookie].sop <=> ~open
              /\ previousRequestType = "first" <=> ~open

IInv ==
    /\ TypeInv
    /\ PlaceInv
    /\ LockInv
    /\ CountInv
    /\ RestInv
    /\ CookieInv
    /\ SyncInv
    /\ FrameInv

\* What a call and a request are made of.
LEMMA RecordTypes ==
    /\ NoCall \in CallRecords
    /\ NoRequest \in Requests
    /\ \A r \in CallRecords :
          r.flush \in Flushes \cup {Null} /\ r.tag \in SyncCookies \cup {Null}
    /\ \A r \in Requests : r.tag \in SyncCookies \cup {Null}
    /\ \A f \in Flushes \cup {Null}, b \in BOOLEAN,
          s \in SyncCookies \cup {Null} :
             [flush |-> f, tag |-> s, sop |-> b] \in Requests
  BY DEF NoCall, NoRequest, CallRecords, Requests

\* Changing the fields of one call.
LEMMA CallUpdates ==
    ASSUME NEW f \in [Callers -> CallRecords], NEW t \in Callers
    PROVE  /\ \A fl \in Flushes, z \in BOOLEAN :
                 [f EXCEPT ![t].flush = fl, ![t].zero = z]
                    \in [Callers -> CallRecords]
           /\ \A c \in Cookies \cup {Null} :
                 [f EXCEPT ![t].cookie = c] \in [Callers -> CallRecords]
           /\ \A s \in SyncCookies \cup {Null} :
                 [f EXCEPT ![t].tag = s] \in [Callers -> CallRecords]
  <1>1. f[t] \in CallRecords
    OBVIOUS
  <1>2. \A fl \in Flushes, z \in BOOLEAN :
          [f[t] EXCEPT !.flush = fl, !.zero = z] \in CallRecords
    BY <1>1 DEF CallRecords
  <1>3. \A c \in Cookies \cup {Null} :
          [f[t] EXCEPT !.cookie = c] \in CallRecords
    BY <1>1 DEF CallRecords
  <1>4. \A s \in SyncCookies \cup {Null} :
          [f[t] EXCEPT !.tag = s] \in CallRecords
    BY <1>1 DEF CallRecords
  <1> QED
    BY <1>2, <1>3, <1>4

\* Every step keeps the types.
LEMMA TypeInvStep == IInv /\ [Next]_vars => TypeInv'
  <1> SUFFICES ASSUME IInv, [Next]_vars PROVE TypeInv'
    OBVIOUS
  <1> USE KindsAssumption, RecordTypes
      DEF IInv, TypeInv, Stateful, pcStates, setupVars, typeVars, reqVars,
          devVars, syncVars, pollVars
  <1>1. ASSUME NEW t \in Callers, Begin(t) PROVE TypeInv'
    <2>1. PICK f \in Flushes, z \in {FALSE, Stateful} :
            call' = [call EXCEPT ![t].flush = f, ![t].zero = z]
      BY <1>1 DEF Begin
    <2>2. call' \in [Callers -> CallRecords]
      BY <2>1, CallUpdates
    <2>3. alive' \in BOOLEAN
      BY <1>1 DEF Begin
    <2> QED
      BY <1>1, <2>2, <2>3 DEF Begin, Enter
  <1>2. ASSUME NEW t \in Callers, Lock(t) PROVE TypeInv'
    BY <1>2 DEF Lock, Goto
  <1>3. ASSUME NEW t \in Callers, Release(t) PROVE TypeInv'
    BY <1>3 DEF Release, Return
  <1>4. ASSUME NEW t \in Callers, Pass(t) PROVE TypeInv'
    BY <1>4 DEF Pass, Goto
  <1>5. ASSUME NEW t \in Callers, Admit(t) PROVE TypeInv'
    BY <1>5 DEF Admit, Goto, PlaceInv, CountInv
  <1>6. ASSUME NEW t \in Callers, Unlock(t) PROVE TypeInv'
    BY <1>6 DEF Unlock, Goto, Enter
  <1>7. ASSUME NEW t \in Callers, CreateSyncCookie(t) PROVE TypeInv'
    <2>1. PICK s \in SyncCookies : call' = [call EXCEPT ![t].tag = s]
      BY <1>7 DEF CreateSyncCookie, SyncInv
    <2>2. call' \in [Callers -> CallRecords]
      BY <2>1, CallUpdates
    <2> QED
      BY <1>7, <2>2 DEF CreateSyncCookie
  <1>8. ASSUME NEW t \in Callers, CreateSyncCookieFails(t) PROVE TypeInv'
    BY <1>8 DEF CreateSyncCookieFails, Return
  <1>9. ASSUME NEW t \in Callers, AllocCookie(t) PROVE TypeInv'
    BY <1>9, CallUpdates DEF AllocCookie, CookieInv
  <1>10. ASSUME NEW t \in Callers, AllocFails(t) PROVE TypeInv'
    <2>1. CASE mode = "sync"
      BY <1>10, <2>1 DEF AllocFails, Leave, Goto
    <2>2. CASE mode # "sync"
      BY <1>10, <2>2 DEF AllocFails, Leave, Return
    <2> QED
      BY <2>1, <2>2
  <1>11. ASSUME NEW t \in Callers, CreateRequest(t) PROVE TypeInv'
    <2>1. call[t] \in CallRecords
      OBVIOUS
    <2>2. req' \in [Cookies -> Requests]
      BY <1>11, <2>1, RecordTypes DEF CreateRequest
    <2>3. sopProcessed' \in BOOLEAN
      BY <1>11 DEF CreateRequest
    <2>4. UNCHANGED call /\ pc' \in [Callers -> pcStates]
      BY <1>11 DEF CreateRequest, Goto
    <2>5. /\ requestType' \in {"first", "subsequent"}
          /\ previousRequestType' \in {"first", "subsequent"}
      BY <1>11 DEF CreateRequest
    <2> QED
      BY <1>11, <2>2, <2>3, <2>4, <2>5 DEF CreateRequest
  <1>12. ASSUME NEW t \in Callers, CreateRequestFails(t) PROVE TypeInv'
    BY <1>12 DEF CreateRequestFails, Goto
  <1>13. ASSUME NEW t \in Callers, Count(t) PROVE TypeInv'
    BY <1>13 DEF Count, Goto
  <1>14. ASSUME NEW t \in Callers, Put(t) PROVE TypeInv'
    <2>1. call' \in [Callers -> CallRecords]
      <3>1. CASE mode = "sync"
        <4>1. call' = [call EXCEPT ![t].cookie = Null]
          BY <1>14, <3>1 DEF Put
        <4>2. Null \in Cookies \cup {Null}
          OBVIOUS
        <4> QED
          BY <4>1, <4>2, CallUpdates
      <3>2. CASE mode # "sync"
        BY <1>14, <3>2 DEF Put, Return
      <3> QED
        BY <3>1, <3>2
    <2>2. pc' \in [Callers -> pcStates]
      BY <1>14 DEF Put, Return
    <2> QED
      BY <1>14, <2>1, <2>2 DEF Put
  <1>15. ASSUME NEW t \in Callers, PutRetry(t) PROVE TypeInv'
    BY <1>15 DEF PutRetry, Goto
  <1>16. ASSUME NEW t \in Callers, Undo(t) PROVE TypeInv'
    <2>1. Stateful => stateful = 1
      BY <1>16 DEF Undo, CountInv, Admitted
    <2> QED
      BY <1>16, <2>1 DEF Undo, Leave, Goto, Return
  <1>17. ASSUME NEW t \in Callers, WaitDone(t) PROVE TypeInv'
    BY <1>17 DEF WaitDone, Goto
  <1>18. ASSUME NEW t \in Callers, WaitTimeout(t) PROVE TypeInv'
    BY <1>18 DEF WaitTimeout, Goto
  <1>19. ASSUME NEW t \in Callers, DestroySyncCookie(t) PROVE TypeInv'
    BY <1>19 DEF DestroySyncCookie, Return
  <1>20. CASE Answer
    BY <1>20 DEF Answer, CookieInv
  <1>21. CASE CallbackDec
    BY <1>21 DEF CallbackDec
  <1>22. CASE CallbackFree
    BY <1>22 DEF CallbackFree
  <1>23. CASE CallbackCall
    BY <1>23 DEF CallbackCall
  <1>24. CASE CallbackPost
    BY <1>24 DEF CallbackPost
  <1>25. CASE ResetSession
    BY <1>25 DEF ResetSession, Quiet
  <1>26. CASE RemoveSession
    BY <1>26 DEF RemoveSession, Quiet
  <1>27. CASE InitSession
    <2>1. alive' \in BOOLEAN /\ sopProcessed' \in BOOLEAN /\ open' \in BOOLEAN
      BY <1>27 DEF InitSession
    <2> QED
      BY <1>27, <2>1 DEF InitSession
  <1>28. CASE UNCHANGED vars
    BY <1>28 DEF vars
  <1> HIDE DEF IInv, TypeInv, Stateful, pcStates, setupVars, typeVars,
               reqVars, devVars, syncVars, pollVars
  <1> QED
    BY <1>1, <1>2, <1>3, <1>4, <1>5, <1>6, <1>7, <1>8, <1>9, <1>10, <1>11,
       <1>12, <1>13, <1>14, <1>15, <1>16, <1>17, <1>18, <1>19, <1>20, <1>21,
       <1>22, <1>23, <1>24, <1>25, <1>26, <1>27, <1>28
       DEF Next, Caller, Poller

\* Every step leaves callers where the session lets them be.
LEMMA PlaceInvStep == IInv /\ [Next]_vars => PlaceInv'
  <1> SUFFICES ASSUME IInv, [Next]_vars PROVE PlaceInv'
    OBVIOUS
  <1> USE NullAssumption, KindsAssumption
      DEF IInv, TypeInv, PlaceInv, Stateful, setupVars, typeVars, reqVars,
          devVars, syncVars, pollVars
  <1>1. ASSUME NEW t \in Callers, Begin(t) PROVE PlaceInv'
    BY <1>1 DEF Begin, Enter
  <1>2. ASSUME NEW t \in Callers, Lock(t) PROVE PlaceInv'
    BY <1>2 DEF Lock, Goto
  <1>3. ASSUME NEW t \in Callers, Release(t) PROVE PlaceInv'
    BY <1>3 DEF Release, Return
  <1>4. ASSUME NEW t \in Callers, Pass(t) PROVE PlaceInv'
    BY <1>4 DEF Pass, Goto
  <1>5. ASSUME NEW t \in Callers, Admit(t) PROVE PlaceInv'
    BY <1>5 DEF Admit, Goto
  <1>6. ASSUME NEW t \in Callers, Unlock(t) PROVE PlaceInv'
    BY <1>6 DEF Unlock, Goto, Enter
  <1>7. ASSUME NEW t \in Callers, CreateSyncCookie(t) PROVE PlaceInv'
    BY <1>7 DEF CreateSyncCookie
  <1>8. ASSUME NEW t \in Callers, CreateSyncCookieFails(t) PROVE PlaceInv'
    BY <1>8 DEF CreateSyncCookieFails, Return
  <1>9. ASSUME NEW t \in Callers, AllocCookie(t) PROVE PlaceInv'
    BY <1>9 DEF AllocCookie
  <1>10. ASSUME NEW t \in Callers, AllocFails(t) PROVE PlaceInv'
    BY <1>10 DEF AllocFails, Leave, Goto, Return
  <1>11. ASSUME NEW t \in Callers, CreateRequest(t) PROVE PlaceInv'
    BY <1>11 DEF CreateRequest, Goto
  <1>12. ASSUME NEW t \in Callers, CreateRequestFails(t) PROVE PlaceInv'
    BY <1>12 DEF CreateRequestFails, Goto
  <1>13. ASSUME NEW t \in Callers, Count(t) PROVE PlaceInv'
    BY <1>13 DEF Count, Goto
  <1>14. ASSUME NEW t \in Callers, Put(t) PROVE PlaceInv'
    BY <1>14 DEF Put, Return
  <1>15. ASSUME NEW t \in Callers, PutRetry(t) PROVE PlaceInv'
    BY <1>15 DEF PutRetry, Goto
  <1>16. ASSUME NEW t \in Callers, Undo(t) PROVE PlaceInv'
    BY <1>16 DEF Undo, Leave, Goto, Return
  <1>17. ASSUME NEW t \in Callers, WaitDone(t) PROVE PlaceInv'
    BY <1>17 DEF WaitDone, Goto
  <1>18. ASSUME NEW t \in Callers, WaitTimeout(t) PROVE PlaceInv'
    BY <1>18 DEF WaitTimeout, Goto
  <1>19. ASSUME NEW t \in Callers, DestroySyncCookie(t) PROVE PlaceInv'
    BY <1>19 DEF DestroySyncCookie, Return
  <1>20. CASE Answer
    BY <1>20 DEF Answer
  <1>21. CASE CallbackDec
    BY <1>21 DEF CallbackDec
  <1>22. CASE CallbackFree
    BY <1>22 DEF CallbackFree
  <1>23. CASE CallbackCall
    BY <1>23 DEF CallbackCall
  <1>24. CASE CallbackPost
    BY <1>24 DEF CallbackPost
  <1>25. CASE ResetSession
    BY <1>25 DEF ResetSession, Quiet
  <1>26. CASE RemoveSession
    BY <1>26 DEF RemoveSession, Quiet
  <1>27. CASE InitSession
    BY <1>27 DEF InitSession
  <1>28. CASE UNCHANGED vars
    BY <1>28 DEF vars
  <1> HIDE DEF IInv, TypeInv, PlaceInv, Stateful, setupVars, typeVars,
          reqVars, devVars, syncVars, pollVars
  <1> QED
    BY <1>1, <1>2, <1>3, <1>4, <1>5, <1>6, <1>7, <1>8, <1>9, <1>10, <1>11,
       <1>12, <1>13, <1>14, <1>15, <1>16, <1>17, <1>18, <1>19, <1>20, <1>21,
       <1>22, <1>23, <1>24, <1>25, <1>26, <1>27, <1>28
       DEF Next, Caller, Poller

\* One caller at a time is between the exchange and the release.
LEMMA LockInvStep == IInv /\ [Next]_vars => LockInv'
  <1> SUFFICES ASSUME IInv, [Next]_vars PROVE LockInv'
    OBVIOUS
  <1> USE NullAssumption, KindsAssumption
      DEF IInv, TypeInv, PlaceInv, LockInv, Locking, Stateful, setupVars,
          typeVars, reqVars, devVars, syncVars, pollVars
  <1>1. ASSUME NEW t \in Callers, Begin(t) PROVE LockInv'
    BY <1>1 DEF Begin, Enter
  <1>2. ASSUME NEW t \in Callers, Lock(t) PROVE LockInv'
    BY <1>2 DEF Lock, Goto
  <1>3. ASSUME NEW t \in Callers, Release(t) PROVE LockInv'
    BY <1>3 DEF Release, Return
  <1>4. ASSUME NEW t \in Callers, Pass(t) PROVE LockInv'
    BY <1>4 DEF Pass, Goto
  <1>5. ASSUME NEW t \in Callers, Admit(t) PROVE LockInv'
    BY <1>5 DEF Admit, Goto
  <1>6. ASSUME NEW t \in Callers, Unlock(t) PROVE LockInv'
    BY <1>6 DEF Unlock, Goto, Enter
  <1>7. ASSUME NEW t \in Callers, CreateSyncCookie(t) PROVE LockInv'
    BY <1>7 DEF CreateSyncCookie
  <1>8. ASSUME NEW t \in Callers, CreateSyncCookieFails(t) PROVE LockInv'
    BY <1>8 DEF CreateSyncCookieFails, Return
  <1>9. ASSUME NEW t \in Callers, AllocCookie(t) PROVE LockInv'
    BY <1>9 DEF AllocCookie
  <1>10. ASSUME NEW t \in Callers, AllocFails(t) PROVE LockInv'
    BY <1>10 DEF AllocFails, Leave, Goto, Return
  <1>11. ASSUME NEW t \in Callers, CreateRequest(t) PROVE LockInv'
    BY <1>11 DEF CreateRequest, Goto
  <1>12. ASSUME NEW t \in Callers, CreateRequestFails(t) PROVE LockInv'
    BY <1>12 DEF CreateRequestFails, Goto
  <1>13. ASSUME NEW t \in Callers, Count(t) PROVE LockInv'
    BY <1>13 DEF Count, Goto
  <1>14. ASSUME NEW t \in Callers, Put(t) PROVE LockInv'
    BY <1>14 DEF Put, Return
  <1>15. ASSUME NEW t \in Callers, PutRetry(t) PROVE LockInv'
    BY <1>15 DEF PutRetry, Goto
  <1>16. ASSUME NEW t \in Callers, Undo(t) PROVE LockInv'
    BY <1>16 DEF Undo, Leave, Goto, Return
  <1>17. ASSUME NEW t \in Callers, WaitDone(t) PROVE LockInv'
    BY <1>17 DEF WaitDone, Goto
  <1>18. ASSUME NEW t \in Callers, WaitTimeout(t) PROVE LockInv'
    BY <1>18 DEF WaitTimeout, Goto
  <1>19. ASSUME NEW t \in Callers, DestroySyncCookie(t) PROVE LockInv'
    BY <1>19 DEF DestroySyncCookie, Return
  <1>20. CASE Answer
    BY <1>20 DEF Answer
  <1>21. CASE CallbackDec
    BY <1>21 DEF CallbackDec
  <1>22. CASE CallbackFree
    BY <1>22 DEF CallbackFree
  <1>23. CASE CallbackCall
    BY <1>23 DEF CallbackCall
  <1>24. CASE CallbackPost
    BY <1>24 DEF CallbackPost
  <1>25. CASE ResetSession
    BY <1>25 DEF ResetSession, Quiet
  <1>26. CASE RemoveSession
    BY <1>26 DEF RemoveSession, Quiet
  <1>27. CASE InitSession
    BY <1>27 DEF InitSession
  <1>28. CASE UNCHANGED vars
    BY <1>28 DEF vars
  <1> HIDE DEF IInv, TypeInv, PlaceInv, LockInv, Locking, Stateful, setupVars,
          typeVars, reqVars, devVars, syncVars, pollVars
  <1> QED
    BY <1>1, <1>2, <1>3, <1>4, <1>5, <1>6, <1>7, <1>8, <1>9, <1>10, <1>11,
       <1>12, <1>13, <1>14, <1>15, <1>16, <1>17, <1>18, <1>19, <1>20, <1>21,
       <1>22, <1>23, <1>24, <1>25, <1>26, <1>27, <1>28
       DEF Next, Caller, Poller

\* The test and the increment under the lock keep a stateful request alone.
LEMMA CountInvStep == IInv /\ [Next]_vars => CountInv'
  <1> SUFFICES ASSUME IInv, [Next]_vars PROVE CountInv'
    OBVIOUS
  <1> USE NullAssumption, KindsAssumption
      DEF IInv, TypeInv, PlaceInv, LockInv, CountInv, RestInv, CookieInv,
          Locking, Holding, Freeing, OneInFlight, Admitted, Outstanding,
          Answering, Stateful, setupVars, typeVars, reqVars, devVars,
          syncVars, pollVars
  <1>1. ASSUME NEW t \in Callers, Begin(t) PROVE CountInv'
    BY <1>1 DEF Begin, Enter
  <1>2. ASSUME NEW t \in Callers, Lock(t) PROVE CountInv'
    BY <1>2 DEF Lock, Goto
  <1>3. ASSUME NEW t \in Callers, Release(t) PROVE CountInv'
    BY <1>3 DEF Release, Return
  <1>4. ASSUME NEW t \in Callers, Pass(t) PROVE CountInv'
    BY <1>4 DEF Pass, Goto
  <1>5. ASSUME NEW t \in Callers, Admit(t) PROVE CountInv'
    BY <1>5 DEF Admit, Goto
  <1>6. ASSUME NEW t \in Callers, Unlock(t) PROVE CountInv'
    BY <1>6 DEF Unlock, Goto, Enter
  <1>7. ASSUME NEW t \in Callers, CreateSyncCookie(t) PROVE CountInv'
    BY <1>7 DEF CreateSyncCookie
  <1>8. ASSUME NEW t \in Callers, CreateSyncCookieFails(t) PROVE CountInv'
    BY <1>8 DEF CreateSyncCookieFails, Return
  <1>9. ASSUME NEW t \in Callers, AllocCookie(t) PROVE CountInv'
    BY <1>9 DEF AllocCookie
  <1>10. ASSUME NEW t \in Callers, AllocFails(t) PROVE CountInv'
    BY <1>10 DEF AllocFails, Leave, Goto, Return
  <1>11. ASSUME NEW t \in Callers, CreateRequest(t) PROVE CountInv'
    BY <1>11 DEF CreateRequest, Goto
  <1>12. ASSUME NEW t \in Callers, CreateRequestFails(t) PROVE CountInv'
    BY <1>12 DEF CreateRequestFails, Goto
  <1>13. ASSUME NEW t \in Callers, Count(t) PROVE CountInv'
    BY <1>13 DEF Count, Goto
  <1>14. ASSUME NEW t \in Callers, Put(t) PROVE CountInv'
    BY <1>14 DEF Put, Return
  <1>15. ASSUME NEW t \in Callers, PutRetry(t) PROVE CountInv'
    BY <1>15 DEF PutRetry, Goto
  <1>16. ASSUME NEW t \in Callers, Undo(t) PROVE CountInv'
    BY <1>16 DEF Undo, Leave, Goto, Return
  <1>17. ASSUME NEW t \in Callers, WaitDone(t) PROVE CountInv'
    BY <1>17 DEF WaitDone, Goto
  <1>18. ASSUME NEW t \in Callers, WaitTimeout(t) PROVE CountInv'
    BY <1>18 DEF WaitTimeout, Goto
  <1>19. ASSUME NEW t \in Callers, DestroySyncCookie(t) PROVE CountInv'
    BY <1>19 DEF DestroySyncCookie, Return
  <1>20. CASE Answer
    BY <1>20 DEF Answer
  <1>21. CASE CallbackDec
    BY <1>21 DEF CallbackDec
  <1>22. CASE CallbackFree
    BY <1>22 DEF CallbackFree
  <1>23. CASE CallbackCall
    BY <1>23 DEF CallbackCall
  <1>24. CASE CallbackPost
    BY <1>24 DEF CallbackPost
  <1>25. CASE ResetSession
    BY <1>25 DEF ResetSession, Quiet
  <1>26. CASE RemoveSession
    BY <1>26 DEF RemoveSession, Quiet
  <1>27. CASE InitSession
    BY <1>27 DEF InitSession
  <1>28. CASE UNCHANGED vars
    BY <1>28 DEF vars
  <1> HIDE DEF IInv, TypeInv, PlaceInv, LockInv, CountInv, RestInv, CookieInv,
          Locking, Holding, Freeing, OneInFlight, Admitted, Outstanding,
          Answering, Stateful, setupVars, typeVars, reqVars, devVars,
          syncVars, pollVars
  <1> QED
    BY <1>1, <1>2, <1>3, <1>4, <1>5, <1>6, <1>7, <1>8, <1>9, <1>10, <1>11,
       <1>12, <1>13, <1>14, <1>15, <1>16, <1>17, <1>18, <1>19, <1>20, <1>21,
       <1>22, <1>23, <1>24, <1>25, <1>26, <1>27, <1>28
       DEF Next, Caller, Poller

\* A stateful session is removed when nothing is outstanding only.
LEMMA RestInvStep == IInv /\ [Next]_vars => RestInv'
  <1> SUFFICES ASSUME IInv, [Next]_vars PROVE RestInv'
    OBVIOUS
  <1> USE NullAssumption, KindsAssumption
      DEF IInv, TypeInv, PlaceInv, CountInv, RestInv, CookieInv, Outstanding,
          Answering, Stateful, setupVars, typeVars, reqVars, devVars,
          syncVars, pollVars
  <1>1. ASSUME NEW t \in Callers, Begin(t) PROVE RestInv'
    BY <1>1 DEF Begin, Enter
  <1>2. ASSUME NEW t \in Callers, Lock(t) PROVE RestInv'
    BY <1>2 DEF Lock, Goto
  <1>3. ASSUME NEW t \in Callers, Release(t) PROVE RestInv'
    BY <1>3 DEF Release, Return
  <1>4. ASSUME NEW t \in Callers, Pass(t) PROVE RestInv'
    BY <1>4 DEF Pass, Goto
  <1>5. ASSUME NEW t \in Callers, Admit(t) PROVE RestInv'
    BY <1>5 DEF Admit, Goto
  <1>6. ASSUME NEW t \in Callers, Unlock(t) PROVE RestInv'
    BY <1>6 DEF Unlock, Goto, Enter
  <1>7. ASSUME NEW t \in Callers, CreateSyncCookie(t) PROVE RestInv'
    BY <1>7 DEF CreateSyncCookie
  <1>8. ASSUME NEW t \in Callers, CreateSyncCookieFails(t) PROVE RestInv'
    BY <1>8 DEF CreateSyncCookieFails, Return
  <1>9. ASSUME NEW t \in Callers, AllocCookie(t) PROVE RestInv'
    BY <1>9 DEF AllocCookie
  <1>10. ASSUME NEW t \in Callers, AllocFails(t) PROVE RestInv'
    BY <1>10 DEF AllocFails, Leave, Goto, Return
  <1>11. ASSUME NEW t \in Callers, CreateRequest(t) PROVE RestInv'
    BY <1>11 DEF CreateRequest, Goto
  <1>12. ASSUME NEW t \in Callers, CreateRequestFails(t) PROVE RestInv'
    BY <1>12 DEF CreateRequestFails, Goto
  <1>13. ASSUME NEW t \in Callers, Count(t) PROVE RestInv'
    BY <1>13 DEF Count, Goto
  <1>14. ASSUME NEW t \in Callers, Put(t) PROVE RestInv'
    BY <1>14 DEF Put, Return
  <1>15. ASSUME NEW t \in Callers, PutRetry(t) PROVE RestInv'
    BY <1>15 DEF PutRetry, Goto
  <1>16. ASSUME NEW t \in Callers, Undo(t) PROVE RestInv'
    BY <1>16 DEF Undo, Leave, Goto, Return
  <1>17. ASSUME NEW t \in Callers, WaitDone(t) PROVE RestInv'
    BY <1>17 DEF WaitDone, Goto
  <1>18. ASSUME NEW t \in Callers, WaitTimeout(t) PROVE RestInv'
    BY <1>18 DEF WaitTimeout, Goto
  <1>19. ASSUME NEW t \in Callers, DestroySyncCookie(t) PROVE RestInv'
    BY <1>19 DEF DestroySyncCookie, Return
  <1>20. CASE Answer
    BY <1>20 DEF Answer
  <1>21. CASE CallbackDec
    BY <1>21 DEF CallbackDec
  <1>22. CASE CallbackFree
    BY <1>22 DEF CallbackFree
  <1>23. CASE CallbackCall
    BY <1>23 DEF CallbackCall
  <1>24. CASE CallbackPost
    BY <1>24 DEF CallbackPost
  <1>25. CASE ResetSession
    BY <1>25 DEF ResetSession, Quiet
  <1>26. CASE RemoveSession
    BY <1>26 DEF RemoveSession, Quiet
  <1>27. CASE InitSession
    BY <1>27 DEF InitSession
  <1>28. CASE UNCHANGED vars
    BY <1>28 DEF vars
  <1> HIDE DEF IInv, TypeInv, PlaceInv, CountInv, RestInv, CookieInv,
          Outstanding, Answering, Stateful, setupVars, typeVars, reqVars,
          devVars, syncVars, pollVars
  <1> QED
    BY <1>1, <1>2, <1>3, <1>4, <1>5, <1>6, <1>7, <1>8, <1>9, <1>10, <1>11,
       <1>12, <1>13, <1>14, <1>15, <1>16, <1>17, <1>18, <1>19, <1>20, <1>21,
       <1>22, <1>23, <1>24, <1>25, <1>26, <1>27, <1>28
       DEF Next, Caller, Poller

\* A compression cookie changes hands, and is never in two.
LEMMA CookieInvStep == IInv /\ [Next]_vars => CookieInv'
  <1> SUFFICES ASSUME IInv, [Next]_vars PROVE CookieInv'
    OBVIOUS
  <1> USE NullAssumption, KindsAssumption
      DEF IInv, TypeInv, PlaceInv, CookieInv, Holding, Freeing, Stateful,
          NoCall, Requests, CallRecords, setupVars, typeVars, reqVars,
          devVars, syncVars, pollVars
  <1>1. ASSUME NEW t \in Callers, Begin(t) PROVE CookieInv'
    BY <1>1 DEF Begin, Enter
  <1>2. ASSUME NEW t \in Callers, Lock(t) PROVE CookieInv'
    BY <1>2 DEF Lock, Goto
  <1>3. ASSUME NEW t \in Callers, Release(t) PROVE CookieInv'
    BY <1>3 DEF Release, Return
  <1>4. ASSUME NEW t \in Callers, Pass(t) PROVE CookieInv'
    BY <1>4 DEF Pass, Goto
  <1>5. ASSUME NEW t \in Callers, Admit(t) PROVE CookieInv'
    BY <1>5 DEF Admit, Goto
  <1>6. ASSUME NEW t \in Callers, Unlock(t) PROVE CookieInv'
    BY <1>6 DEF Unlock, Goto, Enter
  <1>7. ASSUME NEW t \in Callers, CreateSyncCookie(t) PROVE CookieInv'
    BY <1>7 DEF CreateSyncCookie
  <1>8. ASSUME NEW t \in Callers, CreateSyncCookieFails(t) PROVE CookieInv'
    BY <1>8 DEF CreateSyncCookieFails, Return
  <1>9. ASSUME NEW t \in Callers, AllocCookie(t) PROVE CookieInv'
    BY <1>9 DEF AllocCookie
  <1>10. ASSUME NEW t \in Callers, AllocFails(t) PROVE CookieInv'
    BY <1>10 DEF AllocFails, Leave, Goto, Return
  <1>11. ASSUME NEW t \in Callers, CreateRequest(t) PROVE CookieInv'
    BY <1>11 DEF CreateRequest, Goto
  <1>12. ASSUME NEW t \in Callers, CreateRequestFails(t) PROVE CookieInv'
    BY <1>12 DEF CreateRequestFails, Goto
  <1>13. ASSUME NEW t \in Callers, Count(t) PROVE CookieInv'
    BY <1>13 DEF Count, Goto
  <1>14. ASSUME NEW t \in Callers, Put(t) PROVE CookieInv'
    <2>1. CASE mode = "sync"
      BY <1>14, <2>1 DEF Put
    <2>2. CASE mode # "sync"
      BY <1>14, <2>2 DEF Put, Return
    <2> QED
      BY <2>1, <2>2
  <1>15. ASSUME NEW t \in Callers, PutRetry(t) PROVE CookieInv'
    BY <1>15 DEF PutRetry, Goto
  <1>16. ASSUME NEW t \in Callers, Undo(t) PROVE CookieInv'
    BY <1>16 DEF Undo, Leave, Goto, Return
  <1>17. ASSUME NEW t \in Callers, WaitDone(t) PROVE CookieInv'
    BY <1>17 DEF WaitDone, Goto
  <1>18. ASSUME NEW t \in Callers, WaitTimeout(t) PROVE CookieInv'
    BY <1>18 DEF WaitTimeout, Goto
  <1>19. ASSUME NEW t \in Callers, DestroySyncCookie(t) PROVE CookieInv'
    BY <1>19 DEF DestroySyncCookie, Return
  <1>20. CASE Answer
    BY <1>20 DEF Answer
  <1>21. CASE CallbackDec
    BY <1>21 DEF CallbackDec
  <1>22. CASE CallbackFree
    BY <1>22 DEF CallbackFree
  <1>23. CASE CallbackCall
    BY <1>23 DEF CallbackCall
  <1>24. CASE CallbackPost
    BY <1>24 DEF CallbackPost
  <1>25. CASE ResetSession
    BY <1>25 DEF ResetSession, Quiet
  <1>26. CASE RemoveSession
    BY <1>26 DEF RemoveSession, Quiet
  <1>27. CASE InitSession
    BY <1>27 DEF InitSession
  <1>28. CASE UNCHANGED vars
    BY <1>28 DEF vars
  <1> HIDE DEF IInv, TypeInv, PlaceInv, CookieInv, Holding, Freeing, Stateful,
          NoCall, Requests, CallRecords, setupVars, typeVars, reqVars,
          devVars, syncVars, pollVars
  <1> QED
    BY <1>1, <1>2, <1>3, <1>4, <1>5, <1>6, <1>7, <1>8, <1>9, <1>10, <1>11,
       <1>12, <1>13, <1>14, <1>15, <1>16, <1>17, <1>18, <1>19, <1>20, <1>21,
       <1>22, <1>23, <1>24, <1>25, <1>26, <1>27, <1>28
       DEF Next, Caller, Poller

\* A synchronous cookie is freed when nobody needs it any more.
LEMMA SyncInvStep == IInv /\ [Next]_vars => SyncInv'
  <1> SUFFICES ASSUME IInv, [Next]_vars PROVE SyncInv'
    OBVIOUS
  <1> USE NullAssumption, KindsAssumption
      DEF IInv, TypeInv, PlaceInv, CookieInv, SyncInv, Holding, Freeing, Owed,
          Unsent, Tagged, Stateful, NoCall, NoRequest, Requests, CallRecords,
          setupVars, typeVars, reqVars, devVars, syncVars, pollVars
  <1>1. ASSUME NEW t \in Callers, Begin(t) PROVE SyncInv'
    BY <1>1 DEF Begin, Enter
  <1>2. ASSUME NEW t \in Callers, Lock(t) PROVE SyncInv'
    BY <1>2 DEF Lock, Goto
  <1>3. ASSUME NEW t \in Callers, Release(t) PROVE SyncInv'
    BY <1>3 DEF Release, Return
  <1>4. ASSUME NEW t \in Callers, Pass(t) PROVE SyncInv'
    BY <1>4 DEF Pass, Goto
  <1>5. ASSUME NEW t \in Callers, Admit(t) PROVE SyncInv'
    BY <1>5 DEF Admit, Goto
  <1>6. ASSUME NEW t \in Callers, Unlock(t) PROVE SyncInv'
    BY <1>6 DEF Unlock, Goto, Enter
  <1>7. ASSUME NEW t \in Callers, CreateSyncCookie(t) PROVE SyncInv'
    <2>1. PICK s \in SyncCookies \ allocated :
            /\ allocated' = allocated \cup {s}
            /\ call' = [call EXCEPT ![t].tag = s]
      BY <1>7 DEF CreateSyncCookie
    <2>2. \A u \in Callers : /\ call'[u].cookie = call[u].cookie
                             /\ u # t => call'[u] = call[u]
      BY <2>1
    <2>3. call'[t].tag = s
      BY <2>1
    <2>4. \A u \in SyncCookies \cup {Null} : Owed(u)' <=> Owed(u)
      BY <1>7 DEF CreateSyncCookie
    <2>5. ~Owed(s) /\ s \notin posted \cup complete \cup canceled
      BY <2>1
    <2>6. pc' = [pc EXCEPT ![t] = "alloc"]
      BY <1>7 DEF CreateSyncCookie
    <2> HIDE DEF Owed
    <2> QED
      BY <1>7, <2>1, <2>2, <2>3, <2>4, <2>5, <2>6 DEF CreateSyncCookie
  <1>8. ASSUME NEW t \in Callers, CreateSyncCookieFails(t) PROVE SyncInv'
    BY <1>8 DEF CreateSyncCookieFails, Return
  <1>9. ASSUME NEW t \in Callers, AllocCookie(t) PROVE SyncInv'
    BY <1>9 DEF AllocCookie
  <1>10. ASSUME NEW t \in Callers, AllocFails(t) PROVE SyncInv'
    BY <1>10 DEF AllocFails, Leave, Goto, Return
  <1>11. ASSUME NEW t \in Callers, CreateRequest(t) PROVE SyncInv'
    BY <1>11 DEF CreateRequest, Goto
  <1>12. ASSUME NEW t \in Callers, CreateRequestFails(t) PROVE SyncInv'
    BY <1>12 DEF CreateRequestFails, Goto
  <1>13. ASSUME NEW t \in Callers, Count(t) PROVE SyncInv'
    BY <1>13 DEF Count, Goto
  <1>14. ASSUME NEW t \in Callers, Put(t) PROVE SyncInv'
    <2>1. CASE mode = "sync"
      <3> DEFINE c0 == call[t].cookie
                 s0 == call[t].tag
      <3>1. c0 \in Cookies /\ c0 \notin device /\ req[c0].tag = s0
        BY <1>14, <2>1 DEF Put
      <3>2. s0 \in allocated \ (posted \cup complete) /\ ~Owed(s0)
        BY <1>14, <2>1 DEF Put
      <3>3. \A s : Owed(s)' <=> Owed(s) \/ s = s0
        BY <1>14, <2>1, <3>1 DEF Put
      <3>4. \A c \in device : req[c].tag # s0
        BY <2>1, <3>2
      <3>5. ppc # "idle" => ptag # s0
        BY <2>1, <3>2
      <3>6. \A u \in Callers : call'[u].tag = call[u].tag
        BY <1>14, <2>1 DEF Put
      <3>7. \A u \in Callers : u # t => call'[u] = call[u] /\ pc'[u] = pc[u]
        BY <1>14, <2>1 DEF Put
      <3>8. pc'[t] = "wait"
        BY <1>14, <2>1 DEF Put
      <3>9. device' = device \cup {c0} /\ UNCHANGED <<setupVars, reqVars,
                                                    syncVars, pollVars>>
        BY <1>14 DEF Put
      <3>10. mode' = "sync" => /\ \A c, d \in device' :
                                    req'[c].tag = req'[d].tag => c = d
                               /\ ppc' # "idle" =>
                                    \A c \in device' : req'[c].tag # ptag'
        BY <2>1, <3>1, <3>4, <3>5, <3>9
      <3>11. \A u \in Callers : /\ Tagged(u)' => Tagged(u)
                                /\ Unsent(u)' => u # t /\ Unsent(u)
        BY <3>7, <3>8, <3>9, <1>14 DEF Put
      <3> HIDE DEF c0, s0, Owed, Tagged, Unsent
      <3>12. \A u \in Callers : Tagged(u)' =>
               call'[u].tag \in allocated' /\ call'[u].tag \notin canceled'
        BY <3>6, <3>9, <3>11
      <3>13. \A u, v \in Callers : Tagged(u)' /\ Tagged(v)' /\ u # v =>
               call'[u].tag # call'[v].tag
        BY <3>6, <3>11
      <3>14. Tagged(t)
        BY <1>14, <2>1 DEF Put, Tagged
      <3>15. ASSUME NEW u \in Callers, Unsent(u)'
             PROVE  /\ call'[u].tag \notin posted' \cup complete'
                    /\ ~Owed(call[u].tag)'
                    /\ pc'[u] \in {"count", "put"} =>
                         req'[call'[u].cookie].tag = call'[u].tag
        <4>1. u # t /\ Unsent(u) /\ Tagged(u)
          BY <3>11, <3>15 DEF Unsent, Tagged
        <4>2. call[u].tag # s0
          BY <4>1, <3>14 DEF s0
        <4>3. ~Owed(call[u].tag)
          BY <4>1
        <4>4. ~Owed(call[u].tag)'
          BY <3>1, <3>6, <3>9, <4>2, <4>3 DEF Owed
        <4>5. call'[u] = call[u] /\ pc'[u] = pc[u]
          BY <3>7, <4>1
        <4> QED
          BY <3>9, <4>1, <4>4, <4>5
      <3>16. \A s \in SyncCookies \cup {Null} : Owed(s)' =>
               s \in allocated' \ (posted' \cup complete')
        BY <3>2, <3>3, <3>9
      <3>17. /\ (allocated \subseteq SyncCookies)'
             /\ (posted \cup complete \cup canceled \subseteq allocated)'
             /\ (posted \cap complete = {})'
        BY <3>9
      <3> HIDE DEF SyncInv
      <3> QED
        BY <3>10, <3>12, <3>13, <3>15, <3>16, <3>17 DEF SyncInv
    <2>2. CASE mode # "sync"
      BY <1>14, <2>2 DEF Put, Return
    <2> QED
      BY <2>1, <2>2
  <1>15. ASSUME NEW t \in Callers, PutRetry(t) PROVE SyncInv'
    BY <1>15 DEF PutRetry, Goto
  <1>16. ASSUME NEW t \in Callers, Undo(t) PROVE SyncInv'
    BY <1>16 DEF Undo, Leave, Goto, Return
  <1>17. ASSUME NEW t \in Callers, WaitDone(t) PROVE SyncInv'
    BY <1>17 DEF WaitDone, Goto
  <1>18. ASSUME NEW t \in Callers, WaitTimeout(t) PROVE SyncInv'
    BY <1>18 DEF WaitTimeout, Goto
  <1>19. ASSUME NEW t \in Callers, DestroySyncCookie(t) PROVE SyncInv'
    BY <1>19 DEF DestroySyncCookie, Return
  <1>20. CASE Answer
    BY <1>20 DEF Answer
  <1>21. CASE CallbackDec
    BY <1>21 DEF CallbackDec
  <1>22. CASE CallbackFree
    BY <1>22 DEF CallbackFree
  <1>23. CASE CallbackCall
    BY <1>23 DEF CallbackCall
  <1>24. CASE CallbackPost
    BY <1>24 DEF CallbackPost
  <1>25. CASE ResetSession
    BY <1>25 DEF ResetSession, Quiet
  <1>26. CASE RemoveSession
    BY <1>26 DEF RemoveSession, Quiet
  <1>27. CASE InitSession
    BY <1>27 DEF InitSession
  <1>28. CASE UNCHANGED vars
    BY <1>28 DEF vars
  <1> HIDE DEF IInv, TypeInv, PlaceInv, CookieInv, SyncInv, Holding, Freeing,
          Owed, Unsent, Tagged, Stateful, NoCall, NoRequest, Requests,
          CallRecords, setupVars, typeVars, reqVars, devVars, syncVars,
          pollVars
  <1> QED
    BY <1>1, <1>2, <1>3, <1>4, <1>5, <1>6, <1>7, <1>8, <1>9, <1>10, <1>11,
       <1>12, <1>13, <1>14, <1>15, <1>16, <1>17, <1>18, <1>19, <1>20, <1>21,
       <1>22, <1>23, <1>24, <1>25, <1>26, <1>27, <1>28
       DEF Next, Caller, Poller

\* The session and the device agree on where a stream starts.
LEMMA FrameInvStep == IInv /\ [Next]_vars => FrameInv'
  <1> SUFFICES ASSUME IInv, [Next]_vars PROVE FrameInv'
    OBVIOUS
  <1> USE NullAssumption, KindsAssumption
      DEF IInv, TypeInv, PlaceInv, CountInv, CookieInv, RestInv, FrameInv,
          Holding, Freeing, OneInFlight, Admitted, Outstanding, Answering,
          Stateful, NoCall, Requests, CallRecords, setupVars, typeVars,
          reqVars, devVars, syncVars, pollVars
  <1>1. ASSUME NEW t \in Callers, Begin(t) PROVE FrameInv'
    BY <1>1 DEF Begin, Enter
  <1>2. ASSUME NEW t \in Callers, Lock(t) PROVE FrameInv'
    BY <1>2 DEF Lock, Goto
  <1>3. ASSUME NEW t \in Callers, Release(t) PROVE FrameInv'
    BY <1>3 DEF Release, Return
  <1>4. ASSUME NEW t \in Callers, Pass(t) PROVE FrameInv'
    BY <1>4 DEF Pass, Goto
  <1>5. ASSUME NEW t \in Callers, Admit(t) PROVE FrameInv'
    BY <1>5 DEF Admit, Goto
  <1>6. ASSUME NEW t \in Callers, Unlock(t) PROVE FrameInv'
    BY <1>6 DEF Unlock, Goto, Enter
  <1>7. ASSUME NEW t \in Callers, CreateSyncCookie(t) PROVE FrameInv'
    BY <1>7 DEF CreateSyncCookie
  <1>8. ASSUME NEW t \in Callers, CreateSyncCookieFails(t) PROVE FrameInv'
    BY <1>8 DEF CreateSyncCookieFails, Return
  <1>9. ASSUME NEW t \in Callers, AllocCookie(t) PROVE FrameInv'
    BY <1>9 DEF AllocCookie
  <1>10. ASSUME NEW t \in Callers, AllocFails(t) PROVE FrameInv'
    BY <1>10 DEF AllocFails, Leave, Goto, Return
  <1>11. ASSUME NEW t \in Callers, CreateRequest(t) PROVE FrameInv'
    <2> SUFFICES ASSUME Stateful PROVE FrameInv'
      BY <1>11 DEF CreateRequest
    <2>1. /\ device = {}
          /\ \A u \in Callers : pc[u] \in {"create", "put"} => u = t
      BY <1>11 DEF CreateRequest
    <2>2. requestType = "first" <=> ~open
      BY <1>11, <2>1 DEF CreateRequest
    <2>3. /\ call' = call
          /\ call[t].cookie \in Cookies
          /\ req'[call[t].cookie].sop <=> requestType = "first"
      BY <1>11 DEF CreateRequest, Goto
    <2>4. /\ pc'[t] = "put"
          /\ \A u \in Callers : u # t => pc'[u] # "put"
      BY <1>11, <2>1 DEF CreateRequest, Goto
    <2>5. previousRequestType' = requestType /\ sopProcessed' = TRUE
      BY <1>11 DEF CreateRequest
    <2>6. UNCHANGED <<device, open>>
      BY <1>11 DEF CreateRequest
    <2> QED
      BY <2>2, <2>3, <2>4, <2>5, <2>6
  <1>12. ASSUME NEW t \in Callers, CreateRequestFails(t) PROVE FrameInv'
    BY <1>12 DEF CreateRequestFails, Goto
  <1>13. ASSUME NEW t \in Callers, Count(t) PROVE FrameInv'
    BY <1>13 DEF Count, Goto
  <1>14. ASSUME NEW t \in Callers, Put(t) PROVE FrameInv'
    <2> SUFFICES ASSUME Stateful PROVE FrameInv'
      BY <1>14 DEF Put
    <2>1. /\ sopProcessed' = sopProcessed /\ sopProcessed
          /\ device' # {}
      BY <1>14 DEF Put
    <2>2. \A u \in Callers : pc[u] = "put" => u = t
      BY <1>14 DEF Put
    <2>3. pc'[t] # "put" /\ \A u \in Callers : u # t => pc'[u] = pc[u]
      BY <1>14 DEF Put, Return
    <2> QED
      BY <2>1, <2>2, <2>3
  <1>15. ASSUME NEW t \in Callers, PutRetry(t) PROVE FrameInv'
    BY <1>15 DEF PutRetry, Goto
  <1>16. ASSUME NEW t \in Callers, Undo(t) PROVE FrameInv'
    BY <1>16 DEF Undo, Leave, Goto, Return
  <1>17. ASSUME NEW t \in Callers, WaitDone(t) PROVE FrameInv'
    BY <1>17 DEF WaitDone, Goto
  <1>18. ASSUME NEW t \in Callers, WaitTimeout(t) PROVE FrameInv'
    BY <1>18 DEF WaitTimeout, Goto
  <1>19. ASSUME NEW t \in Callers, DestroySyncCookie(t) PROVE FrameInv'
    BY <1>19 DEF DestroySyncCookie, Return
  <1>20. CASE Answer
    BY <1>20 DEF Answer
  <1>21. CASE CallbackDec
    BY <1>21 DEF CallbackDec
  <1>22. CASE CallbackFree
    BY <1>22 DEF CallbackFree
  <1>23. CASE CallbackCall
    BY <1>23 DEF CallbackCall
  <1>24. CASE CallbackPost
    BY <1>24 DEF CallbackPost
  <1>25. CASE ResetSession
    BY <1>25 DEF ResetSession, Quiet
  <1>26. CASE RemoveSession
    BY <1>26 DEF RemoveSession, Quiet
  <1>27. CASE InitSession
    BY <1>27 DEF InitSession
  <1>28. CASE UNCHANGED vars
    BY <1>28 DEF vars
  <1> HIDE DEF IInv, TypeInv, PlaceInv, CountInv, CookieInv, RestInv,
          FrameInv, Holding, Freeing, OneInFlight, Admitted, Outstanding,
          Answering, Stateful, NoCall, Requests, CallRecords, setupVars,
          typeVars, reqVars, devVars, syncVars, pollVars
  <1> QED
    BY <1>1, <1>2, <1>3, <1>4, <1>5, <1>6, <1>7, <1>8, <1>9, <1>10, <1>11,
       <1>12, <1>13, <1>14, <1>15, <1>16, <1>17, <1>18, <1>19, <1>20, <1>21,
       <1>22, <1>23, <1>24, <1>25, <1>26, <1>27, <1>28
       DEF Next, Caller, Poller

LEMMA IInvInit == Init => IInv
  <1> SUFFICES ASSUME Init PROVE IInv
    OBVIOUS
  <1> USE NullAssumption, KindsAssumption DEF Init, Stateful
  <1>1. TypeInv
    <2>1. alive \in BOOLEAN /\ sopProcessed \in BOOLEAN /\ open \in BOOLEAN
      OBVIOUS
    <2> QED
      BY <2>1, RecordTypes DEF TypeInv, pcStates
  <1>2. PlaceInv /\ LockInv /\ RestInv
    BY DEF PlaceInv, LockInv, Locking, RestInv
  <1>3. CountInv
    BY DEF CountInv, OneInFlight, Admitted, Outstanding, Answering
  <1>4. CookieInv
    BY DEF CookieInv, Holding, Freeing
  <1>5. SyncInv
    BY DEF SyncInv, Tagged, Unsent, Owed
  <1>6. FrameInv
    BY DEF FrameInv
  <1> QED
    BY <1>1, <1>2, <1>3, <1>4, <1>5, <1>6 DEF IInv

\* The invariant every theorem below follows from.
THEOREM Invariance == Spec => []IInv
  <1>1. IInv /\ [Next]_vars => IInv'
    BY TypeInvStep, PlaceInvStep, LockInvStep, CountInvStep, RestInvStep,
       CookieInvStep, SyncInvStep, FrameInvStep DEF IInv
  <1> QED
    BY <1>1, IInvInit, PTL DEF Spec

\* Every variable keeps its type; above all, pendingStatefulCbCount is zero or
\* one whatever is refused, fails or is answered.
THEOREM TypeCorrect == Spec => []TypeOK
  <1>1. IInv => TypeOK
    BY DEF IInv, TypeInv, CookieInv, SyncInv, TypeOK
  <1> QED
    BY <1>1, Invariance, PTL

\* However many threads submit, a stateful session has one request at most
\* between the increment of its count and the decrement in the callback.
THEOREM AloneInFlight == Spec => []OneInFlight
  <1>1. IInv => OneInFlight
    BY DEF IInv, CountInv, OneInFlight
  <1> QED
    BY <1>1, Invariance, PTL

\* cpaDcRemoveSession of a stateful session succeeds when no request is
\* outstanding only.  A stateless one needs dcCreateRequest not to fail.
THEOREM RemovedIdle == Spec => [](Stateful => RemovedMeansIdle)
  <1>1. IInv => (Stateful => RemovedMeansIdle)
    BY DEF IInv, RestInv, RemovedMeansIdle
  <1> QED
    BY <1>1, Invariance, PTL

\* A callback that comes after its caller's wait has timed out finds its
\* synchronous cookie allocated.
THEOREM LateCallbackSafe == Spec => []SyncCookieOutlives
  <1>1. IInv => SyncCookieOutlives
    BY NullAssumption
       DEF IInv, TypeInv, CookieInv, SyncInv, Owed, Requests,
           SyncCookieOutlives
  <1> QED
    BY <1>1, Invariance, PTL

\* Whatever the ring refuses and however streams end, the device gets the
\* start of a stream exactly when it is not in the middle of one.
THEOREM FramingHolds == Spec => Framing
  <1> DEFINE Framed ==
        \A c \in device' \ device : Stateful => (req[c].sop <=> ~open)
  <1>1. IInv /\ [Next]_vars => [Framed]_vars
    <2> SUFFICES ASSUME IInv, [Next]_vars PROVE [Framed]_vars
      OBVIOUS
    <2>1. ASSUME NEW t \in Callers, Put(t) PROVE Framed
      BY <2>1 DEF Put, IInv, FrameInv
    <2>2. (\A t \in Callers : ~Put(t)) => device' \subseteq device
      BY DEF Next, Caller, Poller, vars, devVars, Begin, Lock, Release, Pass,
             Admit, Unlock, CreateSyncCookie, CreateSyncCookieFails,
             AllocCookie, AllocFails, CreateRequest, CreateRequestFails,
             Count, PutRetry, Undo, WaitDone, WaitTimeout, DestroySyncCookie,
             Answer, CallbackDec, CallbackFree, CallbackCall, CallbackPost,
             ResetSession, RemoveSession, InitSession
    <2> QED
      BY <2>1, <2>2
  <1> QED
    BY <1>1, Invariance, PTL DEF Spec, Framing
=============================================================================

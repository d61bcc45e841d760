------------------------------ MODULE DcSample ------------------------------
(***************************************************************************)
(* The compression benchmark: main, one worker thread per instance         *)
(* (enqueueQATWork), one polling thread per instance (sal_dc_polling), and *)
(* the compression service they call.                                      *)
(*                                                                         *)
(* The service is kept to what the application can tell: a submission is   *)
(* refused or accepted, an accepted request is answered once, in any order *)
(* (what TransportRing is shown to promise), and its callback runs in a    *)
(* thread that polls the instance.  No action of a thread happens once     *)
(* main has returned: the process is gone.                                 *)
(***************************************************************************)
EXTENDS Integers, FiniteSets

CONSTANTS
    NumInstances,   \* instances discovered, at most MAX_INSTANCES
    Faulty,         \* workers whose calls and allocations may fail
    Refusable,      \* their submissions, out of 1..3, that may be refused
    PollerMayFail,  \* their instance may get no polling thread
    Interruptible,  \* their sem_wait may return EINTR
    MainMayFail,    \* main's own calls may fail, pthread_create excepted
    CreateMayFail   \* pthread_create of a worker may fail

Workers == 1..NumInstances
Requests == 1..3

ASSUME InstancesAssumption == NumInstances \in Nat \ {0}

ASSUME FailuresAssumption ==
    /\ Faulty \subseteq Workers
    /\ Refusable \subseteq Requests
    /\ {PollerMayFail, Interruptible, MainMayFail, CreateMayFail}
          \subseteq BOOLEAN

VARIABLES
    mpc, mi,      \* main: where it is, its loop index
    gPollingDc,   \* the flag that keeps every polling thread in its loop
    usage,        \* usageCounter of the device
    started,      \* isInstanceStarted of each instance
    wpc, k,       \* worker: where it is, the request it is at
    status,       \* worker: CpaStatus is SUCCESS
    removed,      \* worker: what cpaDcRemoveSession returned
    owned,        \* worker: memory of the application not yet given back
    sem,          \* worker: the semaphores complete1, complete2, complete3
    ppc, cur,     \* polling thread: where it is, the request it calls back
    inflight,     \* service: requests accepted and not taken off the ring
    answered,     \* service: those of them whose response is on the ring
    pending,      \* session: pendingStatelessCbCount
    calledBack    \* history: requests whose callback has run

mainVars    == <<mpc, mi>>
workerVars  == <<wpc, k, status, removed, owned>>
serviceVars == <<inflight, answered, pending>>
pollVars    == <<ppc, cur, calledBack>>
vars == <<mainVars, gPollingDc, usage, started, workerVars, sem,
          serviceVars, pollVars>>

Init ==
    /\ mpc = "start" /\ mi = 1
    /\ gPollingDc = 0
    /\ usage = 0
    /\ started = [w \in Workers |-> FALSE]
    /\ wpc = [w \in Workers |-> "none"]
    /\ k = [w \in Workers |-> 1]
    /\ status = [w \in Workers |-> TRUE]
    /\ removed = [w \in Workers |-> "none"]
    /\ owned = [w \in Workers |-> {}]
    /\ sem = [w \in Workers |-> [r \in Requests |-> 0]]
    /\ ppc = [w \in Workers |-> "none"]
    /\ cur = [w \in Workers |-> 0]
    /\ inflight = [w \in Workers |-> {}]
    /\ answered = [w \in Workers |-> {}]
    /\ pending = [w \in Workers |-> 0]
    /\ calledBack = [w \in Workers |-> {}]

-----------------------------------------------------------------------------
(* main and dcStatelessSample.                                             *)

\* What main's steps leave alone, the loop index and its place excepted.
MainKeeps == UNCHANGED <<gPollingDc, usage, started, workerVars, sem,
                         serviceVars, pollVars>>

\* qaeMemInit, icp_sal_userStartMultiProcess; a failure ends the program.
StartProcess ==
    /\ mpc = "start"
    /\ \/ mpc' = "discover"
       \/ MainMayFail /\ mpc' = "exited"
    /\ mi' = mi
    /\ MainKeeps

\* cpaDcGetInstances, cpaDcInstanceGetInfo2, the data and trace files; a
\* failure returns from dcStatelessSample.
Discover ==
    /\ mpc = "discover"
    /\ \/ mpc' = "create"
       \/ MainMayFail /\ mpc' = "userStop"
    /\ mi' = mi
    /\ MainKeeps

\* pthread_create of worker mi.  A failure returns from dcStatelessSample
\* and joins nobody.
CreateWorker ==
    /\ mpc = "create"
    /\ \/ /\ wpc' = [wpc EXCEPT ![mi] = "capabilities"]
          /\ IF mi = NumInstances
             THEN mpc' = "join" /\ mi' = 1
             ELSE mpc' = mpc /\ mi' = mi + 1
       \/ /\ CreateMayFail
          /\ mpc' = "userStop"
          /\ UNCHANGED <<mi, wpc>>
    /\ UNCHANGED <<gPollingDc, usage, started, k, status, removed, owned, sem,
                   serviceVars, pollVars>>

\* Wrong variant of JoinWorker: only the last worker is waited for.
JoinLastWorker ==
    /\ mpc = "join"
    /\ wpc[NumInstances] = "ended"
    /\ mpc' = "stopPolling" /\ mi' = 1
    /\ MainKeeps

\* pthread_join of worker mi.
JoinWorker ==
    /\ mpc = "join"
    /\ wpc[mi] = "ended"
    /\ IF mi = NumInstances
       THEN mpc' = "stopPolling" /\ mi' = 1
       ELSE mpc' = mpc /\ mi' = mi + 1
    /\ MainKeeps

\* sampleDcStopPolling: clear the flag and sleep.  The sleep orders nothing.
StopPolling ==
    /\ mpc = "stopPolling"
    /\ gPollingDc' = 0
    /\ mpc' = "stopInstances"
    /\ UNCHANGED <<mi, usage, started, workerVars, sem, serviceVars, pollVars>>

\* cpaDcStopInstance of instance mi, started or not; a failure returns from
\* dcStatelessSample.
StopInstance ==
    /\ mpc = "stopInstances"
    /\ \/ /\ started' = [started EXCEPT ![mi] = FALSE]
          /\ usage' = usage - 1
          /\ IF mi = NumInstances
             THEN mpc' = "userStop" /\ mi' = mi
             ELSE mpc' = mpc /\ mi' = mi + 1
       \/ /\ MainMayFail
          /\ mpc' = "userStop"
          /\ UNCHANGED <<mi, started, usage>>
    /\ UNCHANGED <<gPollingDc, workerVars, sem, serviceVars, pollVars>>

\* icp_sal_userStop, qaeMemDestroy and the return of main, in one step: what
\* a thread may be doing when they begin is what the properties look at.
Exit ==
    /\ mpc = "userStop"
    /\ mpc' = "exited"
    /\ mi' = mi
    /\ MainKeeps

Main ==
    \/ StartProcess
    \/ Discover
    \/ CreateWorker
    \/ JoinWorker
    \/ StopPolling
    \/ StopInstance
    \/ Exit

-----------------------------------------------------------------------------
(* A worker: enqueueQATWork and the compPerformOp it calls.                *)

Alive == mpc # "exited"

\* What the worker's steps before its first submission leave alone.
WorkerKeeps == UNCHANGED <<mainVars, gPollingDc, sem, serviceVars, calledBack,
                           cur>>

\* cpaDcQueryCapabilities; a failure ends the thread at once.
QueryCapabilities(w) ==
    /\ Alive /\ wpc[w] = "capabilities"
    /\ \/ wpc' = [wpc EXCEPT ![w] = "prepare"]
       \/ w \in Faulty /\ wpc' = [wpc EXCEPT ![w] = "ended"]
    /\ WorkerKeeps
    /\ UNCHANGED <<usage, started, k, status, removed, owned, ppc>>

\* The intermediate buffers, cpaDcSetAddressTranslation, cpaDcStartInstance.
\* A failure goes to the final clean-up with what was allocated.
StartInstance(w) ==
    /\ Alive /\ wpc[w] = "prepare"
    /\ \/ /\ owned' = [owned EXCEPT ![w] = {"intermediate"}]
          /\ started' = [started EXCEPT ![w] = TRUE]
          /\ usage' = usage + 1
          /\ wpc' = [wpc EXCEPT ![w] = "startPolling"]
          /\ status' = status
       \/ /\ w \in Faulty
          /\ \E got \in SUBSET {"intermediate"} :
                owned' = [owned EXCEPT ![w] = got]
          /\ status' = [status EXCEPT ![w] = FALSE]
          /\ wpc' = [wpc EXCEPT ![w] = "cleanup"]
          /\ UNCHANGED <<started, usage>>
    /\ WorkerKeeps
    /\ UNCHANGED <<k, removed, ppc>>

\* sampleDcStartPolling: a detached thread.  There is none if
\* cpaDcInstanceGetInfo2 or sampleThreadCreate fails, and nobody is told: the
\* worker goes on.
StartPolling(w) ==
    /\ Alive /\ wpc[w] = "startPolling"
    /\ \/ ppc' = [ppc EXCEPT ![w] = "created"]
       \/ w \in Faulty /\ PollerMayFail /\ ppc' = ppc
    /\ wpc' = [wpc EXCEPT ![w] = "openSession"]
    /\ WorkerKeeps
    /\ UNCHANGED <<usage, started, k, status, removed, owned>>

\* cpaDcGetSessionSize, the session memory, cpaDcInitSession.
OpenSession(w) ==
    /\ Alive /\ wpc[w] = "openSession"
    /\ \/ /\ owned' = [owned EXCEPT ![w] = @ \cup {"session"}]
          /\ pending' = [pending EXCEPT ![w] = 0]
          /\ wpc' = [wpc EXCEPT ![w] = "allocate"]
          /\ status' = status
       \/ /\ w \in Faulty
          /\ \E got \in SUBSET {"session"} :
                owned' = [owned EXCEPT ![w] = @ \cup got]
          /\ status' = [status EXCEPT ![w] = FALSE]
          /\ wpc' = [wpc EXCEPT ![w] = "cleanup"]
          /\ pending' = pending
    /\ UNCHANGED <<mainVars, gPollingDc, usage, started, k, removed, sem,
                   inflight, answered, pollVars>>

\* compPerformOp up to COMPLETION_INIT.  A failure of the first calls returns
\* at once, one of an allocation goes to the frees.
Allocate(w) ==
    /\ Alive /\ wpc[w] = "allocate"
    /\ \/ /\ owned' = [owned EXCEPT ![w] = @ \cup {"buffers", "completions"}]
          /\ wpc' = [wpc EXCEPT ![w] = "submit"]
          /\ status' = status
       \/ /\ w \in Faulty
          /\ \E got \in SUBSET {"buffers"}, next \in {"free", "remove"} :
                /\ next = "remove" => got = {}
                /\ owned' = [owned EXCEPT ![w] = @ \cup got]
                /\ wpc' = [wpc EXCEPT ![w] = next]
          /\ status' = [status EXCEPT ![w] = FALSE]
    /\ WorkerKeeps
    /\ UNCHANGED <<usage, started, k, removed, ppc>>

\* One of the three calls of cpaDcCompressData2.  Each overwrites status.
Submit(w) ==
    /\ Alive /\ wpc[w] = "submit"
    /\ \/ /\ inflight' = [inflight EXCEPT ![w] = @ \cup {k[w]}]
          /\ pending' = [pending EXCEPT ![w] = @ + 1]
          /\ status' = [status EXCEPT ![w] = TRUE]
       \/ /\ w \in Faulty /\ k[w] \in Refusable
          /\ status' = [status EXCEPT ![w] = FALSE]
          /\ UNCHANGED <<inflight, pending>>
    /\ IF k[w] = 3
       THEN wpc' = [wpc EXCEPT ![w] = "wait"] /\ k' = [k EXCEPT ![w] = 1]
       ELSE wpc' = wpc /\ k' = [k EXCEPT ![w] = @ + 1]
    /\ UNCHANGED <<mainVars, gPollingDc, usage, started, removed, owned, sem,
                   answered, pollVars>>

\* Wrong variant of Wait: the last completion is the only one waited for.
WaitLast(w) ==
    /\ Alive /\ wpc[w] = "wait"
    /\ IF status[w]
       THEN /\ sem[w][3] > 0
            /\ sem' = [sem EXCEPT ![w][3] = @ - 1]
       ELSE sem' = sem
    /\ wpc' = [wpc EXCEPT ![w] = "free"]
    /\ UNCHANGED <<mainVars, gPollingDc, usage, started, k, status, removed,
                   owned, serviceVars, pollVars>>

\* COMPLETION_WAIT of the completions in turn, as long as status is SUCCESS:
\* sem_wait, which knows no timeout.
Wait(w) ==
    /\ Alive /\ wpc[w] = "wait"
    /\ \/ /\ status[w]
          /\ sem[w][k[w]] > 0
          /\ sem' = [sem EXCEPT ![w][k[w]] = @ - 1]
          /\ IF k[w] = 3
             THEN wpc' = [wpc EXCEPT ![w] = "free"] /\ k' = k
             ELSE wpc' = wpc /\ k' = [k EXCEPT ![w] = @ + 1]
          /\ status' = status
       \/ /\ status[w] /\ w \in Faulty /\ Interruptible
          /\ status' = [status EXCEPT ![w] = FALSE]
          /\ UNCHANGED <<wpc, k, sem>>
       \/ /\ ~status[w]
          /\ wpc' = [wpc EXCEPT ![w] = "free"]
          /\ UNCHANGED <<k, status, sem>>
    /\ UNCHANGED <<mainVars, gPollingDc, usage, started, removed, owned,
                   serviceVars, pollVars>>

\* The end of compPerformOp: look at the results, which may tell of an error,
\* free the buffers, destroy the completions.
Free(w) ==
    /\ Alive /\ wpc[w] = "free"
    /\ \/ status' = status
       \/ w \in Faulty /\ status' = [status EXCEPT ![w] = FALSE]
    /\ owned' = [owned EXCEPT ![w] = @ \ {"buffers", "completions"}]
    /\ wpc' = [wpc EXCEPT ![w] = "remove"]
    /\ WorkerKeeps
    /\ UNCHANGED <<usage, started, k, removed, ppc>>

\* cpaDcRemoveSession of a stateless session.
Remove(w) ==
    /\ Alive /\ wpc[w] = "remove"
    /\ LET ret == IF pending[w] = 0 THEN "success" ELSE "retry"
       IN /\ removed' = [removed EXCEPT ![w] = ret]
          /\ status' = [status EXCEPT ![w] = @ /\ ret = "success"]
    /\ wpc' = [wpc EXCEPT ![w] = "cleanup"]
    /\ WorkerKeeps
    /\ UNCHANGED <<usage, started, k, owned, ppc>>

\* The end of enqueueQATWork: query the statistics, which may fail, and free
\* the session and the intermediate buffers, whatever happened before.
Cleanup(w) ==
    /\ Alive /\ wpc[w] = "cleanup"
    /\ \/ status' = status
       \/ w \in Faulty /\ status' = [status EXCEPT ![w] = FALSE]
    /\ owned' = [owned EXCEPT ![w] = {}]
    /\ wpc' = [wpc EXCEPT ![w] = "ended"]
    /\ WorkerKeeps
    /\ UNCHANGED <<usage, started, k, removed, ppc>>

Worker(w) ==
    \/ QueryCapabilities(w)
    \/ StartInstance(w)
    \/ StartPolling(w)
    \/ OpenSession(w)
    \/ Allocate(w)
    \/ Submit(w)
    \/ Wait(w)
    \/ Free(w)
    \/ Remove(w)
    \/ Cleanup(w)

-----------------------------------------------------------------------------
(* The device (external) and a polling thread: sal_dc_polling, and what    *)
(* dcCompression_ProcessCallback does with each response.                  *)

\* The device finishes a request; until then it reads and writes the buffers.
Answer(w) ==
    /\ Alive
    /\ \E r \in inflight[w] \ answered[w] :
          answered' = [answered EXCEPT ![w] = @ \cup {r}]
    /\ UNCHANGED <<mainVars, gPollingDc, usage, started, workerVars, sem,
                   inflight, pending, pollVars>>

\* What a polling thread's steps leave alone.
PollKeeps == UNCHANGED <<mainVars, usage, started, workerVars>>

\* Wrong variant of PollerStart: the flag is left to somebody else.
PollerStartSilent(w) ==
    /\ Alive /\ ppc[w] = "created"
    /\ ppc' = [ppc EXCEPT ![w] = "test"]
    /\ PollKeeps
    /\ UNCHANGED <<gPollingDc, sem, serviceVars, cur, calledBack>>

\* The thread begins by setting the flag itself.
PollerStart(w) ==
    /\ Alive /\ ppc[w] = "created"
    /\ gPollingDc' = 1
    /\ ppc' = [ppc EXCEPT ![w] = "test"]
    /\ PollKeeps
    /\ UNCHANGED <<sem, serviceVars, cur, calledBack>>

\* while (gPollingDc)
PollerTest(w) ==
    /\ Alive /\ ppc[w] = "test"
    /\ ppc' = [ppc EXCEPT ![w] = IF gPollingDc = 1 THEN "poll" ELSE "exited"]
    /\ PollKeeps
    /\ UNCHANGED <<gPollingDc, sem, serviceVars, cur, calledBack>>

\* Wrong variants of Deliver: the new pending count and, of the response,
\* what is left on the ring.
DeliverVariant(w, count, left(_)) ==
    /\ Alive /\ ppc[w] = "poll"
    /\ \E r \in answered[w] :
          /\ pending' = [pending EXCEPT ![w] = count]
          /\ inflight' = [inflight EXCEPT ![w] = @ \ {r}]
          /\ answered' = [answered EXCEPT ![w] = left(r)]
          /\ cur' = [cur EXCEPT ![w] = r]
    /\ ppc' = [ppc EXCEPT ![w] = "callback"]
    /\ PollKeeps
    /\ UNCHANGED <<gPollingDc, sem, calledBack>>

\* The pending count is not decremented.
DeliverUncounted(w) ==
    DeliverVariant(w, pending[w], LAMBDA r : answered[w] \ {r})

\* The pending count is cleared and not decremented.
DeliverCleared(w) ==
    DeliverVariant(w, 0, LAMBDA r : answered[w] \ {r})

\* The response stays on the ring.
DeliverStale(w) ==
    DeliverVariant(w, pending[w] - 1, LAMBDA r : answered[w])

\* Take a response off the ring: fill in the results, decrement the pending
\* count of the session, free the cookie.
Deliver(w) ==
    /\ Alive /\ ppc[w] = "poll"
    /\ \E r \in answered[w] :
          /\ pending' = [pending EXCEPT ![w] = @ - 1]
          /\ inflight' = [inflight EXCEPT ![w] = @ \ {r}]
          /\ answered' = [answered EXCEPT ![w] = @ \ {r}]
          /\ cur' = [cur EXCEPT ![w] = r]
    /\ ppc' = [ppc EXCEPT ![w] = "callback"]
    /\ PollKeeps
    /\ UNCHANGED <<gPollingDc, sem, calledBack>>

\* dcCallback: sem_post of the completion of the request.
Callback(w) ==
    /\ Alive /\ ppc[w] = "callback"
    /\ sem' = [sem EXCEPT ![w][cur[w]] = @ + 1]
    /\ calledBack' = [calledBack EXCEPT ![w] = @ \cup {cur[w]}]
    /\ cur' = [cur EXCEPT ![w] = 0]
    /\ ppc' = [ppc EXCEPT ![w] = "poll"]
    /\ PollKeeps
    /\ UNCHANGED <<gPollingDc, serviceVars>>

\* The ring is empty: icp_sal_DcPollInstance returns, the thread sleeps.
PollerSleep(w) ==
    /\ Alive /\ ppc[w] = "poll"
    /\ answered[w] = {}
    /\ ppc' = [ppc EXCEPT ![w] = "test"]
    /\ PollKeeps
    /\ UNCHANGED <<gPollingDc, sem, serviceVars, cur, calledBack>>

Poller(w) ==
    \/ PollerStart(w)
    \/ PollerTest(w)
    \/ Deliver(w)
    \/ Callback(w)
    \/ PollerSleep(w)

\* The process is gone.
Exited == ~Alive /\ UNCHANGED vars

Next ==
    \/ Main
    \/ \E w \in Workers : Worker(w) \/ Answer(w) \/ Poller(w)
    \/ Exited

Spec == Init /\ [][Next]_vars

\* The step of a worker whose sem_wait returned EINTR.
Interrupted(w) == wpc[w] = "wait" /\ status[w] /\ ~status'[w]

\* Threads are scheduled, and the device answers what it accepted; no signal
\* need come that interrupts a wait.
Fairness ==
    /\ WF_vars(Main)
    /\ \A w \in Workers :
          /\ WF_vars(Worker(w) /\ ~Interrupted(w))
          /\ WF_vars(Answer(w))
          /\ WF_vars(Poller(w))

FairSpec == Spec /\ Fairness

-----------------------------------------------------------------------------
(* Properties.                                                             *)

\* Every variable keeps its type; a semaphore is posted at most once.
TypeOK ==
    /\ mpc \in {"start", "discover", "create", "join", "stopPolling",
                "stopInstances", "userStop", "exited"}
    /\ mi \in Workers
    /\ gPollingDc \in {0, 1}
    /\ usage \in Int
    /\ started \in [Workers -> BOOLEAN]
    /\ wpc \in [Workers -> {"none", "capabilities", "prepare", "startPolling",
                            "openSession", "allocate", "submit", "wait",
                            "free", "remove", "cleanup", "ended"}]
    /\ k \in [Workers -> Requests]
    /\ status \in [Workers -> BOOLEAN]
    /\ removed \in [Workers -> {"none", "success", "retry"}]
    /\ owned \in [Workers -> SUBSET {"intermediate", "session", "buffers",
                                     "completions"}]
    /\ sem \in [Workers -> [Requests -> {0, 1}]]
    /\ ppc \in [Workers -> {"none", "created", "test", "poll", "callback",
                            "exited"}]
    /\ cur \in [Workers -> 0..3]
    /\ inflight \in [Workers -> SUBSET Requests]
    /\ answered \in [Workers -> SUBSET Requests]
    /\ pending \in [Workers -> 0..3]
    /\ calledBack \in [Workers -> SUBSET Requests]

\* Requests of w whose callback has not returned: accepted, or taken off the
\* ring and about to be called back.
Outstanding(w) ==
    inflight[w] \cup (IF cur[w] = 0 THEN {} ELSE {cur[w]})

\* The memory a request uses outlives the request: until its callback has
\* run, the buffers the device works on, the session, the results and the
\* completion on the worker's stack are all there ("At this stage, the
\* callback function has returned").
MemoryOutlivesRequests ==
    \A w \in Workers : Alive /\ Outstanding(w) # {} =>
        {"session", "buffers", "completions", "intermediate"} \subseteq owned[w]

\* compPerformOp waits for its callbacks, and the service releases the
\* session before it calls back: cpaDcRemoveSession is never told to retry,
\* whose answer the worker would ignore.
RemoveNeverRetries == \A w \in Workers : removed[w] # "retry"

\* Workers live on the arguments, the data and the instance handles in
\* dcStatelessSample's frame: none runs once that function tears down.
FrameOutlivesWorkers ==
    mpc \in {"stopPolling", "stopInstances", "userStop"} =>
        \A w \in Workers : wpc[w] \in {"none", "ended"}

\* The usage counter of the device counts the started instances: every
\* instance main stops was started by its worker, and only once.
UsageCounts ==
    usage = Cardinality({w \in Workers : started[w]})

\* A worker that ends with status SUCCESS had all three requests called back
\* and its session removed, whatever failed on the way and however often the
\* submissions overwrote status.
SuccessMeansDone ==
    \A w \in Workers :
        wpc[w] \in {"cleanup", "ended"} /\ removed[w] # "none" /\ status[w]
            => /\ calledBack[w] = Requests
               /\ removed[w] = "success"
               /\ Outstanding(w) = {}

\* Once cpaDcRemoveSession returned SUCCESS the service never takes another
\* response of that session off the ring.
RemovedIsFinal ==
    [][\A w \in Workers : removed[w] = "success" => inflight[w]' = {}]_vars

\* A worker that waits for a callback which cannot come: nobody polls its
\* instance, or the request was refused and a later one was not.
Forsaken(w) ==
    /\ wpc[w] = "wait" /\ status[w]
    /\ \/ ppc[w] = "none"
       \/ k[w] \notin calledBack[w] \cup Outstanding(w)

\* The program ends, whatever fails on the way, unless a worker is forsaken:
\* nothing else holds up a worker in sem_wait or main in pthread_join, such as
\* polling threads that raise and clear one flag, interrupted waits and
\* broken-off clean-ups (dc_qat_funcs.c:264-290, 684-724).
Finishes ==
    \/ <>(mpc = "exited")
    \/ \E w \in Workers : <>[]Forsaken(w)
=============================================================================

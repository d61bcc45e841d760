----------------------------- MODULE DcRecovery -----------------------------
(***************************************************************************)
(* A compression instance through the failure and the restart of its       *)
(* device: the events of the kernel, the queue that retries them, and the  *)
(* dummy responses that answer what the device will never answer.          *)
(*                                                                         *)
(* The instance is polled and carries one stateless asynchronous session;  *)
(* the memory pool's allocation and free are atomic here, as module        *)
(* LacMemPool justifies.  Instances are polled for events often enough for *)
(* no event to wait ADF_DEV_EVENT_TIMEOUT seconds, and for the kernel not  *)
(* to give up waiting for the process (ADF_RESTARTING_RETRY).  Memory for  *)
(* event nodes and buckets does not run out, and a restart that began      *)
(* succeeds.  sync below zero, which polls in error go on decrementing,    *)
(* behaves like zero until 2^64 of them.                                   *)
(***************************************************************************)
EXTENDS Integers, FiniteSets, SequencesExt

CONSTANTS
    Threads,     \* the application's threads
    Setups,      \* which of them do what, and how devices fail: records
                 \*   callers   threads that submit
                 \*   pollers   threads that poll the instance
                 \*   watchers  threads that poll the devices for events
                 \*   failed    what a device that failed may be, "up" or "down"
    NumMsgs,     \* numCompConcurrentReq
    MaxRequests, \* bound of the model: calls that submit
    MaxFails     \* bound of the model: failures of the device

ASSUME BoundsAssumption ==
    /\ NumMsgs \in Nat \ {0, 1}
    /\ MaxRequests \in Nat
    /\ MaxFails \in Nat

VARIABLES
    setup,     \* one of Setups, for good
    state,     \* generic_service_info.state
    active, sync,        \* of the memory pool
    pool,      \* stack of the blocks not in use
    opaque,    \* block: the sequence number its request was sent with
    request,   \* block: the request its cookie describes
    pending,   \* pendingStatelessCbCount
    inFlight, sendSeq,   \* of the ring pair
    hw,        \* blocks whose requests the device has
    resp,      \* blocks whose responses are on the response ring
    device, kernel,      \* the device is "up" or "down"; where its driver is
    pipe,      \* events the kernel has sent
    queue,     \* adf_event_queue
    busy,      \* lac_sw_resp_num_pools_busy
    pc, call, event, todo, \* thread: where it is, its request, event, dummies
    calls, fails,
    accepted,  \* history: requests the ring took
    answers    \* history: callbacks of each request

poolVars   == <<active, sync, pool>>
cookieVars == <<opaque, request, pending>>
ringVars   == <<inFlight, sendSeq, hw, resp>>
kernelVars == <<device, kernel, pipe, fails>>
eventVars  == <<queue, busy, event>>
workVars   == <<call, todo>>
histVars   == <<calls, accepted, answers>>
vars == <<setup, state, poolVars, cookieVars, ringVars, kernelVars, eventVars, pc,
          workVars, histVars>>

Blocks == 1 .. NumMsgs + 1
Requests == 1 .. MaxRequests
Invalid == -1          \* ICP_ADF_INVALID_SEND_SEQ
Used == Blocks \ ToSet(pool)
Whole == Used = {}     \* availBlks = numElementsInPool

NoCall == [id |-> 0, block |-> 0, seq |-> Invalid]
NoEvent == [kind |-> "none", queued |-> FALSE]

Init ==
    /\ setup \in Setups
    /\ state = "running"
    /\ active = TRUE
    /\ sync = 1
    /\ pool = [i \in Blocks |-> i]
    /\ opaque = [b \in Blocks |-> Invalid]
    /\ request = [b \in Blocks |-> 0]
    /\ pending = 0
    /\ inFlight = 0
    /\ sendSeq = 0
    /\ hw = <<>>
    /\ resp = <<>>
    /\ device = "up"
    /\ kernel = "ok"
    /\ pipe = <<>>
    /\ queue = <<>>
    /\ busy = 0
    /\ pc = [t \in Threads |-> "idle"]
    /\ call = [t \in Threads |-> NoCall]
    /\ event = [t \in Threads |-> NoEvent]
    /\ todo = [t \in Threads |-> <<>>]
    /\ calls = 0
    /\ fails = 0
    /\ accepted = {}
    /\ answers = [r \in Requests |-> 0]

Goto(t, l) == pc' = [pc EXCEPT ![t] = l]
At(t, l) == pc[t] = l

-----------------------------------------------------------------------------
(* cpaDcCompressData2 on the stateless session.                            *)

\* SAL_RUNNING_CHECK lets the call in.
Submit(t) ==
    /\ At(t, "idle")
    /\ state = "running"
    /\ calls < MaxRequests
    /\ calls' = calls + 1
    /\ call' = [call EXCEPT ![t] = [NoCall EXCEPT !.id = calls']]
    /\ Goto(t, "alloc")
    /\ UNCHANGED <<setup, state, poolVars, cookieVars, ringVars, kernelVars,
                   eventVars, todo, accepted, answers>>

\* Lac_MemPoolEntryAlloc looks at active ...
TestActive(t) ==
    /\ At(t, "alloc")
    /\ IF active THEN Goto(t, "pop") ELSE Goto(t, "idle")
    /\ UNCHANGED <<setup, state, poolVars, cookieVars, ringVars, kernelVars,
                   eventVars, workVars, histVars>>

\* ... and pops a block, which dcCreateRequest fills; the request counts.
Pop(t) ==
    /\ At(t, "pop")
    /\ pool # <<>>
    /\ pool' = Tail(pool)
    /\ call' = [call EXCEPT ![t].block = Head(pool)]
    /\ request' = [request EXCEPT ![Head(pool)] = call[t].id]
    /\ pending' = pending + 1
    /\ Goto(t, "put")
    /\ UNCHANGED <<setup, state, active, sync, opaque, ringVars, kernelVars,
                   eventVars, todo, histVars>>

\* Wrong variant of Put: the in-flight counter is not raised.
PutUncounted(t) ==
    /\ At(t, "put")
    /\ sendSeq' = sendSeq + 1
    /\ hw' = Append(hw, call[t].block)
    /\ call' = [call EXCEPT ![t].seq = sendSeq]
    /\ accepted' = accepted \cup {call[t].id}
    /\ Goto(t, "opaque")
    /\ UNCHANGED <<setup, state, poolVars, cookieVars, inFlight, resp,
                   kernelVars, eventVars, todo, calls, answers>>

\* The ring takes the request, or is full.
Put(t) ==
    /\ At(t, "put")
    /\ IF inFlight < NumMsgs - 1
       THEN /\ inFlight' = inFlight + 1
            /\ sendSeq' = sendSeq + 1
            /\ hw' = Append(hw, call[t].block)
            /\ call' = [call EXCEPT ![t].seq = sendSeq]
            /\ accepted' = accepted \cup {call[t].id}
       ELSE UNCHANGED <<inFlight, sendSeq, hw, call, accepted>>
    /\ Goto(t, "opaque")
    /\ UNCHANGED <<setup, state, poolVars, cookieVars, resp, kernelVars,
                   eventVars, todo, calls, answers>>

\* LAC_MEM_POOL_BLK_SET_OPAQUE, with the number even of a request refused.
SetOpaque(t) ==
    /\ At(t, "opaque")
    /\ opaque' = [opaque EXCEPT ![call[t].block] = call[t].seq]
    /\ Goto(t, IF call[t].seq = Invalid THEN "undo" ELSE "idle")
    /\ UNCHANGED <<setup, state, poolVars, request, pending, ringVars,
                   kernelVars, eventVars, workVars, histVars>>

\* The request refused gives its block back.
Undo(t) ==
    /\ At(t, "undo")
    /\ pending' = pending - 1
    /\ pool' = <<call[t].block>> \o pool
    /\ Goto(t, "idle")
    /\ UNCHANGED <<setup, state, active, sync, opaque, request, ringVars,
                   kernelVars, eventVars, workVars, histVars>>

-----------------------------------------------------------------------------
(* icp_sal_DcPollInstance.                                                 *)

\* The request of block b has its callback, and the block is free again.
Complete(b) ==
    /\ pending' = pending - 1
    /\ answers' = [answers EXCEPT ![request[b]] = @ + 1]
    /\ pool' = <<b>> \o pool

\* SAL_RUNNING_CHECK lets the poll in; the instance may leave the state since.
PollEnter(t) ==
    /\ At(t, "idle")
    /\ state = "running"
    /\ Goto(t, "poll")
    /\ UNCHANGED <<setup, state, poolVars, cookieVars, ringVars, kernelVars,
                   eventVars, workVars, histVars>>

\* One response of the ring, when there is one.
Callback(t) ==
    /\ At(t, "poll")
    /\ \A u \in Threads : ~At(u, "mark")   \* pollingInProgress
    /\ IF resp = <<>>
       THEN Goto(t, "idle") /\ UNCHANGED <<pending, answers, pool>>
       ELSE Complete(Head(resp)) /\ Goto(t, "mark")
    /\ UNCHANGED <<setup, state, active, sync, opaque, request, ringVars,
                   kernelVars, eventVars, workVars, calls, accepted>>

Mark(t) ==
    /\ At(t, "mark")
    /\ resp' = Tail(resp)
    /\ inFlight' = inFlight - 1
    /\ Goto(t, "idle")
    /\ UNCHANGED <<setup, state, poolVars, cookieVars, sendSeq, hw,
                   kernelVars, eventVars, workVars, histVars>>

\* Blocks in use whose requests were sent, and those that were not.
InRing == {b \in Used : opaque[b] # Invalid}
NotSent ==
    LET S == Used \ InRing
    IN  CHOOSE s \in [1 .. Cardinality(S) -> S] :
            \A i, j \in DOMAIN s : i < j => s[i] < s[j]

\* The bucket: block b is in slot opaque[b] % numBlksUsed, the last one if
\* several are; the dummies are read from the slot of the lowest number on.
Slot(b) == opaque[b] % Cardinality(Used)
BucketSlot(i) ==
    LET here == {b \in InRing : Slot(b) = i}
    IN  IF here = {} THEN 0 ELSE CHOOSE b \in here : \A c \in here : c <= b
\* Wrong variant of StartIndex: the bucket is read from its first slot.
StartIndexZero == 0

StartIndex ==
    Slot(CHOOSE b \in InRing : \A c \in InRing : opaque[b] <= opaque[c])
Bucket ==
    [i \in 1 .. Cardinality(InRing) |->
        BucketSlot((StartIndex + i - 1) % Cardinality(Used))]

\* An instance in error: LacSwResp_GenResp, once for each enabling.
GenResp(t) ==
    /\ At(t, "idle")
    /\ state = "error"
    /\ ~active
    /\ sync = 1
    /\ sync' = 0
    /\ todo' = [todo EXCEPT ![t] = Bucket]
    /\ pool' = Reverse(NotSent) \o pool
    /\ Goto(t, "dummy")
    /\ UNCHANGED <<setup, state, active, cookieVars, ringVars, kernelVars,
                   eventVars, call, histVars>>

\* dcCompression_SwRespMsgCallback: one dummy, or the end.
Dummy(t) ==
    /\ At(t, "dummy")
    /\ IF todo[t] = <<>>
       THEN /\ Goto(t, "idle")
            /\ UNCHANGED <<pool, pending, answers, todo>>
       ELSE /\ Complete(Head(todo[t]))
            /\ todo' = [todo EXCEPT ![t] = Tail(@)]
            /\ UNCHANGED pc
    /\ UNCHANGED <<setup, state, active, sync, opaque, request, ringVars,
                   kernelVars, eventVars, call, calls, accepted>>

-----------------------------------------------------------------------------
(* The device and the kernel's driver.                                     *)

\* Responses come in the order of the requests; a device that failed may go
\* on answering (a virtual function that is detached).
Answer ==
    /\ device = "up"
    /\ hw # <<>>
    /\ hw' = Tail(hw)
    /\ resp' = Append(resp, Head(hw))
    /\ UNCHANGED <<setup, state, poolVars, cookieVars, inFlight, sendSeq,
                   kernelVars, eventVars, pc, workVars, histVars>>

\* adf_notify_fatal_error, adf_remove
Fail ==
    /\ kernel = "ok"
    /\ fails < MaxFails
    /\ fails' = fails + 1
    /\ kernel' = "failed"
    /\ device' \in setup.failed
    /\ pipe' = Append(pipe, "error")
    /\ UNCHANGED <<setup, state, poolVars, cookieVars, ringVars, eventVars,
                   pc, workVars, histVars>>

\* adf_dev_restarting_notify_sync
NotifyRestarting ==
    /\ kernel = "failed"
    /\ kernel' = "restarting"
    /\ pipe' = Append(pipe, "restarting")
    /\ UNCHANGED <<setup, state, poolVars, cookieVars, ringVars, device,
                   fails, eventVars, pc, workVars, histVars>>

\* The process has let go of the device: the driver resets and starts it.
Reset ==
    /\ kernel = "restarting"
    /\ state = "restarting"
    /\ kernel' = "ok"
    /\ device' = "up"
    /\ hw' = <<>>
    /\ pipe' = Append(pipe, "restarted")
    /\ UNCHANGED <<setup, state, poolVars, cookieVars, inFlight, sendSeq,
                   resp, fails, eventVars, pc, workVars, histVars>>

-----------------------------------------------------------------------------
(* icp_adf_poll_device_events: first the events put off, in their order,   *)
(* then those of the kernel.  The handler of an event starts at its name.  *)

PollEvents(t) ==
    /\ At(t, "idle")
    /\ queue # <<>> \/ pipe # <<>>
    /\ Goto(t, "queue")
    /\ UNCHANGED <<setup, state, poolVars, cookieVars, ringVars, kernelVars,
                   eventVars, workVars, histVars>>

\* adf_poll_enqueued_events
NextQueued(t) ==
    /\ At(t, "queue")
    /\ IF queue = <<>>
       THEN Goto(t, "pipe") /\ UNCHANGED event
       ELSE /\ Goto(t, Head(queue))
            /\ event' = [event EXCEPT ![t] =
                            [kind |-> Head(queue), queued |-> TRUE]]
    /\ UNCHANGED <<setup, state, poolVars, cookieVars, ringVars, kernelVars,
                   queue, busy, workVars, histVars>>

\* Wrong variant of NextEvent: an event is handled whatever is put off.
NextEventOvertakes(t) ==
    /\ At(t, "pipe")
    /\ IF pipe = <<>>
       THEN Goto(t, "idle") /\ UNCHANGED <<pipe, event>>
       ELSE /\ pipe' = Tail(pipe)
            /\ Goto(t, Head(pipe))
            /\ event' = [event EXCEPT ![t] =
                            [kind |-> Head(pipe), queued |-> FALSE]]
    /\ UNCHANGED <<setup, state, poolVars, cookieVars, ringVars, device,
                   kernel, fails, queue, busy, workVars, histVars>>

\* An event of the kernel never overtakes one that was put off.
NextEvent(t) ==
    /\ At(t, "pipe")
    /\ IF pipe = <<>>
       THEN Goto(t, "idle") /\ UNCHANGED <<pipe, queue, event>>
       ELSE /\ pipe' = Tail(pipe)
            /\ IF queue = <<>>
               THEN /\ Goto(t, Head(pipe))
                    /\ event' = [event EXCEPT ![t] =
                                    [kind |-> Head(pipe), queued |-> FALSE]]
                    /\ UNCHANGED queue
               ELSE /\ queue' = Append(queue, Head(pipe))
                    /\ UNCHANGED <<pc, event>>
    /\ UNCHANGED <<setup, state, poolVars, cookieVars, ringVars, device,
                   kernel, fails, busy, workVars, histVars>>

\* The handler returned: what succeeded is done, what must be retried stays
\* at the head of the queue or goes to its end.
Handled(t, status) ==
    /\ event' = [event EXCEPT ![t] = NoEvent]
    /\ IF status = "retry"
       THEN /\ Goto(t, "pipe")
            /\ queue' = IF event[t].queued THEN queue
                        ELSE Append(queue, event[t].kind)
       ELSE /\ Goto(t, IF event[t].queued THEN "queue" ELSE "pipe")
            /\ queue' = IF event[t].queued THEN Tail(queue) ELSE queue

\* Wrong variant of ErrorDisable: the count of busy pools is not reset.
ErrorDisableStale(t) ==
    /\ At(t, "error")
    /\ active' = FALSE
    /\ busy' = IF Whole THEN busy ELSE 1
    /\ Goto(t, IF state = "error" THEN "settle" ELSE "check")
    /\ UNCHANGED <<setup, state, sync, pool, cookieVars, ringVars,
                   kernelVars, queue, event, workVars, histVars>>

\* SalCtrl_ServiceEventError, SalCtrl_CompressionError: the pool is disabled
\* and counted when it is in use.
ErrorDisable(t) ==
    /\ At(t, "error")
    /\ active' = FALSE
    /\ busy' = IF Whole THEN 0 ELSE 1
    /\ Goto(t, IF state = "error" THEN "settle" ELSE "check")
    /\ UNCHANGED <<setup, state, sync, pool, cookieVars, ringVars,
                   kernelVars, queue, event, workVars, histVars>>

\* icp_adf_check_RespInstance: responses left to poll put the error off.
ErrorCheck(t) ==
    /\ At(t, "check")
    /\ Goto(t, IF resp = <<>> THEN "set" ELSE "settle")
    /\ UNCHANGED <<setup, state, poolVars, cookieVars, ringVars, kernelVars,
                   eventVars, workVars, histVars>>

ErrorSet(t) ==
    /\ At(t, "set")
    /\ state' = "error"
    /\ Goto(t, "settle")
    /\ UNCHANGED <<setup, poolVars, cookieVars, ringVars, kernelVars,
                   eventVars, workVars, histVars>>

\* The event is handled when no request is left, and not before.
ErrorSettle(t) ==
    /\ At(t, "settle")
    /\ Handled(t, IF busy # 0 \/ state # "error" THEN "retry" ELSE "done")
    /\ UNCHANGED <<setup, state, poolVars, cookieVars, ringVars, kernelVars,
                   busy, workVars, histVars>>

\* SalCtrl_CompressionRestarting: icp_adf_transResetHandle clears the rings.
Restarting(t) ==
    /\ At(t, "restarting")
    /\ IF state \in {"running", "error"}
       THEN state' = "restarting" /\ resp' = <<>>
       ELSE UNCHANGED <<state, resp>>
    /\ Handled(t, "done")
    /\ UNCHANGED <<setup, poolVars, cookieVars, inFlight, sendSeq, hw,
                   kernelVars, busy, workVars, histVars>>

\* Wrong variant of Restarted: the ring keeps what was on it.
RestartedStale(t) ==
    /\ At(t, "restarted")
    /\ state = "restarting"
    /\ state' = "running"
    /\ active' = TRUE
    /\ sync' = 1
    /\ inFlight' = 0
    /\ sendSeq' = 0
    /\ Goto(t, "cookies")
    /\ UNCHANGED <<setup, pool, cookieVars, hw, resp, kernelVars, eventVars,
                   workVars, histVars>>

\* Wrong variant of Restarted: the pool may not make dummies again.
RestartedOnce(t) ==
    /\ At(t, "restarted")
    /\ state = "restarting"
    /\ state' = "running"
    /\ active' = TRUE
    /\ inFlight' = 0
    /\ sendSeq' = 0
    /\ resp' = <<>>
    /\ Goto(t, "cookies")
    /\ UNCHANGED <<setup, sync, pool, cookieVars, hw, kernelVars, eventVars,
                   workVars, histVars>>

\* SalCtrl_CompressionRestarted: new rings, the pool enabled, ...
Restarted(t) ==
    /\ At(t, "restarted")
    /\ state = "restarting"
    /\ state' = "running"
    /\ active' = TRUE
    /\ sync' = 1
    /\ inFlight' = 0
    /\ sendSeq' = 0
    /\ resp' = <<>>
    /\ Goto(t, "cookies")
    /\ UNCHANGED <<setup, pool, cookieVars, hw, kernelVars, eventVars,
                   workVars, histVars>>

\* ... and, when the instance runs already, no block with a number.
InitDcCookies(t) ==
    /\ At(t, "cookies")
    /\ opaque' = [b \in Blocks |-> Invalid]
    /\ Handled(t, "done")
    /\ UNCHANGED <<setup, state, poolVars, request, pending, ringVars,
                   kernelVars, busy, workVars, histVars>>

-----------------------------------------------------------------------------
Call(t) == Submit(t) \/ TestActive(t) \/ Pop(t) \/ Put(t) \/ SetOpaque(t)
              \/ Undo(t)
Poll(t) == PollEnter(t) \/ Callback(t) \/ Mark(t) \/ GenResp(t) \/ Dummy(t)
Handle(t) == ErrorDisable(t) \/ ErrorCheck(t) \/ ErrorSet(t) \/ ErrorSettle(t)
                \/ Restarting(t) \/ Restarted(t) \/ InitDcCookies(t)
Events(t) == PollEvents(t) \/ NextQueued(t) \/ NextEvent(t) \/ Handle(t)
Kernel == Fail \/ NotifyRestarting \/ Reset

Next ==
    \/ \E t \in setup.callers : Call(t)
    \/ \E t \in setup.pollers : Poll(t)
    \/ \E t \in setup.watchers : Events(t)
    \/ Answer
    \/ Kernel

Spec == Init /\ [][Next]_vars

(* What is begun goes on.  Pollers poll the instance, and watchers the     *)
(* events, again and again, whatever a thread does in between.  The device *)
(* and the driver work on; no failure need come.                           *)
Fairness ==
    /\ \A t \in Threads :
          /\ WF_vars(~At(t, "idle") /\ Call(t))
          /\ WF_vars(~At(t, "idle") /\ Events(t))
          /\ SF_vars(t \in setup.pollers /\ Poll(t))
          /\ SF_vars(t \in setup.watchers /\ PollEvents(t))
    /\ WF_vars(Answer)
    /\ WF_vars(NotifyRestarting \/ Reset)

FairSpec == Spec /\ Fairness

-----------------------------------------------------------------------------
(* Properties.                                                             *)

Statuses == {"idle", "alloc", "pop", "put", "opaque", "undo", "poll", "mark",
             "dummy", "queue", "pipe", "error", "check", "set", "settle", "restarting",
             "restarted", "cookies"}
EventKinds == {"error", "restarting", "restarted"}

\* Every variable keeps its type; no counter of the code goes below zero.
TypeOK ==
    /\ setup \in Setups
    /\ state \in {"running", "error", "restarting"}
    /\ active \in BOOLEAN
    /\ sync \in {0, 1}
    /\ pool \in Seq(Blocks)
    /\ opaque \in [Blocks -> Nat \cup {Invalid}]
    /\ request \in [Blocks -> Requests \cup {0}]
    /\ pending \in Nat
    /\ inFlight \in Nat
    /\ sendSeq \in Nat
    /\ hw \in Seq(Blocks)
    /\ resp \in Seq(Blocks)
    /\ device \in {"up", "down"}
    /\ kernel \in {"ok", "failed", "restarting"}
    /\ pipe \in Seq(EventKinds)
    /\ queue \in Seq(EventKinds)
    /\ busy \in {0, 1}
    /\ pc \in [Threads -> Statuses]
    /\ call \in [Threads -> [id : Requests \cup {0}, block : Blocks \cup {0},
                             seq : Nat \cup {Invalid}]]
    /\ event \in [Threads -> [kind : EventKinds \cup {"none"},
                              queued : BOOLEAN]]
    /\ todo \in [Threads -> Seq(Blocks \cup {0})]
    /\ calls \in 0 .. MaxRequests
    /\ fails \in 0 .. MaxFails
    /\ accepted \subseteq Requests
    /\ answers \in [Requests -> Nat]

Unanswered == {r \in accepted : answers[r] = 0}

\* The instance gives its rings up only when nobody waits for an answer: the
\* RESTARTING event waits behind the ERROR event, which waits for the pool
\* (uio_user_device.c:407-439, 588-630).
RestartClean ==
    state = "restarting" => Whole /\ pending = 0 /\ Unanswered = {}

\* Dummies come for the requests on the ring and no others, each once and in
\* the order they were sent ("a bucket with in-order memblks",
\* lac_sw_responses.c:93): no slot of the bucket is empty, though the
\* numbers of the blocks in use start anywhere and wrap around the bucket.
DummyOrder ==
    \A t \in Threads :
        /\ \A i \in DOMAIN todo[t] :
              todo[t][i] \in Used /\ opaque[todo[t][i]] # Invalid
        /\ \A i, j \in DOMAIN todo[t] :
              i < j => opaque[todo[t][i]] < opaque[todo[t][j]]

\* Every request the ring took is answered, whatever happens to the device.
Served == \A r \in Requests : r \in accepted ~> answers[r] = 1

\* The instance always comes back.
Resumes == state # "running" ~> state = "running"

-----------------------------------------------------------------------------
(* Failures do not show: the instance is the channel a ring pair is.       *)

\* Answers given: callbacks with the device's status, and dummies.
Callbacks == UNION {{r} \X (1 .. answers[r]) : r \in Requests}
Given == Cardinality(Callbacks)

Channel == INSTANCE RequestChannel WITH
    Tags        <- Requests,
    Capacity    <- NumMsgs - 1,
    outstanding <- Unanswered,
    accepted    <- Cardinality(accepted),
    answered    <- Given

\* A request the ring took gets one callback, from the device or from the
\* software, and one it refused gets none: dummies, late responses of a
\* device that failed, and the rings of before and after the restart never
\* answer twice (lac_sw_responses.c, sal_compression.c:1332-1352).
ChannelSpec == Channel!Spec
=============================================================================

# The QAT compression benchmark and the driver under it: models and proofs

The repository measures compression on an Intel QuickAssist (QAT) accelerator.
Its own program (`src/src/`, called *the benchmark* below) starts one worker
thread per compression instance; the work is done by the user-space library of
the QAT driver (`src/QAT_driver_new/quickassist/lookaside/access_layer/src/`,
*the library*; paths below are relative to it unless they begin with `src/`),
which talks to the device through rings in shared memory.  This directory holds
TLA+ models of the parts where the difficulty lies, the TLC configurations that
check them on small instances, and TLAPS proofs for every value of the
constants.

    tlc -config ring_contention.cfg MCTransportRing.tla
    tlapm TransportRing_proofs.tla

`PROJECT.json` lists the runs, the theorems, the source lines each definition
models, the hazards of the code and the disagreements found between the code
and what its comments say.

## 1. Inventory

| Component | Source | State it keeps | Operations | Modelled in |
|---|---|---|---|---|
| Ring pair | `qat_direct/src/uio_user_ring.c`, polling part of `adf_user_transport_ctrl.c` | head, tail, CSR copies, in-flight counter, coalescing count, poll guard, two locks, the slots | put a message, poll by bank, poll by instance | `TransportRing`, `RequestChannel` |
| Memory pool | `common/utils/lac_lock_free_stack.h`, `lac_mem_pools.c` | tagged top of a lock-free stack, links, `isInUse`, `availBlks`, `active` | allocate, free, enable, disable | `LacMemPool`, `BlockPool` |
| Benchmark | `src/src/dc_qat_main.c`, `dc_qat_funcs.c`, `cpa_sample_utils.c` | threads, the polling flag, session, buffers, completions | start, submit three requests, wait, tear down | `DcSample` |
| Compression data path and sessions | `common/compression/dc_datapath.c`, `dc_session.c` | session lock, pending counts, request type, cookies | compress, callback, reset, remove and init a session | `DcSession`; its use in `DcSample` |
| Synchronous calls | `common/include/lac_sync.h`, `common/utils/lac_sync.c` | a cookie with a semaphore, `complete`, `canceled` | create, wait, post, destroy | `DcSession` |
| Software responses | `common/utils/lac_sw_responses.c` | bucket of in-flight blocks, count of busy pools | dummy responses after a device error | `DcRecovery` |
| Device error and restart | `qat_direct/src/uio_user_device.c`, `common/ctrl/sal_compression.c`, `sal_ctrl_services.c` | queue of events, service state, pool `active` and `sync` | ERROR, RESTARTING, RESTARTED, retry | `DcRecovery` |
| Service lifecycle | `common/ctrl/sal_compression.c`, `sal_ctrl_services.c`, `user/sal_user.c` | start count, service states | start, stop, init, shutdown, restart | `DcLifecycle` |
| Transport handles | `qat_direct/src/adf_user_transport_ctrl.c` | bank: bundle, shadow, rings, reference count; handles | create, re-create, reset, release | `DcLifecycle` |
| Process and device proxy | `adf_user_init.c`, `adf_process_proxy.c` | subsystem bits, attached devices | attach, detach, notify | partly in `DcLifecycle`, `DcRecovery` |
| Kernel driver | `src/QAT_driver_new/quickassist/qat` | | | its notifications, in `DcRecovery` |
| Data-plane rings, shared queues | `adf_user_ETring_mgr_dp.c`, `adf_uq.c` | as the ring pair, without locks | put, poll | no |
| Memory driver, crypto services | `utilities/libusdm_drv`, `common/crypto` | | | no |

Not components of their own: `src/QAT_driver` (an older copy of the driver that
the build does not use), the performance sample code, OpenSSL, data, traces,
plots, build files.

**How they interact.**  A worker calls `cpaDcCompressData2`.  The data path
takes a *cookie* from the memory pool, counts the request in the session, and
puts a message that carries the cookie's address on the request ring.  The
device fetches it, works on the buffers by DMA and writes a response with the
same address on the response ring.  A polling thread finds it, follows the
address to the cookie, decrements the session's count, frees the cookie and
calls the worker's callback, which posts a semaphore the worker waits for.  So
three kinds of actor share state with no common lock: producers and the poller
share the in-flight counter, the pool and the session's count; the poller and
the device share the slots and the CSRs; two pollers from different entry
points share a ring under two different locks.

When the device fails, the kernel sends ERROR: the instance disables its pool
and, once no response is left to poll, goes into error, and whoever polls it
makes a dummy response for each cookie still in use.  Only when none is left
does the ERROR event leave the queue; RESTARTING, queued behind it, then takes
the rings down, the kernel resets the device, and RESTARTED sets up new rings
in the same handles.  All instances of a bank share one mapped bundle, whose
reference count these events and the start and stop of the library change.

**What is hard.**
- *Ring pair*: one counter for two rings, changed from both ends; a message is
  copied and published in two steps; responses are recognised by a sentinel in
  the slot; the head CSR is written only now and then, so the device and
  `E_STAT` see the past; offsets modulo the ring make full look like empty;
  the two polling entry points exclude each other by a decrement-and-test only.
  *Correct* means: nothing lost, duplicated or overwritten, a refusal only when
  full, every accepted request answered.
- *Memory pool*: the 128-bit top is read as two words and compared in one; the
  link of a block is read when another thread may own the block; the count
  beside the stack trails it.  *Correct* means: the stack stays a list and no
  block has two owners.
- *Benchmark*: three submissions share one `status`; results and semaphores are
  on the stack; polling threads are detached and share one flag which each of
  them raises; `sem_wait` knows no timeout; main tears down after `pthread_join`.
  *Correct* means: memory outlives the requests that use it, success means all
  three were answered, the program ends (section 5 has the two cases in which it does not).
- *Sessions*: the count of a stateful session is tested and incremented under a
  spin lock and decremented without it; the type of the next request is set
  by the caller, put back on a refusal and set again by the callback; a
  synchronous caller may give up waiting while its answer is on its way.
  *Correct* means: one stateful request at a time, streams framed as the
  device sees them, no removal under a request, no callback into freed memory,
  no session busy for ever.
- *Error and restart*: an instance outlives the device: requests sent before the
  failure are answered after it.  Events are retried and queued,
  responses and dummies race, state of the error path is used once and must be
  renewed.  *Correct* means: a failure does not show but in the status of the
  answers, and the instance always comes back.
- *Lifecycle and handles*: one reference count and one mapping for the handles
  of all services; every step may fail, and clean-up starts from wherever
  it was, or does not start at all.  *Correct* means: what a handle or a bank
  poll uses is mapped, and what nobody uses is not.

`PROJECT.json` lists these as hazards, each at its line, with the properties
that would catch it or the reason why none does.

## 2. Modules

### RequestChannel, TransportRing

`TransportRing` is one request/response ring pair.  Its actions, in code order:

| Actions | Code |
|---|---|
| `Alloc`, `Backout` | the cookie of `dcCompDecompData`, and its release when the put is refused |
| `PutReserve`, `PutUndo` | `adf_user_put_msg`: lock, `__sync_add_and_fetch`, test; subtract, unlock, RETRY |
| `PutWrite`, `PutTail` | copy the message; advance the tail, write the CSR, unlock |
| `HwFetch`, `HwRespond` | the device (external) |
| `PollBankEnter`, `PollInstEnter`, `PollUnlock` | `icp_sal_pollBank`, `icp_adf_pollInstance` |
| `PollTest`, `PollRelease` | `adf_pollRing`: `pollingInProgress` |
| `PollCallback`, `PollMark` | one turn of the loop of `adf_user_notify_msgs_poll` |
| `PollRetire`, `PollHead`, `PollNothing` | after the loop: counter, coalesced head CSR; RETRY |

Abstractions.  A message is its cookie.  Offsets are counted in messages;
`head` and `tail` count for ever and `Slot` gives the offset the code keeps, and
every decision of the code or the device is taken on the slot.  The device sees
`Slot(csrTail)` and `Slot(hwHead)`, equal for empty.  Taking a lock and the
first atomic operation under it are one step (nobody can observe the state
between), and so are a last write and the unlock.  `DecAndTest` stops at -1:
every value below 1 fails the test alike.  The `FAIL` of a message size that is
neither 64 nor 128 bytes cannot occur for a service ring and is left out, and
so is the shared-queue branch.  Interrupt re-enabling at the end of a poll is
not state of the ring.  Memory order is x86's: a store to a slot is visible before
the later CSR write.

`RequestChannel` is what a service may expect: at most `Capacity` requests
outstanding, each answered once, in any order.  `ChannelSpec` in `TransportRing`
is that specification under the mapping in which a request is outstanding from
the CSR write to the callback.

### BlockPool, LacMemPool

`LacMemPool` follows `pop` and `push` instruction by instruction where other
threads can tell: `ReadTop` reads one word of the top at a time in either order
(a 128-bit load is two moves; `-mcx16` is in `common.mk`), `PopNext` reads the link of
a block that may be gone, `PopCas`/`PushCas` compare both words, `Retry` starts
again, `PopCount`, `PopMark`, `PushCount` are what
`Lac_MemPoolEntryAlloc`/`Free` do after it.  Any thread may free any block a
client holds: the worker allocates a cookie and the poller frees it.  `stack` is
a history variable that only the successful swaps change; `Linked` says that the
real top and links spell it.  The counter of the top is 64 bits and never
wraps in practice; in the model `MaxOps` bounds it, and a thread about to swap
stops there, so the run does not check deadlock.

`BlockPool` is the pool the clients see: a free block is handed out, a handed-out
block comes back.  `PoolSpec` is that specification under a mapping.

### DcSample

Main (`StartProcess` to `Exit`), a worker per instance (`QueryCapabilities` to
`Cleanup`) and a polling thread per instance (`PollerStart` to `PollerSleep`),
with the service between them reduced to what `RequestChannel` promises.  Every
failure path of `enqueueQATWork` and `compPerformOp` is there: `Faulty` workers
may fail at each call, `Refusable` says which submissions may be refused,
`PollerMayFail` leaves an instance without its polling thread (the status of
`sampleThreadCreate` is discarded), `Interruptible` lets `sem_wait` return early.  `owned` is the memory the worker
has not given back, on its stack and on the heap.  `Deliver` and `Callback` are
separate because the library decrements the session's count and frees the
cookie *before* it calls back.

Abstractions.  `Exit` takes `icp_sal_userStop`, `qaeMemDestroy` and the return of
main in one step.  A ten-millisecond sleep orders nothing.  `isPolled` is taken to be
true, as the configuration files set it.  Data and trace files only succeed or
fail.  The intermediate buffers are one object: their half-built array is a
hazard recorded without a property.  After memory was freed under a request the
model goes on as if nothing else were damaged.  `HowToRun.md` speaks of 32
instances; the code caps them at `MAX_INSTANCES` = 16 (`dc_qat_funcs.c:30`).

### DcSession

One session, the threads that submit on it, the poller, and the application
that resets, removes and initialises it.

| Actions | Code |
|---|---|
| `Begin` | `cpaDcCompressData2` or `cpaDcDecompressData`, the arguments checked |
| `Lock`, `Release`, `Pass`, `Admit`, `Unlock` | the spin lock, the test and the increment of `pendingStatefulCbCount`; `Release` also answers a request without data (`dcZeroLengthRequests`) |
| `CreateSyncCookie`, `CreateSyncCookieFails`, `WaitDone`, `WaitTimeout`, `DestroySyncCookie` | the synchronous half of `dcCompDecompData` and `lac_sync.h` |
| `AllocCookie`, `AllocFails`, `CreateRequest`, `CreateRequestFails`, `Count` | the cookie, `dcCreateRequest` |
| `Put`, `PutRetry`, `Undo` | `dcSendRequest` and the error path |
| `Answer`, `CallbackDec`, `CallbackFree`, `CallbackCall`, `CallbackPost` | `dcCompression_CommonProcessCallback`, `LacSync_GenWakeupSyncCaller` |
| `ResetSession`, `RemoveSession`, `InitSession` | `dc_session.c` |

`open` is a history variable: whether the device is in the middle of a stream.
`Framing` compares it with the start-of-stream flag of what is put.  `CreateFails`,
`NoCookie` and `NoSyncCookie` say in which kinds of session a call may fail
where; the last two are the ways a stateful count is left behind.

Abstractions.  The application keeps the session while a call on it executes; it
may reset or remove it under requests in flight, as the API allows.  The
session has one direction: in a combined session both directions share
`requestType` and only the flags `isSopFor...Processed` are apart, and a
refusal puts back the first and not the second.  Of the flush flags the two
that differ here are kept; `CPA_DC_FLUSH_FULL` ends a stream in `dcCreateRequest`
and does not in the callback, which wins.  A waiter may time out at any
moment.  The pool is `LacMemPool`'s.

### DcRecovery

One instance, from a working device through its failures.  `Submit` to `Undo` are
a call, `PollEnter` to `Dummy` a poll, `PollEvents` to `InitDcCookies` the handling of
events, `Fail`, `NotifyRestarting`, `Reset` and `Answer` the kernel and the device.

| Actions | Code |
|---|---|
| `TestActive`, `Pop`, `Put`, `SetOpaque`, `Undo` | the pool, the ring and the number of the request, in the order in which a failure could come between |
| `Callback`, `Mark` | the loop of `adf_user_notify_msgs_poll` |
| `GenResp`, `Dummy`, and `Bucket`, `StartIndex`, `Slot` | `LacSwResp_GenResp`, the bucket, `dcCompression_SwRespMsgCallback` |
| `NextQueued`, `NextEvent`, `Handled` | `adf_poll_enqueued_events`, `icp_adf_poll_device_events` |
| `ErrorDisable`, `ErrorCheck`, `ErrorSet`, `ErrorSettle` | `SalCtrl_CompressionError`, `SalCtrl_ServiceEventError` |
| `Restarting`, `Restarted`, `InitDcCookies` | the handlers of `sal_compression.c` |

`setup` says which threads submit, poll and watch for events.  The checked
set-ups are those under which the code keeps its promises: one thread
does everything, or a second one polls and a device that fails is dead (a
detached virtual function goes on answering).  They are assumptions, and not
idle ones: when the thread that watches for events is not the one that
submits, `RestartClean` is violated (a request passes the test of `active`, the
pool is found whole, the rings go); when a separate thread polls a device that
survives its failure, a request may get a response and a dummy; with two
watchers RESTARTING overtakes ERROR.

The instance implements `RequestChannel`, the same specification as a healthy ring
pair: requests outstanding are those the ring took and nobody answered, whether
the answer comes from the device or from the software.  `ChannelSpec` is thus
the statement that a failure does not show.

### DcLifecycle

All services of one device, and the bank they share.  One action is one step
on one handle, because requests and bank polls of other threads come between
them; the walk over the list of services (`SAL_FOR_EACH`) is `event`, `cur` and
`side`.

| Actions | Code |
|---|---|
| `UserStart`, `CreateNext`, `Initialized`, `StartServices` | `icp_sal_userStart`, `SalCtrl_CompressionInit`, `SalCtrl_ServiceStart` |
| `Cleanup`, `Undone`, and `ReleaseNext` in `undo` | the clean-up of the failing service, then of those before it |
| `UserStop`, `ReleaseNext`, `Shutdown`, `ShutdownFails`, `Exit` | `icp_sal_userStop`, the events STOP and SHUTDOWN, `adf_cleanup_device` |
| `ServiceError`, `EventRestarting`, `ResetNext`, `Restarting` | ERROR and RESTARTING, `adf_user_transport_clean` |
| `EventRestarted`, `ReinitNext`, `Restarted` | RESTARTED, `adf_user_transport_reinit` |
| `MapBundle`, `FreeBundle`, `CleanBundle`, `Enter`, `Leave` | `init_bank_from_accel`, `adf_free_bundle`, `adf_clean_bundle`, the ring's slot, masks and reference |

A handle is `none`, or where its `csr_addr` points: `bundle` or `shadow`.  Failures are
possible at every step of a start but one (the allocation of the ring array,
which leaves a freed bundle behind: `adf_user_transport_ctrl.c:124-132`); a restart
that began succeeds.

A service whose start fails leaves `SalCtrl_CompressionInit` in one of two ways.
`Cleanup` releases what it has.  When it is the chaining service that cannot be
allocated or initialised (`sal_compression.c:973-989`, reached when the firmware
offers chaining), the function returns at once: the third disjunct of
`Initialized` goes to the undoing of the *other* services, and this one, in the state
`initializing`, keeps two handles that nothing will release.  So it is not true that a
bank is never kept for nobody; `NothingKept` says what is: while the library
is stopped, the bundle is kept only if exactly the two handles of one such
service are in use (`Abandoned`).

## 3. Runs

| Run | Instance | Question |
|---|---|---|
| `ring_contention` | 2 producers, a bank poller, an instance poller, 3 cookies, `NumMsgs` 3 | do the counter, the guard and the locks keep the pair a channel? |
| `ring_wrap` | ring filled, more sends than slots | does anything get overwritten, or full taken for empty, over several laps? |
| `ring_progress` | quota 1, lagging head CSR, fairness | is every accepted request answered? |
| `ring_oversize` | more messages than slots | violation: the cut to 4 MB |
| `sample_clean` | 2 instances, nothing fails | do the happy paths keep memory, order and counts? |
| `sample_failures` | every call of one of 2 workers, of main, and every thread creation may fail | is success honest, removal final, and what can keep the program from ending? |
| `sample_refused` | the third submission may be refused | violation: see section 5 |
| `pool_stack` | 3 threads, 2 blocks, 6 swaps, symmetry | torn reads and ABA: is the stack a pool? |
| `session` | 2 threads, 2 cookies, 3 calls, both kinds, both modes | one stateful request, framing, removal, late callbacks, and does the count drain? |
| `session_uncounted` | stateless, `dcCreateRequest` may fail | violation: see section 5 |
| `recovery` | 4 blocks, 2 in flight, 3 requests, 2 failures | is every request answered once, in order, and does the instance come back? |
| `lifecycle` | 4 services on a bank, 3 nested starts | does the bank serve its handles, and nobody else but what one failed start abandons? |

Why the bounds are enough.  *Ring*: the library sizes a ring in powers of two
from 64 messages up; the instances are scaled down to two to four slots, and `Slot`
takes the remainder by any size, of which the code's shift is the case of a power
of two.  There are more cookies than requests allowed in flight, so a full ring
and a refusal happen; `MaxSends` exceeds the number of slots, so slots are reused;
two pollers with different locks are all the pairs there are.  With
two producers one can sit between any two steps of the other.  The proofs remove
these bounds for everything in section 4.  *Pool*: the ABA problem needs one
thread stopped in `pop` while others pop, pop and push: three threads and two
blocks; six swaps are enough for a whole such round and one more.  *Benchmark*:
instances meet only in main, the flag and the usage counter, so two suffice.
`sample_failures` excludes none of the failures the module has.  A worker that is
`Forsaken` never ends: its instance has no polling thread, or one of its first two
submissions was refused and the third was not (section 5).  `Finishes` says that
nothing else keeps the program from ending; without either case in `Forsaken`
TLC finds it violated.  The run does not check deadlock: a forsaken worker, and main
waiting for it, may be all that is left.
*Session*: two callers race for the lock, the poller is
the third actor; three calls make a stream of several requests, a refused one
between two accepted ones, and a call after a removal; three synchronous
cookies leave one for each call, canceled ones leak.  The proofs remove the
bounds.  *Recovery*: with two requests in flight numbers start at 0, 1 or 2 and
wrap round a bucket of one to three blocks; the third block in use is one whose
request was refused; the second failure finds what the first left.
*Lifecycle*: a failure can hit the first, a middle and the last service, and
the clean-ups and the exit without one differ; starts nest twice, so that one of them is
neither first nor last.  Its state space is finite without further bounds.

Every property of a passing run has a mutant in `PROJECT.json`: a
definition with a plausible bug (a variant operator just before it in the
module, used by no behaviour) under which TLC finds the property violated.

Fairness.  *Ring*: the device is fair in fetching and in responding (external,
assumed); a producer or poller that is past its entry goes on, because it holds a
lock or the guard and executes straight-line code; only the instance poller is
fair in *starting* a poll, because `sal_dc_polling` loops for ever.  Nobody is obliged to
submit or to poll by bank.  *Benchmark*: threads are scheduled
(weak fairness of each thread, once it exists), the device answers what it accepted, and no
signal need come that ends a wait (`Interrupted`).  *Session*: a
call that began and a callback go on; the device answers.  No caller need
begin, and the put, which may be refused for ever, need not succeed.
*Recovery*: calls, and the handling of an event that was fetched, go on; polls
and event polls come again and again, which is what `sal_dc_polling` and the documented
use of `icp_sal_poll_device_events` do (strong fairness, as one thread alternates
between them and its other work); the device answers, and a driver that
announced a restart completes it.  Nothing obliges the device to fail.

Checked as action properties: `RetryOnlyWhenFull`, `RemovedIsFinal`, `Framing`.  As
liveness: `Answered`, `Finishes`, `CountDrains`, `Served`, `Resumes`.  As
refinement: `ChannelSpec` (twice: of a ring pair and of an instance that fails),
`PoolSpec`.

## 4. Proofs

`TransportRing_proofs` proves, for any sets of producers, pollers and cookies and
any geometry allowed by `NoneAssumption`, `PollersAssumption`,
`GeometryAssumption` and `ModeAssumption` (which TLC evaluates on every ring run):

| Theorem | Statement |
|---|---|
| `Invariance` | `IInv` is invariant |
| `TypeCorrect` | `TypeOK`: no counter underflows |
| `PollersExclude` | `PollExclusion` |
| `CounterExact` | `Accounting` |
| `InFlightBounded` | `InFlightBound` |
| `HeadLagBounded` | `HeadLag` |
| `EStatTruthful` | `EStatSound` |
| `NeverOverruns`, `RequestsVisible` | `NoOverrun`, `FullIsNotEmpty`, if `NumMsgs <= ReqSlots` |

Argument.  None of the properties is inductive.  `PollExclusion` needs that the
guard reads 1 only when nobody polls (`GuardInv`); the exact counter needs that
the owner of the put lock is exactly the producer inside the put (`LockInv`) and
that one poller at most has messages in hand (`GuardInv`); its being no
less than zero needs the order of the counters round both rings (`CounterInv`);
that a poller never advances past the device needs that a slot not EMPTY lies
between the head and the device's tail (`SlotInv`); the bound needs that the
counter exceeds the limit by one only while a refusal is pending (`BoundInv`);
the lag needs what a poller in mid-poll still owes (`LagInv`).  `IInv` is their
conjunction with `TypeInv` and `Accounting`; one lemma per part shows that a step
preserves it, one named step per action.  `SpaceInv` (the device never laps the head
CSR) is proved on top of it from facts about remainders (`SameLapSlots`,
`NextLapSlot`).  The proviso of the last two theorems is what the code gives up
for large rings: see `ring_oversize`.

`DcSession_proofs` proves, for any callers, cookies, kinds of session and failures
(`NullAssumption`, `KindsAssumption`):

| Theorem | Statement |
|---|---|
| `Invariance` | its `IInv` is invariant |
| `TypeCorrect` | `TypeOK`: the stateful count stays zero or one |
| `AloneInFlight` | `OneInFlight` |
| `RemovedIdle` | `RemovedMeansIdle`, for a stateful session |
| `LateCallbackSafe` | `SyncCookieOutlives` |
| `FramingHolds` | `Framing` |

Argument.  Where a caller stands restricts the kind of its session (`PlaceInv`); the
lock is set while one caller, and only one, is between the exchange and the
release (`LockInv`); the count is then exactly what accounts for the one request
between admission and the decrement, and a caller past the test has seen it
zero under the lock (`CountInv`).  Cookies have one owner each: the pool, a
caller, the device, the poller (`CookieInv`); a synchronous cookie somebody will
still call back is allocated and its caller waits or has canceled it
(`SyncInv`).  `FrameInv` relates `requestType`, which two threads set, to the stream
the device is in, at each point of the call and of the callback.  For a
stateless session `RemovedMeansIdle` is false, see `session_uncounted`, so the
theorem is about stateful ones.

`TransportRing_cookies` builds on `TransportRing_proofs` and follows the cookies
round both rings:

| Theorem | Statement |
|---|---|
| `SentinelTruthful` | `SentinelSound` |
| `RetryHonest` | the action property `RetryOnlyWhenFull` |
| `CookiesConserved` | `Conservation`, if `NumMsgs <= ReqSlots` |
| `ImplementsChannel` | the refinement `ChannelSpec`, if `NumMsgs <= ReqSlots` |

Argument.  What lies in a place is a cookie: between the head and the device's
tail no response slot holds the sentinel, and below the CSR no request slot is
stale (`ContentInv`).  Each step moves at most one cookie from one kind of place
(pool, producer, request ring, device, response ring) to the next (`MoveCookie`); a
cookie is never twice in the same kind of place (`DistinctInv`) and the places are
disjoint and exhaust the cookies (`Parted`).  That `Parted` survives the write of a
request needs that the slot written is not one the device has yet to read, which
is `SpaceInv` and thus the proviso.  For the refinement the mapping is first written
as the cookies of the places between the CSR and the callback (`OutstandingCount`
counts them by the counters); `RoomForOne` then says that the producer writing
the CSR holds a reservation within the capacity, and `FirstIsCalled` that the next
callback is of the oldest response.  `TagsAssumption` (a finite number of cookies)
is used to count.

`LacMemPool_proofs`, for any threads (`ThreadsAssumption`: finitely many, which the
count needs), blocks and any bound on the operations:

| Theorem | Statement |
|---|---|
| `Invariance` | its `IInv` is invariant |
| `TypeCorrect` | `TypeOK`: `availBlks` never exceeds the blocks there are and falls below zero by no more than one for each thread |
| `StackLinked` | `Linked` |
| `OneOwner` | `OnePlace` |
| `CountAccounts` | `AvailAccounts` |
| `ImplementsPool` | the refinement `PoolSpec` |

Argument.  `Linked` is not inductive: a pop that succeeds sets the top to a link
read earlier, from a block that may have been given away and freed since.
`ReadInv` is what the counter of the top is for: a thread's copy of the top is
never ahead of it, and when it is equal nothing has happened in between, so the
link read is the link of the block on top.  `PlaceInv` says that a block is on the
stack, carried by one thread or with a client, once; a push needs it because it
writes the link of a block, which must not be on the stack.

`DcLifecycle_proofs`, for any number of services and starts:

| Theorem | Statement |
|---|---|
| `Invariance` | its `IInv` is invariant |
| `TypeCorrect` | `TypeOK`: `refs` never below zero |
| `BankAlwaysServes` | `BankServes` |

Argument.  The bundle's reference count is the number of handles in use (`BankInv`,
with `UseCount` counting the set of handles that loses or gains one).  Whether a
handle is in use depends on how far the event under way has walked through the
services and on which of its two handles it is: `WalkInv` has one clause for each
kind of event.  While a failed start is undone, at most one service is still
`initializing`, and it has both its handles or none (`UndoInv`); when the others are
down, these are all that is in use, which is the exception `BankServes` makes
(`UndoneStep`).  One lemma per action.

`DcSample_proofs`, for any number of instances and any failures:

| Theorem | Statement | If |
|---|---|---|
| `Invariance`, `TypeCorrect` | its `IInv`; `TypeOK`: no semaphore is posted twice | |
| `SuccessIsEarned` | `SuccessMeansDone` | |
| `RemovalIsFinal` | the action property `RemovedIsFinal` | |
| `FrameIsSafe` | `FrameOutlivesWorkers` | `~CreateMayFail` |
| `MemoryIsSafe` | `MemoryOutlivesRequests` | `Faulty = {}` |
| `RemoveSucceeds` | `RemoveNeverRetries` | `Faulty = {}` |
| `UsageIsExact` | `UsageCounts` | both |

Argument.  For each worker, that its pending count is the cardinality of what the
service has, and that a request is in the service, with the poller or called
back, and one of these only (`RequestInv`); what the
worker still owns at each point of its walk (`MemoryInv`); what its status and
the result of the removal say of its requests (`WorkInv`, and `SoundInv` for
workers whose calls do not fail).  `MainInv` says which workers exist and have ended
as main goes on, `UsageInv` which instances are started.  The hypotheses are those
under which the code keeps the promise: `sample_refused` shows a failing call
that leaves requests with freed memory, and when `pthread_create` fails main
breaks off, and its frame goes while workers run.  `SuccessIsEarned` and
`RemovalIsFinal` have none: they hold also for a worker nobody polls.

`DcRecovery_proofs`, for any number of threads, blocks, requests and failures, and
any set-ups of `WatchedSetups`: one thread submits and watches for events, and
other threads poll only if a device that failed is dead.

| Theorem | Statement |
|---|---|
| `Invariance` | its `IInv` is invariant |
| `TypeCorrect` | `TypeOK`: neither `pending` nor `inFlight` falls below zero |
| `RestartsClean` | `RestartClean` |
| `DummiesInOrder` | `DummyOrder` |
| `ImplementsChannel` | the refinement `ChannelSpec` |

Argument.  Events come round: ERROR, RESTARTING, RESTARTED, ERROR, whether they
are in the pipe, in the queue or in a handler, because one that is put off is
never overtaken (`OrderInv`).  So the next event that is expected tells how far
the instance is (`PhaseInv`): RESTARTING comes only when ERROR was done, which is
when the pool was whole and the state *error*, in which no request gets in.
That the pool stays whole until then needs that the thread that handles the
event is not itself in a call, and that a ring is silent once it was found empty
(`PlaceInv`): a late response would be called back beside a dummy.  Dummies are
right because, while requests may be sent, the blocks in use are the messages on
the ring and the block of a call at most, and their numbers are consecutive
(`RingInv`, with one exception between the put and `LAC_MEM_POOL_BLK_SET_OPAQUE`);
in error no call is left, so as many numbers as there are blocks in use fill a
bucket of that size without a gap or a collision, and reading it from the slot of
the lowest number on gives them in order (`OwnSlots`, `FromStart`,
`BucketInOrder`).  From then on the blocks in use are those for which a dummy is
still to be made (`PoolInv`).  `RequestInv` ties blocks to requests: a request the
ring took has a block until it is answered, and one that was refused never
counts.  The channel's capacity is `WaitingCount`: those who wait are on the ring.

The hypothesis is the one under which the code keeps these promises (section 2,
`DcRecovery`); the run `recovery` is an instance of it, one set-up for each of its
two cases.

Only model-checked: the liveness properties `Answered`, `CountDrains`, `Finishes`,
`Served` and `Resumes`, which are out of this prover's reach.  Every other
property of a passing run is a theorem.

## 5. Where the code and its comments part

- `ring_oversize`: `max_requests_inflight` is `num_msgs - 1` whatever the ring was cut
  to; with the largest accepted configuration a put overwrites a request.
- `sample_refused`: when the third submission is refused, the buffers, results and
  semaphores go while the first two requests use them, in spite of "At this stage, the
  callback function has returned".
- `session_uncounted`: a stateless request that fails in `dcCreateRequest` is taken off a
  count it never entered, and `cpaDcRemoveSession` returns SUCCESS with another
  request in the device, in spite of "Removal will fail if outstanding calls still
  exist" (`cpa_dc.h:1452-1456`).

Seen while modelling, each at its place in the code, and not the subject of a
run (where a model could show it, the instance excludes the case and says so):

- A worker of the benchmark waits for ever when one of its first two submissions is
  refused and the third is not, and when its polling thread cannot be created or
  `cpaDcInstanceGetInfo2` fails before that, of which nobody is told
  (`cpa_sample_utils.c:298-309`): the five-second timeout (`src/src/dc_qat_funcs.c:28`,
  264) is an argument the macro ignores (`cpa_sample_utils.h:137`).  Both are in the
  run `sample_failures`, as what `Finishes` excepts.
- When its chaining service cannot be set up, `SalCtrl_CompressionInit` returns
  without `goto cleanup` (`sal_compression.c:973-989`): two handles and the mapped
  bundle stay, and the next start, which begins with empty tables, forgets them.
  `DcLifecycle` follows this, and `BankServes` has it as its one exception; no comment
  or document says otherwise, so it is no divergence.
- A polling thread that starts late raises the flag after `sampleDcStopPolling` cleared
  it (`cpa_sample_utils.c:284`).
- `availBlks` passes through -1 when a block is allocated again before its free was
  counted, which `LacSwResp_GenResp` takes for corruption (`lac_sw_responses.c:218`).
- A stateful session that gets no cookie keeps its count and refuses every later
  request (`dc_datapath.c:1891`, `1935`).
- `cpaDcRemoveSession` frees the CRC lookup table also when it returns RETRY
  (`dc_session.c:1759`).
- After a time-out the buffers of a synchronous call may still be written by the device;
  only its cookie is protected (`dc_datapath.c:1898-1924`).
- A queued event that fails with neither success nor RETRY is neither dropped nor
  left: the loop spins for the time limit (`uio_user_device.c:428-436`).  The queue is
  static and survives a stop: an old ERROR event meets the device of the next start.
- The state RUNNING is set before the numbers of the cookies are reset
  (`sal_compression.c:1293-1297`): a request of another thread in between loses its number.
- Every restart takes a reference of the device that is never put
  (`sal_ctrl_services.c:903`).
- The kernel gives up waiting for a process (`ADF_RESTARTING_RETRY`) without
  RESTARTED: the instance stays in the restarting state (`adf_init.c:984`).
- A re-creation of a handle that fails after a restart puts references that are not
  held and releases handles twice (`sal_compression.c:1302-1318`).
- A service in error makes stop and shutdown break off: the handles and pools after it are
  abandoned (`sal_ctrl_services.c:737`; `ShutdownFails` in `DcLifecycle`).
- `adf_user_transport_exit` does not free the shadow of a bank.
- A failed `icp_sal_userStart` leaves the process section open
  (`sal_user.c:139-147`).

## 6. Not modelled, and what is left

The map of `PROJECT.json` covers a small share of the repository's lines, and will:
of more than 600,000 lines the benchmark and the parts of the library it runs
are about two per cent.  The rest is the older copy of the driver (`src/QAT_driver`),
the kernel modules, the symmetric and public-key services, the performance
samples, firmware headers and API headers.  None of that is executed by the
program this project is about, or it is sequential code that fills in structures,
about which a model has nothing to say that the code does not.

- *Kernel driver*: outside the process; its notifications and resets are the
  environment of `DcRecovery`.
- *Memory driver*: allocation succeeds or fails.
- *Crypto services*: built, never started by the benchmark; they use the same ring,
  pool, event path and synchronous cookies.
- *Data-plane calls*: not used by the benchmark, and one thread at a time by
  contract; the in-flight counter that is not atomic (`adf_user_ETring_mgr_dp.c:232`) is
  sound under it.
- *Shared queues*: the device decides whether an `ENQCMD` is accepted; its side is not
  in the repository.
- *Benchmark*: file contents and the half-built array of intermediate buffers
  (`dc_qat_funcs.c:552`), whose pointers no model has.
- Statistics, logging, configuration parsing, debug files.

What could still be done: `DcLifecycle` supposes that a restart that began
succeeds, and `DcRecovery` has one instance, so that a restart that fails halfway
and two instances that share a bank are not followed.

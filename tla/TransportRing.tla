--------------------------- MODULE TransportRing ---------------------------
(***************************************************************************)
(* One request/response ring pair of a QAT bank, as user space and the     *)
(* device share it: adf_user_put_msg on the request ring, adf_pollRing and *)
(* adf_user_notify_msgs_poll on the response ring, the in-flight counter   *)
(* both rings share, and the device (external) between them.               *)
(*                                                                         *)
(* Offsets are counted in messages.  head and tail keep the number of      *)
(* messages ever read and written; the byte offset the code keeps in       *)
(* ring->head and ring->tail is Slot(head, n) * message_size.  Everything  *)
(* that the code or the device decides from an offset is decided here from *)
(* the slot, never from the count.                                         *)
(***************************************************************************)
EXTENDS Integers, Sequences, FiniteSets, SequencesExt

CONSTANTS
    Producers,    \* threads that submit requests on the instance
    BankPollers,  \* threads in icp_sal_pollBank
    InstPollers,  \* threads in icp_adf_pollInstance
    Tags,         \* cookies of the pool: the opaque data of a message
    None,         \* no thread, no message; EMPTY_RING_SIG_WORD in a slot
    NumMsgs,      \* num_msgs: the configured NumConcurrentRequests
    ReqSlots,     \* messages the request ring has room for
    RespSlots,    \* messages the response ring has room for
    MinResps,     \* min_resps_per_head_write
    Irq,          \* the response ring is delivered by ICP_RESP_TYPE_IRQ
    Quotas,       \* response quotas the pollers use, 0 for no quota
    MaxSends      \* bound of the model: requests ever accepted

Pollers == BankPollers \cup InstPollers

ASSUME NoneAssumption ==
    None \notin Tags \cup Producers \cup Pollers

ASSUME PollersAssumption ==
    BankPollers \cap InstPollers = {}

ASSUME TagsAssumption ==
    IsFiniteSet(Tags)

ASSUME GeometryAssumption ==
    /\ NumMsgs \in Nat \ {0}
    /\ ReqSlots \in Nat \ {0}
    /\ RespSlots \in Nat \ {0}
    /\ MinResps \in Nat

ASSUME ModeAssumption ==
    /\ Irq \in BOOLEAN
    /\ Quotas \subseteq Nat
    /\ MaxSends \in Nat

VARIABLES
    inFlight,           \* *ring->in_flight, shared by the two rings
    putLock,            \* user_lock of the request ring: its owner or None
    tail,               \* request ring: messages written
    csrTail,            \* request ring: the tail CSR
    reqSlot,            \* request ring: memory
    hwHead,             \* device: requests fetched
    hw,                 \* device: requests being served, in fetch order
    hwTail,             \* device: responses written
    respSlot,           \* response ring: memory
    head,               \* response ring: messages processed
    csrHead,            \* response ring: the head CSR
    coalCount,          \* response ring: coal_write_count
    pollingInProgress,  \* response ring: the poll guard
    bankLock,           \* user_bank_lock: its owner or None
    rxLock,             \* user_lock of the response ring: its owner or None
    pool,               \* cookies not in use
    ppc, ptag,          \* producer: where it is, the cookie it holds
    cpc, quota, cnt     \* poller: where it is, response_quota, msg_counter

reqVars  == <<putLock, tail, csrTail, reqSlot>>
hwVars   == <<hwHead, hw, hwTail>>
respVars == <<respSlot, head, csrHead, coalCount, pollingInProgress>>
lockVars == <<bankLock, rxLock>>
prodVars == <<ppc, ptag>>
pollVars == <<cpc, quota, cnt>>
vars == <<inFlight, reqVars, hwVars, respVars, lockVars, pool,
          prodVars, pollVars>>

\* The slot of the i-th message of a ring with n slots: modulo().
Slot(i, n) == i % n

\* max_requests_inflight, as adf_init_ring_internal sets it.
MaxRequestsInFlight == NumMsgs - 1

Init ==
    /\ inFlight = 0
    /\ putLock = None
    /\ tail = 0
    /\ csrTail = 0
    /\ reqSlot = [s \in 0..ReqSlots-1 |-> None]
    /\ hwHead = 0
    /\ hw = <<>>
    /\ hwTail = 0
    /\ respSlot = [s \in 0..RespSlots-1 |-> None]
    /\ head = 0
    /\ csrHead = 0
    /\ coalCount = 0
    /\ pollingInProgress = 1
    /\ bankLock = None
    /\ rxLock = None
    /\ pool = Tags
    /\ ppc = [p \in Producers |-> "idle"]
    /\ ptag = [p \in Producers |-> None]
    /\ cpc = [c \in Pollers |-> "idle"]
    /\ quota = [c \in Pollers |-> 0]
    /\ cnt = [c \in Pollers |-> 0]

-----------------------------------------------------------------------------
(* Submitting: a service takes a cookie and calls adf_user_put_msg.        *)

\* Lac_MemPoolEntryAlloc: the cookie whose address the request carries.
Alloc(p) ==
    /\ ppc[p] = "idle"
    /\ \E t \in pool :
          /\ pool' = pool \ {t}
          /\ ptag' = [ptag EXCEPT ![p] = t]
    /\ ppc' = [ppc EXCEPT ![p] = "put"]
    /\ UNCHANGED <<inFlight, reqVars, hwVars, respVars, lockVars, pollVars>>

\* Wrong variants of PutReserve, each a plausible slip; no behaviour uses
\* them.  Their parameters: the lock test, the new counter, the refusal.
PutReserveVariant(p, lock, sum, full) ==
    /\ ppc[p] = "put"
    /\ lock
    /\ tail < MaxSends
    /\ putLock' = p
    /\ inFlight' = sum
    /\ ppc' = [ppc EXCEPT ![p] = IF full THEN "undo" ELSE "write"]
    /\ UNCHANGED <<tail, csrTail, reqSlot, hwVars, respVars, lockVars, pool,
                   ptag, pollVars>>

\* The user_lock is not taken into account.
PutReserveUnlocked(p) ==
    PutReserveVariant(p, TRUE, inFlight + 1,
                      inFlight + 1 > MaxRequestsInFlight)

\* One request too many is let through.
PutReserveLate(p) ==
    PutReserveVariant(p, putLock = None, inFlight + 1,
                      inFlight + 1 > MaxRequestsInFlight + 1)

\* The comparison of the data-plane calls, which keeps one slot more free.
PutReserveEarly(p) ==
    PutReserveVariant(p, putLock = None, inFlight + 1,
                      inFlight + 1 >= MaxRequestsInFlight)

\* The counter is tested and not incremented.
PutReserveUncounted(p) ==
    PutReserveVariant(p, putLock = None, inFlight,
                      inFlight + 1 > MaxRequestsInFlight)

\* ICP_MUTEX_LOCK, then __sync_add_and_fetch(in_flight, 1) and the test of
\* its result.
PutReserve(p) ==
    /\ ppc[p] = "put"
    /\ putLock = None
    /\ tail < MaxSends
    /\ putLock' = p
    /\ inFlight' = inFlight + 1
    /\ ppc' = [ppc EXCEPT ![p] = IF inFlight + 1 > MaxRequestsInFlight
                                 THEN "undo" ELSE "write"]
    /\ UNCHANGED <<tail, csrTail, reqSlot, hwVars, respVars, lockVars, pool,
                   ptag, pollVars>>

\* Wrong variant of PutUndo: the reservation is not given back.
PutUndoLeaky(p) ==
    /\ ppc[p] = "undo"
    /\ putLock' = None
    /\ ppc' = [ppc EXCEPT ![p] = "retry"]
    /\ UNCHANGED <<inFlight, tail, csrTail, reqSlot, hwVars, respVars,
                   lockVars, pool, ptag, pollVars>>

\* The ring is full: __sync_sub_and_fetch, unlock, return RETRY.
PutUndo(p) ==
    /\ ppc[p] = "undo"
    /\ inFlight' = inFlight - 1
    /\ putLock' = None
    /\ ppc' = [ppc EXCEPT ![p] = "retry"]
    /\ UNCHANGED <<tail, csrTail, reqSlot, hwVars, respVars, lockVars, pool,
                   ptag, pollVars>>

\* Lac_MemPoolEntryFree on the error path of the service that got RETRY.
Backout(p) ==
    /\ ppc[p] = "retry"
    /\ pool' = pool \cup {ptag[p]}
    /\ ptag' = [ptag EXCEPT ![p] = None]
    /\ ppc' = [ppc EXCEPT ![p] = "idle"]
    /\ UNCHANGED <<inFlight, reqVars, hwVars, respVars, lockVars, pollVars>>

\* adf_memcpy of the message to the slot at the tail.
PutWrite(p) ==
    /\ ppc[p] = "write"
    /\ reqSlot' = [reqSlot EXCEPT ![Slot(tail, ReqSlots)] = ptag[p]]
    /\ ppc' = [ppc EXCEPT ![p] = "tail"]
    /\ UNCHANGED <<inFlight, putLock, tail, csrTail, hwVars, respVars,
                   lockVars, pool, ptag, pollVars>>

\* Advance the tail, WRITE_CSR_RING_TAIL, unlock, return SUCCESS.
PutTail(p) ==
    /\ ppc[p] = "tail"
    /\ tail' = tail + 1
    /\ csrTail' = tail + 1
    /\ putLock' = None
    /\ ptag' = [ptag EXCEPT ![p] = None]
    /\ ppc' = [ppc EXCEPT ![p] = "idle"]
    /\ UNCHANGED <<inFlight, reqSlot, hwVars, respVars, lockVars, pool,
                   pollVars>>

Producer(p) ==
    \/ Alloc(p)
    \/ PutReserve(p)
    \/ PutUndo(p)
    \/ Backout(p)
    \/ PutWrite(p)
    \/ PutTail(p)

-----------------------------------------------------------------------------
(* The device (external).  It sees the rings through their CSRs, as slots: *)
(* a ring whose tail and head are the same slot is empty.                  *)

\* Fetch the next request of the ring.
HwFetch ==
    /\ Slot(csrTail, ReqSlots) # Slot(hwHead, ReqSlots)
    /\ hw' = Append(hw, reqSlot[Slot(hwHead, ReqSlots)])
    /\ hwHead' = hwHead + 1
    /\ UNCHANGED <<inFlight, reqVars, hwTail, respVars, lockVars, pool,
                   prodVars, pollVars>>

\* Answer any request being served, when the head CSR shows room for it.
HwRespond ==
    /\ Slot(hwTail + 1, RespSlots) # Slot(csrHead, RespSlots)
    /\ \E k \in DOMAIN hw :
          /\ respSlot' = [respSlot EXCEPT ![Slot(hwTail, RespSlots)] = hw[k]]
          /\ hw' = RemoveAt(hw, k)
    /\ hwTail' = hwTail + 1
    /\ UNCHANGED <<inFlight, reqVars, hwHead, head, csrHead, coalCount,
                   pollingInProgress, lockVars, pool, prodVars, pollVars>>

-----------------------------------------------------------------------------
(* Polling the response ring.                                              *)

\* icp_sal_pollBank: lock the bank; E_STAT says whether the ring has data
\* (when it has none the call unlocks and returns RETRY).
PollBankEnter(c) ==
    /\ c \in BankPollers
    /\ cpc[c] = "idle"
    /\ bankLock = None
    /\ Slot(hwTail, RespSlots) # Slot(csrHead, RespSlots)
    /\ bankLock' = c
    /\ \E q \in Quotas : quota' = [quota EXCEPT ![c] = q]
    /\ cpc' = [cpc EXCEPT ![c] = "test"]
    /\ UNCHANGED <<inFlight, reqVars, hwVars, respVars, rxLock, pool,
                   prodVars, cnt>>

\* icp_adf_pollInstance: lock the first response ring of the instance.
PollInstEnter(c) ==
    /\ c \in InstPollers
    /\ cpc[c] = "idle"
    /\ rxLock = None
    /\ rxLock' = c
    /\ \E q \in Quotas : quota' = [quota EXCEPT ![c] = q]
    /\ cpc' = [cpc EXCEPT ![c] = "test"]
    /\ UNCHANGED <<inFlight, reqVars, hwVars, respVars, bankLock, pool,
                   prodVars, cnt>>

\* osalAtomicDecAndTest on the guard.  The model stops counting at -1: every
\* value below 1 fails the test, and only osalAtomicSet(1) brings it back.
DecAndTest(v) == IF v > -1 THEN v - 1 ELSE v

\* Wrong variant of PollTest: the guard is not consulted.
PollTestUnguarded(c) ==
    /\ cpc[c] = "test"
    /\ cnt' = [cnt EXCEPT ![c] = 0]
    /\ cpc' = [cpc EXCEPT ![c] = "loop"]
    /\ UNCHANGED <<inFlight, reqVars, hwVars, respVars, lockVars, pool,
                   prodVars, quota>>

\* adf_pollRing: the decrement returns true only when the old value is 1.
PollTest(c) ==
    /\ cpc[c] = "test"
    /\ pollingInProgress' = DecAndTest(pollingInProgress)
    /\ cnt' = [cnt EXCEPT ![c] = 0]
    /\ cpc' = [cpc EXCEPT ![c] = IF pollingInProgress = 1
                                 THEN "loop" ELSE "unlock"]
    /\ UNCHANGED <<inFlight, reqVars, hwVars, respSlot, head, csrHead,
                   coalCount, lockVars, pool, prodVars, quota>>

\* The condition of the loop of adf_user_notify_msgs_poll.
MoreToDo(c) ==
    /\ respSlot[Slot(head, RespSlots)] # None
    /\ quota[c] # 0 => cnt[c] < quota[c]

\* ring->callback: the service completes the request and frees its cookie.
PollCallback(c) ==
    /\ cpc[c] = "loop"
    /\ MoreToDo(c)
    /\ pool' = pool \cup {respSlot[Slot(head, RespSlots)]}
    /\ cpc' = [cpc EXCEPT ![c] = "mark"]
    /\ UNCHANGED <<inFlight, reqVars, hwVars, respVars, lockVars, prodVars,
                   quota, cnt>>

\* Wrong variant of PollMark: the slot keeps the old response.
PollMarkStale(c) ==
    /\ cpc[c] = "mark"
    /\ head' = head + 1
    /\ cnt' = [cnt EXCEPT ![c] = @ + 1]
    /\ cpc' = [cpc EXCEPT ![c] = "loop"]
    /\ UNCHANGED <<inFlight, reqVars, hwVars, respSlot, csrHead, coalCount,
                   pollingInProgress, lockVars, pool, prodVars, quota>>

\* Mark the slot EMPTY, advance the head, count the message.
PollMark(c) ==
    /\ cpc[c] = "mark"
    /\ respSlot' = [respSlot EXCEPT ![Slot(head, RespSlots)] = None]
    /\ head' = head + 1
    /\ cnt' = [cnt EXCEPT ![c] = @ + 1]
    /\ cpc' = [cpc EXCEPT ![c] = "loop"]
    /\ UNCHANGED <<inFlight, reqVars, hwVars, csrHead, coalCount,
                   pollingInProgress, lockVars, pool, prodVars, quota>>

\* The loop ends: messages were processed, __sync_sub_and_fetch(in_flight).
PollRetire(c) ==
    /\ cpc[c] = "loop"
    /\ ~MoreToDo(c)
    /\ cnt[c] > 0
    /\ inFlight' = inFlight - cnt[c]
    /\ cpc' = [cpc EXCEPT ![c] = "head"]
    /\ UNCHANGED <<reqVars, hwVars, respVars, lockVars, pool, prodVars,
                   quota, cnt>>

\* The loop ends with nothing processed: return RETRY.
PollNothing(c) ==
    /\ cpc[c] = "loop"
    /\ ~MoreToDo(c)
    /\ cnt[c] = 0
    /\ cpc' = [cpc EXCEPT ![c] = "release"]
    /\ UNCHANGED <<inFlight, reqVars, hwVars, respVars, lockVars, pool,
                   prodVars, quota, cnt>>

\* Wrong variants of PollHead: the test, the CSR written, the count kept.
PollHeadVariant(c, test, csr, coal) ==
    /\ cpc[c] = "head"
    /\ IF test
       THEN coalCount' = MinResps /\ csrHead' = csr
       ELSE coalCount' = coal /\ csrHead' = csrHead
    /\ cpc' = [cpc EXCEPT ![c] = "release"]
    /\ UNCHANGED <<inFlight, reqVars, hwVars, respSlot, head,
                   pollingInProgress, lockVars, pool, prodVars, quota, cnt>>

\* The comparison is the wrong way round.
PollHeadSwapped(c) ==
    PollHeadVariant(c, cnt[c] < coalCount, head, coalCount - cnt[c])

\* The responses of a poll that writes no CSR are forgotten.
PollHeadForgetful(c) ==
    PollHeadVariant(c, cnt[c] > coalCount \/ Irq, head, coalCount)

\* The messages just processed are added to a head that has them already.
PollHeadTwice(c) ==
    PollHeadVariant(c, cnt[c] > coalCount \/ Irq, head + cnt[c],
                    coalCount - cnt[c])

\* The coalesced write of the head CSR.
PollHead(c) ==
    /\ cpc[c] = "head"
    /\ IF cnt[c] > coalCount \/ Irq
       THEN /\ coalCount' = MinResps
            /\ csrHead' = head
       ELSE /\ coalCount' = coalCount - cnt[c]
            /\ csrHead' = csrHead
    /\ cpc' = [cpc EXCEPT ![c] = "release"]
    /\ UNCHANGED <<inFlight, reqVars, hwVars, respSlot, head,
                   pollingInProgress, lockVars, pool, prodVars, quota, cnt>>

\* osalAtomicSet(1, pollingInProgress): adf_pollRing returns.
PollRelease(c) ==
    /\ cpc[c] = "release"
    /\ pollingInProgress' = 1
    /\ cpc' = [cpc EXCEPT ![c] = "unlock"]
    /\ UNCHANGED <<inFlight, reqVars, hwVars, respSlot, head, csrHead,
                   coalCount, lockVars, pool, prodVars, quota, cnt>>

\* ICP_MUTEX_UNLOCK of the lock the entry point took.
PollUnlock(c) ==
    /\ cpc[c] = "unlock"
    /\ IF c \in BankPollers
       THEN bankLock' = None /\ rxLock' = rxLock
       ELSE rxLock' = None /\ bankLock' = bankLock
    /\ cpc' = [cpc EXCEPT ![c] = "idle"]
    /\ quota' = [quota EXCEPT ![c] = 0]
    /\ cnt' = [cnt EXCEPT ![c] = 0]
    /\ UNCHANGED <<inFlight, reqVars, hwVars, respVars, pool, prodVars>>

Poller(c) ==
    \/ PollBankEnter(c)
    \/ PollInstEnter(c)
    \/ PollTest(c)
    \/ PollCallback(c)
    \/ PollMark(c)
    \/ PollRetire(c)
    \/ PollNothing(c)
    \/ PollHead(c)
    \/ PollRelease(c)
    \/ PollUnlock(c)

Next ==
    \/ \E p \in Producers : Producer(p)
    \/ HwFetch
    \/ HwRespond
    \/ \E c \in Pollers : Poller(c)

Spec == Init /\ [][Next]_vars

-----------------------------------------------------------------------------
(* What the ring pair promises.                                            *)

ppcStates == {"idle", "put", "undo", "retry", "write", "tail"}
cpcStates == {"idle", "test", "loop", "mark", "head", "release", "unlock"}

\* Every variable of the ring pair has the type its C field has; the
\* counters never go below zero although the code only ever subtracts.
TypeOK ==
    /\ inFlight \in Nat
    /\ putLock \in Producers \cup {None}
    /\ tail \in Nat
    /\ csrTail \in Nat
    /\ reqSlot \in [0..ReqSlots-1 -> Tags \cup {None}]
    /\ hwHead \in Nat
    /\ hw \in Seq(Tags \cup {None})
    /\ hwTail \in Nat
    /\ respSlot \in [0..RespSlots-1 -> Tags \cup {None}]
    /\ head \in Nat
    /\ csrHead \in Nat
    /\ coalCount \in Nat
    /\ pollingInProgress \in -1..1
    /\ bankLock \in BankPollers \cup {None}
    /\ rxLock \in InstPollers \cup {None}
    /\ pool \subseteq Tags \cup {None}
    /\ ppc \in [Producers -> ppcStates]
    /\ ptag \in [Producers -> Tags \cup {None}]
    /\ cpc \in [Pollers -> cpcStates]
    /\ quota \in [Pollers -> Nat]
    /\ cnt \in [Pollers -> Nat]

\* The requests in the request ring, those the device serves, and the
\* responses no callback has been made for.
Fetchable == {reqSlot[Slot(i, ReqSlots)] : i \in hwHead..csrTail-1}
Served == {hw[k] : k \in DOMAIN hw}
Called == Cardinality({c \in Pollers : cpc[c] = "mark"})
Unread == {respSlot[Slot(i, RespSlots)] : i \in head+Called..hwTail-1}
Outstanding == Fetchable \cup Served \cup Unread
Held == {ptag[p] : p \in Producers} \ {None}

\* Every cookie is in exactly one place: free, held by one producer, in the
\* request ring, in the device or in the response ring.  A request that is
\* lost, duplicated, overwritten in its slot or answered twice breaks it.
Conservation ==
    /\ Outstanding \cup Held \cup pool = Tags
    /\ Cardinality(pool) + Cardinality(Held)
         + (csrTail - hwHead) + Len(hw) + (hwTail - head - Called)
         = Cardinality(Tags)

\* The poller that passed the test of pollingInProgress and has not reset it.
Polling(c) == cpc[c] \in {"loop", "mark", "head", "release"}

\* adf_pollRing lets one thread poll the ring, whichever entry point and
\* lock it came through: the head, the coalescing counter and the slots
\* have no other protection.
PollExclusion ==
    \A c, d \in Pollers : Polling(c) /\ Polling(d) => c = d

\* 1 when a producer has added itself to the counter and not yet written
\* its request or taken itself off.
Reserved == IF putLock = None THEN 0 ELSE 1

\* Messages the poller c has processed and not yet taken off the counter.
Unretired(c) == IF cpc[c] \in {"loop", "mark"} THEN cnt[c] ELSE 0

\* The counter is exact whenever the two sides race: what was put and not
\* processed, plus what each of them has in hand.
Accounting ==
    /\ (\A c \in Pollers : ~Polling(c)) => inFlight = tail - head + Reserved
    /\ \A c \in Pollers : Polling(c) =>
          inFlight = tail - head + Reserved + Unretired(c)

\* The requests on their way never exceed max_requests_inflight, so that
\* neither ring is ever asked to hold more than the configuration says.
InFlightBound ==
    /\ tail - head <= MaxRequestsInFlight
    /\ inFlight <= MaxRequestsInFlight + 1

\* A put never writes a slot whose request the device has still to fetch,
\* and the device never writes a slot whose response was not processed.
NoOverrun ==
    /\ \A p \in Producers : ppc[p] \in {"write", "tail"} =>
          tail - hwHead < ReqSlots
    /\ hwTail - csrHead < RespSlots
    /\ csrHead <= head

\* The sentinel tells the truth: the slots between the head and what the
\* device wrote hold responses, and every other slot reads EMPTY, so that a
\* poller stops where the device has not written and never reads an answer
\* left from the previous lap.
SentinelSound ==
    LET live == {Slot(i, RespSlots) : i \in head..hwTail-1}
    IN \A s \in 0..RespSlots-1 : respSlot[s] # None <=> s \in live

\* The coalesced head CSR is never more than min_resps_per_head_write
\* behind the head, so the device always has room, seen through the CSR,
\* once the poller has caught up.
HeadLag ==
    (\A c \in Pollers : ~Polling(c)) => head - csrHead + coalCount <= MinResps

\* E_STAT never hides a response from icp_sal_pollBank: while a response is
\* unread the tail and the head CSR are different slots.
EStatSound ==
    head < hwTail => Slot(hwTail, RespSlots) # Slot(csrHead, RespSlots)

\* The device never mistakes a full request ring for an empty one.
FullIsNotEmpty ==
    hwHead < csrTail => Slot(csrTail, ReqSlots) # Slot(hwHead, ReqSlots)

\* RETRY is honest: a put that is refused found as many requests accepted
\* and not yet taken off the counter as the ring may have in flight.
RetryOnlyWhenFull ==
    [][\A p \in Producers : ppc[p] = "put" /\ ppc'[p] = "undo" =>
          \/ tail - head >= MaxRequestsInFlight
          \/ \E c \in Pollers : tail - head + Unretired(c) >= MaxRequestsInFlight
      ]_vars

-----------------------------------------------------------------------------
(* Progress.  The device serves what it is given.  A thread that holds a   *)
(* lock or the poll guard goes on; the polling thread of an instance polls *)
(* for ever (sal_dc_polling).                                              *)

Fairness ==
    /\ WF_vars(HwFetch)
    /\ WF_vars(HwRespond)
    /\ \A p \in Producers : WF_vars(PutUndo(p) \/ Backout(p) \/ PutWrite(p)
                                    \/ PutTail(p))
    /\ \A c \in Pollers : WF_vars(Poller(c) /\ cpc[c] # "idle")
    /\ \A c \in InstPollers : WF_vars(PollInstEnter(c))

FairSpec == Spec /\ Fairness

\* Every request the ring accepted is answered and its cookie comes back.
Answered == \A t \in Tags : t \in Outstanding ~> t \in pool

-----------------------------------------------------------------------------
(* The ring pair is a bounded channel that answers each accepted request   *)
(* once, in any order.                                                     *)

Channel == INSTANCE RequestChannel WITH
    Capacity    <- MaxRequestsInFlight,
    outstanding <- Outstanding,
    accepted    <- tail,
    answered    <- head + Called

ChannelSpec == Channel!Spec

=============================================================================

----------------------------- MODULE DcLifecycle ----------------------------
(***************************************************************************)
(* The compression services of a device, from icp_sal_userStart to         *)
(* icp_sal_userStop, and the bank of rings they share: the reference       *)
(* count, the mapped bundle, its shadow, and the handles that write their  *)
(* registers through either.                                               *)
(*                                                                         *)
(* One thread at a time is in here (sync_lock; one thread polls the device *)
(* events).  Each step on a handle is an action, since requests and bank   *)
(* polls of other threads come in between.  One device, all of whose       *)
(* services use one bank.  Setting up may fail anywhere but in the         *)
(* allocation of the ring array (init_rings_from_bank), and a restart that *)
(* began succeeds.  A start that failed may be tried again: the library    *)
(* then begins with empty tables.                                          *)
(***************************************************************************)
EXTENDS Integers, FiniteSets

CONSTANTS
    NumServices, \* instances, in the order of SAL's list
    MaxStarts    \* nested icp_sal_userStart; at most START_REF_COUNT_MAX

ASSUME SizesAssumption ==
    /\ NumServices \in Nat \ {0}
    /\ MaxStarts \in Nat \ {0}

VARIABLES
    starts,   \* start_ref_count
    bits,     \* subsystemInitBit and subsystemStartBit, set together
    event,    \* the event being handled
    cur, side, \* how far it is: the service, and its handle or "end"
    state,    \* service: generic_service_info.state
    handle,   \* handle: "none", or where its csr_addr points
    bank      \* adf_dev_bank_handle_t

vars == <<starts, bits, event, cur, side, state, handle, bank>>

Services == 1 .. NumServices
Handles == Services \X {"tx", "rx"}
Here == <<cur, side>>

(* refs; bundle: is it mapped; rings: is the array allocated; slot: the    *)
(* handles in it; shadow: is it allocated; csr: where csr_addr points;     *)
(* mask, polled: ring_mask and pollingMask.                                *)
FreshBank ==
    [refs |-> 0, bundle |-> FALSE, rings |-> FALSE, slot |-> {},
     shadow |-> FALSE, csr |-> "bundle", mask |-> {}, polled |-> {}]

Init ==
    /\ starts = 0
    /\ bits = FALSE
    /\ event = "none"
    /\ cur = 1
    /\ side = "tx"
    /\ state = [s \in Services |-> "uninitialized"]
    /\ handle = [h \in Handles |-> "none"]
    /\ bank = FreshBank

-----------------------------------------------------------------------------
(* The bank, adf_user_transport_ctrl.c.                                    *)

\* init_bank_from_accel and reinit_bank_from_accel, for a bank without bundle.
MapBundle(b) ==
    IF b.bundle THEN b
    ELSE [b EXCEPT !.bundle = TRUE, !.csr = "bundle", !.shadow = TRUE,
                   !.rings = TRUE, !.slot = {}]

\* adf_free_bundle
FreeBundle(b) ==
    IF b.refs # 0 THEN b
    ELSE [b EXCEPT !.bundle = FALSE, !.shadow = FALSE, !.rings = FALSE]

\* Wrong variant of CleanBundle: whoever still uses the bundle.
CleanBundleEager(b) ==
    [b EXCEPT !.bundle = FALSE, !.rings = FALSE, !.csr = "shadow"]

\* adf_clean_bundle: the shadow stays.
CleanBundle(b) ==
    IF b.refs # 0 THEN b
    ELSE [b EXCEPT !.bundle = FALSE, !.rings = FALSE, !.csr = "shadow"]

\* The ring of h is set up, and a response ring is polled.
Enter(b, h) ==
    [b EXCEPT !.mask = @ \cup {h}, !.refs = @ + 1, !.slot = @ \cup {h},
              !.polled = IF h[2] = "rx" THEN @ \cup {h} ELSE @]

\* Wrong variant of Leave: counts the handle whether the bank has it or not.
LeaveTwice(b, h) ==
    [b EXCEPT !.mask = @ \ {h}, !.polled = @ \ {h}, !.slot = @ \ {h},
              !.refs = IF b.rings THEN @ - 2 ELSE @]

\* icp_adf_transCleanHandle, adf_clean_ring, and the reference.
Leave(b, h) ==
    [b EXCEPT !.mask = @ \ {h}, !.polled = @ \ {h},
              !.slot = IF b.rings THEN @ \ {h} ELSE @,
              !.refs = IF b.rings THEN @ - 1 ELSE @]

\* icp_adf_transCreateHandle: adf_reserve_ring refuses a ring in use.
CreateHandle(h) ==
    /\ h \notin bank.mask
    /\ bank' = Enter(MapBundle(bank), h)
    /\ handle' = [handle EXCEPT ![h] = bank'.csr]

\* ... fails: for want of a bundle, or after the bank has it.
CreateFails ==
    /\ bank' \in {bank, FreeBundle(MapBundle(bank))}
    /\ UNCHANGED handle

\* icp_adf_transReinitHandle
ReinitHandle(h) ==
    /\ bank' = Enter(MapBundle(bank), h)
    /\ handle' = [handle EXCEPT ![h] = bank'.csr]

\* icp_adf_transReleaseHandle
ReleaseHandle(h) ==
    /\ bank' = FreeBundle(Leave(bank, h))
    /\ handle' = [handle EXCEPT ![h] = "none"]

\* icp_adf_transResetHandle: the handle goes over to the shadow.
ResetHandle(h) ==
    /\ bank' = IF bank.rings THEN CleanBundle(Leave(bank, h))
               ELSE Leave(bank, h)
    /\ handle' = [handle EXCEPT ![h] = "shadow"]

-----------------------------------------------------------------------------
(* Walking the list of services and the two handles of each.               *)

Begin(e) == event' = e /\ cur' = 1 /\ side' = "tx"
End == Begin("none")
NextHandle == side' = (IF side = "tx" THEN "rx" ELSE "end") /\ UNCHANGED cur
NextService == cur' = cur + 1 /\ side' = "tx" /\ UNCHANGED event

-----------------------------------------------------------------------------
(* icp_sal_userStart: INIT and START.                                      *)

\* The first start sets the tables up; the others count.
UserStart ==
    /\ event = "none"
    /\ starts < MaxStarts
    /\ IF starts = 0
       THEN Begin("init") /\ UNCHANGED starts
       ELSE starts' = starts + 1 /\ UNCHANGED <<event, cur, side>>
    /\ IF starts = 0
       THEN /\ bank' = FreshBank
            /\ handle' = [h \in Handles |-> "none"]
            /\ state' = [s \in Services |-> "uninitialized"]
       ELSE UNCHANGED <<bank, handle, state>>
    /\ UNCHANGED bits

\* SalCtrl_CompressionInit: the two handles, ...
CreateNext ==
    /\ event = "init"
    /\ side # "end"
    /\ state' = [state EXCEPT ![cur] = "initializing"]
    /\ \/ CreateHandle(Here) /\ NextHandle /\ UNCHANGED event
       \/ CreateFails /\ event' = "cleanup" /\ UNCHANGED <<cur, side>>
    /\ UNCHANGED <<starts, bits>>

\* ... then pools and statistics, whose failure goes to the clean-up, and the
\* chaining service, whose failure returns at once: the two handles stay.
\* After the last service START is sent.
Initialized ==
    /\ event = "init"
    /\ side = "end"
    /\ \/ /\ state' = [state EXCEPT ![cur] = "initialized"]
          /\ IF cur = NumServices THEN Begin("start") ELSE NextService
       \/ event' = "cleanup" /\ UNCHANGED <<cur, side, state>>
       \/ Begin("undo") /\ UNCHANGED state
    /\ UNCHANGED <<starts, bits, handle, bank>>

\* The service that failed releases what it has, ...
Cleanup ==
    /\ event = "cleanup"
    /\ IF handle[<<cur, "tx">>] # "none"
       THEN ReleaseHandle(<<cur, "tx">>) /\ UNCHANGED <<event, cur, side>>
       ELSE IF handle[<<cur, "rx">>] # "none"
       THEN ReleaseHandle(<<cur, "rx">>) /\ UNCHANGED <<event, cur, side>>
       ELSE Begin("undo") /\ UNCHANGED <<handle, bank>>
    /\ UNCHANGED <<starts, bits, state>>

\* ... those before it are shut down, and the start has failed.  The service
\* that failed is not among them, whatever it still holds.
Undone ==
    /\ event = "undo"
    /\ state[cur] # "initialized"
    /\ End
    /\ UNCHANGED <<starts, bits, state, handle, bank>>

\* SalCtrl_ServiceStart
StartServices ==
    /\ event = "start"
    /\ state' = [s \in Services |-> "running"]
    /\ bits' = TRUE
    /\ starts' = 1
    /\ End
    /\ UNCHANGED <<handle, bank>>

-----------------------------------------------------------------------------
(* icp_sal_userStop: STOP, SHUTDOWN, and the end of the process proxy.     *)

\* Services stop in their order, up to the first that is not running.
StopServices ==
    IF bits
    THEN [s \in Services |->
             IF \A u \in 1 .. s : state[u] = "running"
             THEN "shutting_down" ELSE state[s]]
    ELSE state

UserStop ==
    /\ event = "none"
    /\ starts > 0
    /\ IF starts > 1
       THEN starts' = starts - 1 /\ UNCHANGED <<event, cur, side, state>>
       ELSE /\ state' = StopServices
            /\ Begin(IF bits THEN "shutdown" ELSE "exit")
            /\ UNCHANGED starts
    /\ UNCHANGED <<bits, handle, bank>>

ShuttingDown ==
    \/ event = "shutdown" /\ state[cur] \in {"initialized", "shutting_down",
                                             "restarting"}
    \/ event = "undo" /\ state[cur] = "initialized"

\* SalCtrl_CompressionShutdown
ReleaseNext ==
    /\ ShuttingDown
    /\ side # "end"
    /\ ReleaseHandle(Here)
    /\ NextHandle
    /\ UNCHANGED <<starts, bits, event, state>>

Shutdown ==
    /\ ShuttingDown
    /\ side = "end"
    /\ state' = [state EXCEPT ![cur] = "shutdown"]
    /\ IF cur = NumServices THEN Begin("exit") ELSE NextService
    /\ UNCHANGED <<starts, bits, handle, bank>>

\* A service in error refuses to be shut down, and the others after it wait
\* in vain: their handles are abandoned.
ShutdownFails ==
    /\ event = "shutdown"
    /\ ~ShuttingDown
    /\ Begin("exit")
    /\ UNCHANGED <<starts, bits, state, handle, bank>>

\* adf_cleanup_device, adf_user_transport_exit
Exit ==
    /\ event = "exit"
    /\ End
    /\ starts' = 0
    /\ bits' = FALSE
    /\ bank' = [bank EXCEPT !.bundle = FALSE, !.rings = FALSE]
    /\ UNCHANGED <<state, handle>>

-----------------------------------------------------------------------------
(* The device fails and is restarted (module DcRecovery has the details).  *)

\* SalCtrl_CompressionError: this service has no responses left to poll.
ServiceError(s) ==
    /\ event = "none"
    /\ bits
    /\ state[s] = "running"
    /\ state' = [state EXCEPT ![s] = "error"]
    /\ UNCHANGED <<starts, bits, event, cur, side, handle, bank>>

EventRestarting ==
    /\ event = "none"
    /\ bits
    /\ Begin("restarting")
    /\ UNCHANGED <<starts, bits, state, handle, bank>>

\* SalCtrl_CompressionRestarting
ResetNext ==
    /\ event = "restarting"
    /\ side # "end"
    /\ ResetHandle(Here)
    /\ NextHandle
    /\ UNCHANGED <<starts, bits, event, state>>

\* After the last service adf_user_transport_clean empties the bank.
Restarting ==
    /\ event = "restarting"
    /\ side = "end"
    /\ state' = [state EXCEPT ![cur] = "restarting"]
    /\ IF cur = NumServices
       THEN /\ End
            /\ bits' = FALSE
            /\ bank' = [bank EXCEPT !.bundle = FALSE, !.rings = FALSE]
       ELSE NextService /\ UNCHANGED <<bits, bank>>
    /\ UNCHANGED <<starts, handle>>

\* adf_proxy_restart_device, adf_user_transport_reinit
EventRestarted ==
    /\ event = "none"
    /\ starts > 0
    /\ ~bits
    /\ Begin("restarted")
    /\ bank' = [bank EXCEPT !.mask = {}]
    /\ UNCHANGED <<starts, bits, state, handle>>

\* SalCtrl_CompressionRestarted
ReinitNext ==
    /\ event = "restarted"
    /\ side # "end"
    /\ ReinitHandle(Here)
    /\ NextHandle
    /\ UNCHANGED <<starts, bits, event, state>>

Restarted ==
    /\ event = "restarted"
    /\ side = "end"
    /\ state' = [state EXCEPT ![cur] = "running"]
    /\ IF cur = NumServices THEN End /\ bits' = TRUE
       ELSE NextService /\ UNCHANGED bits
    /\ UNCHANGED <<starts, handle, bank>>

-----------------------------------------------------------------------------
Next ==
    \/ UserStart \/ CreateNext \/ Initialized \/ Cleanup \/ Undone
    \/ StartServices
    \/ UserStop \/ ReleaseNext \/ Shutdown \/ ShutdownFails \/ Exit
    \/ \E s \in Services : ServiceError(s)
    \/ EventRestarting \/ ResetNext \/ Restarting
    \/ EventRestarted \/ ReinitNext \/ Restarted

Spec == Init /\ [][Next]_vars

-----------------------------------------------------------------------------
(* Properties.                                                             *)

States == {"uninitialized", "initializing", "initialized", "running", "error",
           "shutting_down", "shutdown", "restarting"}
EventKinds == {"none", "init", "cleanup", "undo", "start", "shutdown", "exit",
               "restarting", "restarted"}
Banks == [refs : Nat, bundle : BOOLEAN, rings : BOOLEAN,
          slot : SUBSET Handles, shadow : BOOLEAN,
          csr : {"bundle", "shadow"}, mask : SUBSET Handles,
          polled : SUBSET Handles]

\* Every variable keeps its type; the reference count never goes below zero.
TypeOK ==
    /\ starts \in 0 .. MaxStarts
    /\ bits \in BOOLEAN
    /\ event \in EventKinds
    /\ cur \in Services
    /\ side \in {"tx", "rx", "end"}
    /\ state \in [Services -> States]
    /\ handle \in [Handles -> {"none", "bundle", "shadow"}]
    /\ bank \in Banks

InUse == {h \in Handles : handle[h] = "bundle"}
Attached == starts > 0 \/ event # "none"

\* The bank holds exactly the handles that are set up, and counts them.
RefsMatch ==
    /\ bank.slot = InUse
    /\ bank.mask = InUse
    /\ bank.refs = Cardinality(InUse)

\* Where a handle writes its registers there is memory, and a bank poll reads
\* no ring that is not there.
HandlesBacked ==
    /\ InUse # {} => bank.bundle /\ bank.rings
    /\ (\E h \in Handles : handle[h] = "shadow") => bank.shadow
    /\ bank.polled \subseteq bank.slot

\* A service that lets requests in has its two rings.
RunningServed ==
    \A s \in Services :
        state[s] \in {"running", "error"} =>
            \/ handle[<<s, "tx">>] = "bundle" /\ handle[<<s, "rx">>] = "bundle"
            \/ event = "restarting" /\ cur = s

\* From the start to the stop a bank poll finds registers to read, those of
\* the shadow while the device restarts.
BankReadable ==
    event \in {"none", "restarting", "restarted"} =>
        IF bank.csr = "bundle" THEN bank.bundle ELSE bank.shadow

\* The two handles of the one service whose chaining service could not be set
\* up, and no others, are what a failed start leaves in use.
Abandoned(s) ==
    state[s] = "initializing" /\ InUse = {s} \X {"tx", "rx"}

\* Nobody keeps the bundle of a bank no handle uses, and no handle is in use
\* while the library is stopped, Abandoned excepted.
NothingKept ==
    event = "none" /\ bank.bundle =>
        /\ InUse # {}
        /\ starts > 0 \/ \E s \in Services : Abandoned(s)

\* However starting, stopping, failing and restarting follow each other, and
\* whichever service fails to start, the bank serves whoever uses it
\* (adf_user_transport_ctrl.c:249-305, 869-958).  It serves nobody else, with
\* one exception: a start that fails in the chaining service keeps the bundle
\* for the two handles of that service, which nothing releases
\* (sal_compression.c:973-989).
BankServes ==
    /\ Attached => RefsMatch /\ HandlesBacked /\ RunningServed
    /\ starts > 0 => BankReadable
    /\ NothingKept
=============================================================================

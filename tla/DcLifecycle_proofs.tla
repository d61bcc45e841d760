------------------------ MODULE DcLifecycle_proofs ------------------------
(***************************************************************************)
(* The bank that the services share, proved for any number of services and *)
(* of nested starts.  The inductive invariant IInv says how the bank       *)
(* agrees with the handles (BankInv), and how far each walk over the       *)
(* services has come: which handles are set up, released or moved to the   *)
(* shadow, and what state each service is in (the walk's own part).        *)
(***************************************************************************)
EXTENDS DcLifecycle, TLAPS, FiniteSetTheorems

\* The handles the walk has dealt with.
Passed(h) ==
    \/ h[1] < cur
    \/ h[1] = cur /\ (side = "end" \/ (side = "rx" /\ h[2] = "tx"))

\* The bank is mapped while a handle uses it, and knows these handles.
BankInv ==
    /\ RefsMatch
    /\ bank.bundle <=> InUse # {}
    /\ bank.rings <=> bank.bundle
    /\ bank.bundle => bank.shadow /\ bank.csr = "bundle"
    /\ (\E h \in Handles : handle[h] = "shadow") => bank.shadow
    /\ bank.polled \subseteq InUse

\* Services before the walk's were set up, those after it were not begun.
InitStates ==
    /\ \A s \in Services :
          /\ s < cur => state[s] = "initialized"
          /\ s > cur => state[s] = "uninitialized"
    /\ state[cur] \in {"uninitialized", "initializing"}

InitInv ==
    event = "init" =>
        /\ starts = 0 /\ ~bits
        /\ InitStates
        /\ side # "tx" => state[cur] = "initializing"
        /\ \A h \in Handles :
              handle[h] = IF Passed(h) THEN "bundle" ELSE "none"

CleanupInv ==
    event = "cleanup" =>
        /\ starts = 0 /\ ~bits
        /\ InitStates
        /\ \A h \in Handles :
              /\ handle[h] # "shadow"
              /\ h[1] < cur => handle[h] = "bundle"
              /\ h[1] > cur => handle[h] = "none"

\* The services to be shut down are those from the walk's on, in a row.  The
\* one that failed has its two handles or none, and keeps them.
UndoInv ==
    event = "undo" =>
        /\ starts = 0 /\ ~bits
        /\ side # "tx" => state[cur] = "initialized"
        /\ \A s \in Services :
              /\ state[s] \in {"uninitialized", "initializing", "initialized",
                               "shutdown"}
              /\ s < cur => state[s] = "shutdown"
              /\ state[s] = "initializing" =>
                    /\ handle[<<s, "tx">>] = handle[<<s, "rx">>]
                    /\ handle[<<s, "tx">>] # "shadow"
        /\ \A s, u \in Services :
              state[s] = "initializing" /\ state[u] = "initializing" => s = u
        /\ \A s, u \in Services :
              cur <= s /\ s <= u /\ state[u] = "initialized"
                  => state[s] = "initialized"
        /\ \A h \in Handles : state[h[1]] # "initializing" =>
              handle[h] = IF state[h[1]] = "initialized" /\ ~Passed(h)
                          THEN "bundle" ELSE "none"

StartInv ==
    event = "start" =>
        /\ starts = 0 /\ ~bits
        /\ \A s \in Services : state[s] = "initialized"
        /\ \A h \in Handles : handle[h] = "bundle"

\* Between two events: stopped, running, or waiting for the device.
IdleInv ==
    event = "none" =>
        /\ starts = 0 => ~bits
        /\ starts = 0 /\ bank.bundle => \E s \in Services : Abandoned(s)
        /\ starts > 0 /\ bits =>
              /\ \A s \in Services : state[s] \in {"running", "error"}
              /\ \A h \in Handles : handle[h] = "bundle"
        /\ starts > 0 /\ ~bits =>
              /\ \A s \in Services : state[s] = "restarting"
              /\ \A h \in Handles : handle[h] = "shadow"
              /\ bank.csr = "shadow"

RestartingInv ==
    event = "restarting" =>
        /\ starts > 0 /\ bits
        /\ InUse = {} => bank.csr = "shadow"
        /\ \A s \in Services :
              IF s < cur THEN state[s] = "restarting"
              ELSE state[s] \in {"running", "error"}
        /\ \A h \in Handles :
              handle[h] = IF Passed(h) THEN "shadow" ELSE "bundle"

RestartedInv ==
    event = "restarted" =>
        /\ starts > 0 /\ ~bits
        /\ InUse = {} => bank.csr = "shadow"
        /\ \A s \in Services :
              state[s] = IF s < cur THEN "running" ELSE "restarting"
        /\ \A h \in Handles :
              handle[h] = IF Passed(h) THEN "bundle" ELSE "shadow"

ShutdownInv ==
    event = "shutdown" =>
        /\ starts = 1 /\ bits
        /\ side # "tx" => state[cur] = "shutting_down"
        /\ \A s \in Services :
              IF s < cur THEN state[s] = "shutdown"
              ELSE state[s] \in {"running", "error", "shutting_down"}
        /\ \A h \in Handles :
              handle[h] = IF Passed(h) THEN "none" ELSE "bundle"

\* Handles were abandoned, with the services that refused to be shut down.
ExitInv ==
    event = "exit" =>
        \A s \in Services : state[s] \in {"running", "error"} =>
            handle[<<s, "tx">>] = "bundle" /\ handle[<<s, "rx">>] = "bundle"

WalkInv ==
    /\ InitInv /\ CleanupInv /\ UndoInv /\ StartInv /\ IdleInv
    /\ RestartingInv /\ RestartedInv /\ ShutdownInv /\ ExitInv

IInv ==
    /\ TypeOK
    /\ Attached => BankInv
    /\ WalkInv

-----------------------------------------------------------------------------
(* The bank under the operations on one handle.                            *)

\* A handle is the transmit or the receive ring of a service.
LEMMA HandlePairs ==
    /\ \A h \in Handles : h[1] \in Services /\ h[2] \in {"tx", "rx"}
                          /\ h = <<h[1], h[2]>>
    /\ \A s \in Services : <<s, "tx">> \in Handles /\ <<s, "rx">> \in Handles
    /\ 1 \in Services
  BY SizesAssumption DEF Handles, Services

LEMMA HandlesFinite ==
    \A S : S \subseteq Handles => IsFiniteSet(S) /\ Cardinality(S) \in Nat
  <1>1. IsFiniteSet(Services)
    BY SizesAssumption, FS_Interval DEF Services
  <1>2. IsFiniteSet({"tx", "rx"})
    <2>1. {"tx", "rx"} = {"tx"} \cup {"rx"}
      OBVIOUS
    <2>2. IsFiniteSet({"tx"}) /\ IsFiniteSet({"rx"})
      BY FS_Singleton
    <2>3. IsFiniteSet({"tx"} \cup {"rx"})
      BY <2>2, FS_Union
    <2> QED
      BY <2>1, <2>3
  <1>3. IsFiniteSet(Handles)
    BY <1>1, <1>2, FS_Product DEF Handles
  <1> QED
    BY <1>3, FS_Subset, FS_CardinalityType

\* How the set of handles that use the bank grows and shrinks.
LEMMA UseCount ==
    ASSUME TypeOK, NEW h \in Handles
    PROVE  /\ InUse \subseteq Handles /\ IsFiniteSet(InUse)
           /\ Cardinality(InUse) \in Nat
           /\ Cardinality(InUse) = 0 <=> InUse = {}
           /\ h \notin InUse =>
                Cardinality(InUse \cup {h}) = Cardinality(InUse) + 1
           /\ h \in InUse =>
                /\ Cardinality(InUse \ {h}) = Cardinality(InUse) - 1
                /\ Cardinality(InUse) - 1 \in Nat
                /\ Cardinality(InUse) - 1 = 0 <=> InUse \ {h} = {}
  <1>1. InUse \subseteq Handles
    BY DEF InUse
  <1>2. IsFiniteSet(InUse) /\ IsFiniteSet(InUse \ {h})
        /\ Cardinality(InUse) \in Nat /\ Cardinality(InUse \ {h}) \in Nat
    BY <1>1, HandlesFinite
  <1>3. /\ Cardinality(InUse) = 0 <=> InUse = {}
        /\ Cardinality(InUse \ {h}) = 0 <=> InUse \ {h} = {}
    BY <1>2, FS_EmptySet
  <1>4. h \notin InUse => Cardinality(InUse \cup {h}) = Cardinality(InUse) + 1
    BY <1>2, FS_AddElement
  <1>5. h \in InUse => Cardinality(InUse \ {h}) = Cardinality(InUse) - 1
    BY <1>2, FS_RemoveElement
  <1> QED
    BY <1>1, <1>2, <1>3, <1>4, <1>5

\* What Enter changes.
LEMMA EnterFields ==
    ASSUME NEW b \in Banks, NEW h \in Handles
    PROVE  /\ Enter(b, h) \in Banks
           /\ Enter(b, h).refs = b.refs + 1
           /\ Enter(b, h).slot = b.slot \cup {h}
           /\ Enter(b, h).mask = b.mask \cup {h}
           /\ Enter(b, h).polled \subseteq b.polled \cup {h}
           /\ Enter(b, h).bundle = b.bundle
           /\ Enter(b, h).rings = b.rings
           /\ Enter(b, h).shadow = b.shadow
           /\ Enter(b, h).csr = b.csr
  <1> DEFINE m == b.mask \cup {h}
             l == b.slot \cup {h}
             n == b.refs + 1
             p == IF h[2] = "rx" THEN b.polled \cup {h} ELSE b.polled
  <1>1. /\ m \in SUBSET Handles /\ l \in SUBSET Handles /\ n \in Nat
        /\ p \in SUBSET Handles /\ p \subseteq b.polled \cup {h}
    BY DEF Banks
  <1>2. Enter(b, h) =
          [b EXCEPT !.mask = m, !.refs = n, !.slot = l, !.polled = p]
    BY DEF Enter
  <1> HIDE DEF m, n, l, p
  <1>3. /\ Enter(b, h) \in Banks
        /\ Enter(b, h).refs = n /\ Enter(b, h).slot = l
        /\ Enter(b, h).mask = m /\ Enter(b, h).polled = p
        /\ Enter(b, h).bundle = b.bundle /\ Enter(b, h).rings = b.rings
        /\ Enter(b, h).shadow = b.shadow /\ Enter(b, h).csr = b.csr
    BY <1>1, <1>2 DEF Banks
  <1> QED
    BY <1>1, <1>3 DEF m, n, l, p

\* Setting a handle up maps the bank for it.
LEMMA EnterBank ==
    ASSUME TypeOK, BankInv, NEW h \in Handles, handle[h] # "bundle",
           bank' = Enter(MapBundle(bank), h),
           handle' = [handle EXCEPT ![h] = bank'.csr]
    PROVE  /\ handle' = [handle EXCEPT ![h] = "bundle"]
           /\ bank' \in Banks
           /\ BankInv'
  <1> USE DEF TypeOK, Banks, BankInv, RefsMatch
  <1> DEFINE m == MapBundle(bank)
  <1>a. /\ m \in Banks /\ m.csr = "bundle" /\ m.bundle /\ m.rings /\ m.shadow
        /\ m.slot = InUse /\ m.mask = InUse /\ m.refs = bank.refs
        /\ m.polled = bank.polled
    BY HandlePairs, UseCount DEF MapBundle
  <1> HIDE DEF m
  <1>b. bank' = Enter(m, h)
    BY DEF m
  <1>1. bank'.csr = "bundle" /\ bank' \in Banks
    BY <1>a, <1>b, EnterFields
  <1>2. handle' = [handle EXCEPT ![h] = "bundle"]
    BY <1>1
  <1>3. InUse' = InUse \cup {h} /\ h \notin InUse
    BY <1>2 DEF InUse
  <1>4. Cardinality(InUse') = Cardinality(InUse) + 1
    BY <1>3, UseCount
  <1>5. /\ bank'.bundle /\ bank'.rings /\ bank'.shadow
        /\ bank'.slot = InUse \cup {h} /\ bank'.mask = InUse \cup {h}
        /\ bank'.refs = Cardinality(InUse) + 1
        /\ bank'.polled \subseteq InUse \cup {h}
    BY <1>a, <1>b, EnterFields
  <1> QED
    BY <1>1, <1>2, <1>3, <1>4, <1>5

\* Releasing a handle unmaps the bank after the last of them.
LEMMA ReleaseBank ==
    ASSUME TypeOK, BankInv, NEW h \in Handles, handle[h] = "bundle",
           \A g \in Handles : handle[g] # "shadow",
           ReleaseHandle(h)
    PROVE  /\ handle' = [handle EXCEPT ![h] = "none"]
           /\ bank' \in Banks
           /\ BankInv'
  <1> USE DEF TypeOK, Banks, BankInv, RefsMatch
  <1>1. handle' = [handle EXCEPT ![h] = "none"]
    BY DEF ReleaseHandle
  <1>2. InUse' = InUse \ {h} /\ h \in InUse
    BY <1>1 DEF InUse
  <1>3. /\ bank.rings /\ bank.bundle /\ bank.refs - 1 \in Nat
        /\ bank.refs - 1 = Cardinality(InUse')
        /\ bank.refs - 1 = 0 <=> InUse' = {}
    BY <1>2, UseCount
  <1>4. /\ bank'.slot = InUse \ {h} /\ bank'.mask = InUse \ {h}
        /\ bank'.refs = bank.refs - 1
        /\ bank'.polled \subseteq InUse \ {h}
        /\ bank'.bundle <=> bank.refs - 1 # 0
        /\ bank'.rings = bank'.bundle /\ bank'.shadow = bank'.bundle
        /\ bank'.csr = "bundle"
    BY <1>3 DEF ReleaseHandle, FreeBundle, Leave
  <1>5. bank' \in Banks
    BY <1>3 DEF ReleaseHandle, FreeBundle, Leave
  <1>6. ~\E g \in Handles : handle'[g] = "shadow"
    BY <1>1
  <1> QED
    BY <1>1, <1>2, <1>3, <1>4, <1>5, <1>6

\* Moving a handle to the shadow: after the last of them the bundle goes and
\* the shadow stays.
LEMMA ResetBank ==
    ASSUME TypeOK, BankInv, NEW h \in Handles, handle[h] = "bundle",
           ResetHandle(h)
    PROVE  /\ handle' = [handle EXCEPT ![h] = "shadow"]
           /\ bank' \in Banks
           /\ BankInv'
           /\ InUse' = {} => bank'.csr = "shadow"
  <1> USE DEF TypeOK, Banks, BankInv, RefsMatch
  <1>1. handle' = [handle EXCEPT ![h] = "shadow"]
    BY DEF ResetHandle
  <1>2. InUse' = InUse \ {h} /\ h \in InUse
    BY <1>1 DEF InUse
  <1>3. /\ bank.rings /\ bank.bundle /\ bank.shadow /\ bank.refs - 1 \in Nat
        /\ bank.refs - 1 = Cardinality(InUse')
        /\ bank.refs - 1 = 0 <=> InUse' = {}
    BY <1>2, UseCount
  <1>4. /\ bank'.slot = InUse \ {h} /\ bank'.mask = InUse \ {h}
        /\ bank'.refs = bank.refs - 1
        /\ bank'.polled \subseteq InUse \ {h}
        /\ bank'.bundle <=> bank.refs - 1 # 0
        /\ bank'.rings = bank'.bundle /\ bank'.shadow
        /\ bank'.csr = IF bank.refs - 1 = 0 THEN "shadow" ELSE "bundle"
    BY <1>3 DEF ResetHandle, CleanBundle, Leave
  <1>5. bank' \in Banks
    BY <1>3 DEF ResetHandle, CleanBundle, Leave
  <1> QED
    BY <1>1, <1>2, <1>3, <1>4, <1>5

\* A handle that cannot be set up leaves the bank as it was.
LEMMA FailedBank ==
    ASSUME TypeOK, BankInv, \A g \in Handles : handle[g] # "shadow",
           CreateFails
    PROVE  bank' \in Banks /\ BankInv'
  <1> USE DEF TypeOK, Banks, BankInv, RefsMatch
  <1>1. InUse' = InUse /\ handle' = handle
    BY DEF CreateFails, InUse
  <1>2. InUse \subseteq Handles /\ Cardinality(InUse) \in Nat
        /\ (Cardinality(InUse) = 0 <=> InUse = {})
    BY HandlePairs, UseCount
  <1>3. CASE bank.bundle
    <2>1. bank' = bank
      BY <1>2, <1>3 DEF CreateFails, FreeBundle, MapBundle
    <2> QED
      BY <1>1, <2>1
  <1>4. CASE ~bank.bundle /\ bank' = bank
    BY <1>1, <1>4
  <1>5. CASE ~bank.bundle /\ bank' # bank
    <2>1. bank.refs = 0 /\ InUse = {} /\ bank.slot = {}
      BY <1>2, <1>5
    <2>2. bank' = FreeBundle(MapBundle(bank))
      BY <1>5 DEF CreateFails
    <2> DEFINE m == MapBundle(bank)
    <2>3. m = [bank EXCEPT !.bundle = TRUE, !.csr = "bundle", !.shadow = TRUE,
                           !.rings = TRUE, !.slot = {}]
      BY <1>5 DEF MapBundle
    <2>4. bank' = [m EXCEPT !.bundle = FALSE, !.shadow = FALSE, !.rings = FALSE]
      BY <2>1, <2>2, <2>3 DEF FreeBundle
    <2>5. /\ bank' \in Banks
          /\ ~bank'.bundle /\ ~bank'.rings
          /\ bank'.slot = {} /\ bank'.mask = bank.mask
          /\ bank'.refs = bank.refs /\ bank'.polled = bank.polled
      BY <2>3, <2>4
    <2> QED
      BY <1>1, <1>2, <2>1, <2>5
  <1> QED
    BY <1>3, <1>4, <1>5

-----------------------------------------------------------------------------
(* How far the walk is.                                                    *)

LEMMA Progress ==
    ASSUME TypeOK
    PROVE  /\ side # "end" =>
                /\ Here \in Handles /\ ~Passed(Here)
                /\ NextHandle => \A h \in Handles :
                       Passed(h)' <=> Passed(h) \/ h = Here
           /\ side = "end" =>
                /\ NextService => \A h \in Handles : Passed(h)' <=> Passed(h)
                /\ cur = NumServices => \A h \in Handles : Passed(h)
           /\ cur' = 1 /\ side' = "tx" => \A h \in Handles : ~Passed(h)'
  <1> USE DEF TypeOK, Services
  <1>1. ASSUME side # "end"
        PROVE  /\ Here \in Handles /\ ~Passed(Here)
               /\ NextHandle => \A h \in Handles :
                      Passed(h)' <=> Passed(h) \/ h = Here
    <2>1. Here \in Handles /\ ~Passed(Here)
      BY <1>1 DEF Here, Handles, Passed
    <2>2. ASSUME NextHandle, NEW h \in Handles
          PROVE  Passed(h)' <=> Passed(h) \/ h = Here
      <3>1. h[1] \in Services /\ h[2] \in {"tx", "rx"} /\ h = <<h[1], h[2]>>
        BY HandlePairs
      <3>2. h = Here <=> h[1] = cur /\ h[2] = side
        BY <3>1 DEF Here
      <3>3. cur' = cur /\ side' = (IF side = "tx" THEN "rx" ELSE "end")
        BY <2>2 DEF NextHandle
      <3> QED
        BY <1>1, <3>1, <3>2, <3>3 DEF Passed
    <2> QED
      BY <2>1, <2>2
  <1>2. ASSUME side = "end", NextService
        PROVE  \A h \in Handles : Passed(h)' <=> Passed(h)
    BY <1>2, HandlePairs DEF NextService, Passed
  <1>3. ASSUME side = "end", cur = NumServices
        PROVE  \A h \in Handles : Passed(h)
    BY <1>3, HandlePairs, SizesAssumption DEF Passed
  <1>4. ASSUME cur' = 1, side' = "tx"
        PROVE  \A h \in Handles : ~Passed(h)'
    BY <1>4, HandlePairs, SizesAssumption DEF Passed
  <1> QED
    BY <1>1, <1>2, <1>3, <1>4

\* A bank that is left alone, and so are the handles.
LEMMA SameBank ==
    ASSUME BankInv, UNCHANGED <<handle, bank>>
    PROVE  BankInv'
  BY DEF BankInv, RefsMatch, InUse

-----------------------------------------------------------------------------
(* The initial states, and each action.                                    *)

LEMMA InitIInv ==
    Init => IInv
  <1> SUFFICES ASSUME Init PROVE IInv
    OBVIOUS
  <1>1. FreshBank \in Banks
    BY DEF FreshBank, Banks
  <1>2. TypeOK
    <2>1. bank \in Banks /\ cur \in Services /\ side = "tx"
      BY <1>1, HandlePairs DEF Init
    <2>2. state \in [Services -> States]
      BY DEF Init, States
    <2>3. handle \in [Handles -> {"none", "bundle", "shadow"}]
      BY DEF Init
    <2>4. starts \in 0 .. MaxStarts /\ event = "none"
      BY SizesAssumption DEF Init
    <2>5. bits \in BOOLEAN
      BY DEF Init
    <2> QED
      BY <2>1, <2>2, <2>3, <2>4, <2>5 DEF TypeOK, EventKinds
  <1>3. ~Attached /\ WalkInv
    BY DEF Init, Attached, FreshBank, WalkInv, InitInv, CleanupInv, UndoInv,
           StartInv, IdleInv, RestartingInv, RestartedInv, ShutdownInv, ExitInv
  <1> QED
    BY <1>2, <1>3 DEF IInv

\* With no event before and another after, only that walk's part matters.
LEMMA UserStartStep ==
    ASSUME IInv, UserStart
    PROVE  IInv'
  <1> USE DEF IInv
  <1>1. CASE starts = 0
    <2>1. /\ event' = "init" /\ cur' = 1 /\ side' = "tx" /\ starts' = 0
          /\ bank' = FreshBank /\ handle' = [h \in Handles |-> "none"]
          /\ state' = [s \in Services |-> "uninitialized"]
          /\ bits' = FALSE
      BY <1>1 DEF UserStart, Begin, WalkInv, IdleInv
    <2>2. TypeOK'
      BY <1>1, <2>1, HandlePairs, SizesAssumption
      DEF TypeOK, EventKinds, States, FreshBank, Banks
    <2>3. BankInv'
      <3>1. InUse' = {}
        BY <2>1 DEF InUse
      <3>2. Cardinality({}) = 0
        BY FS_EmptySet
      <3> QED
        BY <2>1, <3>1, <3>2 DEF BankInv, RefsMatch, FreshBank
    <2>4. InitInv'
      BY <2>1, Progress, HandlePairs, SizesAssumption
      DEF InitInv, InitStates, Services
    <2> QED
      BY <2>1, <2>2, <2>3, <2>4
      DEF WalkInv, CleanupInv, UndoInv, StartInv, IdleInv, RestartingInv,
          RestartedInv, ShutdownInv, ExitInv
  <1>2. CASE starts # 0
    <2>1. /\ starts' = starts + 1 /\ starts \in Nat \ {0}
          /\ UNCHANGED <<bits, event, cur, side, bank, handle, state>>
          /\ event = "none"
      BY <1>2, SizesAssumption DEF UserStart, TypeOK
    <2>2. TypeOK'
      BY <2>1, SizesAssumption DEF UserStart, TypeOK
    <2>3. BankInv'
      BY <2>1, SameBank DEF Attached
    <2>4. IdleInv'
      BY <2>1 DEF WalkInv, IdleInv
    <2> QED
      BY <2>1, <2>2, <2>3, <2>4
      DEF WalkInv, InitInv, CleanupInv, UndoInv, StartInv, RestartingInv,
          RestartedInv, ShutdownInv, ExitInv
  <1> QED
    BY <1>1, <1>2

LEMMA CreateStep ==
    ASSUME IInv, CreateNext
    PROVE  IInv'
  <1> USE DEF IInv
  <1>1. /\ event = "init" /\ side # "end" /\ BankInv /\ InitInv
        /\ state' = [state EXCEPT ![cur] = "initializing"]
        /\ UNCHANGED <<starts, bits>>
    BY DEF CreateNext, Attached, WalkInv
  <1>2. Here \in Handles /\ handle[Here] = "none"
    BY <1>1, Progress DEF InitInv
  <1>a. /\ state' \in [Services -> States]
        /\ state'[cur] = "initializing" /\ cur \in Services
        /\ \A s \in Services : /\ s < cur => state'[s] = "initialized"
                               /\ s > cur => state'[s] = "uninitialized"
    BY <1>1 DEF InitInv, InitStates, TypeOK, States, Services
  <1>3. CASE CreateHandle(Here) /\ NextHandle /\ UNCHANGED event
    <2>1. /\ handle' = [handle EXCEPT ![Here] = "bundle"]
          /\ bank' \in Banks /\ BankInv'
      BY <1>1, <1>2, <1>3, EnterBank DEF CreateHandle
    <2>2. TypeOK'
      BY <1>1, <1>3, <1>a, <2>1 DEF TypeOK, NextHandle
    <2>3. InitInv'
      <3>1. cur' = cur /\ \A h \in Handles : Passed(h)' <=> Passed(h) \/ h = Here
        BY <1>1, <1>3, Progress DEF NextHandle
      <3>2. \A h \in Handles :
                handle'[h] = IF Passed(h)' THEN "bundle" ELSE "none"
        BY <1>1, <1>2, <2>1, <3>1 DEF InitInv, TypeOK
      <3>3. InitStates'
        BY <1>a, <3>1 DEF InitStates
      <3> QED
        BY <1>1, <1>a, <3>1, <3>2, <3>3 DEF InitInv
    <2> QED
      BY <1>1, <1>3, <2>1, <2>2, <2>3
      DEF WalkInv, CleanupInv, UndoInv, StartInv, IdleInv, RestartingInv,
          RestartedInv, ShutdownInv, ExitInv
  <1>4. CASE CreateFails /\ event' = "cleanup" /\ UNCHANGED <<cur, side>>
    <2>1. handle' = handle /\ bank' \in Banks /\ BankInv'
      BY <1>1, <1>4, FailedBank DEF InitInv, CreateFails
    <2>2. TypeOK'
      BY <1>1, <1>4, <1>a, <2>1 DEF TypeOK, EventKinds
    <2>3. CleanupInv'
      <3>1. \A h \in Handles : (h[1] < cur => Passed(h))
                               /\ (h[1] > cur => ~Passed(h))
        BY HandlePairs DEF Passed, Services, TypeOK
      <3>2. InitStates'
        BY <1>4, <1>a DEF InitStates
      <3> QED
        BY <1>1, <1>4, <2>1, <3>1, <3>2 DEF InitInv, CleanupInv
    <2> QED
      BY <1>1, <1>4, <2>1, <2>2, <2>3
      DEF WalkInv, InitInv, UndoInv, StartInv, IdleInv, RestartingInv,
          RestartedInv, ShutdownInv, ExitInv
  <1> QED
    BY <1>3, <1>4 DEF CreateNext

LEMMA InitializedStep ==
    ASSUME IInv, Initialized
    PROVE  IInv'
  <1> USE DEF IInv
  <1>1. /\ event = "init" /\ side = "end" /\ BankInv /\ InitInv
        /\ UNCHANGED <<starts, bits, handle, bank>>
        /\ BankInv'
    BY SameBank DEF Initialized, Attached, WalkInv
  <1>2. CASE /\ state' = [state EXCEPT ![cur] = "initialized"]
             /\ cur = NumServices /\ Begin("start")
    <2>1. TypeOK'
      BY <1>1, <1>2, HandlePairs
      DEF TypeOK, Begin, EventKinds, States
    <2>2. StartInv'
      BY <1>1, <1>2, Progress, SizesAssumption
      DEF InitInv, InitStates, StartInv, Begin, TypeOK, Services
    <2> QED
      BY <1>1, <1>2, <2>1, <2>2
      DEF WalkInv, InitInv, CleanupInv, UndoInv, IdleInv, RestartingInv,
          RestartedInv, ShutdownInv, ExitInv, Begin
  <1>3. CASE /\ state' = [state EXCEPT ![cur] = "initialized"]
             /\ cur # NumServices /\ NextService
    <2>1. TypeOK'
      BY <1>1, <1>3, SizesAssumption
      DEF TypeOK, NextService, EventKinds, States, Services
    <2>2. InitStates'
      BY <1>1, <1>3, SizesAssumption
      DEF InitInv, InitStates, NextService, TypeOK, Services
    <2>3. InitInv'
      BY <1>1, <1>3, <2>2, Progress DEF InitInv, NextService
    <2> QED
      BY <1>1, <1>3, <2>1, <2>3
      DEF WalkInv, CleanupInv, UndoInv, StartInv, IdleInv, RestartingInv,
          RestartedInv, ShutdownInv, ExitInv, NextService
  <1>4. CASE event' = "cleanup" /\ UNCHANGED <<cur, side, state>>
    <2>1. TypeOK'
      BY <1>1, <1>4 DEF TypeOK, EventKinds
    <2>2. CleanupInv'
      <3>1. \A h \in Handles : (h[1] < cur => Passed(h))
                               /\ (h[1] > cur => ~Passed(h))
        BY HandlePairs DEF Passed, Services, TypeOK
      <3> QED
        BY <1>1, <1>4, <3>1 DEF InitInv, CleanupInv, InitStates
    <2> QED
      BY <1>1, <1>4, <2>1, <2>2
      DEF WalkInv, InitInv, UndoInv, StartInv, IdleInv, RestartingInv,
          RestartedInv, ShutdownInv, ExitInv
  <1>5. CASE Begin("undo") /\ UNCHANGED state
    <2>1. event' = "undo" /\ cur' = 1 /\ side' = "tx" /\ state' = state
      BY <1>5 DEF Begin
    <2>2. TypeOK'
      BY <1>1, <2>1, HandlePairs DEF TypeOK, EventKinds
    <2>3. /\ cur \in Services /\ state[cur] = "initializing"
          /\ \A s \in Services : /\ s < cur => state[s] = "initialized"
                                 /\ s > cur => state[s] = "uninitialized"
                                 /\ s < cur \/ s = cur \/ s > cur
                                 /\ s \in Nat /\ ~ s < 1
      BY <1>1 DEF InitInv, InitStates, TypeOK, Services
    <2>4. \A h \in Handles :
              handle[h] = IF h[1] > cur THEN "none" ELSE "bundle"
      <3> TAKE h \in Handles
      <3>1. h[1] \in Services /\ cur \in Nat /\ h[1] \in Nat
        BY <2>3, HandlePairs DEF Services
      <3>2. Passed(h) <=> ~ h[1] > cur
        BY <1>1, <3>1 DEF Passed
      <3> QED
        BY <1>1, <3>2 DEF InitInv
    <2>5. \A s \in Services :
              /\ state[s] = "initializing" <=> s = cur
              /\ state[s] = "initialized" <=> s < cur
              /\ state[s] \in {"uninitialized", "initializing", "initialized"}
      BY <2>3 DEF Services
    <2>6. handle[<<cur, "tx">>] = "bundle" /\ handle[<<cur, "rx">>] = "bundle"
      BY <2>3, <2>4, HandlePairs DEF Services
    <2>7. \A h \in Handles : state[h[1]] # "initializing" =>
              handle[h] = IF state[h[1]] = "initialized"
                          THEN "bundle" ELSE "none"
      BY <2>3, <2>4, <2>5, HandlePairs
    <2>8. \A h \in Handles : ~Passed(h)'
      BY <2>1, Progress
    <2>9. \A s, u \in Services :
              cur' <= s /\ s <= u /\ state'[u] = "initialized"
                  => state'[s] = "initialized"
      BY <2>1, <2>3, <2>5 DEF Services
    <2>10. UndoInv'
      BY <1>1, <2>1, <2>3, <2>5, <2>6, <2>7, <2>8, <2>9 DEF UndoInv, InitInv
    <2> QED
      BY <1>1, <2>1, <2>2, <2>10
      DEF WalkInv, InitInv, CleanupInv, StartInv, IdleInv, RestartingInv,
          RestartedInv, ShutdownInv, ExitInv
  <1> QED
    BY <1>2, <1>3, <1>4, <1>5 DEF Initialized

LEMMA CleanupStep ==
    ASSUME IInv, Cleanup
    PROVE  IInv'
  <1> USE DEF IInv
  <1>1. /\ event = "cleanup" /\ BankInv /\ CleanupInv
        /\ UNCHANGED <<starts, bits, state>>
        /\ cur \in Services
    BY DEF Cleanup, Attached, WalkInv, TypeOK
  <1>2. ASSUME NEW r \in {"tx", "rx"}, handle[<<cur, r>>] # "none",
               ReleaseHandle(<<cur, r>>), UNCHANGED <<event, cur, side>>
        PROVE  IInv'
    <2> DEFINE h == <<cur, r>>
    <2>1. h \in Handles /\ handle[h] = "bundle" /\ h[1] = cur
      BY <1>1, <1>2, HandlePairs DEF CleanupInv, TypeOK
    <2>2. /\ handle' = [handle EXCEPT ![h] = "none"]
          /\ bank' \in Banks /\ BankInv'
      BY <1>1, <1>2, <2>1, ReleaseBank DEF CleanupInv
    <2> HIDE DEF h
    <2>3. TypeOK'
      BY <1>1, <1>2, <2>1, <2>2 DEF TypeOK
    <2>4. CleanupInv'
      BY <1>1, <1>2, <2>1, <2>2 DEF CleanupInv, InitStates, TypeOK, Services
    <2> QED
      BY <1>1, <1>2, <2>2, <2>3, <2>4
      DEF WalkInv, InitInv, UndoInv, StartInv, IdleInv, RestartingInv,
          RestartedInv, ShutdownInv, ExitInv
  <1>3. CASE /\ handle[<<cur, "tx">>] = "none" /\ handle[<<cur, "rx">>] = "none"
             /\ Begin("undo") /\ UNCHANGED <<handle, bank>>
    <2>1. BankInv'
      BY <1>1, <1>3, SameBank
    <2>2. TypeOK'
      BY <1>1, <1>3, HandlePairs DEF TypeOK, Begin, EventKinds
    <2>3. \A h \in Handles :
              handle[h] = IF state[h[1]] = "initialized" THEN "bundle" ELSE "none"
      <3> TAKE h \in Handles
      <3>1. h[1] \in Services /\ (h = <<h[1], "tx">> \/ h = <<h[1], "rx">>)
        BY HandlePairs
      <3>2. h[1] = cur => handle[h] = "none"
        BY <1>3, <3>1
      <3>3. h[1] < cur \/ h[1] = cur \/ h[1] > cur
        BY <1>1, <3>1 DEF Services
      <3> QED
        BY <1>1, <3>1, <3>2, <3>3 DEF CleanupInv, InitStates, Services
    <2>4. UndoInv'
      <3>1. \A s \in Services : s \in Nat /\ ~ s < 1
        BY DEF Services
      <3>2. event' = "undo" /\ cur' = 1 /\ side' = "tx"
        BY <1>3 DEF Begin
      <3>3. \A h \in Handles : ~Passed(h)'
        BY <3>2, Progress
      <3>4. \A s, u \in Services :
                cur' <= s /\ s <= u /\ state'[u] = "initialized"
                    => state'[s] = "initialized"
        BY <1>1, <3>1 DEF CleanupInv, InitStates, Services
      <3>5. \A s \in Services :
              /\ state'[s] \in {"uninitialized", "initializing", "initialized"}
              /\ state'[s] = "initializing" => s = cur
              /\ ~ s < cur'
        BY <1>1, <3>1, <3>2 DEF CleanupInv, InitStates, Services
      <3> QED
        BY <1>1, <1>3, <2>3, <3>2, <3>3, <3>4, <3>5 DEF CleanupInv, UndoInv
    <2> QED
      BY <1>1, <1>3, <2>1, <2>2, <2>4
      DEF WalkInv, InitInv, CleanupInv, StartInv, IdleInv, RestartingInv,
          RestartedInv, ShutdownInv, ExitInv, Begin
  <1> QED
    BY <1>2, <1>3 DEF Cleanup

LEMMA UndoneStep ==
    ASSUME IInv, Undone
    PROVE  IInv'
  <1> USE DEF IInv
  <1>1. /\ event = "undo" /\ BankInv /\ UndoInv
        /\ state[cur] # "initialized"
        /\ event' = "none" /\ cur' = 1 /\ side' = "tx"
        /\ UNCHANGED <<starts, bits, state, handle, bank>>
    BY DEF Undone, Attached, WalkInv, End, Begin
  <1>2. TypeOK'
    BY <1>1, HandlePairs DEF TypeOK, EventKinds
  <1>3. ASSUME NEW s \in Services PROVE state[s] # "initialized"
    <2>1. cur \in Services /\ (s < cur \/ cur <= s)
      BY DEF TypeOK, Services
    <2>2. CASE s < cur
      BY <1>1, <2>2 DEF UndoInv
    <2>3. CASE cur <= s
      <3>1. cur <= cur
        BY <2>1 DEF Services
      <3> QED
        BY <1>1, <2>1, <2>3, <3>1 DEF UndoInv
    <2> QED
      BY <2>1, <2>2, <2>3
  <1>4. \A h \in InUse : h \in Handles /\ state[h[1]] = "initializing"
    BY <1>1, <1>3, HandlePairs DEF InUse, UndoInv
  <1>5. ASSUME bank.bundle
        PROVE  \E s \in Services : Abandoned(s)
    <2>1. PICK h \in InUse : TRUE
      BY <1>1, <1>5 DEF BankInv
    <2> DEFINE s == h[1]
    <2>2. s \in Services /\ state[s] = "initializing"
      BY <1>4, <2>1, HandlePairs
    <2>3. <<s, "tx">> \in InUse /\ <<s, "rx">> \in InUse
      <3>1. h \in Handles /\ handle[h] = "bundle"
        BY <2>1 DEF InUse
      <3>2. h = <<s, "tx">> \/ h = <<s, "rx">>
        BY <3>1, HandlePairs
      <3>3. handle[<<s, "tx">>] = handle[<<s, "rx">>]
        BY <1>1, <2>2 DEF UndoInv
      <3> QED
        BY <2>2, <3>1, <3>2, <3>3, HandlePairs DEF InUse
    <2>4. \A g \in InUse : g = <<s, "tx">> \/ g = <<s, "rx">>
      <3> TAKE g \in InUse
      <3>1. g \in Handles /\ state[g[1]] = "initializing"
        BY <1>4
      <3>2. g[1] = s
        BY <1>1, <2>2, <3>1, HandlePairs DEF UndoInv
      <3> QED
        BY <3>1, <3>2, HandlePairs
    <2> HIDE DEF s
    <2>5. InUse = {s} \X {"tx", "rx"}
      BY <2>3, <2>4
    <2> QED
      BY <2>2, <2>5 DEF Abandoned
  <1>6. IdleInv' /\ ~Attached'
    <2>1. starts = 0 /\ ~bits
      BY <1>1 DEF UndoInv
    <2>2. \A s \in Services : Abandoned(s)' <=> Abandoned(s)
      BY <1>1 DEF Abandoned, InUse
    <2> QED
      BY <1>1, <1>5, <2>1, <2>2 DEF IdleInv, Attached
  <1> QED
    BY <1>1, <1>2, <1>6
    DEF WalkInv, InitInv, CleanupInv, UndoInv, StartInv, RestartingInv,
        RestartedInv, ShutdownInv, ExitInv

LEMMA StartStep ==
    ASSUME IInv, StartServices
    PROVE  IInv'
  <1> USE DEF IInv
  <1>1. /\ event = "start" /\ BankInv /\ StartInv
        /\ state' = [s \in Services |-> "running"] /\ bits' = TRUE
        /\ starts' = 1 /\ event' = "none" /\ cur' = 1 /\ side' = "tx"
        /\ UNCHANGED <<handle, bank>>
    BY DEF StartServices, Attached, WalkInv, End, Begin
  <1>2. TypeOK'
    BY <1>1, HandlePairs, SizesAssumption DEF TypeOK, EventKinds, States
  <1>3. BankInv'
    BY <1>1, SameBank
  <1>4. IdleInv'
    BY <1>1 DEF IdleInv, StartInv
  <1> QED
    BY <1>1, <1>2, <1>3, <1>4
    DEF WalkInv, InitInv, CleanupInv, UndoInv, StartInv, RestartingInv,
        RestartedInv, ShutdownInv, ExitInv

LEMMA UserStopStep ==
    ASSUME IInv, UserStop
    PROVE  IInv'
  <1> USE DEF IInv
  <1>1. /\ event = "none" /\ starts \in Nat \ {0} /\ BankInv /\ IdleInv
        /\ UNCHANGED <<bits, handle, bank>>
        /\ BankInv'
    BY SameBank, SizesAssumption DEF UserStop, Attached, WalkInv, TypeOK
  <1>2. CASE starts > 1
    <2>1. starts' = starts - 1 /\ UNCHANGED <<event, cur, side, state>>
      BY <1>2 DEF UserStop
    <2>2. TypeOK'
      BY <1>1, <1>2, <2>1, SizesAssumption DEF TypeOK
    <2>3. IdleInv'
      BY <1>1, <1>2, <2>1 DEF IdleInv
    <2> QED
      BY <1>1, <2>1, <2>2, <2>3
      DEF WalkInv, InitInv, CleanupInv, UndoInv, StartInv, RestartingInv,
          RestartedInv, ShutdownInv, ExitInv
  <1>3. CASE starts = 1 /\ bits
    <2>1. /\ event' = "shutdown" /\ cur' = 1 /\ side' = "tx" /\ starts' = 1
          /\ state' = StopServices
      BY <1>3 DEF UserStop, Begin
    <2>2. \A s \in Services :
              state'[s] \in {"running", "error", "shutting_down"}
      BY <1>1, <1>3, <2>1 DEF StopServices, IdleInv
    <2>3. TypeOK'
      <3>1. state' \in [Services -> States]
        BY <2>1, <2>2, <1>3 DEF StopServices, States
      <3> QED
        BY <1>1, <1>3, <2>1, <3>1, HandlePairs DEF TypeOK, EventKinds
    <2>4. ShutdownInv'
      BY <1>1, <1>3, <2>1, <2>2, Progress DEF ShutdownInv, IdleInv, Services
    <2> QED
      BY <1>1, <2>1, <2>3, <2>4
      DEF WalkInv, InitInv, CleanupInv, UndoInv, StartInv, IdleInv,
          RestartingInv, RestartedInv, ExitInv
  <1>4. CASE starts = 1 /\ ~bits
    <2>1. /\ event' = "exit" /\ cur' = 1 /\ side' = "tx" /\ starts' = 1
          /\ state' = state
      BY <1>4 DEF UserStop, Begin, StopServices
    <2>2. TypeOK'
      BY <1>1, <2>1, <1>4, HandlePairs DEF TypeOK, EventKinds
    <2>3. ExitInv'
      BY <1>1, <1>4, <2>1 DEF ExitInv, IdleInv
    <2> QED
      BY <1>1, <2>1, <2>2, <2>3
      DEF WalkInv, InitInv, CleanupInv, UndoInv, StartInv, IdleInv,
          RestartingInv, RestartedInv, ShutdownInv
  <1> QED
    BY <1>1, <1>2, <1>3, <1>4

\* The handles of the walk's service are still set up, and are released.
LEMMA ReleaseStep ==
    ASSUME IInv, ReleaseNext
    PROVE  IInv'
  <1> USE DEF IInv
  <1>1. /\ ShuttingDown /\ side # "end" /\ ReleaseHandle(Here) /\ NextHandle
        /\ UNCHANGED <<starts, bits, event, state>>
        /\ BankInv /\ UndoInv /\ ShutdownInv
        /\ Here \in Handles /\ ~Passed(Here) /\ Here[1] = cur
        /\ cur \in Services
    BY Progress
    DEF ReleaseNext, ShuttingDown, Attached, WalkInv, TypeOK, Here
  <1>2. /\ event \in {"shutdown", "undo"}
        /\ handle[Here] = "bundle"
        /\ \A g \in Handles : handle[g] # "shadow"
    <2>1. CASE event = "undo"
      <3>1. state[Here[1]] = "initialized"
        BY <1>1, <2>1 DEF ShuttingDown
      <3>2. handle[Here] = "bundle"
        BY <1>1, <2>1, <3>1 DEF UndoInv
      <3>3. ASSUME NEW g \in Handles PROVE handle[g] # "shadow"
        <4>1. g[1] \in Services /\ (g = <<g[1], "tx">> \/ g = <<g[1], "rx">>)
          BY HandlePairs
        <4>2. CASE state[g[1]] = "initializing"
          <5>1. /\ handle[<<g[1], "tx">>] # "shadow"
                /\ handle[<<g[1], "rx">>] # "shadow"
            BY <1>1, <2>1, <4>1, <4>2 DEF UndoInv
          <5> QED
            BY <4>1, <5>1
        <4>3. CASE state[g[1]] # "initializing"
          BY <1>1, <2>1, <4>3 DEF UndoInv
        <4> QED
          BY <4>2, <4>3
      <3> QED
        BY <2>1, <3>2, <3>3
    <2>2. CASE event = "shutdown"
      BY <1>1, <2>2 DEF ShutdownInv
    <2> QED
      BY <1>1, <2>1, <2>2 DEF ShuttingDown
  <1>3. /\ handle' = [handle EXCEPT ![Here] = "none"]
        /\ bank' \in Banks /\ BankInv'
    BY <1>1, <1>2, ReleaseBank
  <1>4. TypeOK'
    BY <1>1, <1>3 DEF TypeOK, NextHandle
  <1>5. /\ cur' = cur
        /\ \A h \in Handles : Passed(h)' <=> Passed(h) \/ h = Here
    BY <1>1, Progress DEF NextHandle
  <1> HIDE DEF Here
  <1>6. CASE event = "undo"
    <2>1. state[cur] = "initialized"
      BY <1>1, <1>6 DEF ShuttingDown
    <2>2. \A s \in Services : state[s] = "initializing" =>
              /\ handle'[<<s, "tx">>] = handle[<<s, "tx">>]
              /\ handle'[<<s, "rx">>] = handle[<<s, "rx">>]
      BY <1>1, <1>3, <2>1, HandlePairs DEF TypeOK
    <2>3. \A h \in Handles : state[h[1]] # "initializing" =>
              handle'[h] = IF state[h[1]] = "initialized" /\ ~Passed(h)'
                           THEN "bundle" ELSE "none"
      BY <1>1, <1>3, <1>5, <1>6 DEF UndoInv, TypeOK
    <2>4. UndoInv'
      BY <1>1, <1>5, <1>6, <2>1, <2>2, <2>3 DEF UndoInv
    <2> QED
      BY <1>1, <1>3, <1>4, <1>6, <2>4
      DEF WalkInv, InitInv, CleanupInv, StartInv, IdleInv, RestartingInv,
          RestartedInv, ShutdownInv, ExitInv
  <1>7. CASE event = "shutdown"
    <2>1. state[cur] = "shutting_down"
      BY <1>1, <1>7 DEF ShuttingDown, ShutdownInv, Services
    <2>2. ShutdownInv'
      BY <1>1, <1>3, <1>5, <1>7, <2>1 DEF ShutdownInv, TypeOK
    <2> QED
      BY <1>1, <1>3, <1>4, <1>7, <2>2
      DEF WalkInv, InitInv, CleanupInv, UndoInv, StartInv, IdleInv,
          RestartingInv, RestartedInv, ExitInv
  <1> QED
    BY <1>2, <1>6, <1>7

LEMMA ShutdownStep ==
    ASSUME IInv, Shutdown
    PROVE  IInv'
  <1> USE DEF IInv
  <1>1. /\ ShuttingDown /\ side = "end" /\ cur \in Services
        /\ state' = [state EXCEPT ![cur] = "shutdown"]
        /\ UNCHANGED <<starts, bits, handle, bank>>
        /\ BankInv /\ UndoInv /\ ShutdownInv /\ BankInv'
        /\ event \in {"shutdown", "undo"}
    BY SameBank
    DEF Shutdown, ShuttingDown, Attached, WalkInv, TypeOK
  <1>2. state' \in [Services -> States]
    BY <1>1 DEF TypeOK, States
  <1>3. CASE cur = NumServices /\ Begin("exit")
    <2>1. TypeOK'
      BY <1>1, <1>2, <1>3, HandlePairs DEF TypeOK, EventKinds, Begin
    <2>2. \A s \in Services : state'[s] \notin {"running", "error"}
      <3> TAKE s \in Services
      <3>1. s = cur \/ s < cur
        BY <1>1, <1>3 DEF Services
      <3> QED
        BY <1>1, <3>1 DEF UndoInv, ShutdownInv, TypeOK
    <2>3. ExitInv'
      BY <2>2 DEF ExitInv
    <2> QED
      BY <1>1, <1>3, <2>1, <2>3
      DEF WalkInv, InitInv, CleanupInv, UndoInv, StartInv, IdleInv,
          RestartingInv, RestartedInv, ShutdownInv, Begin
  <1>4. CASE cur # NumServices /\ NextService
    <2>1. TypeOK'
      BY <1>1, <1>2, <1>4, SizesAssumption DEF TypeOK, NextService, Services
    <2>2. /\ cur' = cur + 1 /\ side' = "tx" /\ event' = event
          /\ \A h \in Handles : Passed(h)' <=> Passed(h)
      BY <1>1, <1>4, Progress DEF NextService
    <2>3. \A h \in Handles : h[1] = cur => Passed(h)
      BY <1>1 DEF Passed
    <2>4. CASE event = "undo"
      <3>1. ASSUME NEW s \in Services, s < cur' PROVE state'[s] = "shutdown"
        <4>1. s = cur \/ (s < cur /\ s # cur)
          BY <1>1, <2>2, <3>1 DEF Services
        <4>2. s < cur => state[s] = "shutdown"
          BY <1>1, <2>4 DEF UndoInv
        <4> QED
          BY <1>1, <4>1, <4>2 DEF TypeOK
      <3>2. \A s, u \in Services :
                cur' <= s /\ s <= u /\ state'[u] = "initialized"
                    => state'[s] = "initialized"
        BY <1>1, <2>2, <2>4 DEF UndoInv, TypeOK, Services
      <3>a. state[cur] = "initialized"
        BY <1>1, <2>4 DEF ShuttingDown
      <3>3. \A h \in Handles : state'[h[1]] # "initializing" =>
                handle'[h] = IF state'[h[1]] = "initialized" /\ ~Passed(h)'
                             THEN "bundle" ELSE "none"
        BY <1>1, <2>2, <2>3, <2>4, <3>a, HandlePairs DEF UndoInv, TypeOK
      <3>b. \A s \in Services : state'[s] = "initializing" =>
                state[s] = "initializing"
        BY <1>1 DEF TypeOK
      <3>4. UndoInv'
        BY <1>1, <2>2, <2>4, <3>1, <3>2, <3>3, <3>b DEF UndoInv, TypeOK
      <3> QED
        BY <1>1, <2>1, <2>2, <2>4, <3>4
        DEF WalkInv, InitInv, CleanupInv, StartInv, IdleInv, RestartingInv,
            RestartedInv, ShutdownInv, ExitInv
    <2>5. CASE event = "shutdown"
      <3>1. ShutdownInv'
        BY <1>1, <2>2, <2>5 DEF ShutdownInv, TypeOK, Services
      <3> QED
        BY <1>1, <2>1, <2>2, <2>5, <3>1
        DEF WalkInv, InitInv, CleanupInv, UndoInv, StartInv, IdleInv,
            RestartingInv, RestartedInv, ExitInv
    <2> QED
      BY <1>1, <2>4, <2>5
  <1> QED
    BY <1>3, <1>4 DEF Shutdown

LEMMA ShutdownFailsStep ==
    ASSUME IInv, ShutdownFails
    PROVE  IInv'
  <1> USE DEF IInv
  <1>1. /\ event = "shutdown" /\ event' = "exit" /\ cur' = 1 /\ side' = "tx"
        /\ UNCHANGED <<starts, bits, state, handle, bank>>
        /\ BankInv /\ ShutdownInv /\ BankInv' /\ cur \in Services
        /\ state[cur] \notin {"initialized", "shutting_down", "restarting"}
    BY SameBank
    DEF ShutdownFails, ShuttingDown, Attached, WalkInv, TypeOK, Begin
  <1>2. TypeOK'
    BY <1>1, HandlePairs DEF TypeOK, EventKinds
  <1>3. side = "tx"
    BY <1>1 DEF ShutdownInv
  <1>4. ASSUME NEW s \in Services, state[s] \in {"running", "error"},
               NEW r \in {"tx", "rx"}
        PROVE  handle[<<s, r>>] = "bundle"
    <2>1. <<s, r>> \in Handles
      BY HandlePairs
    <2>2. ~ s < cur
      BY <1>1, <1>4 DEF ShutdownInv
    <2>3. ~Passed(<<s, r>>)
      BY <1>3, <2>2 DEF Passed
    <2> QED
      BY <1>1, <2>1, <2>3 DEF ShutdownInv
  <1>5. ExitInv'
    BY <1>1, <1>4 DEF ExitInv
  <1> QED
    BY <1>1, <1>2, <1>5
    DEF WalkInv, InitInv, CleanupInv, UndoInv, StartInv, IdleInv,
        RestartingInv, RestartedInv, ShutdownInv

LEMMA ExitStep ==
    ASSUME IInv, Exit
    PROVE  IInv'
  <1> USE DEF IInv
  <1>1. /\ event' = "none" /\ cur' = 1 /\ side' = "tx" /\ starts' = 0
        /\ bits' = FALSE /\ UNCHANGED <<state, handle>>
        /\ bank' = [bank EXCEPT !.bundle = FALSE, !.rings = FALSE]
    BY DEF Exit, End, Begin
  <1>2. bank' \in Banks /\ ~bank'.bundle
    BY <1>1 DEF TypeOK, Banks
  <1>3. TypeOK'
    <2>1. starts' \in 0 .. MaxStarts /\ cur' \in Services
      BY <1>1, HandlePairs, SizesAssumption
    <2>2. bits' \in BOOLEAN
      BY <1>1
    <2> QED
      BY <1>1, <1>2, <2>1, <2>2 DEF TypeOK, EventKinds
  <1>4. IdleInv' /\ ~Attached'
    BY <1>1, <1>2 DEF IdleInv, Attached
  <1> QED
    BY <1>1, <1>3, <1>4
    DEF WalkInv, InitInv, CleanupInv, UndoInv, StartInv, RestartingInv,
        RestartedInv, ShutdownInv, ExitInv

LEMMA ServiceErrorStep ==
    ASSUME IInv, NEW s \in Services, ServiceError(s)
    PROVE  IInv'
  <1> USE DEF IInv
  <1>1. /\ event = "none" /\ bits /\ IdleInv
        /\ state' = [state EXCEPT ![s] = "error"]
        /\ UNCHANGED <<starts, bits, event, cur, side, handle, bank>>
        /\ Attached' <=> Attached
    BY DEF ServiceError, WalkInv, Attached
  <1>2. TypeOK'
    BY <1>1 DEF TypeOK, States
  <1>3. Attached => BankInv'
    BY <1>1, SameBank
  <1>4. IdleInv'
    BY <1>1 DEF IdleInv, TypeOK
  <1> QED
    BY <1>1, <1>2, <1>3, <1>4
    DEF WalkInv, InitInv, CleanupInv, UndoInv, StartInv, RestartingInv,
        RestartedInv, ShutdownInv, ExitInv

LEMMA EventRestartingStep ==
    ASSUME IInv, EventRestarting
    PROVE  IInv'
  <1> USE DEF IInv
  <1>1. /\ event = "none" /\ bits /\ IdleInv /\ event' = "restarting"
        /\ cur' = 1 /\ side' = "tx"
        /\ UNCHANGED <<starts, bits, state, handle, bank>>
    BY DEF EventRestarting, WalkInv, Begin
  <1>2. starts > 0 /\ BankInv /\ BankInv'
    BY <1>1, SameBank, SizesAssumption DEF IdleInv, TypeOK, Attached
  <1>3. TypeOK'
    BY <1>1, HandlePairs DEF TypeOK, EventKinds
  <1>4. InUse' # {}
    BY <1>1, <1>2, HandlePairs DEF IdleInv, InUse
  <1>5. RestartingInv'
    BY <1>1, <1>2, <1>4, Progress DEF IdleInv, RestartingInv, Services
  <1> QED
    BY <1>1, <1>2, <1>3, <1>5
    DEF WalkInv, InitInv, CleanupInv, UndoInv, StartInv, IdleInv,
        RestartedInv, ShutdownInv, ExitInv

LEMMA ResetStep ==
    ASSUME IInv, ResetNext
    PROVE  IInv'
  <1> USE DEF IInv
  <1>1. /\ event = "restarting" /\ side # "end" /\ ResetHandle(Here)
        /\ NextHandle /\ UNCHANGED <<starts, bits, event, state>>
        /\ BankInv /\ RestartingInv
        /\ Here \in Handles /\ ~Passed(Here)
    BY Progress DEF ResetNext, Attached, WalkInv
  <1>2. handle[Here] = "bundle"
    BY <1>1 DEF RestartingInv
  <1>3. /\ handle' = [handle EXCEPT ![Here] = "shadow"]
        /\ bank' \in Banks /\ BankInv'
        /\ InUse' = {} => bank'.csr = "shadow"
    BY <1>1, <1>2, ResetBank
  <1>4. TypeOK'
    BY <1>1, <1>3 DEF TypeOK, NextHandle
  <1>5. /\ cur' = cur
        /\ \A h \in Handles : Passed(h)' <=> Passed(h) \/ h = Here
    BY <1>1, Progress DEF NextHandle
  <1>6. RestartingInv'
    BY <1>1, <1>3, <1>5 DEF RestartingInv, TypeOK
  <1> QED
    BY <1>1, <1>3, <1>4, <1>6
    DEF WalkInv, InitInv, CleanupInv, UndoInv, StartInv, IdleInv,
        RestartedInv, ShutdownInv, ExitInv

LEMMA RestartingStep ==
    ASSUME IInv, Restarting
    PROVE  IInv'
  <1> USE DEF IInv
  <1>1. /\ event = "restarting" /\ side = "end" /\ cur \in Services
        /\ state' = [state EXCEPT ![cur] = "restarting"]
        /\ UNCHANGED <<starts, handle>>
        /\ BankInv /\ RestartingInv
    BY DEF Restarting, Attached, WalkInv, TypeOK
  <1>2. state' \in [Services -> States]
    BY <1>1 DEF TypeOK, States
  <1>3. CASE cur = NumServices
    <2>1. /\ event' = "none" /\ cur' = 1 /\ side' = "tx" /\ bits' = FALSE
          /\ bank' = [bank EXCEPT !.bundle = FALSE, !.rings = FALSE]
      BY <1>3 DEF Restarting, End, Begin
    <2>2. \A h \in Handles : handle[h] = "shadow"
      BY <1>1, <1>3, Progress DEF RestartingInv
    <2>3. InUse = {} /\ InUse' = {}
      BY <1>1, <2>2 DEF InUse
    <2>4. bank' = bank
      BY <1>1, <2>1, <2>3 DEF BankInv, TypeOK, Banks
    <2>5. BankInv'
      BY <1>1, <2>4, SameBank
    <2>6. TypeOK'
      BY <1>1, <1>2, <2>1, <2>4, HandlePairs DEF TypeOK, EventKinds
    <2>7. \A s \in Services : state'[s] = "restarting"
      BY <1>1, <1>3 DEF RestartingInv, Services, TypeOK
    <2>8. IdleInv'
      BY <1>1, <2>1, <2>2, <2>3, <2>4, <2>7 DEF IdleInv, RestartingInv
    <2> QED
      BY <2>1, <2>5, <2>6, <2>8
      DEF WalkInv, InitInv, CleanupInv, UndoInv, StartInv, RestartingInv,
          RestartedInv, ShutdownInv, ExitInv
  <1>4. CASE cur # NumServices
    <2>1. /\ cur' = cur + 1 /\ side' = "tx" /\ event' = event
          /\ UNCHANGED <<bits, bank>>
          /\ \A h \in Handles : Passed(h)' <=> Passed(h)
      BY <1>1, <1>4, Progress DEF Restarting, NextService
    <2>2. BankInv'
      BY <1>1, <2>1, SameBank
    <2>3. TypeOK'
      BY <1>1, <1>2, <1>4, <2>1, SizesAssumption DEF TypeOK, Services
    <2>4. InUse' = InUse
      BY <1>1 DEF InUse
    <2>5. \A s \in Services :
              IF s < cur' THEN state'[s] = "restarting"
              ELSE state'[s] \in {"running", "error"}
      BY <1>1, <2>1 DEF RestartingInv, TypeOK, Services
    <2>6. RestartingInv'
      BY <1>1, <2>1, <2>4, <2>5 DEF RestartingInv
    <2> QED
      BY <1>1, <2>1, <2>2, <2>3, <2>6
      DEF WalkInv, InitInv, CleanupInv, UndoInv, StartInv, IdleInv,
          RestartedInv, ShutdownInv, ExitInv
  <1> QED
    BY <1>3, <1>4

LEMMA EventRestartedStep ==
    ASSUME IInv, EventRestarted
    PROVE  IInv'
  <1> USE DEF IInv
  <1>1. /\ event = "none" /\ starts > 0 /\ ~bits /\ event' = "restarted"
        /\ cur' = 1 /\ side' = "tx" /\ bank' = [bank EXCEPT !.mask = {}]
        /\ UNCHANGED <<starts, bits, state, handle>>
        /\ BankInv /\ IdleInv
    BY DEF EventRestarted, Begin, Attached, WalkInv
  <1>2. InUse = {} /\ InUse' = {}
    BY <1>1 DEF IdleInv, InUse
  <1>3. bank' = bank
    BY <1>1, <1>2 DEF BankInv, RefsMatch, TypeOK, Banks
  <1>4. BankInv'
    BY <1>1, <1>3, SameBank
  <1>5. TypeOK'
    BY <1>1, <1>3, HandlePairs DEF TypeOK, EventKinds
  <1>6. RestartedInv'
    BY <1>1, <1>3, Progress DEF IdleInv, RestartedInv, Services
  <1> QED
    BY <1>1, <1>4, <1>5, <1>6
    DEF WalkInv, InitInv, CleanupInv, UndoInv, StartInv, IdleInv,
        RestartingInv, ShutdownInv, ExitInv

LEMMA ReinitStep ==
    ASSUME IInv, ReinitNext
    PROVE  IInv'
  <1> USE DEF IInv
  <1>1. /\ event = "restarted" /\ side # "end" /\ ReinitHandle(Here)
        /\ NextHandle /\ UNCHANGED <<starts, bits, event, state>>
        /\ BankInv /\ RestartedInv
        /\ Here \in Handles /\ ~Passed(Here)
    BY Progress DEF ReinitNext, Attached, WalkInv
  <1>2. handle[Here] = "shadow"
    BY <1>1 DEF RestartedInv
  <1>3. /\ handle' = [handle EXCEPT ![Here] = "bundle"]
        /\ bank' \in Banks /\ BankInv'
    BY <1>1, <1>2, EnterBank DEF ReinitHandle
  <1>4. TypeOK'
    BY <1>1, <1>3 DEF TypeOK, NextHandle
  <1>5. /\ cur' = cur
        /\ \A h \in Handles : Passed(h)' <=> Passed(h) \/ h = Here
    BY <1>1, Progress DEF NextHandle
  <1>6. Here \in InUse'
    BY <1>1, <1>3 DEF InUse, TypeOK
  <1>7. RestartedInv'
    BY <1>1, <1>3, <1>5, <1>6 DEF RestartedInv, TypeOK
  <1> QED
    BY <1>1, <1>3, <1>4, <1>7
    DEF WalkInv, InitInv, CleanupInv, UndoInv, StartInv, IdleInv,
        RestartingInv, ShutdownInv, ExitInv

LEMMA RestartedStep ==
    ASSUME IInv, Restarted
    PROVE  IInv'
  <1> USE DEF IInv
  <1>1. /\ event = "restarted" /\ side = "end" /\ cur \in Services
        /\ state' = [state EXCEPT ![cur] = "running"]
        /\ UNCHANGED <<starts, handle, bank>>
        /\ BankInv /\ RestartedInv /\ BankInv'
    BY SameBank DEF Restarted, Attached, WalkInv, TypeOK
  <1>2. state' \in [Services -> States]
    BY <1>1 DEF TypeOK, States
  <1>3. CASE cur = NumServices
    <2>1. event' = "none" /\ cur' = 1 /\ side' = "tx" /\ bits' = TRUE
      BY <1>3 DEF Restarted, End, Begin
    <2>2. TypeOK'
      BY <1>1, <1>2, <2>1, HandlePairs DEF TypeOK, EventKinds
    <2>3. \A h \in Handles : handle'[h] = "bundle"
      BY <1>1, <1>3, Progress DEF RestartedInv
    <2>4. \A s \in Services : state'[s] = "running"
      BY <1>1, <1>3 DEF RestartedInv, Services, TypeOK
    <2>5. IdleInv'
      BY <1>1, <2>1, <2>3, <2>4 DEF IdleInv, RestartedInv
    <2> QED
      BY <1>1, <2>1, <2>2, <2>5
      DEF WalkInv, InitInv, CleanupInv, UndoInv, StartInv, RestartingInv,
          RestartedInv, ShutdownInv, ExitInv
  <1>4. CASE cur # NumServices
    <2>1. /\ cur' = cur + 1 /\ side' = "tx" /\ event' = event /\ bits' = bits
          /\ \A h \in Handles : Passed(h)' <=> Passed(h)
      BY <1>1, <1>4, Progress DEF Restarted, NextService
    <2>2. TypeOK'
      BY <1>1, <1>2, <1>4, <2>1, SizesAssumption DEF TypeOK, Services
    <2>3. InUse' = InUse
      BY <1>1 DEF InUse
    <2>4. \A s \in Services :
              state'[s] = IF s < cur' THEN "running" ELSE "restarting"
      BY <1>1, <2>1 DEF RestartedInv, TypeOK, Services
    <2>5. RestartedInv'
      BY <1>1, <2>1, <2>3, <2>4 DEF RestartedInv
    <2> QED
      BY <1>1, <2>1, <2>2, <2>5
      DEF WalkInv, InitInv, CleanupInv, UndoInv, StartInv, IdleInv,
          RestartingInv, ShutdownInv, ExitInv
  <1> QED
    BY <1>3, <1>4

LEMMA StutterStep ==
    ASSUME IInv, UNCHANGED vars
    PROVE  IInv'
  BY DEF IInv, vars, TypeOK, Attached, BankInv, RefsMatch, InUse, WalkInv,
         InitInv, InitStates, CleanupInv, UndoInv, StartInv, IdleInv,
         RestartingInv, RestartedInv, ShutdownInv, ExitInv, Passed, Abandoned

-----------------------------------------------------------------------------
(* The theorems.                                                           *)

\* The inductive invariant holds in every reachable state: each operation on
\* a handle keeps the bank and the handles in step, and each walk over the
\* services leaves them as the next one expects.
THEOREM Invariance == Spec => []IInv
  <1>1. IInv /\ [Next]_vars => IInv'
    BY UserStartStep, CreateStep, InitializedStep, CleanupStep, UndoneStep,
       StartStep, UserStopStep, ReleaseStep, ShutdownStep, ShutdownFailsStep,
       ExitStep, ServiceErrorStep, EventRestartingStep, ResetStep,
       RestartingStep, EventRestartedStep, ReinitStep, RestartedStep,
       StutterStep
    DEF Next
  <1> QED
    BY InitIInv, <1>1, PTL DEF Spec

\* Every variable keeps its type, however often the services are started,
\* restarted and stopped; refs never goes below zero.
THEOREM TypeCorrect == Spec => []TypeOK
  BY Invariance, PTL DEF IInv

\* The services that let requests in have their two rings.
LEMMA Served ==
    ASSUME IInv, Attached
    PROVE  RunningServed
  <1> SUFFICES ASSUME NEW s \in Services, state[s] \in {"running", "error"}
               PROVE  \/ /\ handle[<<s, "tx">>] = "bundle"
                         /\ handle[<<s, "rx">>] = "bundle"
                      \/ event = "restarting" /\ cur = s
    BY DEF RunningServed
  <1> USE DEF IInv, WalkInv
  <1>1. /\ <<s, "tx">> \in Handles /\ <<s, "rx">> \in Handles
        /\ s \in Nat /\ cur \in Nat
    BY HandlePairs DEF TypeOK, Services
  <1>2. event \notin {"init", "cleanup", "undo", "start"}
    <2>1. InitStates => state[s] \notin {"running", "error"}
      <3>1. s < cur \/ s = cur \/ s > cur
        BY <1>1
      <3> QED
        BY <3>1 DEF InitStates
    <2> QED
      BY <2>1 DEF InitInv, CleanupInv, UndoInv, StartInv
  <1>3. CASE event = "none"
    BY <1>1, <1>3 DEF IdleInv, Attached, TypeOK
  <1>4. CASE event = "restarting" /\ cur # s
    <2>1. cur < s
      BY <1>1, <1>4 DEF RestartingInv
    <2> QED
      BY <1>1, <1>4, <2>1 DEF RestartingInv, Passed
  <1>5. CASE event = "restarted"
    <2>1. s < cur
      BY <1>1, <1>5 DEF RestartedInv
    <2> QED
      BY <1>1, <1>5, <2>1 DEF RestartedInv, Passed
  <1>6. CASE event = "shutdown"
    <2>1. ~ s < cur /\ (cur = s => side = "tx")
      BY <1>1, <1>6 DEF ShutdownInv
    <2> QED
      BY <1>1, <1>6, <2>1 DEF ShutdownInv, Passed
  <1>7. CASE event = "exit"
    BY <1>7 DEF ExitInv
  <1> QED
    BY <1>2, <1>3, <1>4, <1>5, <1>6, <1>7 DEF TypeOK, EventKinds

\* For any number of services and nested starts: the bank counts and holds
\* exactly the handles in use, no handle or bank poll reaches memory that was
\* given back, a service that lets requests in has its rings, and the bundle
\* is kept for nobody (adf_user_transport_ctrl.c:249-305, 869-958), except
\* when a start failed in the chaining service: then it is kept for the two
\* handles of that service and no others (sal_compression.c:973-989).
THEOREM BankAlwaysServes == Spec => []BankServes
  <1>1. IInv => BankServes
    <2> SUFFICES ASSUME IInv PROVE BankServes
      OBVIOUS
    <2> USE DEF IInv, WalkInv
    <2>1. Attached => RefsMatch /\ HandlesBacked
      BY DEF BankInv, RefsMatch, HandlesBacked
    <2>2. starts > 0 => BankReadable
      <3>1. ASSUME starts > 0, event = "none"
            PROVE  IF bank.csr = "bundle" THEN bank.bundle ELSE bank.shadow
        <4>1. BankInv
          BY <3>1 DEF Attached
        <4>2. CASE bits
          BY <3>1, <4>1, <4>2, HandlePairs DEF IdleInv, BankInv, InUse
        <4>3. CASE ~bits
          BY <3>1, <4>1, <4>3, HandlePairs DEF IdleInv, BankInv
        <4> QED
          BY <4>2, <4>3
      <3>2. ASSUME event = "restarting" \/ event = "restarted"
            PROVE  IF bank.csr = "bundle" THEN bank.bundle ELSE bank.shadow
        <4>1. BankInv /\ (InUse = {} => bank.csr = "shadow")
          BY <3>2 DEF Attached, RestartingInv, RestartedInv
        <4>2. CASE InUse = {}
          <5>1. handle[<<1, "tx">>] = "shadow"
            BY <3>2, <4>2, HandlePairs
            DEF InUse, RestartingInv, RestartedInv
          <5> QED
            BY <4>1, <4>2, <5>1, HandlePairs DEF BankInv
        <4>3. CASE InUse # {}
          BY <4>1, <4>3 DEF BankInv
        <4> QED
          BY <4>2, <4>3
      <3> QED
        BY <3>1, <3>2 DEF BankReadable
    <2>3. NothingKept
      <3> SUFFICES ASSUME event = "none", bank.bundle
                   PROVE  /\ InUse # {}
                          /\ starts > 0 \/ \E s \in Services : Abandoned(s)
        BY DEF NothingKept
      <3>1. CASE starts = 0
        <4>1. PICK s \in Services : Abandoned(s)
          BY <3>1 DEF IdleInv
        <4>2. <<s, "tx">> \in InUse
          BY <4>1 DEF Abandoned
        <4> QED
          BY <4>1, <4>2
      <3>2. CASE starts # 0
        <4>1. starts > 0 /\ Attached
          BY <3>2, SizesAssumption DEF Attached, TypeOK
        <4> QED
          BY <4>1 DEF BankInv
      <3> QED
        BY <3>1, <3>2
    <2> QED
      BY <2>1, <2>2, <2>3, Served DEF BankServes
  <1> QED
    BY <1>1, Invariance, PTL
=============================================================================

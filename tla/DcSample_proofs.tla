-------------------------- MODULE DcSample_proofs --------------------------
(***************************************************************************)
(* The benchmark, proved for any number of instances.  The inductive       *)
(* invariant IInv has a part for each worker with its session and polling  *)
(* thread (RequestInv, WorkInv), and a part for main (MainInv, UsageInv).  *)
(* What depends on calls that do not fail says so: a worker outside Faulty *)
(* has no failing calls, and without CreateMayFail all workers are joined. *)
(***************************************************************************)
EXTENDS DcSample, TLAPS, FiniteSetTheorems

\* Where a worker has no polling thread yet, and where it has submitted
\* nothing.
Unpolled == {"none", "capabilities", "prepare", "startPolling"}
Before == Unpolled \cup {"openSession", "allocate"}

\* A request is accepted, then taken off the ring, then called back: it is in
\* one of these, its completion is posted only in the last, and the session
\* counts those of the first.
RequestInv(w) ==
    /\ answered[w] \subseteq inflight[w]
    /\ pending[w] = Cardinality(inflight[w])
    /\ inflight[w] \cap calledBack[w] = {}
    /\ cur[w] \notin inflight[w] \cup calledBack[w]
    /\ \A r \in Requests : sem[w][r] = 1 => r \in calledBack[w]
    /\ cur[w] # 0 <=> ppc[w] = "callback"
    /\ wpc[w] \in Unpolled => ppc[w] = "none"
    /\ wpc[w] \in Before =>
          k[w] = 1 /\ inflight[w] = {} /\ calledBack[w] = {} /\ cur[w] = 0
    /\ wpc[w] = "submit" =>
          \A r \in inflight[w] \cup calledBack[w] \cup {cur[w]} : r < k[w]

\* The memory a worker has while it submits and waits.
MemoryInv(w) ==
    /\ wpc[w] \in {"startPolling", "openSession", "allocate", "submit", "wait"}
          => "intermediate" \in owned[w]
    /\ wpc[w] \in {"allocate", "submit", "wait"} => "session" \in owned[w]
    /\ wpc[w] \in {"submit", "wait"} =>
          {"buffers", "completions"} \subseteq owned[w]

\* A worker whose status is still SUCCESS after it waited has waited for all
\* of its callbacks.
WorkInv(w) ==
    /\ wpc[w] \notin {"cleanup", "ended"} => removed[w] = "none"
    /\ wpc[w] = "wait" => \A r \in Requests : r < k[w] => r \in calledBack[w]
    /\ wpc[w] \in {"free", "remove"} /\ status[w] => calledBack[w] = Requests
    /\ wpc[w] \in {"cleanup", "ended"} /\ removed[w] # "none" /\ status[w] =>
          calledBack[w] = Requests /\ removed[w] = "success"
    /\ removed[w] = "success" => inflight[w] = {}

\* A worker none of whose calls fail.
SoundInv(w) ==
    w \notin Faulty =>
        /\ status[w]
        /\ removed[w] # "retry"
        /\ wpc[w] \in {"cleanup", "ended"} => removed[w] = "success"

WorkerInv(w) == RequestInv(w) /\ MemoryInv(w) /\ WorkInv(w) /\ SoundInv(w)

\* main creates the workers in turn, and joins them in turn if it created
\* them all.
MainInv ==
    /\ mpc \in {"start", "discover"} =>
          mi = 1 /\ \A w \in Workers : wpc[w] = "none"
    /\ mpc = "create" =>
          \A w \in Workers : wpc[w] = "none" <=> mi <= w
    /\ mpc = "join" =>
          \A w \in Workers : wpc[w] # "none" /\ (w < mi => wpc[w] = "ended")
    /\ mpc \in {"stopPolling", "stopInstances"} =>
          \A w \in Workers : wpc[w] = "ended"
    /\ mpc = "stopPolling" => mi = 1
    /\ mpc = "userStop" /\ ~CreateMayFail =>
          \A w \in Workers : wpc[w] \in {"none", "ended"}

Started == {w \in Workers : started[w]}

\* A worker that got past cpaDcStartInstance has its instance started until
\* main stops it.
UsageInv ==
    Faulty = {} /\ ~CreateMayFail =>
        /\ usage = Cardinality(Started)
        /\ \A w \in Workers :
              wpc[w] \in {"none", "capabilities", "prepare"} => ~started[w]
        /\ mpc \in {"create", "join", "stopPolling"} =>
              \A w \in Workers :
                 wpc[w] \notin {"none", "capabilities", "prepare"} => started[w]
        /\ mpc = "stopInstances" => \A w \in Workers : mi <= w => started[w]

IInv ==
    /\ TypeOK
    /\ \A w \in Workers : WorkerInv(w)
    /\ MainInv
    /\ UsageInv

-----------------------------------------------------------------------------
(* Lemmas.                                                                 *)

\* How a set of requests is counted.
LEMMA RequestCount ==
    ASSUME NEW S \in SUBSET Requests
    PROVE  /\ IsFiniteSet(S)
           /\ Cardinality(S) \in 0 .. 3
           /\ Cardinality(S) = 0 <=> S = {}
           /\ \A r : r \notin S => Cardinality(S \cup {r}) = Cardinality(S) + 1
           /\ \A r \in S : Cardinality(S \ {r}) = Cardinality(S) - 1
  <1>1. IsFiniteSet(Requests) /\ Cardinality(Requests) = 3
    <2>1. 1 \in Int /\ 3 \in Int /\ ~ 1 > 3
      OBVIOUS
    <2>2. IsFiniteSet(1..3) /\ Cardinality(1..3) = 3 - 1 + 1
      BY <2>1, FS_Interval
    <2> QED
      BY <2>2 DEF Requests
  <1>2. /\ IsFiniteSet(S) /\ Cardinality(S) \in Nat
        /\ Cardinality(S) <= Cardinality(Requests)
    BY <1>1, FS_Subset, FS_CardinalityType
  <1>3. Cardinality(S) = 0 <=> S = {}
    BY <1>2, FS_EmptySet
  <1>4. \A r : r \notin S => Cardinality(S \cup {r}) = Cardinality(S) + 1
    BY <1>2, FS_AddElement
  <1>5. \A r \in S : Cardinality(S \ {r}) = Cardinality(S) - 1
    BY <1>2, FS_RemoveElement
  <1> QED
    BY <1>1, <1>2, <1>3, <1>4, <1>5

LEMMA WorkersFinite ==
    \A S : S \subseteq Workers => IsFiniteSet(S)
  <1>1. IsFiniteSet(Workers)
    BY InstancesAssumption, FS_Interval DEF Workers
  <1> QED
    BY <1>1, FS_Subset

\* A step that does not touch worker v, its session or its polling thread.
SameAt(v) ==
    UNCHANGED <<wpc[v], k[v], status[v], removed[v], owned[v], sem[v], ppc[v],
                cur[v], inflight[v], answered[v], pending[v], calledBack[v]>>

LEMMA SameWorker ==
    ASSUME NEW v \in Workers, WorkerInv(v), SameAt(v)
    PROVE  WorkerInv(v)'
  BY DEF WorkerInv, RequestInv, MemoryInv, WorkInv, SoundInv, SameAt

\* A step of a worker that goes on to x ...
LEMMA WorkerMoves ==
    ASSUME TypeOK, MainInv, NEW w \in Workers, NEW x,
           wpc[w] \notin {"none", "ended"}, x # "none",
           wpc' = [wpc EXCEPT ![w] = x], UNCHANGED mainVars
    PROVE  MainInv'
  BY DEF MainInv, TypeOK, mainVars

\* ... with its instance started.
LEMMA WorkerGoesOn ==
    ASSUME TypeOK, UsageInv, NEW w \in Workers, NEW x,
           wpc[w] \notin {"none", "capabilities", "prepare"},
           x \notin {"none", "capabilities", "prepare"},
           wpc' = [wpc EXCEPT ![w] = x],
           UNCHANGED <<mpc, mi, usage, started>>
    PROVE  UsageInv'
  BY DEF UsageInv, TypeOK, Started

\* A step that touches one worker only.
LEMMA OneWorker ==
    ASSUME IInv, NEW w \in Workers, WorkerInv(w)',
           \A v \in Workers \ {w} : SameAt(v)
    PROVE  \A v \in Workers : WorkerInv(v)'
  BY SameWorker DEF IInv

-----------------------------------------------------------------------------
(* The steps of a worker.                                                  *)

LEMMA QueryCapabilitiesStep ==
    ASSUME IInv, NEW w \in Workers, QueryCapabilities(w)
    PROVE  IInv'
  <1> TypeOK /\ WorkerInv(w) /\ MainInv /\ UsageInv
    BY DEF IInv
  <1> PICK x \in {"prepare", "ended"} :
             /\ wpc' = [wpc EXCEPT ![w] = x]
             /\ x = "ended" => w \in Faulty
    BY DEF QueryCapabilities
  <1>1. /\ wpc[w] = "capabilities"
        /\ UNCHANGED <<mpc, mi, gPollingDc, usage, started, k, status, removed,
                       owned, sem, inflight, answered, pending, ppc, cur,
                       calledBack>>
    BY DEF QueryCapabilities, WorkerKeeps, mainVars, serviceVars
  <1>2. TypeOK'
    BY <1>1 DEF TypeOK
  <1>3. wpc'[w] = x
    BY DEF TypeOK
  <1>4. WorkerInv(w)'
    BY <1>1, <1>3
    DEF WorkerInv, RequestInv, MemoryInv, WorkInv, SoundInv, Unpolled, Before
  <1>5. \A v \in Workers \ {w} : SameAt(v)
    BY <1>1 DEF SameAt, TypeOK
  <1>6. MainInv'
    BY <1>1, WorkerMoves DEF mainVars
  <1>7. UsageInv'
    BY <1>1 DEF UsageInv, Started, TypeOK
  <1> QED
    BY <1>2, <1>4, <1>5, <1>6, <1>7, OneWorker DEF IInv

LEMMA StartInstanceStep ==
    ASSUME IInv, NEW w \in Workers, StartInstance(w)
    PROVE  IInv'
  <1> TypeOK /\ WorkerInv(w) /\ MainInv /\ UsageInv
    BY DEF IInv
  <1>1. /\ wpc[w] = "prepare"
        /\ UNCHANGED <<mpc, mi, gPollingDc, k, removed, sem, inflight,
                       answered, pending, ppc, cur, calledBack>>
    BY DEF StartInstance, WorkerKeeps, mainVars, serviceVars
  <1>2. CASE /\ owned' = [owned EXCEPT ![w] = {"intermediate"}]
             /\ started' = [started EXCEPT ![w] = TRUE]
             /\ usage' = usage + 1
             /\ wpc' = [wpc EXCEPT ![w] = "startPolling"]
             /\ status' = status
    <2>1. TypeOK'
      BY <1>1, <1>2 DEF TypeOK
    <2>2. WorkerInv(w)'
      BY <1>1, <1>2
      DEF TypeOK, WorkerInv, RequestInv, MemoryInv, WorkInv, SoundInv,
          Unpolled, Before
    <2>3. \A v \in Workers \ {w} : SameAt(v)
      BY <1>1, <1>2 DEF SameAt, TypeOK
    <2>4. MainInv'
      BY <1>1, <1>2, WorkerMoves DEF mainVars
    <2>5. ASSUME Faulty = {}, ~CreateMayFail
          PROVE  UsageInv'
      <3>1. /\ usage = Cardinality(Started) /\ w \notin Started
            /\ mpc \notin {"stopInstances"}
        BY <1>1, <2>5 DEF UsageInv, Started, MainInv
      <3>2. Started' = Started \cup {w}
        BY <1>2 DEF Started, TypeOK
      <3>3. Cardinality(Started \cup {w}) = Cardinality(Started) + 1
        BY <3>1, WorkersFinite, FS_AddElement DEF Started
      <3>4. usage' = Cardinality(Started')
        BY <1>2, <3>1, <3>2, <3>3
      <3> QED
        BY <1>1, <1>2, <2>5, <3>1, <3>4 DEF UsageInv, TypeOK
    <2>6. UsageInv'
      BY <2>5 DEF UsageInv
    <2> QED
      BY <2>1, <2>2, <2>3, <2>4, <2>6, OneWorker DEF IInv
  <1>3. CASE /\ w \in Faulty
             /\ \E got \in SUBSET {"intermediate"} :
                   owned' = [owned EXCEPT ![w] = got]
             /\ status' = [status EXCEPT ![w] = FALSE]
             /\ wpc' = [wpc EXCEPT ![w] = "cleanup"]
             /\ UNCHANGED <<started, usage>>
    <2>1. TypeOK'
      BY <1>1, <1>3 DEF TypeOK
    <2>2. WorkerInv(w)'
      BY <1>1, <1>3
      DEF TypeOK, WorkerInv, RequestInv, MemoryInv, WorkInv, SoundInv,
          Unpolled, Before
    <2>3. \A v \in Workers \ {w} : SameAt(v)
      BY <1>1, <1>3 DEF SameAt, TypeOK
    <2>4. MainInv'
      BY <1>1, <1>3, WorkerMoves DEF mainVars
    <2>5. UsageInv'
      BY <1>3 DEF UsageInv
    <2> QED
      BY <2>1, <2>2, <2>3, <2>4, <2>5, OneWorker DEF IInv
  <1> QED
    BY <1>2, <1>3 DEF StartInstance

LEMMA StartPollingStep ==
    ASSUME IInv, NEW w \in Workers, StartPolling(w)
    PROVE  IInv'
  <1> TypeOK /\ WorkerInv(w) /\ MainInv /\ UsageInv
    BY DEF IInv
  <1>1. /\ wpc[w] = "startPolling"
        /\ ppc' \in {[ppc EXCEPT ![w] = "created"], ppc}
        /\ wpc' = [wpc EXCEPT ![w] = "openSession"]
        /\ UNCHANGED <<mpc, mi, gPollingDc, usage, started, k, status, removed,
                       owned, sem, inflight, answered, pending, cur,
                       calledBack>>
    BY DEF StartPolling, WorkerKeeps, mainVars, serviceVars
  <1>2. TypeOK'
    BY <1>1 DEF TypeOK
  <1>3. WorkerInv(w)'
    BY <1>1
    DEF TypeOK, WorkerInv, RequestInv, MemoryInv, WorkInv, SoundInv, Unpolled,
        Before
  <1>4. \A v \in Workers \ {w} : SameAt(v)
    BY <1>1 DEF SameAt, TypeOK
  <1>5. MainInv'
    BY <1>1, WorkerMoves DEF mainVars
  <1>6. UsageInv'
    BY <1>1, WorkerGoesOn
  <1> QED
    BY <1>2, <1>3, <1>4, <1>5, <1>6, OneWorker DEF IInv

LEMMA OpenSessionStep ==
    ASSUME IInv, NEW w \in Workers, OpenSession(w)
    PROVE  IInv'
  <1> TypeOK /\ WorkerInv(w) /\ MainInv /\ UsageInv
    BY DEF IInv
  <1>1. /\ wpc[w] = "openSession"
        /\ UNCHANGED <<mpc, mi, gPollingDc, usage, started, k, removed, sem,
                       inflight, answered, ppc, cur, calledBack>>
        /\ inflight[w] = {} /\ pending[w] = 0 /\ Cardinality({}) = 0
    BY FS_EmptySet
    DEF OpenSession, mainVars, pollVars, WorkerInv, RequestInv, Before
  <1>2. CASE /\ owned' = [owned EXCEPT ![w] = @ \cup {"session"}]
             /\ pending' = [pending EXCEPT ![w] = 0]
             /\ wpc' = [wpc EXCEPT ![w] = "allocate"]
             /\ status' = status
    <2>1. TypeOK'
      BY <1>1, <1>2 DEF TypeOK
    <2>2. WorkerInv(w)'
      BY <1>1, <1>2
      DEF TypeOK, WorkerInv, RequestInv, MemoryInv, WorkInv, SoundInv,
          Unpolled, Before
    <2>3. \A v \in Workers \ {w} : SameAt(v)
      BY <1>1, <1>2 DEF SameAt, TypeOK
    <2>4. MainInv'
      BY <1>1, <1>2, WorkerMoves DEF mainVars
    <2>5. UsageInv'
      BY <1>1, <1>2, WorkerGoesOn
    <2> QED
      BY <2>1, <2>2, <2>3, <2>4, <2>5, OneWorker DEF IInv
  <1>3. CASE /\ w \in Faulty
             /\ \E got \in SUBSET {"session"} :
                   owned' = [owned EXCEPT ![w] = @ \cup got]
             /\ status' = [status EXCEPT ![w] = FALSE]
             /\ wpc' = [wpc EXCEPT ![w] = "cleanup"]
             /\ pending' = pending
    <2>0. PICK got \in SUBSET {"session"} :
              owned' = [owned EXCEPT ![w] = @ \cup got]
      BY <1>3
    <2>1. TypeOK'
      <3>1. owned[w] \cup got \in SUBSET {"intermediate", "session", "buffers",
                                         "completions"}
        BY DEF TypeOK
      <3> QED
        BY <1>1, <1>3, <2>0, <3>1 DEF TypeOK
    <2>2. WorkerInv(w)'
      BY <1>1, <1>3
      DEF TypeOK, WorkerInv, RequestInv, MemoryInv, WorkInv, SoundInv,
          Unpolled, Before
    <2>3. \A v \in Workers \ {w} : SameAt(v)
      BY <1>1, <1>3 DEF SameAt, TypeOK
    <2>4. MainInv'
      BY <1>1, <1>3, WorkerMoves DEF mainVars
    <2>5. UsageInv'
      BY <1>1, <1>3, WorkerGoesOn
    <2> QED
      BY <2>1, <2>2, <2>3, <2>4, <2>5, OneWorker DEF IInv
  <1> QED
    BY <1>2, <1>3 DEF OpenSession

LEMMA AllocateStep ==
    ASSUME IInv, NEW w \in Workers, Allocate(w)
    PROVE  IInv'
  <1> TypeOK /\ WorkerInv(w) /\ MainInv /\ UsageInv
    BY DEF IInv
  <1>1. /\ wpc[w] = "allocate"
        /\ UNCHANGED <<mpc, mi, gPollingDc, usage, started, k, removed, sem,
                       inflight, answered, pending, ppc, cur, calledBack>>
    BY DEF Allocate, WorkerKeeps, mainVars, serviceVars
  <1>2. CASE /\ owned' = [owned EXCEPT ![w] = @ \cup {"buffers", "completions"}]
             /\ wpc' = [wpc EXCEPT ![w] = "submit"]
             /\ status' = status
    <2>1. TypeOK'
      BY <1>1, <1>2 DEF TypeOK
    <2>2. WorkerInv(w)'
      BY <1>1, <1>2
      DEF TypeOK, WorkerInv, RequestInv, MemoryInv, WorkInv, SoundInv,
          Unpolled, Before
    <2>3. \A v \in Workers \ {w} : SameAt(v)
      BY <1>1, <1>2 DEF SameAt, TypeOK
    <2>4. MainInv'
      BY <1>1, <1>2, WorkerMoves DEF mainVars
    <2>5. UsageInv'
      BY <1>1, <1>2, WorkerGoesOn
    <2> QED
      BY <2>1, <2>2, <2>3, <2>4, <2>5, OneWorker DEF IInv
  <1>3. CASE /\ w \in Faulty
             /\ \E got \in SUBSET {"buffers"}, next \in {"free", "remove"} :
                   /\ next = "remove" => got = {}
                   /\ owned' = [owned EXCEPT ![w] = @ \cup got]
                   /\ wpc' = [wpc EXCEPT ![w] = next]
             /\ status' = [status EXCEPT ![w] = FALSE]
    <2> PICK got \in SUBSET {"buffers"}, next \in {"free", "remove"} :
               /\ owned' = [owned EXCEPT ![w] = @ \cup got]
               /\ wpc' = [wpc EXCEPT ![w] = next]
               /\ status' = [status EXCEPT ![w] = FALSE]
      BY <1>3
    <2>1. TypeOK'
      BY <1>1, <1>3 DEF TypeOK
    <2>2. WorkerInv(w)'
      BY <1>1, <1>3
      DEF TypeOK, WorkerInv, RequestInv, MemoryInv, WorkInv, SoundInv,
          Unpolled, Before
    <2>3. \A v \in Workers \ {w} : SameAt(v)
      BY <1>1 DEF SameAt, TypeOK
    <2>4. MainInv'
      BY <1>1, WorkerMoves DEF mainVars
    <2>5. UsageInv'
      BY <1>1, WorkerGoesOn
    <2> QED
      BY <2>1, <2>2, <2>3, <2>4, <2>5, OneWorker DEF IInv
  <1> QED
    BY <1>2, <1>3 DEF Allocate

LEMMA SubmitStep ==
    ASSUME IInv, NEW w \in Workers, Submit(w)
    PROVE  IInv'
  <1> TypeOK /\ WorkerInv(w) /\ MainInv /\ UsageInv
    BY DEF IInv
  <1>1. /\ wpc[w] = "submit"
        /\ UNCHANGED <<mpc, mi, gPollingDc, usage, started, removed, owned,
                       sem, answered, ppc, cur, calledBack>>
    BY DEF Submit, mainVars, pollVars
  <1> PICK x \in {"submit", "wait"}, n \in Requests :
             /\ wpc' = [wpc EXCEPT ![w] = x]
             /\ k' = [k EXCEPT ![w] = n]
             /\ x = "submit" => n = k[w] + 1
             /\ x = "wait" => n = 1
    <2>1. k[w] \in Requests /\ wpc = [wpc EXCEPT ![w] = "submit"]
      BY <1>1 DEF TypeOK
    <2>2. CASE k[w] = 3
      <3>1. /\ wpc' = [wpc EXCEPT ![w] = "wait"] /\ k' = [k EXCEPT ![w] = 1]
            /\ 1 \in Requests
        BY <2>2 DEF Submit, Requests
      <3> QED
        BY <3>1
    <2>3. CASE k[w] # 3
      <3>1. /\ wpc' = [wpc EXCEPT ![w] = "submit"]
            /\ k' = [k EXCEPT ![w] = k[w] + 1] /\ k[w] + 1 \in Requests
        BY <2>1, <2>3 DEF Submit, Requests
      <3> QED
        BY <3>1
    <2> QED
      BY <2>2, <2>3
  <1>2. /\ wpc'[w] = x /\ k'[w] = n /\ k[w] \in Requests
        /\ \A r \in inflight[w] \cup calledBack[w] \cup {cur[w]} : r < k[w]
    BY <1>1 DEF TypeOK, WorkerInv, RequestInv
  <1>3. MainInv'
    BY <1>1, WorkerMoves DEF mainVars
  <1>4. UsageInv'
    BY <1>1, WorkerGoesOn
  <1>5. CASE /\ inflight' = [inflight EXCEPT ![w] = @ \cup {k[w]}]
             /\ pending' = [pending EXCEPT ![w] = @ + 1]
             /\ status' = [status EXCEPT ![w] = TRUE]
    <2>1. /\ inflight'[w] = inflight[w] \cup {k[w]}
          /\ pending'[w] = pending[w] + 1
          /\ inflight[w] \in SUBSET Requests
          /\ inflight'[w] \in SUBSET Requests
          /\ status'[w] = TRUE
      BY <1>2, <1>5 DEF TypeOK
    <2>2. k[w] \notin inflight[w] \cup calledBack[w] \cup {cur[w]}
      BY <1>2 DEF Requests
    <2>3. pending'[w] = Cardinality(inflight'[w])
      BY <2>1, <2>2, RequestCount DEF WorkerInv, RequestInv
    <2>4. pending'[w] \in 0 .. 3
      BY <2>1, <2>3, RequestCount
    <2>5. TypeOK'
      <3>1. inflight' \in [Workers -> SUBSET Requests]
        BY <1>5, <2>1 DEF TypeOK
      <3>2. pending' \in [Workers -> 0 .. 3]
        BY <1>5, <2>1, <2>4 DEF TypeOK
      <3>3. wpc' \in [Workers -> {"none", "capabilities", "prepare",
                "startPolling", "openSession", "allocate", "submit", "wait",
                "free", "remove", "cleanup", "ended"}]
        BY DEF TypeOK
      <3> QED
        BY <1>1, <1>5, <3>1, <3>2, <3>3 DEF TypeOK
    <2>6. RequestInv(w)'
      <3>1. \A r \in inflight'[w] \cup calledBack'[w] \cup {cur'[w]} :
                r < k[w] + 1
        BY <1>1, <1>2, <2>1 DEF Requests, TypeOK
      <3> QED
        BY <1>1, <1>2, <2>1, <2>2, <2>3, <3>1
        DEF WorkerInv, RequestInv, Before, Unpolled
    <2>7. WorkerInv(w)'
      BY <1>1, <1>2, <2>1, <2>6
      DEF WorkerInv, MemoryInv, WorkInv, SoundInv, Requests
    <2>8. \A v \in Workers \ {w} : SameAt(v)
      BY <1>1, <1>5 DEF SameAt, TypeOK
    <2> QED
      BY <1>3, <1>4, <2>5, <2>7, <2>8, OneWorker DEF IInv
  <1>6. CASE /\ w \in Faulty
             /\ status' = [status EXCEPT ![w] = FALSE]
             /\ UNCHANGED <<inflight, pending>>
    <2>1. TypeOK'
      BY <1>1, <1>6 DEF TypeOK
    <2>2. RequestInv(w)'
      BY <1>1, <1>2, <1>6
      DEF WorkerInv, RequestInv, Before, Unpolled, TypeOK, Requests
    <2>3. WorkerInv(w)'
      BY <1>1, <1>2, <1>6, <2>2
      DEF WorkerInv, MemoryInv, WorkInv, SoundInv, Requests
    <2>4. \A v \in Workers \ {w} : SameAt(v)
      BY <1>1, <1>6 DEF SameAt, TypeOK
    <2> QED
      BY <1>3, <1>4, <2>1, <2>3, <2>4, OneWorker DEF IInv
  <1> QED
    BY <1>5, <1>6 DEF Submit

LEMMA WaitStep ==
    ASSUME IInv, NEW w \in Workers, Wait(w)
    PROVE  IInv'
  <1> TypeOK /\ WorkerInv(w) /\ MainInv /\ UsageInv
    BY DEF IInv
  <1>1. /\ wpc[w] = "wait"
        /\ UNCHANGED <<mpc, mi, gPollingDc, usage, started, removed, owned,
                       inflight, answered, pending, ppc, cur, calledBack>>
        /\ removed[w] = "none"
        /\ k[w] \in Requests
        /\ \A r \in Requests : r < k[w] => r \in calledBack[w]
        /\ calledBack[w] \subseteq Requests
    BY DEF Wait, mainVars, pollVars, serviceVars, WorkerInv, WorkInv, TypeOK
  <1> PICK x \in {"wait", "free"} : wpc' = [wpc EXCEPT ![w] = x]
    <2>1. wpc = [wpc EXCEPT ![w] = "wait"]
      BY <1>1 DEF TypeOK
    <2> QED
      BY <2>1 DEF Wait
  <1>2. wpc'[w] = x
    BY DEF TypeOK
  <1>3. MainInv'
    BY <1>1, WorkerMoves DEF mainVars
  <1>4. UsageInv'
    BY <1>1, WorkerGoesOn
  <1>5. CASE /\ status[w]
             /\ sem[w][k[w]] > 0
             /\ sem' = [sem EXCEPT ![w][k[w]] = @ - 1]
             /\ IF k[w] = 3
                THEN wpc' = [wpc EXCEPT ![w] = "free"] /\ k' = k
                ELSE wpc' = wpc /\ k' = [k EXCEPT ![w] = @ + 1]
             /\ status' = status
    <2>1. sem[w][k[w]] = 1 /\ k[w] \in calledBack[w]
      BY <1>1, <1>5 DEF TypeOK, WorkerInv, RequestInv
    <2>2. sem' \in [Workers -> [Requests -> {0, 1}]]
      BY <1>1, <1>5, <2>1 DEF TypeOK
    <2>3. \A r \in Requests : sem'[w][r] = 1 => r \in calledBack'[w]
      BY <1>1, <1>5, <2>1 DEF TypeOK, WorkerInv, RequestInv
    <2>4. TypeOK'
      <3>1. k' \in [Workers -> Requests]
        BY <1>1, <1>5 DEF TypeOK, Requests
      <3> QED
        BY <1>1, <1>5, <2>2, <3>1 DEF TypeOK
    <2>5. RequestInv(w)'
      BY <1>1, <1>2, <2>3 DEF WorkerInv, RequestInv, Before, Unpolled
    <2>6. WorkInv(w)'
      <3>1. CASE k[w] = 3
        <4>1. calledBack[w] = Requests
          BY <1>1, <2>1, <3>1 DEF Requests
        <4> QED
          BY <1>1, <1>2, <1>5, <3>1, <4>1 DEF WorkInv, TypeOK
      <3>2. CASE k[w] # 3
        <4>1. k'[w] = k[w] + 1 /\ wpc'[w] = "wait"
          BY <1>1, <1>5, <3>2 DEF TypeOK
        <4> QED
          BY <1>1, <2>1, <4>1 DEF WorkInv, Requests
      <3> QED
        BY <3>1, <3>2
    <2>7. WorkerInv(w)'
      BY <1>1, <1>2, <1>5, <2>5, <2>6 DEF WorkerInv, MemoryInv, SoundInv
    <2>8. \A v \in Workers \ {w} : SameAt(v)
      BY <1>1, <1>5 DEF SameAt, TypeOK
    <2> QED
      BY <1>3, <1>4, <2>4, <2>7, <2>8, OneWorker DEF IInv
  <1>6. CASE \/ /\ status[w] /\ w \in Faulty /\ Interruptible
                /\ status' = [status EXCEPT ![w] = FALSE]
                /\ UNCHANGED <<wpc, k, sem>>
             \/ /\ ~status[w]
                /\ wpc' = [wpc EXCEPT ![w] = "free"]
                /\ UNCHANGED <<k, status, sem>>
    <2>1. /\ ~status'[w] /\ w \in Faulty /\ UNCHANGED <<k, sem>>
          /\ status' \in [Workers -> BOOLEAN]
          /\ \A v \in Workers \ {w} : status'[v] = status[v]
      BY <1>6 DEF TypeOK, WorkerInv, SoundInv
    <2>2. TypeOK'
      BY <1>1, <2>1 DEF TypeOK
    <2>3. WorkerInv(w)'
      BY <1>1, <1>2, <2>1
      DEF WorkerInv, RequestInv, MemoryInv, WorkInv, SoundInv, Before, Unpolled
    <2>4. \A v \in Workers \ {w} : SameAt(v)
      BY <1>1, <2>1 DEF SameAt, TypeOK
    <2> QED
      BY <1>3, <1>4, <2>2, <2>3, <2>4, OneWorker DEF IInv
  <1> QED
    BY <1>5, <1>6 DEF Wait

LEMMA FreeStep ==
    ASSUME IInv, NEW w \in Workers, Free(w)
    PROVE  IInv'
  <1> TypeOK /\ WorkerInv(w) /\ MainInv /\ UsageInv
    BY DEF IInv
  <1>1. /\ wpc[w] = "free"
        /\ UNCHANGED <<mpc, mi, gPollingDc, usage, started, k, removed, sem,
                       inflight, answered, pending, ppc, cur, calledBack>>
        /\ owned' = [owned EXCEPT ![w] = @ \ {"buffers", "completions"}]
        /\ wpc' = [wpc EXCEPT ![w] = "remove"]
        /\ \/ status' = status
           \/ w \in Faulty /\ status' = [status EXCEPT ![w] = FALSE]
    BY DEF Free, WorkerKeeps, mainVars, serviceVars
  <1>2. TypeOK'
    BY <1>1 DEF TypeOK
  <1>3. WorkerInv(w)'
    BY <1>1
    DEF TypeOK, WorkerInv, RequestInv, MemoryInv, WorkInv, SoundInv, Unpolled,
        Before
  <1>4. \A v \in Workers \ {w} : SameAt(v)
    BY <1>1 DEF SameAt, TypeOK
  <1>5. MainInv'
    BY <1>1, WorkerMoves DEF mainVars
  <1>6. UsageInv'
    BY <1>1, WorkerGoesOn
  <1> QED
    BY <1>2, <1>3, <1>4, <1>5, <1>6, OneWorker DEF IInv

LEMMA RemoveStep ==
    ASSUME IInv, NEW w \in Workers, Remove(w)
    PROVE  IInv'
  <1> TypeOK /\ WorkerInv(w) /\ MainInv /\ UsageInv
    BY DEF IInv
  <1> DEFINE ret == IF pending[w] = 0 THEN "success" ELSE "retry"
  <1>1. /\ wpc[w] = "remove"
        /\ UNCHANGED <<mpc, mi, gPollingDc, usage, started, k, owned, sem,
                       inflight, answered, pending, ppc, cur, calledBack>>
        /\ removed' = [removed EXCEPT ![w] = ret]
        /\ status' = [status EXCEPT ![w] = @ /\ ret = "success"]
        /\ wpc' = [wpc EXCEPT ![w] = "cleanup"]
    BY DEF Remove, WorkerKeeps, mainVars, serviceVars
  <1>2. /\ ret = "success" <=> inflight[w] = {}
        /\ ret \in {"success", "retry"}
    BY RequestCount DEF TypeOK, WorkerInv, RequestInv
  <1>3. status[w] => calledBack[w] = Requests /\ ret = "success"
    <2>1. status[w] => calledBack[w] = Requests
      BY <1>1 DEF WorkerInv, WorkInv
    <2>2. inflight[w] \subseteq Requests /\ inflight[w] \cap calledBack[w] = {}
      BY DEF TypeOK, WorkerInv, RequestInv
    <2> QED
      BY <1>2, <2>1, <2>2
  <1> HIDE DEF ret
  <1>4. TypeOK'
    <2>1. removed' \in [Workers -> {"none", "success", "retry"}]
      BY <1>1, <1>2 DEF TypeOK
    <2>2. status' \in [Workers -> BOOLEAN]
      BY <1>1 DEF TypeOK
    <2> QED
      BY <1>1, <2>1, <2>2 DEF TypeOK
  <1>5. /\ removed'[w] = ret /\ wpc'[w] = "cleanup"
        /\ status'[w] <=> status[w] /\ ret = "success"
    BY <1>1 DEF TypeOK
  <1>6. RequestInv(w)' /\ MemoryInv(w)'
    BY <1>1, <1>5 DEF WorkerInv, RequestInv, MemoryInv, Unpolled, Before
  <1>7. WorkInv(w)' /\ SoundInv(w)'
    BY <1>1, <1>2, <1>3, <1>5 DEF WorkerInv, WorkInv, SoundInv
  <1>8. \A v \in Workers \ {w} : SameAt(v)
    BY <1>1 DEF SameAt, TypeOK
  <1>9. MainInv'
    BY <1>1, WorkerMoves DEF mainVars
  <1>10. UsageInv'
    BY <1>1, WorkerGoesOn
  <1> QED
    BY <1>4, <1>6, <1>7, <1>8, <1>9, <1>10, OneWorker DEF IInv, WorkerInv

LEMMA CleanupStep ==
    ASSUME IInv, NEW w \in Workers, Cleanup(w)
    PROVE  IInv'
  <1> TypeOK /\ WorkerInv(w) /\ MainInv /\ UsageInv
    BY DEF IInv
  <1>1. /\ wpc[w] = "cleanup"
        /\ UNCHANGED <<mpc, mi, gPollingDc, usage, started, k, removed, sem,
                       inflight, answered, pending, ppc, cur, calledBack>>
        /\ owned' = [owned EXCEPT ![w] = {}]
        /\ wpc' = [wpc EXCEPT ![w] = "ended"]
        /\ \/ status' = status
           \/ w \in Faulty /\ status' = [status EXCEPT ![w] = FALSE]
    BY DEF Cleanup, WorkerKeeps, mainVars, serviceVars
  <1>2. TypeOK'
    BY <1>1 DEF TypeOK
  <1>3. WorkerInv(w)'
    BY <1>1
    DEF TypeOK, WorkerInv, RequestInv, MemoryInv, WorkInv, SoundInv, Unpolled,
        Before
  <1>4. \A v \in Workers \ {w} : SameAt(v)
    BY <1>1 DEF SameAt, TypeOK
  <1>5. MainInv'
    BY <1>1, WorkerMoves DEF mainVars
  <1>6. UsageInv'
    BY <1>1, WorkerGoesOn
  <1> QED
    BY <1>2, <1>3, <1>4, <1>5, <1>6, OneWorker DEF IInv

LEMMA WorkerStep ==
    ASSUME IInv, NEW w \in Workers, Worker(w)
    PROVE  IInv'
  BY QueryCapabilitiesStep, StartInstanceStep, StartPollingStep,
     OpenSessionStep, AllocateStep, SubmitStep, WaitStep, FreeStep, RemoveStep,
     CleanupStep
  DEF Worker

-----------------------------------------------------------------------------
(* The device, the polling threads and main.                               *)

LEMMA AnswerStep ==
    ASSUME IInv, NEW w \in Workers, Answer(w)
    PROVE  IInv'
  <1> TypeOK /\ WorkerInv(w) /\ MainInv /\ UsageInv
    BY DEF IInv
  <1> PICK r \in inflight[w] \ answered[w] :
             answered' = [answered EXCEPT ![w] = @ \cup {r}]
    BY DEF Answer
  <1>1. UNCHANGED <<mpc, mi, gPollingDc, usage, started, wpc, k, status,
                    removed, owned, sem, inflight, pending, ppc, cur,
                    calledBack>>
    BY DEF Answer, mainVars, workerVars, pollVars
  <1>2. /\ answered'[w] = answered[w] \cup {r}
        /\ answered' \in [Workers -> SUBSET Requests]
    BY DEF TypeOK
  <1>3. TypeOK'
    BY <1>1, <1>2 DEF TypeOK
  <1>4. WorkerInv(w)'
    BY <1>1, <1>2
    DEF WorkerInv, RequestInv, MemoryInv, WorkInv, SoundInv
  <1>5. \A v \in Workers \ {w} : SameAt(v)
    BY <1>1 DEF SameAt, TypeOK
  <1>6. MainInv' /\ UsageInv'
    BY <1>1 DEF MainInv, UsageInv, Started
  <1> QED
    BY <1>3, <1>4, <1>5, <1>6, OneWorker DEF IInv

\* Starting, testing the flag, and finding the ring empty.
LEMMA IdlePollerStep ==
    ASSUME IInv, NEW w \in Workers,
           PollerStart(w) \/ PollerTest(w) \/ PollerSleep(w)
    PROVE  IInv'
  <1> TypeOK /\ WorkerInv(w) /\ MainInv /\ UsageInv
    BY DEF IInv
  <1> PICK x \in {"test", "poll", "exited"} : ppc' = [ppc EXCEPT ![w] = x]
    BY DEF PollerStart, PollerTest, PollerSleep
  <1>1. /\ UNCHANGED <<mpc, mi, usage, started, wpc, k, status, removed, owned,
                       sem, inflight, answered, pending, cur, calledBack>>
        /\ gPollingDc' \in {gPollingDc, 1}
        /\ ppc[w] \in {"created", "test", "poll"}
    BY DEF PollerStart, PollerTest, PollerSleep, PollKeeps, mainVars,
           workerVars, serviceVars
  <1>2. TypeOK'
    BY <1>1 DEF TypeOK
  <1>3. WorkerInv(w)'
    BY <1>1
    DEF TypeOK, WorkerInv, RequestInv, MemoryInv, WorkInv, SoundInv
  <1>4. \A v \in Workers \ {w} : SameAt(v)
    BY <1>1 DEF SameAt, TypeOK
  <1>5. MainInv' /\ UsageInv'
    BY <1>1 DEF MainInv, UsageInv, Started
  <1> QED
    BY <1>2, <1>3, <1>4, <1>5, OneWorker DEF IInv

LEMMA DeliverStep ==
    ASSUME IInv, NEW w \in Workers, Deliver(w)
    PROVE  IInv'
  <1> TypeOK /\ WorkerInv(w) /\ MainInv /\ UsageInv
    BY DEF IInv
  <1> PICK r \in answered[w] :
             /\ pending' = [pending EXCEPT ![w] = @ - 1]
             /\ inflight' = [inflight EXCEPT ![w] = @ \ {r}]
             /\ answered' = [answered EXCEPT ![w] = @ \ {r}]
             /\ cur' = [cur EXCEPT ![w] = r]
    BY DEF Deliver
  <1>1. /\ ppc[w] = "poll" /\ ppc' = [ppc EXCEPT ![w] = "callback"]
        /\ UNCHANGED <<mpc, mi, usage, started, wpc, k, status, removed, owned,
                       gPollingDc, sem, calledBack>>
    BY DEF Deliver, PollKeeps, mainVars, workerVars
  <1>2. /\ r \in inflight[w] /\ r \in Requests /\ cur[w] = 0
        /\ inflight[w] \in SUBSET Requests /\ answered[w] \in SUBSET Requests
        /\ r \notin calledBack[w]
        /\ inflight'[w] = inflight[w] \ {r} /\ inflight'[w] \in SUBSET Requests
        /\ answered'[w] = answered[w] \ {r}
        /\ cur'[w] = r /\ pending'[w] = pending[w] - 1
        /\ ppc'[w] = "callback"
    BY <1>1 DEF TypeOK, WorkerInv, RequestInv
  <1>3. pending'[w] = Cardinality(inflight'[w])
    BY <1>2, RequestCount DEF WorkerInv, RequestInv
  <1>4. pending'[w] \in 0 .. 3
    <2>1. \A S \in SUBSET Requests : Cardinality(S) \in 0 .. 3
      BY RequestCount
    <2>2. inflight'[w] \in SUBSET Requests
      BY <1>2
    <2> QED
      BY <1>3, <2>1, <2>2
  <1>5. TypeOK'
    <2>1. /\ pending' \in [Workers -> 0 .. 3]
          /\ inflight' \in [Workers -> SUBSET Requests]
          /\ answered' \in [Workers -> SUBSET Requests]
      BY <1>2, <1>4 DEF TypeOK
    <2>2. cur' \in [Workers -> 0 .. 3]
      BY <1>2 DEF TypeOK, Requests
    <2> QED
      BY <1>1, <2>1, <2>2 DEF TypeOK
  <1>6. RequestInv(w)'
    <2>1. wpc[w] \notin Before /\ wpc[w] \notin Unpolled
      BY <1>2 DEF WorkerInv, RequestInv, Before
    <2>2. r # 0
      BY <1>2 DEF Requests
    <2> QED
      BY <1>1, <1>2, <1>3, <2>1, <2>2 DEF WorkerInv, RequestInv
  <1>7. WorkerInv(w)'
    BY <1>1, <1>2, <1>6 DEF WorkerInv, MemoryInv, WorkInv, SoundInv
  <1>8. \A v \in Workers \ {w} : SameAt(v)
    BY <1>1 DEF SameAt, TypeOK
  <1>9. MainInv' /\ UsageInv'
    BY <1>1 DEF MainInv, UsageInv, Started
  <1> QED
    BY <1>5, <1>7, <1>8, <1>9, OneWorker DEF IInv

LEMMA CallbackStep ==
    ASSUME IInv, NEW w \in Workers, Callback(w)
    PROVE  IInv'
  <1> TypeOK /\ WorkerInv(w) /\ MainInv /\ UsageInv
    BY DEF IInv
  <1> DEFINE c == cur[w]
  <1>1. /\ ppc[w] = "callback" /\ ppc' = [ppc EXCEPT ![w] = "poll"]
        /\ sem' = [sem EXCEPT ![w][c] = @ + 1]
        /\ calledBack' = [calledBack EXCEPT ![w] = @ \cup {c}]
        /\ cur' = [cur EXCEPT ![w] = 0]
        /\ UNCHANGED <<mpc, mi, usage, started, wpc, k, status, removed, owned,
                       gPollingDc, inflight, answered, pending>>
    BY DEF Callback, PollKeeps, mainVars, workerVars, serviceVars
  <1>2. c \in Requests /\ c \notin calledBack[w] /\ c \notin inflight[w]
    BY <1>1 DEF TypeOK, WorkerInv, RequestInv, Requests
  <1>3. sem[w][c] = 0
    BY <1>2 DEF TypeOK, WorkerInv, RequestInv
  <1>4. /\ calledBack'[w] = calledBack[w] \cup {c} /\ cur'[w] = 0
        /\ ppc'[w] = "poll"
        /\ \A r \in Requests : sem'[w][r] = IF r = c THEN 1 ELSE sem[w][r]
    BY <1>1, <1>2, <1>3 DEF TypeOK
  <1>5. TypeOK'
    <2>1. sem' \in [Workers -> [Requests -> {0, 1}]]
      BY <1>1, <1>2, <1>3 DEF TypeOK
    <2>2. calledBack' \in [Workers -> SUBSET Requests]
      BY <1>1, <1>2 DEF TypeOK
    <2> QED
      BY <1>1, <2>1, <2>2 DEF TypeOK
  <1>6. RequestInv(w)'
    <2>1. wpc[w] \notin Before /\ wpc[w] \notin Unpolled
      BY <1>2 DEF WorkerInv, RequestInv, Before, Requests
    <2>2. 0 \notin inflight[w] \cup calledBack[w] \cup {c}
      BY <1>2 DEF TypeOK, Requests
    <2>3. wpc[w] = "submit" =>
              \A r \in inflight'[w] \cup calledBack'[w] \cup {cur'[w]} :
                  r < k[w]
      <3>1. wpc[w] = "submit" =>
                \A r \in inflight[w] \cup calledBack[w] \cup {c} : r < k[w]
        BY DEF WorkerInv, RequestInv
      <3>2. 0 < k[w]
        BY DEF TypeOK, Requests
      <3>3. inflight' = inflight
        BY <1>1
      <3> QED
        BY <1>4, <3>1, <3>2, <3>3
    <2> QED
      BY <1>1, <1>2, <1>4, <2>1, <2>2, <2>3 DEF WorkerInv, RequestInv
  <1>7. WorkerInv(w)'
    <2>1. calledBack[w] # Requests
      BY <1>2
    <2> QED
      BY <1>1, <1>4, <1>6, <2>1
      DEF WorkerInv, MemoryInv, WorkInv, SoundInv
  <1>8. \A v \in Workers \ {w} : SameAt(v)
    BY <1>1 DEF SameAt, TypeOK
  <1>9. MainInv' /\ UsageInv'
    BY <1>1 DEF MainInv, UsageInv, Started
  <1> QED
    BY <1>5, <1>7, <1>8, <1>9, OneWorker DEF IInv

LEMMA CreateWorkerStep ==
    ASSUME IInv, CreateWorker
    PROVE  IInv'
  <1> TypeOK /\ MainInv /\ UsageInv /\ WorkerInv(mi) /\ mi \in Workers
    BY DEF IInv, TypeOK
  <1>1. /\ mpc = "create" /\ wpc[mi] = "none"
        /\ UNCHANGED <<gPollingDc, usage, started, k, status, removed, owned,
                       sem, inflight, answered, pending, ppc, cur, calledBack>>
    BY DEF CreateWorker, serviceVars, pollVars, MainInv, Workers
  <1>2. CASE /\ wpc' = [wpc EXCEPT ![mi] = "capabilities"]
             /\ IF mi = NumInstances
                THEN mpc' = "join" /\ mi' = 1
                ELSE mpc' = mpc /\ mi' = mi + 1
    <2>1. mi' \in Workers
      BY <1>2, InstancesAssumption DEF Workers
    <2>2. TypeOK'
      BY <1>1, <1>2, <2>1 DEF TypeOK
    <2>3. \A v \in Workers : WorkerInv(v)'
      <3>1. wpc'[mi] = "capabilities"
        BY <1>2 DEF TypeOK
      <3>2. ASSUME NEW v \in Workers, v = mi PROVE WorkerInv(v)'
        BY <1>1, <3>1, <3>2
        DEF WorkerInv, RequestInv, MemoryInv, WorkInv, SoundInv, Unpolled,
            Before
      <3>3. ASSUME NEW v \in Workers, v # mi PROVE WorkerInv(v)'
        <4>1. SameAt(v) /\ WorkerInv(v)
          BY <1>1, <1>2, <3>3 DEF SameAt, TypeOK, IInv
        <4> QED
          BY <4>1, SameWorker
      <3> QED
        BY <3>2, <3>3
    <2>4. MainInv'
      <3>1. CASE mi = NumInstances
        BY <1>1, <1>2, <3>1, InstancesAssumption DEF MainInv, TypeOK, Workers
      <3>2. CASE mi # NumInstances
        BY <1>1, <1>2, <3>2 DEF MainInv, TypeOK, Workers
      <3> QED
        BY <3>1, <3>2
    <2>5. UsageInv'
      BY <1>1, <1>2 DEF UsageInv, Started, TypeOK
    <2> QED
      BY <2>2, <2>3, <2>4, <2>5 DEF IInv
  <1>3. CASE CreateMayFail /\ mpc' = "userStop" /\ UNCHANGED <<mi, wpc>>
    <2>1. TypeOK'
      BY <1>1, <1>3 DEF TypeOK
    <2>2. \A v \in Workers : WorkerInv(v)'
      BY <1>1, <1>3, SameWorker DEF IInv, SameAt
    <2>3. MainInv' /\ UsageInv'
      BY <1>1, <1>3 DEF MainInv, UsageInv
    <2> QED
      BY <2>1, <2>2, <2>3 DEF IInv
  <1> QED
    BY <1>2, <1>3 DEF CreateWorker

LEMMA StopInstanceStep ==
    ASSUME IInv, StopInstance
    PROVE  IInv'
  <1> TypeOK /\ MainInv /\ UsageInv /\ mi \in Workers
    BY DEF IInv, TypeOK
  <1>1. /\ mpc = "stopInstances"
        /\ UNCHANGED <<gPollingDc, wpc, k, status, removed, owned, sem,
                       inflight, answered, pending, ppc, cur, calledBack>>
        /\ \A v \in Workers : wpc[v] = "ended"
    BY DEF StopInstance, workerVars, serviceVars, pollVars, MainInv
  <1>2. \A v \in Workers : WorkerInv(v)'
    BY <1>1, SameWorker DEF IInv, SameAt
  <1>3. CASE /\ started' = [started EXCEPT ![mi] = FALSE]
             /\ usage' = usage - 1
             /\ IF mi = NumInstances
                THEN mpc' = "userStop" /\ mi' = mi
                ELSE mpc' = mpc /\ mi' = mi + 1
    <2>1. mi' \in Workers
      BY <1>3, InstancesAssumption DEF Workers
    <2>2. TypeOK'
      BY <1>1, <1>3, <2>1 DEF TypeOK
    <2>3. MainInv'
      BY <1>1, <1>3 DEF MainInv
    <2>4. ASSUME Faulty = {}, ~CreateMayFail
          PROVE  UsageInv'
      <3>1. /\ usage = Cardinality(Started) /\ mi \in Started
            /\ \A v \in Workers : mi <= v => started[v]
        BY <1>1, <2>4 DEF UsageInv, Started, Workers
      <3>2. Started' = Started \ {mi}
        BY <1>3 DEF Started, TypeOK
      <3>3. Cardinality(Started \ {mi}) = Cardinality(Started) - 1
        BY <3>1, WorkersFinite, FS_RemoveElement DEF Started
      <3>4. usage' = Cardinality(Started')
        BY <1>3, <3>1, <3>2, <3>3
      <3>5. mpc' = "stopInstances" => \A v \in Workers : mi' <= v => started'[v]
        BY <1>3, <3>1 DEF TypeOK, Workers
      <3> QED
        BY <1>1, <1>3, <3>4, <3>5 DEF UsageInv
    <2>5. UsageInv'
      BY <2>4 DEF UsageInv
    <2> QED
      BY <1>2, <2>2, <2>3, <2>5 DEF IInv
  <1>4. CASE MainMayFail /\ mpc' = "userStop" /\ UNCHANGED <<mi, started, usage>>
    <2>1. TypeOK'
      BY <1>1, <1>4 DEF TypeOK
    <2>2. MainInv' /\ UsageInv'
      BY <1>1, <1>4 DEF MainInv, UsageInv, Started
    <2> QED
      BY <1>2, <2>1, <2>2 DEF IInv
  <1> QED
    BY <1>3, <1>4 DEF StopInstance

\* The steps of main that only move main on.
LEMMA OtherMainStep ==
    ASSUME IInv,
           StartProcess \/ Discover \/ JoinWorker \/ StopPolling \/ Exit
    PROVE  IInv'
  <1> TypeOK /\ MainInv /\ UsageInv /\ mi \in Workers
    BY DEF IInv, TypeOK
  <1>1. /\ UNCHANGED <<usage, started, wpc, k, status, removed, owned, sem,
                       inflight, answered, pending, ppc, cur, calledBack>>
        /\ gPollingDc' \in {gPollingDc, 0}
    BY DEF StartProcess, Discover, JoinWorker, StopPolling, Exit, MainKeeps,
           workerVars, serviceVars, pollVars
  <1>2. \A v \in Workers : WorkerInv(v)'
    BY <1>1, SameWorker DEF IInv, SameAt
  <1>3. CASE StartProcess
    <2>1. TypeOK'
      BY <1>1, <1>3 DEF TypeOK, StartProcess
    <2>2. MainInv' /\ UsageInv'
      BY <1>1, <1>3 DEF MainInv, UsageInv, Started, StartProcess
    <2> QED
      BY <1>2, <2>1, <2>2 DEF IInv
  <1>4. CASE Discover
    <2>1. TypeOK'
      BY <1>1, <1>4 DEF TypeOK, Discover
    <2>2. MainInv'
      BY <1>1, <1>4 DEF MainInv, Discover, Workers
    <2>3. UsageInv'
      BY <1>1, <1>4 DEF MainInv, UsageInv, Started, Discover
    <2> QED
      BY <1>2, <2>1, <2>2, <2>3 DEF IInv
  <1>5. CASE JoinWorker
    <2>1. mi' \in Workers
      BY <1>5, InstancesAssumption DEF Workers, JoinWorker
    <2>2. TypeOK'
      BY <1>1, <1>5, <2>1 DEF TypeOK, JoinWorker
    <2>3. MainInv'
      BY <1>1, <1>5 DEF MainInv, JoinWorker, Workers
    <2>4. UsageInv'
      BY <1>1, <1>5 DEF UsageInv, Started, JoinWorker
    <2> QED
      BY <1>2, <2>2, <2>3, <2>4 DEF IInv
  <1>6. CASE StopPolling
    <2>1. TypeOK'
      BY <1>1, <1>6 DEF TypeOK, StopPolling
    <2>2. MainInv'
      BY <1>1, <1>6 DEF MainInv, StopPolling
    <2>3. UsageInv'
      BY <1>1, <1>6 DEF MainInv, UsageInv, Started, StopPolling
    <2> QED
      BY <1>2, <2>1, <2>2, <2>3 DEF IInv
  <1>7. CASE Exit
    <2>1. TypeOK'
      BY <1>1, <1>7 DEF TypeOK, Exit
    <2>2. MainInv' /\ UsageInv'
      BY <1>1, <1>7 DEF MainInv, UsageInv, Started, Exit
    <2> QED
      BY <1>2, <2>1, <2>2 DEF IInv
  <1> QED
    BY <1>3, <1>4, <1>5, <1>6, <1>7

LEMMA StutterStep ==
    ASSUME IInv, UNCHANGED vars
    PROVE  IInv'
  <1>1. UNCHANGED <<mpc, mi, gPollingDc, usage, started, wpc, k, status,
                    removed, owned, sem, inflight, answered, pending, ppc, cur,
                    calledBack>>
    BY DEF vars, mainVars, workerVars, serviceVars, pollVars
  <1>2. TypeOK'
    BY <1>1 DEF IInv, TypeOK
  <1>3. \A v \in Workers : WorkerInv(v)'
    BY <1>1, SameWorker DEF IInv, SameAt
  <1>4. MainInv' /\ UsageInv'
    BY <1>1 DEF IInv, MainInv, UsageInv, Started
  <1> QED
    BY <1>2, <1>3, <1>4 DEF IInv

LEMMA NextStep ==
    IInv /\ [Next]_vars => IInv'
  BY CreateWorkerStep, StopInstanceStep, OtherMainStep, WorkerStep, AnswerStep,
     IdlePollerStep, DeliverStep, CallbackStep, StutterStep
  DEF Next, Main, Poller, Exited

LEMMA InitIInv ==
    Init => IInv
  <1> SUFFICES ASSUME Init PROVE IInv
    OBVIOUS
  <1>1. Cardinality({}) = 0 /\ 1 \in Workers /\ 1 \in Requests
    BY FS_EmptySet, InstancesAssumption DEF Workers, Requests
  <1>2. TypeOK
    <2>1. mi \in Workers /\ k \in [Workers -> Requests]
      BY <1>1 DEF Init
    <2>2. sem \in [Workers -> [Requests -> {0, 1}]]
      BY DEF Init
    <2> QED
      BY <2>1, <2>2 DEF Init, TypeOK
  <1>3. \A w \in Workers : WorkerInv(w)
    BY <1>1
    DEF Init, WorkerInv, RequestInv, MemoryInv, WorkInv, SoundInv, Unpolled,
        Before
  <1>4. MainInv
    BY DEF Init, MainInv
  <1>5. UsageInv
    <2>1. Started = {}
      BY DEF Init, Started
    <2> QED
      BY <1>1, <2>1 DEF Init, UsageInv
  <1> QED
    BY <1>2, <1>3, <1>4, <1>5 DEF IInv

-----------------------------------------------------------------------------
(* The theorems.                                                           *)

\* The inductive invariant holds in every reachable state, whatever fails.
THEOREM Invariance == Spec => []IInv
  BY InitIInv, NextStep, PTL DEF Spec

\* Every variable keeps its type, whatever fails: no semaphore is posted
\* twice and the pending count of a session stays between 0 and 3.
THEOREM TypeCorrect == Spec => []TypeOK
  BY Invariance, PTL DEF IInv

\* Whatever fails, whichever submission is refused, and even when a wait is
\* interrupted: a worker that ends with SUCCESS had all of its requests called
\* back and its session removed (dc_qat_funcs.c:262-281, 489-512).
THEOREM SuccessIsEarned == Spec => []SuccessMeansDone
  <1>1. IInv => SuccessMeansDone
    <2> SUFFICES ASSUME IInv, NEW w \in Workers,
                        wpc[w] \in {"cleanup", "ended"}, removed[w] # "none",
                        status[w]
                 PROVE  /\ calledBack[w] = Requests
                        /\ removed[w] = "success"
                        /\ Outstanding(w) = {}
      BY DEF SuccessMeansDone
    <2>1. TypeOK /\ RequestInv(w) /\ WorkInv(w)
      BY DEF IInv, WorkerInv
    <2>2. calledBack[w] = Requests /\ removed[w] = "success"
      BY <2>1 DEF WorkInv
    <2>3. inflight[w] = {} /\ cur[w] = 0
      BY <2>1, <2>2 DEF WorkInv, RequestInv, TypeOK, Requests
    <2> QED
      BY <2>2, <2>3 DEF Outstanding
  <1> QED
    BY <1>1, Invariance, PTL

\* Whatever fails: after cpaDcRemoveSession returned SUCCESS no response of
\* the session is taken off the ring, and none is still to come.
THEOREM RemovalIsFinal == Spec => RemovedIsFinal
  <1>1. IInv /\ [Next]_vars =>
            [\A w \in Workers : removed[w] = "success" => inflight[w]' = {}]_vars
    <2> SUFFICES ASSUME IInv, Next, NEW w \in Workers, removed[w] = "success"
                 PROVE  inflight[w]' = {}
      BY NextStep DEF vars
    <2>1. removed'[w] = "success"
      <3>1. wpc[w] \in {"cleanup", "ended"}
        BY DEF IInv, WorkerInv, WorkInv
      <3>2. CASE Main \/ Exited
        BY <3>2
        DEF Main, StartProcess, Discover, CreateWorker, JoinWorker,
            StopPolling, StopInstance, Exit, MainKeeps, Exited, vars,
            workerVars
      <3>3. ASSUME NEW v \in Workers, Answer(v) \/ Poller(v)
            PROVE  removed'[w] = "success"
        BY <3>3
        DEF Answer, Poller, PollerStart, PollerTest, Deliver, Callback,
            PollerSleep, PollKeeps, workerVars
      <3>4. ASSUME NEW v \in Workers, Worker(v)
            PROVE  removed'[w] = "success"
        BY <3>1, <3>4
        DEF Worker, QueryCapabilities, StartInstance, StartPolling,
            OpenSession, Allocate, Submit, Wait, Free, Remove, Cleanup, IInv,
            TypeOK
      <3> QED
        BY <3>2, <3>3, <3>4 DEF Next
    <2>2. WorkerInv(w)'
      BY NextStep DEF IInv
    <2> QED
      BY <2>1, <2>2 DEF WorkerInv, WorkInv
  <1> QED
    BY <1>1, Invariance, PTL DEF Spec, RemovedIsFinal

\* If pthread_create does not fail, main tears down only after every worker it
\* created has ended, whatever else fails (dc_qat_funcs.c:671-688).
THEOREM FrameIsSafe ==
    ASSUME ~CreateMayFail
    PROVE  Spec => []FrameOutlivesWorkers
  <1>1. IInv => FrameOutlivesWorkers
    BY DEF IInv, MainInv, FrameOutlivesWorkers
  <1> QED
    BY <1>1, Invariance, PTL

\* If no call of a worker fails, the memory of its requests is there until
\* the last of them was called back, whatever happens to main.
THEOREM MemoryIsSafe ==
    ASSUME Faulty = {}
    PROVE  Spec => []MemoryOutlivesRequests
  <1>1. IInv => MemoryOutlivesRequests
    <2> SUFFICES ASSUME IInv, NEW w \in Workers, Outstanding(w) # {}
                 PROVE  {"session", "buffers", "completions", "intermediate"}
                            \subseteq owned[w]
      BY DEF MemoryOutlivesRequests
    <2>1. /\ TypeOK /\ RequestInv(w) /\ WorkInv(w) /\ MemoryInv(w)
          /\ status[w]
          /\ wpc[w] \in {"cleanup", "ended"} => removed[w] = "success"
      BY DEF IInv, WorkerInv, SoundInv
    <2>2. calledBack[w] # Requests
      BY <2>1 DEF Outstanding, TypeOK, RequestInv, Requests
    <2>3. wpc[w] \notin {"free", "remove", "cleanup", "ended"}
      BY <2>1, <2>2 DEF WorkInv
    <2>4. wpc[w] \notin Before
      BY <2>1 DEF Outstanding, RequestInv
    <2>5. wpc[w] \in {"submit", "wait"}
      BY <2>1, <2>3, <2>4 DEF TypeOK, Before, Unpolled
    <2> QED
      BY <2>1, <2>5 DEF MemoryInv
  <1> QED
    BY <1>1, Invariance, PTL

\* If no call of a worker fails, cpaDcRemoveSession never answers RETRY.
THEOREM RemoveSucceeds ==
    ASSUME Faulty = {}
    PROVE  Spec => []RemoveNeverRetries
  <1>1. IInv => RemoveNeverRetries
    BY DEF IInv, WorkerInv, SoundInv, RemoveNeverRetries
  <1> QED
    BY <1>1, Invariance, PTL

\* If no call of a worker fails and all are created, the device's usage
\* counter counts the started instances, even when main gives up stopping
\* them halfway (dc_qat_funcs.c:702-710).
THEOREM UsageIsExact ==
    ASSUME Faulty = {}, ~CreateMayFail
    PROVE  Spec => []UsageCounts
  <1>1. IInv => UsageCounts
    BY DEF IInv, UsageInv, Started, UsageCounts
  <1> QED
    BY <1>1, Invariance, PTL
=============================================================================

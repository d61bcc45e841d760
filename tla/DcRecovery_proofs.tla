------------------------- MODULE DcRecovery_proofs -------------------------
(***************************************************************************)
(* An instance through the failures of its device, proved for any number   *)
(* of blocks, requests, failures and polling threads: rings are given up   *)
(* only when nobody waits for an answer (RestartClean), dummies come in    *)
(* the order of the requests (DummyOrder), and the instance implements     *)
(* RequestChannel, whatever happens to its device.                         *)
(*                                                                         *)
(* The set-ups proved about are those in which one thread submits and      *)
(* watches for events, and other threads poll only if a device that failed *)
(* answers no more (Watched).  With a second thread in a call, or with     *)
(* late responses polled beside the dummies, the code itself does not keep *)
(* the promises.                                                           *)
(***************************************************************************)
EXTENDS DcRecovery, FiniteSetTheorems, FunctionTheorems,
        SequenceTheorems, TLAPS

\* One thread, a, submits and watches for events; the others may only poll,
\* and they do so while devices that fail are dead.
Watched(s, a) ==
    /\ s.callers \subseteq {a}
    /\ s.watchers \subseteq {a}
    /\ s.pollers \subseteq Threads
    /\ s.failed \subseteq {"up", "down"}
    /\ s.pollers \subseteq {a} \/ "up" \notin s.failed

CallPlaces == {"alloc", "pop", "put", "opaque", "undo"}
PollPlaces == {"poll", "mark", "dummy"}

\* The event whose handler a thread is in.
ErrorPlaces == {"error", "check", "set", "settle"}
HandlerPlaces == ErrorPlaces \cup {"restarting", "restarted", "cookies"}
KindOf(p) == IF p \in ErrorPlaces THEN "error"
             ELSE IF p = "restarting" THEN "restarting" ELSE "restarted"

Marking == \E t \in Threads : pc[t] = "mark"
Silent == device = "down" \/ hw = <<>>

\* Where threads are, and which states of the instance this goes with.
PlaceInv(a) ==
    /\ \A t \in Threads : t # a => pc[t] \in PollPlaces \cup {"idle"}
    /\ \A t \in Threads : pc[t] \in PollPlaces => t \in setup.pollers
    /\ \A t, u \in Threads : pc[t] = "mark" /\ pc[u] = "mark" => t = u
    /\ Marking => resp # <<>>
    /\ pc[a] \in CallPlaces => state = "running"
    /\ pc[a] = "set" \/ state # "running" =>
          /\ ~Marking
          /\ \/ resp = <<>> /\ Silent
             \/ setup.pollers \subseteq {a} /\ pc[a] # "poll"

-----------------------------------------------------------------------------
(* The events come round.                                                  *)

Follows(e) == CASE e = "error" -> "restarting"
                [] e = "restarting" -> "restarted"
                [] OTHER -> "error"

\* What the kernel sends next, what the process receives next, what it
\* handles next, and what it handles or is about to.
Coming == CASE kernel = "ok" -> "error"
            [] kernel = "failed" -> "restarting"
            [] OTHER -> "restarted"
Arriving == IF pipe = <<>> THEN Coming ELSE Head(pipe)
Waiting == IF queue = <<>> THEN Arriving ELSE Head(queue)
Expected(a) == IF pc[a] \in HandlerPlaces THEN KindOf(pc[a]) ELSE Waiting

InOrder(q, last) ==
    \A i \in 1..Len(q) : Follows(q[i]) = IF i = Len(q) THEN last ELSE q[i+1]

Sent(e) == \E i \in 1..Len(pipe) : pipe[i] = e

OrderInv(a) ==
    /\ InOrder(pipe, Coming)
    /\ InOrder(queue, Arriving)
    /\ \A i \in 1..Len(queue) : queue[i] # "restarted"
    /\ pc[a] \in HandlerPlaces =>
          /\ event[a].kind = KindOf(pc[a])
          /\ IF event[a].queued THEN queue # <<>> /\ Head(queue) = KindOf(pc[a])
             ELSE queue = <<>> /\ Arriving = Follows(KindOf(pc[a]))
    /\ kernel = "ok" => device = "up"
    /\ kernel # "ok" => device \in setup.failed

\* How far the instance is in the restart.
PhaseInv(a) ==
    /\ pc[a] = "cookies" =>
          state = "running" /\ Whole /\ hw = <<>> /\ resp = <<>>
    /\ pc[a] # "cookies" => (Expected(a) = "restarted" <=> state = "restarting")
    /\ Expected(a) = "restarting" => state = "error"
    /\ Expected(a) = "restarting" \/ state = "restarting" => Whole
    /\ pc[a] \in {"check", "set", "settle"} /\ busy = 0 => Whole
    /\ pc[a] \in {"check", "set"} => state = "running"
    /\ state = "restarting" /\ (pipe # <<>> \/ pc[a] = "restarted") => hw = <<>>
    /\ state # "restarting" /\ Sent("restarted") =>
          /\ queue = <<>> /\ Whole /\ hw = <<>> /\ resp = <<>>
          /\ pc[a] \in HandlerPlaces \cup {"pipe"}
          /\ pc[a] \in {"check", "set", "settle"} => busy = 0
          /\ pc[a] = "settle" => state = "error"

-----------------------------------------------------------------------------
(* The blocks and the ring.                                                *)

\* The messages from the oldest response to the newest request, and the
\* first of them that was not called back.
OnRing(i) == IF i <= Len(resp) THEN resp[i] ELSE hw[i - Len(resp)]
Newest == Len(resp) + Len(hw)
Oldest == IF Marking THEN 2 ELSE 1
Base == sendSeq - inFlight

\* The block a call has taken and not put on the ring.
Holding(a) == pc[a] \in {"put", "opaque", "undo"} /\ call[a].seq = Invalid
Held(a, b) == Holding(a) /\ call[a].block = b

\* No block is twice on the stack, every block off it is counted, and once
\* dummies are made only their blocks are off it.
PoolInv ==
    /\ \A i, j \in 1..Len(pool) : pool[i] = pool[j] => i = j
    /\ pending = Cardinality(Used)
    /\ sync = 1 => \A t \in Threads : todo[t] = <<>>
    /\ sync = 0 =>
          /\ state # "running"
          /\ \A b \in Used : \E t \in Threads :
                \E i \in 1..Len(todo[t]) : todo[t][i] = b
    /\ \A t, u \in Threads : todo[t] # <<>> /\ todo[u] # <<>> => t = u
    /\ \A t \in Threads : todo[t] # <<>> => pc[t] = "dummy"
    /\ DummyOrder

\* As long as the instance may send or make dummies, what is in use is on
\* the ring, numbered as it was sent, but for the block of a call.
RingInv(a) ==
    state # "restarting" /\ sync = 1 =>
        /\ inFlight = Newest /\ inFlight <= sendSeq
        /\ \A b \in Used : Held(a, b) \/ \E i \in Oldest..Newest : OnRing(i) = b
        /\ \A i \in Oldest..Newest : OnRing(i) \in Used /\ ~Held(a, OnRing(i))
        /\ \A i, j \in Oldest..Newest : OnRing(i) = OnRing(j) => i = j
        /\ \A i \in Oldest..Newest :
              opaque[OnRing(i)] # Base + i - 1 =>
                  i = Newest /\ pc[a] = "opaque" /\ ~Holding(a)
        /\ pc[a] = "opaque" /\ ~Holding(a) =>
              /\ call[a].seq = sendSeq - 1
              /\ Oldest <= Newest => OnRing(Newest) = call[a].block

\* A request on the ring has one block and no answer, and the call that is
\* made has a request of its own.
RequestInv(a) ==
    /\ \A b, c \in Used : request[b] = request[c] => b = c
    /\ \A b \in Used : request[b] \in 1..calls /\ answers[request[b]] = 0
    /\ \A b \in Used : request[b] \in accepted <=> ~Held(a, b)
    /\ \A r \in accepted : answers[r] = 0 => \E b \in Used : request[b] = r
    /\ accepted \subseteq 1..calls
    /\ \A r \in Requests : answers[r] > 0 => r \in accepted
    /\ pc[a] \in {"alloc", "pop"} =>
          /\ call[a].id = calls /\ calls \in Requests /\ calls \notin accepted
          /\ \A b \in Used : request[b] # calls
    /\ pc[a] \in {"alloc", "pop", "put", "undo"} => call[a].seq = Invalid
    /\ Holding(a) =>
          call[a].block \in Used /\ request[call[a].block] = call[a].id
    /\ IsFiniteSet(Callbacks)

Inv(a) == PlaceInv(a) /\ OrderInv(a) /\ PhaseInv(a) /\ PoolInv /\ RingInv(a)
            /\ RequestInv(a)

IInv == TypeOK /\ \E a \in Threads : Watched(setup, a) /\ Inv(a)

-----------------------------------------------------------------------------
(* Sequences.                                                              *)

\* What is left when the first element is taken, ...
LEMMA TailOf ==
    ASSUME NEW S, NEW s \in Seq(S), s # <<>>
    PROVE  /\ Len(s) \in Nat \ {0} /\ Head(s) = s[1] /\ Head(s) \in S
           /\ Tail(s) \in Seq(S) /\ Len(Tail(s)) = Len(s) - 1
           /\ \A i \in 1..Len(s)-1 : Tail(s)[i] = s[i+1]
  <1>1. Len(s) \in Nat \ {0}
    BY EmptySeq
  <1>2. /\ Head(s) \in S /\ Tail(s) \in Seq(S) /\ Len(Tail(s)) = Len(s) - 1
        /\ \A i \in 1..Len(Tail(s)) : Tail(s)[i] = s[i+1]
    BY HeadTailProperties
  <1> QED
    BY <1>1, <1>2

\* ... when one is added at the end, and when one is put in front.
LEMMA AppendTo ==
    ASSUME NEW S, NEW s \in Seq(S), NEW e \in S
    PROVE  /\ Append(s, e) \in Seq(S) /\ Append(s, e) # <<>>
           /\ Len(s) \in Nat /\ Len(Append(s, e)) = Len(s) + 1
           /\ \A i \in 1..Len(s) : Append(s, e)[i] = s[i]
           /\ Append(s, e)[Len(s) + 1] = e
  OBVIOUS

LEMMA InFrontOf ==
    ASSUME NEW S, NEW s \in Seq(S), NEW e \in S
    PROVE  /\ <<e>> \o s \in Seq(S)
           /\ Len(s) \in Nat /\ Len(<<e>> \o s) = Len(s) + 1
           /\ (<<e>> \o s)[1] = e
           /\ \A i \in 2..Len(s)+1 : (<<e>> \o s)[i] = s[i-1]
  <1>1. <<e>> \in Seq(S) /\ Len(<<e>>) = 1 /\ <<e>>[1] = e
    OBVIOUS
  <1>2. Len(s) \in Nat
    BY LenProperties
  <1> QED
    BY <1>1, <1>2, ConcatProperties

\* A sequence is empty when its length is zero.
LEMMA EmptyLen ==
    ASSUME NEW S, NEW s \in Seq(S)
    PROVE  /\ Len(s) \in Nat /\ DOMAIN s = 1..Len(s)
           /\ s = <<>> <=> Len(s) = 0
           /\ s # <<>> => Head(s) = s[1]
           /\ \A i \in 1..Len(s) : s[i] \in S
  BY EmptySeq, LenProperties, ElementOfSeq, TailOf

-----------------------------------------------------------------------------
(* The pool.                                                               *)

LEMMA BlocksFinite == IsFiniteSet(Blocks) /\ Blocks \subseteq Nat \ {0}
  BY BoundsAssumption, FS_Interval DEF Blocks

LEMMA UsedBlocks ==
    ASSUME TypeOK
    PROVE  /\ Used \subseteq Blocks /\ IsFiniteSet(Used)
           /\ Cardinality(Used) \in Nat
           /\ \A b \in Blocks :
                 b \in Used <=> \A i \in 1..Len(pool) : pool[i] # b
  <1>1. DOMAIN pool = 1..Len(pool)
    BY EmptyLen DEF TypeOK
  <1>2. Used \subseteq Blocks /\ IsFiniteSet(Used)
    BY BlocksFinite, FS_Subset DEF Used
  <1>3. Cardinality(Used) \in Nat
    BY <1>2, FS_CardinalityType
  <1> QED
    BY <1>1, <1>2, <1>3 DEF Used, ToSet

\* A block that was in use comes back to the pool.
LEMMA GiveBlock ==
    ASSUME TypeOK, PoolInv, NEW b \in Used, pool' = <<b>> \o pool
    PROVE  /\ pool' \in Seq(Blocks)
           /\ Used' = Used \ {b}
           /\ \A i, j \in 1..Len(pool') : pool'[i] = pool'[j] => i = j
           /\ Cardinality(Used') = pending - 1 /\ pending - 1 \in Nat
  <1>1. b \in Blocks /\ IsFiniteSet(Used)
        /\ \A i \in 1..Len(pool) : pool[i] # b
    BY UsedBlocks
  <1>2. /\ pool' \in Seq(Blocks)
        /\ Len(pool) \in Nat /\ Len(pool') = Len(pool) + 1
        /\ pool'[1] = b
        /\ \A i \in 2..Len(pool)+1 : pool'[i] = pool[i-1]
    BY <1>1, InFrontOf DEF TypeOK
  <1>3. DOMAIN pool' = 1..Len(pool') /\ DOMAIN pool = 1..Len(pool)
    BY <1>2, EmptyLen DEF TypeOK
  <1>4. ToSet(pool)' = ToSet(pool) \cup {b}
    <2>1. ASSUME NEW i \in 1..Len(pool')
          PROVE  pool'[i] \in ToSet(pool) \cup {b}
      BY <1>2, <1>3 DEF ToSet
    <2>2. ASSUME NEW i \in 1..Len(pool)
          PROVE  pool[i] \in ToSet(pool')
      <3>1. i + 1 \in 2..Len(pool)+1 /\ i + 1 \in DOMAIN pool'
            /\ pool'[i+1] = pool[i]
        BY <1>2, <1>3
      <3> QED
        BY <3>1 DEF ToSet
    <2>3. b \in ToSet(pool')
      BY <1>2, <1>3 DEF ToSet
    <2> QED
      BY <1>3, <2>1, <2>2, <2>3 DEF ToSet
  <1>5. Used' = Used \ {b}
    BY <1>4 DEF Used, Blocks
  <1>6. \A i, j \in 1..Len(pool') : pool'[i] = pool'[j] => i = j
    <2> SUFFICES ASSUME NEW i \in 1..Len(pool'), NEW j \in 1..Len(pool'),
                        i < j, pool'[i] = pool'[j]
                 PROVE  FALSE
      BY <1>2
    <2>1. j - 1 \in 1..Len(pool) /\ pool'[j] = pool[j-1]
      BY <1>2
    <2>2. CASE i = 1
      BY <1>1, <1>2, <2>1, <2>2
    <2>3. CASE i > 1
      <3>1. i - 1 \in 1..Len(pool) /\ pool'[i] = pool[i-1]
        BY <1>2, <2>3
      <3> QED
        BY <2>1, <3>1 DEF PoolInv
    <2> QED
      BY <2>2, <2>3
  <1>7. Cardinality(Used \ {b}) = Cardinality(Used) - 1
        /\ Cardinality(Used \ {b}) \in Nat
    BY <1>1, FS_RemoveElement, FS_CardinalityType
  <1> QED
    BY <1>2, <1>5, <1>6, <1>7 DEF PoolInv

\* A block is taken from the pool.
LEMMA TakeBlock ==
    ASSUME TypeOK, PoolInv, pool # <<>>, pool' = Tail(pool)
    PROVE  /\ pool' \in Seq(Blocks)
           /\ Head(pool) \in Blocks \ Used
           /\ Used' = Used \cup {Head(pool)}
           /\ \A i, j \in 1..Len(pool') : pool'[i] = pool'[j] => i = j
           /\ Cardinality(Used') = pending + 1 /\ pending + 1 \in Nat
  <1> DEFINE b == Head(pool)
  <1>1. /\ Len(pool) \in Nat \ {0} /\ b = pool[1] /\ b \in Blocks
        /\ pool' \in Seq(Blocks) /\ Len(pool') = Len(pool) - 1
        /\ \A i \in 1..Len(pool)-1 : pool'[i] = pool[i+1]
    BY TailOf DEF TypeOK
  <1>2. DOMAIN pool' = 1..Len(pool') /\ DOMAIN pool = 1..Len(pool)
    BY <1>1, EmptyLen DEF TypeOK
  <1>3. b \notin Used /\ IsFiniteSet(Used)
    BY <1>1, UsedBlocks
  <1>4. \A c \in Blocks : c \in ToSet(pool') <=> c \in ToSet(pool) /\ c # b
    <2> TAKE c \in Blocks
    <2>1. ASSUME NEW i \in 1..Len(pool'), pool'[i] = c
          PROVE  c \in ToSet(pool) /\ c # b
      <3>1. i + 1 \in 1..Len(pool) /\ pool[i+1] = c /\ i + 1 # 1
        BY <1>1, <2>1
      <3>2. c # pool[1]
        BY <1>1, <3>1 DEF PoolInv
      <3> QED
        BY <1>1, <1>2, <3>1, <3>2 DEF ToSet
    <2>2. ASSUME NEW i \in 1..Len(pool), pool[i] = c, c # b
          PROVE  c \in ToSet(pool')
      <3>1. i - 1 \in 1..Len(pool') /\ pool'[i-1] = c
        BY <1>1, <2>2
      <3> QED
        BY <1>2, <3>1 DEF ToSet
    <2> QED
      BY <1>2, <2>1, <2>2 DEF ToSet
  <1>5. Used' = Used \cup {b}
    <2>1. b \in ToSet(pool)
      BY <1>1, <1>2 DEF ToSet
    <2> QED
      BY <1>1, <1>4, <2>1 DEF Used, Blocks
  <1>6. \A i, j \in 1..Len(pool') : pool'[i] = pool'[j] => i = j
    <2> SUFFICES ASSUME NEW i \in 1..Len(pool'), NEW j \in 1..Len(pool'),
                        pool'[i] = pool'[j]
                 PROVE  i = j
      OBVIOUS
    <2>1. /\ i + 1 \in 1..Len(pool) /\ j + 1 \in 1..Len(pool)
          /\ pool[i+1] = pool[j+1]
      BY <1>1
    <2>2. i + 1 = j + 1
      BY <2>1 DEF PoolInv
    <2> QED
      BY <1>1, <2>2
  <1>7. Cardinality(Used \cup {b}) = Cardinality(Used) + 1
        /\ Cardinality(Used \cup {b}) \in Nat
    BY <1>3, FS_AddElement, FS_CardinalityType
  <1> QED
    BY <1>1, <1>3, <1>5, <1>6, <1>7 DEF PoolInv

-----------------------------------------------------------------------------
(* The order of the events.                                                *)

\* A driver that works again while the process has still to handle the error
\* has sent the event of that restart.
LEMMA OkAhead ==
    ASSUME NEW a \in Threads, TypeOK, Inv(a), kernel = "ok",
           pc[a] \in ErrorPlaces
    PROVE  /\ Sent("restarted")
           /\ queue = <<>> /\ Whole /\ hw = <<>> /\ resp = <<>>
  <1>1. /\ pipe \in Seq(EventKinds) /\ queue \in Seq(EventKinds)
        /\ Coming = "error" /\ pc[a] \in HandlerPlaces /\ KindOf(pc[a]) = "error"
    BY DEF TypeOK, Coming, HandlerPlaces, KindOf
  <1>2. ASSUME NEW e \in EventKinds, Follows(e) = "error"
        PROVE  e = "restarted"
    BY <1>2 DEF Follows, EventKinds
  <1>3. pipe # <<>>
    <2> SUFFICES ASSUME pipe = <<>> PROVE FALSE
      OBVIOUS
    <2>1. Arriving = "error"
      BY <1>1 DEF Arriving
    <2>2. queue # <<>>
      BY <1>1, <2>1 DEF Inv, OrderInv, Follows
    <2>3. Len(queue) \in 1..Len(queue) /\ Follows(queue[Len(queue)]) = "error"
          /\ queue[Len(queue)] \in EventKinds
      BY <1>1, <2>1, <2>2, EmptyLen DEF Inv, OrderInv, InOrder
    <2> QED
      BY <1>2, <2>3 DEF Inv, OrderInv
  <1>4. Len(pipe) \in 1..Len(pipe) /\ Follows(pipe[Len(pipe)]) = "error"
        /\ pipe[Len(pipe)] \in EventKinds
    BY <1>1, <1>3, EmptyLen DEF Inv, OrderInv, InOrder
  <1>5. Sent("restarted")
    BY <1>2, <1>4 DEF Sent
  <1>6. state # "restarting"
    BY <1>1 DEF Inv, PhaseInv, Expected, ErrorPlaces
  <1> QED
    BY <1>5, <1>6 DEF Inv, PhaseInv

-----------------------------------------------------------------------------
(* Where the threads are.                                                  *)

\* Who may take which step.
LEMMA Actors ==
    ASSUME NEW a \in Threads, Watched(setup, a), [Next]_vars
    PROVE  \/ Call(a)
           \/ \E t \in Threads : t \in setup.pollers /\ Poll(t)
           \/ Events(a)
           \/ Answer
           \/ Kernel
           \/ UNCHANGED vars
  BY DEF Next, Watched

\* Nobody polls an instance that an error has stopped, or could not find
\* anything on the ring.
LEMMA PlaceStep ==
    ASSUME NEW a \in Threads, Watched(setup, a), TypeOK, Inv(a), [Next]_vars
    PROVE  PlaceInv(a)'
  <1> USE DEF PlaceInv, Inv, CallPlaces, PollPlaces, Goto, At
  <1> pc \in [Threads -> Statuses] /\ setup \in Setups
    BY DEF TypeOK
  <1>1. CASE Call(a)
    <2>1. CASE Submit(a)
      BY <2>1 DEF Submit, ringVars, kernelVars, Marking, Silent
    <2>2. CASE TestActive(a)
      BY <2>2 DEF TestActive, ringVars, kernelVars, Marking, Silent
    <2>3. CASE Pop(a)
      BY <2>3 DEF Pop, ringVars, kernelVars, Marking, Silent
    <2>4. CASE Put(a)
      BY <2>4 DEF Put, ringVars, kernelVars, Marking, Silent
    <2>5. CASE SetOpaque(a)
      BY <2>5 DEF SetOpaque, ringVars, kernelVars, Marking, Silent
    <2>6. CASE Undo(a)
      BY <2>6 DEF Undo, ringVars, kernelVars, Marking, Silent
    <2> QED
      BY <1>1, <2>1, <2>2, <2>3, <2>4, <2>5, <2>6 DEF Call
  <1>2. ASSUME NEW t \in Threads, t \in setup.pollers, Poll(t)
        PROVE  PlaceInv(a)'
    <2>1. CASE PollEnter(t)
      BY <1>2, <2>1 DEF PollEnter, ringVars, kernelVars, Marking, Silent
    <2>2. CASE Callback(t)
      <3>1. CASE resp = <<>>
        BY <1>2, <2>2, <3>1 DEF Callback, ringVars, kernelVars, Marking, Silent
      <3>2. CASE resp # <<>>
        BY <1>2, <2>2, <3>2 DEF Callback, ringVars, kernelVars, Marking, Silent
      <3> QED
        BY <3>1, <3>2
    <2>3. CASE Mark(t)
      <3>1. Marking /\ ~Marking'
        BY <2>3 DEF Mark, Marking
      <3>2. state = "running" /\ pc[a] # "set"
        BY <3>1
      <3> QED
        BY <1>2, <2>3, <3>1, <3>2 DEF Mark, Marking
    <2>4. CASE GenResp(t)
      BY <1>2, <2>4 DEF GenResp, ringVars, kernelVars, Marking, Silent
    <2>5. CASE Dummy(t)
      BY <1>2, <2>5 DEF Dummy, ringVars, kernelVars, Marking, Silent
    <2> QED
      BY <1>2, <2>1, <2>2, <2>3, <2>4, <2>5 DEF Poll
  <1>3. CASE Events(a)
    <2>1. CASE PollEvents(a)
      BY <2>1 DEF PollEvents, ringVars, kernelVars, Marking, Silent
    <2>2. CASE NextQueued(a)
      <3>1. Head(queue) \in EventKinds \/ queue = <<>>
        BY TailOf DEF TypeOK
      <3> QED
        BY <2>2, <3>1
        DEF NextQueued, ringVars, kernelVars, Marking, Silent, EventKinds
    <2>3. CASE NextEvent(a)
      <3>1. Head(pipe) \in EventKinds \/ pipe = <<>>
        BY TailOf DEF TypeOK
      <3> QED
        BY <2>3, <3>1
        DEF NextEvent, ringVars, kernelVars, Marking, Silent, EventKinds
    <2>4. CASE ErrorDisable(a)
      BY <2>4 DEF ErrorDisable, ringVars, kernelVars, Marking, Silent
    <2>5. CASE ErrorCheck(a)
      <3>1. Marking' <=> Marking
        BY <2>5 DEF ErrorCheck, Marking
      <3>2. UNCHANGED <<setup, state, resp, hw, device>>
        BY <2>5 DEF ErrorCheck, ringVars, kernelVars
      <3>3. ASSUME resp = <<>>, ~(setup.pollers \subseteq {a})
            PROVE  Silent
        <4>1. kernel # "ok" => device = "down"
          BY <3>3 DEF OrderInv, Watched, TypeOK
        <4>2. ASSUME kernel = "ok" PROVE hw = <<>>
          <5>1. pc[a] \in ErrorPlaces
            BY <2>5 DEF ErrorCheck, ErrorPlaces
          <5> QED
            BY <4>2, <5>1, OkAhead
        <4> QED
          BY <4>1, <4>2 DEF Silent
      <3> QED
        BY <2>5, <3>1, <3>2, <3>3 DEF ErrorCheck, Silent
    <2>6. CASE ErrorSet(a)
      BY <2>6 DEF ErrorSet, ringVars, kernelVars, Marking, Silent
    <2>7. CASE ErrorSettle(a)
      BY <2>7
      DEF ErrorSettle, Handled, ringVars, kernelVars, Marking, Silent
    <2>8. CASE Restarting(a)
      <3>1. state # "running"
        BY <2>8 DEF Restarting, PhaseInv, Expected, HandlerPlaces, KindOf,
                    ErrorPlaces
      <3> QED
        BY <2>8, <3>1
        DEF Restarting, Handled, ringVars, kernelVars, Marking, Silent
    <2>9. CASE Restarted(a)
      BY <2>9 DEF Restarted, ringVars, kernelVars, Marking, Silent
    <2>10. CASE InitDcCookies(a)
      BY <2>10
      DEF InitDcCookies, Handled, ringVars, kernelVars, Marking, Silent
    <2> QED
      BY <1>3, <2>1, <2>2, <2>3, <2>4, <2>5, <2>6, <2>7, <2>8, <2>9, <2>10
      DEF Events, Handle
  <1>4. CASE Answer
    <2>1. UNCHANGED <<setup, state, pc, device>> /\ device = "up"
          /\ hw # <<>> /\ resp' # <<>>
      BY <1>4, TailOf, AppendTo DEF Answer, kernelVars, TypeOK
    <2> QED
      BY <2>1 DEF Silent, Marking
  <1>5. CASE Kernel
    <2>1. CASE Fail
      BY <2>1 DEF Fail, ringVars, Marking, Silent, OrderInv
    <2>2. CASE NotifyRestarting
      BY <2>2 DEF NotifyRestarting, ringVars, Marking, Silent
    <2>3. CASE Reset
      BY <2>3 DEF Reset, Marking, Silent
    <2> QED
      BY <1>5, <2>1, <2>2, <2>3 DEF Kernel
  <1>6. CASE UNCHANGED vars
    BY <1>6 DEF vars, ringVars, kernelVars, Marking, Silent
  <1> QED
    BY <1>1, <1>2, <1>3, <1>4, <1>5, <1>6, Actors

\* What comes next after an event is sent, and after one is taken.
LEMMA SendInOrder ==
    ASSUME NEW q \in Seq(EventKinds), NEW e \in EventKinds, InOrder(q, e)
    PROVE  /\ InOrder(Append(q, e), Follows(e))
           /\ Append(q, e) \in Seq(EventKinds) /\ Append(q, e) # <<>>
           /\ Head(Append(q, e)) = IF q = <<>> THEN e ELSE Head(q)
  <1> DEFINE p == Append(q, e)
  <1>1. /\ p \in Seq(EventKinds) /\ p # <<>>
        /\ Len(q) \in Nat /\ Len(p) = Len(q) + 1
        /\ \A i \in 1..Len(q) : p[i] = q[i]
        /\ p[Len(q) + 1] = e
    BY AppendTo
  <1>2. Head(p) = p[1] /\ (q = <<>> <=> Len(q) = 0) /\ (q # <<>> => Head(q) = q[1])
    BY <1>1, EmptyLen
  <1> HIDE DEF p
  <1>3. ASSUME NEW i \in 1..Len(p)
        PROVE  Follows(p[i]) = IF i = Len(p) THEN Follows(e) ELSE p[i+1]
    <2>1. CASE i = Len(p)
      BY <1>1, <2>1
    <2>2. CASE i = Len(q)
      BY <1>1, <2>2 DEF InOrder
    <2>3. CASE i < Len(q)
      BY <1>1, <2>3 DEF InOrder
    <2> QED
      BY <1>1, <2>1, <2>2, <2>3
  <1>4. InOrder(p, Follows(e))
    BY <1>3 DEF InOrder
  <1>5. Head(p) = IF q = <<>> THEN e ELSE Head(q)
    BY <1>1, <1>2
  <1> QED
    BY <1>1, <1>4, <1>5 DEF p

LEMMA TakeInOrder ==
    ASSUME NEW q \in Seq(EventKinds), q # <<>>, NEW e, InOrder(q, e)
    PROVE  /\ InOrder(Tail(q), e)
           /\ Tail(q) \in Seq(EventKinds) /\ Head(q) \in EventKinds
           /\ Follows(Head(q)) = IF Tail(q) = <<>> THEN e ELSE Head(Tail(q))
           /\ \A i \in 1..Len(Tail(q)) : \E j \in 1..Len(q) : Tail(q)[i] = q[j]
  <1> DEFINE p == Tail(q)
  <1>1. /\ Len(q) \in Nat \ {0} /\ Head(q) = q[1] /\ Head(q) \in EventKinds
        /\ p \in Seq(EventKinds) /\ Len(p) = Len(q) - 1
        /\ \A i \in 1..Len(q)-1 : p[i] = q[i+1]
    BY TailOf
  <1>2. (p = <<>> <=> Len(p) = 0) /\ (p # <<>> => Head(p) = p[1])
    BY <1>1, EmptyLen
  <1> HIDE DEF p
  <1>3. ASSUME NEW i \in 1..Len(p)
        PROVE  Follows(p[i]) = IF i = Len(p) THEN e ELSE p[i+1]
    <2>1. p[i] = q[i+1] /\ i + 1 \in 1..Len(q)
      BY <1>1
    <2>2. Follows(q[i+1]) = IF i + 1 = Len(q) THEN e ELSE q[i+1+1]
      BY <2>1 DEF InOrder
    <2>3. CASE i = Len(p)
      BY <1>1, <2>1, <2>2, <2>3
    <2>4. CASE i < Len(p)
      <3>1. p[i+1] = q[i+1+1]
        BY <1>1, <2>4
      <3> QED
        BY <1>1, <2>1, <2>2, <2>4, <3>1
    <2> QED
      BY <1>1, <2>3, <2>4
  <1>4. InOrder(p, e)
    BY <1>3 DEF InOrder
  <1>5. Follows(Head(q)) = IF p = <<>> THEN e ELSE Head(p)
    BY <1>1, <1>2 DEF InOrder
  <1>6. \A i \in 1..Len(p) : \E j \in 1..Len(q) : p[i] = q[j]
    <2> TAKE i \in 1..Len(p)
    <2>1. i + 1 \in 1..Len(q) /\ p[i] = q[i+1]
      BY <1>1
    <2> QED
      BY <2>1
  <1> QED
    BY <1>1, <1>4, <1>5, <1>6 DEF p

\* What the kernel does leaves what arrives next as it is.
LEMMA SendStep ==
    ASSUME NEW a \in Threads, TypeOK, OrderInv(a),
           pipe' = Append(pipe, Coming), Coming' = Follows(Coming)
    PROVE  InOrder(pipe', Coming') /\ Arriving' = Arriving /\ pipe' # <<>>
  <1>1. Coming \in EventKinds /\ pipe \in Seq(EventKinds)
    BY DEF TypeOK, Coming, EventKinds
  <1> QED
    BY <1>1, SendInOrder DEF OrderInv, Arriving

\* The handler of the event of a thread, which returned, leaves the queue.
LEMMA HandledStep ==
    ASSUME NEW a \in Threads, TypeOK, OrderInv(a), pc[a] \in HandlerPlaces,
           NEW s \in {"done", "retry"}, Handled(a, s),
           s = "retry" => KindOf(pc[a]) = "error", UNCHANGED Arriving
    PROVE  /\ InOrder(queue', Arriving')
           /\ queue' \in Seq(EventKinds)
           /\ \A i \in 1..Len(queue') : queue'[i] # "restarted"
           /\ pc'[a] \in {"queue", "pipe"}
           /\ Waiting' = IF s = "retry" THEN "error" ELSE Follows(KindOf(pc[a]))
           /\ s = "done" /\ ~event[a].queued => queue' = <<>>
           /\ queue = <<>> /\ s = "done" => queue' = <<>> /\ pc'[a] = "pipe"
  <1> DEFINE k == KindOf(pc[a])
  <1>1. /\ queue \in Seq(EventKinds) /\ k \in EventKinds
        /\ pc'[a] \in {"queue", "pipe"}
        /\ event[a].kind = k /\ InOrder(queue, Arriving)
        /\ \A i \in 1..Len(queue) : queue[i] # "restarted"
    BY DEF TypeOK, OrderInv, Handled, Goto, KindOf, EventKinds
  <1>2. CASE event[a].queued
    <2>1. queue # <<>> /\ Head(queue) = k
      BY <1>2 DEF OrderInv
    <2>2. CASE s = "retry"
      BY <1>1, <1>2, <2>1, <2>2 DEF Handled, Waiting
    <2>3. CASE s = "done"
      <3>1. queue' = Tail(queue)
        BY <1>2, <2>3 DEF Handled
      <3>2. /\ InOrder(queue', Arriving) /\ queue' \in Seq(EventKinds)
            /\ Follows(k) = IF queue' = <<>> THEN Arriving ELSE Head(queue')
            /\ \A i \in 1..Len(queue') :
                  \E j \in 1..Len(queue) : queue'[i] = queue[j]
        BY <1>1, <2>1, <3>1, TakeInOrder
      <3> QED
        BY <1>1, <1>2, <2>1, <2>3, <3>2 DEF Waiting
    <2> QED
      BY <2>2, <2>3
  <1>3. CASE ~event[a].queued
    <2>1. queue = <<>> /\ Arriving = Follows(k)
      BY <1>3 DEF OrderInv
    <2>2. CASE s = "retry"
      <3>1. queue' = Append(queue, k) /\ InOrder(queue, k) /\ k = "error"
        BY <1>1, <1>3, <2>1, <2>2, EmptyLen DEF Handled, InOrder
      <3>2. /\ InOrder(queue', Follows(k)) /\ queue' \in Seq(EventKinds)
            /\ queue' # <<>> /\ Head(queue') = "error"
        BY <1>1, <2>1, <3>1, SendInOrder
      <3>3. \A i \in 1..Len(queue') : queue'[i] # "restarted"
        BY <1>1, <2>1, <3>1, AppendTo
      <3> QED
        BY <1>1, <2>1, <2>2, <3>2, <3>3 DEF Waiting
    <2>3. CASE s = "done"
      BY <1>1, <1>3, <2>1, <2>3 DEF Handled, Waiting, Goto, TypeOK
    <2> QED
      BY <2>2, <2>3
  <1> QED
    BY <1>1, <1>2, <1>3

\* A step in which the events stand still.
LEMMA OrderStill ==
    ASSUME NEW a \in Threads, OrderInv(a),
           UNCHANGED <<setup, kernel, device, pipe, queue, event>>,
           pc'[a] \in HandlerPlaces =>
              pc[a] \in HandlerPlaces /\ KindOf(pc'[a]) = KindOf(pc[a])
    PROVE  OrderInv(a)' /\ UNCHANGED <<Arriving, Waiting>>
  BY DEF OrderInv, Coming, Arriving, Waiting

\* A handler returns.
LEMMA OrderHandled ==
    ASSUME NEW a \in Threads, TypeOK, OrderInv(a), pc[a] \in HandlerPlaces,
           NEW s \in {"done", "retry"}, Handled(a, s),
           s = "retry" => KindOf(pc[a]) = "error",
           UNCHANGED <<setup, kernel, device, pipe>>
    PROVE  OrderInv(a)' /\ UNCHANGED Arriving
  <1>1. UNCHANGED <<Coming, Arriving>>
    BY DEF Coming, Arriving
  <1>2. /\ InOrder(queue', Arriving')
        /\ \A i \in 1..Len(queue') : queue'[i] # "restarted"
        /\ pc'[a] \in {"queue", "pipe"}
    BY <1>1, HandledStep
  <1>3. pc'[a] \notin HandlerPlaces
    BY <1>2 DEF HandlerPlaces, ErrorPlaces
  <1> QED
    BY <1>1, <1>2, <1>3 DEF OrderInv

\* The next event is fetched, and handled or put off.
LEMMA OrderNext ==
    ASSUME NEW a \in Threads, TypeOK, OrderInv(a), PhaseInv(a), NextEvent(a),
           pipe # <<>>
    PROVE  /\ OrderInv(a)'
           /\ queue = <<>> => /\ pc'[a] = Arriving /\ queue' = <<>>
                              /\ Arriving \in EventKinds
           /\ queue # <<>> => pc'[a] = "pipe" /\ Waiting' = Waiting
  <1>1. /\ pipe \in Seq(EventKinds) /\ queue \in Seq(EventKinds)
        /\ pipe' = Tail(pipe) /\ Arriving = Head(pipe) /\ pc[a] = "pipe"
        /\ UNCHANGED <<setup, kernel, device>>
    BY DEF NextEvent, Arriving, At, TypeOK
  <1>2. UNCHANGED Coming
    BY <1>1 DEF Coming
  <1>3. /\ InOrder(pipe', Coming') /\ Head(pipe) \in EventKinds
        /\ Follows(Arriving) = Arriving'
    BY <1>1, <1>2, TakeInOrder DEF OrderInv, Arriving
  <1>4. CASE queue = <<>>
    <2>1. /\ queue' = <<>> /\ pc'[a] = Arriving
          /\ event'[a] = [kind |-> Arriving, queued |-> FALSE]
      BY <1>1, <1>4 DEF NextEvent, Goto, TypeOK
    <2>2. pc'[a] \in HandlerPlaces => KindOf(pc'[a]) = Arriving
      BY <1>1, <1>3, <2>1
      DEF HandlerPlaces, ErrorPlaces, KindOf, EventKinds
    <2>3. InOrder(queue', Arriving')
          /\ \A i \in 1..Len(queue') : queue'[i] # "restarted"
      BY <2>1, EmptyLen, <1>1, <1>4 DEF InOrder
    <2> QED
      BY <1>1, <1>2, <1>3, <1>4, <2>1, <2>2, <2>3 DEF OrderInv
  <1>5. CASE queue # <<>>
    <2>1. /\ queue' = Append(queue, Arriving) /\ UNCHANGED <<pc, event>>
      BY <1>1, <1>5 DEF NextEvent
    <2>2. /\ InOrder(queue', Arriving') /\ queue' # <<>>
          /\ Head(queue') = Head(queue)
      BY <1>1, <1>3, <1>5, <2>1, SendInOrder DEF OrderInv
    <2>3. Arriving # "restarted"
      <3>1. 1 \in 1..Len(pipe) /\ pipe[1] = Head(pipe)
        BY <1>1, TailOf
      <3>2. Arriving = "restarted" => Sent("restarted")
        BY <1>1, <3>1 DEF Sent
      <3>3. 1 \in 1..Len(queue) /\ queue[1] = Head(queue)
        BY <1>1, <1>5, TailOf
      <3>4. Waiting # "restarted" /\ pc[a] \notin HandlerPlaces
        BY <1>1, <1>5, <3>3
        DEF OrderInv, Waiting, HandlerPlaces, ErrorPlaces
      <3>5. state # "restarting"
        BY <1>1, <3>4 DEF PhaseInv, Expected
      <3> QED
        BY <1>5, <3>2, <3>5 DEF PhaseInv
    <2>4. \A i \in 1..Len(queue') : queue'[i] # "restarted"
      <3>1. /\ Len(queue) \in Nat /\ Len(queue') = Len(queue) + 1
            /\ \A i \in 1..Len(queue) : queue'[i] = queue[i]
            /\ queue'[Len(queue) + 1] = Arriving
        BY <1>1, <1>3, <2>1, AppendTo
      <3> QED
        BY <2>3, <3>1 DEF OrderInv
    <2>5. pc'[a] = "pipe" /\ pc'[a] \notin HandlerPlaces
      BY <1>1, <2>1 DEF HandlerPlaces, ErrorPlaces
    <2> QED
      BY <1>1, <1>2, <1>3, <1>5, <2>1, <2>2, <2>4, <2>5 DEF OrderInv, Waiting
  <1> QED
    BY <1>1, <1>3, <1>4, <1>5

LEMMA OrderStep ==
    ASSUME NEW a \in Threads, Watched(setup, a), TypeOK, Inv(a), [Next]_vars
    PROVE  OrderInv(a)'
  <1> USE DEF Inv, Goto, At, HandlerPlaces, ErrorPlaces
  <1> pc \in [Threads -> Statuses] /\ setup \in Setups
    BY DEF TypeOK
  <1>1. CASE Call(a)
    <2>1. /\ UNCHANGED <<setup, kernel, device, pipe, queue, event>>
          /\ pc'[a] \notin HandlerPlaces
      BY <1>1 DEF Call, Submit, TestActive, Pop, Put, SetOpaque, Undo,
                  kernelVars, eventVars
    <2> QED
      BY <2>1, OrderStill
  <1>2. ASSUME NEW t \in Threads, t \in setup.pollers, Poll(t)
        PROVE  OrderInv(a)'
    <2>1. UNCHANGED <<setup, kernel, device, pipe, queue, event>>
      BY <1>2 DEF Poll, PollEnter, Callback, Mark, GenResp, Dummy,
                  kernelVars, eventVars
    <2>2. pc'[a] = pc[a] \/ pc'[a] \in PollPlaces \cup {"idle"}
      BY <1>2 DEF Poll, PollEnter, Callback, Mark, GenResp, Dummy,
                  PollPlaces
    <2> QED
      BY <2>1, <2>2, OrderStill DEF PollPlaces
  <1>3. CASE Events(a)
    <2>1. CASE PollEvents(a)
      <3>1. /\ UNCHANGED <<setup, kernel, device, pipe, queue, event>>
            /\ pc'[a] \notin HandlerPlaces
        BY <2>1 DEF PollEvents, kernelVars, eventVars
      <3> QED
        BY <3>1, OrderStill
    <2>2. CASE NextQueued(a)
      <3>1. /\ UNCHANGED <<setup, kernel, device, pipe, queue>>
            /\ queue \in Seq(EventKinds)
        BY <2>2 DEF NextQueued, kernelVars, TypeOK
      <3>2. UNCHANGED <<Coming, Arriving>>
        BY <3>1 DEF Coming, Arriving
      <3>3. CASE queue = <<>>
        <4>1. pc'[a] = "pipe"
          BY <2>2, <3>3 DEF NextQueued
        <4> QED
          BY <3>1, <3>2, <4>1 DEF OrderInv
      <3>4. CASE queue # <<>>
        <4>1. pc'[a] = Head(queue)
              /\ event'[a] = [kind |-> Head(queue), queued |-> TRUE]
          BY <2>2, <3>4 DEF NextQueued, TypeOK
        <4>2. Head(queue) \in EventKinds /\ Head(queue) # "restarted"
          BY <3>1, <3>4, EmptyLen, TailOf DEF OrderInv
        <4>3. KindOf(pc'[a]) = Head(queue)
          BY <4>1, <4>2 DEF KindOf, EventKinds
        <4> QED
          BY <3>1, <3>2, <3>4, <4>1, <4>3 DEF OrderInv
      <3> QED
        BY <3>3, <3>4
    <2>3. CASE NextEvent(a)
      <3>1. CASE pipe = <<>>
        <4>1. /\ UNCHANGED <<setup, kernel, device, pipe, queue, event>>
              /\ pc'[a] \notin HandlerPlaces
          BY <2>3, <3>1 DEF NextEvent
        <4> QED
          BY <4>1, OrderStill
      <3> QED
        BY <2>3, <3>1, OrderNext
    <2>4. CASE ErrorDisable(a) \/ ErrorCheck(a) \/ ErrorSet(a)
      <3>1. /\ UNCHANGED <<setup, kernel, device, pipe, queue, event>>
            /\ pc[a] \in ErrorPlaces /\ pc'[a] \in ErrorPlaces
        BY <2>4 DEF ErrorDisable, ErrorCheck, ErrorSet, kernelVars, eventVars
      <3>2. KindOf(pc[a]) = "error" /\ KindOf(pc'[a]) = "error"
        BY <3>1 DEF KindOf
      <3> QED
        BY <3>1, <3>2, OrderStill
    <2>5. CASE ErrorSettle(a)
      <3>1. PICK s \in {"done", "retry"} : Handled(a, s)
        BY <2>5 DEF ErrorSettle
      <3>2. KindOf(pc[a]) = "error" /\ pc[a] \in HandlerPlaces
            /\ UNCHANGED <<setup, kernel, device, pipe>>
        BY <2>5 DEF ErrorSettle, KindOf, kernelVars
      <3> QED
        BY <3>1, <3>2, OrderHandled
    <2>6. CASE Restarting(a) \/ InitDcCookies(a)
      <3>1. /\ Handled(a, "done") /\ pc[a] \in HandlerPlaces
            /\ UNCHANGED <<setup, kernel, device, pipe>>
        BY <2>6 DEF Restarting, InitDcCookies, kernelVars
      <3> QED
        BY <3>1, OrderHandled
    <2>7. CASE Restarted(a)
      <3>1. /\ UNCHANGED <<setup, kernel, device, pipe, queue, event>>
            /\ pc[a] = "restarted" /\ pc'[a] = "cookies"
        BY <2>7 DEF Restarted, kernelVars, eventVars
      <3> QED
        BY <3>1, OrderStill DEF KindOf
    <2> QED
      BY <1>3, <2>1, <2>2, <2>3, <2>4, <2>5, <2>6, <2>7 DEF Events, Handle
  <1>4. CASE Answer
    <2>1. UNCHANGED <<setup, kernel, device, pipe, queue, event, pc>>
      BY <1>4 DEF Answer, kernelVars, eventVars
    <2> QED
      BY <2>1, OrderStill
  <1>5. CASE Kernel
    <2>1. /\ UNCHANGED <<setup, queue, event, pc>>
          /\ pipe' = Append(pipe, Coming) /\ Coming' = Follows(Coming)
      BY <1>5 DEF Kernel, Fail, NotifyRestarting, Reset, eventVars, Coming,
                  Follows, TypeOK
    <2>2. /\ kernel' = "ok" => device' = "up"
          /\ kernel' # "ok" => device' \in setup'.failed
      BY <1>5 DEF Kernel, Fail, NotifyRestarting, Reset, OrderInv
    <2>3. InOrder(pipe', Coming') /\ Arriving' = Arriving
      BY <2>1, SendStep
    <2> QED
      BY <2>1, <2>2, <2>3 DEF OrderInv
  <1>6. CASE UNCHANGED vars
    <2>1. UNCHANGED <<setup, kernel, device, pipe, queue, event, pc>>
      BY <1>6 DEF vars, kernelVars, eventVars
    <2> QED
      BY <2>1, OrderStill
  <1> QED
    BY <1>1, <1>2, <1>3, <1>4, <1>5, <1>6, Actors

-----------------------------------------------------------------------------
(* The bucket of LacSwResp_GenResp.                                        *)

LEMMA DivMod ==
    \A x \in Nat, n \in Nat \ {0} :
        /\ x = n * (x \div n) + (x % n)
        /\ x \div n \in Nat
        /\ x % n \in 0..n-1
  OBVIOUS

LEMMA MultipleAtLeast ==
    \A n, d \in Int : n > 0 /\ n * d > 0 => n * d >= n
  OBVIOUS

\* The remainder of a division is unique.
LEMMA UniqueRemainder ==
    ASSUME NEW n \in Nat \ {0}, NEW p \in Int, NEW q \in Int,
           NEW r \in 0..n-1, NEW s \in 0..n-1, n * p + r = n * q + s
    PROVE  r = s
  <1> DEFINE d == p - q
             e == q - p
  <1>1. /\ n * d = n * p - n * q /\ n * e = n * q - n * p
        /\ n * p \in Int /\ n * q \in Int
    OBVIOUS
  <1>2. n * d = s - r /\ n * e = r - s
    BY <1>1
  <1>3. d \in Int /\ e \in Int
    OBVIOUS
  <1> HIDE DEF d, e
  <1>4. ~(s - r > 0) /\ ~(r - s > 0)
    BY <1>2, <1>3, MultipleAtLeast
  <1> QED
    BY <1>4

\* Reading a bucket from the slot of x on meets the slots of x, x+1, ...
LEMMA FromStart ==
    ASSUME NEW n \in Nat \ {0}, NEW x \in Nat, NEW k \in Nat
    PROVE  ((x % n) + k) % n = (x + k) % n
  <1> DEFINE y == (x % n) + k
             z == x + k
             p == x \div n
             q == y \div n
             s == z \div n
  <1>1. x = n * p + (x % n) /\ p \in Nat /\ x % n \in 0..n-1
    BY DivMod
  <1>2. y \in Nat /\ z \in Nat
    BY <1>1
  <1>3. /\ y = n * q + (y % n) /\ q \in Nat /\ y % n \in 0..n-1
        /\ z = n * s + (z % n) /\ s \in Nat /\ z % n \in 0..n-1
    <2> HIDE DEF y, z
    <2> QED
      BY <1>2, DivMod
  <1>4. z = n * p + y
    BY <1>1
  <1> HIDE DEF p, q, s, y, z
  <1>5. n * (p + q) = n * p + n * q /\ n * p \in Int /\ n * q \in Int
        /\ n * s \in Int
    BY <1>1, <1>3
  <1>6. n * (p + q) + (y % n) = n * s + (z % n)
    BY <1>2, <1>3, <1>4, <1>5
  <1>7. y % n = z % n
    <2>1. p + q \in Int /\ s \in Int
      BY <1>1, <1>3
    <2> QED
      BY <1>3, <1>6, <2>1, UniqueRemainder
  <1> QED
    BY <1>7 DEF y, z

\* Numbers less than the size of the bucket apart are in different slots.
LEMMA OwnSlots ==
    ASSUME NEW n \in Nat \ {0}, NEW x \in Nat, NEW y \in Nat,
           x < y, y < x + n
    PROVE  x % n # y % n
  <1> DEFINE p == x \div n
             q == y \div n
  <1> SUFFICES ASSUME x % n = y % n PROVE FALSE
    OBVIOUS
  <1>1. /\ x = n * p + (x % n) /\ p \in Nat
        /\ y = n * q + (y % n) /\ q \in Nat
    BY DivMod
  <1>2. y - x = n * q - n * p
    BY <1>1, DivMod
  <1>3. n * q - n * p = n * (q - p)
    BY <1>1
  <1>4. n * (q - p) >= n
    BY <1>1, <1>2, <1>3, MultipleAtLeast
  <1> QED
    BY <1>2, <1>3, <1>4

\* As many elements as numbers, if each has a number of its own.
LEMMA NumberedCount ==
    ASSUME NEW n \in Nat, NEW f, NEW T,
           \A x \in T : \E i \in 1..n : x = f[i],
           \A i \in 1..n : f[i] \in T,
           \A i, j \in 1..n : f[i] = f[j] => i = j
    PROVE  IsFiniteSet(T) /\ Cardinality(T) = n
  <1> DEFINE g == [i \in 1..n |-> f[i]]
  <1>1. g \in Bijection(1..n, T)
    BY Fun_IsBij
  <1>2. ExistsBijection(1..n, T)
    BY <1>1 DEF ExistsBijection
  <1>3. IsFiniteSet(1..n) /\ Cardinality(1..n) = n
    BY FS_Interval
  <1> QED
    BY <1>2, <1>3, FS_Bijection

\* What is on the ring are blocks.
LEMMA RingType ==
    ASSUME TypeOK
    PROVE  /\ Len(resp) \in Nat /\ Len(hw) \in Nat /\ Newest \in Nat
           /\ \A i \in 1..Newest : OnRing(i) \in Blocks
           /\ (resp = <<>> <=> Len(resp) = 0) /\ (hw = <<>> <=> Len(hw) = 0)
           /\ resp # <<>> => Head(resp) = OnRing(1) /\ Newest >= 1
  <1>1. /\ resp \in Seq(Blocks) /\ hw \in Seq(Blocks)
        /\ Len(resp) \in Nat /\ Len(hw) \in Nat
        /\ (resp = <<>> <=> Len(resp) = 0) /\ (hw = <<>> <=> Len(hw) = 0)
    BY EmptyLen DEF TypeOK
  <1>2. ASSUME NEW i \in 1..Newest
        PROVE  OnRing(i) \in Blocks
    <2>1. CASE i <= Len(resp)
      BY <1>1, <2>1, ElementOfSeq DEF OnRing, Newest
    <2>2. CASE ~ i <= Len(resp)
      <3>1. i - Len(resp) \in 1..Len(hw)
        BY <1>1, <2>2 DEF Newest
      <3> QED
        BY <1>1, <2>2, <3>1, ElementOfSeq DEF OnRing
    <2> QED
      BY <2>1, <2>2
  <1>3. resp # <<>> => Head(resp) = OnRing(1) /\ Newest >= 1
    BY <1>1, TailOf DEF OnRing, Newest
  <1> QED
    BY <1>1, <1>2, <1>3 DEF Newest

\* When the instance makes dummies all blocks in use are on the ring, ...
LEMMA AllOnRing ==
    ASSUME NEW a \in Threads, TypeOK, Inv(a), state = "error", sync = 1
    PROVE  /\ Newest \in Nat /\ Base \in Nat
           /\ InRing = Used /\ Cardinality(Used) = Newest
           /\ \A b \in Used : \E i \in 1..Newest : OnRing(i) = b
           /\ \A i \in 1..Newest :
                 OnRing(i) \in Used /\ opaque[OnRing(i)] = Base + i - 1
           /\ \A i, j \in 1..Newest : OnRing(i) = OnRing(j) => i = j
  <1>1. ~Holding(a) /\ Oldest = 1 /\ pc[a] # "opaque"
    BY DEF Inv, PlaceInv, CallPlaces, Holding, Oldest
  <1>2. Newest \in Nat /\ Base \in Nat
    BY RingType DEF Inv, RingInv, TypeOK, Base
  <1>3. /\ \A b \in Used : \E i \in 1..Newest : OnRing(i) = b
        /\ \A i \in 1..Newest :
              OnRing(i) \in Used /\ opaque[OnRing(i)] = Base + i - 1
        /\ \A i, j \in 1..Newest : OnRing(i) = OnRing(j) => i = j
    BY <1>1 DEF Inv, RingInv, Held
  <1>4. InRing = Used
    BY <1>2, <1>3 DEF InRing, Invalid
  <1>5. Cardinality(Used) = Newest
    <2> DEFINE f == [i \in 1..Newest |-> OnRing(i)]
    <2>1. /\ \A b \in Used : \E i \in 1..Newest : b = f[i]
          /\ \A i \in 1..Newest : f[i] \in Used
          /\ \A i, j \in 1..Newest : f[i] = f[j] => i = j
      BY <1>3
    <2> HIDE DEF f
    <2> QED
      BY <1>2, <2>1, NumberedCount
  <1> QED
    BY <1>2, <1>3, <1>4, <1>5

\* ... no block is given back unsent, ...
LEMMA NothingUnsent ==
    ASSUME TypeOK, InRing = Used
    PROVE  Reverse(NotSent) \o pool = pool
  <1>1. Used \ InRing = {} /\ Cardinality({}) = 0
    BY FS_EmptySet
  <1>2. NotSent = CHOOSE s \in [1 .. 0 -> {}] :
                      \A i, j \in DOMAIN s : i < j => s[i] < s[j]
    BY <1>1 DEF NotSent
  <1>3. \E s \in [1 .. 0 -> {}] : \A i, j \in DOMAIN s : i < j => s[i] < s[j]
    <2> DEFINE e == [i \in 1..0 |-> 0]
    <2>1. e \in [1..0 -> {}] /\ \A i, j \in DOMAIN e : i < j => e[i] < e[j]
      OBVIOUS
    <2> QED
      BY <2>1
  <1>4. NotSent \in [1..0 -> {}]
    BY <1>2, <1>3
  <1>5. NotSent = <<>>
    BY <1>4
  <1>6. Reverse(NotSent) = <<>>
    BY <1>5 DEF Reverse
  <1> QED
    BY <1>6, ConcatEmptySeq DEF TypeOK

\* ... and the bucket holds them in the order in which they were sent.
LEMMA BucketInOrder ==
    ASSUME NEW a \in Threads, TypeOK, Inv(a), state = "error", sync = 1
    PROVE  /\ Bucket \in Seq(Blocks) /\ Len(Bucket) = Newest
           /\ \A i \in 1..Newest : Bucket[i] = OnRing(i)
  <1> DEFINE n == Newest
  <1>1. /\ n \in Nat /\ Base \in Nat
        /\ InRing = Used /\ Cardinality(Used) = n
        /\ \A b \in Used : \E i \in 1..n : OnRing(i) = b
        /\ \A i \in 1..n :
              OnRing(i) \in Used /\ opaque[OnRing(i)] = Base + i - 1
        /\ \A i, j \in 1..n : OnRing(i) = OnRing(j) => i = j
    BY AllOnRing
  <1>2. Bucket = [i \in 1..n |-> BucketSlot((StartIndex + i - 1) % n)]
    BY <1>1 DEF Bucket
  <1>3. ASSUME NEW i \in 1..n
        PROVE  BucketSlot((StartIndex + i - 1) % n) = OnRing(i)
    <2> HIDE DEF n
    <2>1. n \in Nat \ {0} /\ 1 \in 1..n
      BY <1>1
    <2>2. \A j \in 1..n : Slot(OnRing(j)) = (Base + j - 1) % n
      BY <1>1 DEF Slot
    <2>3. StartIndex = Base % n
      <3> DEFINE L(b) == b \in InRing /\ \A c \in InRing : opaque[b] <= opaque[c]
      <3>1. L(OnRing(1))
        <4>1. OnRing(1) \in InRing /\ opaque[OnRing(1)] = Base
          BY <1>1, <2>1
        <4>2. ASSUME NEW c \in InRing PROVE Base <= opaque[c]
          <5>1. PICK j \in 1..n : OnRing(j) = c
            BY <1>1
          <5> QED
            BY <1>1, <5>1
        <4> QED
          BY <4>1, <4>2
      <3>2. ASSUME NEW b, L(b) PROVE b = OnRing(1)
        <4>1. PICK j \in 1..n : OnRing(j) = b
          BY <1>1, <3>2
        <4>2. opaque[b] <= opaque[OnRing(1)]
          BY <3>1, <3>2
        <4>3. j = 1
          BY <1>1, <2>1, <4>1, <4>2
        <4> QED
          BY <4>1, <4>3
      <3>3. (CHOOSE b \in InRing : \A c \in InRing : opaque[b] <= opaque[c])
                = OnRing(1)
        BY <3>1, <3>2
      <3>4. Slot(OnRing(1)) = Base % n
        <4>1. Base + 1 - 1 = Base
          BY <1>1
        <4> QED
          BY <2>1, <2>2, <4>1
      <3> QED
        BY <3>3, <3>4 DEF StartIndex
    <2>4. (StartIndex + i - 1) % n = (Base + i - 1) % n
      <3>1. i - 1 \in Nat
        OBVIOUS
      <3>2. ((Base % n) + (i - 1)) % n = (Base + (i - 1)) % n
        BY <1>1, <2>1, <3>1, FromStart
      <3>3. /\ (Base % n) + (i - 1) = StartIndex + i - 1
            /\ Base + (i - 1) = Base + i - 1
        BY <1>1, <2>1, <2>3, DivMod
      <3> QED
        BY <3>2, <3>3
    <2>5. ASSUME NEW j \in 1..n, (Base + j - 1) % n = (Base + i - 1) % n
          PROVE  j = i
      <3>1. Base + j - 1 \in Nat /\ Base + i - 1 \in Nat
        BY <1>1
      <3>2. ~(Base + j - 1 < Base + i - 1)
        <4>1. Base + i - 1 < (Base + j - 1) + n
          BY <1>1
        <4> QED
          BY <2>1, <2>5, <3>1, <4>1, OwnSlots
      <3>3. ~(Base + i - 1 < Base + j - 1)
        <4>1. Base + j - 1 < (Base + i - 1) + n
          BY <1>1
        <4> QED
          BY <2>1, <2>5, <3>1, <4>1, OwnSlots
      <3> QED
        BY <1>1, <3>2, <3>3
    <2> DEFINE k == (StartIndex + i - 1) % n
               here == {b \in InRing : Slot(b) = k}
    <2>6. here = {OnRing(i)}
      <3>1. OnRing(i) \in here
        BY <1>1, <2>2, <2>4
      <3>2. ASSUME NEW b \in here PROVE b = OnRing(i)
        <4>1. PICK j \in 1..n : OnRing(j) = b
          BY <1>1, <3>2
        <4>2. (Base + j - 1) % n = (Base + i - 1) % n
          BY <2>2, <2>4, <3>2, <4>1
        <4> QED
          BY <2>5, <4>1, <4>2
      <3> QED
        BY <3>1, <3>2
    <2>7. OnRing(i) <= OnRing(i)
      <3>1. OnRing(i) \in Blocks
        BY RingType DEF n
      <3>2. OnRing(i) \in Int
        BY <3>1, BoundsAssumption DEF Blocks
      <3> QED
        BY <3>2
    <2>8. BucketSlot(k) = IF here = {} THEN 0
                          ELSE CHOOSE b \in here : \A c \in here : c <= b
      BY DEF BucketSlot
    <2> HIDE DEF here, k
    <2>9. BucketSlot(k) = OnRing(i)
      BY <2>6, <2>7, <2>8
    <2> QED
      BY <2>9 DEF k
  <1>4. \A i \in 1..n : OnRing(i) \in Blocks
    BY RingType
  <1>5. Bucket = [i \in 1..n |-> OnRing(i)]
    BY <1>2, <1>3
  <1>6. Bucket \in [1..n -> Blocks]
    BY <1>4, <1>5
  <1> HIDE DEF n
  <1>7. Bucket \in Seq(Blocks) /\ Len(Bucket) = n
    BY <1>1, <1>6
  <1> QED
    BY <1>5, <1>7 DEF n

-----------------------------------------------------------------------------
(* The blocks in use and the dummies.                                      *)

\* An instance that runs makes no dummies.
LEMMA RunningSync ==
    ASSUME TypeOK, PoolInv, state = "running"
    PROVE  sync = 1 /\ \A t \in Threads : todo[t] = <<>>
  BY DEF TypeOK, PoolInv

\* The response that is called back is of the oldest request on the ring.
LEMMA CallbackBlock ==
    ASSUME NEW a \in Threads, TypeOK, Inv(a),
           NEW t \in Threads, At(t, "poll"), ~Marking, resp # <<>>
    PROVE  /\ state = "running" /\ sync = 1 /\ Oldest = 1 /\ Newest >= 1
           /\ Head(resp) = OnRing(1) /\ Head(resp) \in Used
           /\ ~Held(a, Head(resp))
  <1>1. state = "running"
    BY DEF Inv, PlaceInv, PollPlaces, At
  <1>2. sync = 1
    BY <1>1, RunningSync DEF Inv
  <1>3. Oldest = 1 /\ Newest \in Nat /\ Newest >= 1 /\ Head(resp) = OnRing(1)
    BY RingType DEF Oldest
  <1>4. 1 \in Oldest..Newest
    BY <1>3
  <1> QED
    BY <1>1, <1>2, <1>3, <1>4 DEF Inv, RingInv

\* A refused request still has its block.
LEMMA UndoBlock ==
    ASSUME NEW a \in Threads, TypeOK, Inv(a), At(a, "undo")
    PROVE  /\ state = "running" /\ sync = 1
           /\ Holding(a) /\ call[a].block \in Used
  <1>1. state = "running" /\ Holding(a) /\ call[a].block \in Used
    BY DEF Inv, PlaceInv, CallPlaces, RequestInv, Holding, At
  <1> QED
    BY <1>1, RunningSync DEF Inv

\* Nothing happens to the blocks.
LEMMA PoolStill ==
    ASSUME TypeOK, PoolInv,
           UNCHANGED <<pool, pending, sync, todo, opaque>>,
           state' = "running" => state = "running",
           \A t \in Threads : pc[t] = "dummy" /\ todo[t] # <<>>
                                  => pc'[t] = "dummy"
    PROVE  PoolInv' /\ UNCHANGED Used
  BY DEF PoolInv, DummyOrder, Used

\* The block of an answered or refused request comes back.
LEMMA PoolGive ==
    ASSUME TypeOK, PoolInv, NEW b \in Used, pool' = <<b>> \o pool,
           pending' = pending - 1, sync = 1, UNCHANGED <<sync, todo>>
    PROVE  PoolInv' /\ Used' = Used \ {b}
  <1>1. /\ Used' = Used \ {b} /\ Cardinality(Used') = pending'
        /\ \A i, j \in 1..Len(pool') : pool'[i] = pool'[j] => i = j
    BY GiveBlock
  <1>2. \A t \in Threads : todo[t] = <<>> /\ DOMAIN todo[t] = {}
    BY DEF PoolInv
  <1> QED
    BY <1>1, <1>2 DEF PoolInv, DummyOrder

\* A block is taken.
LEMMA PoolPop ==
    ASSUME NEW a \in Threads, TypeOK, Inv(a), Pop(a)
    PROVE  /\ PoolInv' /\ Used' = Used \cup {Head(pool)}
           /\ Head(pool) \in Blocks \ Used
  <1>1. state = "running"
    BY DEF Pop, At, Inv, PlaceInv, CallPlaces
  <1>2. /\ sync = 1
        /\ \A t \in Threads : todo[t] = <<>> /\ DOMAIN todo[t] = {}
    BY <1>1, RunningSync DEF Inv
  <1>3. /\ Head(pool) \in Blocks \ Used /\ Used' = Used \cup {Head(pool)}
        /\ \A i, j \in 1..Len(pool') : pool'[i] = pool'[j] => i = j
        /\ Cardinality(Used') = pending'
    BY TakeBlock DEF Pop, Inv
  <1> QED
    BY <1>2, <1>3 DEF PoolInv, DummyOrder, Pop

\* A dummy is made: its block comes back, the others keep their order.
LEMMA PoolDummy ==
    ASSUME TypeOK, PoolInv, NEW t \in Threads, Dummy(t), todo[t] # <<>>
    PROVE  /\ PoolInv' /\ Head(todo[t]) \in Used
           /\ Used' = Used \ {Head(todo[t])} /\ sync = 0
  <1> DEFINE s == todo[t]
             h == Head(s)
  <1>1. s \in Seq(Blocks \cup {0})
    BY DEF TypeOK
  <1>2. /\ Len(s) \in Nat \ {0} /\ h = s[1] /\ DOMAIN s = 1..Len(s)
        /\ Tail(s) \in Seq(Blocks \cup {0}) /\ Len(Tail(s)) = Len(s) - 1
        /\ DOMAIN Tail(s) = 1..Len(s)-1
        /\ \A i \in 1..Len(s)-1 : Tail(s)[i] = s[i+1]
    BY <1>1, TailOf, EmptyLen
  <1>3. h \in Used /\ sync = 0
    BY <1>2 DEF PoolInv, DummyOrder, TypeOK
  <1>4. /\ pool' = <<h>> \o pool /\ pending' = pending - 1
        /\ todo' = [todo EXCEPT ![t] = Tail(s)]
        /\ UNCHANGED <<pc, sync, state, opaque>>
    BY DEF Dummy, Complete
  <1>5. /\ Used' = Used \ {h} /\ Cardinality(Used') = pending'
        /\ \A i, j \in 1..Len(pool') : pool'[i] = pool'[j] => i = j
    BY <1>3, <1>4, GiveBlock
  <1>6. todo'[t] = Tail(s) /\ \A u \in Threads \ {t} : todo'[u] = todo[u]
    BY <1>4 DEF TypeOK
  <1>7. \A u \in Threads \ {t} : todo[u] = <<>> /\ DOMAIN todo[u] = {}
    BY DEF PoolInv
  <1> HIDE DEF s
  <1>8. \A i \in 1..Len(s) : s[i] \in Used /\ opaque[s[i]] \in Nat
    BY <1>2 DEF PoolInv, DummyOrder, s, TypeOK, Used
  <1>9. \A i, j \in 1..Len(s) : i < j => opaque[s[i]] < opaque[s[j]]
    BY <1>2 DEF PoolInv, DummyOrder, s
  <1>10. \A i \in 2..Len(s) : s[i] # h
    <2> TAKE i \in 2..Len(s)
    <2>1. opaque[s[1]] < opaque[s[i]] /\ opaque[s[1]] \in Nat
      BY <1>2, <1>8, <1>9
    <2> QED
      BY <1>2, <2>1
  <1>11. DummyOrder'
    <2> SUFFICES /\ \A i \in 1..Len(s)-1 :
                       Tail(s)[i] \in Used' /\ opaque[Tail(s)[i]] # Invalid
                 /\ \A i, j \in 1..Len(s)-1 : i < j =>
                       opaque[Tail(s)[i]] < opaque[Tail(s)[j]]
      <3>1. /\ DOMAIN todo'[t] = 1..Len(s)-1 /\ opaque' = opaque
            /\ \A i \in 1..Len(s)-1 : todo'[t][i] = Tail(s)[i]
        BY <1>2, <1>4, <1>6
      <3>2. \A u \in Threads \ {t} : DOMAIN todo'[u] = {}
        BY <1>6, <1>7
      <3> QED
        BY <3>1, <3>2 DEF DummyOrder
    <2>1. ASSUME NEW i \in 1..Len(s)-1
          PROVE  Tail(s)[i] \in Used' /\ opaque[Tail(s)[i]] # Invalid
      <3>1. i + 1 \in 2..Len(s) /\ i + 1 \in 1..Len(s) /\ Tail(s)[i] = s[i+1]
        BY <1>2
      <3> QED
        BY <1>5, <1>8, <1>10, <3>1 DEF Invalid
    <2>2. ASSUME NEW i \in 1..Len(s)-1, NEW j \in 1..Len(s)-1, i < j
          PROVE  opaque[Tail(s)[i]] < opaque[Tail(s)[j]]
      <3>1. /\ i + 1 \in 1..Len(s) /\ j + 1 \in 1..Len(s) /\ i + 1 < j + 1
            /\ Tail(s)[i] = s[i+1] /\ Tail(s)[j] = s[j+1]
        BY <1>2, <2>2
      <3> QED
        BY <1>9, <3>1
    <2> QED
      BY <2>1, <2>2
  <1>12. \A b \in Used' : \E u \in Threads :
            \E i \in 1..Len(todo'[u]) : todo'[u][i] = b
    <2> TAKE b \in Used'
    <2>1. b \in Used /\ b # h
      BY <1>5
    <2>2. PICK u \in Threads : \E i \in 1..Len(todo[u]) : todo[u][i] = b
      BY <1>3, <2>1 DEF PoolInv
    <2>3. u = t
      BY <1>7, <2>2, EmptySeq
    <2>4. PICK i \in 1..Len(s) : s[i] = b
      BY <2>2, <2>3 DEF s
    <2>5. i # 1
      BY <1>2, <2>1, <2>4
    <2>6. /\ i - 1 \in 1..Len(todo'[t]) /\ todo'[t][i-1] = s[(i-1)+1]
          /\ (i-1)+1 = i
      BY <1>2, <1>6, <2>5
    <2> QED
      BY <2>4, <2>6
  <1>13. \A u \in Threads : todo'[u] # <<>> => u = t
    BY <1>6, <1>7
  <1>14. pc[t] = "dummy"
    BY DEF PoolInv
  <1>15. state # "running"
    BY <1>3 DEF PoolInv
  <1>16. PoolInv'
    BY <1>3, <1>4, <1>5, <1>11, <1>12, <1>13, <1>14, <1>15 DEF PoolInv
  <1> QED
    BY <1>3, <1>5, <1>16 DEF s

\* The dummies are made out.
LEMMA PoolGen ==
    ASSUME NEW a \in Threads, TypeOK, Inv(a), NEW t \in Threads, GenResp(t)
    PROVE  PoolInv' /\ UNCHANGED <<pool, Used>>
  <1>1. /\ state = "error" /\ sync = 1 /\ sync' = 0
        /\ todo' = [todo EXCEPT ![t] = Bucket]
        /\ pc' = [pc EXCEPT ![t] = "dummy"]
        /\ pool' = Reverse(NotSent) \o pool
        /\ UNCHANGED <<state, opaque, pending>>
    BY DEF GenResp, cookieVars, Goto
  <1>2. /\ Newest \in Nat /\ Base \in Nat /\ InRing = Used
        /\ \A b \in Used : \E i \in 1..Newest : OnRing(i) = b
        /\ \A i \in 1..Newest :
              OnRing(i) \in Used /\ opaque[OnRing(i)] = Base + i - 1
    BY <1>1, AllOnRing
  <1>3. /\ Bucket \in Seq(Blocks) /\ Len(Bucket) = Newest
        /\ DOMAIN Bucket = 1..Newest
        /\ \A i \in 1..Newest : Bucket[i] = OnRing(i)
    BY <1>1, BucketInOrder, EmptyLen
  <1>4. pool' = pool /\ Used' = Used
    BY <1>1, <1>2, NothingUnsent DEF Used
  <1>5. /\ todo'[t] = Bucket
        /\ \A u \in Threads \ {t} :
              todo'[u] = <<>> /\ DOMAIN todo'[u] = {} /\ Len(todo'[u]) = 0
    BY <1>1, EmptySeq DEF TypeOK, Inv, PoolInv
  <1>6. /\ \A i \in 1..Newest : Bucket[i] \in Used /\ opaque[Bucket[i]] # Invalid
        /\ \A i, j \in 1..Newest : i < j => opaque[Bucket[i]] < opaque[Bucket[j]]
    BY <1>2, <1>3 DEF Invalid
  <1>7. DummyOrder'
    BY <1>1, <1>3, <1>4, <1>5, <1>6 DEF DummyOrder
  <1>8. \A b \in Used : \E i \in 1..Len(todo'[t]) : todo'[t][i] = b
    <2> TAKE b \in Used
    <2>1. PICK i \in 1..Newest : OnRing(i) = b
      BY <1>2
    <2>2. i \in 1..Len(todo'[t]) /\ todo'[t][i] = b
      BY <1>3, <1>5, <2>1
    <2> QED
      BY <2>2
  <1>9. pc'[t] = "dummy"
    BY <1>1 DEF TypeOK
  <1>10. \A u \in Threads : todo'[u] # <<>> => u = t
    BY <1>5
  <1> QED
    BY <1>1, <1>4, <1>7, <1>8, <1>9, <1>10 DEF Inv, PoolInv

\* In every step the pool and the dummies agree, and only a call takes a
\* block from the pool.
LEMMA PoolStep ==
    ASSUME NEW a \in Threads, Watched(setup, a), TypeOK, Inv(a), [Next]_vars
    PROVE  PoolInv' /\ (Pop(a) \/ Used' \subseteq Used)
  <1> USE DEF Goto, At, poolVars, cookieVars, workVars
  <1> PoolInv /\ PlaceInv(a) /\ pc \in [Threads -> Statuses]
    BY DEF Inv, TypeOK
  <1>1. CASE Call(a)
    <2> state = "running" => sync = 1 /\ \A t \in Threads :
                                            todo[t] = <<>> /\ DOMAIN todo[t] = {}
      BY RunningSync
    <2>1. CASE Submit(a)
      BY <2>1, PoolStill DEF Submit
    <2>2. CASE TestActive(a)
      BY <2>2, PoolStill DEF TestActive
    <2>3. CASE Pop(a)
      BY <2>3, PoolPop
    <2>4. CASE Put(a)
      BY <2>4, PoolStill DEF Put
    <2>5. CASE SetOpaque(a)
      <3>1. state = "running" /\ UNCHANGED <<pool, pending, sync, todo, state>>
        BY <2>5 DEF SetOpaque, PlaceInv, CallPlaces
      <3> QED
        BY <3>1 DEF PoolInv, DummyOrder, Used
    <2>6. CASE Undo(a)
      <3>1. sync = 1 /\ call[a].block \in Used
        BY <2>6, UndoBlock DEF Undo
      <3> QED
        BY <2>6, <3>1, PoolGive DEF Undo
    <2> QED
      BY <1>1, <2>1, <2>2, <2>3, <2>4, <2>5, <2>6 DEF Call
  <1>2. ASSUME NEW t \in Threads, t \in setup.pollers, Poll(t)
        PROVE  PoolInv' /\ Used' \subseteq Used
    <2>1. CASE PollEnter(t)
      BY <2>1, PoolStill DEF PollEnter
    <2>2. CASE Callback(t)
      <3>1. CASE resp = <<>>
        BY <2>2, <3>1, PoolStill DEF Callback
      <3>2. CASE resp # <<>>
        <4>1. sync = 1 /\ Head(resp) \in Used
          BY <2>2, <3>2, CallbackBlock DEF Callback, Marking
        <4> QED
          BY <2>2, <3>2, <4>1, PoolGive DEF Callback, Complete
      <3> QED
        BY <3>1, <3>2
    <2>3. CASE Mark(t)
      BY <2>3, PoolStill DEF Mark
    <2>4. CASE GenResp(t)
      BY <2>4, PoolGen
    <2>5. CASE Dummy(t)
      <3>1. CASE todo[t] = <<>>
        BY <2>5, <3>1, PoolStill DEF Dummy
      <3>2. CASE todo[t] # <<>>
        BY <2>5, <3>2, PoolDummy
      <3> QED
        BY <3>1, <3>2
    <2> QED
      BY <1>2, <2>1, <2>2, <2>3, <2>4, <2>5 DEF Poll
  <1>3. CASE Events(a)
    <2>1. CASE PollEvents(a)
      BY <2>1, PoolStill DEF PollEvents
    <2>2. CASE NextQueued(a)
      BY <2>2, PoolStill DEF NextQueued
    <2>3. CASE NextEvent(a)
      BY <2>3, PoolStill DEF NextEvent
    <2>4. CASE ErrorDisable(a)
      BY <2>4, PoolStill DEF ErrorDisable
    <2>5. CASE ErrorCheck(a)
      BY <2>5, PoolStill DEF ErrorCheck
    <2>6. CASE ErrorSet(a)
      BY <2>6, PoolStill DEF ErrorSet
    <2>7. CASE ErrorSettle(a)
      BY <2>7, PoolStill DEF ErrorSettle, Handled
    <2>8. CASE Restarting(a)
      BY <2>8, PoolStill DEF Restarting, Handled
    <2>9. CASE Restarted(a)
      <3>1. /\ UNCHANGED <<pool, pending, todo, opaque>> /\ sync' = 1
            /\ pc' = [pc EXCEPT ![a] = "cookies"] /\ pc[a] = "restarted"
        BY <2>9 DEF Restarted
      <3>2. Used = {}
        BY <2>9 DEF Restarted, Inv, PhaseInv, Whole
      <3>3. \A t \in Threads : todo[t] = <<>>
        <4> TAKE t \in Threads
        <4>1. DOMAIN todo[t] = {}
          BY <3>2 DEF PoolInv, DummyOrder
        <4>2. todo[t] \in Seq(Blocks \cup {0})
          BY DEF TypeOK
        <4>3. /\ Len(todo[t]) \in Nat /\ 1..Len(todo[t]) = {}
              /\ todo[t] = <<>> <=> Len(todo[t]) = 0
          BY <4>1, <4>2, EmptyLen
        <4> QED
          BY <4>3
      <3>4. Used' = Used
        BY <3>1 DEF Used
      <3> QED
        BY <3>1, <3>3, <3>4 DEF PoolInv, DummyOrder
    <2>10. CASE InitDcCookies(a)
      <3>1. /\ UNCHANGED <<pool, pending, sync, todo, state>>
            /\ state = "running"
        BY <2>10 DEF InitDcCookies, Inv, PhaseInv
      <3>2. sync = 1 /\ \A t \in Threads : todo[t] = <<>> /\ DOMAIN todo[t] = {}
        BY <3>1, RunningSync
      <3> QED
        BY <3>1, <3>2 DEF PoolInv, DummyOrder, Used
    <2> QED
      BY <1>3, <2>1, <2>2, <2>3, <2>4, <2>5, <2>6, <2>7, <2>8, <2>9, <2>10
      DEF Events, Handle
  <1>4. CASE Answer
    BY <1>4, PoolStill DEF Answer
  <1>5. CASE Kernel
    BY <1>5, PoolStill DEF Kernel, Fail, NotifyRestarting, Reset
  <1>6. CASE UNCHANGED vars
    BY <1>6, PoolStill DEF vars
  <1> QED
    BY <1>1, <1>2, <1>3, <1>4, <1>5, <1>6, Actors

-----------------------------------------------------------------------------
(* How far the restart has come.                                           *)

\* A restart is never put off.
LEMMA RestartedFirst ==
    ASSUME NEW a \in Threads, TypeOK, OrderInv(a), Expected(a) = "restarted"
    PROVE  queue = <<>>
  <1> SUFFICES ASSUME queue # <<>> PROVE FALSE
    OBVIOUS
  <1>1. 1 \in 1..Len(queue) /\ Head(queue) = queue[1]
    BY TailOf DEF TypeOK
  <1>2. Head(queue) # "restarted"
    BY <1>1 DEF OrderInv
  <1> QED
    BY <1>2 DEF OrderInv, Expected, Waiting

\* Steps that touch neither the events nor the progress of their handling.
LEMMA PhaseStill ==
    ASSUME NEW a \in Threads, PhaseInv(a),
           UNCHANGED <<state, hw, resp, kernel, pipe, queue, busy>>,
           Whole => Whole',
           \/ pc'[a] = pc[a]
           \/ pc[a] \notin HandlerPlaces \cup {"pipe"} /\ pc'[a] \notin HandlerPlaces
    PROVE  PhaseInv(a)'
  <1>1. UNCHANGED <<Coming, Arriving, Waiting>>
    BY DEF Coming, Arriving, Waiting
  <1>2. Expected(a)' = Expected(a)
    BY <1>1 DEF Expected
  <1>3. Sent("restarted")' <=> Sent("restarted")
    BY DEF Sent
  <1> QED
    BY <1>2, <1>3 DEF PhaseInv, HandlerPlaces, ErrorPlaces

\* The handler of an error returns.
LEMMA PhaseSettle ==
    ASSUME NEW a \in Threads, TypeOK, Inv(a), ErrorSettle(a)
    PROVE  PhaseInv(a)'
  <1> PhaseInv(a) /\ OrderInv(a)
    BY DEF Inv
  <1> DEFINE s == IF busy # 0 \/ state # "error" THEN "retry" ELSE "done"
  <1>1. /\ pc[a] = "settle" /\ pc[a] \in HandlerPlaces
        /\ KindOf(pc[a]) = "error" /\ Expected(a) = "error"
        /\ Handled(a, s)
        /\ UNCHANGED <<state, hw, resp, kernel, pipe, busy, pool>>
    BY DEF ErrorSettle, At, HandlerPlaces, ErrorPlaces, KindOf, Expected,
           poolVars, ringVars, kernelVars
  <1>2. UNCHANGED Arriving
    BY <1>1 DEF Arriving, Coming
  <1>3. /\ pc'[a] \in {"queue", "pipe"}
        /\ Waiting' = IF s = "retry" THEN "error" ELSE "restarting"
        /\ queue = <<>> /\ s = "done" => queue' = <<>> /\ pc'[a] = "pipe"
    BY <1>1, <1>2, HandledStep DEF Follows
  <1>4. Expected(a)' = Waiting' /\ pc'[a] \notin HandlerPlaces
    BY <1>3 DEF Expected, HandlerPlaces, ErrorPlaces
  <1>5. (Sent("restarted")' <=> Sent("restarted")) /\ (Whole' <=> Whole)
    BY <1>1 DEF Sent, Whole, Used
  <1>6. state # "restarting"
    BY <1>1 DEF PhaseInv
  <1>7. s = "done" => state = "error" /\ busy = 0 /\ Whole
    BY <1>1 DEF PhaseInv
  <1> QED
    BY <1>1, <1>3, <1>4, <1>5, <1>6, <1>7 DEF PhaseInv

\* The rings are given up.
LEMMA PhaseRestarting ==
    ASSUME NEW a \in Threads, TypeOK, Inv(a), Restarting(a), OrderInv(a)'
    PROVE  PhaseInv(a)' /\ state = "error" /\ state' = "restarting"
  <1> PhaseInv(a) /\ OrderInv(a)
    BY DEF Inv
  <1>1. /\ pc[a] = "restarting" /\ pc[a] \in HandlerPlaces
        /\ KindOf(pc[a]) = "restarting" /\ Expected(a) = "restarting"
        /\ Handled(a, "done")
        /\ UNCHANGED <<hw, kernel, pipe, busy, pool>>
    BY DEF Restarting, At, HandlerPlaces, ErrorPlaces, KindOf, Expected,
           poolVars, kernelVars
  <1>2. state = "error" /\ Whole /\ state' = "restarting"
    BY <1>1 DEF PhaseInv, Restarting
  <1>3. UNCHANGED Arriving
    BY <1>1 DEF Arriving, Coming
  <1>4. /\ pc'[a] \in {"queue", "pipe"} /\ Waiting' = "restarted"
        /\ queue' \in Seq(EventKinds)
        /\ \A i \in 1..Len(queue') : queue'[i] # "restarted"
    BY <1>1, <1>3, HandledStep DEF Follows
  <1>5. Expected(a)' = "restarted" /\ pc'[a] \notin HandlerPlaces
    BY <1>4 DEF Expected, HandlerPlaces, ErrorPlaces
  <1>6. ASSUME pipe # <<>> PROVE hw = <<>>
    <2>1. queue' = <<>>
      <3> SUFFICES ASSUME queue' # <<>> PROVE FALSE
        OBVIOUS
      <3>1. 1 \in 1..Len(queue') /\ Head(queue') = queue'[1]
        BY <1>4, TailOf
      <3> QED
        BY <1>4, <3>1 DEF Waiting
    <2>2. Head(pipe) = "restarted"
      BY <1>1, <1>4, <1>6, <2>1 DEF Waiting, Arriving
    <2>3. 1 \in 1..Len(pipe) /\ pipe[1] = "restarted"
      BY <1>6, <2>2, TailOf DEF TypeOK
    <2> QED
      BY <1>2, <2>3 DEF PhaseInv, Sent
  <1>7. Whole'
    BY <1>1, <1>2 DEF Whole, Used
  <1>8. pc'[a] # "cookies" /\ pc'[a] # "restarted"
        /\ pc'[a] \notin {"check", "set", "settle"}
    BY <1>4
  <1> QED
    BY <1>1, <1>2, <1>5, <1>6, <1>7, <1>8 DEF PhaseInv

\* The rings are new, and then the cookies.
LEMMA PhaseRestarted ==
    ASSUME NEW a \in Threads, TypeOK, Inv(a), Restarted(a)
    PROVE  PhaseInv(a)' /\ Whole /\ hw = <<>>
  <1> PhaseInv(a) /\ OrderInv(a)
    BY DEF Inv
  <1>1. /\ pc[a] = "restarted" /\ pc'[a] = "cookies"
        /\ state = "restarting" /\ state' = "running" /\ resp' = <<>>
        /\ UNCHANGED <<hw, kernel, pipe, queue, busy, pool>>
    BY DEF Restarted, At, Goto, eventVars, kernelVars, TypeOK
  <1>2. Whole /\ Whole' /\ hw = <<>>
    BY <1>1 DEF PhaseInv, Whole, Used
  <1>3. Expected(a) = "restarted" /\ Expected(a)' = "restarted"
    BY <1>1 DEF Expected, HandlerPlaces, ErrorPlaces, KindOf
  <1>4. queue = <<>>
    BY <1>3, RestartedFirst
  <1> QED
    BY <1>1, <1>2, <1>3, <1>4 DEF PhaseInv, HandlerPlaces

LEMMA PhaseCookies ==
    ASSUME NEW a \in Threads, TypeOK, Inv(a), InitDcCookies(a)
    PROVE  PhaseInv(a)' /\ state = "running" /\ Whole
  <1> PhaseInv(a) /\ OrderInv(a)
    BY DEF Inv
  <1>1. /\ pc[a] = "cookies" /\ pc[a] \in HandlerPlaces
        /\ KindOf(pc[a]) = "restarted" /\ Expected(a) = "restarted"
        /\ Handled(a, "done")
        /\ UNCHANGED <<state, hw, resp, kernel, pipe, busy, pool>>
    BY DEF InitDcCookies, At, HandlerPlaces, ErrorPlaces, KindOf, Expected,
           poolVars, ringVars, kernelVars
  <1>2. state = "running" /\ Whole /\ hw = <<>> /\ resp = <<>>
    BY <1>1 DEF PhaseInv
  <1>3. UNCHANGED Arriving /\ queue = <<>>
    BY <1>1, RestartedFirst DEF Arriving, Coming
  <1>4. /\ pc'[a] = "pipe" /\ Waiting' = "error" /\ queue' = <<>>
    BY <1>1, <1>3, HandledStep DEF Follows
  <1>5. Expected(a)' = "error"
    BY <1>4 DEF Expected, HandlerPlaces, ErrorPlaces
  <1>6. Whole'
    BY <1>1, <1>2 DEF Whole, Used
  <1> QED
    BY <1>1, <1>2, <1>4, <1>5, <1>6 DEF PhaseInv

\* The kernel sends an event.
LEMMA PhaseKernel ==
    ASSUME NEW a \in Threads, TypeOK, Inv(a), Kernel
    PROVE  PhaseInv(a)'
  <1> PhaseInv(a) /\ OrderInv(a)
    BY DEF Inv
  <1>1. /\ UNCHANGED <<state, resp, queue, busy, pc, pool>>
        /\ pipe' = Append(pipe, Coming) /\ Coming' = Follows(Coming)
        /\ Coming \in EventKinds /\ pipe \in Seq(EventKinds)
    BY DEF Kernel, Fail, NotifyRestarting, Reset, ringVars, eventVars,
           poolVars, Coming, Follows, TypeOK, EventKinds
  <1>2. UNCHANGED Arriving /\ pipe' # <<>>
    BY <1>1, SendStep
  <1>3. Expected(a)' = Expected(a)
    BY <1>1, <1>2 DEF Expected, Waiting
  <1>4. Whole' <=> Whole
    BY <1>1 DEF Whole, Used
  <1>5. CASE Reset
    <2>1. hw' = <<>> /\ state = "restarting"
      BY <1>5 DEF Reset
    <2> QED
      BY <1>1, <1>3, <1>4, <2>1 DEF PhaseInv
  <1>6. CASE Fail \/ NotifyRestarting
    <2>1. hw' = hw /\ Coming # "restarted"
      BY <1>6 DEF Fail, NotifyRestarting, ringVars, Coming
    <2>2. ASSUME Sent("restarted")' PROVE Sent("restarted")
      <3>1. PICK i \in 1..Len(pipe') : pipe'[i] = "restarted"
        BY <2>2 DEF Sent
      <3>2. /\ Len(pipe) \in Nat /\ Len(pipe') = Len(pipe) + 1
            /\ \A j \in 1..Len(pipe) : pipe'[j] = pipe[j]
            /\ pipe'[Len(pipe) + 1] = Coming
        BY <1>1, AppendTo
      <3>3. i \in 1..Len(pipe)
        BY <2>1, <3>1, <3>2
      <3> QED
        BY <3>1, <3>2, <3>3 DEF Sent
    <2>3. ASSUME state = "restarting", pc[a] # "restarted" PROVE pipe # <<>>
      <3>1. pc[a] # "cookies" /\ Expected(a) = "restarted"
        BY <2>3 DEF PhaseInv
      <3>2. queue = <<>>
        BY <3>1, RestartedFirst
      <3>3. Waiting = "restarted"
        BY <2>3, <3>1 DEF Expected, KindOf, HandlerPlaces
      <3> QED
        BY <2>1, <3>2, <3>3 DEF Waiting, Arriving
    <2> QED
      BY <1>1, <1>3, <1>4, <2>1, <2>2, <2>3 DEF PhaseInv
  <1> QED
    BY <1>5, <1>6 DEF Kernel

\* An event is fetched.
LEMMA PhaseNext ==
    ASSUME NEW a \in Threads, TypeOK, Inv(a), NextEvent(a), pipe # <<>>
    PROVE  PhaseInv(a)'
  <1> PhaseInv(a) /\ OrderInv(a)
    BY DEF Inv
  <1>1. /\ pc[a] = "pipe" /\ pc[a] \notin HandlerPlaces
        /\ pipe \in Seq(EventKinds) /\ pipe' = Tail(pipe)
        /\ UNCHANGED <<state, hw, resp, busy, pool>>
    BY DEF NextEvent, At, HandlerPlaces, ErrorPlaces, ringVars, poolVars,
           TypeOK
  <1>2. /\ queue = <<>> => /\ pc'[a] = Arriving /\ queue' = <<>>
                           /\ Arriving \in EventKinds
        /\ queue # <<>> => pc'[a] = "pipe" /\ Waiting' = Waiting
    BY OrderNext
  <1>3. Expected(a)' = Expected(a)
    <2>1. CASE queue = <<>>
      BY <1>1, <1>2, <2>1
      DEF Expected, Waiting, KindOf, HandlerPlaces, ErrorPlaces, EventKinds
    <2>2. CASE queue # <<>>
      BY <1>1, <1>2, <2>2 DEF Expected, HandlerPlaces, ErrorPlaces
    <2> QED
      BY <2>1, <2>2
  <1>4. pc'[a] \in {"pipe", "error", "restarting", "restarted"}
    BY <1>2 DEF EventKinds
  <1>5. ASSUME Sent("restarted")' PROVE Sent("restarted")
    <2>1. PICK i \in 1..Len(pipe') : pipe'[i] = "restarted"
      BY <1>5 DEF Sent
    <2>2. i + 1 \in 1..Len(pipe) /\ pipe[i+1] = "restarted"
      BY <1>1, <2>1, TailOf
    <2> QED
      BY <2>2 DEF Sent
  <1>6. Whole' <=> Whole
    BY <1>1 DEF Whole, Used
  <1>7. state = "restarting" => hw = <<>>
    BY DEF PhaseInv
  <1>8. pc'[a] \in HandlerPlaces \cup {"pipe"}
    BY <1>4 DEF HandlerPlaces, ErrorPlaces
  <1> QED
    BY <1>1, <1>2, <1>3, <1>4, <1>5, <1>6, <1>7, <1>8 DEF PhaseInv

\* The handler of an error goes on.
LEMMA PhaseError ==
    ASSUME NEW a \in Threads, TypeOK, Inv(a),
           ErrorDisable(a) \/ ErrorCheck(a) \/ ErrorSet(a)
    PROVE  PhaseInv(a)'
  <1> PhaseInv(a) /\ OrderInv(a)
    BY DEF Inv
  <1>1. /\ pc[a] \in ErrorPlaces /\ pc'[a] \in ErrorPlaces
        /\ UNCHANGED <<hw, resp, kernel, pipe, queue, pool>>
    BY DEF ErrorDisable, ErrorCheck, ErrorSet, At, Goto, ErrorPlaces, poolVars,
           ringVars, kernelVars, eventVars, TypeOK
  <1>2. Expected(a) = "error" /\ Expected(a)' = "error"
    BY <1>1 DEF Expected, HandlerPlaces, KindOf
  <1>3. (Sent("restarted")' <=> Sent("restarted")) /\ (Whole' <=> Whole)
    BY <1>1 DEF Sent, Whole, Used
  <1>4. /\ state \in {"running", "error"}
        /\ pc'[a] \in HandlerPlaces /\ pc'[a] # "cookies" /\ pc'[a] # "restarted"
    BY <1>1, <1>2 DEF PhaseInv, TypeOK, ErrorPlaces, HandlerPlaces
  <1>5. CASE ErrorDisable(a)
    <2>1. /\ state' = state /\ busy' = IF Whole THEN 0 ELSE 1
          /\ pc'[a] = IF state = "error" THEN "settle" ELSE "check"
      BY <1>5 DEF ErrorDisable, Goto, TypeOK
    <2> QED
      BY <1>1, <1>2, <1>3, <1>4, <2>1 DEF PhaseInv
  <1>6. CASE ErrorCheck(a)
    <2>1. /\ pc[a] = "check" /\ UNCHANGED <<state, busy>>
          /\ pc'[a] = IF resp = <<>> THEN "set" ELSE "settle"
      BY <1>6 DEF ErrorCheck, At, Goto, TypeOK, eventVars
    <2> QED
      BY <1>1, <1>2, <1>3, <1>4, <2>1 DEF PhaseInv
  <1>7. CASE ErrorSet(a)
    <2>1. /\ pc[a] = "set" /\ state' = "error" /\ busy' = busy
          /\ pc'[a] = "settle"
      BY <1>7 DEF ErrorSet, At, Goto, TypeOK, eventVars
    <2> QED
      BY <1>1, <1>2, <1>3, <1>4, <2>1 DEF PhaseInv
  <1> QED
    BY <1>5, <1>6, <1>7

LEMMA PhaseStep ==
    ASSUME NEW a \in Threads, Watched(setup, a), TypeOK, Inv(a), [Next]_vars
    PROVE  PhaseInv(a)'
  <1> USE DEF Goto, At
  <1> PhaseInv(a) /\ PlaceInv(a) /\ OrderInv(a) /\ pc \in [Threads -> Statuses]
    BY DEF Inv, TypeOK
  <1>0. ~Pop(a) => (Whole => Whole')
    BY PoolStep DEF Whole
  <1>1. CASE Call(a)
    <2>1. /\ pc[a] \in CallPlaces \cup {"idle"}
          /\ pc'[a] \in CallPlaces \cup {"idle"}
          /\ UNCHANGED <<state, resp, kernel, pipe, queue, busy>>
      BY <1>1 DEF Call, Submit, TestActive, Pop, Put, SetOpaque, Undo,
                  kernelVars, eventVars, ringVars, CallPlaces
    <2>2. /\ pc[a] \notin HandlerPlaces \cup {"pipe"}
          /\ pc'[a] \notin HandlerPlaces
      BY <2>1 DEF CallPlaces, HandlerPlaces, ErrorPlaces
    <2>3. CASE Pop(a) \/ Put(a)
      <3>1. state = "running" /\ ~Sent("restarted") /\ Expected(a) # "restarting"
        BY <2>2, <2>3 DEF PlaceInv, CallPlaces, Pop, Put, PhaseInv
      <3>2. Expected(a)' = Expected(a)
        BY <2>1, <2>2 DEF Expected, Waiting, Arriving, Coming
      <3>3. ~Sent("restarted")'
        BY <2>1, <3>1 DEF Sent
      <3>4. pc'[a] # "cookies" /\ pc[a] # "cookies"
            /\ pc'[a] \notin {"check", "set", "settle"}
        BY <2>2 DEF HandlerPlaces, ErrorPlaces
      <3> QED
        BY <2>1, <3>1, <3>2, <3>3, <3>4 DEF PhaseInv
    <2>4. CASE ~(Pop(a) \/ Put(a))
      <3>1. UNCHANGED hw
        BY <1>1, <2>4 DEF Call, Submit, TestActive, SetOpaque, Undo, ringVars
      <3> QED
        BY <1>0, <2>1, <2>2, <2>4, <3>1, PhaseStill
    <2> QED
      BY <2>3, <2>4
  <1>2. ASSUME NEW t \in Threads, t \in setup.pollers, Poll(t)
        PROVE  PhaseInv(a)'
    <2>1. /\ UNCHANGED <<state, hw, kernel, pipe, queue, busy>>
          /\ \/ pc'[a] = pc[a]
             \/ /\ pc[a] \in PollPlaces \cup {"idle"}
                /\ pc'[a] \in PollPlaces \cup {"idle"}
      BY <1>2 DEF Poll, PollEnter, Callback, Mark, GenResp, Dummy,
                  kernelVars, eventVars, ringVars, PollPlaces
    <2>2. \/ pc'[a] = pc[a]
          \/ /\ pc[a] \notin HandlerPlaces \cup {"pipe"}
             /\ pc'[a] \notin HandlerPlaces
      BY <2>1 DEF PollPlaces, HandlerPlaces, ErrorPlaces
    <2>3. ~Pop(a)
      <3>1. pc[a] = "pop" => pc'[a] = "pop"
        BY <2>1 DEF PollPlaces
      <3> QED
        BY <3>1 DEF Pop
    <2>4. CASE Mark(t)
      <3>1. resp # <<>> /\ state = "running"
        BY <2>4 DEF Mark, PlaceInv, Marking
      <3>2. ~Sent("restarted") /\ pc[a] # "cookies" /\ pc'[a] # "cookies"
        BY <2>1, <3>1 DEF PhaseInv, PollPlaces
      <3>3. Expected(a)' = Expected(a)
        BY <2>1, <2>2 DEF Expected, Waiting, Arriving, Coming
      <3>4. ~Sent("restarted")' /\ (Whole => Whole')
        BY <1>0, <2>1, <2>3, <3>2 DEF Sent
      <3> QED
        BY <2>1, <2>2, <3>1, <3>2, <3>3, <3>4
        DEF PhaseInv, HandlerPlaces, ErrorPlaces
    <2>5. CASE ~Mark(t)
      <3>1. UNCHANGED resp
        BY <1>2, <2>5 DEF Poll, PollEnter, Callback, GenResp, Dummy, ringVars
      <3> QED
        BY <1>0, <2>1, <2>2, <2>3, <3>1, PhaseStill
    <2> QED
      BY <2>4, <2>5
  <1>3. CASE Events(a)
    <2>1. CASE PollEvents(a)
      <3>1. /\ UNCHANGED <<state, hw, resp, kernel, pipe, queue, busy, pool>>
            /\ pc[a] = "idle" /\ pc'[a] = "queue"
        BY <2>1 DEF PollEvents, ringVars, kernelVars, eventVars, poolVars
      <3>2. Whole => Whole'
        BY <3>1 DEF Whole, Used
      <3> QED
        BY <3>1, <3>2, PhaseStill DEF HandlerPlaces, ErrorPlaces
    <2>2. CASE NextQueued(a)
      <3>1. /\ UNCHANGED <<state, hw, resp, kernel, pipe, queue, busy, pool>>
            /\ pc[a] = "queue" /\ pc[a] \notin HandlerPlaces \cup {"pipe"}
            /\ queue = <<>> => pc'[a] = "pipe"
            /\ queue # <<>> => pc'[a] = Head(queue)
        BY <2>2 DEF NextQueued, ringVars, kernelVars, poolVars, HandlerPlaces,
                    ErrorPlaces
      <3>2. Whole => Whole'
        BY <3>1 DEF Whole, Used
      <3>3. CASE queue = <<>>
        <4>1. pc'[a] \notin HandlerPlaces
          BY <3>1, <3>3 DEF HandlerPlaces, ErrorPlaces
        <4> QED
          BY <3>1, <3>2, <4>1, PhaseStill
      <3>4. CASE queue # <<>>
        <4>1. Head(queue) \in EventKinds
          BY <3>4, TailOf DEF TypeOK
        <4>2. /\ Expected(a)' = Expected(a) /\ Waiting = Head(queue)
              /\ pc'[a] \in {"error", "restarting", "restarted"}
          BY <3>1, <3>4, <4>1
          DEF Expected, Waiting, KindOf, HandlerPlaces, ErrorPlaces, EventKinds
        <4>3. Expected(a) # "restarted"
          BY <3>4, RestartedFirst
        <4>4. pc'[a] # "restarted" /\ pc[a] # "cookies" /\ pc[a] # "restarted"
          BY <3>1, <3>4, <4>2, <4>3 DEF Expected, HandlerPlaces
        <4>5. ~Sent("restarted")' \/ state = "restarting"
          BY <3>1, <3>4 DEF PhaseInv, Sent
        <4> QED
          BY <3>1, <3>2, <4>2, <4>3, <4>4, <4>5 DEF PhaseInv
      <3> QED
        BY <3>3, <3>4
    <2>3. CASE NextEvent(a)
      <3>1. CASE pipe = <<>>
        <4>1. /\ UNCHANGED <<state, hw, resp, kernel, pipe, queue, busy, pool>>
              /\ pc[a] = "pipe" /\ pc'[a] = "idle"
          BY <2>3, <3>1 DEF NextEvent, ringVars, poolVars
        <4>2. UNCHANGED <<Coming, Arriving, Waiting>>
          BY <4>1 DEF Coming, Arriving, Waiting
        <4>3. Expected(a)' = Expected(a) /\ (Whole' <=> Whole)
          BY <4>1, <4>2
          DEF Expected, HandlerPlaces, ErrorPlaces, Whole, Used
        <4>4. ~Sent("restarted") /\ ~Sent("restarted")'
          BY <3>1, <4>1, EmptySeq DEF Sent
        <4> QED
          BY <4>1, <4>3, <4>4 DEF PhaseInv
      <3> QED
        BY <2>3, <3>1, PhaseNext
    <2>4. CASE ErrorDisable(a) \/ ErrorCheck(a) \/ ErrorSet(a)
      BY <2>4, PhaseError
    <2>5. CASE ErrorSettle(a)
      BY <2>5, PhaseSettle
    <2>6. CASE Restarting(a)
      BY <2>6, PhaseRestarting, OrderStep
    <2>7. CASE Restarted(a)
      BY <2>7, PhaseRestarted
    <2>8. CASE InitDcCookies(a)
      BY <2>8, PhaseCookies
    <2> QED
      BY <1>3, <2>1, <2>2, <2>3, <2>4, <2>5, <2>6, <2>7, <2>8
      DEF Events, Handle
  <1>4. CASE Answer
    <2>1. /\ UNCHANGED <<state, kernel, pipe, queue, busy, pc, pool>>
          /\ hw # <<>>
      BY <1>4 DEF Answer, kernelVars, eventVars, poolVars
    <2>2. Expected(a)' = Expected(a) /\ (Whole' <=> Whole)
          /\ (Sent("restarted")' <=> Sent("restarted"))
      BY <2>1 DEF Expected, Waiting, Arriving, Coming, Whole, Used, Sent
    <2> QED
      BY <2>1, <2>2 DEF PhaseInv
  <1>5. CASE Kernel
    BY <1>5, PhaseKernel
  <1>6. CASE UNCHANGED vars
    <2>1. UNCHANGED <<state, hw, resp, kernel, pipe, queue, busy, pool, pc>>
      BY <1>6 DEF vars, kernelVars, eventVars, poolVars, ringVars
    <2>2. Whole => Whole'
      BY <2>1 DEF Whole, Used
    <2> QED
      BY <2>1, <2>2, PhaseStill
  <1> QED
    BY <1>1, <1>2, <1>3, <1>4, <1>5, <1>6, Actors

-----------------------------------------------------------------------------
(* What is on the ring.                                                    *)

\* The places of a call that has a block.
BlockPlaces == {"put", "opaque", "undo"}

\* The ring, and what a call has of it, stand still.
LEMMA RingStill ==
    ASSUME NEW a \in Threads, TypeOK, RingInv(a),
           UNCHANGED <<resp, hw, opaque, inFlight, sendSeq, Used>>,
           state' # "restarting" => state # "restarting",
           sync' = 1 => sync = 1,
           Marking' <=> Marking,
           \/ pc'[a] = pc[a] /\ call'[a] = call[a]
           \/ pc[a] \notin BlockPlaces /\ pc'[a] \notin BlockPlaces
    PROVE  RingInv(a)'
  <1>1. UNCHANGED <<Newest, Oldest, Base>>
    BY DEF Newest, Oldest, Base
  <1>2. \A i \in Oldest..Newest : OnRing(i)' = OnRing(i)
    BY DEF OnRing
  <1>3. (Holding(a)' <=> Holding(a)) /\ \A b \in Used : Held(a, b)' <=> Held(a, b)
    BY DEF Holding, Held, BlockPlaces
  <1>4. pc'[a] = "opaque" => pc[a] = "opaque" /\ call'[a] = call[a]
    BY DEF BlockPlaces
  <1>5. pc[a] = "opaque" => pc'[a] = "opaque"
    BY DEF BlockPlaces
  <1>6. Newest \in Nat /\ Oldest \in {1, 2}
    BY RingType DEF Oldest
  <1>7. Oldest <= Newest => Newest \in Oldest..Newest
    BY <1>6
  <1>8. OnRing(Newest)' = OnRing(Newest)
    BY <1>1 DEF OnRing
  <1> QED
    BY <1>1, <1>2, <1>3, <1>4, <1>5, <1>8 DEF RingInv

\* A response is called back, ...
LEMMA RingCallback ==
    ASSUME NEW a \in Threads, TypeOK, Inv(a), NEW t \in Threads, Callback(t),
           resp # <<>>
    PROVE  RingInv(a)'
  <1> DEFINE b == Head(resp)
  <1>1. /\ pc[t] = "poll" /\ ~Marking /\ pool' = <<b>> \o pool
        /\ pc' = [pc EXCEPT ![t] = "mark"]
        /\ UNCHANGED <<resp, hw, opaque, inFlight, sendSeq, state, sync, call>>
    BY DEF Callback, Complete, At, Goto, Marking, ringVars, workVars
  <1>2. /\ state = "running" /\ sync = 1 /\ Oldest = 1 /\ Newest >= 1
        /\ b = OnRing(1) /\ b \in Used /\ ~Held(a, b)
    BY <1>1, CallbackBlock DEF At
  <1>3. Marking' /\ Oldest' = 2
    BY <1>1 DEF Marking, Oldest, TypeOK
  <1>4. Used' = Used \ {b}
    BY <1>1, <1>2, GiveBlock DEF Inv
  <1>5. /\ UNCHANGED <<Newest, Base>> /\ Newest \in Nat
        /\ \A i \in 1..Newest : OnRing(i)' = OnRing(i)
        /\ OnRing(Newest)' = OnRing(Newest)
    BY <1>1, RingType DEF Newest, Base, OnRing
  <1>6. \/ pc'[a] = pc[a]
        \/ pc[a] \notin BlockPlaces /\ pc'[a] \notin BlockPlaces
    BY <1>1 DEF TypeOK, BlockPlaces
  <1>7. /\ Holding(a)' <=> Holding(a)
        /\ \A c \in Used : Held(a, c)' <=> Held(a, c)
        /\ pc'[a] = "opaque" <=> pc[a] = "opaque"
    BY <1>1, <1>6 DEF Holding, Held, BlockPlaces
  <1>8. /\ inFlight = Newest /\ inFlight <= sendSeq
        /\ \A c \in Used : Held(a, c) \/ \E i \in 1..Newest : OnRing(i) = c
        /\ \A i \in 1..Newest : OnRing(i) \in Used /\ ~Held(a, OnRing(i))
        /\ \A i, j \in 1..Newest : OnRing(i) = OnRing(j) => i = j
        /\ \A i \in 1..Newest :
              opaque[OnRing(i)] # Base + i - 1 =>
                  i = Newest /\ pc[a] = "opaque" /\ ~Holding(a)
        /\ pc[a] = "opaque" /\ ~Holding(a) =>
              /\ call[a].seq = sendSeq - 1
              /\ OnRing(Newest) = call[a].block
    BY <1>2 DEF Inv, RingInv
  <1>9. \A i \in 2..Newest : i \in 1..Newest /\ OnRing(i) # b
    BY <1>2, <1>5, <1>8
  <1>10. \A c \in Used \ {b} :
            Held(a, c) \/ \E i \in 2..Newest : OnRing(i) = c
    <2> TAKE c \in Used \ {b}
    <2> SUFFICES ASSUME ~Held(a, c) PROVE \E i \in 2..Newest : OnRing(i) = c
      OBVIOUS
    <2>1. PICK i \in 1..Newest : OnRing(i) = c
      BY <1>8
    <2>2. i \in 2..Newest
      BY <1>2, <1>5, <2>1
    <2> QED
      BY <2>1, <2>2
  <1> HIDE DEF b
  <1>11. /\ \A i \in 2..Newest : OnRing(i)' = OnRing(i)
         /\ \A i \in 2..Newest : OnRing(i) \in Used \ {b} /\ ~Held(a, OnRing(i))
         /\ \A i, j \in 2..Newest : OnRing(i) = OnRing(j) => i = j
         /\ \A i \in 2..Newest :
              opaque[OnRing(i)] # Base + i - 1 =>
                  i = Newest /\ pc[a] = "opaque" /\ ~Holding(a)
    BY <1>5, <1>8, <1>9
  <1>12. /\ \A c \in Used' : Held(a, c)' \/ \E i \in 2..Newest : OnRing(i)' = c
         /\ \A i \in 2..Newest : OnRing(i)' \in Used' /\ ~Held(a, OnRing(i))'
         /\ \A i, j \in 2..Newest : OnRing(i)' = OnRing(j)' => i = j
    BY <1>4, <1>7, <1>10, <1>11 DEF Held
  <1> QED
    BY <1>1, <1>3, <1>5, <1>7, <1>8, <1>11, <1>12 DEF RingInv

\* ... and is taken from the ring.
LEMMA RingMark ==
    ASSUME NEW a \in Threads, TypeOK, Inv(a), NEW t \in Threads, Mark(t)
    PROVE  RingInv(a)' /\ sync = 1 /\ inFlight - 1 \in Nat
  <1>1. /\ pc[t] = "mark" /\ resp' = Tail(resp) /\ inFlight' = inFlight - 1
        /\ pc' = [pc EXCEPT ![t] = "idle"]
        /\ UNCHANGED <<hw, opaque, sendSeq, state, sync, call, pool>>
    BY DEF Mark, At, Goto, poolVars, cookieVars, workVars
  <1>2. Marking /\ Oldest = 2 /\ resp # <<>> /\ state = "running"
    BY <1>1 DEF Inv, PlaceInv, Marking, Oldest
  <1>3. sync = 1
    BY <1>2, RunningSync DEF Inv
  <1>4. ~Marking' /\ Oldest' = 1
    BY <1>1 DEF Inv, PlaceInv, Marking, Oldest, TypeOK
  <1>5. /\ Len(resp) \in Nat \ {0} /\ Len(hw) \in Nat
        /\ Len(resp') = Len(resp) - 1
        /\ \A i \in 1..Len(resp)-1 : resp'[i] = resp[i+1]
    BY <1>1, <1>2, TailOf, RingType DEF TypeOK
  <1>6. /\ Newest \in Nat \ {0} /\ Newest' = Newest - 1
        /\ \A i \in 1..Newest-1 : OnRing(i)' = OnRing(i+1)
    <2>1. Newest \in Nat \ {0} /\ Newest' = Newest - 1
      BY <1>1, <1>5 DEF Newest
    <2>2. ASSUME NEW i \in 1..Newest-1 PROVE OnRing(i)' = OnRing(i+1)
      <3>1. CASE i <= Len(resp) - 1
        <4>1. /\ i + 1 <= Len(resp) /\ i <= Len(resp')
              /\ resp'[i] = resp[i+1]
          BY <1>5, <2>1, <3>1
        <4> QED
          BY <4>1 DEF OnRing
      <3>2. CASE ~(i <= Len(resp) - 1)
        <4>1. /\ ~(i + 1 <= Len(resp)) /\ ~(i <= Len(resp'))
              /\ hw[i + 1 - Len(resp)] = hw'[i - Len(resp')]
          <5>1. i + 1 - Len(resp) = i - Len(resp')
            BY <1>5, <2>1, <3>2
          <5>2. ~(i + 1 <= Len(resp)) /\ ~(i <= Len(resp'))
            BY <1>5, <2>1, <3>2
          <5>3. hw' = hw
            BY <1>1
          <5> QED
            BY <5>1, <5>2, <5>3
        <4> QED
          BY <4>1 DEF OnRing
      <3> QED
        BY <3>1, <3>2
    <2> QED
      BY <2>1, <2>2
  <1>7. \/ pc'[a] = pc[a]
        \/ pc[a] \notin BlockPlaces /\ pc'[a] \notin BlockPlaces
    BY <1>1 DEF TypeOK, BlockPlaces
  <1>8. /\ Holding(a)' <=> Holding(a)
        /\ \A c \in Used : Held(a, c)' <=> Held(a, c)
        /\ pc'[a] = "opaque" <=> pc[a] = "opaque"
        /\ Used' = Used
    BY <1>1, <1>7 DEF Holding, Held, BlockPlaces, Used
  <1>9. /\ inFlight = Newest /\ inFlight <= sendSeq
        /\ \A c \in Used : Held(a, c) \/ \E i \in 2..Newest : OnRing(i) = c
        /\ \A i \in 2..Newest : OnRing(i) \in Used /\ ~Held(a, OnRing(i))
        /\ \A i, j \in 2..Newest : OnRing(i) = OnRing(j) => i = j
        /\ \A i \in 2..Newest :
              opaque[OnRing(i)] # Base + i - 1 =>
                  i = Newest /\ pc[a] = "opaque" /\ ~Holding(a)
        /\ pc[a] = "opaque" /\ ~Holding(a) =>
              /\ call[a].seq = sendSeq - 1
              /\ 2 <= Newest => OnRing(Newest) = call[a].block
    BY <1>2, <1>3 DEF Inv, RingInv
  <1>10. /\ sendSeq \in Nat /\ Base \in Nat /\ Base' = Base + 1
         /\ inFlight' = Newest' /\ inFlight' <= sendSeq'
    BY <1>1, <1>6, <1>9 DEF Base, TypeOK
  <1>11. \A i \in 1..Newest-1 : i + 1 \in 2..Newest /\ OnRing(i)' = OnRing(i+1)
    BY <1>6
  <1>12. \A c \in Used : Held(a, c) \/ \E i \in 1..Newest-1 : OnRing(i)' = c
    <2> TAKE c \in Used
    <2> SUFFICES ASSUME ~Held(a, c) PROVE \E i \in 1..Newest-1 : OnRing(i)' = c
      OBVIOUS
    <2>1. PICK i \in 2..Newest : OnRing(i) = c
      BY <1>9
    <2>2. i - 1 \in 1..Newest-1 /\ (i - 1) + 1 = i
      BY <1>6
    <2>3. OnRing(i - 1)' = OnRing(i)
      BY <1>11, <2>2
    <2> QED
      BY <2>1, <2>2, <2>3
  <1>13. /\ \A i \in 1..Newest-1 : OnRing(i)' \in Used /\ ~Held(a, OnRing(i))'
         /\ \A i, j \in 1..Newest-1 : OnRing(i)' = OnRing(j)' => i = j
    <2>1. \A i \in 1..Newest-1 : OnRing(i)' \in Used /\ ~Held(a, OnRing(i+1))
      BY <1>9, <1>11
    <2>2. \A i \in 1..Newest-1 : ~Held(a, OnRing(i))'
      BY <1>1, <1>8, <1>11, <2>1 DEF Held
    <2>3. \A i, j \in 1..Newest-1 : OnRing(i)' = OnRing(j)' => i + 1 = j + 1
      BY <1>9, <1>11
    <2> QED
      BY <1>6, <2>1, <2>2, <2>3
  <1>14. \A i \in 1..Newest-1 : opaque[OnRing(i)'] # Base' + i - 1 =>
            i = Newest - 1 /\ pc[a] = "opaque" /\ ~Holding(a)
    <2> TAKE i \in 1..Newest-1
    <2>1. Base' + i - 1 = Base + (i + 1) - 1
      BY <1>6, <1>10
    <2>2. i + 1 = Newest => i = Newest - 1
      BY <1>6
    <2> QED
      BY <1>9, <1>11, <2>1, <2>2
  <1>15. 1 <= Newest - 1 => OnRing(Newest)' = OnRing(Newest) /\ 2 <= Newest
    <2> SUFFICES ASSUME 1 <= Newest - 1
                 PROVE  OnRing(Newest)' = OnRing(Newest) /\ 2 <= Newest
      OBVIOUS
    <2>1. PICK k \in 1..Newest-1 : k = Newest - 1
      BY <1>6
    <2>2. OnRing(k)' = OnRing(k + 1) /\ k = Newest' /\ k + 1 = Newest
      BY <1>6, <2>1
    <2>3. OnRing(Newest)' = OnRing(k)'
      BY <2>2 DEF OnRing
    <2> QED
      BY <1>6, <2>2, <2>3
  <1>16. \A c \in Used : Held(a, c)' \/ \E i \in 1..Newest-1 : OnRing(i)' = c
    BY <1>8, <1>12
  <1>17. RingInv(a)'
    <2>1. Oldest' = 1 /\ Newest' = Newest - 1 /\ opaque' = opaque
          /\ sendSeq' = sendSeq /\ call' = call
      BY <1>1, <1>4, <1>6
    <2>2. \A i \in Oldest'..Newest' : OnRing(i)' \in Used' /\ ~Held(a, OnRing(i))'
      BY <1>8, <1>13, <2>1
    <2> QED
      BY <1>8, <1>9, <1>10, <1>13, <1>14, <1>15, <1>16, <2>1, <2>2 DEF RingInv
  <1> QED
    BY <1>3, <1>6, <1>9, <1>17

\* A call takes a block, ...
LEMMA RingPop ==
    ASSUME NEW a \in Threads, TypeOK, Inv(a), Pop(a)
    PROVE  RingInv(a)'
  <1> DEFINE b == Head(pool)
  <1>1. /\ pc[a] = "pop" /\ pc'[a] = "put"
        /\ UNCHANGED <<resp, hw, opaque, inFlight, sendSeq, state, sync>>
        /\ call'[a] = [call[a] EXCEPT !.block = b]
        /\ pc' = [pc EXCEPT ![a] = "put"]
    BY DEF Pop, At, Goto, TypeOK, ringVars
  <1>2. /\ Used' = Used \cup {b} /\ b \in Blocks \ Used
    BY PoolPop
  <1>3. state = "running" /\ sync = 1
    BY <1>1, RunningSync DEF Inv, PlaceInv, CallPlaces
  <1>4. call[a].seq = Invalid
    BY <1>1 DEF Inv, RequestInv
  <1>5. call'[a].block = b /\ call'[a].seq = Invalid
    BY <1>1, <1>4 DEF TypeOK
  <1> HIDE DEF b
  <1>6. /\ Holding(a)' /\ ~Holding(a)
        /\ \A c : Held(a, c)' <=> c = b
        /\ \A c : ~Held(a, c)
    BY <1>1, <1>5 DEF Holding, Held
  <1>7. Marking' <=> Marking
    BY <1>1 DEF Marking, TypeOK
  <1>8. /\ UNCHANGED <<Newest, Oldest, Base>>
        /\ \A i \in Oldest..Newest : OnRing(i)' = OnRing(i)
    BY <1>1, <1>7 DEF Newest, Oldest, Base, OnRing
  <1> QED
    BY <1>1, <1>2, <1>3, <1>6, <1>8 DEF Inv, RingInv

\* ... puts it on the ring, unless the ring is full, ...
LEMMA RingPut ==
    ASSUME NEW a \in Threads, TypeOK, Inv(a), Put(a)
    PROVE  RingInv(a)'
  <1> DEFINE b == call[a].block
  <1>1. /\ pc[a] = "put" /\ pc'[a] = "opaque"
        /\ UNCHANGED <<resp, opaque, state, sync, pool>>
        /\ pc' = [pc EXCEPT ![a] = "opaque"]
    BY DEF Put, At, Goto, TypeOK, poolVars, cookieVars
  <1>2. state = "running" /\ sync = 1
    BY <1>1, RunningSync DEF Inv, PlaceInv, CallPlaces
  <1>3. call[a].seq = Invalid /\ Holding(a) /\ b \in Used
    BY <1>1 DEF Inv, RequestInv, Holding
  <1>4. (Marking' <=> Marking) /\ Oldest' = Oldest /\ Used' = Used
    BY <1>1 DEF Marking, TypeOK, Oldest, Used
  <1>5. \A c : Held(a, c) <=> c = b
    BY <1>3 DEF Held
  <1>6. /\ inFlight = Newest /\ inFlight <= sendSeq
        /\ \A c \in Used : c = b \/ \E i \in Oldest..Newest : OnRing(i) = c
        /\ \A i \in Oldest..Newest : OnRing(i) \in Used /\ OnRing(i) # b
        /\ \A i, j \in Oldest..Newest : OnRing(i) = OnRing(j) => i = j
        /\ \A i \in Oldest..Newest : opaque[OnRing(i)] = Base + i - 1
    BY <1>1, <1>2, <1>5 DEF Inv, RingInv
  <1>7. CASE ~(inFlight < NumMsgs - 1)
    <2>1. UNCHANGED <<inFlight, sendSeq, hw, call>>
      BY <1>7 DEF Put
    <2>2. /\ Holding(a)' /\ \A c : Held(a, c)' <=> c = b
      BY <1>1, <1>3, <2>1 DEF Holding, Held
    <2>3. /\ UNCHANGED <<Newest, Base>>
          /\ \A i \in Oldest..Newest : OnRing(i)' = OnRing(i)
      BY <1>1, <2>1 DEF Newest, Base, OnRing
    <2> QED
      BY <1>1, <1>4, <1>6, <2>1, <2>2, <2>3 DEF RingInv
  <1>8. CASE inFlight < NumMsgs - 1
    <2>1. /\ inFlight' = inFlight + 1 /\ sendSeq' = sendSeq + 1
          /\ hw' = Append(hw, b)
          /\ call'[a] = [call[a] EXCEPT !.seq = sendSeq]
      <3>1. call \in [Threads -> [id : Requests \cup {0},
                                 block : Blocks \cup {0},
                                 seq : Nat \cup {Invalid}]]
        BY DEF TypeOK
      <3>2. call' = [call EXCEPT ![a].seq = sendSeq]
        BY <1>8 DEF Put
      <3>3. call'[a] = [call[a] EXCEPT !.seq = sendSeq]
        BY <3>1, <3>2
      <3> QED
        BY <1>8, <3>3 DEF Put
    <2>2. /\ call'[a].seq = sendSeq /\ call'[a].block = b
          /\ sendSeq \in Nat /\ sendSeq # Invalid /\ b \in Blocks
      <3>1. call[a] \in [id : Requests \cup {0}, block : Blocks \cup {0},
                        seq : Nat \cup {Invalid}]
        BY DEF TypeOK
      <3>2. call'[a].seq = sendSeq /\ call'[a].block = b
        BY <2>1, <3>1
      <3>3. sendSeq \in Nat /\ sendSeq # Invalid
        BY DEF TypeOK, Invalid
      <3> QED
        BY <1>3, <3>2, <3>3, UsedBlocks
    <2> HIDE DEF b
    <2>3. ~Holding(a)' /\ \A c : ~Held(a, c)'
      BY <1>1, <2>2 DEF Holding, Held
    <2>4. /\ Len(resp) \in Nat /\ Len(hw) \in Nat /\ Len(hw') = Len(hw) + 1
          /\ \A i \in 1..Len(hw) : hw'[i] = hw[i]
          /\ hw'[Len(hw) + 1] = b /\ Newest \in Nat
      <3>1. hw \in Seq(Blocks)
        BY DEF TypeOK
      <3>2. /\ Len(Append(hw, b)) = Len(hw) + 1
            /\ \A i \in 1..Len(hw) : Append(hw, b)[i] = hw[i]
            /\ Append(hw, b)[Len(hw) + 1] = b
        BY <2>2, <3>1, AppendTo
      <3>3. Len(resp) \in Nat /\ Len(hw) \in Nat /\ Newest \in Nat
        BY RingType
      <3> QED
        BY <2>1, <3>2, <3>3
    <2>5. Newest' = Newest + 1 /\ Base' = Base /\ inFlight' = Newest'
          /\ inFlight' <= sendSeq' /\ Base + Newest = sendSeq
      <3>1. Newest' = Newest + 1
        BY <1>1, <2>4 DEF Newest
      <3>2. inFlight \in Nat
        BY DEF TypeOK
      <3> QED
        BY <1>6, <2>1, <2>2, <3>1, <3>2 DEF Base
    <2>6. \A i \in 1..Newest : OnRing(i)' = OnRing(i)
      <3> TAKE i \in 1..Newest
      <3>1. CASE i <= Len(resp)
        BY <1>1, <3>1 DEF OnRing
      <3>2. CASE ~(i <= Len(resp))
        <4>1. i - Len(resp) \in 1..Len(hw)
          BY <2>4, <3>2 DEF Newest
        <4> QED
          BY <1>1, <2>4, <3>2, <4>1 DEF OnRing
      <3> QED
        BY <3>1, <3>2
    <2>7. PICK n \in Nat : n = Newest + 1
      BY <2>4
    <2>8. OnRing(n)' = b /\ OnRing(Newest)' = b
      <3>1. ~(n <= Len(resp)) /\ n - Len(resp) = Len(hw) + 1
        BY <2>4, <2>7 DEF Newest
      <3>2. OnRing(n)' = b
        BY <1>1, <2>4, <3>1 DEF OnRing
      <3>3. Newest' = n
        BY <2>5, <2>7
      <3>4. OnRing(Newest)' = OnRing(n)'
        BY <3>3 DEF OnRing
      <3> QED
        BY <3>2, <3>4
    <2>9. /\ Oldest \in {1, 2}
          /\ \A i \in Oldest..n : i = n \/ (i \in Oldest..Newest /\ i \in 1..Newest)
          /\ \A i \in Oldest..Newest : i \in Oldest..n /\ i # n
      BY <2>4, <2>7 DEF Oldest
    <2>10. Oldest <= n
      <3>1. CASE Marking
        <4>1. resp # <<>> /\ Newest >= 1
          BY <3>1, RingType DEF Inv, PlaceInv
        <4> QED
          BY <2>4, <2>7, <2>9, <4>1
      <3>2. CASE ~Marking
        BY <2>4, <2>7, <3>2 DEF Oldest
      <3> QED
        BY <3>1, <3>2
    <2>11. n \in Oldest..n
      BY <2>7, <2>9, <2>10
    <2>12. \A c \in Used : \E i \in Oldest..n : OnRing(i)' = c
      <3> TAKE c \in Used
      <3>1. CASE c = b
        BY <2>8, <2>11, <3>1
      <3>2. CASE c # b
        <4>1. PICK i \in Oldest..Newest : OnRing(i) = c
          BY <1>6, <3>2
        <4>2. i \in Oldest..n /\ OnRing(i)' = c
          BY <2>6, <2>9, <4>1
        <4> QED
          BY <4>2
      <3> QED
        BY <3>1, <3>2
    <2>13. \A i \in Oldest..n : OnRing(i)' \in Used
      BY <1>3, <1>6, <2>6, <2>8, <2>9 DEF b
    <2>14. \A i, j \in Oldest..n : OnRing(i)' = OnRing(j)' => i = j
      <3>1. \A i \in Oldest..n : i # n =>
               OnRing(i)' = OnRing(i) /\ OnRing(i) # b /\ i \in Oldest..Newest
        BY <1>6, <2>6, <2>9
      <3> QED
        BY <1>6, <2>8, <3>1
    <2>15. \A i \in Oldest..n : opaque[OnRing(i)'] # Base + i - 1 => i = n
      BY <1>6, <2>6, <2>9
    <2>16. call'[a].seq = sendSeq' - 1
      BY <2>1, <2>2
    <2>17. Newest' = n /\ Oldest' = Oldest /\ Used' = Used /\ opaque' = opaque
           /\ Base' = Base
      BY <1>1, <1>4, <2>5, <2>7
    <2> QED
      BY <1>1, <2>2, <2>3, <2>5, <2>8, <2>12, <2>13, <2>14, <2>15, <2>16, <2>17
      DEF RingInv
  <1> QED
    BY <1>7, <1>8

\* ... numbers it, or takes it back.
LEMMA RingSetOpaque ==
    ASSUME NEW a \in Threads, TypeOK, Inv(a), SetOpaque(a)
    PROVE  RingInv(a)'
  <1> DEFINE b == call[a].block
             s == call[a].seq
  <1>1. /\ pc[a] = "opaque" /\ opaque' = [opaque EXCEPT ![b] = s]
        /\ pc'[a] = IF s = Invalid THEN "undo" ELSE "idle"
        /\ pc' = [pc EXCEPT ![a] = IF s = Invalid THEN "undo" ELSE "idle"]
        /\ UNCHANGED <<resp, hw, inFlight, sendSeq, state, sync, pool, call>>
    BY DEF SetOpaque, At, Goto, TypeOK, ringVars, poolVars, workVars
  <1>2. state = "running" /\ sync = 1
    BY <1>1, RunningSync DEF Inv, PlaceInv, CallPlaces
  <1>3. (Marking' <=> Marking) /\ Oldest' = Oldest /\ Used' = Used
    BY <1>1 DEF Marking, TypeOK, Oldest, Used
  <1>4. /\ UNCHANGED <<Newest, Base>> /\ Newest \in Nat /\ Oldest \in {1, 2}
        /\ \A i \in Oldest..Newest : OnRing(i)' = OnRing(i)
    BY <1>1, <1>3, RingType DEF Newest, Base, OnRing, Oldest
  <1>5. /\ inFlight = Newest /\ inFlight <= sendSeq
        /\ \A c \in Used : Held(a, c) \/ \E i \in Oldest..Newest : OnRing(i) = c
        /\ \A i \in Oldest..Newest : OnRing(i) \in Used /\ ~Held(a, OnRing(i))
        /\ \A i, j \in Oldest..Newest : OnRing(i) = OnRing(j) => i = j
        /\ \A i \in Oldest..Newest :
              opaque[OnRing(i)] # Base + i - 1 => i = Newest /\ ~Holding(a)
        /\ ~Holding(a) =>
              /\ s = sendSeq - 1
              /\ Oldest <= Newest => OnRing(Newest) = b
    BY <1>1, <1>2 DEF Inv, RingInv
  <1>6. \A c \in Used : c # b => opaque'[c] = opaque[c]
    BY <1>1 DEF TypeOK
  <1>7. pc'[a] # "opaque"
    BY <1>1
  <1>8. CASE s = Invalid
    <2>1. Holding(a) /\ Holding(a)' /\ \A c : Held(a, c)' <=> Held(a, c)
      BY <1>1, <1>8 DEF Holding, Held
    <2>2. \A i \in Oldest..Newest :
             opaque'[OnRing(i)] = opaque[OnRing(i)]
      BY <1>5, <1>6, <2>1 DEF Held
    <2>3. \A i \in Oldest..Newest : opaque'[OnRing(i)'] = Base + i - 1
      BY <1>4, <1>5, <2>1, <2>2
    <2>4. \A c \in Used : Held(a, c)' \/ \E i \in Oldest..Newest : OnRing(i)' = c
      BY <1>4, <1>5, <2>1
    <2>5. /\ \A i \in Oldest..Newest : OnRing(i)' \in Used /\ ~Held(a, OnRing(i))'
          /\ \A i, j \in Oldest..Newest : OnRing(i)' = OnRing(j)' => i = j
      BY <1>1, <1>4, <1>5, <1>7, <2>1 DEF Held
    <2> QED
      BY <1>1, <1>3, <1>4, <1>5, <1>7, <2>1, <2>3, <2>4, <2>5 DEF RingInv, Held
  <1>9. CASE s # Invalid
    <2>1. ~Holding(a) /\ ~Holding(a)' /\ \A c : ~Held(a, c)' /\ ~Held(a, c)
      BY <1>1, <1>9 DEF Holding, Held
    <2>2. ASSUME NEW i \in Oldest..Newest
          PROVE  opaque'[OnRing(i)'] = Base + i - 1
      <3>1. /\ OnRing(i)' = OnRing(i) /\ OnRing(i) \in Blocks
            /\ Newest \in Oldest..Newest /\ OnRing(Newest) = b
        BY <1>4, <1>5, <2>1, UsedBlocks
      <3>2. CASE i = Newest
        <4>1. opaque'[OnRing(i)'] = s
          BY <1>1, <3>1, <3>2 DEF TypeOK
        <4>2. s = sendSeq - 1 /\ Base + i - 1 = sendSeq - 1
          BY <1>4, <1>5, <2>1, <3>2 DEF Base, TypeOK
        <4> QED
          BY <4>1, <4>2
      <3>3. CASE i # Newest
        <4>1. OnRing(i) # b
          BY <1>5, <3>1, <3>3
        <4> QED
          BY <1>5, <1>6, <3>1, <3>3, <4>1
      <3> QED
        BY <3>2, <3>3
    <2>3. /\ \A c \in Used : \E i \in Oldest..Newest : OnRing(i)' = c
          /\ \A i \in Oldest..Newest : OnRing(i)' \in Used
          /\ \A i, j \in Oldest..Newest : OnRing(i)' = OnRing(j)' => i = j
      BY <1>4, <1>5, <2>1
    <2> QED
      BY <1>1, <1>3, <1>4, <1>5, <1>7, <2>1, <2>2, <2>3 DEF RingInv, Held
  <1> QED
    BY <1>8, <1>9

LEMMA RingUndo ==
    ASSUME NEW a \in Threads, TypeOK, Inv(a), Undo(a)
    PROVE  RingInv(a)'
  <1> DEFINE b == call[a].block
  <1>1. /\ pc[a] = "undo" /\ pc'[a] = "idle" /\ pool' = <<b>> \o pool
        /\ pc' = [pc EXCEPT ![a] = "idle"]
        /\ UNCHANGED <<resp, hw, opaque, inFlight, sendSeq, state, sync, call>>
    BY DEF Undo, At, Goto, TypeOK, ringVars, poolVars, workVars
  <1>2. /\ state = "running" /\ sync = 1 /\ Holding(a) /\ b \in Used
    BY <1>1, UndoBlock DEF At
  <1>3. Used' = Used \ {b}
    BY <1>1, <1>2, GiveBlock DEF Inv
  <1>4. (Marking' <=> Marking) /\ Oldest' = Oldest
    BY <1>1 DEF Marking, TypeOK, Oldest
  <1>5. /\ UNCHANGED <<Newest, Base>>
        /\ \A i \in Oldest..Newest : OnRing(i)' = OnRing(i)
    BY <1>1 DEF Newest, Base, OnRing
  <1>6. (\A c : Held(a, c) <=> c = b) /\ \A c : ~Held(a, c)'
    BY <1>1, <1>2 DEF Held, Holding
  <1> QED
    BY <1>1, <1>2, <1>3, <1>4, <1>5, <1>6 DEF RingInv, Inv

\* The device answers a request.
LEMMA RingAnswer ==
    ASSUME NEW a \in Threads, TypeOK, Inv(a), Answer
    PROVE  RingInv(a)'
  <1>1. /\ hw # <<>> /\ hw' = Tail(hw) /\ resp' = Append(resp, Head(hw))
        /\ UNCHANGED <<opaque, inFlight, sendSeq, state, sync, pool, pc, call>>
    BY DEF Answer, poolVars, cookieVars, workVars
  <1>2. /\ Len(hw) \in Nat \ {0} /\ Head(hw) = hw[1] /\ Head(hw) \in Blocks
        /\ Len(hw') = Len(hw) - 1
        /\ \A i \in 1..Len(hw)-1 : hw'[i] = hw[i+1]
        /\ Len(resp) \in Nat /\ Len(resp') = Len(resp) + 1
        /\ \A i \in 1..Len(resp) : resp'[i] = resp[i]
        /\ resp'[Len(resp) + 1] = hw[1]
    BY <1>1, TailOf, AppendTo DEF TypeOK
  <1>3. Newest' = Newest /\ Newest \in Nat
    BY <1>2 DEF Newest
  <1>4. \A i \in 1..Newest : OnRing(i)' = OnRing(i)
    <2> TAKE i \in 1..Newest
    <2>1. CASE i <= Len(resp)
      <3>1. i <= Len(resp') /\ resp'[i] = resp[i]
        BY <1>2, <1>3, <2>1
      <3> QED
        BY <2>1, <3>1 DEF OnRing
    <2>2. CASE i = Len(resp) + 1
      <3>1. /\ ~(i <= Len(resp)) /\ i - Len(resp) = 1
            /\ i <= Len(resp') /\ resp'[i] = hw[1]
        BY <1>2, <1>3, <2>2
      <3> QED
        BY <3>1 DEF OnRing
    <2>3. CASE i > Len(resp) + 1
      <3>1. /\ ~(i <= Len(resp)) /\ ~(i <= Len(resp'))
            /\ i - Len(resp') \in 1..Len(hw)-1
            /\ (i - Len(resp')) + 1 = i - Len(resp)
        BY <1>2, <1>3, <2>3 DEF Newest
      <3>2. hw'[i - Len(resp')] = hw[i - Len(resp)]
        BY <1>2, <3>1
      <3> QED
        BY <3>1, <3>2 DEF OnRing
    <2> QED
      BY <1>2, <2>1, <2>2, <2>3
  <1>5. /\ UNCHANGED <<Oldest, Base, Used>> /\ Oldest \in {1, 2}
        /\ (Holding(a)' <=> Holding(a))
        /\ \A c : Held(a, c)' <=> Held(a, c)
    BY <1>1 DEF Oldest, Base, Used, Holding, Held, Marking
  <1>6. \A i \in Oldest..Newest : OnRing(i)' = OnRing(i)
    BY <1>3, <1>4, <1>5
  <1>7. Oldest <= Newest => OnRing(Newest)' = OnRing(Newest)
    <2> SUFFICES ASSUME Oldest <= Newest
                 PROVE  OnRing(Newest)' = OnRing(Newest)
      OBVIOUS
    <2>1. PICK k \in 1..Newest : k = Newest
      BY <1>3, <1>5
    <2>2. OnRing(k)' = OnRing(k) /\ k = Newest'
      BY <1>3, <1>4, <2>1
    <2>3. OnRing(Newest)' = OnRing(k)'
      BY <2>2 DEF OnRing
    <2> QED
      BY <2>1, <2>2, <2>3
  <1>8. \A i \in Oldest..Newest :
           /\ ~Held(a, OnRing(i))' <=> ~Held(a, OnRing(i))
           /\ opaque'[OnRing(i)'] = opaque[OnRing(i)]
    BY <1>1, <1>5, <1>6 DEF Held
  <1> SUFFICES ASSUME state # "restarting", sync = 1
               PROVE  RingInv(a)'
    BY <1>1 DEF RingInv
  <1>9. RingInv(a)
    BY DEF Inv
  <1>10. /\ \A c \in Used : Held(a, c)' \/ \E i \in Oldest..Newest : OnRing(i)' = c
         /\ \A i \in Oldest..Newest : OnRing(i)' \in Used /\ ~Held(a, OnRing(i))'
    BY <1>5, <1>6, <1>8, <1>9 DEF RingInv
  <1>11. \A i, j \in Oldest..Newest : OnRing(i)' = OnRing(j)' => i = j
    BY <1>6, <1>9 DEF RingInv
  <1>12. \A i \in Oldest..Newest :
            opaque'[OnRing(i)'] # Base + i - 1 =>
               i = Newest /\ pc[a] = "opaque" /\ ~Holding(a)
    BY <1>8, <1>9 DEF RingInv
  <1>13. /\ inFlight' = Newest /\ inFlight' <= sendSeq'
         /\ pc'[a] = "opaque" /\ ~Holding(a)' =>
               /\ call'[a].seq = sendSeq' - 1
               /\ Oldest <= Newest => OnRing(Newest)' = call'[a].block
    BY <1>1, <1>5, <1>7, <1>9 DEF RingInv
  <1> QED
    BY <1>1, <1>3, <1>5, <1>10, <1>11, <1>12, <1>13 DEF RingInv

\* After a restart the ring is empty.
LEMMA RingEmpty ==
    ASSUME NEW a \in Threads, Used' = {}, resp' = <<>>, hw' = <<>>,
           inFlight' = 0, sendSeq' \in Nat, pc'[a] # "opaque"
    PROVE  RingInv(a)'
  <1>1. Newest' = 0 /\ Oldest' \in {1, 2}
    BY EmptySeq DEF Newest, Oldest
  <1>2. \A i \in Oldest'..Newest' : FALSE
    BY <1>1
  <1>3. inFlight' = Newest' /\ inFlight' <= sendSeq'
    BY <1>1
  <1> QED
    BY <1>2, <1>3 DEF RingInv

LEMMA RingStep ==
    ASSUME NEW a \in Threads, Watched(setup, a), TypeOK, Inv(a), [Next]_vars
    PROVE  RingInv(a)'
  <1> USE DEF Goto, At, poolVars, cookieVars, ringVars, workVars
  <1> /\ RingInv(a) /\ PoolInv /\ PlaceInv(a) /\ PhaseInv(a)
      /\ pc \in [Threads -> Statuses]
    BY DEF Inv, TypeOK
  <1>1. CASE Call(a)
    <2>1. CASE Submit(a) \/ TestActive(a)
      <3>1. /\ UNCHANGED <<resp, hw, opaque, inFlight, sendSeq, pool, state, sync>>
            /\ pc[a] \in {"idle", "alloc"}
            /\ \E l \in {"alloc", "pop", "idle"} : pc' = [pc EXCEPT ![a] = l]
        BY <2>1 DEF Submit, TestActive
      <3>2. UNCHANGED Used /\ (Marking' <=> Marking)
        BY <3>1 DEF Used, Marking
      <3>3. pc[a] \notin BlockPlaces /\ pc'[a] \notin BlockPlaces
        BY <3>1 DEF BlockPlaces
      <3> QED
        BY <3>1, <3>2, <3>3, RingStill
    <2>2. CASE Pop(a)
      BY <2>2, RingPop
    <2>3. CASE Put(a)
      BY <2>3, RingPut
    <2>4. CASE SetOpaque(a)
      BY <2>4, RingSetOpaque
    <2>5. CASE Undo(a)
      BY <2>5, RingUndo
    <2> QED
      BY <1>1, <2>1, <2>2, <2>3, <2>4, <2>5 DEF Call
  <1>2. ASSUME NEW t \in Threads, t \in setup.pollers, Poll(t)
        PROVE  RingInv(a)'
    <2>1. CASE PollEnter(t) \/ (Callback(t) /\ resp = <<>>)
               \/ (Dummy(t) /\ todo[t] = <<>>)
      <3>1. /\ UNCHANGED <<resp, hw, opaque, inFlight, sendSeq, pool, state,
                           sync, call>>
            /\ pc[t] \in {"idle", "poll", "dummy"}
            /\ \E l \in {"poll", "idle"} : pc' = [pc EXCEPT ![t] = l]
        BY <2>1 DEF PollEnter, Callback, Dummy
      <3>2. UNCHANGED Used /\ (Marking' <=> Marking)
        BY <3>1 DEF Used, Marking
      <3>3. \/ pc'[a] = pc[a] /\ call'[a] = call[a]
            \/ pc[a] \notin BlockPlaces /\ pc'[a] \notin BlockPlaces
        BY <3>1 DEF BlockPlaces
      <3> QED
        BY <3>1, <3>2, <3>3, RingStill
    <2>2. CASE Callback(t) /\ resp # <<>>
      BY <2>2, RingCallback
    <2>3. CASE Mark(t)
      BY <2>3, RingMark
    <2>4. CASE GenResp(t)
      BY <2>4 DEF GenResp, RingInv
    <2>5. CASE Dummy(t) /\ todo[t] # <<>>
      <3>1. sync = 0 /\ sync' = sync
        BY <2>5, PoolDummy DEF Dummy
      <3> QED
        BY <3>1 DEF RingInv
    <2> QED
      BY <1>2, <2>1, <2>2, <2>3, <2>4, <2>5 DEF Poll
  <1>3. CASE Events(a)
    <2>1. CASE Restarting(a)
      BY <2>1, PhaseRestarting, OrderStep DEF RingInv
    <2>2. CASE Restarted(a)
      <3>1. /\ resp' = <<>> /\ hw' = hw /\ inFlight' = 0 /\ sendSeq' = 0
            /\ pool' = pool /\ pc'[a] = "cookies"
        BY <2>2 DEF Restarted
      <3>2. Whole /\ hw = <<>>
        BY <2>2, PhaseRestarted
      <3>3. Used' = {}
        BY <3>1, <3>2 DEF Whole, Used
      <3> QED
        BY <3>1, <3>2, <3>3, RingEmpty
    <2>3. CASE InitDcCookies(a)
      <3>1. /\ UNCHANGED <<resp, hw, inFlight, sendSeq, pool, state, sync>>
            /\ pc[a] = "cookies" /\ pc'[a] \in {"pipe", "queue"}
        BY <2>3 DEF InitDcCookies, Handled
      <3>2. /\ state = "running" /\ Used = {} /\ resp = <<>> /\ hw = <<>>
        BY <3>1 DEF PhaseInv, Whole
      <3>3. sync = 1 /\ sendSeq \in Nat
        BY <3>2, RunningSync DEF TypeOK
      <3>4. inFlight = 0
        BY <3>2, <3>3, EmptySeq DEF RingInv, Newest
      <3>5. Used' = {}
        BY <3>1, <3>2 DEF Used
      <3> QED
        BY <3>1, <3>2, <3>3, <3>4, <3>5, RingEmpty
    <2>4. CASE ~(Restarting(a) \/ Restarted(a) \/ InitDcCookies(a))
      <3>1. /\ UNCHANGED <<resp, hw, opaque, inFlight, sendSeq, pool, sync, call>>
            /\ state' # "restarting" => state # "restarting"
        BY <1>3, <2>4
        DEF Events, Handle, PollEvents, NextQueued, NextEvent, ErrorDisable,
            ErrorCheck, ErrorSet, ErrorSettle, PhaseInv
      <3>2. /\ pc[a] \in {"idle", "queue", "pipe"} \cup ErrorPlaces
            /\ \E l \in {"idle", "queue", "pipe"} \cup HandlerPlaces :
                  pc' = [pc EXCEPT ![a] = l]
        <4>1. Head(queue) \in EventKinds \/ queue = <<>>
          BY TailOf DEF TypeOK
        <4>2. Head(pipe) \in EventKinds \/ pipe = <<>>
          BY TailOf DEF TypeOK
        <4>3. CASE NextQueued(a)
          BY <4>1, <4>3 DEF NextQueued, EventKinds, HandlerPlaces, ErrorPlaces
        <4>4. CASE NextEvent(a)
          BY <4>2, <4>4 DEF NextEvent, EventKinds, HandlerPlaces, ErrorPlaces
        <4>5. CASE ErrorSettle(a)
          BY <4>5 DEF ErrorSettle, Handled, ErrorPlaces
        <4>6. CASE PollEvents(a) \/ ErrorDisable(a) \/ ErrorCheck(a)
                   \/ ErrorSet(a)
          BY <4>6 DEF PollEvents, ErrorDisable, ErrorCheck, ErrorSet,
                      HandlerPlaces, ErrorPlaces
        <4> QED
          BY <1>3, <2>4, <4>3, <4>4, <4>5, <4>6 DEF Events, Handle
      <3>3. /\ pc[a] \notin BlockPlaces \cup {"mark"}
            /\ pc'[a] \notin BlockPlaces \cup {"mark"}
            /\ \A t \in Threads \ {a} : pc'[t] = pc[t]
        BY <3>2 DEF BlockPlaces, HandlerPlaces, ErrorPlaces
      <3>4. UNCHANGED Used /\ (Marking' <=> Marking)
        BY <3>1, <3>3 DEF Used, Marking
      <3> QED
        BY <3>1, <3>3, <3>4, RingStill
    <2> QED
      BY <2>1, <2>2, <2>3, <2>4
  <1>4. CASE Answer
    BY <1>4, RingAnswer
  <1>5. CASE Kernel
    <2>1. CASE Reset
      BY <2>1 DEF Reset, RingInv
    <2>2. CASE Fail \/ NotifyRestarting
      <3>1. UNCHANGED <<resp, hw, opaque, inFlight, sendSeq, pool, state, sync,
                        pc, call>>
        BY <2>2 DEF Fail, NotifyRestarting
      <3>2. UNCHANGED Used /\ (Marking' <=> Marking)
        BY <3>1 DEF Used, Marking
      <3> QED
        BY <3>1, <3>2, RingStill
    <2> QED
      BY <1>5, <2>1, <2>2 DEF Kernel
  <1>6. CASE UNCHANGED vars
    <2>1. UNCHANGED <<resp, hw, opaque, inFlight, sendSeq, pool, state, sync,
                      pc, call>>
      BY <1>6 DEF vars
    <2>2. UNCHANGED Used /\ (Marking' <=> Marking)
      BY <2>1 DEF Used, Marking
    <2> QED
      BY <2>1, <2>2, RingStill
  <1> QED
    BY <1>1, <1>2, <1>3, <1>4, <1>5, <1>6, Actors

-----------------------------------------------------------------------------
(* Requests and their answers.                                             *)

\* Blocks, requests and the call stand still.
LEMMA RequestStill ==
    ASSUME NEW a \in Threads, TypeOK, RequestInv(a),
           UNCHANGED <<Used, request, answers, accepted, calls>>,
           \/ pc'[a] = pc[a] /\ call'[a] = call[a]
           \/ pc[a] \notin CallPlaces /\ pc'[a] \notin CallPlaces
    PROVE  RequestInv(a)'
  <1>1. (Holding(a)' <=> Holding(a)) /\ \A b \in Used : Held(a, b)' <=> Held(a, b)
    BY DEF Holding, Held, CallPlaces
  <1>2. pc'[a] \in CallPlaces => pc'[a] = pc[a] /\ call'[a] = call[a]
    OBVIOUS
  <1>3. UNCHANGED Callbacks
    BY DEF Callbacks
  <1>4. Holding(a) => call'[a] = call[a]
    BY DEF Holding, CallPlaces
  <1> QED
    BY <1>1, <1>2, <1>3, <1>4 DEF RequestInv, CallPlaces

\* The callback of a request is its only one, and is counted.
LEMMA OneCallback ==
    ASSUME TypeOK, IsFiniteSet(Callbacks), NEW r \in Requests,
           answers' = [answers EXCEPT ![r] = @ + 1]
    PROVE  IsFiniteSet(Callbacks') /\ Given \in Nat /\ Given' = Given + 1
  <1> DEFINE n == answers[r] + 1
  <1>1. /\ answers'[r] = n
        /\ \A q \in Requests \ {r} : answers'[q] = answers[q]
        /\ \A q \in Requests : answers[q] \in Nat
    BY DEF TypeOK
  <1>2. Callbacks' = Callbacks \cup {<<r, n>>}
    <2>1. ASSUME NEW c \in Callbacks' PROVE c \in Callbacks \cup {<<r, n>>}
      <3>1. PICK q \in Requests : c \in {q} \X (1..answers'[q])
        BY <2>1 DEF Callbacks
      <3>2. PICK i \in 1..answers'[q] : c = <<q, i>>
        BY <3>1
      <3>3. i \in 1..answers[q] \/ (q = r /\ i = n)
        BY <1>1, <3>2
      <3> QED
        BY <3>2, <3>3 DEF Callbacks
    <2>2. ASSUME NEW c \in Callbacks PROVE c \in Callbacks'
      <3>1. PICK q \in Requests : c \in {q} \X (1..answers[q])
        BY <2>2 DEF Callbacks
      <3>2. PICK i \in 1..answers[q] : c = <<q, i>>
        BY <3>1
      <3>3. i \in 1..answers'[q]
        BY <1>1, <3>2
      <3> QED
        BY <3>2, <3>3 DEF Callbacks
    <2>3. <<r, n>> \in Callbacks'
      <3>1. n \in 1..answers'[r]
        BY <1>1
      <3>2. <<r, n>> \in {r} \X (1..answers'[r])
        BY <3>1
      <3> QED
        BY <3>2 DEF Callbacks
    <2> QED
      BY <2>1, <2>2, <2>3
  <1>3. <<r, n>> \notin Callbacks
    <2> SUFFICES ASSUME <<r, n>> \in Callbacks PROVE FALSE
      OBVIOUS
    <2>1. PICK q \in Requests : <<r, n>> \in {q} \X (1..answers[q])
      BY DEF Callbacks
    <2>2. q = r /\ n \in 1..answers[q]
      BY <2>1
    <2> QED
      BY <1>1, <2>2
  <1> HIDE DEF n
  <1> QED
    BY <1>2, <1>3, FS_AddElement, FS_CardinalityType DEF Given

\* An answer: the block comes back, its request is answered.
LEMMA RequestAnswered ==
    ASSUME NEW a \in Threads, TypeOK, RequestInv(a),
           NEW b \in Used, ~Held(a, b), Complete(b), Used' = Used \ {b},
           UNCHANGED <<request, accepted, calls, call>>,
           \/ pc'[a] = pc[a]
           \/ pc[a] \notin CallPlaces /\ pc'[a] \notin CallPlaces
    PROVE  RequestInv(a)'
  <1> DEFINE r == request[b]
  <1>1. /\ answers' = [answers EXCEPT ![r] = @ + 1]
        /\ r \in 1..calls /\ 1..calls \subseteq Requests /\ r \in accepted
        /\ answers[r] = 0
    <2>1. 1..calls \subseteq Requests
      BY BoundsAssumption DEF TypeOK, Requests
    <2> QED
      BY <2>1 DEF Complete, RequestInv
  <1>2. answers'[r] = 1 /\ \A q \in Requests \ {r} : answers'[q] = answers[q]
    BY <1>1 DEF TypeOK
  <1>3. IsFiniteSet(Callbacks')
    BY <1>1, OneCallback DEF RequestInv
  <1>4. \A c \in Used' : c \in Used /\ request[c] \in Requests /\ request[c] # r
    BY <1>1 DEF RequestInv
  <1> HIDE DEF r
  <1>5. (Holding(a)' <=> Holding(a)) /\ \A c \in Used : Held(a, c)' <=> Held(a, c)
    BY DEF Holding, Held, CallPlaces
  <1>6. Holding(a) => call[a].block # b
    BY DEF Held
  <1>7. pc'[a] \in CallPlaces => pc'[a] = pc[a]
    OBVIOUS
  <1>8. \A q \in accepted : answers'[q] = 0 => \E c \in Used' : request[c] = q
    <2> SUFFICES ASSUME NEW q \in accepted, answers'[q] = 0
                 PROVE  \E c \in Used' : request[c] = q
      OBVIOUS
    <2>1. q # r /\ q \in Requests
      BY <1>2 DEF TypeOK
    <2>2. PICK c \in Used : request[c] = q
      BY <1>2, <2>1 DEF RequestInv
    <2>3. c # b
      BY <2>1, <2>2 DEF r
    <2> QED
      BY <2>2, <2>3
  <1>9. \A c \in Used' : answers'[request'[c]] = 0
    BY <1>2, <1>4 DEF RequestInv
  <1>10. \A q \in Requests : answers'[q] > 0 => q \in accepted'
    BY <1>1, <1>2 DEF RequestInv
  <1>11. \A c, d \in Used' : request'[c] = request'[d] => c = d
    BY <1>4 DEF RequestInv
  <1>12. \A c \in Used' : request'[c] \in accepted' <=> ~Held(a, c)'
    BY <1>4, <1>5 DEF RequestInv
  <1>13. \A c \in Used' : request'[c] \in 1..calls'
    BY <1>4 DEF RequestInv
  <1>14. pc'[a] \in {"alloc", "pop"} =>
            /\ call'[a].id = calls' /\ calls' \in Requests /\ calls' \notin accepted'
            /\ \A c \in Used' : request'[c] # calls'
    BY <1>4, <1>7 DEF RequestInv, CallPlaces
  <1>15. pc'[a] \in {"alloc", "pop", "put", "undo"} => call'[a].seq = Invalid
    BY <1>7 DEF RequestInv, CallPlaces
  <1>16. Holding(a)' => call'[a].block \in Used'
                        /\ request'[call'[a].block] = call'[a].id
    BY <1>5, <1>6 DEF RequestInv
  <1>17. accepted' \subseteq 1..calls'
    BY DEF RequestInv
  <1> QED
    BY <1>3, <1>8, <1>9, <1>10, <1>11, <1>12, <1>13, <1>14, <1>15, <1>16, <1>17
    DEF RequestInv

\* The call takes a block for its request, ...
LEMMA RequestPop ==
    ASSUME NEW a \in Threads, TypeOK, Inv(a), Pop(a)
    PROVE  RequestInv(a)'
  <1> DEFINE b == Head(pool)
  <1> RequestInv(a)
    BY DEF Inv
  <1>1. /\ pc[a] = "pop" /\ pc'[a] = "put"
        /\ call'[a] = [call[a] EXCEPT !.block = b]
        /\ request' = [request EXCEPT ![b] = call[a].id]
        /\ UNCHANGED <<answers, accepted, calls>>
    BY DEF Pop, At, Goto, TypeOK, histVars
  <1>2. Used' = Used \cup {b} /\ b \in Blocks \ Used
    BY PoolPop
  <1>3. /\ call[a].id = calls /\ calls \in Requests /\ calls \notin accepted
        /\ \A c \in Used : request[c] # calls
        /\ call[a].seq = Invalid /\ ~Holding(a)
    BY <1>1 DEF RequestInv, Holding
  <1>4. call'[a].block = b /\ call'[a].seq = Invalid /\ call'[a].id = calls
    BY <1>1, <1>3 DEF TypeOK
  <1>5. request'[b] = calls /\ \A c \in Used : c # b /\ request'[c] = request[c]
    BY <1>1, <1>2, <1>3, UsedBlocks DEF TypeOK
  <1> HIDE DEF b
  <1>6. Holding(a)' /\ (\A c : Held(a, c)' <=> c = b) /\ \A c : ~Held(a, c)
    BY <1>1, <1>3, <1>4 DEF Holding, Held
  <1>7. answers[calls] = 0
    BY <1>3 DEF TypeOK, RequestInv
  <1>8. calls \in 1..calls
    BY <1>3 DEF Requests
  <1>9. UNCHANGED Callbacks
    BY <1>1 DEF Callbacks
  <1>10. \A c \in Used' : request'[c] \in 1..calls /\ answers[request'[c]] = 0
    BY <1>2, <1>5, <1>7, <1>8 DEF RequestInv
  <1>11. \A c, d \in Used' : request'[c] = request'[d] => c = d
    BY <1>2, <1>3, <1>5 DEF RequestInv
  <1>12. \A c \in Used' : request'[c] \in accepted <=> ~Held(a, c)'
    BY <1>2, <1>3, <1>5, <1>6 DEF RequestInv
  <1>13. \A r \in accepted : answers[r] = 0 => \E c \in Used' : request'[c] = r
    BY <1>2, <1>5 DEF RequestInv
  <1> QED
    BY <1>1, <1>2, <1>4, <1>5, <1>6, <1>9, <1>10, <1>11, <1>12, <1>13
    DEF RequestInv

\* ... the ring takes the request, or refuses it, ...
LEMMA RequestPut ==
    ASSUME NEW a \in Threads, TypeOK, Inv(a), Put(a)
    PROVE  /\ RequestInv(a)' /\ Holding(a)
           /\ call[a].block \in Used /\ request[call[a].block] = call[a].id
           /\ call[a].id \in 1..calls /\ call[a].id \in Requests \ accepted
           /\ answers[call[a].id] = 0
  <1> DEFINE b == call[a].block
             r == call[a].id
  <1> RequestInv(a)
    BY DEF Inv
  <1>1. /\ pc[a] = "put" /\ pc'[a] = "opaque"
        /\ UNCHANGED <<request, pool, answers, calls>>
    BY DEF Put, At, Goto, TypeOK, poolVars, cookieVars
  <1>2. UNCHANGED <<Used, Callbacks>>
    BY <1>1 DEF Used, Callbacks
  <1>3. call[a].seq = Invalid /\ Holding(a) /\ b \in Used /\ request[b] = r
    BY <1>1 DEF RequestInv, Holding
  <1>4. /\ r \in 1..calls /\ r \in Requests /\ answers[r] = 0
    BY <1>3 DEF RequestInv, TypeOK, Requests
  <1>5. \A c : Held(a, c) <=> c = b
    BY <1>3 DEF Held
  <1>6. r \notin accepted /\ \A c \in Used : c # b => request[c] # r
    BY <1>3, <1>5 DEF RequestInv
  <1>7. CASE inFlight < NumMsgs - 1
    <2>1. /\ call'[a] = [call[a] EXCEPT !.seq = sendSeq]
          /\ accepted' = accepted \cup {r}
      BY <1>7 DEF Put, TypeOK
    <2>2. call'[a].seq = sendSeq /\ sendSeq # Invalid
      BY <2>1 DEF TypeOK, Invalid
    <2>3. ~Holding(a)' /\ \A c : ~Held(a, c)'
      BY <1>1, <2>2 DEF Holding, Held
    <2> HIDE DEF b, r
    <2>4. \A c \in Used : request[c] \in accepted'
      BY <1>3, <1>5, <2>1 DEF RequestInv
    <2>5. \A q \in accepted' : answers[q] = 0 => \E c \in Used : request[c] = q
      BY <1>3, <2>1 DEF RequestInv
    <2>6. accepted' \subseteq 1..calls
      BY <1>4, <2>1 DEF RequestInv
    <2>7. \A q \in Requests : answers[q] > 0 => q \in accepted'
      BY <2>1 DEF RequestInv
    <2>8. RequestInv(a)'
      BY <1>1, <1>2, <2>3, <2>4, <2>5, <2>6, <2>7 DEF RequestInv
    <2> QED
      BY <1>3, <1>4, <1>6, <2>8 DEF b, r
  <1>8. CASE ~(inFlight < NumMsgs - 1)
    <2>1. UNCHANGED <<call, accepted>>
      BY <1>8 DEF Put
    <2>2. Holding(a)' /\ \A c : Held(a, c)' <=> Held(a, c)
      BY <1>1, <1>3, <2>1 DEF Holding, Held
    <2>3. RequestInv(a)'
      BY <1>1, <1>2, <1>3, <2>1, <2>2 DEF RequestInv
    <2> QED
      BY <1>3, <1>4, <1>6, <2>3
  <1> QED
    BY <1>7, <1>8

\* ... and a refused request lets the block go.
LEMMA RequestUndo ==
    ASSUME NEW a \in Threads, TypeOK, Inv(a), Undo(a)
    PROVE  RequestInv(a)'
  <1> DEFINE b == call[a].block
  <1> RequestInv(a)
    BY DEF Inv
  <1>1. /\ pc[a] = "undo" /\ pc'[a] = "idle" /\ pool' = <<b>> \o pool
        /\ UNCHANGED <<request, answers, accepted, calls, call>>
    BY DEF Undo, At, Goto, TypeOK, workVars, histVars
  <1>2. Holding(a) /\ b \in Used
    BY <1>1, UndoBlock DEF At
  <1>3. Used' = Used \ {b}
    BY <1>1, <1>2, GiveBlock DEF Inv
  <1>4. (\A c : Held(a, c) <=> c = b) /\ \A c : ~Held(a, c)'
    BY <1>1, <1>2 DEF Held, Holding
  <1>5. ~Holding(a)' /\ UNCHANGED Callbacks
    BY <1>1 DEF Holding, Callbacks
  <1> HIDE DEF b
  <1>6. request[b] \notin accepted
    BY <1>2, <1>4 DEF RequestInv
  <1> QED
    BY <1>1, <1>2, <1>3, <1>4, <1>5, <1>6 DEF RequestInv

LEMMA RequestStep ==
    ASSUME NEW a \in Threads, Watched(setup, a), TypeOK, Inv(a), [Next]_vars
    PROVE  RequestInv(a)'
  <1> USE DEF Goto, At, poolVars, cookieVars, histVars, workVars
  <1> /\ RequestInv(a) /\ PoolInv /\ PlaceInv(a)
      /\ pc \in [Threads -> Statuses]
    BY DEF Inv, TypeOK
  <1>1. CASE Call(a)
    <2>1. CASE Submit(a)
      <3>1. /\ calls' = calls + 1 /\ calls' \in Requests /\ calls \in Nat
            /\ pc[a] = "idle" /\ pc'[a] = "alloc"
            /\ call'[a] = [NoCall EXCEPT !.id = calls']
            /\ UNCHANGED <<pool, request, accepted, answers>>
        BY <2>1, BoundsAssumption DEF Submit, TypeOK, Requests
      <3>2. call'[a].id = calls' /\ call'[a].seq = Invalid
        BY <3>1 DEF NoCall
      <3>3. UNCHANGED <<Used, Callbacks>> /\ ~Holding(a) /\ ~Holding(a)'
            /\ (\A b : ~Held(a, b)) /\ \A b : ~Held(a, b)'
        BY <3>1 DEF Used, Callbacks, Holding, Held
      <3>4. calls' \notin 1..calls /\ 1..calls \subseteq 1..calls'
        BY <3>1
      <3> QED
        BY <3>1, <3>2, <3>3, <3>4 DEF RequestInv
    <2>2. CASE TestActive(a)
      <3>1. /\ pc[a] = "alloc" /\ pc'[a] \in {"pop", "idle"}
            /\ UNCHANGED <<call, pool, request, answers, accepted, calls>>
        BY <2>2 DEF TestActive
      <3>2. UNCHANGED <<Used, Callbacks>> /\ ~Holding(a) /\ ~Holding(a)'
            /\ (\A b : ~Held(a, b)) /\ \A b : ~Held(a, b)'
        BY <3>1 DEF Used, Callbacks, Holding, Held
      <3> QED
        BY <3>1, <3>2 DEF RequestInv
    <2>3. CASE Pop(a)
      BY <2>3, RequestPop
    <2>4. CASE Put(a)
      BY <2>4, RequestPut
    <2>5. CASE SetOpaque(a)
      <3>1. /\ pc[a] = "opaque"
            /\ pc'[a] = IF call[a].seq = Invalid THEN "undo" ELSE "idle"
            /\ UNCHANGED <<call, pool, request, answers, accepted, calls>>
        BY <2>5 DEF SetOpaque
      <3>2. UNCHANGED <<Used, Callbacks>> /\ (Holding(a)' <=> Holding(a))
            /\ \A b : Held(a, b)' <=> Held(a, b)
        BY <3>1 DEF Used, Callbacks, Holding, Held
      <3> QED
        BY <3>1, <3>2 DEF RequestInv
    <2>6. CASE Undo(a)
      BY <2>6, RequestUndo
    <2> QED
      BY <1>1, <2>1, <2>2, <2>3, <2>4, <2>5, <2>6 DEF Call
  <1>2. ASSUME NEW t \in Threads, t \in setup.pollers, Poll(t)
        PROVE  RequestInv(a)'
    <2>0. /\ UNCHANGED <<request, accepted, calls, call>>
          /\ \/ pc'[a] = pc[a]
             \/ pc[a] \notin CallPlaces /\ pc'[a] \notin CallPlaces
      BY <1>2 DEF Poll, PollEnter, Callback, Mark, GenResp, Dummy, CallPlaces
    <2>1. CASE PollEnter(t) \/ Mark(t) \/ (Callback(t) /\ resp = <<>>)
               \/ (Dummy(t) /\ todo[t] = <<>>)
      <3>1. UNCHANGED <<pool, answers>>
        BY <2>1 DEF PollEnter, Mark, Callback, Dummy
      <3>2. UNCHANGED Used
        BY <3>1 DEF Used
      <3> QED
        BY <2>0, <3>1, <3>2, RequestStill
    <2>2. CASE GenResp(t)
      <3>1. UNCHANGED <<Used, answers>>
        BY <2>2, PoolGen DEF GenResp
      <3> QED
        BY <2>0, <3>1, RequestStill
    <2>3. CASE Callback(t) /\ resp # <<>>
      <3> DEFINE b == Head(resp)
      <3>1. Complete(b) /\ pool' = <<b>> \o pool
        BY <2>3 DEF Callback, Complete
      <3>2. b \in Used /\ ~Held(a, b)
        BY <2>3, CallbackBlock DEF Callback, Marking
      <3>3. Used' = Used \ {b}
        BY <3>1, <3>2, GiveBlock
      <3> HIDE DEF b
      <3> QED
        BY <2>0, <3>1, <3>2, <3>3, RequestAnswered
    <2>4. CASE Dummy(t) /\ todo[t] # <<>>
      <3> DEFINE b == Head(todo[t])
      <3>1. Complete(b)
        BY <2>4 DEF Dummy
      <3>2. b \in Used /\ Used' = Used \ {b} /\ sync = 0
        BY <2>4, PoolDummy
      <3>3. ~Holding(a)
        BY <3>2 DEF PoolInv, PlaceInv, CallPlaces, Holding
      <3>4. ~Held(a, b)
        BY <3>3 DEF Held
      <3> HIDE DEF b
      <3> QED
        BY <2>0, <3>1, <3>2, <3>4, RequestAnswered
    <2> QED
      BY <1>2, <2>1, <2>2, <2>3, <2>4 DEF Poll
  <1>3. CASE Events(a)
    <2>1. /\ UNCHANGED <<pool, request, answers, accepted, calls, call>>
          /\ pc[a] \notin CallPlaces
      BY <1>3
      DEF Events, Handle, PollEvents, NextQueued, NextEvent, ErrorDisable,
          ErrorCheck, ErrorSet, ErrorSettle, Restarting, Restarted,
          InitDcCookies, CallPlaces
    <2>2. pc'[a] \notin CallPlaces
      <3>1. Head(queue) \in EventKinds \/ queue = <<>>
        BY TailOf DEF TypeOK
      <3>2. Head(pipe) \in EventKinds \/ pipe = <<>>
        BY TailOf DEF TypeOK
      <3>3. CASE NextQueued(a)
        BY <3>1, <3>3 DEF NextQueued, EventKinds, CallPlaces
      <3>4. CASE NextEvent(a)
        BY <3>2, <3>4 DEF NextEvent, EventKinds, CallPlaces
      <3>5. CASE ErrorSettle(a) \/ Restarting(a) \/ InitDcCookies(a)
        BY <3>5 DEF ErrorSettle, Restarting, InitDcCookies, Handled, CallPlaces
      <3>6. CASE PollEvents(a) \/ ErrorDisable(a) \/ ErrorCheck(a)
                 \/ ErrorSet(a) \/ Restarted(a)
        BY <3>6 DEF PollEvents, ErrorDisable, ErrorCheck, ErrorSet, Restarted,
                    CallPlaces
      <3> QED
        BY <1>3, <3>3, <3>4, <3>5, <3>6 DEF Events, Handle
    <2>3. UNCHANGED Used
      BY <2>1 DEF Used
    <2> QED
      BY <2>1, <2>2, <2>3, RequestStill
  <1>4. CASE Answer \/ Kernel
    <2>1. UNCHANGED <<pool, request, answers, accepted, calls, call, pc>>
      BY <1>4 DEF Answer, Kernel, Fail, NotifyRestarting, Reset
    <2>2. UNCHANGED Used
      BY <2>1 DEF Used
    <2> QED
      BY <2>1, <2>2, RequestStill
  <1>5. CASE UNCHANGED vars
    <2>1. UNCHANGED <<pool, request, answers, accepted, calls, call, pc>>
      BY <1>5 DEF vars
    <2>2. UNCHANGED Used
      BY <2>1 DEF Used
    <2> QED
      BY <2>1, <2>2, RequestStill
  <1> QED
    BY <1>1, <1>2, <1>3, <1>4, <1>5, Actors

-----------------------------------------------------------------------------
(* Types.                                                                  *)

\* The counter of the requests without an answer is never negative.
LEMMA PendingType ==
    ASSUME NEW a \in Threads, Watched(setup, a), TypeOK, Inv(a), [Next]_vars
    PROVE  pending' \in Nat
  <1>1. pending' = Cardinality(Used')
    BY PoolStep DEF PoolInv
  <1>2. Used' \subseteq Blocks
    BY DEF Used, Blocks
  <1> QED
    BY <1>1, <1>2, BlocksFinite, FS_Subset, FS_CardinalityType

\* A call keeps its record.
LEMMA CallType ==
    ASSUME TypeOK, NEW a \in Threads, Call(a), Inv(a)
    PROVE  call' \in [Threads -> [id : Requests \cup {0}, block : Blocks \cup {0},
                                  seq : Nat \cup {Invalid}]]
  <1> DEFINE R == [id : Requests \cup {0}, block : Blocks \cup {0},
                   seq : Nat \cup {Invalid}]
  <1>1. call \in [Threads -> R] /\ call[a] \in R
    BY DEF TypeOK
  <1>2. \A r \in R, b \in Blocks, s \in Nat :
           /\ [r EXCEPT !.block = b] \in R
           /\ [r EXCEPT !.seq = s] \in R
    OBVIOUS
  <1>3. CASE Submit(a)
    <2>1. calls' \in Requests
      BY <1>3, BoundsAssumption DEF Submit, TypeOK, Requests
    <2>2. call' = [call EXCEPT ![a] = [NoCall EXCEPT !.id = calls']]
      BY <1>3 DEF Submit
    <2>3. [NoCall EXCEPT !.id = calls'] \in R
      BY <2>1 DEF NoCall
    <2> HIDE DEF R
    <2> QED
      BY <1>1, <2>2, <2>3 DEF R
  <1>4. CASE Pop(a)
    <2>1. Head(pool) \in Blocks
      BY <1>4, PoolPop
    <2>2. call' = [call EXCEPT ![a] = [call[a] EXCEPT !.block = Head(pool)]]
      BY <1>4 DEF Pop
    <2>3. [call[a] EXCEPT !.block = Head(pool)] \in R
      BY <1>1, <1>2, <2>1
    <2> HIDE DEF R
    <2> QED
      BY <1>1, <2>2, <2>3 DEF R
  <1>5. CASE Put(a)
    <2>1. \/ call' = call
          \/ call' = [call EXCEPT ![a] = [call[a] EXCEPT !.seq = sendSeq]]
      BY <1>5 DEF Put
    <2>2. [call[a] EXCEPT !.seq = sendSeq] \in R
      BY <1>1, <1>2 DEF TypeOK
    <2> HIDE DEF R
    <2> QED
      BY <1>1, <2>1, <2>2 DEF R
  <1>6. CASE TestActive(a) \/ SetOpaque(a) \/ Undo(a)
    BY <1>1, <1>6 DEF TestActive, SetOpaque, Undo, workVars
  <1> QED
    BY <1>3, <1>4, <1>5, <1>6 DEF Call

\* The handler of an event leaves the thread, and the queue, well.
LEMMA HandledType ==
    ASSUME TypeOK, NEW a \in Threads, OrderInv(a), NEW s, Handled(a, s),
           pc[a] \in HandlerPlaces
    PROVE  /\ pc' \in [Threads -> Statuses] /\ queue' \in Seq(EventKinds)
           /\ event' \in [Threads -> [kind : EventKinds \cup {"none"},
                                      queued : BOOLEAN]]
  <1>1. NoEvent \in [kind : EventKinds \cup {"none"}, queued : BOOLEAN]
    BY DEF NoEvent
  <1>2. event' \in [Threads -> [kind : EventKinds \cup {"none"}, queued : BOOLEAN]]
    BY <1>1 DEF Handled, TypeOK
  <1>3. pc' \in [Threads -> Statuses]
    BY DEF Handled, Goto, TypeOK, Statuses
  <1>4. event[a].kind \in EventKinds
    BY DEF OrderInv, KindOf, EventKinds
  <1>5. Append(queue, event[a].kind) \in Seq(EventKinds)
    BY <1>4, AppendTo DEF TypeOK
  <1>6. event[a].queued => Tail(queue) \in Seq(EventKinds)
    BY TailOf DEF OrderInv, TypeOK
  <1>7. queue' \in Seq(EventKinds)
    BY <1>5, <1>6 DEF Handled, TypeOK
  <1> QED
    BY <1>2, <1>3, <1>7

LEMMA TypeStep ==
    ASSUME NEW a \in Threads, Watched(setup, a), TypeOK, Inv(a), [Next]_vars
    PROVE  TypeOK'
  <1> USE DEF Goto, At, poolVars, cookieVars, ringVars, kernelVars, eventVars,
              workVars, histVars
  <1> DEFINE E == [kind : EventKinds \cup {"none"}, queued : BOOLEAN]
  <1> PoolInv /\ OrderInv(a) /\ RingInv(a) /\ PlaceInv(a) /\ RequestInv(a)
    BY DEF Inv
  <1>0. pending' \in Nat
    BY PendingType
  <1>1. CASE Call(a)
    <2>0. call' \in [Threads -> [id : Requests \cup {0}, block : Blocks \cup {0},
                                 seq : Nat \cup {Invalid}]]
      BY <1>1, CallType
    <2>1. CASE Submit(a)
      <3>1. calls' \in 0..MaxRequests
        BY <2>1, BoundsAssumption DEF Submit, TypeOK
      <3>2. pc' \in [Threads -> Statuses]
        BY <2>1 DEF Submit, TypeOK, Statuses
      <3> QED
        BY <2>0, <2>1, <3>1, <3>2 DEF Submit, TypeOK
    <2>2. CASE TestActive(a)
      <3>2. pc' \in [Threads -> Statuses]
        BY <2>2 DEF TestActive, TypeOK, Statuses
      <3> QED
        BY <2>2, <3>2 DEF TestActive, TypeOK
    <2>3. CASE Pop(a)
      <3>1. pool' \in Seq(Blocks)
        BY <2>3, TakeBlock DEF Pop
      <3>2. request' \in [Blocks -> Requests \cup {0}]
        BY <2>3 DEF Pop, TypeOK
      <3>3. pc' \in [Threads -> Statuses]
        BY <2>3 DEF Pop, TypeOK, Statuses
      <3> QED
        BY <1>0, <2>0, <2>3, <3>1, <3>2, <3>3 DEF Pop, TypeOK
    <2>4. CASE Put(a)
      <3>1. pc' \in [Threads -> Statuses]
        BY <2>4 DEF Put, TypeOK, Statuses
      <3>2. call[a].block \in Blocks /\ call[a].id \in Requests
        BY <2>4, RequestPut, UsedBlocks
      <3>3. hw' \in Seq(Blocks)
        <4>1. Append(hw, call[a].block) \in Seq(Blocks)
          BY <3>2, AppendTo DEF TypeOK
        <4> QED
          BY <2>4, <4>1 DEF Put, TypeOK
      <3>4. inFlight' \in Nat /\ sendSeq' \in Nat
        BY <2>4 DEF Put, TypeOK
      <3>5. accepted' \subseteq Requests
        BY <2>4, <3>2 DEF Put, TypeOK
      <3> QED
        BY <2>0, <2>4, <3>1, <3>3, <3>4, <3>5 DEF Put, TypeOK
    <2>5. CASE SetOpaque(a)
      <3>1. pc' \in [Threads -> Statuses]
        BY <2>5 DEF SetOpaque, TypeOK, Statuses
      <3>2. opaque' \in [Blocks -> Nat \cup {Invalid}]
        BY <2>5 DEF SetOpaque, TypeOK
      <3> QED
        BY <2>5, <3>1, <3>2 DEF SetOpaque, TypeOK
    <2>6. CASE Undo(a)
      <3>1. pc' \in [Threads -> Statuses]
        BY <2>6 DEF Undo, TypeOK, Statuses
      <3>2. pool' \in Seq(Blocks)
        BY <2>6, UndoBlock, GiveBlock DEF Undo
      <3> QED
        BY <1>0, <2>6, <3>1, <3>2 DEF Undo, TypeOK
    <2> QED
      BY <1>1, <2>1, <2>2, <2>3, <2>4, <2>5, <2>6 DEF Call
  <1>2. ASSUME NEW t \in Threads, t \in setup.pollers, Poll(t)
        PROVE  TypeOK'
    <2>0. pc' \in [Threads -> Statuses]
      BY <1>2
      DEF Poll, PollEnter, Callback, Mark, GenResp, Dummy, TypeOK, Statuses
    <2>1. ASSUME NEW b \in Used, Complete(b)
          PROVE  /\ pool' \in Seq(Blocks)
                 /\ answers' \in [Requests -> Nat]
      <3>1. pool' \in Seq(Blocks)
        BY <2>1, GiveBlock DEF Complete
      <3>2. answers' \in [Requests -> Nat]
        <4>1. request[b] \in Requests
          <5>1. 1..calls \subseteq Requests
            BY BoundsAssumption DEF TypeOK, Requests
          <5> QED
            BY <5>1 DEF RequestInv
        <4>2. answers' = [answers EXCEPT ![request[b]] = @ + 1]
          BY <2>1 DEF Complete
        <4>3. answers \in [Requests -> Nat]
          BY DEF TypeOK
        <4> QED
          BY <4>1, <4>2, <4>3
      <3> QED
        BY <3>1, <3>2
    <2>2. CASE PollEnter(t)
      BY <2>0, <2>2 DEF PollEnter, TypeOK
    <2>3. CASE Callback(t)
      <3>1. CASE resp = <<>>
        BY <2>0, <2>3, <3>1 DEF Callback, TypeOK
      <3>2. CASE resp # <<>>
        <4>1. Head(resp) \in Used /\ Complete(Head(resp))
          BY <2>3, <3>2, CallbackBlock DEF Callback, Marking
        <4>2. pool' \in Seq(Blocks) /\ answers' \in [Requests -> Nat]
          BY <2>1, <4>1
        <4> QED
          BY <1>0, <2>0, <2>3, <4>2 DEF Callback, TypeOK
      <3> QED
        BY <3>1, <3>2
    <2>4. CASE Mark(t)
      <3>1. inFlight' \in Nat
        BY <2>4, RingMark DEF Mark
      <3>2. resp # <<>>
        BY <2>4 DEF Mark, PlaceInv, Marking
      <3>3. resp' \in Seq(Blocks)
        BY <2>4, <3>2, TailOf DEF Mark, TypeOK
      <3> QED
        BY <2>0, <2>4, <3>1, <3>3 DEF Mark, TypeOK
    <2>5. CASE GenResp(t)
      <3>1. Bucket \in Seq(Blocks) /\ UNCHANGED pool
        BY <2>5, BucketInOrder, PoolGen DEF GenResp
      <3>2. Bucket \in Seq(Blocks \cup {0})
        BY <3>1
      <3>3. todo' \in [Threads -> Seq(Blocks \cup {0})]
        BY <2>5, <3>2 DEF GenResp, TypeOK
      <3> QED
        BY <2>0, <2>5, <3>1, <3>3 DEF GenResp, TypeOK
    <2>6. CASE Dummy(t)
      <3>1. CASE todo[t] = <<>>
        BY <2>0, <2>6, <3>1 DEF Dummy, TypeOK
      <3>2. CASE todo[t] # <<>>
        <4>1. Head(todo[t]) \in Used /\ Complete(Head(todo[t]))
          BY <2>6, <3>2, PoolDummy DEF Dummy
        <4>2. pool' \in Seq(Blocks) /\ answers' \in [Requests -> Nat]
          BY <2>1, <4>1
        <4>3. Tail(todo[t]) \in Seq(Blocks \cup {0})
          BY <3>2, TailOf DEF TypeOK
        <4>4. todo' \in [Threads -> Seq(Blocks \cup {0})]
          BY <2>6, <3>2, <4>3 DEF Dummy, TypeOK
        <4> QED
          BY <1>0, <2>0, <2>6, <4>2, <4>4 DEF Dummy, TypeOK
      <3> QED
        BY <3>1, <3>2
    <2> QED
      BY <1>2, <2>2, <2>3, <2>4, <2>5, <2>6 DEF Poll
  <1>3. CASE Events(a)
    <2>1. CASE PollEvents(a)
      <3>1. pc' \in [Threads -> Statuses]
        BY <2>1 DEF PollEvents, TypeOK, Statuses
      <3> QED
        BY <2>1, <3>1 DEF PollEvents, TypeOK
    <2>2. CASE NextQueued(a)
      <3>1. Head(queue) \in EventKinds \/ queue = <<>>
        BY TailOf DEF TypeOK
      <3>2. pc' \in [Threads -> Statuses]
        BY <2>2, <3>1 DEF NextQueued, TypeOK, Statuses, EventKinds
      <3>3. event' \in [Threads -> [kind : EventKinds \cup {"none"},
                                    queued : BOOLEAN]]
        <4>1. queue # <<>> =>
                 event' = [event EXCEPT ![a] =
                              [kind |-> Head(queue), queued |-> TRUE]]
          BY <2>2 DEF NextQueued
        <4>2. queue # <<>> => [kind |-> Head(queue), queued |-> TRUE] \in E
          BY <3>1
        <4> HIDE DEF E
        <4>3. event' \in [Threads -> E]
          BY <2>2, <4>1, <4>2 DEF NextQueued, TypeOK, E
        <4> QED
          BY <4>3 DEF E
      <3> QED
        BY <2>2, <3>2, <3>3 DEF NextQueued, TypeOK
    <2>3. CASE NextEvent(a)
      <3>1. pipe # <<>> => Head(pipe) \in EventKinds
                           /\ Tail(pipe) \in Seq(EventKinds)
        BY TailOf DEF TypeOK
      <3>2. pc' \in [Threads -> Statuses]
        BY <2>3, <3>1 DEF NextEvent, TypeOK, Statuses, EventKinds
      <3>3. event' \in [Threads -> [kind : EventKinds \cup {"none"},
                                    queued : BOOLEAN]]
        <4>1. event' = event \/ (pipe # <<>> /\
                 event' = [event EXCEPT ![a] =
                              [kind |-> Head(pipe), queued |-> FALSE]])
          BY <2>3 DEF NextEvent
        <4>2. pipe # <<>> => [kind |-> Head(pipe), queued |-> FALSE] \in E
          BY <3>1
        <4> HIDE DEF E
        <4>3. event' \in [Threads -> E]
          BY <4>1, <4>2 DEF TypeOK, E
        <4> QED
          BY <4>3 DEF E
      <3>4. pipe' \in Seq(EventKinds)
        BY <2>3, <3>1 DEF NextEvent, TypeOK
      <3>5. queue' \in Seq(EventKinds)
        <4>1. pipe # <<>> => Append(queue, Head(pipe)) \in Seq(EventKinds)
          BY <3>1, AppendTo DEF TypeOK
        <4> QED
          BY <2>3, <4>1 DEF NextEvent, TypeOK
      <3> QED
        BY <2>3, <3>2, <3>3, <3>4, <3>5 DEF NextEvent, TypeOK
    <2>4. CASE ErrorDisable(a)
      <3>1. pc' \in [Threads -> Statuses]
        BY <2>4 DEF ErrorDisable, TypeOK, Statuses
      <3> QED
        BY <2>4, <3>1 DEF ErrorDisable, TypeOK
    <2>5. CASE ErrorCheck(a)
      <3>1. pc' \in [Threads -> Statuses]
        BY <2>5 DEF ErrorCheck, TypeOK, Statuses
      <3> QED
        BY <2>5, <3>1 DEF ErrorCheck, TypeOK
    <2>6. CASE ErrorSet(a)
      <3>1. pc' \in [Threads -> Statuses]
        BY <2>6 DEF ErrorSet, TypeOK, Statuses
      <3> QED
        BY <2>6, <3>1 DEF ErrorSet, TypeOK
    <2>7. CASE ErrorSettle(a)
      <3>1. pc[a] \in HandlerPlaces /\ \E s : Handled(a, s)
        BY <2>7 DEF ErrorSettle, HandlerPlaces, ErrorPlaces
      <3>2. /\ pc' \in [Threads -> Statuses] /\ queue' \in Seq(EventKinds)
            /\ event' \in [Threads -> [kind : EventKinds \cup {"none"},
                                       queued : BOOLEAN]]
        BY <3>1, HandledType
      <3> QED
        BY <2>7, <3>2 DEF ErrorSettle, TypeOK
    <2>8. CASE Restarting(a)
      <3>1. pc[a] \in HandlerPlaces /\ \E s : Handled(a, s)
        BY <2>8 DEF Restarting, HandlerPlaces
      <3>2. /\ pc' \in [Threads -> Statuses] /\ queue' \in Seq(EventKinds)
            /\ event' \in [Threads -> [kind : EventKinds \cup {"none"},
                                       queued : BOOLEAN]]
        BY <3>1, HandledType
      <3>3. state' \in {"running", "error", "restarting"}
        BY <2>8, PhaseRestarting, OrderStep
      <3>4. resp' \in Seq(Blocks)
        <4>1. resp' = <<>> \/ resp' = resp
          BY <2>8 DEF Restarting
        <4>2. <<>> \in Seq(Blocks) /\ resp \in Seq(Blocks)
          BY DEF TypeOK
        <4> QED
          BY <4>1, <4>2
      <3> QED
        BY <2>8, <3>2, <3>3, <3>4 DEF Restarting, TypeOK
    <2>9. CASE Restarted(a)
      <3>1. pc' \in [Threads -> Statuses]
        BY <2>9 DEF Restarted, TypeOK, Statuses
      <3>2. resp' \in Seq(Blocks) /\ inFlight' \in Nat /\ sendSeq' \in Nat
            /\ active' \in BOOLEAN
        BY <2>9 DEF Restarted
      <3> QED
        BY <2>9, <3>1, <3>2 DEF Restarted, TypeOK
    <2>10. CASE InitDcCookies(a)
      <3>1. pc[a] \in HandlerPlaces /\ \E s : Handled(a, s)
        BY <2>10 DEF InitDcCookies, HandlerPlaces
      <3>2. /\ pc' \in [Threads -> Statuses] /\ queue' \in Seq(EventKinds)
            /\ event' \in [Threads -> [kind : EventKinds \cup {"none"},
                                       queued : BOOLEAN]]
        BY <3>1, HandledType
      <3>3. opaque' \in [Blocks -> Nat \cup {Invalid}]
        BY <2>10 DEF InitDcCookies
      <3> QED
        BY <2>10, <3>2, <3>3 DEF InitDcCookies, TypeOK
    <2> QED
      BY <1>3, <2>1, <2>2, <2>3, <2>4, <2>5, <2>6, <2>7, <2>8, <2>9, <2>10
      DEF Events, Handle
  <1>4. CASE Answer
    <2>1. hw # <<>> /\ hw' = Tail(hw) /\ resp' = Append(resp, Head(hw))
      BY <1>4 DEF Answer
    <2>2. hw' \in Seq(Blocks) /\ resp' \in Seq(Blocks)
      BY <2>1, TailOf, AppendTo DEF TypeOK
    <2> QED
      BY <1>4, <2>2 DEF Answer, TypeOK
  <1>5. CASE Kernel
    <2>1. \A e \in EventKinds : Append(pipe, e) \in Seq(EventKinds)
      BY AppendTo DEF TypeOK
    <2>2. pipe' \in Seq(EventKinds)
      BY <1>5, <2>1 DEF Kernel, Fail, NotifyRestarting, Reset, EventKinds
    <2>3. CASE Fail
      <3>1. fails' \in 0..MaxFails
        BY <2>3, BoundsAssumption DEF Fail, TypeOK
      <3>2. device' \in {"up", "down"} /\ kernel' = "failed"
        BY <2>3 DEF Fail, Watched
      <3> QED
        BY <2>2, <2>3, <3>1, <3>2 DEF Fail, TypeOK
    <2>4. CASE NotifyRestarting
      BY <2>2, <2>4 DEF NotifyRestarting, TypeOK
    <2>5. CASE Reset
      BY <2>2, <2>5 DEF Reset, TypeOK
    <2> QED
      BY <1>5, <2>3, <2>4, <2>5 DEF Kernel
  <1>6. CASE UNCHANGED vars
    BY <1>6 DEF vars, TypeOK
  <1> QED
    BY <1>1, <1>2, <1>3, <1>4, <1>5, <1>6, Actors

-----------------------------------------------------------------------------
(* The theorems.                                                           *)

\* The set-ups proved about.
WatchedSetups == \A s \in Setups : \E a \in Threads : Watched(s, a)

LEMMA SetupStep ==
    ASSUME NEW a \in Threads, Watched(setup, a), [Next]_vars
    PROVE  setup' = setup
  <1>1. CASE Call(a)
    BY <1>1 DEF Call, Submit, TestActive, Pop, Put, SetOpaque, Undo
  <1>2. CASE \E t \in Threads : Poll(t)
    BY <1>2 DEF Poll, PollEnter, Callback, Mark, GenResp, Dummy
  <1>3. CASE Events(a)
    BY <1>3
    DEF Events, Handle, PollEvents, NextQueued, NextEvent, ErrorDisable,
        ErrorCheck, ErrorSet, ErrorSettle, Restarting, Restarted, InitDcCookies
  <1>4. CASE Answer \/ Kernel
    BY <1>4 DEF Answer, Kernel, Fail, NotifyRestarting, Reset
  <1>5. CASE UNCHANGED vars
    BY <1>5 DEF vars
  <1> QED
    BY <1>1, <1>2, <1>3, <1>4, <1>5, Actors

\* At first every block is on the stack.
LEMMA InitPool ==
    ASSUME Init
    PROVE  /\ pool \in Seq(Blocks) /\ Used = {} /\ Whole
           /\ \A i, j \in 1..Len(pool) : pool[i] = pool[j] => i = j
  <1>1. pool = [i \in 1..NumMsgs+1 |-> i] /\ NumMsgs + 1 \in Nat
    BY BoundsAssumption DEF Init, Blocks
  <1>2. Len(pool) = NumMsgs + 1 /\ DOMAIN pool = Blocks /\ pool \in Seq(Blocks)
    BY <1>1 DEF Blocks
  <1>3. \A i \in Blocks : pool[i] = i
    BY <1>1 DEF Blocks
  <1>4. Used = {}
    BY <1>2, <1>3 DEF Used, ToSet
  <1> QED
    BY <1>1, <1>2, <1>3, <1>4 DEF Whole, Blocks

LEMMA InitIInv ==
    ASSUME WatchedSetups, Init
    PROVE  IInv
  <1> USE DEF Init
  <1>0. \A S : <<>> \in Seq(S)
    OBVIOUS
  <1>1. TypeOK
    <2>1. /\ call \in [Threads -> [id : Requests \cup {0}, block : Blocks \cup {0},
                                   seq : Nat \cup {Invalid}]]
          /\ event \in [Threads -> [kind : EventKinds \cup {"none"},
                                    queued : BOOLEAN]]
      BY DEF NoCall, NoEvent
    <2>2. /\ opaque \in [Blocks -> Nat \cup {Invalid}]
          /\ request \in [Blocks -> Requests \cup {0}]
          /\ answers \in [Requests -> Nat]
          /\ pc \in [Threads -> Statuses]
          /\ todo \in [Threads -> Seq(Blocks \cup {0})]
      BY <1>0 DEF Statuses
    <2>3. calls \in 0..MaxRequests /\ fails \in 0..MaxFails
      BY BoundsAssumption
    <2>4. /\ hw \in Seq(Blocks) /\ resp \in Seq(Blocks)
          /\ pipe \in Seq(EventKinds) /\ queue \in Seq(EventKinds)
      BY <1>0
    <2> QED
      BY <2>1, <2>2, <2>3, <2>4, InitPool DEF TypeOK
  <1>2. PICK a \in Threads : Watched(setup, a)
    BY DEF WatchedSetups
  <1>3. Len(<<>>) = 0 /\ 1..Len(<<>>) = {} /\ DOMAIN <<>> = {}
    BY EmptySeq
  <1>4. pc[a] = "idle" /\ (\A t \in Threads : pc[t] = "idle") /\ ~Marking
    BY DEF Marking
  <1>5. Expected(a) = "error" /\ Arriving = "error" /\ Coming = "error"
    BY <1>4 DEF Expected, Waiting, Arriving, Coming, HandlerPlaces, ErrorPlaces
  <1>6. PlaceInv(a)
    BY <1>4 DEF PlaceInv, PollPlaces, CallPlaces
  <1>7. OrderInv(a)
    BY <1>3, <1>4, <1>5 DEF OrderInv, InOrder, HandlerPlaces, ErrorPlaces
  <1>8. PhaseInv(a)
    BY <1>3, <1>4, <1>5 DEF PhaseInv, Sent
  <1>9. PoolInv
    <2>1. Cardinality(Used) = 0
      BY InitPool, FS_EmptySet
    <2> QED
      BY <1>3, <2>1, InitPool DEF PoolInv, DummyOrder
  <1>10. RingInv(a)
    <2>1. Newest = 0 /\ Oldest = 1 /\ Oldest..Newest = {}
      BY <1>3, <1>4 DEF Newest, Oldest
    <2> QED
      BY <1>4, <2>1, InitPool DEF RingInv
  <1>11. RequestInv(a)
    <2>1. Callbacks = {} /\ IsFiniteSet({})
      BY FS_EmptySet DEF Callbacks
    <2> QED
      BY <1>4, <2>1, InitPool DEF RequestInv, Holding
  <1> QED
    BY <1>1, <1>2, <1>6, <1>7, <1>8, <1>9, <1>10, <1>11 DEF IInv, Inv

LEMMA NextIInv == IInv /\ [Next]_vars => IInv'
  <1> SUFFICES ASSUME IInv, [Next]_vars PROVE IInv'
    OBVIOUS
  <1>1. PICK a \in Threads : Watched(setup, a) /\ Inv(a)
    BY DEF IInv
  <1>2. TypeOK
    BY DEF IInv
  <1>3. /\ PlaceInv(a)' /\ OrderInv(a)' /\ PhaseInv(a)' /\ PoolInv'
        /\ RingInv(a)' /\ RequestInv(a)' /\ TypeOK' /\ setup' = setup
    BY <1>1, <1>2, PlaceStep, OrderStep, PhaseStep, PoolStep, RingStep,
       RequestStep, TypeStep, SetupStep
  <1> QED
    BY <1>1, <1>3 DEF IInv, Inv

\* The inductive invariant.
THEOREM Invariance ==
    ASSUME WatchedSetups
    PROVE  Spec => []IInv
  <1>1. Init => IInv
    BY InitIInv
  <1> QED
    BY <1>1, NextIInv, PTL DEF Spec

\* Every variable keeps its type: the count of the calls without an answer
\* (pendingStatelessCbCount) and the in-flight counter of the ring never go
\* below zero, whatever the failures and restarts.
THEOREM TypeCorrect ==
    ASSUME WatchedSetups
    PROVE  Spec => []TypeOK
  <1>1. IInv => TypeOK
    BY DEF IInv
  <1> QED
    BY <1>1, Invariance, PTL

\* The rings of the instance are given up only when no block is in use and
\* nobody waits for an answer: RESTARTING waits behind ERROR, which waits for
\* the pool (uio_user_device.c:407-439, 588-630).
THEOREM RestartsClean ==
    ASSUME WatchedSetups
    PROVE  Spec => []RestartClean
  <1>1. IInv => RestartClean
    <2> SUFFICES ASSUME IInv, state = "restarting"
                 PROVE  Whole /\ pending = 0 /\ Unanswered = {}
      BY DEF RestartClean
    <2>1. PICK a \in Threads : Inv(a)
      BY DEF IInv
    <2>2. Used = {}
      BY <2>1 DEF Inv, PhaseInv, Whole
    <2>3. pending = 0
      BY <2>1, <2>2, FS_EmptySet DEF Inv, PoolInv
    <2>4. Unanswered = {}
      BY <2>1, <2>2 DEF Inv, RequestInv, Unanswered
    <2> QED
      BY <2>2, <2>3, <2>4 DEF Whole
  <1> QED
    BY <1>1, Invariance, PTL

\* The dummies of LacSwResp_GenResp come for the requests on the ring, each
\* once and in the order in which they were sent, wherever in the bucket the
\* numbers begin (lac_sw_responses.c:93-155).
THEOREM DummiesInOrder ==
    ASSUME WatchedSetups
    PROVE  Spec => []DummyOrder
  <1>1. IInv => DummyOrder
    BY DEF IInv, Inv, PoolInv
  <1> QED
    BY <1>1, Invariance, PTL

-----------------------------------------------------------------------------
(* The instance implements RequestChannel.                                 *)

\* The channel counts as this module does.
LEMMA ChannelCardinality ==
    \A S : Channel!Cardinality(S) = Cardinality(S)
  BY DEF Channel!Cardinality, Cardinality

LEMMA ChannelInit == Init => Channel!Init
  <1> SUFFICES ASSUME Init PROVE Channel!Init
    OBVIOUS
  <1>1. Unanswered = {} /\ Cardinality(accepted) = 0
    BY FS_EmptySet DEF Init, Unanswered
  <1>2. Callbacks = {}
    BY DEF Init, Callbacks
  <1>3. Given = 0
    BY <1>2, FS_EmptySet DEF Given
  <1> QED
    BY <1>1, <1>3 DEF Channel!Init

\* Those who wait for an answer are on the ring, which knows how many it has.
LEMMA WaitingCount ==
    ASSUME NEW a \in Threads, TypeOK, Inv(a), state = "running"
    PROVE  /\ IsFiniteSet(Unanswered)
           /\ Cardinality(Unanswered) \in Nat
           /\ Cardinality(Unanswered) <= inFlight
  <1>1. sync = 1
    BY RunningSync DEF Inv
  <1>2. inFlight = Newest /\ Newest \in Nat /\ Oldest \in {1, 2}
    BY <1>1, RingType DEF Inv, RingInv, Oldest
  <1>3. \A r \in Unanswered : \E i \in 1..Newest : request[OnRing(i)] = r
    <2> TAKE r \in Unanswered
    <2>1. PICK b \in Used : request[b] = r
      BY DEF Inv, RequestInv, Unanswered
    <2>2. ~Held(a, b)
      BY <2>1 DEF Inv, RequestInv, Unanswered
    <2>3. PICK i \in Oldest..Newest : OnRing(i) = b
      BY <1>1, <2>2 DEF Inv, RingInv
    <2>4. i \in 1..Newest
      BY <1>2
    <2> QED
      BY <2>1, <2>3, <2>4
  <1> DEFINE S == {i \in 1..Newest : request[OnRing(i)] \in Unanswered}
             f == [i \in S |-> request[OnRing(i)]]
  <1>4. f \in Surjection(S, Unanswered)
    <2>1. f \in [S -> Unanswered]
      OBVIOUS
    <2>2. \A r \in Unanswered : \E i \in S : f[i] = r
      BY <1>3
    <2> QED
      BY <2>1, <2>2, Fun_IsSurj
  <1>5. IsFiniteSet(1..Newest) /\ Cardinality(1..Newest) = Newest
    BY <1>2, FS_Interval
  <1>6. IsFiniteSet(S) /\ Cardinality(S) <= Newest /\ Cardinality(S) \in Nat
    <2>1. S \subseteq 1..Newest
      OBVIOUS
    <2> HIDE DEF S
    <2> QED
      BY <1>5, <2>1, FS_Subset, FS_CardinalityType
  <1> HIDE DEF S, f
  <1>7. /\ IsFiniteSet(Unanswered)
        /\ Cardinality(Unanswered) <= Cardinality(S)
        /\ Cardinality(Unanswered) \in Nat
    BY <1>4, <1>6, FS_Surjection, FS_CardinalityType
  <1> QED
    BY <1>2, <1>6, <1>7

\* A callback, of the device or of a dummy, answers a request that waits.
LEMMA AnswerStep ==
    ASSUME NEW a \in Threads, TypeOK, Inv(a), NEW b \in Used, ~Held(a, b),
           Complete(b), UNCHANGED <<accepted, request>>
    PROVE  \E r \in Requests : /\ r \in Unanswered
                               /\ Unanswered' = Unanswered \ {r}
                               /\ Given' = Given + 1
  <1> DEFINE r == request[b]
  <1>1. /\ r \in accepted /\ answers[r] = 0 /\ accepted \subseteq Requests
        /\ IsFiniteSet(Callbacks)
        /\ answers' = [answers EXCEPT ![r] = @ + 1]
    BY DEF Inv, RequestInv, Complete, TypeOK
  <1>2. answers'[r] = 1 /\ \A q \in Requests \ {r} : answers'[q] = answers[q]
    BY <1>1 DEF TypeOK
  <1>3. r \in Unanswered /\ Unanswered' = Unanswered \ {r}
    BY <1>1, <1>2 DEF Unanswered
  <1>4. r \in Requests /\ Given' = Given + 1
    BY <1>1, OneCallback
  <1> QED
    BY <1>3, <1>4

\* What each step is to the channel: the ring accepts, a callback answers,
\* and failures and restarts do not show.
LEMMA ChannelStep ==
    ASSUME NEW a \in Threads, Watched(setup, a), TypeOK, Inv(a), [Next]_vars
    PROVE  \/ \E r \in Requests :
                 /\ r \notin Unanswered /\ Unanswered' = Unanswered \cup {r}
                 /\ Cardinality(Unanswered) < NumMsgs - 1
                 /\ Cardinality(accepted') = Cardinality(accepted) + 1
                 /\ Given' = Given
           \/ \E r \in Requests :
                 /\ r \in Unanswered /\ Unanswered' = Unanswered \ {r}
                 /\ Given' = Given + 1
                 /\ accepted' = accepted
           \/ UNCHANGED <<Unanswered, accepted, Given>>
  <1> USE DEF At, poolVars, cookieVars, histVars
  <1>0. UNCHANGED <<accepted, answers>> =>
           UNCHANGED <<Unanswered, accepted, Given>>
    BY DEF Unanswered, Given, Callbacks
  <1>1. CASE Call(a)
    <2>1. CASE Put(a) /\ inFlight < NumMsgs - 1
      <3> DEFINE r == call[a].id
      <3>1. /\ r \in Requests /\ r \notin accepted /\ answers[r] = 0
        BY <2>1, RequestPut
      <3>2. accepted' = accepted \cup {r} /\ answers' = answers
        BY <2>1 DEF Put
      <3>3. state = "running"
        BY <2>1 DEF Put, Inv, PlaceInv, CallPlaces
      <3>4. Cardinality(Unanswered) < NumMsgs - 1
        <4>1. /\ Cardinality(Unanswered) \in Nat
              /\ Cardinality(Unanswered) <= inFlight
          BY <3>3, WaitingCount
        <4> QED
          BY <2>1, <4>1, BoundsAssumption DEF TypeOK
      <3> HIDE DEF r
      <3>5. Cardinality(accepted') = Cardinality(accepted) + 1
        <4>1. IsFiniteSet(Requests)
          BY BoundsAssumption, FS_Interval DEF Requests
        <4>2. IsFiniteSet(accepted)
          BY <4>1, FS_Subset DEF TypeOK
        <4> QED
          BY <3>1, <3>2, <4>2, FS_AddElement
      <3>6. r \notin Unanswered /\ Unanswered' = Unanswered \cup {r}
        BY <3>1, <3>2 DEF Unanswered
      <3>7. Given' = Given
        BY <3>2 DEF Given, Callbacks
      <3> QED
        BY <3>1, <3>4, <3>5, <3>6, <3>7
    <2>2. CASE ~(Put(a) /\ inFlight < NumMsgs - 1)
      <3>1. UNCHANGED <<accepted, answers>>
        BY <1>1, <2>2
        DEF Call, Submit, TestActive, Pop, Put, SetOpaque, Undo
      <3> QED
        BY <1>0, <3>1
    <2> QED
      BY <2>1, <2>2
  <1>2. ASSUME NEW t \in Threads, Poll(t)
        PROVE  \/ \E r \in Requests :
                     /\ r \in Unanswered /\ Unanswered' = Unanswered \ {r}
                     /\ Given' = Given + 1
                     /\ accepted' = accepted
               \/ UNCHANGED <<Unanswered, accepted, Given>>
    <2>1. UNCHANGED <<accepted, request>>
      BY <1>2 DEF Poll, PollEnter, Callback, Mark, GenResp, Dummy
    <2>2. CASE Callback(t) /\ resp # <<>>
      <3>1. Head(resp) \in Used /\ ~Held(a, Head(resp))
        BY <2>2, CallbackBlock DEF Callback, Marking
      <3>2. Complete(Head(resp))
        BY <2>2 DEF Callback
      <3> QED
        BY <2>1, <3>1, <3>2, AnswerStep
    <2>3. CASE Dummy(t) /\ todo[t] # <<>>
      <3>1. Head(todo[t]) \in Used /\ sync = 0
        BY <2>3, PoolDummy DEF Inv
      <3>2. ~Held(a, Head(todo[t]))
        BY <3>1 DEF Inv, PoolInv, PlaceInv, CallPlaces, Holding, Held
      <3>3. Complete(Head(todo[t]))
        BY <2>3 DEF Dummy
      <3> QED
        BY <2>1, <3>1, <3>2, <3>3, AnswerStep
    <2>4. CASE ~(Callback(t) /\ resp # <<>>) /\ ~(Dummy(t) /\ todo[t] # <<>>)
      <3>1. UNCHANGED <<accepted, answers>>
        BY <1>2, <2>4 DEF Poll, PollEnter, Callback, Mark, GenResp, Dummy
      <3> QED
        BY <1>0, <3>1
    <2> QED
      BY <2>2, <2>3, <2>4
  <1>3. CASE Events(a)
    <2>1. UNCHANGED <<accepted, answers>>
      BY <1>3
      DEF Events, Handle, PollEvents, NextQueued, NextEvent, ErrorDisable,
          ErrorCheck, ErrorSet, ErrorSettle, Restarting, Restarted,
          InitDcCookies
    <2> QED
      BY <1>0, <2>1
  <1>4. CASE Answer \/ Kernel
    <2>1. UNCHANGED <<accepted, answers>>
      BY <1>4 DEF Answer, Kernel, Fail, NotifyRestarting, Reset
    <2> QED
      BY <1>0, <2>1
  <1>5. CASE UNCHANGED vars
    <2>1. UNCHANGED <<accepted, answers>>
      BY <1>5 DEF vars
    <2> QED
      BY <1>0, <2>1
  <1> QED
    BY <1>1, <1>2, <1>3, <1>4, <1>5, Actors

\* Failures do not show: a request the ring took gets one callback, of the
\* device or of the software, and one it refused gets none, and no more than
\* numCompConcurrentReq - 1 wait, through any number of failures and restarts
\* (lac_sw_responses.c, sal_compression.c:1332-1352).
THEOREM ImplementsChannel ==
    ASSUME WatchedSetups
    PROVE  Spec => ChannelSpec
  <1>1. IInv /\ [Next]_vars =>
           [Channel!Next]_<<Unanswered, Cardinality(accepted), Given>>
    <2> SUFFICES ASSUME IInv, [Next]_vars
                 PROVE  [Channel!Next]_<<Unanswered, Cardinality(accepted), Given>>
      OBVIOUS
    <2>1. PICK a \in Threads : Watched(setup, a) /\ Inv(a)
      BY DEF IInv
    <2>2. \/ \E r \in Requests :
                 /\ r \notin Unanswered /\ Unanswered' = Unanswered \cup {r}
                 /\ Cardinality(Unanswered) < NumMsgs - 1
                 /\ Cardinality(accepted') = Cardinality(accepted) + 1
                 /\ Given' = Given
          \/ \E r \in Requests :
                 /\ r \in Unanswered /\ Unanswered' = Unanswered \ {r}
                 /\ Given' = Given + 1
                 /\ accepted' = accepted
          \/ UNCHANGED <<Unanswered, accepted, Given>>
      BY <2>1, ChannelStep DEF IInv
    <2>3. CASE UNCHANGED <<Unanswered, accepted, Given>>
      <3>1. UNCHANGED <<Unanswered, Cardinality(accepted), Given>>
        BY <2>3
      <3> QED
        BY <3>1
    <2>4. ASSUME NEW r \in Requests, r \notin Unanswered,
                 Unanswered' = Unanswered \cup {r},
                 Cardinality(Unanswered) < NumMsgs - 1,
                 Cardinality(accepted') = Cardinality(accepted) + 1,
                 Given' = Given
          PROVE  Channel!Accept(r)
      <3>1. Cardinality(accepted)' = Cardinality(accepted) + 1
        BY <2>4
      <3> QED
        BY <2>4, <3>1, ChannelCardinality, Zenon DEF Channel!Accept
    <2>5. ASSUME NEW r \in Requests, r \in Unanswered,
                 Unanswered' = Unanswered \ {r}, Given' = Given + 1,
                 accepted' = accepted
          PROVE  Channel!Answer(r)
      <3>1. Cardinality(accepted)' = Cardinality(accepted)
        BY <2>5
      <3> QED
        BY <2>5, <3>1 DEF Channel!Answer
    <2> QED
      BY <2>2, <2>3, <2>4, <2>5 DEF Channel!Next
  <1> QED
    BY <1>1, ChannelInit, Invariance, PTL
    DEF Spec, ChannelSpec, Channel!Spec, Channel!channelVars
=============================================================================

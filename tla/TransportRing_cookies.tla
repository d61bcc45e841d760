------------------------ MODULE TransportRing_cookies ------------------------
(***************************************************************************)
(* Where the cookies of the requests are, proved for any ring geometry: a  *)
(* step of the ring pair moves one cookie from one place to the next, or   *)
(* none.  From this follow that the sentinel of the response ring tells    *)
(* the truth, that no request is lost, doubled or answered twice           *)
(* (Conservation), that RETRY is honest, and that the ring pair implements *)
(* RequestChannel.  What is proved about the counters, the locks and the   *)
(* poll guard comes from TransportRing_proofs.                             *)
(***************************************************************************)
EXTENDS TransportRing_proofs, FiniteSetTheorems, FunctionTheorems,
        SequenceTheorems

Req(i) == reqSlot[Slot(i, ReqSlots)]
Resp(i) == respSlot[Slot(i, RespSlots)]

\* The first response no callback has been made for; First = head + Called.
First == IF \E c \in Pollers : cpc[c] = "mark" THEN head + 1 ELSE head

\* What is where a cookie should be is a cookie.
ContentInv ==
    /\ pool \subseteq Tags
    /\ \A p \in Producers : ptag[p] = None <=> ppc[p] = "idle"
    /\ \A i \in 0..csrTail-1 : Req(i) # None
    /\ \A p \in Producers : ppc[p] = "tail" => Req(tail) = ptag[p]
    /\ \A k \in DOMAIN hw : hw[k] # None
    /\ \A i \in head..hwTail-1 : Resp(i) # None

\* No two places of one kind hold the same cookie, ...
DistinctInv ==
    /\ \A p, q \in Producers : ptag[p] = ptag[q] /\ ptag[p] # None => p = q
    /\ \A i, j \in hwHead..csrTail-1 : Req(i) = Req(j) => i = j
    /\ \A k, l \in DOMAIN hw : hw[k] = hw[l] => k = l
    /\ \A i, j \in First..hwTail-1 : Resp(i) = Resp(j) => i = j

\* ... and every cookie is in a place of exactly one kind.
Parted(P, H, F, S, U) ==
    /\ P \cup H \cup F \cup S \cup U = Tags
    /\ P \cap H = {} /\ P \cap F = {} /\ P \cap S = {} /\ P \cap U = {}
    /\ H \cap F = {} /\ H \cap S = {} /\ H \cap U = {}
    /\ F \cap S = {} /\ F \cap U = {}
    /\ S \cap U = {}

Fetched == {Req(i) : i \in hwHead..csrTail-1}
Answers == {Resp(i) : i \in First..hwTail-1}

\* The requests accepted and not answered.
InChannel == Fetched \cup Served \cup Answers

PlaceInv == DistinctInv /\ Parted(pool, Held, Fetched, Served, Answers)

-----------------------------------------------------------------------------
(* The slots and the device's list.                                        *)

\* What a slot holds, and how a write to one slot shows in the messages.
LEMMA Slots ==
    ASSUME TypeInv
    PROVE  /\ \A i \in Nat : Slot(i, ReqSlots) \in 0..ReqSlots-1
                             /\ Req(i) \in Tags \cup {None}
           /\ \A i \in Nat : Slot(i, RespSlots) \in 0..RespSlots-1
                             /\ Resp(i) \in Tags \cup {None}
  BY SlotInRange, GeometryAssumption DEF TypeInv, Req, Resp

LEMMA WriteReq ==
    ASSUME TypeInv, NEW j \in Nat, NEW e,
           reqSlot' = [reqSlot EXCEPT ![Slot(j, ReqSlots)] = e]
    PROVE  \A i \in Nat :
               Req(i)' = IF Slot(i, ReqSlots) = Slot(j, ReqSlots)
                         THEN e ELSE Req(i)
  BY Slots DEF TypeInv, Req

LEMMA WriteResp ==
    ASSUME TypeInv, NEW j \in Nat, NEW e,
           respSlot' = [respSlot EXCEPT ![Slot(j, RespSlots)] = e]
    PROVE  \A i \in Nat :
               Resp(i)' = IF Slot(i, RespSlots) = Slot(j, RespSlots)
                          THEN e ELSE Resp(i)
  BY Slots DEF TypeInv, Resp

\* What is left of a list from which one element was taken, ...
LEMMA RemoveAtElements ==
    ASSUME NEW S, NEW s \in Seq(S), NEW k \in DOMAIN s
    PROVE  /\ RemoveAt(s, k) \in Seq(S)
           /\ DOMAIN s = 1..Len(s) /\ Len(s) \in Nat
           /\ DOMAIN RemoveAt(s, k) = 1..Len(s)-1
           /\ \A l \in 1..Len(s)-1 :
                  RemoveAt(s, k)[l] = IF l < k THEN s[l] ELSE s[l+1]
  <1> DEFINE a == SubSeq(s, 1, k-1)
             b == SubSeq(s, k+1, Len(s))
  <1>1. Len(s) \in Nat /\ k \in 1..Len(s) /\ DOMAIN s = 1..Len(s)
    OBVIOUS
  <1>2. /\ a \in Seq(S) /\ Len(a) = k-1
        /\ \A i \in 1..k-1 : a[i] = s[i]
    BY <1>1
  <1>3. /\ b \in Seq(S) /\ Len(b) = Len(s) - k
        /\ \A i \in 1..Len(s)-k : b[i] = s[k+i]
    BY <1>1
  <1>4. RemoveAt(s, k) = a \o b
    BY DEF RemoveAt
  <1> HIDE DEF a, b
  <1>5. /\ a \o b \in Seq(S) /\ Len(a \o b) = Len(s) - 1
        /\ \A i \in 1..Len(s)-1 :
              (a \o b)[i] = IF i <= k-1 THEN a[i] ELSE b[i - (k-1)]
    <2>1. /\ a \o b \in Seq(S) /\ Len(a \o b) = Len(a) + Len(b)
          /\ \A i \in 1..Len(a)+Len(b) :
                (a \o b)[i] = IF i <= Len(a) THEN a[i] ELSE b[i - Len(a)]
      BY <1>2, <1>3, ConcatProperties
    <2>2. Len(a) = k-1 /\ Len(a) + Len(b) = Len(s) - 1
      BY <1>1, <1>2, <1>3
    <2> QED
      BY <2>1, <2>2
  <1>6. \A l \in 1..Len(s)-1 :
            (a \o b)[l] = IF l < k THEN s[l] ELSE s[l+1]
    <2> TAKE l \in 1..Len(s)-1
    <2>1. CASE l < k
      BY <1>1, <1>2, <1>5, <2>1
    <2>2. CASE ~ l < k
      <3> DEFINE j == l - (k-1)
      <3>1. j \in 1..Len(s)-k /\ k + j = l + 1 /\ ~ l <= k-1
        BY <1>1, <2>2
      <3>2. (a \o b)[l] = b[j]
        BY <1>5, <3>1
      <3> HIDE DEF j
      <3>3. b[j] = s[k+j]
        BY <1>3, <3>1
      <3> QED
        BY <2>2, <3>1, <3>2, <3>3
    <2> QED
      BY <2>1, <2>2
  <1>7. DOMAIN (a \o b) = 1..Len(s)-1
    BY <1>5
  <1> QED
    BY <1>1, <1>4, <1>5, <1>6, <1>7

\* ... and to which one was added.
LEMMA AppendElements ==
    ASSUME NEW S, NEW s \in Seq(S), NEW e \in S
    PROVE  /\ Append(s, e) \in Seq(S)
           /\ DOMAIN s = 1..Len(s) /\ Len(s) \in Nat
           /\ DOMAIN Append(s, e) = 1..Len(s)+1
           /\ \A l \in 1..Len(s) : Append(s, e)[l] = s[l]
           /\ Append(s, e)[Len(s)+1] = e
  OBVIOUS

-----------------------------------------------------------------------------
(* What is in a cookie's place is a cookie.                                *)

\* Two messages that wait in the response ring are in different slots.
LEMMA RespApart ==
    ASSUME TypeInv, CounterInv, SpaceInv,
           NEW i \in head..hwTail, NEW j \in head..hwTail,
           Slot(i, RespSlots) = Slot(j, RespSlots)
    PROVE  i = j
  <1>1. /\ i \in Nat /\ j \in Nat /\ RespSlots \in Nat \ {0}
        /\ i < j + RespSlots /\ j < i + RespSlots
    BY GeometryAssumption DEF TypeInv, CounterInv, SpaceInv
  <1>2. ~ i < j /\ ~ j < i
    BY <1>1, SameLapSlots
  <1> QED
    BY <1>1, <1>2

\* A step that leaves all of it alone.
LEMMA ContentSame ==
    ASSUME TypeInv, ContentInv,
           UNCHANGED <<pool, ptag, tail, csrTail, reqSlot, hw, head, hwTail,
                       respSlot>>,
           \A p \in Producers : /\ ppc'[p] = "idle" <=> ppc[p] = "idle"
                                /\ ppc'[p] = "tail" => ppc[p] = "tail"
    PROVE  ContentInv'
  BY DEF ContentInv, Req, Resp

LEMMA ProducerContent ==
    ASSUME IInv, ContentInv, NEW p \in Producers, Producer(p)
    PROVE  ContentInv'
  <1> TypeInv /\ LockInv /\ CounterInv
    BY DEF IInv
  <1> USE DEF hwVars, respVars, pollVars, reqVars
  <1>1. CASE Alloc(p)
    <2>1. PICK t \in pool : pool' = pool \ {t} /\ ptag' = [ptag EXCEPT ![p] = t]
      BY <1>1 DEF Alloc
    <2>2. t # None
      BY NoneAssumption DEF ContentInv
    <2> QED
      BY <1>1, <2>1, <2>2 DEF Alloc, ContentInv, Req, Resp, TypeInv
  <1>2. CASE PutReserve(p)
    BY <1>2, ContentSame DEF PutReserve, TypeInv
  <1>3. CASE PutUndo(p)
    BY <1>3, ContentSame DEF PutUndo, TypeInv
  <1>4. CASE Backout(p)
    <2>1. ptag[p] \in Tags
      BY <1>4 DEF Backout, ContentInv, TypeInv
    <2> QED
      BY <1>4, <2>1 DEF Backout, ContentInv, Req, Resp, TypeInv
  <1>5. CASE PutWrite(p)
    <2>1. \A i \in Nat : Req(i)' = IF Slot(i, ReqSlots) = Slot(tail, ReqSlots)
                                   THEN ptag[p] ELSE Req(i)
      BY <1>5, WriteReq DEF PutWrite, TypeInv
    <2>2. ptag[p] # None
      BY <1>5 DEF PutWrite, ContentInv
    <2>3. \A q \in Producers : ppc'[q] = "tail" => q = p
      BY <1>5 DEF PutWrite, LockInv, TypeInv
    <2>4. \A i \in 0..csrTail-1 : Req(i)' # None
      BY <2>1, <2>2 DEF ContentInv, TypeInv
    <2>5. Req(tail)' = ptag[p]
      BY <1>5, <2>1 DEF PutWrite, TypeInv, Req
    <2> QED
      BY <1>5, <2>3, <2>4, <2>5 DEF PutWrite, ContentInv, Req, Resp, TypeInv
  <1>6. CASE PutTail(p)
    <2>1. Req(tail) = ptag[p] /\ ptag[p] # None /\ csrTail = tail
      BY <1>6 DEF PutTail, ContentInv, CounterInv
    <2>2. \A i \in 0..csrTail'-1 : Req(i)' # None
      BY <1>6, <2>1 DEF PutTail, ContentInv, TypeInv, Req
    <2>3. \A q \in Producers : ppc'[q] # "tail"
      BY <1>6 DEF PutTail, LockInv, TypeInv
    <2> QED
      BY <1>6, <2>2, <2>3 DEF PutTail, ContentInv, Req, Resp, TypeInv
  <1> QED
    BY <1>1, <1>2, <1>3, <1>4, <1>5, <1>6 DEF Producer

LEMMA DeviceContent ==
    ASSUME IInv, ContentInv, HwFetch \/ HwRespond
    PROVE  ContentInv'
  <1> TypeInv /\ CounterInv
    BY DEF IInv
  <1> USE DEF respVars, pollVars, prodVars, reqVars
  <1>1. CASE HwFetch
    <2>1. hwHead \in 0..csrTail-1
      BY <1>1 DEF HwFetch, CounterInv, TypeInv
    <2>2. Req(hwHead) # None /\ Req(hwHead) \in Tags \cup {None}
      BY <2>1, Slots DEF ContentInv
    <2>3. hw' = Append(hw, Req(hwHead))
      BY <1>1 DEF HwFetch, Req
    <2>4. \A k \in DOMAIN hw' : hw'[k] # None
      BY <2>2, <2>3, AppendElements DEF ContentInv, TypeInv
    <2> QED
      BY <1>1, <2>4 DEF HwFetch, ContentInv, Req, Resp
  <1>2. CASE HwRespond
    <2> PICK k \in DOMAIN hw :
               /\ respSlot' = [respSlot EXCEPT ![Slot(hwTail, RespSlots)] = hw[k]]
               /\ hw' = RemoveAt(hw, k)
      BY <1>2 DEF HwRespond
    <2>1. hwTail' = hwTail + 1 /\ hw[k] # None
      BY <1>2 DEF HwRespond, ContentInv
    <2>2. \A i \in head..hwTail : Resp(i)' # None
      <3>1. \A i \in Nat :
                Resp(i)' = IF Slot(i, RespSlots) = Slot(hwTail, RespSlots)
                           THEN hw[k] ELSE Resp(i)
        BY WriteResp DEF TypeInv
      <3>2. Slot(hwTail, RespSlots) = Slot(hwTail, RespSlots)
        OBVIOUS
      <3> QED
        BY <2>1, <3>1, <3>2 DEF ContentInv, TypeInv
    <2>3. \A l \in DOMAIN hw' : hw'[l] # None
      <3>1. /\ Len(hw) \in Nat /\ DOMAIN hw = 1..Len(hw)
            /\ DOMAIN hw' = 1..Len(hw)-1
            /\ \A l \in 1..Len(hw)-1 :
                  hw'[l] = IF l < k THEN hw[l] ELSE hw[l+1]
        BY RemoveAtElements DEF TypeInv
      <3> QED
        BY <3>1 DEF ContentInv
    <2> QED
      BY <1>2, <2>1, <2>2, <2>3 DEF HwRespond, ContentInv, Req, TypeInv
  <1> QED
    BY <1>1, <1>2

LEMMA PollerContent ==
    ASSUME IInv, SpaceInv, ContentInv, NEW c \in Pollers, Poller(c)
    PROVE  ContentInv'
  <1> TypeInv /\ CounterInv /\ GuardInv
    BY DEF IInv
  <1> USE DEF hwVars, respVars, prodVars, reqVars
  <1>1. CASE PollCallback(c)
    <2>1. Resp(head) # None /\ pool' = pool \cup {Resp(head)}
      BY <1>1 DEF PollCallback, MoreToDo, Resp
    <2>2. Resp(head) \in Tags
      BY <2>1, Slots DEF TypeInv
    <2> QED
      BY <1>1, <2>1, <2>2 DEF PollCallback, ContentInv, Req, Resp
  <1>2. CASE PollMark(c)
    <2>1. head' = head + 1 /\ head < hwTail
      BY <1>2 DEF PollMark, CounterInv
    <2>2. \A i \in Nat :
              Resp(i)' = IF Slot(i, RespSlots) = Slot(head, RespSlots)
                         THEN None ELSE Resp(i)
      BY <1>2, WriteResp DEF PollMark, TypeInv
    <2>3. \A i \in head+1..hwTail-1 : Slot(i, RespSlots) # Slot(head, RespSlots)
      BY <2>1, RespApart DEF TypeInv
    <2>4. \A i \in head+1..hwTail-1 : Resp(i)' # None
      BY <2>2, <2>3 DEF ContentInv, TypeInv
    <2> QED
      BY <1>2, <2>1, <2>4 DEF PollMark, ContentInv, Req, TypeInv
  <1>3. CASE \/ PollBankEnter(c) \/ PollInstEnter(c) \/ PollTest(c)
             \/ PollRetire(c) \/ PollNothing(c) \/ PollHead(c)
             \/ PollRelease(c) \/ PollUnlock(c)
    BY <1>3, ContentSame
    DEF PollBankEnter, PollInstEnter, PollTest, PollRetire, PollNothing,
        PollHead, PollRelease, PollUnlock
  <1> QED
    BY <1>1, <1>2, <1>3 DEF Poller

\* ContentInv holds in every reachable state.
LEMMA ContentInvariance == Spec => []ContentInv
  <1>1. Init => ContentInv
    BY DEF Init, ContentInv
  <1>2. IInv /\ SpaceInv /\ ContentInv /\ [Next]_vars => ContentInv'
    <2> SUFFICES ASSUME IInv, SpaceInv, ContentInv, [Next]_vars
                 PROVE  ContentInv'
      OBVIOUS
    <2>1. CASE UNCHANGED vars
      BY <2>1, ContentSame
      DEF vars, reqVars, hwVars, respVars, prodVars, IInv
    <2> QED
      BY <2>1, ProducerContent, DeviceContent, PollerContent DEF Next
  <1> QED
    BY <1>1, <1>2, Invariance, SpaceInvariance, PTL DEF Spec

-----------------------------------------------------------------------------
(* No cookie is in two places, provided that the request ring has room for *)
(* num_msgs messages.                                                      *)

\* A cookie that goes from one kind of place to another.
LEMMA MoveCookie ==
    ASSUME NEW P, NEW H, NEW F, NEW S, NEW U, NEW t, Parted(P, H, F, S, U)
    PROVE  /\ t \in P => Parted(P \ {t}, H \cup {t}, F, S, U)
           /\ t \in H => Parted(P \cup {t}, H \ {t}, F, S, U)
           /\ t \in H => Parted(P, H \ {t}, F \cup {t}, S, U)
           /\ t \in F => Parted(P, H, F \ {t}, S \cup {t}, U)
           /\ t \in S => Parted(P, H, F, S \ {t}, U \cup {t})
           /\ t \in U => Parted(P \cup {t}, H, F, S, U \ {t})
  BY DEF Parted

\* The first response without a callback is the head or the one after it.
LEMMA FirstRange ==
    ASSUME IInv
    PROVE  First \in Nat /\ First \in {head, head + 1} /\ First <= hwTail
  BY DEF First, IInv, TypeInv, CounterInv

LEMMA PlaceSame ==
    ASSUME PlaceInv,
           UNCHANGED <<pool, ptag, reqSlot, hwHead, csrTail, hw, respSlot,
                       First, hwTail>>
    PROVE  PlaceInv' /\ UNCHANGED <<Fetched, Served, Answers>>
  <1>1. DistinctInv'
    BY DEF PlaceInv, DistinctInv, Req, Resp
  <1>2. UNCHANGED <<pool, Held, Fetched, Served, Answers>>
    BY DEF Held, Fetched, Served, Answers, Req, Resp
  <1>3. Parted(pool', Held', Fetched', Served', Answers')
    BY <1>2 DEF PlaceInv
  <1> QED
    BY <1>1, <1>2, <1>3 DEF PlaceInv

LEMMA AllocPlaces ==
    ASSUME IInv, ContentInv, PlaceInv, NEW p \in Producers, Alloc(p)
    PROVE  PlaceInv' /\ UNCHANGED <<Fetched, Served, Answers, First, tail>>
  <1> TypeInv
    BY DEF IInv
  <1> PICK t \in pool : pool' = pool \ {t} /\ ptag' = [ptag EXCEPT ![p] = t]
    BY DEF Alloc
  <1>1. /\ UNCHANGED <<reqSlot, hwHead, csrTail, hw, respSlot, hwTail, head, cpc,
                       tail>>
        /\ ppc[p] = "idle"
    BY DEF Alloc, reqVars, hwVars, respVars, pollVars
  <1>2. ptag[p] = None /\ t # None /\ t \notin Held
    BY <1>1, NoneAssumption DEF ContentInv, PlaceInv, Parted
  <1>3. Held' = Held \cup {t}
    BY <1>2 DEF Held, TypeInv
  <1>4. /\ Fetched' = Fetched /\ Served' = Served /\ Answers' = Answers
        /\ First' = First
    BY <1>1 DEF Fetched, Served, Answers, First, Req, Resp
  <1>5. DistinctInv'
    <2>1. \A q \in Producers : ptag[q] # None => ptag[q] # t
      BY <1>2 DEF Held
    <2>2. \A q, r \in Producers : ptag'[q] = ptag'[r] /\ ptag'[q] # None => q = r
      BY <2>1 DEF PlaceInv, DistinctInv, TypeInv
    <2> QED
      BY <1>1, <1>4, <2>2 DEF PlaceInv, DistinctInv, Req, Resp
  <1>6. Parted(pool', Held', Fetched', Served', Answers')
    BY <1>3, <1>4, MoveCookie DEF PlaceInv
  <1> QED
    BY <1>1, <1>4, <1>5, <1>6 DEF PlaceInv

LEMMA BackoutPlaces ==
    ASSUME IInv, ContentInv, PlaceInv, NEW p \in Producers, Backout(p)
    PROVE  PlaceInv' /\ UNCHANGED <<Fetched, Served, Answers, First, tail>>
  <1> TypeInv
    BY DEF IInv
  <1> DEFINE t == ptag[p]
  <1>1. /\ UNCHANGED <<reqSlot, hwHead, csrTail, hw, respSlot, hwTail, head, cpc,
                       tail>>
        /\ ppc[p] = "retry"
        /\ pool' = pool \cup {t} /\ ptag' = [ptag EXCEPT ![p] = None]
    BY DEF Backout, reqVars, hwVars, respVars, pollVars
  <1>2. t # None /\ t \in Held
    BY <1>1 DEF ContentInv, Held
  <1>3. Held' = Held \ {t}
    BY <1>1, <1>2 DEF Held, TypeInv, PlaceInv, DistinctInv
  <1>4. /\ Fetched' = Fetched /\ Served' = Served /\ Answers' = Answers
        /\ First' = First
    BY <1>1 DEF Fetched, Served, Answers, First, Req, Resp
  <1>5. DistinctInv'
    BY <1>1, <1>4 DEF PlaceInv, DistinctInv, Req, Resp, TypeInv
  <1>6. Parted(pool', Held', Fetched', Served', Answers')
    BY <1>1, <1>2, <1>3, <1>4, MoveCookie DEF PlaceInv
  <1> QED
    BY <1>1, <1>4, <1>5, <1>6 DEF PlaceInv

\* The slot that is written holds no request the device has to fetch.
LEMMA WritePlaces ==
    ASSUME NumMsgs <= ReqSlots, IInv, PlaceInv,
           NEW p \in Producers, PutWrite(p)
    PROVE  PlaceInv' /\ UNCHANGED <<Fetched, Served, Answers, First, tail>>
  <1> TypeInv /\ CounterInv
    BY DEF IInv
  <1>1. /\ UNCHANGED <<pool, ptag, hwHead, csrTail, hw, respSlot, hwTail, head,
                       cpc, tail>>
        /\ ppc[p] = "write"
        /\ reqSlot' = [reqSlot EXCEPT ![Slot(tail, ReqSlots)] = ptag[p]]
    BY DEF PutWrite, hwVars, respVars, pollVars
  <1>2. \A i \in hwHead..csrTail-1 : Req(i)' = Req(i)
    <2> TAKE i \in hwHead..csrTail-1
    <2>1. tail - hwHead < ReqSlots - 1
      BY <1>1, RequestRoom
    <2>2. i \in Nat /\ i < tail /\ tail < i + ReqSlots
      BY <2>1, GeometryAssumption DEF TypeInv, CounterInv
    <2>3. Slot(i, ReqSlots) # Slot(tail, ReqSlots)
      BY <2>2, SameLapSlots, GeometryAssumption DEF TypeInv
    <2> QED
      BY <1>1, <2>2, <2>3, WriteReq DEF TypeInv
  <1>3. Fetched' = Fetched
    BY <1>1, <1>2 DEF Fetched
  <1>4. /\ Held' = Held /\ Served' = Served /\ Answers' = Answers
        /\ First' = First
    BY <1>1 DEF Held, Served, Answers, First, Resp
  <1>5. DistinctInv'
    BY <1>1, <1>2, <1>4 DEF PlaceInv, DistinctInv, Resp
  <1>6. Parted(pool', Held', Fetched', Served', Answers')
    BY <1>1, <1>3, <1>4 DEF PlaceInv
  <1> QED
    BY <1>1, <1>3, <1>4, <1>5, <1>6 DEF PlaceInv

LEMMA TailPlaces ==
    ASSUME IInv, ContentInv, PlaceInv, NEW p \in Producers, PutTail(p)
    PROVE  /\ PlaceInv'
           /\ Fetched' = Fetched \cup {ptag[p]} /\ ptag[p] \in Held
           /\ UNCHANGED <<Served, Answers, First>>
           /\ tail' = tail + 1
  <1> TypeInv /\ CounterInv
    BY DEF IInv
  <1> DEFINE t == ptag[p]
  <1>1. /\ UNCHANGED <<pool, reqSlot, hwHead, hw, respSlot, hwTail, head, cpc>>
        /\ ppc[p] = "tail" /\ csrTail' = csrTail + 1 /\ tail = csrTail
        /\ tail' = tail + 1
        /\ ptag' = [ptag EXCEPT ![p] = None]
    BY DEF PutTail, hwVars, respVars, pollVars, CounterInv
  <1>2. t # None /\ t \in Held /\ Req(csrTail) = t
    BY <1>1 DEF ContentInv, Held
  <1>3. Held' = Held \ {t}
    BY <1>1, <1>2 DEF Held, TypeInv, PlaceInv, DistinctInv
  <1>4. \A i \in hwHead..csrTail : i = csrTail \/ i \in hwHead..csrTail-1
    BY DEF TypeInv
  <1>5. hwHead..csrTail'-1 = hwHead..csrTail /\ csrTail \in hwHead..csrTail
    BY <1>1 DEF TypeInv, CounterInv
  <1>6. \A i : Req(i)' = Req(i)
    BY <1>1 DEF Req
  <1>7. Fetched' = Fetched \cup {t}
    <2>1. hwHead..csrTail-1 \subseteq hwHead..csrTail
      BY DEF TypeInv
    <2> QED
      BY <1>1, <1>2, <1>4, <1>5, <1>6, <2>1 DEF Fetched
  <1>8. Served' = Served /\ Answers' = Answers /\ First' = First
    BY <1>1 DEF Served, Answers, First, Resp
  <1>9. DistinctInv'
    <2>1. t \notin Fetched
      BY <1>2 DEF PlaceInv, Parted
    <2>2. \A i \in hwHead..csrTail-1 : Req(i) # t
      BY <2>1 DEF Fetched
    <2>3. \A i, j \in hwHead..csrTail : Req(i) = Req(j) => i = j
      BY <1>2, <1>4, <2>2 DEF PlaceInv, DistinctInv
    <2>4. \A i, j \in hwHead'..csrTail'-1 : Req(i)' = Req(j)' => i = j
      BY <1>1, <1>5, <1>6, <2>3
    <2>5. \A q, r \in Producers : ptag'[q] = ptag'[r] /\ ptag'[q] # None => q = r
      BY <1>1 DEF PlaceInv, DistinctInv, TypeInv
    <2> QED
      BY <1>1, <1>8, <2>4, <2>5 DEF PlaceInv, DistinctInv, Resp
  <1>10. Parted(pool', Held', Fetched', Served', Answers')
    BY <1>1, <1>2, <1>3, <1>7, <1>8, MoveCookie DEF PlaceInv
  <1> QED
    BY <1>1, <1>2, <1>7, <1>8, <1>9, <1>10 DEF PlaceInv

LEMMA FetchPlaces ==
    ASSUME IInv, PlaceInv, HwFetch
    PROVE  /\ PlaceInv'
           /\ \E t \in Fetched : /\ Fetched' = Fetched \ {t}
                                 /\ Served' = Served \cup {t}
           /\ UNCHANGED <<Answers, First, tail>>
  <1> TypeInv /\ CounterInv
    BY DEF IInv
  <1> DEFINE t == Req(hwHead)
  <1>1. /\ UNCHANGED <<pool, ptag, ppc, reqSlot, csrTail, respSlot, hwTail,
                       head, cpc, tail>>
        /\ hwHead' = hwHead + 1 /\ hw' = Append(hw, t)
        /\ hwHead < csrTail
    BY DEF HwFetch, reqVars, respVars, prodVars, pollVars, Req, CounterInv,
           TypeInv
  <1>2. t \in Tags \cup {None} /\ t \in Fetched
    <2>1. hwHead \in hwHead..csrTail-1
      BY <1>1 DEF TypeInv
    <2>2. t \in Tags \cup {None}
      BY Slots DEF TypeInv
    <2> QED
      BY <2>1, <2>2 DEF Fetched
  <1>3. \A i : Req(i)' = Req(i)
    BY <1>1 DEF Req
  <1>4. /\ \A i \in hwHead..csrTail-1 : i = hwHead \/ i \in hwHead+1..csrTail-1
        /\ \A i \in hwHead+1..csrTail-1 : i \in hwHead..csrTail-1 /\ i # hwHead
        /\ hwHead \in hwHead..csrTail-1
    BY <1>1 DEF TypeInv
  <1>5. \A i \in hwHead+1..csrTail-1 : Req(i) # t
    BY <1>4 DEF PlaceInv, DistinctInv
  <1>6. Fetched' = Fetched \ {t}
    BY <1>1, <1>3, <1>4, <1>5 DEF Fetched
  <1>7. /\ DOMAIN hw = 1..Len(hw) /\ Len(hw) \in Nat
        /\ DOMAIN hw' = 1..Len(hw)+1
        /\ \A k \in 1..Len(hw) : hw'[k] = hw[k]
        /\ hw'[Len(hw)+1] = t
        /\ \A k \in 1..Len(hw)+1 : k \in 1..Len(hw) \/ k = Len(hw)+1
        /\ 1..Len(hw) \subseteq 1..Len(hw)+1
        /\ Len(hw)+1 \in 1..Len(hw)+1
    BY <1>1, <1>2, AppendElements DEF TypeInv
  <1>8. Served' = Served \cup {t}
    BY <1>7 DEF Served
  <1>9. /\ Held' = Held /\ Answers' = Answers /\ First' = First
    BY <1>1 DEF Held, Answers, First, Resp
  <1>10. DistinctInv'
    <2>1. \A k \in 1..Len(hw) : hw[k] # t
      BY <1>2, <1>7 DEF PlaceInv, Parted, Served
    <2>2. \A k, l \in DOMAIN hw' : hw'[k] = hw'[l] => k = l
      BY <1>7, <2>1 DEF PlaceInv, DistinctInv
    <2>3. \A i, j \in hwHead'..csrTail'-1 : Req(i)' = Req(j)' => i = j
      BY <1>1, <1>3, <1>4 DEF PlaceInv, DistinctInv
    <2> QED
      BY <1>1, <1>9, <2>2, <2>3 DEF PlaceInv, DistinctInv, Resp
  <1>11. Parted(pool', Held', Fetched', Served', Answers')
    BY <1>1, <1>2, <1>6, <1>8, <1>9, MoveCookie DEF PlaceInv
  <1> QED
    BY <1>1, <1>2, <1>6, <1>8, <1>9, <1>10, <1>11 DEF PlaceInv

LEMMA RespondPlaces ==
    ASSUME IInv, SpaceInv, PlaceInv, HwRespond
    PROVE  /\ PlaceInv'
           /\ \E t \in Served : /\ Served' = Served \ {t}
                                /\ Answers' = Answers \cup {t}
           /\ UNCHANGED <<Fetched, First, tail>>
  <1> TypeInv /\ CounterInv
    BY DEF IInv
  <1> PICK k \in DOMAIN hw :
             /\ respSlot' = [respSlot EXCEPT ![Slot(hwTail, RespSlots)] = hw[k]]
             /\ hw' = RemoveAt(hw, k)
    BY DEF HwRespond
  <1> DEFINE t == hw[k]
  <1>1. /\ UNCHANGED <<pool, ptag, ppc, reqSlot, csrTail, hwHead, head, cpc,
                       tail>>
        /\ hwTail' = hwTail + 1
    BY DEF HwRespond, reqVars, prodVars, pollVars
  <1>2. /\ DOMAIN hw = 1..Len(hw) /\ Len(hw) \in Nat
        /\ DOMAIN hw' = 1..Len(hw)-1
        /\ \A l \in 1..Len(hw)-1 : hw'[l] = IF l < k THEN hw[l] ELSE hw[l+1]
    BY RemoveAtElements DEF TypeInv
  <1>3. t \in Served /\ t \in Tags \cup {None}
    BY DEF Served, TypeInv
  <1>4. \A i, j \in DOMAIN hw : hw[i] = hw[j] => i = j
    BY DEF PlaceInv, DistinctInv
  <1>5. Served' = Served \ {t}
    <2>1. ASSUME NEW l \in DOMAIN hw'
          PROVE  \E m \in DOMAIN hw : m # k /\ hw'[l] = hw[m]
      <3>1. CASE l < k
        BY <1>2, <3>1
      <3>2. CASE ~ l < k
        BY <1>2, <3>2
      <3> QED
        BY <3>1, <3>2
    <2>2. ASSUME NEW m \in DOMAIN hw, m # k
          PROVE  \E l \in DOMAIN hw' : hw'[l] = hw[m]
      <3>1. CASE m < k
        <4>1. m \in DOMAIN hw' /\ hw'[m] = hw[m]
          BY <1>2, <2>2, <3>1
        <4> QED
          BY <4>1
      <3>2. CASE ~ m < k
        <4>1. m-1 \in DOMAIN hw' /\ hw'[m-1] = hw[m]
          BY <1>2, <2>2, <3>2
        <4> QED
          BY <4>1
      <3> QED
        BY <3>1, <3>2
    <2> QED
      BY <1>4, <2>1, <2>2 DEF Served
  <1>6. First' = First /\ First \in Nat /\ head <= First /\ First <= hwTail
    BY <1>1, FirstRange DEF First, TypeInv
  <1>7. /\ \A i \in First..hwTail-1 : Resp(i)' = Resp(i)
        /\ respSlot'[Slot(hwTail, RespSlots)] = t
    <2>1. \A i \in Nat :
              Resp(i)' = IF Slot(i, RespSlots) = Slot(hwTail, RespSlots)
                         THEN t ELSE Resp(i)
      BY WriteResp DEF TypeInv
    <2>2. ASSUME NEW i \in First..hwTail-1
          PROVE  Slot(i, RespSlots) # Slot(hwTail, RespSlots)
      <3>1. /\ i \in head..hwTail /\ hwTail \in head..hwTail /\ i # hwTail
        BY <1>6, <2>2 DEF TypeInv, CounterInv
      <3> QED
        BY <3>1, RespApart
    <2>3. ASSUME NEW i \in First..hwTail-1 PROVE Resp(i)' = Resp(i)
      BY <1>6, <2>1, <2>2
    <2>4. respSlot'[Slot(hwTail, RespSlots)] = t
      BY Slots DEF TypeInv
    <2> QED
      BY <2>3, <2>4
  <1>8. /\ \A i \in First..hwTail : i = hwTail \/ i \in First..hwTail-1
        /\ First..hwTail-1 \subseteq First..hwTail
        /\ hwTail \in First..hwTail /\ First'..hwTail'-1 = First..hwTail
    BY <1>1, <1>6 DEF TypeInv
  <1>9. /\ \A i \in First..hwTail-1 : respSlot'[Slot(i, RespSlots)] = Resp(i)
        /\ respSlot'[Slot(hwTail, RespSlots)] = t
    BY <1>7 DEF Resp
  <1>10. Answers' = Answers \cup {t}
    <2>1. Answers' = {respSlot'[Slot(i, RespSlots)] : i \in First..hwTail}
      BY <1>8 DEF Answers, Resp
    <2> QED
      BY <1>8, <1>9, <2>1 DEF Answers
  <1>11. Held' = Held /\ Fetched' = Fetched
    BY <1>1 DEF Held, Fetched, Req
  <1>12. DistinctInv'
    <2>1. \A l, m \in DOMAIN hw' : hw'[l] = hw'[m] => l = m
      <3> TAKE l, m \in DOMAIN hw'
      <3> HAVE hw'[l] = hw'[m]
      <3> DEFINE u(n) == IF n < k THEN n ELSE n+1
      <3>1. /\ u(l) \in DOMAIN hw /\ hw'[l] = hw[u(l)]
            /\ u(m) \in DOMAIN hw /\ hw'[m] = hw[u(m)]
        BY <1>2
      <3>2. u(l) = u(m)
        BY <1>4, <3>1
      <3> QED
        BY <1>2, <3>2
    <2>2. t \notin Answers
      BY <1>3 DEF PlaceInv, Parted
    <2>3. \A i \in First..hwTail-1 : Resp(i) # t
      BY <2>2 DEF Answers
    <2>4. \A i, j \in First..hwTail :
              respSlot'[Slot(i, RespSlots)] = respSlot'[Slot(j, RespSlots)]
              => i = j
      BY <1>8, <1>9, <2>3 DEF PlaceInv, DistinctInv
    <2>5. \A i, j \in First'..hwTail'-1 : Resp(i)' = Resp(j)' => i = j
      BY <1>8, <2>4 DEF Resp
    <2> QED
      BY <1>1, <2>1, <2>5 DEF PlaceInv, DistinctInv, Req
  <1>13. Parted(pool', Held', Fetched', Served', Answers')
    BY <1>1, <1>3, <1>5, <1>10, <1>11, MoveCookie DEF PlaceInv
  <1> QED
    BY <1>1, <1>3, <1>5, <1>6, <1>10, <1>11, <1>12, <1>13 DEF PlaceInv

\* The poller that is between a callback and its mark is the only one.
LEMMA OneMarker ==
    ASSUME TypeInv, GuardInv, NEW c \in Pollers, Polling(c)
    PROVE  \A d \in Pollers : cpc[d] = "mark" => d = c
  BY DEF GuardInv, PollExclusion, Polling

LEMMA CallbackPlaces ==
    ASSUME IInv, ContentInv, PlaceInv, NEW c \in Pollers, PollCallback(c)
    PROVE  /\ PlaceInv'
           /\ First = head /\ First' = head + 1 /\ First < hwTail
           /\ Answers' = Answers \ {Resp(head)} /\ Resp(head) \in Answers
           /\ UNCHANGED <<Fetched, Served, tail>>
  <1> TypeInv /\ CounterInv /\ GuardInv /\ SlotInv
    BY DEF IInv
  <1> DEFINE t == Resp(head)
  <1>1. /\ UNCHANGED <<ptag, ppc, reqSlot, hwHead, csrTail, hw, respSlot,
                       hwTail, head, tail>>
        /\ cpc[c] = "loop" /\ cpc' = [cpc EXCEPT ![c] = "mark"]
        /\ t # None /\ pool' = pool \cup {t}
    BY DEF PollCallback, reqVars, hwVars, respVars, prodVars, MoreToDo, Resp
  <1>2. First = head
    BY <1>1, OneMarker DEF First, Polling
  <1>3. First' = head + 1
    BY <1>1 DEF First, TypeInv
  <1>4. head < hwTail
    <2>1. Slot(head, RespSlots) \in 0..RespSlots-1
      BY Slots DEF TypeInv
    <2>2. PICK i \in head..hwTail-1 : Slot(head, RespSlots) = Slot(i, RespSlots)
      BY <1>1, <2>1 DEF SlotInv, Resp
    <2> QED
      BY <2>2 DEF TypeInv
  <1>5. /\ \A i \in head..hwTail-1 : i = head \/ i \in head+1..hwTail-1
        /\ \A i \in head+1..hwTail-1 : i \in head..hwTail-1 /\ i # head
        /\ head \in head..hwTail-1
    BY <1>4 DEF TypeInv
  <1>6. \A i : Resp(i)' = Resp(i)
    BY <1>1 DEF Resp
  <1>7. \A i, j \in head..hwTail-1 : Resp(i) = Resp(j) => i = j
    BY <1>2 DEF PlaceInv, DistinctInv
  <1>8. Answers' = Answers \ {t} /\ t \in Answers
    <2>1. Answers = {Resp(i) : i \in head..hwTail-1}
      BY <1>2 DEF Answers
    <2>2. Answers' = {Resp(i) : i \in head+1..hwTail-1}
      BY <1>1, <1>3, <1>6 DEF Answers
    <2>3. \A i \in head+1..hwTail-1 : Resp(i) # t
      BY <1>5, <1>7
    <2> QED
      BY <1>5, <2>1, <2>2, <2>3
  <1>9. Held' = Held /\ Fetched' = Fetched /\ Served' = Served
    BY <1>1 DEF Held, Fetched, Served, Req
  <1>10. DistinctInv'
    <2>1. \A i, j \in First'..hwTail'-1 : Resp(i)' = Resp(j)' => i = j
      BY <1>1, <1>3, <1>5, <1>6, <1>7
    <2> QED
      BY <1>1, <2>1 DEF PlaceInv, DistinctInv, Req
  <1>11. Parted(pool', Held', Fetched', Served', Answers')
    BY <1>1, <1>8, <1>9, MoveCookie DEF PlaceInv
  <1> QED
    BY <1>1, <1>2, <1>3, <1>4, <1>8, <1>9, <1>10, <1>11 DEF PlaceInv

\* The slot that is emptied is the one whose callback was made.
LEMMA MarkPlaces ==
    ASSUME IInv, SpaceInv, PlaceInv, NEW c \in Pollers, PollMark(c)
    PROVE  PlaceInv' /\ UNCHANGED <<Fetched, Served, Answers, First, tail>>
  <1> TypeInv /\ CounterInv /\ GuardInv
    BY DEF IInv
  <1>1. /\ UNCHANGED <<pool, ptag, ppc, reqSlot, hwHead, csrTail, hw, hwTail,
                       tail>>
        /\ cpc[c] = "mark" /\ cpc' = [cpc EXCEPT ![c] = "loop"]
        /\ respSlot' = [respSlot EXCEPT ![Slot(head, RespSlots)] = None]
        /\ head' = head + 1
    BY DEF PollMark, reqVars, hwVars, prodVars
  <1>2. First = head + 1
    BY <1>1 DEF First
  <1>3. First' = head + 1
    <2>1. \A d \in Pollers : cpc'[d] # "mark"
      BY <1>1, OneMarker DEF TypeInv, Polling
    <2> QED
      BY <1>1, <2>1 DEF First
  <1>4. \A i \in First..hwTail-1 : Resp(i)' = Resp(i)
    <2> SUFFICES ASSUME NEW i \in First..hwTail-1
                 PROVE  Resp(i)' = Resp(i)
      OBVIOUS
    <2>1. /\ i \in Nat /\ i # head
          /\ i \in head..hwTail /\ head \in head..hwTail
      BY <1>2 DEF TypeInv
    <2>2. Slot(i, RespSlots) # Slot(head, RespSlots)
      BY <2>1, RespApart
    <2> QED
      BY <1>1, <2>1, <2>2, WriteResp DEF TypeInv
  <1>5. First'..hwTail'-1 = First..hwTail-1
    BY <1>1, <1>2, <1>3
  <1>6. Answers' = Answers
    BY <1>4, <1>5 DEF Answers
  <1>7. Held' = Held /\ Fetched' = Fetched /\ Served' = Served
    BY <1>1 DEF Held, Fetched, Served, Req
  <1>8. DistinctInv'
    <2>1. \A i, j \in First'..hwTail'-1 : Resp(i)' = Resp(j)' => i = j
      BY <1>4, <1>5 DEF PlaceInv, DistinctInv
    <2> QED
      BY <1>1, <2>1 DEF PlaceInv, DistinctInv, Req
  <1>9. Parted(pool', Held', Fetched', Served', Answers')
    BY <1>1, <1>6, <1>7 DEF PlaceInv
  <1> QED
    BY <1>1, <1>2, <1>3, <1>6, <1>7, <1>8, <1>9 DEF PlaceInv

\* The other steps move no cookie.
LEMMA StillPlaces ==
    ASSUME IInv, PlaceInv,
           \/ \E p \in Producers : PutReserve(p) \/ PutUndo(p)
           \/ \E c \in Pollers : Poller(c) /\ ~PollCallback(c) /\ ~PollMark(c)
           \/ UNCHANGED vars
    PROVE  /\ PlaceInv'
           /\ UNCHANGED <<Fetched, Served, Answers, First, tail>>
  <1> TypeInv
    BY DEF IInv
  <1>1. ASSUME UNCHANGED <<pool, ptag, reqSlot, hwHead, csrTail, hw, respSlot,
                           hwTail, head, tail>>,
               \A c \in Pollers : cpc'[c] = "mark" <=> cpc[c] = "mark"
        PROVE  /\ PlaceInv'
               /\ UNCHANGED <<Fetched, Served, Answers, First, tail>>
    <2>1. First' = First
      BY <1>1 DEF First
    <2> QED
      BY <1>1, <2>1, PlaceSame
  <1>2. CASE \E p \in Producers : PutReserve(p) \/ PutUndo(p)
    BY <1>1, <1>2 DEF PutReserve, PutUndo, hwVars, respVars, pollVars
  <1>3. CASE \E c \in Pollers : Poller(c) /\ ~PollCallback(c) /\ ~PollMark(c)
    <2> PICK c \in Pollers :
               \/ PollBankEnter(c) \/ PollInstEnter(c) \/ PollTest(c)
               \/ PollRetire(c) \/ PollNothing(c) \/ PollHead(c)
               \/ PollRelease(c) \/ PollUnlock(c)
      BY <1>3 DEF Poller
    <2>1. UNCHANGED <<pool, ptag, reqSlot, hwHead, csrTail, hw, respSlot,
                      hwTail, head, tail>>
      BY DEF PollBankEnter, PollInstEnter, PollTest, PollRetire, PollNothing,
         PollHead, PollRelease, PollUnlock, reqVars, hwVars, respVars, prodVars
    <2>2. \A d \in Pollers : cpc'[d] = "mark" <=> cpc[d] = "mark"
      BY DEF PollBankEnter, PollInstEnter, PollTest, PollRetire, PollNothing,
         PollHead, PollRelease, PollUnlock, TypeInv
    <2> QED
      BY <1>1, <2>1, <2>2
  <1>4. CASE UNCHANGED vars
    BY <1>1, <1>4 DEF vars, reqVars, hwVars, respVars, prodVars, pollVars
  <1> QED
    BY <1>2, <1>3, <1>4

LEMMA PlaceStep ==
    ASSUME NumMsgs <= ReqSlots, IInv, SpaceInv, ContentInv, PlaceInv,
           [Next]_vars
    PROVE  PlaceInv'
  <1>1. ASSUME NEW p \in Producers, Producer(p) PROVE PlaceInv'
    BY <1>1, AllocPlaces, BackoutPlaces, WritePlaces, TailPlaces, StillPlaces
       DEF Producer
  <1>2. CASE HwFetch \/ HwRespond
    BY <1>2, FetchPlaces, RespondPlaces
  <1>3. ASSUME NEW c \in Pollers, Poller(c) PROVE PlaceInv'
    BY <1>3, CallbackPlaces, MarkPlaces, StillPlaces
  <1> QED
    BY <1>1, <1>2, <1>3, StillPlaces DEF Next

\* PlaceInv holds in every reachable state.
LEMMA PlaceInvariance == NumMsgs <= ReqSlots => (Spec => []PlaceInv)
  <1> SUFFICES ASSUME NumMsgs <= ReqSlots PROVE Spec => []PlaceInv
    OBVIOUS
  <1>1. Init => PlaceInv
    <2> SUFFICES ASSUME Init PROVE PlaceInv
      OBVIOUS
    <2>1. First = 0
      BY DEF Init, First
    <2>2. /\ pool = Tags /\ Held = {} /\ Fetched = {} /\ Served = {}
          /\ Answers = {}
      BY <2>1 DEF Init, Held, Fetched, Served, Answers
    <2>3. DistinctInv
      BY <2>1 DEF Init, DistinctInv
    <2> QED
      BY <2>2, <2>3 DEF PlaceInv, Parted
  <1>2. IInv /\ SpaceInv /\ ContentInv /\ PlaceInv /\ [Next]_vars => PlaceInv'
    BY PlaceStep
  <1> QED
    BY <1>1, <1>2, Invariance, SpaceInvariance, ContentInvariance, PTL
       DEF Spec

-----------------------------------------------------------------------------
(* Counting the cookies.                                                   *)

\* The two ways to say which responses still wait for their callback.
LEMMA FirstIsCalled ==
    ASSUME TypeInv, GuardInv
    PROVE  Called \in Nat /\ First = head + Called
  <1> DEFINE M == {c \in Pollers : cpc[c] = "mark"}
  <1>1. CASE \E c \in Pollers : cpc[c] = "mark"
    <2> PICK c \in Pollers : cpc[c] = "mark"
      BY <1>1
    <2>1. M = {c}
      BY OneMarker DEF Polling
    <2>2. Called = 1
      BY <2>1, FS_Singleton DEF Called
    <2> QED
      BY <1>1, <2>2 DEF First
  <1>2. CASE ~\E c \in Pollers : cpc[c] = "mark"
    <2>1. M = {}
      BY <1>2
    <2>2. Called = 0
      BY <2>1, FS_EmptySet DEF Called
    <2> QED
      BY <1>2, <2>2 DEF First, TypeInv
  <1> QED
    BY <1>1, <1>2

\* Hence the places of this module are those of TransportRing.
LEMMA SamePlaces ==
    ASSUME TypeInv, GuardInv
    PROVE  /\ Fetchable = Fetched /\ Unread = Answers
           /\ Outstanding = InChannel
  <1>1. Fetchable = Fetched
    BY DEF Fetchable, Fetched, Req
  <1>2. Unread = Answers
    BY FirstIsCalled DEF Unread, Answers, Resp
  <1> QED
    BY <1>1, <1>2 DEF Outstanding, InChannel

\* The values of a function that is one-to-one are as many as its arguments.
LEMMA ImageCount ==
    ASSUME NEW f, NEW S, NEW T, IsFiniteSet(S),
           \A x \in T : \E i \in S : x = f[i],
           \A i \in S : f[i] \in T,
           \A i, j \in S : f[i] = f[j] => i = j
    PROVE  IsFiniteSet(T) /\ Cardinality(T) = Cardinality(S)
  <1> DEFINE g == [i \in S |-> f[i]]
  <1>1. g \in Bijection(S, T)
    BY Fun_IsBij
  <1>2. ExistsBijection(S, T)
    BY <1>1 DEF ExistsBijection
  <1> QED
    BY <1>2, FS_Bijection

\* The messages from a up to b.
LEMMA SpanCount ==
    ASSUME NEW a \in Int, NEW b \in Int, a <= b
    PROVE  IsFiniteSet(a..b-1) /\ Cardinality(a..b-1) = b - a
  <1>1. b - 1 \in Int
    OBVIOUS
  <1>2. IsFiniteSet(a..b-1) /\ Cardinality(a..b-1) = IF a > b-1 THEN 0 ELSE (b-1)-a+1
    BY <1>1, FS_Interval
  <1> QED
    BY <1>2

\* How many requests wait in the request ring, in the device, and in the
\* response ring for their callback.
LEMMA PlaceCounts ==
    ASSUME IInv, PlaceInv
    PROVE  /\ IsFiniteSet(Fetched) /\ Cardinality(Fetched) = csrTail - hwHead
           /\ IsFiniteSet(Served) /\ Cardinality(Served) = Len(hw)
           /\ IsFiniteSet(Answers) /\ Cardinality(Answers) = hwTail - First
  <1> TypeInv /\ CounterInv
    BY DEF IInv
  <1>1. IsFiniteSet(Fetched) /\ Cardinality(Fetched) = csrTail - hwHead
    <2> DEFINE S == hwHead..csrTail-1
             f == [i \in S |-> Req(i)]
    <2>1. \A i, j \in S : f[i] = f[j] => i = j
      BY DEF PlaceInv, DistinctInv
    <2>2. /\ \A x \in Fetched : \E i \in S : x = f[i]
          /\ \A i \in S : f[i] \in Fetched
      BY DEF Fetched
    <2>3. IsFiniteSet(S) /\ Cardinality(S) = csrTail - hwHead
      <3>1. hwHead \in Int /\ csrTail \in Int /\ hwHead <= csrTail
        BY DEF TypeInv, CounterInv
      <3> QED
        BY <3>1, SpanCount
    <2> HIDE DEF S, f
    <2>4. IsFiniteSet(Fetched) /\ Cardinality(Fetched) = Cardinality(S)
      BY <2>1, <2>2, <2>3, ImageCount
    <2> QED
      BY <2>3, <2>4
  <1>2. IsFiniteSet(Served) /\ Cardinality(Served) = Len(hw)
    <2> DEFINE S == DOMAIN hw
             f == hw
    <2>1. \A i, j \in S : f[i] = f[j] => i = j
      BY DEF PlaceInv, DistinctInv
    <2>2. /\ \A x \in Served : \E i \in S : x = f[i]
          /\ \A i \in S : f[i] \in Served
      BY DEF Served
    <2>3. IsFiniteSet(S) /\ Cardinality(S) = Len(hw)
      <3>1. Len(hw) \in Nat /\ DOMAIN hw = 1..Len(hw)
        BY DEF TypeInv
      <3>2. \A n \in Nat : IsFiniteSet(1..n) /\ Cardinality(1..n) = n
        BY FS_Interval
      <3> QED
        BY <3>1, <3>2
    <2> HIDE DEF S, f
    <2>4. IsFiniteSet(Served) /\ Cardinality(Served) = Cardinality(S)
      BY <2>1, <2>2, <2>3, ImageCount
    <2> QED
      BY <2>3, <2>4
  <1>3. IsFiniteSet(Answers) /\ Cardinality(Answers) = hwTail - First
    <2> DEFINE S == First..hwTail-1
             f == [i \in S |-> Resp(i)]
    <2>1. \A i, j \in S : f[i] = f[j] => i = j
      BY DEF PlaceInv, DistinctInv
    <2>2. /\ \A x \in Answers : \E i \in S : x = f[i]
          /\ \A i \in S : f[i] \in Answers
      BY DEF Answers
    <2>3. IsFiniteSet(S) /\ Cardinality(S) = hwTail - First
      BY FirstRange, SpanCount DEF TypeInv
    <2> HIDE DEF S, f
    <2>4. IsFiniteSet(Answers) /\ Cardinality(Answers) = Cardinality(S)
      BY <2>1, <2>2, <2>3, ImageCount
    <2> QED
      BY <2>3, <2>4
  <1> QED
    BY <1>1, <1>2, <1>3

\* The cardinality of a union of sets that have nothing in common.
LEMMA DisjointCount ==
    ASSUME NEW S, NEW T, IsFiniteSet(S), IsFiniteSet(T), S \cap T = {}
    PROVE  /\ IsFiniteSet(S \cup T)
           /\ Cardinality(S) \in Nat /\ Cardinality(T) \in Nat
           /\ Cardinality(S \cup T) = Cardinality(S) + Cardinality(T)
  <1>1. /\ IsFiniteSet(S \cup T)
        /\ Cardinality(S \cup T)
             = Cardinality(S) + Cardinality(T) - Cardinality(S \cap T)
    BY FS_Union
  <1>2. Cardinality(S) \in Nat /\ Cardinality(T) \in Nat
    BY FS_CardinalityType
  <1>3. Cardinality(S \cap T) = 0
    BY FS_EmptySet
  <1> QED
    BY <1>1, <1>2, <1>3

LEMMA OutstandingCount ==
    ASSUME IInv, PlaceInv
    PROVE  /\ IsFiniteSet(Outstanding)
           /\ Cardinality(Outstanding) = tail - First
           /\ Cardinality(Outstanding)
                = (csrTail - hwHead) + Len(hw) + (hwTail - First)
  <1> TypeInv /\ CounterInv /\ GuardInv
    BY DEF IInv
  <1>1. /\ Fetched \cap Served = {}
        /\ (Fetched \cup Served) \cap Answers = {}
    BY DEF PlaceInv, Parted
  <1>2. /\ IsFiniteSet(Fetched \cup Served)
        /\ Cardinality(Fetched \cup Served) = (csrTail - hwHead) + Len(hw)
    <2>1. IsFiniteSet(Fetched) /\ IsFiniteSet(Served)
      BY PlaceCounts
    <2>2. /\ IsFiniteSet(Fetched \cup Served)
          /\ Cardinality(Fetched \cup Served)
               = Cardinality(Fetched) + Cardinality(Served)
      BY <1>1, <2>1, DisjointCount
    <2> QED
      BY <2>2, PlaceCounts
  <1>3. /\ IsFiniteSet(Fetched \cup Served \cup Answers)
        /\ Cardinality(Fetched \cup Served \cup Answers)
             = (csrTail - hwHead) + Len(hw) + (hwTail - First)
    <2>1. IsFiniteSet(Answers)
      BY PlaceCounts
    <2>2. /\ IsFiniteSet(Fetched \cup Served \cup Answers)
          /\ Cardinality(Fetched \cup Served \cup Answers)
               = Cardinality(Fetched \cup Served) + Cardinality(Answers)
      BY <1>1, <1>2, <2>1, DisjointCount
    <2> QED
      BY <1>2, <2>2, PlaceCounts
  <1>4. Len(hw) \in Nat /\ First \in Nat
    BY FirstRange DEF TypeInv
  <1>5. (csrTail - hwHead) + Len(hw) + (hwTail - First) = tail - First
    BY <1>4 DEF TypeInv, CounterInv
  <1> QED
    BY <1>3, <1>5, SamePlaces DEF InChannel

\* Every cookie is in one place and all of them are counted.
LEMMA CookieCount ==
    ASSUME IInv, PlaceInv
    PROVE  Conservation
  <1> TypeInv /\ GuardInv
    BY DEF IInv
  <1>1. /\ Outstanding \cup Held \cup pool = Tags
        /\ pool \cap Held = {}
        /\ (pool \cup Held) \cap Outstanding = {}
        /\ (pool \cup Held) \cup Outstanding = Tags
    BY SamePlaces DEF PlaceInv, Parted, InChannel
  <1>2. pool \in SUBSET Tags /\ Held \in SUBSET Tags
    BY DEF PlaceInv, Parted
  <1>3. IsFiniteSet(pool) /\ IsFiniteSet(Held)
    BY <1>2, FS_Subset, TagsAssumption
  <1>4. /\ IsFiniteSet(pool \cup Held)
        /\ Cardinality(pool) \in Nat /\ Cardinality(Held) \in Nat
        /\ Cardinality(pool \cup Held) = Cardinality(pool) + Cardinality(Held)
    BY <1>1, <1>3, DisjointCount
  <1>5. Cardinality(Tags) = Cardinality(pool \cup Held) + Cardinality(Outstanding)
    BY <1>1, <1>4, OutstandingCount, DisjointCount
  <1>6. Cardinality(Outstanding)
          = (csrTail - hwHead) + Len(hw) + (hwTail - head - Called)
    <2>1. /\ csrTail - hwHead \in Int /\ Len(hw) \in Nat
          /\ hwTail \in Nat /\ head \in Nat
      BY DEF TypeInv
    <2>2. Cardinality(Outstanding)
            = (csrTail - hwHead) + Len(hw) + (hwTail - (head + Called))
      BY OutstandingCount, FirstIsCalled
    <2>3. hwTail - (head + Called) = hwTail - head - Called
      BY <2>1, FirstIsCalled
    <2> QED
      BY <2>2, <2>3
  <1>7. /\ csrTail - hwHead \in Int /\ Len(hw) \in Int
        /\ hwTail - head - Called \in Int
    BY FirstIsCalled DEF TypeInv
  <1>8. Cardinality(pool) + Cardinality(Held)
          + (csrTail - hwHead) + Len(hw) + (hwTail - head - Called)
          = Cardinality(Tags)
    BY <1>4, <1>5, <1>6, <1>7
  <1> QED
    BY <1>1, <1>8 DEF Conservation

-----------------------------------------------------------------------------
(* The results about the specification.                                    *)

\* The slots between the head and what the device wrote hold responses and
\* every other slot reads EMPTY_RING_SIG_WORD: the loop of
\* adf_user_notify_msgs_poll stops exactly where the device has not written.
THEOREM SentinelTruthful == Spec => []SentinelSound
  <1>1. IInv /\ ContentInv => SentinelSound
    BY DEF IInv, SlotInv, ContentInv, Resp, SentinelSound
  <1> QED
    BY <1>1, Invariance, ContentInvariance, PTL

\* adf_user_put_msg refuses a request only when as many as the ring may have
\* in flight are accepted and not yet taken off the counter.
THEOREM RetryHonest == Spec => RetryOnlyWhenFull
  <1>1. IInv /\ [Next]_vars =>
          [\A p \in Producers : ppc[p] = "put" /\ ppc'[p] = "undo" =>
              \/ tail - head >= MaxRequestsInFlight
              \/ \E c \in Pollers :
                    tail - head + Unretired(c) >= MaxRequestsInFlight]_vars
    <2> SUFFICES ASSUME IInv, [Next]_vars,
                        NEW p \in Producers, ppc[p] = "put", ppc'[p] = "undo"
                 PROVE  \/ tail - head >= MaxRequestsInFlight
                        \/ \E c \in Pollers :
                              tail - head + Unretired(c) >= MaxRequestsInFlight
      OBVIOUS
    <2> TypeInv /\ Accounting
      BY DEF IInv
    <2>1. PutReserve(p)
      BY DEF Next, Producer, Poller, Alloc, PutReserve, PutUndo, Backout,
         PutWrite, PutTail, HwFetch, HwRespond, PollBankEnter, PollInstEnter,
         PollTest, PollCallback, PollMark, PollRetire, PollNothing, PollHead,
         PollRelease, PollUnlock, vars, prodVars, TypeInv
    <2>2. Reserved = 0 /\ inFlight + 1 > MaxRequestsInFlight
      BY <2>1 DEF PutReserve, Reserved, TypeInv
    <2>3. MaxRequestsInFlight \in Int
      BY GeometryAssumption DEF MaxRequestsInFlight
    <2>4. CASE \A c \in Pollers : ~Polling(c)
      <3>1. inFlight = tail - head + 0
        BY <2>2, <2>4 DEF Accounting
      <3> QED
        BY <2>2, <2>3, <3>1 DEF TypeInv
    <2>5. CASE \E c \in Pollers : Polling(c)
      <3> PICK c \in Pollers : Polling(c)
        BY <2>5
      <3>1. inFlight = tail - head + 0 + Unretired(c)
        BY <2>2 DEF Accounting
      <3>2. Unretired(c) \in Nat
        BY DEF Unretired, TypeInv
      <3>3. tail - head + Unretired(c) >= MaxRequestsInFlight
        BY <2>2, <2>3, <3>1, <3>2 DEF TypeInv
      <3> QED
        BY <3>3
    <2> QED
      BY <2>4, <2>5
  <1> QED
    BY <1>1, Invariance, PTL DEF Spec, RetryOnlyWhenFull

\* No request is lost, doubled, overwritten in its slot or answered twice,
\* provided that the request ring has room for num_msgs messages.
THEOREM CookiesConserved == NumMsgs <= ReqSlots => (Spec => []Conservation)
  <1> SUFFICES ASSUME NumMsgs <= ReqSlots PROVE Spec => []Conservation
    OBVIOUS
  <1>1. IInv /\ PlaceInv => Conservation
    BY CookieCount
  <1> QED
    BY <1>1, Invariance, PlaceInvariance, PTL

-----------------------------------------------------------------------------
(* The ring pair implements RequestChannel.                                *)

\* A request is written only while fewer than max_requests_inflight are
\* outstanding: its producer holds the reservation of the last of them.
LEMMA RoomForOne ==
    ASSUME IInv, NEW p \in Producers, PutTail(p)
    PROVE  tail - First < MaxRequestsInFlight
  <1> TypeInv /\ LockInv /\ BoundInv /\ Accounting
    BY DEF IInv
  <1>1. putLock = p
    BY DEF PutTail, LockInv
  <1>2. \A q \in Producers : ppc[q] # "undo"
    BY <1>1 DEF PutTail, LockInv, TypeInv
  <1>3. inFlight <= MaxRequestsInFlight /\ Reserved = 1
    BY <1>1, <1>2, NoneAssumption DEF BoundInv, Reserved
  <1>4. tail - head + 1 <= inFlight
    BY <1>3 DEF Accounting, Unretired, TypeInv
  <1>5. First >= head /\ First \in Nat
    BY FirstRange DEF TypeInv
  <1> QED
    BY <1>3, <1>4, <1>5, GeometryAssumption DEF TypeInv, MaxRequestsInFlight

\* How the state of the channel is found in that of the ring pair.
LEMMA ChannelMapping ==
    TypeInv /\ GuardInv => Outstanding = InChannel /\ head + Called = First
  BY SamePlaces, FirstIsCalled

\* The channel counts as this module does.
LEMMA ChannelCardinality ==
    \A S : Channel!Cardinality(S) = Cardinality(S)
  BY DEF Channel!Cardinality, Cardinality

\* Empty rings are an empty channel.
LEMMA ChannelInit == Init => Channel!Init
  <1> SUFFICES ASSUME Init PROVE Channel!Init
    OBVIOUS
  <1>1. TypeInv /\ GuardInv
    BY InitIInv DEF IInv
  <1>2. First = 0
    BY DEF Init, First
  <1>3. Fetched = {} /\ Served = {} /\ Answers = {}
    BY <1>2 DEF Init, Fetched, Served, Answers
  <1>4. Outstanding = {} /\ head + Called = 0
    BY <1>1, <1>2, <1>3, SamePlaces, FirstIsCalled DEF InChannel
  <1> QED
    BY <1>4 DEF Channel!Init, Init

\* What each step of the ring pair is to the channel: the tail CSR accepts,
\* the callback answers, nothing else shows.
LEMMA ChannelStep ==
    ASSUME NumMsgs <= ReqSlots, IInv, SpaceInv, ContentInv, PlaceInv,
           [Next]_vars
    PROVE  \/ \E t \in Tags : /\ t \notin InChannel
                              /\ InChannel' = InChannel \cup {t}
                              /\ tail - First < MaxRequestsInFlight
                              /\ tail' = tail + 1 /\ First' = First
           \/ \E t \in Tags : /\ t \in InChannel
                              /\ InChannel' = InChannel \ {t}
                              /\ First' = First + 1 /\ tail' = tail
           \/ UNCHANGED <<InChannel, tail, First>>
  <1>1. ASSUME NEW p \in Producers, PutTail(p)
        PROVE  \E t \in Tags : /\ t \notin InChannel /\ InChannel' = InChannel \cup {t}
                               /\ tail - First < MaxRequestsInFlight
                               /\ tail' = tail + 1 /\ First' = First
    <2> DEFINE t == ptag[p]
    <2>1. /\ Fetched' = Fetched \cup {t} /\ t \in Held
          /\ UNCHANGED <<Served, Answers, First>> /\ tail' = tail + 1
      BY <1>1, TailPlaces
    <2>2. t \in Tags /\ t \notin InChannel
      BY <2>1 DEF PlaceInv, Parted, InChannel
    <2>3. InChannel' = InChannel \cup {t}
      BY <2>1 DEF InChannel
    <2>4. tail - First < MaxRequestsInFlight
      BY <1>1, RoomForOne
    <2> QED
      BY <2>1, <2>2, <2>3, <2>4
  <1>2. ASSUME NEW c \in Pollers, PollCallback(c)
        PROVE  \E t \in Tags : /\ t \in InChannel /\ InChannel' = InChannel \ {t}
                               /\ First' = First + 1 /\ tail' = tail
    <2> DEFINE t == Resp(head)
    <2>1. /\ Answers' = Answers \ {t} /\ t \in Answers
          /\ First' = First + 1
          /\ UNCHANGED <<Fetched, Served, tail>>
      BY <1>2, CallbackPlaces
    <2>2. /\ t \in Tags /\ t \notin Fetched /\ t \notin Served
          /\ t \in InChannel
      BY <2>1 DEF PlaceInv, Parted, InChannel
    <2>3. InChannel' = InChannel \ {t}
      BY <2>1, <2>2 DEF InChannel
    <2> QED
      BY <2>1, <2>2, <2>3
  <1>3. CASE HwFetch
    <2>1. InChannel' = InChannel /\ UNCHANGED <<tail, First>>
      BY <1>3, FetchPlaces DEF InChannel
    <2> QED
      BY <2>1
  <1>4. CASE HwRespond
    <2>1. InChannel' = InChannel /\ UNCHANGED <<tail, First>>
      BY <1>4, RespondPlaces DEF InChannel
    <2> QED
      BY <2>1
  <1>5. ASSUME NEW p \in Producers, Producer(p), ~PutTail(p)
        PROVE  UNCHANGED <<InChannel, tail, First>>
    <2>1. UNCHANGED <<Fetched, Served, Answers, First, tail>>
      BY <1>5, AllocPlaces, BackoutPlaces, WritePlaces, StillPlaces
         DEF Producer
    <2> QED
      BY <2>1 DEF InChannel
  <1>6. ASSUME NEW c \in Pollers, Poller(c), ~PollCallback(c)
        PROVE  UNCHANGED <<InChannel, tail, First>>
    <2>1. UNCHANGED <<Fetched, Served, Answers, First, tail>>
      BY <1>6, MarkPlaces, StillPlaces
    <2> QED
      BY <2>1 DEF InChannel
  <1>7. CASE UNCHANGED vars
    <2>1. UNCHANGED <<Fetched, Served, Answers, First, tail>>
      BY <1>7, StillPlaces
    <2> QED
      BY <2>1 DEF InChannel
  <1>8. CASE \E p \in Producers : Producer(p)
    BY <1>1, <1>5, <1>8
  <1>9. CASE \E c \in Pollers : Poller(c)
    BY <1>2, <1>6, <1>9
  <1> QED
    BY <1>3, <1>4, <1>7, <1>8, <1>9 DEF Next

\* Whatever the slots, the counters, the CSRs and the threads do, a service
\* sees a bounded channel that answers each request it accepted once, in any
\* order, provided that the request ring has room for num_msgs messages.
THEOREM ImplementsChannel == NumMsgs <= ReqSlots => (Spec => ChannelSpec)
  <1> SUFFICES ASSUME NumMsgs <= ReqSlots PROVE Spec => ChannelSpec
    OBVIOUS
  <1>1. IInv /\ IInv' /\ SpaceInv /\ ContentInv /\ PlaceInv /\ [Next]_vars =>
          [Channel!Next]_<<Outstanding, tail, head + Called>>
    <2> SUFFICES ASSUME IInv, IInv', SpaceInv, ContentInv, PlaceInv,
                        [Next]_vars
                 PROVE  [Channel!Next]_<<Outstanding, tail, head + Called>>
      OBVIOUS
    <2>1. /\ Outstanding = InChannel /\ Outstanding' = InChannel'
          /\ head + Called = First /\ (head + Called)' = First'
      <3>1. TypeInv /\ GuardInv /\ TypeInv' /\ GuardInv'
        BY DEF IInv
      <3>2. Outstanding = InChannel /\ head + Called = First
        BY <3>1, ChannelMapping
      <3>3. (TypeInv /\ GuardInv =>
                Outstanding = InChannel /\ head + Called = First)'
        BY ChannelMapping, PTL
      <3> QED
        BY <3>1, <3>2, <3>3
    <2>2. Cardinality(InChannel) = tail - First
      BY <2>1, OutstandingCount
    <2>3. \/ \E t \in Tags : /\ t \notin InChannel /\ InChannel' = InChannel \cup {t}
                             /\ tail - First < MaxRequestsInFlight
                             /\ tail' = tail + 1 /\ First' = First
          \/ \E t \in Tags : /\ t \in InChannel /\ InChannel' = InChannel \ {t}
                             /\ First' = First + 1 /\ tail' = tail
          \/ UNCHANGED <<InChannel, tail, First>>
      BY ChannelStep
    <2>4. CASE UNCHANGED <<InChannel, tail, First>>
      <3>1. UNCHANGED <<Outstanding, tail, head + Called>>
        BY <2>1, <2>4
      <3> QED
        BY <3>1
    <2>5. ASSUME NEW t \in Tags, t \notin InChannel,
                 InChannel' = InChannel \cup {t},
                 tail - First < MaxRequestsInFlight, tail' = tail + 1,
                 First' = First
          PROVE  Channel!Accept(t)
      <3>1. UNCHANGED (head + Called)
        BY <2>1, <2>5
      <3>2. t \notin Outstanding /\ Outstanding' = Outstanding \cup {t}
        BY <2>1, <2>5
      <3>3. Cardinality(Outstanding) < MaxRequestsInFlight
        BY <2>1, <2>2, <2>5
      <3>4. tail' = tail + 1
        BY <2>5
      <3> QED
        BY <3>1, <3>2, <3>3, <3>4, ChannelCardinality, Zenon
           DEF Channel!Accept
    <2>6. ASSUME NEW t \in Tags, t \in InChannel,
                 InChannel' = InChannel \ {t}, First' = First + 1,
                 tail' = tail
          PROVE  Channel!Answer(t)
      <3>1. (head + Called)' = (head + Called) + 1
        BY <2>1, <2>6
      <3>2. t \in Outstanding /\ Outstanding' = Outstanding \ {t}
        BY <2>1, <2>6
      <3> QED
        BY <2>6, <3>1, <3>2 DEF Channel!Answer
    <2> QED
      BY <2>3, <2>4, <2>5, <2>6 DEF Channel!Next
  <1> QED
    BY <1>1, ChannelInit, Invariance, SpaceInvariance, ContentInvariance,
       PlaceInvariance, PTL DEF Spec, ChannelSpec, Channel!Spec,
       Channel!channelVars
=============================================================================

------------------------ MODULE TransportRing_proofs ------------------------
(***************************************************************************)
(* The safety of the ring pair, proved for any number of producers,        *)
(* pollers and cookies and for any ring geometry.  The inductive invariant *)
(* IInv is the conjunction of eight parts, each with a lemma that says a   *)
(* step of Next preserves it; the theorems about Spec are at the end.      *)
(***************************************************************************)
EXTENDS TransportRing, TLAPS

\* The types, without the one fact TypeOK owes to the other parts: that the
\* in-flight counter is never negative.
TypeInv ==
    /\ inFlight \in Int
    /\ putLock \in Producers \cup {None}
    /\ tail \in Nat
    /\ csrTail \in Nat
    /\ reqSlot \in [0..ReqSlots-1 -> Tags \cup {None}]
    /\ hwHead \in Nat
    /\ hw \in Seq(Tags \cup {None})
    /\ hwTail \in Nat
    /\ respSlot \in [0..RespSlots-1 -> Tags \cup {None}]
    /\ head \in Nat
    /\ csrHead \in Nat
    /\ coalCount \in Nat
    /\ pollingInProgress \in -1..1
    /\ bankLock \in BankPollers \cup {None}
    /\ rxLock \in InstPollers \cup {None}
    /\ pool \subseteq Tags \cup {None}
    /\ ppc \in [Producers -> ppcStates]
    /\ ptag \in [Producers -> Tags \cup {None}]
    /\ cpc \in [Pollers -> cpcStates]
    /\ quota \in [Pollers -> Nat]
    /\ cnt \in [Pollers -> Nat]

\* The owner of the request ring's lock is the producer between the
\* reservation and the unlock.
LockInv ==
    \A p \in Producers : ppc[p] \in {"undo", "write", "tail"} <=> putLock = p

\* The guard reads 1 only when nobody polls.
GuardInv ==
    /\ PollExclusion
    /\ pollingInProgress = 1 => \A c \in Pollers : ~Polling(c)

\* The counters follow each other round the two rings.
CounterInv ==
    /\ csrTail = tail
    /\ hwHead <= csrTail
    /\ Len(hw) = hwHead - hwTail
    /\ head <= hwTail
    /\ csrHead <= head
    /\ \A c \in Pollers : cpc[c] = "mark" => head < hwTail

\* A slot that does not read EMPTY holds a response not yet processed.
SlotInv ==
    \A s \in 0..RespSlots-1 : respSlot[s] # None =>
        \E i \in head..hwTail-1 : s = Slot(i, RespSlots)

\* The counter exceeds the limit by one at most, while a refusal is pending.
BoundInv ==
    /\ inFlight <= MaxRequestsInFlight + 1
    /\ (\A p \in Producers : ppc[p] # "undo") => inFlight <= MaxRequestsInFlight

\* What the head CSR lags behind the head, and what may still be held back.
LagInv ==
    /\ (\A c \in Pollers : ~Polling(c)) =>
          head - csrHead + coalCount <= MinResps
    /\ \A c \in Pollers :
          /\ cpc[c] \in {"loop", "mark", "head"} =>
                head - csrHead + coalCount - cnt[c] <= MinResps
          /\ cpc[c] = "release" => head - csrHead + coalCount <= MinResps

IInv ==
    /\ TypeInv
    /\ LockInv
    /\ GuardInv
    /\ CounterInv
    /\ SlotInv
    /\ Accounting
    /\ BoundInv
    /\ LagInv

\* Slots exist.
LEMMA SlotInRange ==
    \A i \in Nat, n \in Nat \ {0} : Slot(i, n) \in 0..n-1
  BY DEF Slot

\* Taking one request out of the device's list.
LEMMA RemoveAtType ==
    ASSUME NEW S, NEW s \in Seq(S), NEW k \in DOMAIN s
    PROVE  /\ RemoveAt(s, k) \in Seq(S)
           /\ Len(RemoveAt(s, k)) = Len(s) - 1
  BY DEF RemoveAt

\* Adding one request to the device's list.
LEMMA AppendType ==
    ASSUME NEW S, NEW s \in Seq(S), NEW e \in S
    PROVE  /\ Append(s, e) \in Seq(S)
           /\ Len(Append(s, e)) = Len(s) + 1
  OBVIOUS

\* Division with remainder, from which the facts about slots follow.
LEMMA DivMod ==
    \A x \in Nat, n \in Nat \ {0} :
        /\ x = n * (x \div n) + (x % n)
        /\ x \div n \in Nat
        /\ x % n \in 0..n-1
  OBVIOUS

\* A positive multiple of the size of a ring is at least one lap.
LEMMA LapAtLeast ==
    \A n, d \in Int : n > 0 /\ n * d > 0 => n * d >= n
  OBVIOUS

\* Two different messages less than a lap apart are in different slots.
LEMMA SameLapSlots ==
    ASSUME NEW n \in Nat \ {0}, NEW x \in Nat, NEW y \in Nat,
           x < y, y < x + n
    PROVE  Slot(x, n) # Slot(y, n)
  <1> DEFINE qx == x \div n
             qy == y \div n
  <1> SUFFICES ASSUME x % n = y % n PROVE FALSE
    BY DEF Slot
  <1>1. x = n * qx + (x % n) /\ qx \in Nat
    BY DivMod
  <1>2. y = n * qy + (y % n) /\ qy \in Nat
    BY DivMod
  <1>3. y - x = n * qy - n * qx
    BY <1>1, <1>2, DivMod
  <1>4. n * qy - n * qx = n * (qy - qx)
    BY <1>1, <1>2
  <1>5. n * (qy - qx) >= n
    BY <1>1, <1>2, <1>3, <1>4, LapAtLeast
  <1> QED
    BY <1>3, <1>4, <1>5

\* The remainder of a division is unique.
LEMMA UniqueRemainder ==
    ASSUME NEW n \in Nat \ {0}, NEW a \in Int, NEW b \in Int,
           NEW r \in 0..n-1, NEW s \in 0..n-1, n * a + r = n * b + s
    PROVE  r = s
  <1> DEFINE up == a - b
             down == b - a
  <1>1. n * up = s - r
    <2>1. n * up = n * a - n * b
      OBVIOUS
    <2>2. n * a \in Int /\ n * b \in Int
      OBVIOUS
    <2> QED
      BY <2>1, <2>2
  <1>2. n * down = r - s
    <2>1. n * down = n * b - n * a
      OBVIOUS
    <2>2. n * a \in Int /\ n * b \in Int
      OBVIOUS
    <2> QED
      BY <2>1, <2>2
  <1>3. up \in Int /\ down \in Int
    OBVIOUS
  <1> HIDE DEF up, down
  <1>4. ~(s - r > 0)
    BY <1>1, <1>3, LapAtLeast
  <1>5. ~(r - s > 0)
    BY <1>2, <1>3, LapAtLeast
  <1> QED
    BY <1>4, <1>5

\* A message one lap further on is in the same slot.
LEMMA NextLapSlot ==
    ASSUME NEW n \in Nat \ {0}, NEW x \in Nat
    PROVE  Slot(x + n, n) = Slot(x, n)
  <1> DEFINE y  == x + n
             qx == x \div n
             qy == y \div n
  <1>1. x = n * qx + (x % n) /\ qx \in Nat /\ x % n \in 0..n-1
    BY DivMod
  <1>2. y = n * qy + (y % n) /\ qy \in Nat /\ y % n \in 0..n-1
    <2>1. y \in Nat
      OBVIOUS
    <2> HIDE DEF y
    <2> QED
      BY <2>1, DivMod
  <1>3. n * (qx + 1) = n * qx + n
    BY <1>1
  <1>4. n * qx \in Int
    BY <1>1
  <1>5. n * (qx + 1) + (x % n) = n * qy + (y % n)
    BY <1>1, <1>2, <1>3, <1>4
  <1>6. x % n = y % n
    <2>1. qx + 1 \in Int /\ qy \in Int
      BY <1>1, <1>2
    <2> HIDE DEF y, qx, qy
    <2> QED
      BY <1>1, <1>2, <1>5, <2>1, UniqueRemainder
  <1> QED
    BY <1>6 DEF Slot

\* Empty rings satisfy the inductive invariant.
LEMMA InitIInv == Init => IInv
  <1> SUFFICES ASSUME Init PROVE IInv
    OBVIOUS
  <1> USE GeometryAssumption DEF Init
  <1>1. TypeInv
    BY DEF TypeInv, ppcStates, cpcStates
  <1>2. LockInv
    BY NoneAssumption DEF LockInv
  <1>3. GuardInv
    BY DEF GuardInv, PollExclusion, Polling
  <1>4. CounterInv
    BY DEF CounterInv
  <1>5. SlotInv
    BY DEF SlotInv
  <1>6. Accounting /\ BoundInv /\ LagInv
    BY DEF Accounting, BoundInv, LagInv, Polling, Reserved, MaxRequestsInFlight
  <1> QED
    BY <1>1, <1>2, <1>3, <1>4, <1>5, <1>6 DEF IInv

-----------------------------------------------------------------------------
(* Each part of the invariant is preserved.  A step that leaves the        *)
(* variables of a part alone is dealt with once, by the UNCHANGED case.    *)

\* The lock of the request ring belongs to the producer inside the put.
LEMMA LockStep ==
    ASSUME TypeInv, LockInv, [Next]_vars
    PROVE  LockInv'
  <1> USE NoneAssumption DEF TypeInv, LockInv
  <1>1. ASSUME NEW p \in Producers, Alloc(p) PROVE LockInv'
    BY <1>1 DEF Alloc, reqVars
  <1>2. ASSUME NEW p \in Producers, PutReserve(p) PROVE LockInv'
    BY <1>2 DEF PutReserve, reqVars
  <1>3. ASSUME NEW p \in Producers, PutUndo(p) PROVE LockInv'
    BY <1>3 DEF PutUndo, reqVars
  <1>4. ASSUME NEW p \in Producers, Backout(p) PROVE LockInv'
    BY <1>4 DEF Backout, reqVars
  <1>5. ASSUME NEW p \in Producers, PutWrite(p) PROVE LockInv'
    BY <1>5 DEF PutWrite, reqVars
  <1>6. ASSUME NEW p \in Producers, PutTail(p) PROVE LockInv'
    BY <1>6 DEF PutTail, reqVars
  <1>7. ASSUME UNCHANGED <<ppc, putLock>> PROVE LockInv'
    BY <1>7
  <1> QED
    BY <1>1, <1>2, <1>3, <1>4, <1>5, <1>6, <1>7
       DEF Next, Producer, Poller, Alloc, PutReserve, PutUndo, Backout,
           PutWrite, PutTail, HwFetch, HwRespond, PollBankEnter,
           PollInstEnter, PollTest, PollCallback, PollMark, PollRetire,
           PollNothing, PollHead, PollRelease, PollUnlock, vars, reqVars,
           hwVars, respVars, lockVars, prodVars, pollVars

\* One poller at a time is past the test, and while it is the guard is not 1.
LEMMA GuardStep ==
    ASSUME TypeInv, GuardInv, [Next]_vars
    PROVE  GuardInv'
  <1> USE DEF TypeInv, GuardInv, PollExclusion, Polling, cpcStates, respVars,
              lockVars
  <1>1. ASSUME NEW c \in Pollers, PollBankEnter(c) PROVE GuardInv'
    BY <1>1 DEF PollBankEnter
  <1>2. ASSUME NEW c \in Pollers, PollInstEnter(c) PROVE GuardInv'
    BY <1>2 DEF PollInstEnter
  <1>3. ASSUME NEW c \in Pollers, PollTest(c) PROVE GuardInv'
    BY <1>3 DEF PollTest, DecAndTest
  <1>4. ASSUME NEW c \in Pollers, PollCallback(c) PROVE GuardInv'
    BY <1>4 DEF PollCallback
  <1>5. ASSUME NEW c \in Pollers, PollMark(c) PROVE GuardInv'
    BY <1>5 DEF PollMark
  <1>6. ASSUME NEW c \in Pollers, PollRetire(c) PROVE GuardInv'
    BY <1>6 DEF PollRetire
  <1>7. ASSUME NEW c \in Pollers, PollNothing(c) PROVE GuardInv'
    BY <1>7 DEF PollNothing
  <1>8. ASSUME NEW c \in Pollers, PollHead(c) PROVE GuardInv'
    BY <1>8 DEF PollHead
  <1>9. ASSUME NEW c \in Pollers, PollRelease(c) PROVE GuardInv'
    BY <1>9 DEF PollRelease
  <1>10. ASSUME NEW c \in Pollers, PollUnlock(c) PROVE GuardInv'
    BY <1>10 DEF PollUnlock
  <1>11. ASSUME UNCHANGED <<cpc, pollingInProgress>> PROVE GuardInv'
    BY <1>11
  <1> QED
    BY <1>1, <1>2, <1>3, <1>4, <1>5, <1>6, <1>7, <1>8, <1>9, <1>10, <1>11
       DEF Next, Producer, Poller, Alloc, PutReserve, PutUndo, Backout,
           PutWrite, PutTail, HwFetch, HwRespond, PollBankEnter,
           PollInstEnter, PollTest, PollCallback, PollMark, PollRetire,
           PollNothing, PollHead, PollRelease, PollUnlock, vars, reqVars,
           hwVars, respVars, lockVars, prodVars, pollVars

\* The counters stay in order.
LEMMA CounterStep ==
    ASSUME TypeInv, GuardInv, CounterInv, SlotInv, [Next]_vars
    PROVE  CounterInv'
  <1> USE DEF CounterInv
  <1>1. ASSUME NEW p \in Producers, PutTail(p) PROVE CounterInv'
    BY <1>1 DEF PutTail, TypeInv, hwVars, respVars, pollVars
  <1>2. ASSUME HwFetch PROVE CounterInv'
    <2>1. hwHead < csrTail
      BY <1>2 DEF HwFetch, TypeInv
    <2>2. Len(hw') = Len(hw) + 1
      <3>1. Slot(hwHead, ReqSlots) \in 0..ReqSlots-1
        BY SlotInRange, GeometryAssumption DEF TypeInv
      <3>2. reqSlot[Slot(hwHead, ReqSlots)] \in Tags \cup {None}
        BY <3>1 DEF TypeInv
      <3> QED
        BY <1>2, <3>2, AppendType DEF HwFetch, TypeInv
    <2> QED
      BY <1>2, <2>1, <2>2 DEF HwFetch, TypeInv, reqVars, respVars, pollVars
  <1>3. ASSUME HwRespond PROVE CounterInv'
    <2>1. Len(hw') = Len(hw) - 1
      BY <1>3, RemoveAtType DEF HwRespond, TypeInv
    <2>2. Len(hw) > 0
      BY <1>3 DEF HwRespond, TypeInv
    <2> QED
      BY <1>3, <2>1, <2>2 DEF HwRespond, TypeInv, reqVars, pollVars
  <1>4. ASSUME NEW c \in Pollers, PollCallback(c) PROVE CounterInv'
    <2>1. Slot(head, RespSlots) \in 0..RespSlots-1
      BY SlotInRange, GeometryAssumption DEF TypeInv
    <2>2. PICK i \in head..hwTail-1 : Slot(head, RespSlots) = Slot(i, RespSlots)
      BY <1>4, <2>1 DEF PollCallback, MoreToDo, SlotInv
    <2>3. head < hwTail
      BY <2>2 DEF TypeInv
    <2> QED
      BY <1>4, <2>3 DEF PollCallback, TypeInv, reqVars, hwVars, respVars
  <1>5. ASSUME NEW c \in Pollers, PollMark(c) PROVE CounterInv'
    BY <1>5 DEF PollMark, TypeInv, GuardInv, PollExclusion, Polling,
                reqVars, hwVars
  <1>6. ASSUME NEW c \in Pollers, PollHead(c) PROVE CounterInv'
    BY <1>6 DEF PollHead, TypeInv, reqVars, hwVars
  <1>7. ASSUME UNCHANGED <<csrTail, tail, hwHead, hw, hwTail, head, csrHead>>,
               \A c \in Pollers : cpc'[c] = "mark" => cpc[c] = "mark"
        PROVE  CounterInv'
    BY <1>7
  <1>8. ASSUME NEW c \in Pollers,
               \/ PollBankEnter(c) \/ PollInstEnter(c) \/ PollTest(c)
               \/ PollRetire(c) \/ PollNothing(c) \/ PollRelease(c)
               \/ PollUnlock(c)
        PROVE  CounterInv'
    BY <1>7, <1>8 DEF TypeInv, PollBankEnter, PollInstEnter, PollTest,
        PollRetire, PollNothing, PollRelease, PollUnlock, reqVars, hwVars,
        respVars
  <1>9. ASSUME NEW p \in Producers,
               \/ Alloc(p) \/ PutReserve(p) \/ PutUndo(p) \/ Backout(p)
               \/ PutWrite(p)
        PROVE  CounterInv'
    BY <1>7, <1>9 DEF Alloc, PutReserve, PutUndo, Backout, PutWrite,
        reqVars, hwVars, respVars, pollVars
  <1>10. CASE UNCHANGED vars
    BY <1>7, <1>10 DEF vars, reqVars, hwVars, respVars, pollVars
  <1> QED
    BY <1>1, <1>2, <1>3, <1>4, <1>5, <1>6, <1>8, <1>9, <1>10
       DEF Next, Producer, Poller

\* The types.
LEMMA TypeStep ==
    ASSUME TypeInv, [Next]_vars
    PROVE  TypeInv'
  <1> USE DEF TypeInv, reqVars, hwVars, respVars, lockVars, prodVars, pollVars
  <1>1. ASSUME NEW p \in Producers, Alloc(p) PROVE TypeInv'
    BY <1>1 DEF Alloc, ppcStates
  <1>2. ASSUME NEW p \in Producers, PutReserve(p) PROVE TypeInv'
    BY <1>2 DEF PutReserve, ppcStates
  <1>3. ASSUME NEW p \in Producers, PutUndo(p) PROVE TypeInv'
    BY <1>3 DEF PutUndo, ppcStates
  <1>4. ASSUME NEW p \in Producers, Backout(p) PROVE TypeInv'
    BY <1>4 DEF Backout, ppcStates
  <1>5. ASSUME NEW p \in Producers, PutWrite(p) PROVE TypeInv'
    BY <1>5 DEF PutWrite, ppcStates
  <1>6. ASSUME NEW p \in Producers, PutTail(p) PROVE TypeInv'
    BY <1>6 DEF PutTail, ppcStates
  <1>7. ASSUME HwFetch PROVE TypeInv'
    <2>1. Slot(hwHead, ReqSlots) \in 0..ReqSlots-1
      BY SlotInRange, GeometryAssumption
    <2>2. hw' \in Seq(Tags \cup {None})
      BY <1>7, <2>1, AppendType DEF HwFetch
    <2> QED
      BY <1>7, <2>2 DEF HwFetch
  <1>8. ASSUME HwRespond PROVE TypeInv'
    <2>1. PICK k \in DOMAIN hw :
             /\ respSlot' = [respSlot EXCEPT ![Slot(hwTail, RespSlots)] = hw[k]]
             /\ hw' = RemoveAt(hw, k)
      BY <1>8 DEF HwRespond
    <2>2. hw' \in Seq(Tags \cup {None})
      BY <2>1, RemoveAtType
    <2>3. hw[k] \in Tags \cup {None}
      OBVIOUS
    <2>4. respSlot' \in [0..RespSlots-1 -> Tags \cup {None}]
      BY <2>1, <2>3
    <2> QED
      BY <1>8, <2>2, <2>4 DEF HwRespond
  <1>9. ASSUME NEW c \in Pollers, PollBankEnter(c) PROVE TypeInv'
    BY <1>9, ModeAssumption DEF PollBankEnter, cpcStates
  <1>10. ASSUME NEW c \in Pollers, PollInstEnter(c) PROVE TypeInv'
    BY <1>10, ModeAssumption DEF PollInstEnter, cpcStates
  <1>11. ASSUME NEW c \in Pollers, PollTest(c) PROVE TypeInv'
    BY <1>11 DEF PollTest, DecAndTest, cpcStates
  <1>12. ASSUME NEW c \in Pollers, PollCallback(c) PROVE TypeInv'
    <2>1. Slot(head, RespSlots) \in 0..RespSlots-1
      BY SlotInRange, GeometryAssumption
    <2> QED
      BY <1>12, <2>1 DEF PollCallback, cpcStates
  <1>13. ASSUME NEW c \in Pollers, PollMark(c) PROVE TypeInv'
    <2>1. respSlot' \in [0..RespSlots-1 -> Tags \cup {None}]
      BY <1>13 DEF PollMark
    <2>2. cnt' \in [Pollers -> Nat]
      BY <1>13 DEF PollMark
    <2>3. cpc' \in [Pollers -> cpcStates]
      BY <1>13 DEF PollMark, cpcStates
    <2> QED
      BY <1>13, <2>1, <2>2, <2>3 DEF PollMark
  <1>14. ASSUME NEW c \in Pollers, PollRetire(c) PROVE TypeInv'
    BY <1>14 DEF PollRetire, cpcStates
  <1>15. ASSUME NEW c \in Pollers, PollNothing(c) PROVE TypeInv'
    BY <1>15 DEF PollNothing, cpcStates
  <1>16. ASSUME NEW c \in Pollers, PollHead(c) PROVE TypeInv'
    <2>1. coalCount' \in Nat /\ csrHead' \in Nat
      BY <1>16, GeometryAssumption DEF PollHead
    <2> QED
      BY <1>16, <2>1 DEF PollHead, cpcStates
  <1>17. ASSUME NEW c \in Pollers, PollRelease(c) PROVE TypeInv'
    BY <1>17 DEF PollRelease, cpcStates
  <1>18. ASSUME NEW c \in Pollers, PollUnlock(c) PROVE TypeInv'
    BY <1>18 DEF PollUnlock, cpcStates
  <1>19. CASE UNCHANGED vars
    BY <1>19 DEF vars
  <1> QED
    BY <1>1, <1>2, <1>3, <1>4, <1>5, <1>6, <1>7, <1>8, <1>9, <1>10, <1>11,
       <1>12, <1>13, <1>14, <1>15, <1>16, <1>17, <1>18, <1>19
       DEF Next, Producer, Poller

\* The sentinel: an answer is in its slot from the device's write to the
\* poller's mark.
LEMMA SlotStep ==
    ASSUME TypeInv, GuardInv, CounterInv, SlotInv, [Next]_vars
    PROVE  SlotInv'
  <1> USE DEF SlotInv
  <1>1. ASSUME HwRespond PROVE SlotInv'
    <2> SUFFICES ASSUME NEW s \in 0..RespSlots-1, respSlot'[s] # None
                 PROVE  \E i \in head'..hwTail'-1 : s = Slot(i, RespSlots)
      OBVIOUS
    <2>1. head' = head /\ hwTail' = hwTail + 1
      BY <1>1 DEF HwRespond
    <2>2. CASE s = Slot(hwTail, RespSlots)
      BY <2>1, <2>2 DEF TypeInv, CounterInv
    <2>3. CASE s # Slot(hwTail, RespSlots)
      <3>1. respSlot'[s] = respSlot[s]
        BY <1>1, <2>3 DEF HwRespond, TypeInv
      <3> QED
        BY <2>1, <3>1 DEF TypeInv
    <2> QED
      BY <2>2, <2>3
  <1>2. ASSUME NEW c \in Pollers, PollMark(c) PROVE SlotInv'
    <2> SUFFICES ASSUME NEW s \in 0..RespSlots-1, respSlot'[s] # None
                 PROVE  \E i \in head'..hwTail'-1 : s = Slot(i, RespSlots)
      OBVIOUS
    <2>1. head' = head + 1 /\ hwTail' = hwTail
      BY <1>2 DEF PollMark, hwVars
    <2>2. s # Slot(head, RespSlots) /\ respSlot[s] # None
      BY <1>2 DEF PollMark, TypeInv
    <2>3. PICK i \in head..hwTail-1 : s = Slot(i, RespSlots)
      BY <2>2
    <2> QED
      BY <2>1, <2>2, <2>3 DEF TypeInv
  <1>3. ASSUME UNCHANGED <<respSlot, head, hwTail>> PROVE SlotInv'
    BY <1>3
  <1>4. ASSUME NEW p \in Producers, Producer(p) PROVE SlotInv'
    BY <1>3, <1>4 DEF Producer, Alloc, PutReserve, PutUndo, Backout, PutWrite,
        PutTail, hwVars, respVars
  <1>5. CASE HwFetch
    BY <1>3, <1>5 DEF HwFetch, respVars
  <1>6. ASSUME NEW c \in Pollers, Poller(c), ~PollMark(c) PROVE SlotInv'
    BY <1>3, <1>6 DEF Poller, PollBankEnter, PollInstEnter, PollTest,
        PollCallback, PollRetire, PollNothing, PollHead, PollRelease,
        PollUnlock, hwVars, respVars
  <1>7. CASE UNCHANGED vars
    BY <1>3, <1>7 DEF vars, hwVars, respVars
  <1> QED
    BY <1>1, <1>2, <1>4, <1>5, <1>6, <1>7 DEF Next

\* The in-flight counter is exact.
LEMMA AccountingStep ==
    ASSUME TypeInv, LockInv, GuardInv, Accounting, [Next]_vars
    PROVE  Accounting'
  <1> USE NoneAssumption DEF Accounting, Reserved, Unretired
  <1>1. ASSUME NEW p \in Producers, PutReserve(p) PROVE Accounting'
    BY <1>1 DEF PutReserve, TypeInv, Polling, respVars, pollVars
  <1>2. ASSUME NEW p \in Producers, PutUndo(p) PROVE Accounting'
    <2>1. putLock = p
      BY <1>2 DEF PutUndo, LockInv
    <2> QED
      BY <1>2, <2>1 DEF PutUndo, TypeInv, Polling, respVars, pollVars
  <1>3. ASSUME NEW p \in Producers, PutTail(p) PROVE Accounting'
    <2>1. putLock = p
      BY <1>3 DEF PutTail, LockInv
    <2> QED
      BY <1>3, <2>1 DEF PutTail, TypeInv, Polling, respVars, pollVars
  <1>4. ASSUME UNCHANGED <<inFlight, tail, head, putLock, cpc, cnt>>
        PROVE  Accounting'
    BY <1>4 DEF Polling
  <1>5. ASSUME NEW p \in Producers, Alloc(p) \/ Backout(p) \/ PutWrite(p)
        PROVE  Accounting'
    BY <1>4, <1>5 DEF Alloc, Backout, PutWrite, reqVars, respVars, pollVars
  <1>6. CASE HwFetch \/ HwRespond
    BY <1>4, <1>6 DEF HwFetch, HwRespond, reqVars, respVars, pollVars
  <1>7. ASSUME NEW c \in Pollers, PollBankEnter(c) \/ PollInstEnter(c)
        PROVE  Accounting'
    BY <1>7 DEF PollBankEnter, PollInstEnter, TypeInv, Polling, reqVars,
                respVars
  <1>8. ASSUME NEW c \in Pollers, PollTest(c) PROVE Accounting'
    BY <1>8 DEF PollTest, TypeInv, GuardInv, PollExclusion, Polling, reqVars
  <1>9. ASSUME NEW c \in Pollers, PollCallback(c) PROVE Accounting'
    BY <1>9 DEF PollCallback, TypeInv, GuardInv, PollExclusion, Polling,
                reqVars, respVars
  <1>10. ASSUME NEW c \in Pollers, PollMark(c) PROVE Accounting'
    BY <1>10 DEF PollMark, TypeInv, GuardInv, PollExclusion, Polling, reqVars
  <1>11. ASSUME NEW c \in Pollers, PollRetire(c) PROVE Accounting'
    BY <1>11 DEF PollRetire, TypeInv, GuardInv, PollExclusion, Polling,
                 reqVars, respVars
  <1>12. ASSUME NEW c \in Pollers, PollNothing(c) PROVE Accounting'
    BY <1>12 DEF PollNothing, TypeInv, GuardInv, PollExclusion, Polling,
                 reqVars, respVars
  <1>13. ASSUME NEW c \in Pollers, PollHead(c) PROVE Accounting'
    BY <1>13 DEF PollHead, TypeInv, GuardInv, PollExclusion, Polling, reqVars
  <1>14. ASSUME NEW c \in Pollers, PollRelease(c) PROVE Accounting'
    BY <1>14 DEF PollRelease, TypeInv, GuardInv, PollExclusion, Polling,
                 reqVars
  <1>15. ASSUME NEW c \in Pollers, PollUnlock(c) PROVE Accounting'
    BY <1>15 DEF PollUnlock, TypeInv, GuardInv, PollExclusion, Polling,
                 reqVars, respVars
  <1>16. CASE UNCHANGED vars
    BY <1>4, <1>16 DEF vars, reqVars, respVars, pollVars
  <1> QED
    BY <1>1, <1>2, <1>3, <1>5, <1>6, <1>7, <1>8, <1>9, <1>10, <1>11, <1>12,
       <1>13, <1>14, <1>15, <1>16
       DEF Next, Producer, Poller

\* The counter stays within the limit.
LEMMA BoundStep ==
    ASSUME TypeInv, LockInv, BoundInv, [Next]_vars
    PROVE  BoundInv'
  <1> USE GeometryAssumption DEF BoundInv, MaxRequestsInFlight
  <1>1. ASSUME NEW p \in Producers, PutReserve(p) PROVE BoundInv'
    <2>1. \A q \in Producers : ppc[q] # "undo"
      BY <1>1, NoneAssumption DEF PutReserve, LockInv
    <2> QED
      BY <1>1, <2>1 DEF PutReserve, TypeInv
  <1>2. ASSUME NEW p \in Producers, PutUndo(p) PROVE BoundInv'
    BY <1>2 DEF PutUndo, TypeInv
  <1>3. ASSUME inFlight' \in Int, inFlight' <= inFlight,
               \A p \in Producers : ppc[p] = "undo" => ppc'[p] = "undo"
        PROVE  BoundInv'
    <2>1. inFlight' <= MaxRequestsInFlight + 1
      BY <1>3 DEF TypeInv
    <2>2. ASSUME \A p \in Producers : ppc'[p] # "undo"
          PROVE  inFlight' <= MaxRequestsInFlight
      <3>1. \A p \in Producers : ppc[p] # "undo"
        BY <1>3, <2>2
      <3>2. inFlight <= MaxRequestsInFlight
        BY <3>1
      <3> QED
        BY <1>3, <3>2 DEF TypeInv
    <2> QED
      BY <2>1, <2>2
  <1>4. ASSUME NEW p \in Producers,
               Alloc(p) \/ Backout(p) \/ PutWrite(p) \/ PutTail(p)
        PROVE  BoundInv'
    BY <1>3, <1>4 DEF Alloc, Backout, PutWrite, PutTail, TypeInv
  <1>5. CASE HwFetch \/ HwRespond
    BY <1>3, <1>5 DEF HwFetch, HwRespond, TypeInv, prodVars
  <1>6. ASSUME NEW c \in Pollers, Poller(c) PROVE BoundInv'
    <2>1. inFlight' \in Int /\ inFlight' <= inFlight /\ ppc' = ppc
      BY <1>6 DEF Poller, PollBankEnter, PollInstEnter, PollTest,
          PollCallback, PollMark, PollRetire, PollNothing, PollHead,
          PollRelease, PollUnlock, TypeInv, prodVars
    <2> QED
      BY <1>3, <2>1
  <1>7. CASE UNCHANGED vars
    BY <1>3, <1>7 DEF vars, TypeInv, prodVars
  <1> QED
    BY <1>1, <1>2, <1>4, <1>5, <1>6, <1>7 DEF Next, Producer

\* The head CSR keeps up with the head.
LEMMA LagStep ==
    ASSUME TypeInv, GuardInv, LagInv, [Next]_vars
    PROVE  LagInv'
  <1> USE GeometryAssumption DEF LagInv
  <1>1. ASSUME UNCHANGED <<head, csrHead, coalCount, cpc, cnt>> PROVE LagInv'
    BY <1>1 DEF Polling
  <1>2. ASSUME NEW p \in Producers, Producer(p) PROVE LagInv'
    BY <1>1, <1>2 DEF Producer, Alloc, PutReserve, PutUndo, Backout,
        PutWrite, PutTail, respVars, pollVars
  <1>3. CASE HwFetch \/ HwRespond
    BY <1>1, <1>3 DEF HwFetch, HwRespond, respVars, pollVars
  <1>4. ASSUME NEW c \in Pollers, PollBankEnter(c) \/ PollInstEnter(c)
        PROVE  LagInv'
    BY <1>4 DEF PollBankEnter, PollInstEnter, TypeInv, Polling, respVars
  <1>5. ASSUME NEW c \in Pollers, PollTest(c) PROVE LagInv'
    BY <1>5 DEF PollTest, TypeInv, GuardInv, PollExclusion, Polling
  <1>6. ASSUME NEW c \in Pollers, PollCallback(c) PROVE LagInv'
    BY <1>6 DEF PollCallback, TypeInv, GuardInv, PollExclusion, Polling,
                respVars
  <1>7. ASSUME NEW c \in Pollers, PollMark(c) PROVE LagInv'
    BY <1>7 DEF PollMark, TypeInv, GuardInv, PollExclusion, Polling
  <1>8. ASSUME NEW c \in Pollers, PollRetire(c) PROVE LagInv'
    BY <1>8 DEF PollRetire, TypeInv, GuardInv, PollExclusion, Polling,
                respVars
  <1>9. ASSUME NEW c \in Pollers, PollNothing(c) PROVE LagInv'
    BY <1>9 DEF PollNothing, TypeInv, GuardInv, PollExclusion, Polling,
                respVars
  <1>10. ASSUME NEW c \in Pollers, PollHead(c) PROVE LagInv'
    BY <1>10 DEF PollHead, TypeInv, GuardInv, PollExclusion, Polling
  <1>11. ASSUME NEW c \in Pollers, PollRelease(c) PROVE LagInv'
    BY <1>11 DEF PollRelease, TypeInv, GuardInv, PollExclusion, Polling
  <1>12. ASSUME NEW c \in Pollers, PollUnlock(c) PROVE LagInv'
    BY <1>12 DEF PollUnlock, TypeInv, GuardInv, PollExclusion, Polling,
                 respVars
  <1>13. CASE UNCHANGED vars
    BY <1>1, <1>13 DEF vars, respVars, pollVars
  <1> QED
    BY <1>2, <1>3, <1>4, <1>5, <1>6, <1>7, <1>8, <1>9, <1>10, <1>11, <1>12,
       <1>13
       DEF Next, Poller

-----------------------------------------------------------------------------
(* The results about the specification.                                    *)

\* A step of Next preserves the inductive invariant.
LEMMA StepIInv == IInv /\ [Next]_vars => IInv'
  BY TypeStep, LockStep, GuardStep, CounterStep, SlotStep, AccountingStep,
     BoundStep, LagStep
     DEF IInv

\* The inductive invariant holds of every reachable state.
THEOREM Invariance == Spec => []IInv
  BY InitIInv, StepIInv, PTL DEF Spec

\* Type correctness, with an in-flight counter that never underflows.
THEOREM TypeCorrect == Spec => []TypeOK
  <1>1. IInv => TypeOK
    BY DEF IInv, TypeInv, TypeOK, CounterInv, Accounting, Reserved, Unretired,
           Polling
  <1> QED
    BY <1>1, Invariance, PTL

\* adf_pollRing lets one thread poll the response ring at a time, whatever
\* entry points and locks the pollers came through.
THEOREM PollersExclude == Spec => []PollExclusion
  <1>1. IInv => PollExclusion
    BY DEF IInv, GuardInv
  <1> QED
    BY <1>1, Invariance, PTL

\* The shared in-flight counter is exact while producers and the poller
\* race on it.
THEOREM CounterExact == Spec => []Accounting
  <1>1. IInv => Accounting
    BY DEF IInv
  <1> QED
    BY <1>1, Invariance, PTL

\* No more than max_requests_inflight requests are on their way.
THEOREM InFlightBounded == Spec => []InFlightBound
  <1>1. IInv => InFlightBound
    <2> SUFFICES ASSUME IInv PROVE InFlightBound
      OBVIOUS
    <2>1. inFlight - Reserved <= MaxRequestsInFlight
      BY NoneAssumption, GeometryAssumption
         DEF IInv, TypeInv, LockInv, BoundInv, Reserved, MaxRequestsInFlight
    <2>2. tail - head <= inFlight - Reserved
      BY DEF IInv, TypeInv, Accounting, Reserved, Unretired
    <2> QED
      BY <2>1, <2>2, GeometryAssumption
         DEF InFlightBound, IInv, TypeInv, BoundInv, Reserved,
             MaxRequestsInFlight
  <1> QED
    BY <1>1, Invariance, PTL

\* The coalesced head CSR is never more than min_resps_per_head_write behind.
THEOREM HeadLagBounded == Spec => []HeadLag
  <1>1. IInv => HeadLag
    BY DEF IInv, LagInv, HeadLag
  <1> QED
    BY <1>1, Invariance, PTL

\* The device never catches up with the head CSR from behind.
SpaceInv == hwTail - csrHead < RespSlots

\* Taking more away leaves less.
LEMMA LargerSubtrahend ==
    \A x, y, z, n \in Int : x - y < n /\ z >= y => x - z < n
  OBVIOUS

\* A response is written only where the head CSR shows room, and the head
\* CSR only moves forward.
LEMMA SpaceStep ==
    ASSUME TypeInv, CounterInv, SpaceInv, [Next]_vars
    PROVE  SpaceInv'
  <1> USE GeometryAssumption DEF SpaceInv
  <1>1. ASSUME HwRespond PROVE SpaceInv'
    <2>1. hwTail' = hwTail + 1 /\ csrHead' = csrHead
      BY <1>1 DEF HwRespond
    <2>2. Slot(hwTail + 1, RespSlots) # Slot(csrHead, RespSlots)
      BY <1>1 DEF HwRespond
    <2>3. hwTail + 1 # csrHead + RespSlots
      BY <2>2, NextLapSlot DEF TypeInv
    <2> QED
      BY <2>1, <2>3 DEF TypeInv
  <1>2. ASSUME hwTail' = hwTail, csrHead' \in Nat, csrHead' >= csrHead
        PROVE  SpaceInv'
    <2>1. /\ hwTail \in Int /\ csrHead \in Int
          /\ csrHead' \in Int /\ RespSlots \in Int
      BY <1>2 DEF TypeInv
    <2>2. hwTail - csrHead' < RespSlots
      BY <1>2, <2>1, LargerSubtrahend
    <2> QED
      BY <1>2, <2>2
  <1>3. ASSUME NEW p \in Producers, Producer(p) PROVE SpaceInv'
    BY <1>2, <1>3 DEF Producer, Alloc, PutReserve, PutUndo, Backout,
        PutWrite, PutTail, TypeInv, hwVars, respVars
  <1>4. CASE HwFetch
    BY <1>2, <1>4 DEF HwFetch, TypeInv, respVars
  <1>5. ASSUME NEW c \in Pollers, Poller(c) PROVE SpaceInv'
    <2>1. hwTail' = hwTail
      BY <1>5 DEF Poller, PollBankEnter, PollInstEnter, PollTest,
          PollCallback, PollMark, PollRetire, PollNothing, PollHead,
          PollRelease, PollUnlock, hwVars
    <2>2. csrHead' \in Nat /\ csrHead' >= csrHead
      BY <1>5 DEF Poller, PollBankEnter, PollInstEnter, PollTest,
          PollCallback, PollMark, PollRetire, PollNothing, PollHead,
          PollRelease, PollUnlock, respVars, TypeInv, CounterInv
    <2> QED
      BY <1>2, <2>1, <2>2
  <1>6. CASE UNCHANGED vars
    BY <1>2, <1>6 DEF vars, TypeInv, hwVars, respVars
  <1> QED
    BY <1>1, <1>3, <1>4, <1>5, <1>6 DEF Next

\* SpaceInv holds in every reachable state.
LEMMA SpaceInvariance == Spec => []SpaceInv
  <1>1. Init => SpaceInv
    BY GeometryAssumption DEF Init, SpaceInv
  <1>2. IInv /\ SpaceInv /\ [Next]_vars => SpaceInv'
    BY SpaceStep DEF IInv
  <1> QED
    BY <1>1, <1>2, Invariance, PTL DEF Spec

\* In a ring that has room for num_msgs messages, the requests that the
\* device has still to fetch leave a slot free whatever the race.
LEMMA RequestRoom ==
    ASSUME NumMsgs <= ReqSlots, IInv
    PROVE  /\ tail - hwHead < ReqSlots
           /\ \A p \in Producers : ppc[p] \in {"write", "tail"} =>
                  tail - hwHead < ReqSlots - 1
  <1>1. hwHead >= head /\ hwHead \in Nat /\ tail \in Nat /\ head \in Nat
    <2>1. Len(hw) >= 0
      BY DEF IInv, TypeInv
    <2> QED
      BY <2>1 DEF IInv, TypeInv, CounterInv
  <1>2. tail - head <= inFlight - Reserved
    BY DEF IInv, TypeInv, Accounting, Reserved, Unretired
  <1>3. inFlight - Reserved <= NumMsgs - 1
    BY NoneAssumption, GeometryAssumption
       DEF IInv, TypeInv, LockInv, BoundInv, Reserved, MaxRequestsInFlight
  <1>4. ASSUME NEW p \in Producers, ppc[p] \in {"write", "tail"}
        PROVE  tail - hwHead < ReqSlots - 1
    <2>1. putLock = p
      BY <1>4 DEF IInv, LockInv
    <2>2. \A q \in Producers : ppc[q] # "undo"
      BY <1>4, <2>1 DEF IInv, LockInv
    <2>3. inFlight <= NumMsgs - 1 /\ Reserved = 1
      BY <2>1, <2>2, NoneAssumption
         DEF IInv, BoundInv, MaxRequestsInFlight, Reserved
    <2> QED
      BY <1>1, <1>2, <2>3, GeometryAssumption DEF IInv, TypeInv
  <1> QED
    BY <1>1, <1>2, <1>3, <1>4, GeometryAssumption
       DEF IInv, TypeInv, Reserved

\* Neither side overwrites a message the other has not read, provided the
\* request ring has room for num_msgs messages: the proviso is what
\* validateRingSize gives up for a ring over 4 MB.
THEOREM NeverOverruns == NumMsgs <= ReqSlots => (Spec => []NoOverrun)
  <1> SUFFICES ASSUME NumMsgs <= ReqSlots PROVE Spec => []NoOverrun
    OBVIOUS
  <1>1. IInv /\ SpaceInv => NoOverrun
    BY RequestRoom DEF IInv, CounterInv, SpaceInv, NoOverrun
  <1> QED
    BY <1>1, Invariance, SpaceInvariance, PTL

\* Under the same proviso the device never takes a full request ring for an
\* empty one: an accepted request is always visible to it.
THEOREM RequestsVisible == NumMsgs <= ReqSlots => (Spec => []FullIsNotEmpty)
  <1> SUFFICES ASSUME NumMsgs <= ReqSlots PROVE Spec => []FullIsNotEmpty
    OBVIOUS
  <1>1. IInv => FullIsNotEmpty
    <2> SUFFICES ASSUME IInv, hwHead < csrTail
                 PROVE  Slot(csrTail, ReqSlots) # Slot(hwHead, ReqSlots)
      BY DEF FullIsNotEmpty
    <2>1. csrTail < hwHead + ReqSlots
      BY RequestRoom, GeometryAssumption DEF IInv, TypeInv, CounterInv
    <2> QED
      BY <2>1, SameLapSlots, GeometryAssumption DEF IInv, TypeInv
  <1> QED
    BY <1>1, Invariance, PTL

\* The E_STAT register never hides an unread response from icp_sal_pollBank.
THEOREM EStatTruthful == Spec => []EStatSound
  <1>1. IInv /\ SpaceInv => EStatSound
    <2> SUFFICES ASSUME IInv, SpaceInv, head < hwTail
                 PROVE  Slot(hwTail, RespSlots) # Slot(csrHead, RespSlots)
      BY DEF EStatSound
    <2>1. csrHead < hwTail /\ hwTail < csrHead + RespSlots
      BY GeometryAssumption DEF IInv, TypeInv, CounterInv, SpaceInv
    <2> QED
      BY <2>1, SameLapSlots, GeometryAssumption DEF IInv, TypeInv
  <1> QED
    BY <1>1, Invariance, SpaceInvariance, PTL

=============================================================================

------------------------- MODULE LacMemPool_proofs -------------------------
(***************************************************************************)
(* The lock-free stack of a memory pool, proved for any number of threads  *)
(* and blocks: in spite of a top that is read in two halves and of blocks  *)
(* that leave the stack and come back, the stack stays linked, no block is *)
(* handed out twice, and the count of available blocks is off by what is   *)
(* on its way only.  The pool so implements BlockPool.                     *)
(*                                                                         *)
(* The inductive invariant IInv is the conjunction of five parts.  What    *)
(* makes the compare-and-swap safe is ReadInv: the counter of the top only *)
(* grows, so that a thread whose two words are both still there has read   *)
(* the link of the block that is on the top.                               *)
(***************************************************************************)
EXTENDS LacMemPool, TLAPS, FiniteSetTheorems, FunctionTheorems,
        SequenceTheorems

Places == {"idle", "popRead", "popNext", "popCas", "popCount", "popMark",
           "pushRead", "pushNext", "pushCas", "pushCount"}
Tops == [ctr : 0..MaxOps, ptr : Pointers]
OwnPlaces == {"popCount", "popMark", "pushRead", "pushNext", "pushCas"}

\* The types, without the range of the count.
TypeInv ==
    /\ top \in Tops
    /\ pNext \in [Blocks -> Pointers]
    /\ isInUse \in [Blocks -> BOOLEAN]
    /\ availBlks \in Int
    /\ active \in BOOLEAN
    /\ clients \subseteq Blocks
    /\ pc \in [Threads -> Places]
    /\ blk \in [Threads -> Pointers]
    /\ read \in [Threads -> SUBSET Words]
    /\ oldTop \in [Threads -> Tops]
    /\ next \in [Threads -> Pointers]
    /\ stack \in Seq(Blocks)

\* Threads whose block is theirs alone, one at a time.
Carrying(t) == pc[t] \in OwnPlaces

\* A block has one place, and no block is lost.
PlaceInv ==
    /\ \A i, j \in 1..Len(stack) : stack[i] = stack[j] => i = j
    /\ \A i \in 1..Len(stack) : stack[i] \notin clients
    /\ \A t \in Threads : Carrying(t) =>
          /\ blk[t] \in Blocks \ clients
          /\ \A i \in 1..Len(stack) : stack[i] # blk[t]
    /\ \A t, u \in Threads : Carrying(t) /\ Carrying(u) /\ blk[t] = blk[u]
          => t = u
    /\ \A b \in Blocks :
          \/ b \in clients
          \/ \E i \in 1..Len(stack) : stack[i] = b
          \/ \E t \in Threads : Carrying(t) /\ blk[t] = b

\* What a thread has read of the top and of a link, as far as it may still
\* rely on it.
ReadInv ==
    \A t \in Threads :
        /\ oldTop[t].ctr <= top.ctr
        /\ pc[t] = "popCas" => oldTop[t].ptr # Null
        /\ pc[t] = "popCas" /\ oldTop[t] = top => next[t] = pNext[top.ptr]
        /\ pc[t] = "pushCas" => pNext[blk[t]] = oldTop[t].ptr

IInv ==
    /\ TypeInv
    /\ Linked
    /\ PlaceInv
    /\ ReadInv
    /\ AvailAccounts

-----------------------------------------------------------------------------
(* The stack: what a pop and a push make of a sequence without repetition. *)

\* Taking the first element off.
LEMMA PopStack ==
    ASSUME NEW S, NEW s \in Seq(S), Len(s) > 0
    PROVE  /\ SubSeq(s, 2, Len(s)) \in Seq(S)
           /\ Len(SubSeq(s, 2, Len(s))) = Len(s) - 1
           /\ \A i \in 1..Len(s)-1 : SubSeq(s, 2, Len(s))[i] = s[i + 1]
  <1>1. Len(s) \in Nat /\ \A i \in 2..Len(s) : s[i] \in S
    BY ElementOfSeq, LenProperties
  <1> QED
    BY <1>1, SubSeqProperties

\* Putting an element on top.
LEMMA PushStack ==
    ASSUME NEW S, NEW s \in Seq(S), NEW e \in S
    PROVE  /\ <<e>> \o s \in Seq(S)
           /\ Len(<<e>> \o s) = Len(s) + 1
           /\ (<<e>> \o s)[1] = e
           /\ \A i \in 2..Len(s)+1 : (<<e>> \o s)[i] = s[i - 1]
  <1>1. <<e>> \in Seq(S) /\ Len(<<e>>) = 1 /\ <<e>>[1] = e
    OBVIOUS
  <1>2. Len(s) \in Nat
    BY LenProperties
  <1> QED
    BY <1>1, <1>2, ConcatProperties

\* A set of threads one of which moves in or out.
LEMMA MoveCount ==
    ASSUME NEW S, NEW t, IsFiniteSet(S)
    PROVE  /\ Cardinality(S) \in Nat
           /\ t \notin S => Cardinality(S \cup {t}) = Cardinality(S) + 1
           /\ t \in S => Cardinality(S \ {t}) = Cardinality(S) - 1
  BY FS_CardinalityType, FS_AddElement, FS_RemoveElement

\* The sets of threads the count of available blocks depends on are finite.
LEMMA AtFinite == \A places : IsFiniteSet(At(places))
  BY ThreadsAssumption, FS_Subset DEF At

-----------------------------------------------------------------------------
(* Each part of the invariant is preserved.                                *)

\* Every step keeps the types.
LEMMA TypeInvStep == IInv /\ [Next]_vars => TypeInv'
  <1> SUFFICES ASSUME IInv, [Next]_vars PROVE TypeInv'
    OBVIOUS
  <1> USE BoundAssumption
      DEF IInv, TypeInv, Tops, Places, Pointers, Words, poolVars, countVars,
          threadVars, Goto
  <1>0. NoTop \in Tops
    BY DEF NoTop
  <1>1. ASSUME NEW t \in Threads, ReadTop(t) PROVE TypeInv'
    <2>1. PICK w \in Words \ read[t] :
            /\ oldTop' = [oldTop EXCEPT ![t][w] = top[w]]
            /\ read' = [read EXCEPT ![t] = @ \cup {w}]
      BY <1>1 DEF ReadTop
    <2>2. [oldTop[t] EXCEPT ![w] = top[w]] \in Tops
      OBVIOUS
    <2>3. oldTop' \in [Threads -> Tops]
      BY <2>1, <2>2
    <2>4. read' \in [Threads -> SUBSET Words]
      BY <2>1
    <2>5. pc' \in [Threads -> Places]
      BY <1>1 DEF ReadTop
    <2> QED
      BY <1>1, <2>3, <2>4, <2>5 DEF ReadTop
  <1>2. ASSUME NEW t \in Threads, Retry(t) PROVE TypeInv'
    BY <1>2, <1>0 DEF Retry, Forget
  <1>3. ASSUME NEW t \in Threads, Alloc(t) PROVE TypeInv'
    BY <1>3 DEF Alloc
  <1>4. ASSUME NEW t \in Threads, PopEmpty(t) PROVE TypeInv'
    BY <1>4, <1>0 DEF PopEmpty, Forget
  <1>5. ASSUME NEW t \in Threads, PopNext(t) PROVE TypeInv'
    BY <1>5 DEF PopNext
  <1>6. ASSUME NEW t \in Threads, PopCas(t) PROVE TypeInv'
    <2>1. Len(stack) > 0
      BY <1>6, LenProperties DEF PopCas, ReadInv, Linked, Below
    <2>2. stack' \in Seq(Blocks)
      BY <1>6, <2>1, PopStack DEF PopCas
    <2>3. top' \in Tops
      BY <1>6 DEF PopCas
    <2> QED
      BY <1>6, <1>0, <2>2, <2>3 DEF PopCas, Forget
  <1>7. ASSUME NEW t \in Threads, PopCount(t) PROVE TypeInv'
    BY <1>7 DEF PopCount
  <1>8. ASSUME NEW t \in Threads, PopMark(t) PROVE TypeInv'
    <2>1. blk[t] \in Blocks
      BY <1>8 DEF PopMark, PlaceInv, Carrying, OwnPlaces
    <2> QED
      BY <1>8, <2>1 DEF PopMark
  <1>9. ASSUME NEW t \in Threads, Free(t) PROVE TypeInv'
    BY <1>9 DEF Free
  <1>10. ASSUME NEW t \in Threads, PushNext(t) PROVE TypeInv'
    BY <1>10 DEF PushNext
  <1>11. ASSUME NEW t \in Threads, PushCas(t) PROVE TypeInv'
    <2>1. blk[t] \in Blocks
      BY <1>11 DEF PushCas, PlaceInv, Carrying, OwnPlaces
    <2>2. stack' \in Seq(Blocks)
      BY <1>11, <2>1, PushStack DEF PushCas
    <2>3. top' \in Tops
      BY <1>11 DEF PushCas
    <2> QED
      BY <1>11, <1>0, <2>2, <2>3 DEF PushCas, Forget
  <1>12. ASSUME NEW t \in Threads, PushCount(t) PROVE TypeInv'
    BY <1>12 DEF PushCount
  <1>13. CASE Disable
    BY <1>13 DEF Disable
  <1>14. CASE Enable
    BY <1>14 DEF Enable
  <1>15. CASE UNCHANGED vars
    BY <1>15 DEF vars
  <1> HIDE DEF IInv, TypeInv
  <1> QED
    BY <1>1, <1>2, <1>3, <1>4, <1>5, <1>6, <1>7, <1>8, <1>9, <1>10, <1>11,
       <1>12, <1>13, <1>14, <1>15 DEF Next, Thread

\* A compare-and-swap that succeeds pops the block that is on the top, and
\* knows the block below it.
LEMMA PopSound ==
    ASSUME IInv, NEW t \in Threads, PopCas(t)
    PROVE  /\ Len(stack) \in Nat /\ Len(stack) > 0
           /\ stack[1] \in Blocks
           /\ oldTop[t].ptr = stack[1]
           /\ next[t] = Below(stack, 1)
           /\ stack' \in Seq(Blocks)
           /\ Len(stack') = Len(stack) - 1
           /\ \A i \in 1..Len(stack') : stack'[i] = stack[i + 1]
  <1>1. Len(stack) \in Nat
    BY LenProperties DEF IInv, TypeInv
  <1>2. Len(stack) > 0 /\ oldTop[t].ptr = stack[1]
    BY <1>1 DEF PopCas, IInv, ReadInv, Linked, Below
  <1>3. next[t] = Below(stack, 1)
    BY <1>1, <1>2 DEF PopCas, IInv, ReadInv, Linked
  <1>4. stack[1] \in Blocks
    BY <1>1, <1>2, ElementOfSeq DEF IInv, TypeInv
  <1> QED
    BY <1>1, <1>2, <1>3, <1>4, PopStack DEF PopCas, IInv, TypeInv

\* A compare-and-swap that succeeds pushes the block of its thread.
LEMMA PushSound ==
    ASSUME IInv, NEW t \in Threads, PushCas(t)
    PROVE  /\ Len(stack) \in Nat
           /\ blk[t] \in Blocks \ clients
           /\ \A i \in 1..Len(stack) : stack[i] # blk[t]
           /\ pNext[blk[t]] = Below(stack, 0)
           /\ stack' \in Seq(Blocks)
           /\ Len(stack') = Len(stack) + 1
           /\ stack'[1] = blk[t]
           /\ \A i \in 2..Len(stack') : stack'[i] = stack[i - 1]
  <1>1. Len(stack) \in Nat
    BY LenProperties DEF IInv, TypeInv
  <1>2. blk[t] \in Blocks \ clients /\ \A i \in 1..Len(stack) : stack[i] # blk[t]
    BY DEF PushCas, IInv, PlaceInv, Carrying, OwnPlaces
  <1>3. pNext[blk[t]] = Below(stack, 0)
    BY DEF PushCas, IInv, ReadInv, Linked
  <1> QED
    BY <1>1, <1>2, <1>3, PushStack DEF PushCas, IInv, TypeInv

\* The links stay the stack: a pop takes the link it has read, and a link is
\* written in a block that is not on the stack.
LEMMA LinkedStep == IInv /\ [Next]_vars => Linked'
  <1> SUFFICES ASSUME IInv, [Next]_vars PROVE Linked'
    OBVIOUS
  <1>0. Len(stack) \in Nat
    BY LenProperties DEF IInv, TypeInv
  <1>1. ASSUME NEW t \in Threads, PopCas(t) PROVE Linked'
    <2>1. top'.ptr = next[t] /\ pNext' = pNext
      BY <1>1 DEF PopCas
    <2>2. top'.ptr = Below(stack', 0)
      BY <1>1, <2>1, PopSound DEF Below
    <2>3. ASSUME NEW i \in 1..Len(stack')
          PROVE  pNext[stack'[i]] = Below(stack', i)
      <3>1. i + 1 \in 1..Len(stack) /\ stack'[i] = stack[i + 1]
        BY <1>1, PopSound
      <3>2. pNext[stack[i + 1]] = Below(stack, i + 1)
        BY <3>1 DEF IInv, Linked
      <3>3. Below(stack, i + 1) = Below(stack', i)
        BY <1>1, PopSound DEF Below
      <3> QED
        BY <3>1, <3>2, <3>3
    <2> QED
      BY <2>1, <2>2, <2>3 DEF Linked
  <1>2. ASSUME NEW t \in Threads, PushCas(t) PROVE Linked'
    <2>1. top'.ptr = blk[t] /\ pNext' = pNext
      BY <1>2 DEF PushCas
    <2>2. top'.ptr = Below(stack', 0)
      BY <1>2, <2>1, PushSound DEF Below
    <2>3. ASSUME NEW i \in 1..Len(stack')
          PROVE  pNext[stack'[i]] = Below(stack', i)
      <3>1. CASE i = 1
        BY <3>1, <1>2, PushSound DEF Below
      <3>2. CASE i # 1
        <4>1. i - 1 \in 1..Len(stack) /\ stack'[i] = stack[i - 1]
          BY <3>2, <1>2, PushSound
        <4>2. pNext[stack[i - 1]] = Below(stack, i - 1)
          BY <4>1 DEF IInv, Linked
        <4>3. Below(stack, i - 1) = Below(stack', i)
          BY <3>2, <1>2, PushSound DEF Below
        <4> QED
          BY <4>1, <4>2, <4>3
      <3> QED
        BY <3>1, <3>2
    <2> QED
      BY <2>1, <2>2, <2>3 DEF Linked
  <1>3. ASSUME NEW t \in Threads, PushNext(t) PROVE Linked'
    <2>1. \A i \in 1..Len(stack) : stack[i] # blk[t]
      BY <1>3 DEF PushNext, IInv, PlaceInv, Carrying, OwnPlaces
    <2>2. \A i \in 1..Len(stack) : stack[i] \in Blocks
      BY ElementOfSeq DEF IInv, TypeInv
    <2> QED
      BY <1>3, <2>1, <2>2 DEF PushNext, IInv, TypeInv, Linked, Below
  <1>4. UNCHANGED <<top, pNext, stack>> => Linked'
    BY DEF IInv, Linked, Below
  <1>5. \/ \E t \in Threads : PopCas(t) \/ PushCas(t) \/ PushNext(t)
        \/ UNCHANGED <<top, pNext, stack>>
    BY DEF Next, Thread, vars, poolVars, ReadTop, Retry, Alloc, PopEmpty,
           PopNext, PopCount, PopMark, Free, PushCount, Disable, Enable
  <1> QED
    BY <1>1, <1>2, <1>3, <1>4, <1>5

\* No block is ever in two places, or in none.
LEMMA PlaceInvStep == IInv /\ [Next]_vars => PlaceInv'
  <1> SUFFICES ASSUME IInv, [Next]_vars PROVE PlaceInv'
    OBVIOUS
  <1> USE DEF PlaceInv, Carrying, OwnPlaces, poolVars, countVars, threadVars,
              Goto
  <1>0. Len(stack) \in Nat /\ pc \in [Threads -> Places]
        /\ blk \in [Threads -> Pointers] /\ PlaceInv
    BY LenProperties DEF IInv, TypeInv
  <1>1. ASSUME NEW t \in Threads, PopCas(t) PROVE PlaceInv'
    <2>1. /\ Len(stack) > 0
          /\ blk' = [blk EXCEPT ![t] = stack[1]]
          /\ Len(stack') = Len(stack) - 1
          /\ \A i \in 1..Len(stack') : stack'[i] = stack[i + 1]
          /\ stack[1] \in Blocks
      BY <1>1, PopSound DEF PopCas
    <2>2. /\ pc' = [pc EXCEPT ![t] = "popCount"]
          /\ clients' = clients
          /\ pc[t] = "popCas"
      BY <1>1 DEF PopCas
    <2>3. \A i \in 1..Len(stack') : i + 1 \in 1..Len(stack)
      BY <1>0, <2>1
    <2>4. (\A i, j \in 1..Len(stack) : stack[i] = stack[j] => i = j)'
      BY <1>0, <2>1, <2>3
    <2>5. (\A i \in 1..Len(stack) : stack[i] \notin clients)'
      BY <1>0, <2>1, <2>2, <2>3
    <2>6. (\A u \in Threads : Carrying(u) =>
             /\ blk[u] \in Blocks \ clients
             /\ \A i \in 1..Len(stack) : stack[i] # blk[u])'
      BY <1>0, <2>1, <2>2, <2>3
    <2>7. (\A v, u \in Threads : Carrying(v) /\ Carrying(u) /\ blk[v] = blk[u]
             => v = u)'
      BY <1>0, <2>1, <2>2
    <2>8. ASSUME NEW b \in Blocks
          PROVE  (\/ b \in clients
                  \/ \E i \in 1..Len(stack) : stack[i] = b
                  \/ \E u \in Threads : Carrying(u) /\ blk[u] = b)'
      <3>1. CASE b \in clients
        BY <3>1, <2>2
      <3>2. CASE b = stack[1]
        BY <3>2, <2>1, <2>2, <1>0
      <3>3. ASSUME NEW i \in 1..Len(stack), stack[i] = b, i # 1
            PROVE  \E j \in 1..Len(stack') : stack'[j] = b
        <4>1. i - 1 \in 1..Len(stack') /\ stack'[i - 1] = stack[i]
          BY <3>3, <2>1, <1>0
        <4> QED
          BY <4>1, <3>3
      <3>4. ASSUME NEW u \in Threads, Carrying(u), blk[u] = b
            PROVE  Carrying(u)' /\ blk'[u] = b
        BY <3>4, <2>1, <2>2, <1>0
      <3> QED
        BY <3>1, <3>2, <3>3, <3>4, <1>0
    <2> QED
      BY <2>4, <2>5, <2>6, <2>7, <2>8
  <1>2. ASSUME NEW t \in Threads, PushCas(t) PROVE PlaceInv'
    <2>1. /\ blk[t] \in Blocks \ clients
          /\ \A i \in 1..Len(stack) : stack[i] # blk[t]
          /\ Len(stack') = Len(stack) + 1
          /\ stack'[1] = blk[t]
          /\ \A i \in 2..Len(stack') : stack'[i] = stack[i - 1]
      BY <1>2, PushSound
    <2>2. /\ pc' = [pc EXCEPT ![t] = "pushCount"]
          /\ clients' = clients
          /\ blk' = blk
          /\ pc[t] = "pushCas"
      BY <1>2 DEF PushCas
    <2>3. \A i \in 2..Len(stack') : i - 1 \in 1..Len(stack)
      BY <1>0, <2>1
    <2>4. (\A i, j \in 1..Len(stack) : stack[i] = stack[j] => i = j)'
      <3> SUFFICES ASSUME NEW i \in 1..Len(stack'), NEW j \in 1..Len(stack'),
                          stack'[i] = stack'[j]
                   PROVE  i = j
        OBVIOUS
      <3>1. CASE i = 1 /\ j # 1
        BY <3>1, <1>0, <2>1, <2>3
      <3>2. CASE i # 1 /\ j = 1
        BY <3>2, <1>0, <2>1, <2>3
      <3>3. CASE i # 1 /\ j # 1
        BY <3>3, <1>0, <2>1, <2>3
      <3> QED
        BY <3>1, <3>2, <3>3
    <2>5. (\A i \in 1..Len(stack) : stack[i] \notin clients)'
      <3> SUFFICES ASSUME NEW i \in 1..Len(stack')
                   PROVE  stack'[i] \notin clients
        BY <2>2
      <3> QED
        BY <1>0, <2>1, <2>2, <2>3
    <2>6. (\A u \in Threads : Carrying(u) =>
             /\ blk[u] \in Blocks \ clients
             /\ \A i \in 1..Len(stack) : stack[i] # blk[u])'
      <3> SUFFICES ASSUME NEW u \in Threads, Carrying(u)'
                   PROVE  /\ blk[u] \in Blocks \ clients
                          /\ \A i \in 1..Len(stack') : stack'[i] # blk[u]
        BY <2>2
      <3>1. u # t /\ Carrying(u)
        BY <2>2, <1>0
      <3>2. blk[u] # blk[t]
        BY <3>1, <2>2, <1>0
      <3> QED
        BY <1>0, <2>1, <2>2, <2>3, <3>1, <3>2
    <2>7. (\A v, u \in Threads : Carrying(v) /\ Carrying(u) /\ blk[v] = blk[u]
             => v = u)'
      BY <1>0, <2>2
    <2>8. ASSUME NEW b \in Blocks
          PROVE  (\/ b \in clients
                  \/ \E i \in 1..Len(stack) : stack[i] = b
                  \/ \E u \in Threads : Carrying(u) /\ blk[u] = b)'
      <3>1. CASE b \in clients
        BY <3>1, <2>2
      <3>2. CASE b = blk[t]
        BY <3>2, <2>1, <1>0
      <3>3. ASSUME NEW i \in 1..Len(stack), stack[i] = b
            PROVE  \E j \in 1..Len(stack') : stack'[j] = b
        <4>1. i + 1 \in 2..Len(stack') /\ stack'[i + 1] = stack[i]
          BY <3>3, <2>1, <1>0
        <4> QED
          BY <4>1, <3>3, <1>0
      <3>4. ASSUME NEW u \in Threads, Carrying(u), blk[u] = b, u # t
            PROVE  Carrying(u)' /\ blk'[u] = b
        BY <3>4, <2>2, <1>0
      <3> QED
        BY <3>1, <3>2, <3>3, <3>4, <1>0
    <2> QED
      BY <2>4, <2>5, <2>6, <2>7, <2>8
  <1>3. ASSUME NEW t \in Threads, PopMark(t) PROVE PlaceInv'
    BY <1>3, <1>0 DEF PopMark
  <1>4. ASSUME NEW t \in Threads, Free(t) PROVE PlaceInv'
    <2>1. PICK b \in clients :
            /\ clients' = clients \ {b}
            /\ blk' = [blk EXCEPT ![t] = b]
      BY <1>4 DEF Free
    <2>2. /\ pc' = [pc EXCEPT ![t] = "pushRead"] /\ pc[t] = "idle"
          /\ stack' = stack
          /\ b \in Blocks
      BY <1>4 DEF Free, IInv, TypeInv
    <2> QED
      BY <2>1, <2>2, <1>0
  <1>5. ASSUME NEW t \in Threads,
               \/ ReadTop(t) \/ Retry(t) \/ Alloc(t) \/ PopEmpty(t)
               \/ PopNext(t) \/ PopCount(t) \/ PushNext(t) \/ PushCount(t)
        PROVE  PlaceInv'
    <2>1. /\ UNCHANGED <<stack, clients>>
          /\ \A u \in Threads : Carrying(u)' <=> Carrying(u)
          /\ \A u \in Threads : Carrying(u) => blk'[u] = blk[u]
      BY <1>5, <1>0 DEF ReadTop, Retry, Alloc, PopEmpty, PopNext, PopCount,
                        PushNext, PushCount
    <2> QED
      BY <2>1, <1>0
  <1>6. CASE Disable \/ Enable \/ UNCHANGED vars
    <2>1. UNCHANGED <<stack, clients, pc, blk>>
      BY <1>6 DEF Disable, Enable, vars
    <2> QED
      BY <2>1, <1>0
  <1> QED
    BY <1>1, <1>2, <1>3, <1>4, <1>5, <1>6 DEF Next, Thread

\* A thread may rely on a link it read while the top is the one it read: the
\* counter grows with every change of the top, and no thread writes the link
\* of a block that is on the stack.
LEMMA ReadInvStep == IInv /\ [Next]_vars => ReadInv'
  <1> SUFFICES ASSUME IInv, [Next]_vars PROVE ReadInv'
    OBVIOUS
  <1> USE BoundAssumption
      DEF IInv, TypeInv, ReadInv, Tops, Places, poolVars, countVars,
          threadVars, Goto, Forget, NoTop
  <1>1. ASSUME NEW t \in Threads, ReadTop(t) PROVE ReadInv'
    <2>1. PICK w \in Words \ read[t] :
            oldTop' = [oldTop EXCEPT ![t][w] = top[w]]
      BY <1>1 DEF ReadTop
    <2>2. oldTop'[t].ctr <= top.ctr
      BY <2>1 DEF Words
    <2>3. /\ \A u \in Threads \ {t} : oldTop'[u] = oldTop[u] /\ pc'[u] = pc[u]
          /\ pc'[t] \notin {"popCas", "pushCas"}
          /\ UNCHANGED <<top, next, pNext, blk>>
      BY <1>1, <2>1 DEF ReadTop
    <2> QED
      BY <2>2, <2>3
  <1>2. ASSUME NEW t \in Threads, Retry(t) PROVE ReadInv'
    BY <1>2 DEF Retry
  <1>3. ASSUME NEW t \in Threads, Alloc(t) PROVE ReadInv'
    BY <1>3 DEF Alloc
  <1>4. ASSUME NEW t \in Threads, PopEmpty(t) PROVE ReadInv'
    BY <1>4 DEF PopEmpty
  <1>5. ASSUME NEW t \in Threads, PopNext(t) PROVE ReadInv'
    BY <1>5 DEF PopNext
  <1>6. ASSUME NEW t \in Threads, PopCas(t) PROVE ReadInv'
    <2>1. top'.ctr = top.ctr + 1
      BY <1>6 DEF PopCas
    <2>2. \A u \in Threads : oldTop[u].ctr < top'.ctr
      BY <2>1
    <2> QED
      BY <1>6, <2>1, <2>2 DEF PopCas
  <1>7. ASSUME NEW t \in Threads, PopCount(t) PROVE ReadInv'
    BY <1>7 DEF PopCount
  <1>8. ASSUME NEW t \in Threads, PopMark(t) PROVE ReadInv'
    BY <1>8 DEF PopMark
  <1>9. ASSUME NEW t \in Threads, Free(t) PROVE ReadInv'
    BY <1>9 DEF Free
  <1>10. ASSUME NEW t \in Threads, PushNext(t) PROVE ReadInv'
    <2>1. /\ blk[t] \in Blocks
          /\ \A i \in 1..Len(stack) : stack[i] # blk[t]
          /\ \A u \in Threads : pc[u] = "pushCas" => blk[u] # blk[t]
      BY <1>10 DEF PushNext, PlaceInv, Carrying, OwnPlaces
    <2>2. top.ptr # Null => top.ptr # blk[t]
      BY <2>1, LenProperties DEF Linked, Below
    <2>3. \A b \in Blocks \ {blk[t]} : pNext'[b] = pNext[b]
      BY <1>10 DEF PushNext
    <2>4. \A u \in Threads : pc[u] = "pushCas" => blk[u] \in Blocks
      BY DEF PlaceInv, Carrying, OwnPlaces
    <2>5. pNext'[blk[t]] = oldTop[t].ptr
      BY <1>10, <2>1 DEF PushNext
    <2>6. /\ UNCHANGED <<top, blk, oldTop, next>>
          /\ pc' = [pc EXCEPT ![t] = "pushCas"]
      BY <1>10 DEF PushNext
    <2>7. ASSUME NEW u \in Threads, pc'[u] = "popCas", oldTop[u] = top
          PROVE  next[u] = pNext'[top.ptr]
      <3>1. pc[u] = "popCas" /\ top.ptr \in Blocks \ {blk[t]}
        BY <2>2, <2>6, <2>7 DEF Pointers
      <3> QED
        BY <2>3, <2>7, <3>1
    <2> QED
      BY <2>1, <2>3, <2>4, <2>5, <2>6, <2>7
  <1>11. ASSUME NEW t \in Threads, PushCas(t) PROVE ReadInv'
    <2>1. top'.ctr = top.ctr + 1
      BY <1>11 DEF PushCas
    <2>2. \A u \in Threads : oldTop[u].ctr < top'.ctr
      BY <2>1
    <2> QED
      BY <1>11, <2>1, <2>2 DEF PushCas
  <1>12. ASSUME NEW t \in Threads, PushCount(t) PROVE ReadInv'
    BY <1>12 DEF PushCount
  <1>13. CASE Disable
    BY <1>13 DEF Disable
  <1>14. CASE Enable
    BY <1>14 DEF Enable
  <1>15. CASE UNCHANGED vars
    BY <1>15 DEF vars
  <1> HIDE DEF IInv, TypeInv, ReadInv
  <1> QED
    BY <1>1, <1>2, <1>3, <1>4, <1>5, <1>6, <1>7, <1>8, <1>9, <1>10, <1>11,
       <1>12, <1>13, <1>14, <1>15 DEF Next, Thread

\* Threads between a change of the stack and its count.
Popping == At({"popCount"})
Pushing == At({"pushCount"})

\* Every change of the stack is counted, sooner or later.
LEMMA AvailStep == IInv /\ [Next]_vars => AvailAccounts'
  <1> SUFFICES ASSUME IInv, [Next]_vars PROVE AvailAccounts'
    OBVIOUS
  <1> USE DEF poolVars, countVars, threadVars, Goto
  <1>0. /\ availBlks = Len(stack) + Cardinality(Popping) - Cardinality(Pushing)
        /\ availBlks \in Int /\ Len(stack) \in Nat
        /\ IsFiniteSet(Popping) /\ IsFiniteSet(Pushing)
        /\ Cardinality(Popping) \in Nat /\ Cardinality(Pushing) \in Nat
        /\ pc \in [Threads -> Places]
    BY AtFinite, LenProperties, FS_CardinalityType
       DEF IInv, AvailAccounts, Popping, Pushing, TypeInv
  <1>a. AvailAccounts' <=>
          availBlks' = Len(stack') + Cardinality(Popping')
                                   - Cardinality(Pushing')
    BY DEF AvailAccounts, Popping, Pushing
  <1>1. ASSUME NEW t \in Threads, PopCas(t) PROVE AvailAccounts'
    <2>1. t \notin Popping /\ Popping' = Popping \cup {t} /\ Pushing' = Pushing
      BY <1>1, <1>0 DEF PopCas, Popping, Pushing, At
    <2>2. Cardinality(Popping') = Cardinality(Popping) + 1
      BY <1>0, <2>1, MoveCount
    <2>3. Len(stack') = Len(stack) - 1 /\ availBlks' = availBlks
      BY <1>1, PopSound DEF PopCas
    <2> QED
      BY <1>0, <1>a, <2>1, <2>2, <2>3
  <1>2. ASSUME NEW t \in Threads, PopCount(t) PROVE AvailAccounts'
    <2>1. t \in Popping /\ Popping' = Popping \ {t} /\ Pushing' = Pushing
      BY <1>2, <1>0 DEF PopCount, Popping, Pushing, At
    <2>2. Cardinality(Popping') = Cardinality(Popping) - 1
      BY <1>0, <2>1, MoveCount
    <2> QED
      BY <1>0, <1>a, <1>2, <2>1, <2>2 DEF PopCount
  <1>3. ASSUME NEW t \in Threads, PushCas(t) PROVE AvailAccounts'
    <2>1. t \notin Pushing /\ Pushing' = Pushing \cup {t} /\ Popping' = Popping
      BY <1>3, <1>0 DEF PushCas, Popping, Pushing, At
    <2>2. Cardinality(Pushing') = Cardinality(Pushing) + 1
      BY <1>0, <2>1, MoveCount
    <2>3. Len(stack') = Len(stack) + 1 /\ availBlks' = availBlks
      BY <1>3, PushSound DEF PushCas
    <2> QED
      BY <1>0, <1>a, <2>1, <2>2, <2>3
  <1>4. ASSUME NEW t \in Threads, PushCount(t) PROVE AvailAccounts'
    <2>1. t \in Pushing /\ Pushing' = Pushing \ {t} /\ Popping' = Popping
      BY <1>4, <1>0 DEF PushCount, Popping, Pushing, At
    <2>2. Cardinality(Pushing') = Cardinality(Pushing) - 1
      BY <1>0, <2>1, MoveCount
    <2> QED
      BY <1>0, <1>a, <1>4, <2>1, <2>2 DEF PushCount
  <1>5. ASSUME NEW t \in Threads,
               \/ ReadTop(t) \/ Retry(t) \/ Alloc(t) \/ PopEmpty(t)
               \/ PopNext(t) \/ PopMark(t) \/ Free(t) \/ PushNext(t)
        PROVE  AvailAccounts'
    <2>1. Pushing' = Pushing /\ Popping' = Popping
          /\ UNCHANGED <<stack, availBlks>>
      BY <1>5, <1>0 DEF ReadTop, Retry, Alloc, PopEmpty, PopNext, PopMark,
                        Free, PushNext, Popping, Pushing, At
    <2> QED
      BY <1>0, <1>a, <2>1
  <1>6. CASE Disable \/ Enable \/ UNCHANGED vars
    <2>1. UNCHANGED <<stack, availBlks, pc>>
      BY <1>6 DEF Disable, Enable, vars
    <2>2. Pushing' = Pushing /\ Popping' = Popping
      BY <2>1 DEF Pushing, Popping, At
    <2> QED
      BY <1>0, <1>a, <2>1, <2>2
  <1> QED
    BY <1>1, <1>2, <1>3, <1>4, <1>5, <1>6 DEF Next, Thread

-----------------------------------------------------------------------------
(* The pool as Lac_MemPoolCreate leaves it.                                *)

\* As many different blocks as the pool has: all of them.
LEMMA EveryBlock ==
    ASSUME NEW s \in [1..NumElements -> Blocks], IsInjective(s)
    PROVE  /\ NumElements \in Nat
           /\ s \in Seq(Blocks)
           /\ Len(s) = NumElements
           /\ \A i, j \in 1..Len(s) : s[i] = s[j] => i = j
           /\ \A b \in Blocks : \E i \in 1..Len(s) : s[i] = b
  <1>1. NumElements \in Nat
    BY BlocksAssumption, FS_CardinalityType DEF NumElements
  <1>2. s \in Seq(Blocks) /\ Len(s) = NumElements
    BY <1>1
  <1>3. s \in Injection(1..NumElements, Blocks)
    BY DEF Injection
  <1>4. Cardinality(1..NumElements) = Cardinality(Blocks)
    BY <1>1, FS_Interval DEF NumElements
  <1>5. s \in Surjection(1..NumElements, Blocks)
    BY <1>3, <1>4, BlocksAssumption, FS_Injection
  <1>6. \A b \in Blocks : \E i \in 1..NumElements : s[i] = b
    BY <1>5 DEF Surjection
  <1> QED
    BY <1>1, <1>2, <1>6 DEF IsInjective

LEMMA InitIInv == Init => IInv
  <1> SUFFICES ASSUME Init PROVE IInv
    OBVIOUS
  <1>1. /\ NumElements \in Nat
        /\ stack \in Seq(Blocks)
        /\ Len(stack) = NumElements
        /\ \A i, j \in 1..Len(stack) : stack[i] = stack[j] => i = j
        /\ \A b \in Blocks : \E i \in 1..Len(stack) : stack[i] = b
    BY EveryBlock DEF Init
  <1>2. \A i \in 0..Len(stack) : Below(stack, i) \in Pointers
    BY <1>1, ElementOfSeq DEF Below, Pointers
  <1>3. \A i \in 1..Len(stack) : pNext[stack[i]] = Below(stack, i)
    <2> SUFFICES ASSUME NEW i \in 1..Len(stack)
                 PROVE  pNext[stack[i]] = Below(stack, i)
      OBVIOUS
    <2>1. stack[i] \in Blocks
      BY <1>1, ElementOfSeq
    <2>2. i = CHOOSE j \in 1..NumElements : stack[j] = stack[i]
      BY <1>1
    <2> QED
      BY <2>1, <2>2 DEF Init
  <1>4. pNext \in [Blocks -> Pointers]
    <2> SUFFICES ASSUME NEW b \in Blocks PROVE pNext[b] \in Pointers
      BY DEF Init
    <2>1. PICK i \in 1..Len(stack) : stack[i] = b
      BY <1>1
    <2> QED
      BY <1>2, <1>3, <2>1
  <1>5. TypeInv
    <2>1. top.ctr \in 0..MaxOps /\ NoTop \in Tops
      BY BoundAssumption DEF Init, NoTop, Tops, Pointers
    <2>2. top \in Tops
      BY <1>1, <1>2, <2>1 DEF Init, Tops
    <2> QED
      BY <1>1, <1>4, <2>1, <2>2 DEF Init, TypeInv, Places, Pointers
  <1>6. Linked
    BY <1>3 DEF Init, Linked
  <1>7. PlaceInv
    BY <1>1 DEF Init, PlaceInv, Carrying, OwnPlaces
  <1>8. ReadInv
    BY DEF Init, ReadInv, NoTop
  <1>9. AvailAccounts
    <2>1. At({"popCount"}) = {} /\ At({"pushCount"}) = {}
      BY DEF Init, At
    <2>2. /\ Cardinality(At({"popCount"})) = 0
          /\ Cardinality(At({"pushCount"})) = 0
      BY <2>1, FS_EmptySet
    <2> QED
      BY <1>1, <2>2 DEF Init, AvailAccounts
  <1> QED
    BY <1>5, <1>6, <1>7, <1>8, <1>9 DEF IInv

-----------------------------------------------------------------------------
(* The theorems.                                                           *)

\* The inductive invariant holds of every reachable state.
THEOREM Invariance == Spec => []IInv
  <1>1. IInv /\ [Next]_vars => IInv'
    BY TypeInvStep, LinkedStep, PlaceInvStep, ReadInvStep, AvailStep DEF IInv
  <1> QED
    BY <1>1, InitIInv, PTL DEF Spec

\* A function that is one-to-one on a set has as many values there.
LEMMA ImageCount ==
    ASSUME NEW f, NEW S, IsFiniteSet(S),
           \A x, y \in S : f[x] = f[y] => x = y
    PROVE  /\ IsFiniteSet({f[x] : x \in S})
           /\ Cardinality({f[x] : x \in S}) = Cardinality(S)
  <1> DEFINE T == {f[x] : x \in S}
             g == [x \in S |-> f[x]]
  <1>1. g \in Bijection(S, T)
    BY Fun_IsBij
  <1>2. ExistsBijection(S, T)
    BY <1>1 DEF ExistsBijection
  <1> QED
    BY <1>2, FS_Bijection

LEMMA IntervalCount ==
    \A n \in Nat : IsFiniteSet(1..n) /\ Cardinality(1..n) = n
  BY FS_Interval

\* No more blocks are on the stack, and popped, than the pool has.
LEMMA PoppedBound ==
    ASSUME IInv
    PROVE  Len(stack) + Cardinality(Popping) <= NumElements
  <1> DEFINE Q == {blk[t] : t \in Popping}
             N == 1..Len(stack)
             R == {stack[i] : i \in N}
  <1>1. Len(stack) \in Nat /\ R \subseteq Blocks
    BY LenProperties, ElementOfSeq DEF IInv, TypeInv
  <1>2. IsFiniteSet(N) /\ Cardinality(N) = Len(stack)
    BY <1>1, IntervalCount
  <1>a. \A i, j \in N : stack[i] = stack[j] => i = j
    BY DEF IInv, PlaceInv
  <1> HIDE DEF N, Q
  <1>3. IsFiniteSet(R) /\ Cardinality(R) = Len(stack)
    BY <1>2, <1>a, ImageCount
  <1>4. IsFiniteSet(Popping)
    BY AtFinite DEF Popping
  <1>5. \A t \in Popping : t \in Threads /\ Carrying(t)
    BY DEF Popping, At, Carrying, OwnPlaces
  <1>6. \A t, u \in Popping : blk[t] = blk[u] => t = u
    BY <1>5 DEF IInv, PlaceInv
  <1> USE DEF N, Q
  <1>7. IsFiniteSet(Q) /\ Cardinality(Q) = Cardinality(Popping)
    BY <1>4, <1>6, ImageCount
  <1>8. Q \subseteq Blocks /\ R \cap Q = {}
    BY <1>5 DEF IInv, PlaceInv
  <1>9. Cardinality(R \cup Q) = Len(stack) + Cardinality(Popping)
    <2> HIDE DEF Q, R
    <2>1. Cardinality(R \cap Q) = 0 /\ Cardinality(Q) \in Nat
      BY <1>7, <1>8, FS_EmptySet, FS_CardinalityType
    <2>2. Cardinality(R \cup Q) =
            Cardinality(R) + Cardinality(Q) - Cardinality(R \cap Q)
      BY <1>3, <1>7, FS_Union
    <2> QED
      BY <1>1, <1>3, <1>7, <2>1, <2>2
  <1>10. Cardinality(R \cup Q) <= NumElements
    BY <1>1, <1>8, BlocksAssumption, FS_Subset DEF NumElements
  <1> QED
    BY <1>9, <1>10

\* Every variable keeps its type.  The count of available blocks is never
\* more than the pool has, and below zero by no more than one per thread.
THEOREM TypeCorrect == Spec => []TypeOK
  <1>1. IInv => TypeOK
    <2> SUFFICES ASSUME IInv PROVE TypeOK
      OBVIOUS
    <2>1. /\ Len(stack) \in Nat
          /\ availBlks = Len(stack) + Cardinality(Popping)
                           - Cardinality(Pushing)
          /\ IsFiniteSet(Popping) /\ Cardinality(Popping) \in Nat
          /\ IsFiniteSet(Pushing) /\ Cardinality(Pushing) \in Nat
      BY AtFinite, LenProperties, FS_CardinalityType
         DEF IInv, TypeInv, AvailAccounts, Popping, Pushing
    <2>2. Cardinality(Pushing) <= Cardinality(Threads)
      BY ThreadsAssumption, FS_Subset DEF Pushing, At
    <2>3. Cardinality(Threads) \in Nat /\ NumElements \in Nat
      BY ThreadsAssumption, BlocksAssumption, FS_CardinalityType DEF NumElements
    <2>4. availBlks \in -Cardinality(Threads)..NumElements
      BY <2>1, <2>2, <2>3, PoppedBound
    <2> QED
      BY <2>4 DEF IInv, TypeInv, TypeOK, Places, Tops
  <1> QED
    BY <1>1, Invariance, PTL

\* The links in the blocks are the stack, whatever a thread has read.
THEOREM StackLinked == Spec => []Linked
  <1>1. IInv => Linked
    BY DEF IInv
  <1> QED
    BY <1>1, Invariance, PTL

\* Once a block is off the stack one thread or client has it, and no other.
THEOREM OneOwner == Spec => []OnePlace
  <1>1. IInv => OnePlace
    <2> SUFFICES ASSUME IInv PROVE OnePlace
      OBVIOUS
    <2>1. Carriers = {t \in Threads : Carrying(t)}
      BY DEF Carriers, At, Carrying, OwnPlaces
    <2>2. DOMAIN stack = 1..Len(stack)
      BY LenProperties DEF IInv, TypeInv
    <2>3. IsInjective(stack)
      BY <2>2 DEF IInv, PlaceInv, IsInjective
    <2>4. Range(stack) = {stack[i] : i \in 1..Len(stack)}
      BY <2>2 DEF Range
    <2>5. ASSUME NEW b \in Blocks
          PROVE  Cardinality({t \in Carriers : blk[t] = b})
                   + (IF b \in clients THEN 1 ELSE 0)
                   + (IF b \in Range(stack) THEN 1 ELSE 0) = 1
      <3> DEFINE C == {t \in Carriers : blk[t] = b}
      <3>1. CASE b \in clients
        <4>1. C = {} /\ b \notin Range(stack)
          BY <3>1, <2>1, <2>4 DEF IInv, PlaceInv
        <4> QED
          BY <4>1, <3>1, FS_EmptySet
      <3>2. CASE b \in Range(stack)
        <4>1. C = {} /\ b \notin clients
          BY <3>2, <2>1, <2>4 DEF IInv, PlaceInv
        <4> QED
          BY <4>1, <3>2, FS_EmptySet
      <3>3. CASE b \notin clients /\ b \notin Range(stack)
        <4>1. PICK t \in Threads : Carrying(t) /\ blk[t] = b
          BY <3>3, <2>4 DEF IInv, PlaceInv
        <4>2. C = {t}
          BY <4>1, <2>1 DEF IInv, PlaceInv
        <4> QED
          BY <4>2, <3>3, FS_Singleton
      <3> QED
        BY <3>1, <3>2, <3>3
    <2> QED
      BY <2>3, <2>5 DEF OnePlace
  <1> QED
    BY <1>1, Invariance, PTL

\* The count of available blocks misses what is on its way, and no more.
THEOREM CountAccounts == Spec => []AvailAccounts
  <1>1. IInv => AvailAccounts
    BY DEF IInv
  <1> QED
    BY <1>1, Invariance, PTL

-----------------------------------------------------------------------------
(* The pool implements BlockPool: a successful compare-and-swap takes or   *)
(* gives a block, and no other step shows.                                 *)

FreeBlocks == {stack[i] : i \in 1..Len(stack)}
HandedOut == clients \cup {blk[t] : t \in {u \in Threads : Carrying(u)}}

\* The sets the refinement maps to.
LEMMA Mapping ==
    TypeInv => /\ Range(stack) = FreeBlocks
               /\ clients \cup {blk[t] : t \in Carriers} = HandedOut
  BY LenProperties
     DEF TypeInv, Range, FreeBlocks, HandedOut, Carriers, At, Carrying, OwnPlaces

\* The initial states map to those of the abstract pool.
LEMMA PoolInit == Init => Pool!Init
  <1> SUFFICES ASSUME Init PROVE Pool!Init
    OBVIOUS
  <1>1. IInv
    BY InitIInv
  <1>2. \A t \in Threads : ~Carrying(t)
    BY DEF Init, Carrying, OwnPlaces
  <1>3. HandedOut = {}
    BY <1>2 DEF Init, HandedOut
  <1>4. FreeBlocks = Blocks
    BY <1>1, <1>3, ElementOfSeq
       DEF IInv, TypeInv, PlaceInv, FreeBlocks, HandedOut
  <1> QED
    BY <1>1, <1>3, <1>4, Mapping DEF Pool!Init, IInv

\* A step that leaves the stack and who carries what alone shows nothing.
LEMMA Hidden ==
    ASSUME IInv, UNCHANGED <<stack, clients>>,
           \A u \in Threads : Carrying(u)' <=> Carrying(u),
           \A u \in Threads : Carrying(u) => blk'[u] = blk[u]
    PROVE  UNCHANGED <<FreeBlocks, HandedOut>>
  BY DEF FreeBlocks, HandedOut

\* Every step of the lock-free stack is a step of the abstract pool, or none.
LEMMA PoolStep ==
    ASSUME IInv, [Next]_vars
    PROVE  \/ \E b \in FreeBlocks :
                /\ FreeBlocks' = FreeBlocks \ {b}
                /\ HandedOut' = HandedOut \cup {b}
           \/ \E b \in HandedOut :
                /\ HandedOut' = HandedOut \ {b}
                /\ FreeBlocks' = FreeBlocks \cup {b}
           \/ UNCHANGED <<FreeBlocks, HandedOut>>
  <1> USE DEF Carrying, OwnPlaces, poolVars, countVars, threadVars, Goto
  <1>0. /\ Len(stack) \in Nat /\ pc \in [Threads -> Places]
        /\ blk \in [Threads -> Pointers] /\ PlaceInv
    BY LenProperties DEF IInv, TypeInv
  <1>1. ASSUME NEW t \in Threads, PopCas(t)
        PROVE  \E b \in FreeBlocks :
                  /\ FreeBlocks' = FreeBlocks \ {b}
                  /\ HandedOut' = HandedOut \cup {b}
    <2>1. /\ Len(stack) > 0
          /\ blk' = [blk EXCEPT ![t] = stack[1]]
          /\ Len(stack') = Len(stack) - 1
          /\ \A i \in 1..Len(stack') : stack'[i] = stack[i + 1]
          /\ pc' = [pc EXCEPT ![t] = "popCount"]
          /\ pc[t] = "popCas"
          /\ clients' = clients
      BY <1>1, PopSound DEF PopCas
    <2>2. stack[1] \in FreeBlocks
      BY <1>0, <2>1 DEF FreeBlocks
    <2>3. FreeBlocks' \subseteq FreeBlocks \ {stack[1]}
      BY <1>0, <2>1 DEF FreeBlocks, PlaceInv
    <2>4. ASSUME NEW i \in 1..Len(stack), stack[i] # stack[1]
          PROVE  stack[i] \in FreeBlocks'
      <3>1. i - 1 \in 1..Len(stack') /\ stack'[i - 1] = stack[i]
        BY <1>0, <2>1, <2>4
      <3> QED
        BY <3>1 DEF FreeBlocks
    <2>5. FreeBlocks \ {stack[1]} \subseteq FreeBlocks'
      BY <2>4 DEF FreeBlocks
    <2>6. HandedOut' = HandedOut \cup {stack[1]}
      BY <1>0, <2>1 DEF HandedOut
    <2> QED
      BY <2>2, <2>3, <2>5, <2>6
  <1>2. ASSUME NEW t \in Threads, PushCas(t)
        PROVE  \E b \in HandedOut :
                  /\ HandedOut' = HandedOut \ {b}
                  /\ FreeBlocks' = FreeBlocks \cup {b}
    <2>1. /\ blk[t] \in Blocks \ clients
          /\ Len(stack') = Len(stack) + 1
          /\ stack'[1] = blk[t]
          /\ \A i \in 2..Len(stack') : stack'[i] = stack[i - 1]
          /\ pc' = [pc EXCEPT ![t] = "pushCount"]
          /\ pc[t] = "pushCas"
          /\ UNCHANGED <<clients, blk>>
      BY <1>2, PushSound DEF PushCas
    <2>2. blk[t] \in HandedOut
      BY <2>1 DEF HandedOut
    <2>3. FreeBlocks' \subseteq FreeBlocks \cup {blk[t]}
      BY <1>0, <2>1 DEF FreeBlocks
    <2>4. ASSUME NEW i \in 1..Len(stack) PROVE stack[i] \in FreeBlocks'
      <3>1. i + 1 \in 2..Len(stack') /\ stack'[i + 1] = stack[i]
        BY <1>0, <2>1
      <3> QED
        BY <3>1, <1>0, <2>1 DEF FreeBlocks
    <2>5. FreeBlocks \cup {blk[t]} \subseteq FreeBlocks'
      BY <1>0, <2>1, <2>4 DEF FreeBlocks
    <2>6. HandedOut' = HandedOut \ {blk[t]}
      BY <1>0, <2>1 DEF HandedOut, PlaceInv
    <2> QED
      BY <2>2, <2>3, <2>5, <2>6
  <1>3. ASSUME NEW t \in Threads, PopMark(t)
        PROVE  UNCHANGED <<FreeBlocks, HandedOut>>
    BY <1>3, <1>0 DEF PopMark, FreeBlocks, HandedOut, PlaceInv
  <1>4. ASSUME NEW t \in Threads, Free(t)
        PROVE  UNCHANGED <<FreeBlocks, HandedOut>>
    BY <1>4, <1>0 DEF Free, FreeBlocks, HandedOut, PlaceInv
  <1>5. ASSUME NEW t \in Threads,
               \/ ReadTop(t) \/ Retry(t) \/ Alloc(t) \/ PopEmpty(t)
               \/ PopNext(t) \/ PopCount(t) \/ PushNext(t) \/ PushCount(t)
        PROVE  UNCHANGED <<FreeBlocks, HandedOut>>
    <2>1. /\ UNCHANGED <<stack, clients>>
          /\ \A u \in Threads : Carrying(u)' <=> Carrying(u)
          /\ \A u \in Threads : Carrying(u) => blk'[u] = blk[u]
      BY <1>5, <1>0 DEF ReadTop, Retry, Alloc, PopEmpty, PopNext, PopCount,
                        PushNext, PushCount
    <2> QED
      BY <2>1, Hidden
  <1>6. CASE Disable \/ Enable \/ UNCHANGED vars
    <2>1. UNCHANGED <<stack, clients, pc, blk>>
      BY <1>6 DEF Disable, Enable, vars
    <2> QED
      BY <2>1 DEF FreeBlocks, HandedOut
  <1> QED
    BY <1>1, <1>2, <1>3, <1>4, <1>5, <1>6 DEF Next, Thread

\* A memory pool hands a block out only while it is free, and takes back only
\* what it handed out: the lock-free stack implements BlockPool.
THEOREM ImplementsPool == Spec => PoolSpec
  <1>1. IInv /\ IInv' /\ [Next]_vars =>
          [Pool!Next]_<<Range(stack), clients \cup {blk[t] : t \in Carriers}>>
    <2> SUFFICES ASSUME IInv, IInv', [Next]_vars
                 PROVE  [Pool!Next]_<<Range(stack),
                                      clients \cup {blk[t] : t \in Carriers}>>
      OBVIOUS
    <2>1. /\ Range(stack) = FreeBlocks /\ Range(stack') = FreeBlocks'
          /\ clients \cup {blk[t] : t \in Carriers} = HandedOut
          /\ clients' \cup {blk'[t] : t \in Carriers'} = HandedOut'
      <3>1. TypeInv /\ TypeInv'
        BY DEF IInv
      <3>2. (TypeInv => /\ Range(stack) = FreeBlocks
                        /\ clients \cup {blk[t] : t \in Carriers} = HandedOut)'
        BY Mapping, PTL
      <3> QED
        BY <3>1, <3>2, Mapping
    <2> QED
      BY <2>1, PoolStep DEF Pool!Next, Pool!Take, Pool!Give
  <1> QED
    BY <1>1, PoolInit, Invariance, PTL DEF Spec, PoolSpec, Pool!Spec
=============================================================================

----------------------------- MODULE LacMemPool -----------------------------
(***************************************************************************)
(* A memory pool of the acceleration layer: the lock-free stack of free    *)
(* blocks with its tagged top, the count of available blocks beside it,    *)
(* and the flag that disables allocation.  Threads that submit allocate,   *)
(* threads that poll free, any thread may free any block.                  *)
(*                                                                         *)
(* The 128-bit top is replaced by one compare-and-swap, but it is read as  *)
(* two 64-bit words: a thread may see the counter of one moment and the    *)
(* pointer of another, in either order.                                    *)
(***************************************************************************)
EXTENDS Integers, Sequences, FiniteSets, Functions

CONSTANTS
    Threads,   \* threads that allocate and free
    Blocks,    \* blocks of the pool
    Null,      \* the null pointer
    MaxOps     \* bound of the model: successful compare-and-swaps

ASSUME BlocksAssumption == IsFiniteSet(Blocks) /\ Null \notin Blocks
ASSUME ThreadsAssumption == IsFiniteSet(Threads)
ASSUME BoundAssumption == MaxOps \in Nat

NumElements == Cardinality(Blocks)
Pointers == Blocks \cup {Null}
Words == {"ctr", "ptr"}

VARIABLES
    top,       \* stack.top
    pNext,     \* of each block
    isInUse,   \* of each block
    availBlks,
    active,
    clients,   \* blocks that clients hold
    pc,        \* thread: where it is
    blk,       \* thread: the block it frees, or was given
    read,      \* thread: the words of the top it has read
    oldTop,    \* thread: what it read
    next,      \* thread: pNext of the block it read
    stack      \* history: the blocks on the stack, top first

poolVars   == <<top, pNext, stack>>
countVars  == <<isInUse, availBlks>>
threadVars == <<pc, blk, read, oldTop, next>>
vars == <<poolVars, countVars, active, clients, threadVars>>

\* The block below position i of a stack, Null under the last one.
Below(s, i) == IF i < Len(s) THEN s[i + 1] ELSE Null

NoTop == [ctr |-> 0, ptr |-> Null]

\* Lac_MemPoolCreate has pushed every block.
Init ==
    /\ stack \in {s \in [1..NumElements -> Blocks] : IsInjective(s)}
    /\ top = [ctr |-> 0, ptr |-> Below(stack, 0)]
    /\ pNext = [b \in Blocks |->
                  LET i == CHOOSE i \in 1..NumElements : stack[i] = b
                  IN Below(stack, i)]
    /\ isInUse = [b \in Blocks |-> FALSE]
    /\ availBlks = NumElements
    /\ active = TRUE
    /\ clients = {}
    /\ pc = [t \in Threads |-> "idle"]
    /\ blk = [t \in Threads |-> Null]
    /\ read = [t \in Threads |-> {}]
    /\ oldTop = [t \in Threads |-> NoTop]
    /\ next = [t \in Threads |-> Null]

-----------------------------------------------------------------------------
(* Both loops read the top, in two halves, and go back there when their    *)
(* compare-and-swap fails.                                                 *)

Goto(t, l) == pc' = [pc EXCEPT ![t] = l]

\* The end of a call, or of a round of the loop: the locals are dead.
Forget(t) ==
    /\ read' = [read EXCEPT ![t] = {}]
    /\ oldTop' = [oldTop EXCEPT ![t] = NoTop]
    /\ next' = [next EXCEPT ![t] = Null]

\* old_top.atomic = stack->top.atomic, one word at a time.
ReadTop(t) ==
    /\ pc[t] \in {"popRead", "pushRead"}
    /\ \E w \in Words \ read[t] :
          /\ oldTop' = [oldTop EXCEPT ![t][w] = top[w]]
          /\ read' = [read EXCEPT ![t] = @ \cup {w}]
          /\ IF read[t] \cup {w} # Words
             THEN pc' = pc
             ELSE Goto(t, IF pc[t] = "popRead" THEN "popNext" ELSE "pushNext")
    /\ UNCHANGED <<poolVars, countVars, active, clients, blk, next>>

\* Wrong variant of Retry: a push counts its block in the loop.
RetryCounts(t) ==
    /\ pc[t] \in {"popCas", "pushCas"}
    /\ top # oldTop[t]
    /\ IF pc[t] = "popCas"
       THEN Goto(t, "popRead") /\ availBlks' = availBlks
       ELSE Goto(t, "pushRead") /\ availBlks' = availBlks + 1
    /\ Forget(t)
    /\ UNCHANGED <<poolVars, isInUse, active, clients, blk>>

\* The compare-and-swap fails.
Retry(t) ==
    /\ pc[t] \in {"popCas", "pushCas"}
    /\ top # oldTop[t]
    /\ Goto(t, IF pc[t] = "popCas" THEN "popRead" ELSE "pushRead")
    /\ Forget(t)
    /\ UNCHANGED <<poolVars, countVars, active, clients, blk>>

-----------------------------------------------------------------------------
(* Lac_MemPoolEntryAlloc.                                                  *)

\* The pool must be active; a disabled one returns NULL.
Alloc(t) ==
    /\ pc[t] = "idle"
    /\ active
    /\ Goto(t, "popRead")
    /\ UNCHANGED <<poolVars, countVars, active, clients, blk, read, oldTop,
                   next>>

\* The stack is empty: RETRY.
PopEmpty(t) ==
    /\ pc[t] = "popNext"
    /\ oldTop[t].ptr = Null
    /\ Goto(t, "idle")
    /\ Forget(t)
    /\ UNCHANGED <<poolVars, countVars, active, clients, blk>>

\* new_top.ptr = next->pNext, of a block that others may have taken.
PopNext(t) ==
    /\ pc[t] = "popNext"
    /\ oldTop[t].ptr # Null
    /\ next' = [next EXCEPT ![t] = pNext[oldTop[t].ptr]]
    /\ Goto(t, "popCas")
    /\ UNCHANGED <<poolVars, countVars, active, clients, blk, read, oldTop>>

\* Wrong variant of PopCas: only the pointer is compared.
PopCasPointer(t) ==
    /\ pc[t] = "popCas"
    /\ top.ptr = oldTop[t].ptr
    /\ top.ctr < MaxOps
    /\ top' = [ctr |-> top.ctr + 1, ptr |-> next[t]]
    /\ stack' = SubSeq(stack, 2, Len(stack))
    /\ blk' = [blk EXCEPT ![t] = oldTop[t].ptr]
    /\ Goto(t, "popCount")
    /\ Forget(t)
    /\ UNCHANGED <<pNext, countVars, active, clients>>

\* The compare-and-swap takes the block off the stack.
PopCas(t) ==
    /\ pc[t] = "popCas"
    /\ top = oldTop[t]
    /\ top.ctr < MaxOps
    /\ top' = [ctr |-> oldTop[t].ctr + 1, ptr |-> next[t]]
    /\ stack' = SubSeq(stack, 2, Len(stack))
    /\ blk' = [blk EXCEPT ![t] = oldTop[t].ptr]
    /\ Goto(t, "popCount")
    /\ Forget(t)
    /\ UNCHANGED <<pNext, countVars, active, clients>>

\* __sync_sub_and_fetch(&availBlks, 1)
PopCount(t) ==
    /\ pc[t] = "popCount"
    /\ availBlks' = availBlks - 1
    /\ Goto(t, "popMark")
    /\ UNCHANGED <<poolVars, isInUse, active, clients, blk, read, oldTop, next>>

\* The block is in use, and the client's.
PopMark(t) ==
    /\ pc[t] = "popMark"
    /\ isInUse' = [isInUse EXCEPT ![blk[t]] = TRUE]
    /\ clients' = clients \cup {blk[t]}
    /\ blk' = [blk EXCEPT ![t] = Null]
    /\ Goto(t, "idle")
    /\ UNCHANGED <<poolVars, availBlks, active, read, oldTop, next>>

-----------------------------------------------------------------------------
(* Lac_MemPoolEntryFree.                                                   *)

\* The block is not in use from here on.
Free(t) ==
    /\ pc[t] = "idle"
    /\ \E b \in clients :
          /\ clients' = clients \ {b}
          /\ isInUse' = [isInUse EXCEPT ![b] = FALSE]
          /\ blk' = [blk EXCEPT ![t] = b]
    /\ Goto(t, "pushRead")
    /\ UNCHANGED <<poolVars, availBlks, active, read, oldTop, next>>

\* val->pNext = old_top.ptr
PushNext(t) ==
    /\ pc[t] = "pushNext"
    /\ pNext' = [pNext EXCEPT ![blk[t]] = oldTop[t].ptr]
    /\ Goto(t, "pushCas")
    /\ UNCHANGED <<top, stack, countVars, active, clients, blk, read, oldTop,
                   next>>

\* Wrong variant of PushCas: the new top is compared with nothing.
PushCasBlind(t) ==
    /\ pc[t] = "pushCas"
    /\ top.ctr < MaxOps
    /\ top' = [ctr |-> oldTop[t].ctr + 1, ptr |-> blk[t]]
    /\ stack' = <<blk[t]>> \o stack
    /\ Goto(t, "pushCount")
    /\ Forget(t)
    /\ UNCHANGED <<pNext, countVars, active, clients, blk>>

\* The compare-and-swap puts the block on the stack.
PushCas(t) ==
    /\ pc[t] = "pushCas"
    /\ top = oldTop[t]
    /\ top.ctr < MaxOps
    /\ top' = [ctr |-> oldTop[t].ctr + 1, ptr |-> blk[t]]
    /\ stack' = <<blk[t]>> \o stack
    /\ Goto(t, "pushCount")
    /\ Forget(t)
    /\ UNCHANGED <<pNext, countVars, active, clients, blk>>

\* Wrong variant of PushCount: an interleaved read and write of the count,
\* whose update is lost.
PushCountLost(t) ==
    /\ pc[t] = "pushCount"
    /\ availBlks' = IF \E u \in Threads \ {t} : pc[u] = "popCount"
                    THEN availBlks ELSE availBlks + 1
    /\ blk' = [blk EXCEPT ![t] = Null]
    /\ Goto(t, "idle")
    /\ UNCHANGED <<poolVars, isInUse, active, clients, read, oldTop, next>>

\* __sync_add_and_fetch(&availBlks, 1), of a block that others may have.
PushCount(t) ==
    /\ pc[t] = "pushCount"
    /\ availBlks' = availBlks + 1
    /\ blk' = [blk EXCEPT ![t] = Null]
    /\ Goto(t, "idle")
    /\ UNCHANGED <<poolVars, isInUse, active, clients, read, oldTop, next>>

-----------------------------------------------------------------------------
\* Lac_MemPoolDisable, when the device is in error.
Disable ==
    /\ active
    /\ active' = FALSE
    /\ UNCHANGED <<poolVars, countVars, clients, threadVars>>

\* Lac_MemPoolEnable, when the device has restarted.
Enable ==
    /\ ~active
    /\ active' = TRUE
    /\ UNCHANGED <<poolVars, countVars, clients, threadVars>>

Thread(t) ==
    \/ ReadTop(t) \/ Retry(t)
    \/ Alloc(t) \/ PopEmpty(t) \/ PopNext(t) \/ PopCas(t)
    \/ PopCount(t) \/ PopMark(t)
    \/ Free(t) \/ PushNext(t) \/ PushCas(t) \/ PushCount(t)

Next ==
    \/ \E t \in Threads : Thread(t)
    \/ Disable
    \/ Enable

Spec == Init /\ [][Next]_vars

-----------------------------------------------------------------------------
(* Properties.                                                             *)

\* The threads at one of these places.
At(places) == {t \in Threads : pc[t] \in places}

\* Threads whose block is theirs alone: on its way to a client or back.
Carriers == At({"popCount", "popMark", "pushRead", "pushNext", "pushCas"})

\* Every variable keeps its type; the count strays from the range of an
\* unsigned count of blocks by no more than one for each thread.
TypeOK ==
    /\ top \in [ctr : 0..MaxOps, ptr : Pointers]
    /\ pNext \in [Blocks -> Pointers]
    /\ isInUse \in [Blocks -> BOOLEAN]
    /\ availBlks \in -Cardinality(Threads)..NumElements
    /\ active \in BOOLEAN
    /\ clients \subseteq Blocks
    /\ pc \in [Threads -> {"idle", "popRead", "popNext", "popCas", "popCount",
                           "popMark", "pushRead", "pushNext", "pushCas",
                           "pushCount"}]
    /\ blk \in [Threads -> Pointers]
    /\ read \in [Threads -> SUBSET Words]
    /\ oldTop \in [Threads -> [ctr : 0..MaxOps, ptr : Pointers]]
    /\ next \in [Threads -> Pointers]
    /\ stack \in Seq(Blocks)

\* The top and the links of the blocks are the stack that the operations
\* make, in spite of words read at different moments, of links read in blocks
\* that others have taken, and of blocks that come back (the ABA problem).
Linked ==
    /\ top.ptr = Below(stack, 0)
    /\ \A i \in 1..Len(stack) : pNext[stack[i]] = Below(stack, i)

\* Every block is in one place, once: on the stack, with a client, or in the
\* hands of one thread.
OnePlace ==
    /\ IsInjective(stack)
    /\ \A b \in Blocks :
          Cardinality({t \in Carriers : blk[t] = b})
            + (IF b \in clients THEN 1 ELSE 0)
            + (IF b \in Range(stack) THEN 1 ELSE 0) = 1

\* availBlks is the length of the stack but for the calls that have swapped
\* the top and not counted yet.
AvailAccounts ==
    availBlks = Len(stack) + Cardinality(At({"popCount"}))
                           - Cardinality(At({"pushCount"}))

\* The pool of blocks the clients see.
Pool == INSTANCE BlockPool WITH
    free <- Range(stack),
    handedOut <- clients \cup {blk[t] : t \in Carriers}

\* The lock-free stack is a pool: no block is handed out twice, none that is
\* not on the stack.
PoolSpec == Pool!Spec
=============================================================================

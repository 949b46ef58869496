-------------------------- MODULE PipelineProofs ---------------------------
(***************************************************************************)
(* Proofs about data handed on: Queue, for any number of threads, any      *)
(* limit and any number of calls: the inductive invariant, no lost wakeup, *)
(* the limit, and that the queue implements Fifo; and mapreduce, for any   *)
(* number of mappers and any input: the cuts, the pipes, and the counts.   *)
(***************************************************************************)
EXTENDS Queue, MapReduce, TLAPS, SequenceTheorems, FiniteSetTheorems

(* A thread inside an operation still owes that call ... *)
InsideOwesCall == \A t \in inside : left[t] > 0

(* ... so nobody is inside once the joined threads' queue is destroyed. *)
DestroyedIsQuiet == ~alive => inside = {}

(***************************************************************************)
(* NoLostWakeup is not inductive by itself: that a push or a pull keeps it *)
(* needs size to count the list, and that no step of a thread follows      *)
(* Destroy.                                                                *)
(***************************************************************************)
IInv ==
    /\ TypeOK
    /\ InsideOwesCall
    /\ DestroyedIsQuiet
    /\ WithinLimit
    /\ NoLostWakeup

(* What a producer that still owes a call pushes is a datum of the model. *)
LEMMA PushedIsItem ==
    ASSUME TypeOK, NEW p \in Producers, left[p] > 0
    PROVE  <<p, left[p]>> \in Item
<1>1. p \in Threads
  BY DEF Threads
<1>2. left[p] \in 1..Calls[p]
  BY <1>1, CallsAssumption DEF TypeOK
<1> QED
  BY <1>2 DEF Item

(* Returning from a call keeps the number of calls left within its range. *)
LEMMA ReturnKeepsLeft ==
    ASSUME TypeOK, NEW t \in Threads, left[t] > 0, Return(t)
    PROVE  /\ left' \in [Threads -> Nat]
           /\ \A u \in Threads : left'[u] <= Calls[u]
           /\ \A u \in inside' : u # t /\ left'[u] = left[u]
<1>1. left \in [Threads -> Nat] /\ inside \subseteq Threads
  BY DEF TypeOK
<1>2. \A u \in Threads : left[u] <= Calls[u] /\ Calls[u] \in Nat
  BY CallsAssumption DEF TypeOK
<1> QED
  BY <1>1, <1>2 DEF Return

(* The state after queue_create satisfies the invariant. *)
LEMMA InitIInv == Init => IInv
<1> SUFFICES ASSUME Init PROVE IInv
  OBVIOUS
<1> USE DEF Init
<1>1. TypeOK
  <2>1. \A t \in Threads : Calls[t] \in Nat
    BY CallsAssumption
  <2> QED
    BY <2>1, CallsAssumption DEF TypeOK
<1>2. WithinLimit
  BY MaxSizeAssumption DEF WithinLimit
<1> QED
  BY <1>1, <1>2 DEF IInv, InsideOwesCall, DestroyedIsQuiet, NoLostWakeup

(* Every step of a thread, and the destruction, preserve the invariant. *)
LEMMA NextIInv == IInv /\ [Next]_vars => IInv'
<1> SUFFICES ASSUME IInv, [Next]_vars PROVE IInv'
  OBVIOUS
<1> USE MaxSizeAssumption
<1>1. ASSUME NEW t \in Threads, Call(t) PROVE IInv'
  BY <1>1 DEF IInv, TypeOK, InsideOwesCall, DestroyedIsQuiet, WithinLimit,
              NoLostWakeup, Call, Full, Empty
<1>2. ASSUME NEW t \in Threads, SpuriousWakeup(t) PROVE IInv'
  BY <1>2 DEF IInv, TypeOK, InsideOwesCall, DestroyedIsQuiet, WithinLimit,
              NoLostWakeup, SpuriousWakeup, Full, Empty
<1>3. ASSUME NEW p \in Producers, PushBlock(p) PROVE IInv'
  BY <1>3 DEF IInv, TypeOK, InsideOwesCall, DestroyedIsQuiet, WithinLimit,
              NoLostWakeup, PushBlock, Running, Block, Full, Empty
<1>4. ASSUME NEW c \in Consumers, PullBlock(c) PROVE IInv'
  <2>1. c \notin Producers
    BY DisjointAssumption
  <2> QED
    BY <1>4, <2>1 DEF IInv, TypeOK, InsideOwesCall, DestroyedIsQuiet,
              WithinLimit, NoLostWakeup, PullBlock, Running, Block, Full, Empty
<1>5. ASSUME NEW p \in Producers, Push(p) PROVE IInv'
  <2> DEFINE d == <<p, left[p]>>
  <2>1. alive /\ p \in Threads /\ p \in inside /\ left[p] > 0
    BY <1>5
       DEF IInv, DestroyedIsQuiet, InsideOwesCall, Push, LinkNode, Running, Threads
  <2>2. d \in Item
    BY <2>1, PushedIsItem DEF IInv
  <2>3. /\ items \in Seq(Item) /\ size \in Int /\ size = Len(items)
        /\ left \in [Threads -> Nat] /\ Len(items) \in Nat
    BY <2>1 DEF IInv, TypeOK, WithinLimit
  <2>4. /\ items' = Append(items, d) /\ items' \in Seq(Item)
        /\ Len(items') = Len(items) + 1
    BY <1>5, <2>2, <2>3 DEF Push, LinkNode
  <2>5. TypeOK'
    <3>1. Return(p)
      BY <1>5 DEF Push, LinkNode
    <3>2. left' \in [Threads -> Nat] /\ \A u \in Threads : left'[u] <= Calls[u]
      BY <2>1, <3>1, ReturnKeepsLeft DEF IInv
    <3>3. waiting' \subseteq inside' /\ inside' \subseteq Threads
      BY <1>5 DEF IInv, TypeOK, Push, LinkNode, Return, Running
    <3> QED
      BY <1>5, <2>3, <2>4, <3>2, <3>3 DEF IInv, TypeOK, Push, LinkNode
  <2>6. InsideOwesCall' /\ DestroyedIsQuiet'
    BY <1>5, <2>1, <2>3 DEF IInv, TypeOK, InsideOwesCall, DestroyedIsQuiet,
                            Push, LinkNode, Return
  <2>7. WithinLimit'
    BY <1>5, <2>1, <2>3, <2>4 DEF IInv, WithinLimit, Push, LinkNode, Full
  <2>8. NoLostWakeup'
    BY <1>5, <2>1, <2>3, <2>4
       DEF IInv, NoLostWakeup, Push, LinkNode, Full, Empty
  <2> QED
    BY <2>5, <2>6, <2>7, <2>8 DEF IInv
<1>6. ASSUME NEW c \in Consumers, Pull(c) PROVE IInv'
  <2>1. alive /\ c \in Threads /\ c \in inside /\ left[c] > 0
    BY <1>6
       DEF IInv, DestroyedIsQuiet, InsideOwesCall, Pull, UnlinkHead, Running, Threads
  <2>2. /\ items \in Seq(Item) /\ size \in Int /\ size = Len(items)
        /\ left \in [Threads -> Nat] /\ Len(items) \in Nat
    BY <2>1 DEF IInv, TypeOK, WithinLimit
  <2>3. items # <<>>
    BY <1>6, <2>2, EmptySeq DEF Pull, UnlinkHead, Empty
  <2>4. /\ Head(items) \in Item /\ items' \in Seq(Item)
        /\ Len(items') = Len(items) - 1
    BY <1>6, <2>2, <2>3, HeadTailProperties DEF Pull, UnlinkHead
  <2>5. pulled' \in Seq(Item)
    BY <1>6, <2>4, AppendProperties DEF Pull, UnlinkHead, IInv, TypeOK
  <2>6. TypeOK'
    <3>1. Return(c)
      BY <1>6 DEF Pull, UnlinkHead
    <3>2. left' \in [Threads -> Nat] /\ \A u \in Threads : left'[u] <= Calls[u]
      BY <2>1, <3>1, ReturnKeepsLeft DEF IInv
    <3>3. waiting' \subseteq inside' /\ inside' \subseteq Threads
      BY <1>6 DEF IInv, TypeOK, Pull, UnlinkHead, Return, Running
    <3> QED
      BY <1>6, <2>2, <2>4, <2>5, <3>2, <3>3 DEF IInv, TypeOK, Pull, UnlinkHead
  <2>7. InsideOwesCall' /\ DestroyedIsQuiet'
    BY <1>6, <2>1, <2>2 DEF IInv, TypeOK, InsideOwesCall, DestroyedIsQuiet,
                            Pull, UnlinkHead, Return
  <2>8. WithinLimit'
    BY <1>6, <2>1, <2>2, <2>4 DEF IInv, WithinLimit, Pull, UnlinkHead
  <2>9. NoLostWakeup'
    BY <1>6, <2>1, <2>2, <2>4
       DEF IInv, NoLostWakeup, WithinLimit, Pull, UnlinkHead, Full,
                                  Empty
  <2> QED
    BY <2>6, <2>7, <2>8, <2>9 DEF IInv
<1>7. ASSUME Destroy PROVE IInv'
  <2>1. inside = {}
    BY <1>7 DEF IInv, TypeOK, InsideOwesCall, Destroy, Finished
  <2>2. waiting = {}
    BY <2>1 DEF IInv, TypeOK
  <2>3. TypeOK'
    <3>1. items' = <<>> /\ items' \in Seq(Item)
      BY <1>7 DEF Destroy
    <3>2. alive' \in BOOLEAN
      BY <1>7, Zenon DEF Destroy
    <3> QED
      BY <1>7, <3>1, <3>2 DEF IInv, TypeOK, Destroy
  <2>4. InsideOwesCall' /\ DestroyedIsQuiet' /\ NoLostWakeup' /\ WithinLimit'
    BY <1>7, <2>1, <2>2 DEF InsideOwesCall, DestroyedIsQuiet, WithinLimit,
                            NoLostWakeup, Destroy
  <2> QED
    BY <2>3, <2>4 DEF IInv
<1>8. ASSUME UNCHANGED vars PROVE IInv'
  BY <1>8 DEF IInv, TypeOK, InsideOwesCall, DestroyedIsQuiet, WithinLimit,
              NoLostWakeup, Full, Empty, vars
<1> QED
  BY <1>1, <1>2, <1>3, <1>4, <1>5, <1>6, <1>7, <1>8
     DEF Next, PushStep, PullStep, Destroyed

(***************************************************************************)
(* The invariant holds in every reachable state of the queue.              *)
(***************************************************************************)
THEOREM Invariance == Spec => []IInv
  BY InitIInv, NextIInv, PTL DEF Spec

(* The queue's variables keep their types. *)
THEOREM TypeCorrect == Spec => []TypeOK
<1>1. IInv => TypeOK
  BY DEF IInv
<1> QED
  BY <1>1, Invariance, PTL

(***************************************************************************)
(* A thread asleep on the shared condition variable of queue_push and      *)
(* queue_pull has a reason to be asleep, for any number of threads.        *)
(***************************************************************************)
THEOREM NeverLosesWakeup == Spec => []NoLostWakeup
<1>1. IInv => NoLostWakeup
  BY DEF IInv
<1> QED
  BY <1>1, Invariance, PTL

(* The limit given to queue_create is kept, and size counts the list. *)
THEOREM KeepsLimit == Spec => []WithinLimit
<1>1. IInv => WithinLimit
  BY DEF IInv
<1> QED
  BY <1>1, Invariance, PTL

(***************************************************************************)
(* Every behaviour of the queue's threads is a behaviour of an atomic FIFO *)
(* queue: only Push, Pull and Destroy change what Fifo sees.               *)
(***************************************************************************)
THEOREM RefinesFifo == Spec => ImplementsFifo
<1>1. Init => Abstract!FifoInit
  BY DEF Init, Abstract!FifoInit
<1>2. IInv /\ [Next]_vars => [Abstract!FifoNext]_Abstract!fifoVars
  <2> SUFFICES ASSUME IInv, [Next]_vars
               PROVE  [Abstract!FifoNext]_Abstract!fifoVars
    OBVIOUS
  <2> USE DEF Abstract!fifoVars
  <2>1. ASSUME NEW t \in Threads, Call(t) \/ SpuriousWakeup(t)
        PROVE  UNCHANGED Abstract!fifoVars
    BY <2>1 DEF Call, SpuriousWakeup
  <2>2. ASSUME NEW t \in Threads, Block(t)
        PROVE  UNCHANGED Abstract!fifoVars
    BY <2>2 DEF Block
  <2>3. ASSUME NEW p \in Producers, Push(p)
        PROVE  Abstract!Enqueue
    <3>1. alive /\ p \in inside /\ left[p] > 0
      BY <2>3
         DEF IInv, DestroyedIsQuiet, InsideOwesCall, Push, LinkNode, Running
    <3>2. <<p, left[p]>> \in Item
      BY <3>1, PushedIsItem DEF IInv
    <3>3. max_size > 0 => Len(items) < max_size
      BY <2>3, <3>1, MaxSizeAssumption
         DEF IInv, TypeOK, WithinLimit, Push, LinkNode, Full
    <3> QED
      BY <2>3, <3>1, <3>2, <3>3 DEF Abstract!Enqueue, Push, LinkNode
  <2>4. ASSUME NEW c \in Consumers, Pull(c)
        PROVE  Abstract!Dequeue
    <3>1. alive
      BY <2>4 DEF IInv, DestroyedIsQuiet, Pull, UnlinkHead, Running
    <3>2. items # <<>>
      BY <2>4, <3>1 DEF IInv, TypeOK, WithinLimit, Pull, UnlinkHead, Empty
    <3> QED
      BY <2>4, <3>1, <3>2 DEF Abstract!Dequeue, Pull, UnlinkHead
  <2>5. ASSUME Destroy
        PROVE  Abstract!Close
    BY <2>5 DEF Destroy, Abstract!Close
  <2>6. ASSUME UNCHANGED vars
        PROVE  UNCHANGED Abstract!fifoVars
    BY <2>6 DEF vars
  <2> QED
    BY <2>1, <2>2, <2>3, <2>4, <2>5, <2>6
       DEF Next, PushStep, PullStep, PushBlock, PullBlock, Destroyed, Threads,
           Abstract!FifoNext
<1> QED
  BY <1>1, <1>2, Invariance, PTL DEF Spec, ImplementsFifo, Abstract!FifoSpec

-----------------------------------------------------------------------------
(* Sums over finite sets. *)

LEMMA LeastPlace ==
  ASSUME NEW S \in SUBSET Nat, S # {}
  PROVE  \E m \in S : \A n \in S : m <= n
  <1>1. PICK m \in S : \A n \in S : ~(<<n, m>> \in OpToRel(<, Nat))
    BY NatLessThanWellFounded, WFMin, Zenon
  <1>2. \A n \in S : ~(n < m)
    BY <1>1 DEF OpToRel
  <1>3. QED  BY <1>2

(* Sums over finite sets.  Sums(g, f, S): g gives the sum of f over every  *)
(* subset of S, whichever element is taken out first.                      *)
Sums(g, f, S) ==
    /\ g \in [SUBSET S -> Int]
    /\ g[{}] = 0
    /\ \A s \in SUBSET S : \A x \in s : g[s] = f[x] + g[s \ {x}]

(* Among sets of parts of a finite set one has the fewest elements. *)
LEMMA SmallestPart ==
  ASSUME NEW S, IsFiniteSet(S), NEW B \in SUBSET (SUBSET S), B # {}
  PROVE  \E s \in B : \A t \in B : ~(t \subseteq s /\ t # s)
  <1> DEFINE sizes == {Cardinality(s) : s \in B}
  <1>1. \A s \in B : IsFiniteSet(s) /\ Cardinality(s) \in Nat
    BY FS_Subset, FS_CardinalityType
  <1>2. PICK m \in sizes : \A n \in sizes : m <= n
    <2>1. sizes \in SUBSET Nat /\ sizes # {}
      BY <1>1
    <2> HIDE DEF sizes
    <2>2. QED  BY <2>1, LeastPlace
  <1>3. PICK s \in B : m = Cardinality(s)
    BY <1>2
  <1>4. ASSUME NEW t \in B, t \subseteq s, t # s  PROVE  FALSE
    <2>1. Cardinality(t) < Cardinality(s)
      BY <1>1, <1>4, FS_Subset
    <2>2. m <= Cardinality(t)
      BY <1>2
    <2>3. QED  BY <1>1, <1>3, <2>1, <2>2
  <1>5. QED  BY <1>4

LEMMA SumsExist ==
  ASSUME NEW S, IsFiniteSet(S), NEW f, \A x \in S : f[x] \in Int
  PROVE  \E g : Sums(g, f, S)
  <1> DEFINE Bad == {s \in SUBSET S : ~\E g : Sums(g, f, s)}
  <1> SUFFICES ASSUME Bad # {}  PROVE  FALSE
    OBVIOUS
  <1>1. PICK T \in Bad : \A t \in Bad : ~(t \subseteq T /\ t # T)
    <2>1. Bad \in SUBSET (SUBSET S)
      OBVIOUS
    <2> HIDE DEF Bad
    <2>2. QED  BY <2>1, SmallestPart
  <1>2. T \in SUBSET S /\ ~\E g : Sums(g, f, T)
    BY <1>1
  <1>3. CASE T = {}
    <2> DEFINE g == [s \in SUBSET {} |-> 0]
    <2>1. Sums(g, f, {})
      BY DEF Sums
    <2>2. QED  BY <1>2, <1>3, <2>1
  <1>4. CASE T # {}
    <2>1. PICK j : j \in T
      BY <1>4
    <2> DEFINE T0 == T \ {j}
    <2>2. T0 \notin Bad
      BY <1>1, <2>1
    <2>3. PICK h : Sums(h, f, T0)
      BY <1>2, <2>2
    <2> DEFINE g == [s \in SUBSET T |-> IF j \in s THEN f[j] + h[s \ {j}] ELSE h[s]]
    <2>4. f[j] \in Int /\ \A x \in T : f[x] \in Int
      BY <1>2, <2>1
    <2>5. \A s \in SUBSET T : s \ {j} \in SUBSET T0 /\ (j \notin s => s \in SUBSET T0)
      OBVIOUS
    <2>6. /\ h \in [SUBSET T0 -> Int] /\ h[{}] = 0
          /\ \A s \in SUBSET T0 : \A x \in s : h[s] = f[x] + h[s \ {x}]
      BY <2>3 DEF Sums
    <2>7. g \in [SUBSET T -> Int] /\ g[{}] = 0
      BY <2>4, <2>5, <2>6
    <2>8. ASSUME NEW s \in SUBSET T, NEW x \in s  PROVE  g[s] = f[x] + g[s \ {x}]
      <3>1. CASE x = j
        BY <3>1
      <3>2. CASE x # j /\ j \in s
        <4>1. (s \ {j}) \ {x} = (s \ {x}) \ {j} /\ x \in s \ {j} /\ j \in s \ {x} /\ s \ {x} \in SUBSET T
          BY <3>2
        <4>2. h[s \ {j}] = f[x] + h[(s \ {x}) \ {j}]
          BY <2>5, <2>6, <4>1, ZenonT(60)
        <4>3. g[s] = f[j] + h[s \ {j}] /\ g[s \ {x}] = f[j] + h[(s \ {x}) \ {j}]
          BY <3>2, <4>1
        <4>4. h[(s \ {x}) \ {j}] \in Int /\ f[x] \in Int
          BY <2>4, <2>5, <2>6, <4>1
        <4> HIDE DEF g
        <4>5. QED  BY <2>4, <4>2, <4>3, <4>4
      <3>3. CASE j \notin s
        <4>1. s \ {x} \in SUBSET T /\ j \notin s \ {x}
          BY <3>3
        <4>2. QED  BY <2>5, <2>6, <3>3, <4>1
      <3>4. QED  BY <3>1, <3>2, <3>3
    <2>9. Sums(g, f, T)
      BY <2>7, <2>8 DEF Sums
    <2>10. QED  BY <1>2, <2>9
  <1>5. QED  BY <1>3, <1>4

(* The library's fold is such a sum. *)
LEMMA SumIs ==
  ASSUME NEW S, IsFiniteSet(S), NEW f, NEW g, Sums(g, f, S)
  PROVE  SumFunctionOnSet(f, S) = g[S]
  <1> DEFINE OneStep(h) == [s \in SUBSET S |->
                           IF s = {} THEN 0
                           ELSE LET x == CHOOSE x \in s : TRUE IN f[x] + h[s \ {x}]]
             iter == CHOOSE h : h = OneStep(h)
  <1>1. SumFunctionOnSet(f, S) = iter[S]
    BY DEF SumFunctionOnSet, FoldFunctionOnSet, MapThenFoldSet
  <1>2. g = OneStep(g)
    <2>1. g \in [SUBSET S -> Int] /\ g[{}] = 0
      BY DEF Sums
    <2>2. ASSUME NEW s \in SUBSET S  PROVE  g[s] = OneStep(g)[s]
      <3>1. CASE s = {}
        BY <2>1, <3>1
      <3>2. CASE s # {}
        <4> DEFINE x == CHOOSE x \in s : TRUE
        <4>1. x \in s
          BY <3>2
        <4>2. g[s] = f[x] + g[s \ {x}]
          BY <4>1 DEF Sums
        <4>3. QED  BY <3>2, <4>2
      <3>3. QED  BY <3>1, <3>2
    <2>3. QED  BY <2>1, <2>2
  <1>3. iter = OneStep(iter)
    <2> HIDE DEF OneStep
    <2>1. QED  BY <1>2, Zenon
  <1> HIDE DEF iter
  <1> DEFINE Bad == {s \in SUBSET S : g[s] # iter[s]}
  <1>4. CASE Bad # {}
    <2>1. PICK s \in Bad : \A t \in Bad : ~(t \subseteq s /\ t # s)
      <3>1. Bad \in SUBSET (SUBSET S)
        OBVIOUS
      <3> HIDE DEF Bad
      <3>2. QED  BY <1>4, <3>1, SmallestPart
    <2>2. g[s] = OneStep(g)[s] /\ iter[s] = OneStep(iter)[s]
      BY <1>2, <1>3
    <2>3. s # {}
      BY <2>1, <2>2
    <2> DEFINE x == CHOOSE x \in s : TRUE
    <2>4. x \in s
      BY <2>3
    <2>5. g[s \ {x}] = iter[s \ {x}]
      BY <2>1, <2>4
    <2>6. g[s] = f[x] + g[s \ {x}] /\ iter[s] = f[x] + iter[s \ {x}]
      BY <2>1, <2>2, <2>3
    <2>7. QED  BY <2>1, <2>5, <2>6
  <1>5. CASE Bad = {}
    BY <1>1, <1>5
  <1>6. QED  BY <1>4, <1>5

(* Sums start at zero, grow by one element at a time and depend on the     *)
(* values of their elements only.                                          *)
LEMMA SumGrows ==
  ASSUME NEW S, IsFiniteSet(S), NEW f, NEW j, j \notin S, \A x \in S \union {j} : f[x] \in Int
  PROVE  /\ SumFunctionOnSet(f, S \union {j}) = SumFunctionOnSet(f, S) + f[j]
         /\ SumFunctionOnSet(f, S) \in Int
  <1> DEFINE T == S \union {j}
  <1>1. IsFiniteSet(T)
    BY FS_AddElement
  <1>2. PICK g : Sums(g, f, T)
    BY <1>1, SumsExist
  <1> DEFINE h == [s \in SUBSET S |-> g[s]]
  <1>3. Sums(h, f, S)
    BY <1>2 DEF Sums
  <1>4. SumFunctionOnSet(f, T) = g[T] /\ SumFunctionOnSet(f, S) = g[S]
    BY <1>1, <1>2, <1>3, SumIs
  <1>5. j \in T /\ T \ {j} = S /\ T \in SUBSET T /\ S \in SUBSET T
    OBVIOUS
  <1>6. g[T] = f[j] + g[S] /\ g[S] \in Int
    BY <1>2, <1>5 DEF Sums
  <1>7. f[j] \in Int
    OBVIOUS
  <1>8. QED  BY <1>4, <1>6, <1>7

LEMMA SumOfNone == ASSUME NEW f  PROVE  SumFunctionOnSet(f, {}) = 0
  <1> DEFINE g == [s \in SUBSET {} |-> 0]
  <1>1. Sums(g, f, {})
    BY DEF Sums
  <1>2. IsFiniteSet({})
    BY FS_EmptySet
  <1>3. QED  BY <1>1, <1>2, SumIs

LEMMA SumOfSame ==
  ASSUME NEW S, IsFiniteSet(S), NEW f, NEW e, \A x \in S : f[x] = e[x] /\ f[x] \in Int
  PROVE  SumFunctionOnSet(e, S) = SumFunctionOnSet(f, S)
  <1>1. PICK g : Sums(g, f, S)
    BY SumsExist
  <1>2. Sums(g, e, S)
    BY <1>1 DEF Sums
  <1>3. QED  BY <1>1, <1>2, SumIs

LEMMA SumIsInt ==
  ASSUME NEW S, IsFiniteSet(S), NEW f, \A x \in S : f[x] \in Int
  PROVE  SumFunctionOnSet(f, S) \in Int
  <1>1. PICK g : Sums(g, f, S)
    BY SumsExist
  <1>2. SumFunctionOnSet(f, S) = g[S]
    BY <1>1, SumIs
  <1>3. g \in [SUBSET S -> Int] /\ S \in SUBSET S
    BY <1>1 DEF Sums
  <1>4. g[S] \in Int
    BY <1>3
  <1>5. QED  BY <1>2, <1>4

-----------------------------------------------------------------------------
(* MapReduce. *)

(* Where part k of the input starts and part k - 1 ends. *)
Cut(d, k) == IF k = 0 THEN 0 ELSE IF k = count THEN Len(d) ELSE nextLine(d, (Len(d) * k) \div count)

LineEndsFrom(d, p) == {k \in p..(Len(d) - 1) : d[k + 1] = NL}

LEMMA NextLineIs ==
  ASSUME NEW d, Len(d) \in Nat, NEW p \in Nat
  PROVE  /\ nextLine(d, p) \in Nat /\ nextLine(d, p) <= Len(d)
         /\ LineEndsFrom(d, p) = {} => nextLine(d, p) = Len(d)
         /\ LineEndsFrom(d, p) # {} => d[nextLine(d, p)] = NL
         /\ \A k \in LineEndsFrom(d, p) : nextLine(d, p) <= k + 1
         /\ LineEndsFrom(d, p) # {} => nextLine(d, p) - 1 \in LineEndsFrom(d, p)
  <1> DEFINE newlines == LineEndsFrom(d, p)
             first == CHOOSE k \in newlines : \A j \in newlines : k <= j
  <1>1. nextLine(d, p) = IF newlines = {} THEN Len(d) ELSE first + 1
    BY DEF nextLine, LineEndsFrom
  <1>2. newlines \in SUBSET Nat
    BY DEF LineEndsFrom
  <1> HIDE DEF newlines
  <1>3. CASE newlines = {}
    BY <1>1, <1>3 DEF newlines
  <1>4. CASE newlines # {}
    <2>1. \E k \in newlines : \A j \in newlines : k <= j
      BY <1>2, <1>4, LeastPlace
    <2>2. first \in newlines /\ \A j \in newlines : first <= j
      BY <2>1
    <2> HIDE DEF first
    <2>3. first \in p..(Len(d) - 1) /\ d[first + 1] = NL
      BY <2>2 DEF newlines, LineEndsFrom
    <2>4. nextLine(d, p) = first + 1
      BY <1>1, <1>4
    <2>5. first + 1 \in Nat /\ first + 1 <= Len(d) /\ (first + 1) - 1 = first
      BY <2>3
    <2>6. \A k \in newlines : first + 1 <= k + 1
      BY <1>2, <2>2, <2>3
    <2>7. QED  BY <1>4, <2>2, <2>3, <2>4, <2>5, <2>6 DEF newlines
  <1>5. QED  BY <1>3, <1>4

LEMMA NextLineGrows ==
  ASSUME NEW d, Len(d) \in Nat, NEW p \in Nat, NEW q \in Nat, p <= q
  PROVE  nextLine(d, p) <= nextLine(d, q)
  <1>1. nextLine(d, p) \in Nat /\ nextLine(d, p) <= Len(d) /\ nextLine(d, q) \in Nat
    BY NextLineIs
  <1>2. CASE LineEndsFrom(d, q) = {}
    <2>1. nextLine(d, q) = Len(d)
      BY <1>2, NextLineIs
    <2>2. QED  BY <1>1, <2>1
  <1>3. CASE LineEndsFrom(d, q) # {}
    <2>1. nextLine(d, q) - 1 \in LineEndsFrom(d, q)
      BY <1>3, NextLineIs
    <2>2. nextLine(d, q) - 1 \in LineEndsFrom(d, p)
      BY <2>1 DEF LineEndsFrom
    <2>3. nextLine(d, p) <= (nextLine(d, q) - 1) + 1
      BY <2>2, NextLineIs
    <2>4. QED  BY <1>1, <2>3
  <1>4. QED  BY <1>2, <1>3

(* getSubrange's divisions do not decrease. *)
LEMMA DivisionGrows ==
  ASSUME NEW a \in Nat, NEW b \in Nat, a <= b, NEW n \in Nat \ {0}
  PROVE  a \div n \in Nat /\ b \div n \in Nat /\ a \div n <= b \div n
  <1>1. PICK q \in Nat, r \in Nat : q = a \div n /\ a = q * n + r
    <2>1. a \div n \in Nat /\ a % n \in Nat /\ a = (a \div n) * n + (a % n)
      OBVIOUS
    <2>2. QED  BY <2>1
  <1>2. PICK u \in Nat, v \in Nat : u = b \div n /\ b = u * n + v /\ v < n
    <2>1. b \div n \in Nat /\ b % n \in Nat /\ b % n < n /\ b = (b \div n) * n + (b % n)
      OBVIOUS
    <2>2. QED  BY <2>1
  <1>3. q <= u
    <2>1. SUFFICES ASSUME u < q  PROVE  FALSE
      OBVIOUS
    <2>2. PICK e \in Nat : q = (u + 1) + e
      <3>1. q - (u + 1) \in Nat
        BY <2>1
      <3>2. QED  BY <3>1
    <2>3. q * n = (u * n + n) + e * n /\ e * n \in Nat /\ u * n \in Nat
      BY <2>2
    <2>4. QED  BY <1>1, <1>2, <2>3
  <1>4. QED  BY <1>1, <1>2, <1>3

(* The splitters' portions of any input and for any number of mappers      *)
(* (write_portion in mapreduce/splitter.c) lie one behind the other, from  *)
(* the first byte to the last, each cut behind a newline or at the end: no *)
(* line is lost, mapped twice or torn.                                     *)
THEOREM PortionsTile ==
  ASSUME NEW Chars, NEW d \in Seq(Chars)
  PROVE  /\ \A idx \in 0..count - 1 : write_portion(d, idx) = SubSeq(d, Cut(d, idx) + 1, Cut(d, idx + 1))
         /\ Cut(d, 0) = 0 /\ Cut(d, count) = Len(d)
         /\ \A k \in 0..count - 1 : Cut(d, k) <= Cut(d, k + 1)
         /\ \A k \in 1..count - 1 : Cut(d, k) = Len(d) \/ d[Cut(d, k)] = NL
  <1> DEFINE L == Len(d)
  <1>1. L \in Nat /\ count \in Nat \ {0}
    BY LenProperties, MapReduceAssumption
  <1> HIDE DEF L
  <1>2. \A k \in 0..count : L * k \in Nat /\ (L * k) \div count \in Nat
    <2>1. SUFFICES ASSUME NEW k \in 0..count  PROVE  L * k \in Nat /\ (L * k) \div count \in Nat
      OBVIOUS
    <2>2. L * k \in Nat
      BY <1>1
    <2>3. QED  BY <1>1, <2>2, DivisionGrows
  <1>3. \A k \in 0..count : Cut(d, k) \in Nat /\ Cut(d, k) <= L
    BY <1>1, <1>2, NextLineIs, SMTT(60) DEF Cut, L
  <1>4. ASSUME NEW k \in 0..count - 1  PROVE  Cut(d, k) <= Cut(d, k + 1)
    <2>1. k \in 0..count /\ k + 1 \in 0..count /\ k # count /\ k + 1 # 0
      BY <1>1
    <2>2. CASE k = 0
      BY <1>3, <2>1, <2>2 DEF Cut
    <2>3. CASE k + 1 = count
      BY <1>3, <2>1, <2>3 DEF Cut, L
    <2>4. CASE k # 0 /\ k + 1 # count
      <3>1. Cut(d, k) = nextLine(d, (L * k) \div count) /\ Cut(d, k + 1) = nextLine(d, (L * (k + 1)) \div count)
        BY <2>1, <2>4 DEF Cut, L
      <3>2. L * k \in Nat /\ L * (k + 1) = L * k + L
        BY <1>1, <1>2, <2>1
      <3>3. L * k <= L * (k + 1) /\ L * (k + 1) \in Nat
        BY <1>1, <3>2
      <3>4. (L * k) \div count <= (L * (k + 1)) \div count
        BY <1>1, <3>2, <3>3, DivisionGrows
      <3>5. QED  BY <1>1, <1>2, <2>1, <3>1, <3>4, NextLineGrows DEF L
    <2>5. QED  BY <2>2, <2>3, <2>4
  <1>5. ASSUME NEW idx \in 0..count - 1
        PROVE  write_portion(d, idx) = SubSeq(d, Cut(d, idx) + 1, Cut(d, idx + 1))
    <2>1. idx # count /\ idx + 1 # 0 /\ (idx = count - 1 <=> idx + 1 = count)
      BY <1>1
    <2>2. write_portion(d, idx) = IF Cut(d, idx + 1) > Cut(d, idx)
                                  THEN SubSeq(d, Cut(d, idx) + 1, Cut(d, idx + 1)) ELSE <<>>
      BY <2>1 DEF write_portion, Cut, getSubrange
    <2>3. Cut(d, idx) \in Nat /\ Cut(d, idx + 1) \in Nat
      BY <1>1, <1>3
    <2>4. CASE Cut(d, idx + 1) > Cut(d, idx)
      BY <2>2, <2>4
    <2>5. CASE ~(Cut(d, idx + 1) > Cut(d, idx))
      <3>1. Cut(d, idx + 1) < Cut(d, idx) + 1
        BY <2>3, <2>5
      <3>2. Cut(d, idx) + 1 \in Int /\ Cut(d, idx + 1) \in Int
        BY <2>3
      <3>3. SubSeq(d, Cut(d, idx) + 1, Cut(d, idx + 1)) = <<>>
        BY <3>1, <3>2, SubSeqEmpty
      <3>4. QED  BY <2>2, <2>5, <3>3
    <2>6. QED  BY <2>4, <2>5
  <1>6. ASSUME NEW k \in 1..count - 1  PROVE  Cut(d, k) = Len(d) \/ d[Cut(d, k)] = NL
    <2>1. k \in 0..count /\ k # 0 /\ k # count
      BY <1>1
    <2>2. Cut(d, k) = nextLine(d, (L * k) \div count) /\ (L * k) \div count \in Nat
      BY <1>2, <2>1 DEF Cut, L
    <2>3. Len(d) \in Nat
      BY <1>1 DEF L
    <2>4. QED  BY <2>2, <2>3, NextLineIs
  <1>7. Cut(d, 0) = 0 /\ Cut(d, count) = Len(d)
    BY <1>1 DEF Cut
  <1>8. QED  BY <1>4, <1>5, <1>6, <1>7

-----------------------------------------------------------------------------
(* The processes and pipes of MapReduce. *)
Started(p) == status[p] # "none"

PipeTypes ==
    /\ status \in [Processes -> {"none", "run", "ok", "fail"}]
    /\ ends \in [Processes -> SUBSET Pipes]
    /\ pipe = [q \in Pipes |-> pipe[q]] /\ unsent = [p \in Processes |-> unsent[p]]
    /\ mainI \in Parts

(* main forks part after part, and the reducer last; it holds the write    *)
(* ends of the pipes it has still to hand on.                              *)
ForkOrder ==
    /\ mainPc \in {"splitter", "mapper", "reducer"} => 0 \in ends[Main] /\ ~Started(Reducer)
    /\ mainPc \in {"splitter", "mapper"} =>
          /\ mainI..count \subseteq ends[Main]
          /\ \A i \in Parts : i < mainI <=> Started(MapperOf(i))
    /\ mainPc = "mapper" => Started(Splitter(mainI))
    /\ mainPc = "reducer" \/ Started(Reducer) => \A i \in Parts : Started(MapperOf(i))
    /\ \A i \in Parts : Started(MapperOf(i)) => Started(Splitter(i))

(* A process that runs keeps its pipe from ending. *)
EndsHeld ==
    \A i \in Parts :
        /\ status[MapperOf(i)] = "run" => 0 \in ends[MapperOf(i)]
        /\ status[Splitter(i)] = "run" => i \in ends[Splitter(i)]

Drained ==
    /\ \A i \in Parts :
          /\ status[MapperOf(i)] = "ok" =>
                unsent[MapperOf(i)] = <<>> /\ pipe[i] = <<>> /\ Ended(Splitter(i))
          /\ status[Splitter(i)] = "ok" => unsent[Splitter(i)] = <<>>
    /\ status[Reducer] = "ok" =>
          pipe[0] = <<>> /\ output = Written(older, datastore) /\ \A i \in Parts : Ended(MapperOf(i))

PipesInv == PipeTypes /\ ForkOrder /\ EndsHeld /\ Drained

LEMMA ProcessesDiffer ==
  /\ Main \in Processes /\ Reducer \in Processes /\ Main # Reducer
  /\ \A i \in Parts : /\ Splitter(i) \in Processes \ {Main, Reducer}
                      /\ MapperOf(i) \in Processes \ {Main, Reducer}
  /\ \A i, j \in Parts : /\ Splitter(i) # MapperOf(j)
                         /\ Splitter(i) = Splitter(j) => i = j
                         /\ MapperOf(i) = MapperOf(j) => i = j
  <1>1. "main" # "reducer" /\ "main" # "splitter" /\ "main" # "mapper" /\ "reducer" # "splitter"
        /\ "reducer" # "mapper" /\ "splitter" # "mapper"
    OBVIOUS
  <1>2. QED  BY <1>1 DEF Main, Reducer, Splitter, MapperOf, Processes

LEMMA PartsArePipes ==
  count \in Nat \ {0} /\ 0 \in Pipes /\ Parts \subseteq Pipes /\ 0 \notin Parts /\ 1 \in Parts
  BY MapReduceAssumption DEF Parts, Pipes

LEMMA PipesStart == MapReduceInit => PipesInv
  <1> SUFFICES ASSUME MapReduceInit  PROVE  PipesInv
    OBVIOUS
  <1>1. /\ status = [p \in Processes |-> IF p = Main THEN "run" ELSE "none"]
        /\ ends = [p \in Processes |-> IF p = Main THEN Pipes ELSE {}]
        /\ pipe = [q \in Pipes |-> <<>>] /\ unsent = [p \in Processes |-> <<>>]
        /\ mainPc = "splitter" /\ mainI = 1
    BY DEF MapReduceInit
  <1>2. /\ \A p \in Processes \ {Main} : status[p] = "none"
        /\ ends[Main] = Pipes
    BY <1>1, ProcessesDiffer
  <1>3. PipeTypes
    BY <1>1, PartsArePipes DEF PipeTypes
  <1>4. ForkOrder
    <2>1. \A i \in Parts : ~(i < 1)
      BY DEF Parts
    <2>2. 1..count \subseteq Pipes
      BY PartsArePipes DEF Parts
    <2>3. QED  BY <1>1, <1>2, <2>1, <2>2, ProcessesDiffer, PartsArePipes DEF ForkOrder, Started
  <1>5. EndsHeld
    BY <1>2, ProcessesDiffer DEF EndsHeld
  <1>6. Drained
    BY <1>2, ProcessesDiffer DEF Drained
  <1>7. QED  BY <1>3, <1>4, <1>5, <1>6 DEF PipesInv

LEMMA SplitterForked == ASSUME PipesInv, ForkSplitter, older' = older  PROVE  PipesInv'
  <1> DEFINE p == Splitter(mainI)
  <1>1. /\ mainPc = "splitter" /\ mainPc' = "mapper" /\ mainI' = mainI
        /\ status' = [status EXCEPT ![p] = "run"]
        /\ ends' = [ends EXCEPT ![p] = ends[Main] \ {0}]
        /\ \E lot : unsent' = [unsent EXCEPT ![p] = lot]
        /\ UNCHANGED <<pipe, datastore, output>>
    BY DEF ForkSplitter, Fork
  <1>2. PICK lot : unsent' = [unsent EXCEPT ![p] = lot]
    BY <1>1
  <1>3. /\ mainI \in Parts /\ p \in Processes \ {Main, Reducer} /\ \A i \in Parts : MapperOf(i) # p
        /\ status \in [Processes -> {"none", "run", "ok", "fail"}] /\ ends \in [Processes -> SUBSET Pipes]
        /\ unsent = [q \in Processes |-> unsent[q]]
    BY ProcessesDiffer DEF PipesInv, PipeTypes
  <1>4. \A i \in Parts : i # mainI => Splitter(i) # p
    BY <1>3, ProcessesDiffer
  <1> HIDE DEF p
  <1>5. /\ status'[p] = "run" /\ ends'[p] = ends[Main] \ {0}
        /\ \A q \in Processes \ {p} : status'[q] = status[q] /\ ends'[q] = ends[q] /\ unsent'[q] = unsent[q]
    BY <1>1, <1>2, <1>3
  <1>6. PipeTypes'
    <2>1. ends[Main] \ {0} \in SUBSET Pipes
      BY <1>3, ProcessesDiffer
    <2>2. unsent' = [q \in Processes |-> unsent'[q]]
      BY <1>2, <1>3
    <2>3. status' \in [Processes -> {"none", "run", "ok", "fail"}] /\ ends' \in [Processes -> SUBSET Pipes]
      BY <1>1, <1>3, <2>1
    <2>4. QED  BY <1>1, <2>2, <2>3 DEF PipesInv, PipeTypes
  <1>7. ~Started(Reducer) /\ 0 \in ends[Main] /\ mainI..count \subseteq ends[Main]
    BY <1>1 DEF PipesInv, ForkOrder
  <1>8. ForkOrder'
    <2>1. \A i \in Parts : MapperOf(i) \in Processes \ {p}
      BY <1>3, ProcessesDiffer
    <2>2. \A i \in Parts : Started(Splitter(i)) => Started(Splitter(i))'
      BY <1>4, <1>5, ProcessesDiffer DEF Started
    <2>3. Started(Splitter(mainI))'
      BY <1>1, <1>5 DEF Started, p
    <2>4. \A q \in Processes \ {p} : Started(q)' <=> Started(q)
      BY <1>5 DEF Started
    <2>5. Main \in Processes \ {p} /\ Reducer \in Processes \ {p}
      BY <1>3, ProcessesDiffer
    <2>6. ends'[Main] = ends[Main] /\ ~Started(Reducer)'
      BY <1>5, <1>7, <2>4, <2>5
    <2>7. QED  BY <1>1, <1>7, <2>1, <2>2, <2>3, <2>4, <2>6 DEF PipesInv, ForkOrder
  <1>9. EndsHeld'
    <2>1. ASSUME NEW i \in Parts
          PROVE  /\ status'[MapperOf(i)] = "run" => 0 \in ends'[MapperOf(i)]
                 /\ status'[Splitter(i)] = "run" => i \in ends'[Splitter(i)]
      <3>1. MapperOf(i) \in Processes \ {p}
        BY <1>3, ProcessesDiffer
      <3>2. CASE i # mainI
        <4>1. Splitter(i) \in Processes \ {p}
          BY <1>4, <3>2, ProcessesDiffer
        <4>2. QED  BY <1>5, <3>1, <4>1 DEF PipesInv, EndsHeld
      <3>3. CASE i = mainI
        <4>1. i \in mainI..count /\ i # 0
          BY <3>3 DEF Parts
        <4>2. i \in ends'[Splitter(i)]
          BY <1>5, <1>7, <3>3, <4>1 DEF p
        <4>3. QED  BY <1>5, <3>1, <4>2 DEF PipesInv, EndsHeld
      <3>4. QED  BY <3>2, <3>3
    <2>2. QED  BY <2>1 DEF EndsHeld
  <1>10. Drained'
    <2>1. status'[Reducer] # "ok"
      BY <1>3, <1>5, <1>7, ProcessesDiffer DEF Started
    <2>2. ASSUME NEW i \in Parts
          PROVE  /\ status'[MapperOf(i)] = "ok" =>
                      unsent'[MapperOf(i)] = <<>> /\ pipe'[i] = <<>> /\ Ended(Splitter(i))'
                 /\ status'[Splitter(i)] = "ok" => unsent'[Splitter(i)] = <<>>
      <3>1. MapperOf(i) \in Processes \ {p}
        BY <1>3, ProcessesDiffer
      <3>2. CASE i # mainI
        <4>1. Splitter(i) \in Processes \ {p}
          BY <1>4, <3>2, ProcessesDiffer
        <4>2. QED  BY <1>1, <1>5, <3>1, <4>1 DEF PipesInv, Drained, Ended
      <3>3. CASE i = mainI
        <4>1. status'[Splitter(i)] = "run"
          BY <1>5, <3>3 DEF p
        <4>2. status'[MapperOf(i)] # "ok"
          <5>1. ~(i < mainI)
            BY <3>3 DEF Parts
          <5>2. ~Started(MapperOf(i))
            BY <1>1, <5>1 DEF PipesInv, ForkOrder
          <5>3. QED  BY <1>5, <3>1, <5>2 DEF Started
        <4>3. QED  BY <4>1, <4>2
      <3>4. QED  BY <3>2, <3>3
    <2>3. QED  BY <2>1, <2>2 DEF Drained
  <1>11. QED  BY <1>6, <1>8, <1>9, <1>10 DEF PipesInv

LEMMA MapperForked == ASSUME PipesInv, ForkMapper, older' = older  PROVE  PipesInv'
  <1> DEFINE p == MapperOf(mainI)
  <1>1. /\ mainPc = "mapper"
        /\ status' = [status EXCEPT ![p] = "run"]
        /\ ends' = [ends EXCEPT ![Main] = @ \ {mainI}, ![p] = ends[Main] \ {mainI}]
        /\ IF mainI < count THEN mainPc' = "splitter" /\ mainI' = mainI + 1
           ELSE mainPc' = "reducer" /\ mainI' = mainI
        /\ UNCHANGED <<pipe, unsent, datastore, output>>
    BY DEF ForkMapper
  <1>2. /\ mainI \in Parts /\ p \in Processes \ {Main, Reducer} /\ \A i \in Parts : Splitter(i) # p
        /\ status \in [Processes -> {"none", "run", "ok", "fail"}] /\ ends \in [Processes -> SUBSET Pipes]
        /\ Main \in Processes
    BY ProcessesDiffer DEF PipesInv, PipeTypes
  <1>3. \A i \in Parts : i # mainI => MapperOf(i) # p
    BY <1>2, ProcessesDiffer
  <1> HIDE DEF p
  <1>4. /\ status'[p] = "run" /\ ends'[p] = ends[Main] \ {mainI} /\ ends'[Main] = ends[Main] \ {mainI}
        /\ \A q \in Processes \ {p} : status'[q] = status[q]
        /\ \A q \in Processes \ {p, Main} : ends'[q] = ends[q]
    BY <1>1, <1>2
  <1>5. /\ ~Started(Reducer) /\ 0 \in ends[Main] /\ mainI..count \subseteq ends[Main]
        /\ Started(Splitter(mainI)) /\ \A i \in Parts : i < mainI <=> Started(MapperOf(i))
    BY <1>1 DEF PipesInv, ForkOrder
  <1>6. count \in Nat \ {0} /\ mainI \in 1..count /\ mainI # 0
    BY <1>2, PartsArePipes DEF Parts
  <1>7. PipeTypes'
    <2>1. ends[Main] \ {mainI} \in SUBSET Pipes
      BY <1>2
    <2>2. status' \in [Processes -> {"none", "run", "ok", "fail"}] /\ ends' \in [Processes -> SUBSET Pipes]
      BY <1>1, <1>2, <2>1
    <2>3. mainI' \in Parts
      BY <1>1, <1>6 DEF Parts
    <2>4. QED  BY <1>1, <2>2, <2>3 DEF PipesInv, PipeTypes
  <1>8. ForkOrder'
    <2>1. \A q \in Processes \ {p} : Started(q)' <=> Started(q)
      BY <1>4 DEF Started
    <2>2. status'[p] # "none"
      BY <1>4
    <2>3. ~Started(Reducer)' /\ 0 \in ends'[Main]
      BY <1>2, <1>4, <1>5, <1>6, <2>1, ProcessesDiffer
    <2>4. \A i \in Parts : Started(Splitter(i))' <=> Started(Splitter(i))
      BY <1>2, <2>1, ProcessesDiffer
    <2>5. \A i \in Parts : Started(MapperOf(i))' <=> i < mainI + 1
      <3>1. SUFFICES ASSUME NEW i \in Parts  PROVE  Started(MapperOf(i))' <=> i < mainI + 1
        OBVIOUS
      <3>2. CASE i = mainI
        BY <1>6, <2>2, <3>2 DEF p, Started
      <3>3. CASE i # mainI
        <4>1. MapperOf(i) \in Processes \ {p}
          BY <1>3, <3>3, ProcessesDiffer
        <4>2. i < mainI <=> i < mainI + 1
          BY <1>6, <3>3 DEF Parts
        <4>3. QED  BY <1>5, <2>1, <4>1, <4>2
      <3>4. QED  BY <3>2, <3>3
    <2>6. \A i \in Parts : Started(MapperOf(i))' => Started(Splitter(i))'
      <3>1. SUFFICES ASSUME NEW i \in Parts, i < mainI + 1  PROVE  Started(Splitter(i))
        BY <2>4, <2>5
      <3>2. CASE i = mainI
        BY <1>5, <3>2
      <3>3. CASE i # mainI
        <4>1. i < mainI
          BY <1>6, <3>1, <3>3 DEF Parts
        <4>2. QED  BY <1>5, <4>1 DEF PipesInv, ForkOrder
      <3>4. QED  BY <3>2, <3>3
    <2>7. CASE mainI < count
      <3>1. mainI + 1..count \subseteq ends'[Main]
        BY <1>4, <1>5, <1>6
      <3>2. QED  BY <1>1, <2>3, <2>5, <2>6, <2>7, <3>1 DEF ForkOrder
    <2>8. CASE ~(mainI < count)
      <3>1. \A i \in Parts : i < mainI + 1
        BY <1>6, <2>8 DEF Parts
      <3>2. QED  BY <1>1, <2>3, <2>5, <2>6, <2>8, <3>1 DEF ForkOrder
    <2>9. QED  BY <2>7, <2>8
  <1>9. EndsHeld'
    <2>1. ASSUME NEW i \in Parts
          PROVE  /\ status'[MapperOf(i)] = "run" => 0 \in ends'[MapperOf(i)]
                 /\ status'[Splitter(i)] = "run" => i \in ends'[Splitter(i)]
      <3>1. Splitter(i) \in Processes \ {p, Main}
        BY <1>2, ProcessesDiffer
      <3>2. status'[Splitter(i)] = "run" => i \in ends'[Splitter(i)]
        BY <1>4, <3>1 DEF PipesInv, EndsHeld
      <3>3. CASE i = mainI
        <4>1. 0 \in ends'[MapperOf(i)]
          BY <1>4, <1>5, <1>6, <3>3 DEF p
        <4>2. QED  BY <3>2, <4>1
      <3>4. CASE i # mainI
        <4>1. MapperOf(i) \in Processes \ {p, Main}
          BY <1>3, <3>4, ProcessesDiffer
        <4>2. QED  BY <1>4, <3>2, <4>1 DEF PipesInv, EndsHeld
      <3>5. QED  BY <3>3, <3>4
    <2>2. QED  BY <2>1 DEF EndsHeld
  <1>10. Drained'
    <2>1. status'[Reducer] # "ok"
      BY <1>2, <1>4, <1>5, ProcessesDiffer DEF Started
    <2>2. ASSUME NEW i \in Parts
          PROVE  /\ status'[MapperOf(i)] = "ok" =>
                      unsent'[MapperOf(i)] = <<>> /\ pipe'[i] = <<>> /\ Ended(Splitter(i))'
                 /\ status'[Splitter(i)] = "ok" => unsent'[Splitter(i)] = <<>>
      <3>1. Splitter(i) \in Processes \ {p}
        BY <1>2, ProcessesDiffer
      <3>2. CASE i = mainI
        <4>1. status'[MapperOf(i)] = "run"
          BY <1>4, <3>2 DEF p
        <4>2. QED  BY <1>1, <1>4, <3>1, <4>1 DEF PipesInv, Drained
      <3>3. CASE i # mainI
        <4>1. MapperOf(i) \in Processes \ {p}
          BY <1>3, <3>3, ProcessesDiffer
        <4>2. QED  BY <1>1, <1>4, <3>1, <4>1 DEF PipesInv, Drained, Ended
      <3>4. QED  BY <3>2, <3>3
    <2>3. QED  BY <2>1, <2>2 DEF Drained
  <1>11. QED  BY <1>7, <1>8, <1>9, <1>10 DEF PipesInv

(* The parent's own state matters only while it forks. *)
LEMMA ParentMoves ==
  ASSUME PipesInv, PipeTypes', \A p \in Processes \ {Main, Reducer} : status'[p] = status[p] /\ ends'[p] = ends[p],
         mainPc' \notin {"splitter", "mapper", "reducer"}, UNCHANGED <<pipe, unsent, datastore, output, older>>,
         \/ status'[Reducer] = status[Reducer]
         \/ status'[Reducer] = "run" /\ \A i \in Parts : Started(MapperOf(i))
  PROVE  PipesInv'
  <1>1. \A i \in Parts : /\ status'[MapperOf(i)] = status[MapperOf(i)] /\ status'[Splitter(i)] = status[Splitter(i)]
                         /\ ends'[MapperOf(i)] = ends[MapperOf(i)] /\ ends'[Splitter(i)] = ends[Splitter(i)]
    BY ProcessesDiffer
  <1>2. ForkOrder'
    BY <1>1 DEF PipesInv, ForkOrder, Started
  <1>3. EndsHeld'
    BY <1>1 DEF PipesInv, EndsHeld
  <1>4. Drained'
    BY <1>1 DEF PipesInv, Drained, Ended
  <1>5. QED  BY <1>2, <1>3, <1>4 DEF PipesInv

LEMMA ParentKeeps ==
  ASSUME PipesInv, ForkReducer \/ ForkFails \/ WaitForAll, older' = older  PROVE  PipesInv'
  <1>1. /\ status \in [Processes -> {"none", "run", "ok", "fail"}] /\ ends \in [Processes -> SUBSET Pipes]
        /\ Main \in Processes /\ Reducer \in Processes /\ Main # Reducer /\ mainI \in Parts
    BY ProcessesDiffer DEF PipesInv, PipeTypes
  <1>2. CASE ForkReducer
    <2>1. /\ mainPc = "reducer" /\ mainPc' = "wait splitter" /\ mainI' = 1
          /\ status' = [status EXCEPT ![Reducer] = "run"] /\ ends' = [ends EXCEPT ![Main] = @ \ {0}]
          /\ UNCHANGED <<pipe, unsent, datastore, output>>
      BY <1>2 DEF ForkReducer
    <2>2. PipeTypes'
      <3>1. ends[Main] \ {0} \in SUBSET Pipes
        BY <1>1
      <3>2. status' \in [Processes -> {"none", "run", "ok", "fail"}] /\ ends' \in [Processes -> SUBSET Pipes]
        BY <1>1, <2>1, <3>1
      <3>3. QED  BY <2>1, <3>2, PartsArePipes DEF PipesInv, PipeTypes
    <2>3. \A i \in Parts : Started(MapperOf(i))
      BY <2>1 DEF PipesInv, ForkOrder
    <2>4. status'[Reducer] = "run" /\ \A p \in Processes \ {Main, Reducer} : status'[p] = status[p] /\ ends'[p] = ends[p]
      BY <1>1, <2>1
    <2>5. QED  BY <2>1, <2>2, <2>3, <2>4, ParentMoves
  <1>3. CASE ForkFails \/ WaitForAll
    <2>1. /\ mainPc' \notin {"splitter", "mapper", "reducer"} /\ mainI' \in {mainI, mainI + 1}
          /\ mainI' = mainI + 1 => mainI < count
          /\ UNCHANGED <<pipe, unsent, datastore, output>>
          /\ \/ UNCHANGED <<status, ends>>
             \/ /\ \E how \in {"ok", "fail"} : status' = [status EXCEPT ![Main] = how]
                /\ ends' = [ends EXCEPT ![Main] = {}]
      <3>1. mainI # mainI + 1
        BY <1>1 DEF Parts
      <3>2. CASE ForkFails
        BY <3>1, <3>2 DEF ForkFails
      <3>3. CASE WaitForAll
        BY <3>1, <3>3 DEF WaitForAll
      <3>4. QED  BY <1>3, <3>2, <3>3
    <2>2. /\ status' \in [Processes -> {"none", "run", "ok", "fail"}] /\ ends' \in [Processes -> SUBSET Pipes]
          /\ \A p \in Processes \ {Main} : status'[p] = status[p] /\ ends'[p] = ends[p]
      BY <1>1, <2>1
    <2>3. mainI' \in Parts
      BY <1>1, <2>1, PartsArePipes DEF Parts
    <2>4. PipeTypes'
      BY <2>1, <2>2, <2>3 DEF PipesInv, PipeTypes
    <2>5. QED  BY <1>1, <2>1, <2>2, <2>4, ParentMoves
  <1>4. QED  BY <1>2, <1>3

(* A child that ends lets go of its pipes. *)
LEMMA ChildEnds ==
  ASSUME PipesInv, NEW p \in Processes \ {Main}, NEW how \in {"ok", "fail"}, Exit(p, how)
  PROVE  /\ PipeTypes' /\ ForkOrder' /\ EndsHeld' /\ status[p] = "run" /\ status'[p] = how
         /\ \A q \in Processes \ {p} : status'[q] = status[q]
         /\ UNCHANGED <<pipe, unsent, datastore>>
  <1>1. /\ status[p] = "run" /\ status' = [status EXCEPT ![p] = how] /\ ends' = [ends EXCEPT ![p] = {}]
        /\ UNCHANGED <<mainPc, mainI, pipe, unsent, datastore>>
    BY DEF Exit
  <1>2. status \in [Processes -> {"none", "run", "ok", "fail"}] /\ ends \in [Processes -> SUBSET Pipes]
    BY DEF PipesInv, PipeTypes
  <1>3. /\ status'[p] = how /\ \A q \in Processes \ {p} : status'[q] = status[q] /\ ends'[q] = ends[q]
        /\ status' \in [Processes -> {"none", "run", "ok", "fail"}] /\ ends' \in [Processes -> SUBSET Pipes]
    BY <1>1, <1>2
  <1>4. PipeTypes'
    BY <1>1, <1>3 DEF PipesInv, PipeTypes
  <1>5. \A q \in Processes : Started(q)' <=> Started(q)
    BY <1>1, <1>3 DEF Started
  <1>6. ends'[Main] = ends[Main]
    BY <1>3, ProcessesDiffer
  <1>7. ForkOrder'
    <2>1. /\ Started(Reducer)' <=> Started(Reducer)
          /\ \A i \in Parts : (Started(MapperOf(i))' <=> Started(MapperOf(i))) /\ (Started(Splitter(i))' <=> Started(Splitter(i)))
      BY <1>5, ProcessesDiffer
    <2>2. mainI \in Parts
      BY DEF PipesInv, PipeTypes
    <2>3. QED  BY <1>1, <1>6, <2>1, <2>2 DEF PipesInv, ForkOrder
  <1>8. EndsHeld'
    <2>1. \A q \in Processes : status'[q] = "run" => status[q] = "run" /\ ends'[q] = ends[q]
      BY <1>3
    <2>2. QED  BY <2>1, ProcessesDiffer DEF PipesInv, EndsHeld
  <1>9. QED  BY <1>1, <1>3, <1>4, <1>7, <1>8

(* A child that reads or writes: pipe q and its own unsent items change. *)
LEMMA ChildMoves ==
  ASSUME PipesInv, NEW p \in Processes, NEW q \in Pipes, NEW x, NEW y,
         pipe' = [pipe EXCEPT ![q] = x], unsent' = [unsent EXCEPT ![p] = y],
         UNCHANGED <<mainPc, mainI, status, ends>>
  PROVE  /\ PipeTypes' /\ ForkOrder' /\ EndsHeld'
         /\ \A r \in Pipes \ {q} : pipe'[r] = pipe[r]
         /\ \A r \in Processes \ {p} : unsent'[r] = unsent[r]
  <1>1. pipe = [r \in Pipes |-> pipe[r]] /\ unsent = [r \in Processes |-> unsent[r]]
    BY DEF PipesInv, PipeTypes
  <1>2. /\ \A r \in Pipes \ {q} : pipe'[r] = pipe[r]
        /\ \A r \in Processes \ {p} : unsent'[r] = unsent[r]
        /\ pipe' = [r \in Pipes |-> pipe'[r]] /\ unsent' = [r \in Processes |-> unsent'[r]]
    BY <1>1
  <1>3. PipeTypes'
    BY <1>2 DEF PipesInv, PipeTypes
  <1>4. ForkOrder'
    BY DEF PipesInv, ForkOrder, Started
  <1>5. EndsHeld'
    BY DEF PipesInv, EndsHeld
  <1>6. QED  BY <1>2, <1>3, <1>4, <1>5

LEMMA SplitterKeeps == ASSUME PipesInv, NEW i \in Parts, SplitterStep(i), older' = older  PROVE  PipesInv'
  <1> DEFINE p == Splitter(i)
  <1>1. p \in Processes \ {Main, Reducer} /\ i \in Pipes /\ i # 0
    BY ProcessesDiffer, PartsArePipes
  <1>2. /\ \A j \in Parts : MapperOf(j) \in Processes \ {p} /\ Splitter(j) \in Processes
        /\ \A j \in Parts : j # i => Splitter(j) # p
        /\ Reducer \in Processes \ {p}
    BY ProcessesDiffer
  <1>3. CASE Write(p, i)
    <2>1. /\ status[p] = "run" /\ UNCHANGED <<mainPc, mainI, status, ends, datastore, output>>
          /\ \E x : pipe' = [pipe EXCEPT ![i] = x]
          /\ \E y : unsent' = [unsent EXCEPT ![p] = y]
      BY <1>3 DEF Write
    <2>2. PICK x, y : pipe' = [pipe EXCEPT ![i] = x] /\ unsent' = [unsent EXCEPT ![p] = y]
      BY <2>1
    <2>3. /\ PipeTypes' /\ ForkOrder' /\ EndsHeld'
          /\ \A q \in Pipes \ {i} : pipe'[q] = pipe[q]
          /\ \A q \in Processes \ {p} : unsent'[q] = unsent[q]
      BY <1>1, <2>1, <2>2, ChildMoves
    <2> HIDE DEF p
    <2>4. Drained'
      <3>1. ASSUME NEW j \in Parts
            PROVE  /\ status[MapperOf(j)] = "ok" =>
                        unsent'[MapperOf(j)] = <<>> /\ pipe'[j] = <<>> /\ Ended(Splitter(j))
                   /\ status[Splitter(j)] = "ok" => unsent'[Splitter(j)] = <<>>
        <4>1. CASE j = i
          <5>1. status[Splitter(j)] = "run"
            BY <2>1, <4>1 DEF p
          <5>2. QED  BY <5>1 DEF PipesInv, Drained, Ended
        <4>2. CASE j # i
          <5>1. j \in Pipes \ {i} /\ Splitter(j) \in Processes \ {p}
            BY <1>2, <4>2, PartsArePipes
          <5>2. QED  BY <1>2, <2>3, <5>1 DEF PipesInv, Drained
        <4>3. QED  BY <4>1, <4>2
      <3>2. pipe'[0] = pipe[0]
        BY <1>1, <2>3, PartsArePipes
      <3>3. QED  BY <2>1, <3>1, <3>2 DEF PipesInv, Drained, Ended
    <2>5. QED  BY <2>3, <2>4 DEF PipesInv
  <1>4. ASSUME NEW how \in {"ok", "fail"}, Exit(p, how), how = "ok" => unsent[p] = <<>>, UNCHANGED output
        PROVE  PipesInv'
    <2>1. /\ PipeTypes' /\ ForkOrder' /\ EndsHeld' /\ status'[p] = how
          /\ \A q \in Processes \ {p} : status'[q] = status[q]
          /\ UNCHANGED <<pipe, unsent, datastore>>
      BY <1>1, <1>4, ChildEnds
    <2> HIDE DEF p
    <2>2. Drained'
      <3>1. ASSUME NEW j \in Parts
            PROVE  /\ status'[MapperOf(j)] = "ok" =>
                        unsent[MapperOf(j)] = <<>> /\ pipe[j] = <<>> /\ Ended(Splitter(j))'
                   /\ status'[Splitter(j)] = "ok" => unsent[Splitter(j)] = <<>>
        <4>1. CASE j = i
          <5>1. status'[Splitter(j)] = how /\ (how = "ok" => unsent[Splitter(j)] = <<>>)
            BY <1>4, <2>1, <4>1 DEF p
          <5>2. QED  BY <1>2, <2>1, <5>1 DEF PipesInv, Drained, Ended
        <4>2. CASE j # i
          BY <1>2, <2>1, <4>2 DEF PipesInv, Drained, Ended
        <4>3. QED  BY <4>1, <4>2
      <3>2. \A j \in Parts : status'[MapperOf(j)] = status[MapperOf(j)]
        BY <1>2, <2>1
      <3>3. status'[Reducer] = status[Reducer]
        BY <1>2, <2>1
      <3>4. QED  BY <1>4, <2>1, <3>1, <3>2, <3>3 DEF PipesInv, Drained, Ended
    <2>3. QED  BY <2>1, <2>2 DEF PipesInv
  <1>5. QED  BY <1>3, <1>4 DEF SplitterStep

LEMMA MapperKeeps == ASSUME PipesInv, NEW i \in Parts, MapperStep(i), older' = older  PROVE  PipesInv'
  <1> DEFINE p == MapperOf(i)
  <1>1. p \in Processes \ {Main, Reducer} /\ i \in Pipes /\ i # 0 /\ 0 \in Pipes
    BY ProcessesDiffer, PartsArePipes
  <1>2. /\ \A j \in Parts : Splitter(j) \in Processes \ {p} /\ MapperOf(j) \in Processes
        /\ \A j \in Parts : j # i => MapperOf(j) # p
        /\ Reducer \in Processes \ {p}
    BY ProcessesDiffer
  <1>3. ASSUME NEW q \in {0, i}, NEW x, NEW y, pipe' = [pipe EXCEPT ![q] = x],
               unsent' = [unsent EXCEPT ![p] = y], status[p] = "run",
               UNCHANGED <<mainPc, mainI, status, ends, datastore, output>>
        PROVE  PipesInv'
    <2>1. /\ PipeTypes' /\ ForkOrder' /\ EndsHeld'
          /\ \A r \in Pipes \ {q} : pipe'[r] = pipe[r]
          /\ \A r \in Processes \ {p} : unsent'[r] = unsent[r]
      BY <1>1, <1>3, ChildMoves
    <2>2. status[Reducer] # "ok"
      BY <1>3 DEF PipesInv, Drained, Ended
    <2> HIDE DEF p
    <2>3. ASSUME NEW j \in Parts
          PROVE  /\ status[MapperOf(j)] = "ok" =>
                      unsent'[MapperOf(j)] = <<>> /\ pipe'[j] = <<>> /\ Ended(Splitter(j))
                 /\ status[Splitter(j)] = "ok" => unsent'[Splitter(j)] = <<>>
      <3>1. CASE j = i
        <4>1. status[MapperOf(j)] = "run"
          BY <1>3, <3>1 DEF p
        <4>2. QED  BY <1>2, <2>1, <4>1 DEF PipesInv, Drained
      <3>2. CASE j # i
        <4>1. j \in Pipes \ {q} /\ MapperOf(j) \in Processes \ {p}
          BY <1>2, <3>2, PartsArePipes
        <4>2. QED  BY <1>2, <2>1, <4>1 DEF PipesInv, Drained
      <3>3. QED  BY <3>1, <3>2
    <2>4. Drained'
      BY <1>3, <2>2, <2>3 DEF Drained, Ended
    <2>5. QED  BY <2>1, <2>4 DEF PipesInv
  <1>4. ASSUME NEW how \in {"ok", "fail"}, Exit(p, how), UNCHANGED output,
               how = "ok" => unsent[p] = <<>> /\ EndOfFile(i)
        PROVE  PipesInv'
    <2>1. /\ PipeTypes' /\ ForkOrder' /\ EndsHeld' /\ status[p] = "run" /\ status'[p] = how
          /\ \A q \in Processes \ {p} : status'[q] = status[q]
          /\ UNCHANGED <<pipe, unsent, datastore>>
      BY <1>1, <1>4, ChildEnds
    <2>2. status[Reducer] # "ok"
      BY <2>1 DEF PipesInv, Drained, Ended
    <2>3. how = "ok" => unsent[p] = <<>> /\ pipe[i] = <<>> /\ Ended(Splitter(i))
      <3>1. SUFFICES ASSUME how = "ok"  PROVE  Ended(Splitter(i))
        BY <1>4 DEF EndOfFile
      <3>2. i \notin ends[Splitter(i)]
        BY <1>2, <1>4, <3>1 DEF EndOfFile
      <3>3. status[Splitter(i)] # "run"
        BY <3>2 DEF PipesInv, EndsHeld
      <3>4. status[Splitter(i)] # "none"
        BY <2>1 DEF PipesInv, ForkOrder, Started
      <3>5. status[Splitter(i)] \in {"none", "run", "ok", "fail"}
        BY <1>2 DEF PipesInv, PipeTypes
      <3>6. QED  BY <3>3, <3>4, <3>5 DEF Ended
    <2> HIDE DEF p
    <2>4. \A j \in Parts : status'[Splitter(j)] = status[Splitter(j)]
      BY <1>2, <2>1
    <2>5. ASSUME NEW j \in Parts
          PROVE  /\ status'[MapperOf(j)] = "ok" =>
                      unsent[MapperOf(j)] = <<>> /\ pipe[j] = <<>> /\ Ended(Splitter(j))
                 /\ status[Splitter(j)] = "ok" => unsent[Splitter(j)] = <<>>
      <3>1. CASE j = i
        BY <2>1, <2>3, <3>1 DEF PipesInv, Drained, p
      <3>2. CASE j # i
        BY <1>2, <2>1, <3>2 DEF PipesInv, Drained
      <3>3. QED  BY <3>1, <3>2
    <2>6. status'[Reducer] = status[Reducer]
      BY <1>2, <2>1
    <2>7. Drained'
      BY <2>1, <2>2, <2>4, <2>5, <2>6 DEF Drained, Ended
    <2>8. QED  BY <2>1, <2>7 DEF PipesInv
  <1>5. CASE Write(p, 0)
    <2>1. PICK x, y : pipe' = [pipe EXCEPT ![0] = x] /\ unsent' = [unsent EXCEPT ![p] = y]
      BY <1>5 DEF Write
    <2>2. status[p] = "run" /\ UNCHANGED <<mainPc, mainI, status, ends, datastore, output>>
      BY <1>5 DEF Write
    <2>3. QED  BY <1>3, <2>1, <2>2
  <1>6. ASSUME status[p] = "run", pipe' = [pipe EXCEPT ![i] = Tail(@)],
               unsent' = [unsent EXCEPT ![p] = mapper(Head(pipe[i]))],
               UNCHANGED <<mainPc, mainI, status, ends, datastore, output>>
        PROVE  PipesInv'
    <2>1. pipe' = [pipe EXCEPT ![i] = Tail(pipe[i])]
      BY <1>6
    <2>2. QED  BY <1>3, <1>6, <2>1
  <1>7. QED  BY <1>4, <1>5, <1>6 DEF MapperStep

LEMMA ReducerKeeps == ASSUME PipesInv, ReducerStep, older' = older  PROVE  PipesInv'
  <1>1. /\ Reducer \in Processes \ {Main} /\ 0 \in Pipes
        /\ \A j \in Parts : /\ MapperOf(j) \in Processes \ {Reducer} /\ Splitter(j) \in Processes \ {Reducer}
                            /\ j \in Pipes \ {0}
    BY ProcessesDiffer, PartsArePipes
  <1>2. CASE /\ status[Reducer] = "run" /\ pipe' = [pipe EXCEPT ![0] = Tail(@)]
             /\ UNCHANGED <<mainPc, mainI, status, ends, unsent, output>>
    <2>1. unsent' = [unsent EXCEPT ![Reducer] = unsent[Reducer]]
      BY <1>1, <1>2 DEF PipesInv, PipeTypes
    <2>2. PICK x, y : pipe' = [pipe EXCEPT ![0] = x] /\ unsent' = [unsent EXCEPT ![Reducer] = y]
      BY <1>2, <2>1
    <2>3. /\ PipeTypes' /\ ForkOrder' /\ EndsHeld'
          /\ \A r \in Pipes \ {0} : pipe'[r] = pipe[r]
      <3>1. Reducer \in Processes /\ 0 \in Pipes
        BY <1>1
      <3>2. UNCHANGED <<mainPc, mainI, status, ends>>
        BY <1>2
      <3>3. QED  BY <2>2, <3>1, <3>2, ChildMoves
    <2>4. \A j \in Parts : pipe'[j] = pipe[j]
      BY <1>1, <2>3
    <2>5. Drained'
      BY <1>2, <2>4 DEF PipesInv, Drained, Ended
    <2>6. QED  BY <2>3, <2>5 DEF PipesInv
  <1>3. CASE EndOfFile(0) /\ Exit(Reducer, "ok") /\ output' = Written(older, datastore)
    <2>1. /\ PipeTypes' /\ ForkOrder' /\ EndsHeld' /\ status[Reducer] = "run"
          /\ \A q \in Processes \ {Reducer} : status'[q] = status[q]
          /\ UNCHANGED <<pipe, unsent, datastore>>
      BY <1>1, <1>3, ChildEnds
    <2>2. ASSUME NEW j \in Parts  PROVE  Ended(MapperOf(j))
      <3>1. 0 \notin ends[MapperOf(j)]
        BY <1>1, <1>3 DEF EndOfFile
      <3>2. status[MapperOf(j)] # "run"
        BY <3>1 DEF PipesInv, EndsHeld
      <3>3. status[MapperOf(j)] # "none"
        BY <2>1 DEF PipesInv, ForkOrder, Started
      <3>4. status[MapperOf(j)] \in {"none", "run", "ok", "fail"}
        BY <1>1 DEF PipesInv, PipeTypes
      <3>5. QED  BY <3>2, <3>3, <3>4 DEF Ended
    <2>3. \A j \in Parts : status'[MapperOf(j)] = status[MapperOf(j)] /\ status'[Splitter(j)] = status[Splitter(j)]
      BY <1>1, <2>1
    <2>4. pipe'[0] = <<>> /\ output' = Written(older', datastore')
      BY <1>3, <2>1 DEF EndOfFile
    <2>5. Drained'
      BY <2>1, <2>2, <2>3, <2>4 DEF PipesInv, Drained, Ended
    <2>6. QED  BY <2>1, <2>5 DEF PipesInv
  <1>4. CASE Exit(Reducer, "fail") /\ UNCHANGED output
    <2>1. /\ PipeTypes' /\ ForkOrder' /\ EndsHeld' /\ status'[Reducer] = "fail"
          /\ \A q \in Processes \ {Reducer} : status'[q] = status[q]
          /\ UNCHANGED <<pipe, unsent, datastore>>
      BY <1>1, <1>4, ChildEnds
    <2>2. \A j \in Parts : status'[MapperOf(j)] = status[MapperOf(j)] /\ status'[Splitter(j)] = status[Splitter(j)]
      BY <1>1, <2>1
    <2>3. Drained'
      BY <2>1, <2>2 DEF PipesInv, Drained, Ended
    <2>4. QED  BY <2>1, <2>3 DEF PipesInv
  <1>5. QED  BY <1>2, <1>3, <1>4 DEF ReducerStep

LEMMA OlderStays == [MapReduceNext]_mrVars => older' = older
  <1> USE DEF Fixed
  <1>1. ForkSplitter \/ ForkMapper => older' = older
    BY DEF ForkSplitter, ForkMapper, Fork
  <1>2. ForkReducer \/ ForkFails \/ WaitForAll => older' = older
    BY DEF ForkReducer, ForkFails, WaitForAll
  <1>3. \A i \in Parts : SplitterStep(i) => older' = older
    BY DEF SplitterStep, Write, Exit
  <1>4. \A i \in Parts : MapperStep(i) => older' = older
    BY DEF MapperStep, Write, Exit
  <1>5. ReducerStep => older' = older
    BY DEF ReducerStep, Exit
  <1>6. QED  BY <1>1, <1>2, <1>3, <1>4, <1>5 DEF MapReduceNext, mrVars

LEMMA PipesKeep == PipesInv /\ [MapReduceNext]_mrVars => PipesInv'
  <1> SUFFICES ASSUME PipesInv, [MapReduceNext]_mrVars  PROVE  PipesInv'
    OBVIOUS
  <1>1. CASE UNCHANGED mrVars
    <2>1. UNCHANGED <<mainPc, mainI, status, ends, pipe, unsent, datastore, output, older>>
      BY <1>1 DEF mrVars
    <2>2. PipeTypes' /\ EndsHeld' /\ Drained'
      BY <2>1 DEF PipesInv, PipeTypes, EndsHeld, Drained, Ended
    <2>3. ForkOrder'
      BY <2>1 DEF PipesInv, ForkOrder, Started
    <2>4. QED  BY <2>2, <2>3 DEF PipesInv
  <1>2. QED
    BY <1>1, OlderStays, SplitterForked, MapperForked, ParentKeeps, SplitterKeeps, MapperKeeps, ReducerKeeps
    DEF MapReduceNext

(* The reducer of mapreduce.c sees the end of its pipe only when all       *)
(* mappers have ended and everything they were sent has been mapped and    *)
(* counted, for any number of mappers, any input and mapper program, with  *)
(* forks or inputs that fail, and any size of the pipes.                   *)
THEOREM NothingLost == MapReduceSpec => []NothingAfterEnd
  <1>1. MapReduceSpec => []PipesInv
    BY PipesStart, PipesKeep, PTL DEF MapReduceSpec
  <1>2. PipesInv => NothingAfterEnd
    BY DEF PipesInv, Drained, NothingAfterEnd
  <1>3. QED  BY <1>1, <1>2, PTL

-----------------------------------------------------------------------------
(* The counts of MapReduce.  How RunsWithout goes on with one more         *)
(* character; its fold is a recursive function over sets of places.        *)
AddChar(runs, x, c) ==
    CASE x # c                      -> Append(Front(runs), Append(Last(runs), x))
      [] x = c /\ Last(runs) = <<>> -> runs
      [] x = c /\ Last(runs) # <<>> -> Append(runs, <<>>)

RunsOf(s, c) == FoldLeft(LAMBDA runs, x : AddChar(runs, x, c), <<<<>>>>, s)

LEMMA RunsAre == ASSUME NEW s, NEW c
  PROVE RunsWithout(s, c) = IF Last(RunsOf(s, c)) = <<>> THEN Front(RunsOf(s, c)) ELSE RunsOf(s, c)
  BY DEF RunsWithout, RunsOf, AddChar

LEMMA GreatestPlace ==
  ASSUME NEW n \in Nat, NEW b \in SUBSET (1..n), b # {}
  PROVE  Max(b) \in b /\ \A y \in b : y <= Max(b)
  <1> DEFINE D == {n - i : i \in b}
  <1>0. \A i \in b : i \in Nat /\ i <= n /\ n - i \in Nat
    OBVIOUS
  <1>1. D \in SUBSET Nat /\ D # {}
    BY <1>0
  <1>2. PICK d \in D : \A e \in D : d <= e
    <2> HIDE DEF D
    <2>1. QED  BY <1>1, LeastPlace
  <1>3. PICK x \in b : d = n - x
    BY <1>2
  <1>4. \A y \in b : n - x <= n - y
    BY <1>2, <1>3
  <1>5. \A y \in b : x >= y
    BY <1>0, <1>4
  <1>6. Max(b) \in b /\ \A y \in b : Max(b) >= y
    BY <1>5 DEF Max
  <1>7. QED  BY <1>0, <1>6

OneChar(h, s, c, S) ==
    [b \in SUBSET S |-> IF b = {} THEN <<<<>>>> ELSE AddChar(h[b \ {Max(b)}], s[Max(b)], c)]

LEMMA RunsExist ==
  ASSUME NEW n \in Nat, NEW s, NEW c
  PROVE  \E h : h = OneChar(h, s, c, 1..n)
  <1> DEFINE S == 1..n
             Bad == {T \in SUBSET S : ~\E h : h = OneChar(h, s, c, T)}
  <1> SUFFICES ASSUME Bad # {}  PROVE  FALSE
    OBVIOUS
  <1>1. IsFiniteSet(S)
    BY FS_Interval
  <1>2. PICK T \in Bad : \A t \in Bad : ~(t \subseteq T /\ t # T)
    <2>1. Bad \in SUBSET (SUBSET S)
      OBVIOUS
    <2> HIDE DEF Bad, S
    <2>2. QED  BY <1>1, <2>1, SmallestPart
  <1>3. T \in SUBSET S /\ ~\E h : h = OneChar(h, s, c, T)
    BY <1>2
  <1>4. CASE T = {}
    <2> DEFINE g == [b \in SUBSET {} |-> <<<<>>>>]
    <2>1. \A b \in SUBSET {} : b = {}
      OBVIOUS
    <2>2. OneChar(g, s, c, {}) = g
      BY <2>1 DEF OneChar
    <2>3. QED  BY <1>3, <1>4, <2>2
  <1>5. CASE T # {}
    <2> DEFINE j == Max(T)
               T0 == T \ {j}
    <2>1. j \in T /\ \A y \in T : y <= j
      BY <1>3, <1>5, GreatestPlace
    <2>2. T0 \notin Bad
      BY <1>2, <2>1
    <2>3. PICK h : h = OneChar(h, s, c, T0)
      BY <1>3, <2>2
    <2> DEFINE g == [b \in SUBSET T |-> IF j \in b THEN AddChar(h[b \ {j}], s[j], c) ELSE h[b]]
    <2>4. ASSUME NEW b \in SUBSET T  PROVE  g[b] = OneChar(g, s, c, T)[b]
      <3>1. CASE b = {}
        <4>1. b \in SUBSET T0 /\ j \notin b
          BY <3>1
        <4>2. h[b] = <<<<>>>>
          BY <2>3, <3>1, <4>1 DEF OneChar
        <4>3. g[b] = <<<<>>>>
          BY <4>1, <4>2
        <4>4. QED  BY <3>1, <4>3 DEF OneChar
      <3>2. CASE b # {} /\ j \in b
        <4>1. Max(b) \in b /\ \A y \in b : y <= Max(b)
          BY <1>3, <3>2, GreatestPlace
        <4>2. Max(b) = j
          <5>1. Max(b) \in Int /\ j \in Int /\ Max(b) <= j /\ j <= Max(b)
            <6>1. \A y \in T : y \in Int
              BY <1>3
            <6> HIDE DEF j
            <6>2. Max(b) \in T
              BY <4>1
            <6>3. QED  BY <2>1, <3>2, <4>1, <6>1, <6>2
          <5> HIDE DEF j
          <5>2. QED  BY <5>1
        <4>3. b \ {j} \in SUBSET T /\ j \notin b \ {j}
          OBVIOUS
        <4>4. g[b \ {j}] = h[b \ {j}]
          BY <4>3
        <4>5. g[b] = AddChar(h[b \ {j}], s[j], c)
          BY <3>2
        <4>6. OneChar(g, s, c, T)[b] = AddChar(g[b \ {j}], s[j], c)
          BY <3>2, <4>2, Zenon DEF OneChar
        <4>7. QED  BY <4>4, <4>5, <4>6
      <3>3. CASE b # {} /\ j \notin b
        <4>1. b \in SUBSET T0
          BY <3>3
        <4>2. Max(b) \in b
          BY <1>3, <3>3, GreatestPlace
        <4>3. b \ {Max(b)} \in SUBSET T /\ j \notin b \ {Max(b)}
          BY <3>3
        <4>4. g[b \ {Max(b)}] = h[b \ {Max(b)}] /\ g[b] = h[b]
          BY <3>3, <4>3
        <4>5. h[b] = AddChar(h[b \ {Max(b)}], s[Max(b)], c)
          BY <2>3, <3>3, <4>1, Zenon DEF OneChar
        <4>6. OneChar(g, s, c, T)[b] = AddChar(g[b \ {Max(b)}], s[Max(b)], c)
          BY <3>3, Zenon DEF OneChar
        <4> HIDE DEF g, j, T0
        <4>7. QED  BY <4>4, <4>5, <4>6
      <3>4. QED  BY <3>1, <3>2, <3>3
    <2>5. g = OneChar(g, s, c, T)
      <3>1. OneChar(g, s, c, T) = [b \in SUBSET T |-> OneChar(g, s, c, T)[b]]
        BY DEF OneChar
      <3>2. g = [b \in SUBSET T |-> g[b]]
        OBVIOUS
      <3> HIDE DEF g
      <3>3. QED  BY <2>4, <3>1, <3>2
    <2>6. QED  BY <1>3, <2>5
  <1>6. QED  BY <1>4, <1>5

(* The runs of no character, and of one character more. *)
LEMMA RunsGrow ==
  ASSUME NEW C, NEW s \in Seq(C), NEW x \in C, NEW c
  PROVE  RunsOf(Append(s, x), c) = AddChar(RunsOf(s, c), x, c)
  <1> DEFINE n == Len(s)
             t == Append(s, x)
             S == 1..n
             T == 1..n + 1
             f == CHOOSE h : h = OneChar(h, s, c, S)
             g == CHOOSE h : h = OneChar(h, t, c, T)
  <1>1. /\ n \in Nat /\ DOMAIN s = S /\ DOMAIN t = T /\ Len(t) = n + 1
        /\ \A i \in S : t[i] = s[i]
        /\ t[n + 1] = x
    BY LenProperties, AppendProperties
  <1>2. RunsOf(s, c) = f[S]
    BY <1>1 DEF RunsOf, FoldLeft, MapThenFoldSet, OneChar
  <1>3. RunsOf(t, c) = g[T]
    BY <1>1 DEF RunsOf, FoldLeft, MapThenFoldSet, OneChar
  <1> HIDE DEF n, t
  <1>4. f = OneChar(f, s, c, S) /\ g = OneChar(g, t, c, T)
    <2>1. \E h : h = OneChar(h, s, c, S)
      BY <1>1, RunsExist
    <2>2. \E h : h = OneChar(h, t, c, T)
      BY <1>1, RunsExist
    <2>3. QED  BY <2>1, <2>2, Zenon
  <1> HIDE DEF f, g
  <1>5. \A b \in SUBSET S : g[b] = f[b]
    <2> DEFINE Bad == {b \in SUBSET S : g[b] # f[b]}
    <2> SUFFICES ASSUME Bad # {}  PROVE  FALSE
      OBVIOUS
    <2>1. PICK b \in Bad : \A d \in Bad : ~(d \subseteq b /\ d # b)
      <3>1. Bad \in SUBSET (SUBSET S) /\ IsFiniteSet(S)
        BY <1>1, FS_Interval
      <3> HIDE DEF Bad, S
      <3>2. QED  BY <3>1, SmallestPart
    <2>2. b \in SUBSET S /\ b \in SUBSET T /\ g[b] # f[b]
      BY <1>1, <2>1
    <2>3. CASE b = {}
      <3>1. f[b] = <<<<>>>> /\ g[b] = <<<<>>>>
        BY <1>4, <2>2, <2>3, Zenon DEF OneChar
      <3>2. QED  BY <2>2, <3>1
    <2>4. CASE b # {}
      <3>1. Max(b) \in b
        BY <1>1, <2>2, <2>4, GreatestPlace
      <3>2. g[b \ {Max(b)}] = f[b \ {Max(b)}]
        BY <2>1, <3>1
      <3>3. t[Max(b)] = s[Max(b)]
        BY <1>1, <2>2, <3>1
      <3>4. f[b] = AddChar(f[b \ {Max(b)}], s[Max(b)], c)
        BY <1>4, <2>2, <2>4, Zenon DEF OneChar
      <3>5. g[b] = AddChar(g[b \ {Max(b)}], t[Max(b)], c)
        BY <1>4, <2>2, <2>4, Zenon DEF OneChar
      <3>6. QED  BY <2>2, <3>2, <3>3, <3>4, <3>5
    <2>5. QED  BY <2>3, <2>4
  <1>6. Max(T) = n + 1
    <2>1. n + 1 \in T /\ n + 1 \in Nat
      BY <1>1
    <2>2. Max(T) \in T /\ n + 1 <= Max(T)
      BY <2>1, GreatestPlace
    <2> HIDE DEF T
    <2>3. Max(T) \in Int /\ Max(T) <= n + 1
      BY <1>1, <2>2 DEF T
    <2>4. QED  BY <1>1, <2>2, <2>3
  <1>7. T \ {n + 1} = S /\ T # {}
    BY <1>1
  <1>8. g[T] = AddChar(g[T \ {Max(T)}], t[Max(T)], c)
    BY <1>4, <1>7, Zenon DEF OneChar
  <1>9. RunsOf(t, c) = AddChar(RunsOf(s, c), x, c)
    <2>1. S \in SUBSET S
      OBVIOUS
    <2>2. g[S] = f[S]
      BY <1>5, <2>1
    <2> HIDE DEF S, T
    <2>3. QED  BY <1>1, <1>2, <1>3, <1>6, <1>7, <1>8, <2>2
  <1>10. QED  BY <1>9 DEF t

LEMMA RunsOfNone == ASSUME NEW c  PROVE  RunsOf(<<>>, c) = <<<<>>>>
  <1> DEFINE f == CHOOSE h : h = OneChar(h, <<>>, c, 1..0)
  <1>1. DOMAIN <<>> = 1..0
    OBVIOUS
  <1>2. RunsOf(<<>>, c) = f[1..0]
    BY <1>1 DEF RunsOf, FoldLeft, MapThenFoldSet, OneChar
  <1>3. \E h : h = OneChar(h, <<>>, c, 1..0)
    BY RunsExist
  <1>4. f = OneChar(f, <<>>, c, 1..0)
    BY <1>3, Zenon
  <1> HIDE DEF f
  <1>5. 1..0 = {} /\ 1..0 \in SUBSET (1..0)
    OBVIOUS
  <1>6. f[1..0] = <<<<>>>>
    BY <1>4, <1>5, Zenon DEF OneChar
  <1>7. QED  BY <1>2, <1>6

LEMMA PrefixGrows ==
  ASSUME NEW C, NEW s \in Seq(C)
  PROVE  /\ SubSeq(s, 1, 0) = <<>> /\ SubSeq(s, 1, Len(s)) = s /\ Len(s) \in Nat
         /\ \A k \in 0..Len(s) : SubSeq(s, 1, k) \in Seq(C)
         /\ \A k \in 1..Len(s) : s[k] \in C /\ SubSeq(s, 1, k) = Append(SubSeq(s, 1, k - 1), s[k])
  <1>1. Len(s) \in Nat /\ \A k \in 1..Len(s) : s[k] \in C
    BY LenProperties, ElementOfSeq
  <1>2. SubSeq(s, 1, 0) = <<>>
    BY SubSeqEmpty
  <1>3. SubSeq(s, 1, Len(s)) = s
    BY SubSeqFull
  <1>4. ASSUME NEW k \in 0..Len(s)  PROVE  SubSeq(s, 1, k) \in Seq(C)
    <2>1. \A i \in 1..k : s[i] \in C
      BY <1>1
    <2>2. 1 \in Int /\ k \in Int
      BY <1>1
    <2>3. QED  BY <2>1, <2>2, SubSeqProperties
  <1>5. ASSUME NEW k \in 1..Len(s)
        PROVE  SubSeq(s, 1, k) = Append(SubSeq(s, 1, k - 1), s[k])
    <2>1. 1 \in 1..Len(s) /\ k \in 1..Len(s) /\ k - 1 \in 0..Len(s)
      BY <1>1
    <2>2. SubSeq(s, 1, k) = SubSeq(s, 1, k - 1) \o <<s[k]>>
      BY <2>1, SubSeqRecursiveSecond
    <2>3. SubSeq(s, 1, k - 1) \in Seq(C) /\ s[k] \in C
      BY <1>1, <1>4, <2>1
    <2>4. QED  BY <2>2, <2>3, AppendIsConcat
  <1>6. QED  BY <1>1, <1>2, <1>3, <1>4, <1>5

LEMMA FrontLast ==
  ASSUME NEW X, NEW q \in Seq(X), q # <<>>
  PROVE  /\ Front(q) \in Seq(X) /\ Last(q) \in X /\ Front(q) \o <<Last(q)>> = q
         /\ Len(Front(q)) = Len(q) - 1
  <1>1. Len(q) \in Nat \ {0}
    BY EmptySeq, LenProperties
  <1>2. 1 \in 1..Len(q) /\ Len(q) \in 1..Len(q) /\ Len(q) - 1 \in 0..Len(q)
    BY <1>1
  <1>3. Front(q) \in Seq(X) /\ Last(q) \in X
    BY <1>2, PrefixGrows DEF Front, Last
  <1>4. Front(q) \o <<Last(q)>> = q
    BY <1>2, SubSeqRecursiveSecond, SubSeqFull DEF Front, Last
  <1>5. Len(Front(q)) = Len(q) - 1
    <2>1. \A i \in 1..Len(q) - 1 : q[i] \in X
      BY <1>1, PrefixGrows
    <2> DEFINE m == Len(q) - 1
    <2>2. m \in Nat /\ 1 \in Int /\ m \in Int
      BY <1>1
    <2>3. Len(SubSeq(q, 1, m)) = IF 1 <= m THEN m - 1 + 1 ELSE 0
      <3> HIDE DEF m
      <3>1. \A i \in 1..m : q[i] \in X
        BY <2>1 DEF m
      <3>2. QED  BY <2>2, <3>1, SubSeqProperties
    <2>4. Len(SubSeq(q, 1, m)) = m
      <3> HIDE DEF m
      <3>1. QED  BY <2>2, <2>3
    <2>5. QED  BY <2>4 DEF Front
  <1>6. QED  BY <1>3, <1>4, <1>5

LEMMA LastOfConcat ==
  ASSUME NEW X, NEW p \in Seq(X), NEW q \in Seq(X), q # <<>>
  PROVE  Last(p \o q) = Last(q)
  <1>1. /\ Len(p \o q) = Len(p) + Len(q)
        /\ \A i \in 1 .. Len(p) + Len(q) : (p \o q)[i] = IF i <= Len(p) THEN p[i] ELSE q[i - Len(p)]
    BY ConcatProperties
  <1>2. Len(p) \in Nat /\ Len(q) \in Nat \ {0}
    BY EmptySeq, LenProperties
  <1>3. QED  BY <1>1, <1>2 DEF Last

LEMMA FrontOfConcat ==
  ASSUME NEW X, NEW p \in Seq(X), NEW q \in Seq(X), q # <<>>
  PROVE  Front(p \o q) = p \o Front(q)
  <1>1. p \o q \in Seq(X) /\ p \o q # <<>>
    BY ConcatProperties, ConcatEqualIffEmpty
  <1>2. /\ Front(q) \in Seq(X) /\ Last(q) \in X /\ Front(q) \o <<Last(q)>> = q
        /\ Front(p \o q) \in Seq(X) /\ Front(p \o q) \o <<Last(p \o q)>> = p \o q
    BY <1>1, FrontLast
  <1>3. <<Last(q)>> \in Seq(X) /\ p \o Front(q) \in Seq(X)
    BY <1>2, ConcatProperties
  <1>4. (p \o Front(q)) \o <<Last(q)>> = p \o q
    <2>1. (p \o Front(q)) \o <<Last(q)>> = p \o (Front(q) \o <<Last(q)>>)
      <3> DEFINE f == Front(q)
                 l == <<Last(q)>>
      <3>1. f \in Seq(X) /\ l \in Seq(X)
        BY <1>2, <1>3
      <3> HIDE DEF f, l
      <3>2. (p \o f) \o l = p \o (f \o l)
        BY <3>1, ConcatAssociative
      <3>3. QED  BY <3>2 DEF f, l
    <2>2. QED  BY <1>2, <2>1
  <1>5. Front(p \o q) \o <<Last(q)>> = (p \o Front(q)) \o <<Last(q)>>
    BY <1>2, <1>4, LastOfConcat
  <1>6. \A a, b, e \in Seq(X) : a \o e = b \o e => a = b
    BY ConcatSimplifications
  <1>7. QED  BY <1>2, <1>3, <1>5, <1>6

LEMMA CharAdded ==
  ASSUME NEW X, <<>> \in X, NEW p \in Seq(X), NEW r \in Seq(X), r # <<>>,
         NEW c, NEW x, \A l \in X : Append(l, x) \in X
  PROVE  /\ AddChar(r, x, c) \in Seq(X) /\ AddChar(r, x, c) # <<>>
         /\ AddChar(p \o r, x, c) = p \o AddChar(r, x, c)
         /\ x = c => Last(AddChar(r, x, c)) = <<>>
  <1>1. /\ Front(r) \in Seq(X) /\ Last(r) \in X
        /\ Last(p \o r) = Last(r) /\ Front(p \o r) = p \o Front(r)
    BY FrontLast, LastOfConcat, FrontOfConcat
  <1>2. Append(Last(r), x) \in X /\ <<>> \in X
    BY <1>1
  <1>3. ASSUME NEW a \in Seq(X), NEW e \in X
        PROVE  /\ Append(a, e) \in Seq(X) /\ Append(a, e) # <<>> /\ Last(Append(a, e)) = e
               /\ Append(p \o a, e) = p \o Append(a, e)
    <2>1. Append(a, e) \in Seq(X) /\ Append(a, e) # <<>> /\ Last(Append(a, e)) = e
      BY AppendProperties DEF Last
    <2>2. p \o a \in Seq(X) /\ <<e>> \in Seq(X)
      BY ConcatProperties
    <2>3. Append(p \o a, e) = (p \o a) \o <<e>> /\ Append(a, e) = a \o <<e>>
      BY <2>2, AppendIsConcat
    <2>4. (p \o a) \o <<e>> = p \o (a \o <<e>>)
      BY <2>2, ConcatAssociative
    <2>5. QED  BY <2>1, <2>3, <2>4
  <1>4. CASE x # c
    <2>1. AddChar(r, x, c) = Append(Front(r), Append(Last(r), x))
          /\ AddChar(p \o r, x, c) = Append(Front(p \o r), Append(Last(p \o r), x))
      BY <1>4 DEF AddChar
    <2>2. Front(p \o r) = p \o Front(r) /\ Last(p \o r) = Last(r)
      BY <1>1
    <2>3. AddChar(p \o r, x, c) = Append(p \o Front(r), Append(Last(r), x))
      BY <2>1, <2>2
    <2>4. Append(p \o Front(r), Append(Last(r), x)) = p \o Append(Front(r), Append(Last(r), x))
      BY <1>1, <1>2, <1>3
    <2>5. QED  BY <1>1, <1>2, <1>3, <1>4, <2>1, <2>3, <2>4
  <1>5. CASE x = c /\ Last(r) = <<>>
    <2>1. AddChar(r, x, c) = r /\ AddChar(p \o r, x, c) = p \o r
      BY <1>1, <1>5 DEF AddChar
    <2>2. QED  BY <1>5, <2>1
  <1>6. CASE x = c /\ Last(r) # <<>>
    <2>1. AddChar(r, x, c) = Append(r, <<>>) /\ AddChar(p \o r, x, c) = Append(p \o r, <<>>)
      BY <1>1, <1>6 DEF AddChar
    <2>2. QED  BY <1>2, <1>3, <2>1, ZenonT(60)
  <1>7. QED  BY <1>4, <1>5, <1>6

(* The runs of a sequence of characters. *)
LEMMA RunsTyped ==
  ASSUME NEW C, NEW s \in Seq(C), NEW c
  PROVE  RunsOf(s, c) \in Seq(Seq(C)) /\ RunsOf(s, c) # <<>>
  <1> DEFINE X == Seq(C)
             P(k) == SubSeq(s, 1, k)
             Bad == {k \in 0..Len(s) : ~(RunsOf(P(k), c) \in Seq(X) /\ RunsOf(P(k), c) # <<>>)}
  <1>1. Len(s) \in Nat /\ P(0) = <<>> /\ P(Len(s)) = s
    BY PrefixGrows
  <1>2. <<>> \in X /\ \A x \in C : \A l \in X : Append(l, x) \in X
    BY EmptySeq, AppendProperties
  <1>3. Bad = {}
    <2> SUFFICES ASSUME Bad # {}  PROVE  FALSE
      OBVIOUS
    <2>1. PICK k \in Bad : \A j \in Bad : k <= j
      <3>1. Bad \in SUBSET Nat
        OBVIOUS
      <3> HIDE DEF Bad
      <3>2. QED  BY <3>1, LeastPlace
    <2>2. CASE k = 0
      <3>1. RunsOf(P(k), c) = <<<<>>>>
        BY <1>1, <2>2, RunsOfNone
      <3> HIDE DEF X
      <3>2. <<<<>>>> \in Seq(X) /\ <<<<>>>> # <<>>
        BY <1>2
      <3>3. QED  BY <2>1, <3>1, <3>2
    <2>3. CASE k # 0
      <3>1. k - 1 \in 0..Len(s) /\ k \in 1..Len(s) /\ ~(k <= k - 1)
        BY <1>1, <2>1, <2>3
      <3>2. k - 1 \notin Bad
        BY <2>1, <3>1
      <3> DEFINE r == RunsOf(P(k - 1), c)
      <3>3. r \in Seq(X) /\ r # <<>>
        BY <3>1, <3>2
      <3>4. P(k - 1) \in Seq(C) /\ s[k] \in C /\ P(k) = Append(P(k - 1), s[k])
        BY <3>1, PrefixGrows
      <3>5. RunsOf(P(k), c) = AddChar(r, s[k], c)
        BY <3>4, RunsGrow
      <3>6. \A l \in X : Append(l, s[k]) \in X
        BY <1>2, <3>4
      <3>7. AddChar(r, s[k], c) \in Seq(X) /\ AddChar(r, s[k], c) # <<>>
        <4> HIDE DEF X, r
        <4>1. QED  BY <1>2, <3>3, <3>6, CharAdded
      <3>8. QED  BY <2>1, <3>5, <3>7
    <2>4. QED  BY <2>2, <2>3
  <1>4. RunsOf(P(Len(s)), c) \in Seq(X) /\ RunsOf(P(Len(s)), c) # <<>>
    <2>1. Len(s) \in 0..Len(s)
      BY <1>1
    <2>2. QED  BY <1>3, <2>1, Zenon
  <1>5. QED  BY <1>1, <1>4, Zenon

LEMMA AppendToConcat ==
  ASSUME NEW X, NEW p \in Seq(X), NEW q \in Seq(X), NEW x \in X
  PROVE  p \o Append(q, x) = Append(p \o q, x)
  <1> DEFINE u == <<x>>
  <1>1. u \in Seq(X) /\ p \o q \in Seq(X)
    BY ConcatProperties
  <1>2. Append(q, x) = q \o u /\ Append(p \o q, x) = (p \o q) \o u
    BY <1>1, AppendIsConcat
  <1> HIDE DEF u
  <1>3. (p \o q) \o u = p \o (q \o u)
    BY <1>1, ConcatAssociative, SMTT(60)
  <1>4. QED  BY <1>2, <1>3

(* Behind a separator the runs start anew. *)
LEMMA RunsJoin ==
  ASSUME NEW C, NEW a \in Seq(C), NEW b \in Seq(C), NEW c, Last(RunsOf(a, c)) = <<>>
  PROVE  RunsOf(a \o b, c) = Front(RunsOf(a, c)) \o RunsOf(b, c)
  <1> DEFINE X == Seq(C)
             P(k) == SubSeq(b, 1, k)
             p == Front(RunsOf(a, c))
             Bad == {k \in 0..Len(b) : RunsOf(a \o P(k), c) # p \o RunsOf(P(k), c)}
  <1>1. Len(b) \in Nat /\ P(0) = <<>> /\ P(Len(b)) = b
    BY PrefixGrows
  <1>2. <<>> \in X /\ \A x \in C : \A l \in X : Append(l, x) \in X
    BY EmptySeq, AppendProperties
  <1>3. RunsOf(a, c) \in Seq(X) /\ RunsOf(a, c) # <<>>
    BY RunsTyped
  <1>4. p \in Seq(X) /\ p \o <<<<>>>> = RunsOf(a, c)
    <2> HIDE DEF X
    <2>1. QED  BY <1>3, FrontLast
  <1>5. Bad = {}
    <2> SUFFICES ASSUME Bad # {}  PROVE  FALSE
      OBVIOUS
    <2>1. PICK k \in Bad : \A j \in Bad : k <= j
      <3>1. Bad \in SUBSET Nat
        OBVIOUS
      <3> HIDE DEF Bad
      <3>2. QED  BY <3>1, LeastPlace
    <2>2. CASE k = 0
      <3>1. RunsOf(P(k), c) = <<<<>>>>
        BY <1>1, <2>2, RunsOfNone
      <3>2. a \o P(k) = a
        BY <1>1, <2>2, ConcatEmptySeq
      <3>3. QED  BY <1>4, <2>1, <3>1, <3>2
    <2>3. CASE k # 0
      <3>1. k - 1 \in 0..Len(b) /\ k \in 1..Len(b) /\ ~(k <= k - 1)
        BY <1>1, <2>1, <2>3
      <3>2. k - 1 \notin Bad
        BY <2>1, <3>1
      <3> DEFINE q == P(k - 1)
                 x == b[k]
                 r == RunsOf(q, c)
      <3>3. RunsOf(a \o q, c) = p \o r
        BY <3>1, <3>2
      <3>4. q \in Seq(C) /\ x \in C /\ P(k) = Append(q, x)
        BY <3>1, PrefixGrows
      <3>5. a \o Append(q, x) = Append(a \o q, x) /\ a \o q \in Seq(C)
        <4> HIDE DEF q, x
        <4>1. QED  BY <3>4, AppendToConcat, ConcatProperties, SMTT(60)
      <3>6. RunsOf(P(k), c) = AddChar(r, x, c)
        BY <3>4, RunsGrow
      <3>7. RunsOf(a \o P(k), c) = AddChar(p \o r, x, c)
        <4>1. RunsOf(Append(a \o q, x), c) = AddChar(RunsOf(a \o q, c), x, c)
          <5> DEFINE y == a \o q
          <5> HIDE DEF y, x
          <5>1. QED  BY <3>4, <3>5, RunsGrow DEF y
        <4>3. QED  BY <3>3, <3>4, <3>5, <4>1
      <3>8. \A l \in X : Append(l, x) \in X
        BY <1>2, <3>4
      <3>9. r \in Seq(X) /\ r # <<>>
        BY <3>4, RunsTyped
      <3>10. AddChar(p \o r, x, c) = p \o AddChar(r, x, c)
        <4> HIDE DEF X, r, x, p, P, Bad
        <4>1. QED  BY <1>2, <1>4, <3>8, <3>9, CharAdded
      <3>11. QED  BY <2>1, <3>6, <3>7, <3>10
    <2>4. QED  BY <2>2, <2>3
  <1>6. RunsOf(a \o P(Len(b)), c) = p \o RunsOf(P(Len(b)), c)
    <2>1. Len(b) \in 0..Len(b)
      BY <1>1
    <2>2. QED  BY <1>5, <2>1, Zenon
  <1>7. QED  BY <1>1, <1>6, Zenon

(* A text cut behind a separator, or at an end, has the runs of its parts. *)
LEMMA RunsOfParts ==
  ASSUME NEW C, NEW a \in Seq(C), NEW b \in Seq(C), NEW c,
         a = <<>> \/ b = <<>> \/ a[Len(a)] = c
  PROVE  /\ RunsWithout(a \o b, c) = RunsWithout(a, c) \o RunsWithout(b, c)
         /\ RunsWithout(a, c) \in Seq(Seq(C)) /\ RunsWithout(<<>>, c) = <<>>
  <1> DEFINE X == Seq(C)
             A == RunsOf(a, c)
             B == RunsOf(b, c)
  <1>1. A \in Seq(X) /\ A # <<>> /\ B \in Seq(X) /\ B # <<>>
    BY RunsTyped
  <1>2. /\ RunsWithout(a, c) = IF Last(A) = <<>> THEN Front(A) ELSE A
        /\ RunsWithout(b, c) = IF Last(B) = <<>> THEN Front(B) ELSE B
        /\ RunsWithout(a \o b, c) = IF Last(RunsOf(a \o b, c)) = <<>> THEN Front(RunsOf(a \o b, c))
                                     ELSE RunsOf(a \o b, c)
    BY RunsAre
  <1>3. RunsWithout(<<>>, c) = <<>>
    <2>1. RunsOf(<<>>, c) = <<<<>>>>
      BY RunsOfNone
    <2>2. Last(<<<<>>>>) = <<>>
      BY DEF Last
    <2>3. Front(<<<<>>>>) = <<>>
      BY SubSeqEmpty DEF Front
    <2>4. QED  BY <2>1, <2>2, <2>3, RunsAre
  <1> HIDE DEF A, B
  <1>4. RunsWithout(a, c) \in Seq(X) /\ RunsWithout(b, c) \in Seq(X)
    <2> HIDE DEF X
    <2>1. QED  BY <1>1, <1>2, FrontLast
  <1>5. CASE b = <<>>
    <2>1. a \o b = a
      BY <1>5, ConcatEmptySeq
    <2>2. RunsWithout(a, c) \o <<>> = RunsWithout(a, c)
      <3> HIDE DEF X
      <3>1. QED  BY <1>4, ConcatEmptySeq
    <2>3. QED  BY <1>3, <1>4, <1>5, <2>1, <2>2
  <1>6. CASE a = <<>> \/ a[Len(a)] = c
    <2>1. Last(A) = <<>>
      <3>1. CASE a = <<>>
        <4>1. A = <<<<>>>>
          BY <3>1, RunsOfNone DEF A
        <4>2. QED  BY <4>1 DEF Last
      <3>2. CASE a # <<>> /\ a[Len(a)] = c
        <4> DEFINE n == Len(a)
                   d == SubSeq(a, 1, n - 1)
        <4>1. n \in 1..Len(a)
          BY <3>2, EmptySeq, LenProperties
        <4>2. a = Append(d, a[n]) /\ a[n] \in C
          BY <4>1, PrefixGrows
        <4>3. d \in Seq(C)
          <5>1. n - 1 \in 0..Len(a)
            BY <4>1
          <5>2. QED  BY <5>1, PrefixGrows
        <4> HIDE DEF d, n
        <4>4. RunsOf(d, c) \in Seq(X) /\ RunsOf(d, c) # <<>>
          BY <4>3, RunsTyped
        <4>5. A = AddChar(RunsOf(d, c), a[n], c)
          BY <4>2, <4>3, RunsGrow DEF A
        <4>6. <<>> \in X /\ \A l \in X : Append(l, a[n]) \in X
          BY <4>2, EmptySeq, AppendProperties
        <4> HIDE DEF X
        <4>7. Last(AddChar(RunsOf(d, c), a[n], c)) = <<>>
          BY <3>2, <4>4, <4>6, CharAdded DEF n
        <4>8. QED  BY <4>5, <4>7
      <3>3. QED  BY <1>6, <3>1, <3>2
    <2>2. RunsOf(a \o b, c) = Front(A) \o B
      BY <2>1, RunsJoin DEF A, B
    <2> HIDE DEF X
    <2>3. Front(A) \in Seq(X)
      BY <1>1, FrontLast
    <2>4. Last(Front(A) \o B) = Last(B) /\ Front(Front(A) \o B) = Front(A) \o Front(B)
      <3> DEFINE f == Front(A)
      <3> HIDE DEF f
      <3>1. f \in Seq(X)
        BY <2>3 DEF f
      <3>2. Last(f \o B) = Last(B)
        BY <1>1, <3>1, LastOfConcat
      <3>3. Front(f \o B) = f \o Front(B)
        BY <1>1, <3>1, FrontOfConcat
      <3>4. QED  BY <3>2, <3>3 DEF f
    <2>5. RunsWithout(a \o b, c) = RunsWithout(a, c) \o RunsWithout(b, c)
      BY <1>2, <2>1, <2>2, <2>4
    <2>6. QED  BY <1>3, <1>4, <2>5 DEF X
  <1>7. QED  BY <1>5, <1>6, Zenon

(* The lines of the input up to a cut, and the part behind it. *)
LEMMA LinesOfPart ==
  ASSUME NEW C, NEW d \in Seq(C), NEW k \in 0..count - 1
  PROVE  /\ Lines(SubSeq(d, 1, Cut(d, k + 1))) = Lines(SubSeq(d, 1, Cut(d, k))) \o Lines(write_portion(d, k))
         /\ Lines(SubSeq(d, 1, Cut(d, k))) \in Seq(Seq(C)) /\ Lines(write_portion(d, k)) \in Seq(Seq(C))
         /\ Lines(<<>>) = <<>>
  <1>1. Len(d) \in Nat /\ count \in Nat \ {0}
    BY LenProperties, MapReduceAssumption
  <1>2. ASSUME NEW j \in 0..count  PROVE  Cut(d, j) \in 0..Len(d)
    <2>1. CASE j = 0 \/ j = count
      BY <1>1, <2>1 DEF Cut
    <2>2. CASE j # 0 /\ j # count
      <3>1. Cut(d, j) = nextLine(d, (Len(d) * j) \div count)
        BY <2>2 DEF Cut
      <3>2. Len(d) * j \in Nat
        BY <1>1
      <3>3. (Len(d) * j) \div count \in Nat
        BY <1>1, <3>2, DivisionGrows
      <3>4. QED  BY <1>1, <3>1, <3>3, NextLineIs
    <2>3. QED  BY <2>1, <2>2
  <1> DEFINE p == Cut(d, k)
             q == Cut(d, k + 1)
             a == SubSeq(d, 1, p)
             b == SubSeq(d, p + 1, q)
  <1>3. k \in 0..count /\ k + 1 \in 0..count
    BY <1>1
  <1>4. p \in 0..Len(d) /\ q \in 0..Len(d)
    BY <1>2, <1>3
  <1>5. write_portion(d, k) = b /\ p <= q
    BY PortionsTile
  <1>6. p = 0 \/ p = Len(d) \/ d[p] = NL
    <2>1. CASE k = 0
      BY <2>1, PortionsTile
    <2>2. CASE k # 0
      <3>1. k \in 1..count - 1
        BY <2>2
      <3>2. QED  BY <3>1, PortionsTile
    <2>3. QED  BY <2>1, <2>2
  <1> HIDE DEF p, q
  <1>7. a \in Seq(C) /\ b \in Seq(C)
    <2>1. \A i \in p + 1..q : i \in 1..Len(d)
      BY <1>1, <1>4
    <2>2. \A i \in p + 1..q : d[i] \in C
      BY <2>1, ElementOfSeq
    <2>3. p + 1 \in Int /\ q \in Int
      BY <1>1, <1>4
    <2>4. b \in Seq(C)
      BY <2>2, <2>3, SubSeqProperties
    <2>5. a \in Seq(C)
      BY <1>4, PrefixGrows
    <2>6. QED  BY <2>4, <2>5
  <1>8. a \o b = SubSeq(d, 1, q)
    <2>1. 1 \in 1..Len(d) + 1 /\ p \in 1 - 1..Len(d) /\ q \in p..Len(d)
      BY <1>1, <1>4, <1>5
    <2>2. QED  BY <2>1, ConcatAdjacentSubSeq
  <1>9. a = <<>> \/ b = <<>> \/ a[Len(a)] = NL
    <2>1. CASE p = 0
      BY <2>1, PrefixGrows
    <2>2. CASE p = Len(d)
      <3>1. p + 1 \in Int /\ q \in Int /\ q < p + 1
        BY <1>1, <1>4, <2>2
      <3>2. QED  BY <3>1, SubSeqEmpty
    <2>3. CASE p # 0 /\ d[p] = NL
      <3>1. \A i \in 1..p : i \in 1..Len(d)
        BY <1>1, <1>4
      <3>2. \A i \in 1..p : d[i] \in C
        BY <3>1, ElementOfSeq
      <3>3. 1 \in Int /\ p \in Int /\ p \in 1..p - 1 + 1 /\ 1 + p - 1 = p /\ 1 <= p /\ p - 1 + 1 = p
        BY <1>1, <1>4, <2>3
      <3>4. Len(a) = p /\ a[p] = d[p]
        BY <3>2, <3>3, SubSeqProperties
      <3>5. QED  BY <2>3, <3>4
    <2>4. QED  BY <1>6, <2>1, <2>2, <2>3
  <1> HIDE DEF a, b
  <1>10. /\ RunsWithout(a \o b, NL) = RunsWithout(a, NL) \o RunsWithout(b, NL)
         /\ RunsWithout(a, NL) \in Seq(Seq(C)) /\ RunsWithout(<<>>, NL) = <<>>
    BY <1>7, <1>9, RunsOfParts, SMTT(60)
  <1>11. RunsWithout(b, NL) \in Seq(Seq(C))
    <2>1. <<>> \in Seq(C)
      BY EmptySeq
    <2>2. QED  BY <1>7, <2>1, RunsOfParts
  <1>12. QED  BY <1>5, <1>8, <1>10, <1>11 DEF Lines, a, p, q

(* How many of a sequence's elements are key. *)
Cnt(s, key) == Cardinality({k \in DOMAIN s : s[k] = key})

LEMMA CountJoin ==
  ASSUME NEW K, NEW s \in Seq(K), NEW t \in Seq(K), NEW key
  PROVE  Cnt(s \o t, key) = Cnt(s, key) + Cnt(t, key) /\ Cnt(s, key) \in Nat
  <1>1. /\ Len(s) \in Nat /\ Len(t) \in Nat
        /\ DOMAIN s = 1..Len(s) /\ DOMAIN t = 1..Len(t) /\ DOMAIN (s \o t) = 1..Len(s) + Len(t)
        /\ \A i \in 1..Len(s) + Len(t) : (s \o t)[i] = IF i <= Len(s) THEN s[i] ELSE t[i - Len(s)]
    BY LenProperties, ConcatProperties
  <1> DEFINE n == Len(s)
             m == Len(t)
             u == s \o t
             A == {k \in 1..n : s[k] = key}
             B == {k \in 1..m : t[k] = key}
             D == {k \in n + 1..n + m : u[k] = key}
             f == [k \in B |-> k + n]
  <1>2. n \in Nat /\ m \in Nat /\ \A i \in 1..n + m : u[i] = IF i <= n THEN s[i] ELSE t[i - n]
    BY <1>1
  <1>3. Cnt(s, key) = Cardinality(A) /\ Cnt(t, key) = Cardinality(B)
        /\ Cnt(s \o t, key) = Cardinality({k \in 1..n + m : u[k] = key})
    BY <1>1, Zenon DEF Cnt
  <1> HIDE DEF n, m, u
  <1>4. {k \in 1..n + m : u[k] = key} = A \union D /\ A \intersect D = {}
    <2>1. \A k : k \in 1..n + m <=> k \in 1..n \/ k \in n + 1..n + m
      BY <1>2
    <2>2. \A k \in 1..n : k \in 1..n + m /\ u[k] = s[k] /\ k \notin n + 1..n + m
      BY <1>2
    <2>3. QED  BY <2>1, <2>2
  <1>5. IsFiniteSet(A) /\ IsFiniteSet(B) /\ IsFiniteSet(D)
    <2>1. IsFiniteSet(1..n) /\ IsFiniteSet(1..m) /\ IsFiniteSet(n + 1..n + m)
      <3>1. 1 \in Int /\ n \in Int /\ m \in Int /\ n + 1 \in Int /\ n + m \in Int
        BY <1>2
      <3>2. QED  BY <3>1, FS_Interval
    <2>2. A \subseteq 1..n /\ B \subseteq 1..m /\ D \subseteq n + 1..n + m
      OBVIOUS
    <2> HIDE DEF A, B, D
    <2>3. QED  BY <2>1, <2>2, FS_Subset
  <1>6. f \in Bijection(B, D)
    <2>1. \A k \in 1..m : k + n \in n + 1..n + m /\ k + n \in 1..n + m /\ u[k + n] = t[k]
      BY <1>2
    <2>2. f \in [B -> D]
      BY <2>1
    <2>3. \A k, l \in B : f[k] = f[l] => k = l
      BY <1>2
    <2>4. \A x \in D : \E k \in B : f[k] = x
      <3> SUFFICES ASSUME NEW x \in D  PROVE  \E k \in B : f[k] = x
        OBVIOUS
      <3>1. x - n \in 1..m /\ (x - n) + n = x
        BY <1>2
      <3>2. t[x - n] = key
        BY <2>1, <3>1
      <3>3. QED  BY <3>1, <3>2
    <2> HIDE DEF f, B, D
    <2>5. QED  BY <2>2, <2>3, <2>4 DEF Bijection, Injection, Surjection, IsInjective
  <1> HIDE DEF A, B, D, f
  <1>7. Cardinality(B) = Cardinality(D)
    BY <1>5, <1>6, FS_Bijection DEF ExistsBijection
  <1>8. Cardinality(A \union D) = Cardinality(A) + Cardinality(D)
    <2>1. Cardinality(A \union D) = Cardinality(A) + Cardinality(D) - Cardinality(A \intersect D)
      BY <1>5, FS_Union
    <2>2. Cardinality(A \intersect D) = 0
      BY <1>4, FS_EmptySet
    <2>3. Cardinality(A) \in Nat /\ Cardinality(D) \in Nat
      BY <1>5, FS_CardinalityType
    <2>4. QED  BY <2>1, <2>2, <2>3
  <1>9. QED  BY <1>3, <1>4, <1>5, <1>7, <1>8, FS_CardinalityType

LEMMA CountOfOne ==
  ASSUME NEW x, NEW key
  PROVE  Cnt(<<>>, key) = 0 /\ Cnt(<<x>>, key) = IF x = key THEN 1 ELSE 0
  <1>1. {k \in DOMAIN <<>> : <<>>[k] = key} = {}
    OBVIOUS
  <1>2. DOMAIN <<x>> = {1} /\ <<x>>[1] = x
    OBVIOUS
  <1>3. {k \in DOMAIN <<x>> : <<x>>[k] = key} = IF x = key THEN {1} ELSE {}
    BY <1>2
  <1>4. Cardinality({}) = 0 /\ Cardinality({1}) = 1
    BY FS_EmptySet, FS_Singleton
  <1>5. QED  BY <1>1, <1>3, <1>4 DEF Cnt

(* FlattenSeq's recursive function. *)
OneFlat(h, s, n) == [i \in 1..n |-> IF i = 1 THEN s[i] ELSE h[i - 1] \o s[i]]

LEMMA FlatExists ==
  ASSUME NEW n \in Nat, NEW s
  PROVE  \E h : h = OneFlat(h, s, n)
  <1> DEFINE Bad == {k \in Nat : ~\E h : h = OneFlat(h, s, k)}
  <1> SUFFICES ASSUME Bad # {}  PROVE  FALSE
    OBVIOUS
  <1>1. PICK k \in Bad : \A j \in Bad : k <= j
    <2>1. Bad \in SUBSET Nat
      OBVIOUS
    <2> HIDE DEF Bad
    <2>2. QED  BY <2>1, LeastPlace
  <1>2. k \in Nat /\ ~\E h : h = OneFlat(h, s, k)
    BY <1>1
  <1>3. CASE k = 0
    <2> DEFINE g == [i \in 1..0 |-> 0]
    <2>1. \A i : i \notin 1..0
      OBVIOUS
    <2>2. OneFlat(g, s, 0) = g
      BY <2>1 DEF OneFlat
    <2>3. QED  BY <1>2, <1>3, <2>2
  <1>4. CASE k # 0
    <2>1. k - 1 \in Nat /\ ~(k <= k - 1)
      BY <1>2, <1>4
    <2>2. k - 1 \notin Bad
      BY <1>1, <2>1
    <2>3. PICK h : h = OneFlat(h, s, k - 1)
      BY <2>1, <2>2
    <2> DEFINE top == IF k = 1 THEN s[1] ELSE h[k - 1] \o s[k]
               g == [i \in 1..k |-> IF i = k THEN top ELSE h[i]]
    <2>4. \A i \in 1..k : i # k => i \in 1..k - 1 /\ (i # 1 => i - 1 \in 1..k /\ i - 1 # k)
      BY <1>2, <2>1
    <2>5. k # 1 => k - 1 \in 1..k /\ k - 1 # k
      BY <1>2, <1>4
    <2>6. \A i \in 1..k - 1 : h[i] = IF i = 1 THEN s[i] ELSE h[i - 1] \o s[i]
      BY <2>3, Zenon DEF OneFlat
    <2>7. ASSUME NEW i \in 1..k  PROVE  g[i] = IF i = 1 THEN s[i] ELSE g[i - 1] \o s[i]
      <3>1. CASE i = k /\ i = 1
        BY <3>1
      <3>2. CASE i = k /\ i # 1
        <4>1. g[k - 1] = h[k - 1]
          BY <2>5, <3>2
        <4>2. g[k] = h[k - 1] \o s[k]
          BY <3>2
        <4> HIDE DEF g
        <4>3. QED  BY <3>2, <4>1, <4>2
      <3>3. CASE i # k
        <4>1. g[i] = h[i] /\ (i # 1 => g[i - 1] = h[i - 1])
          BY <2>4, <3>3
        <4> HIDE DEF g
        <4>2. QED  BY <2>4, <2>6, <3>3, <4>1
      <3>4. QED  BY <3>1, <3>2, <3>3
    <2>8. g = OneFlat(g, s, k)
      <3>1. g = [i \in 1..k |-> g[i]]
        OBVIOUS
      <3> HIDE DEF g
      <3>2. QED  BY <2>7, <3>1 DEF OneFlat
    <2>9. QED  BY <1>2, <2>8
  <1>5. QED  BY <1>3, <1>4

LEMMA FlatGrows ==
  ASSUME NEW X, NEW s \in Seq(X), NEW x \in X, x = <<>> \o x
  PROVE  FlattenSeq(Append(s, x)) = FlattenSeq(s) \o x
  <1> DEFINE n == Len(s)
             t == Append(s, x)
             f == CHOOSE h : h = OneFlat(h, s, n)
             g == CHOOSE h : h = OneFlat(h, t, n + 1)
  <1>1. n \in Nat /\ Len(t) = n + 1 /\ (\A i \in 1..n : t[i] = s[i]) /\ t[n + 1] = x
        /\ (n = 0 => s = <<>>)
    BY LenProperties, AppendProperties, EmptySeq
  <1>2. n # 0 => FlattenSeq(s) = f[n]
    BY DEF FlattenSeq, OneFlat
  <1>3. FlattenSeq(t) = g[n + 1]
    <2>1. Len(t) # 0
      BY <1>1
    <2>2. FlattenSeq(t) = (CHOOSE h : h = OneFlat(h, t, Len(t)))[Len(t)]
      BY <2>1 DEF FlattenSeq, OneFlat
    <2>3. QED  BY <1>1, <2>2
  <1>4. n = 0 => FlattenSeq(s) = <<>>
    BY <1>1, EmptySeq DEF FlattenSeq
  <1>5. f = OneFlat(f, s, n) /\ g = OneFlat(g, t, n + 1)
    <2> HIDE DEF n, t
    <2>1. \E h : h = OneFlat(h, s, n)
      BY <1>1, FlatExists
    <2>2. \E h : h = OneFlat(h, t, n + 1)
      <3>1. n + 1 \in Nat
        BY <1>1
      <3>2. QED  BY <3>1, FlatExists
    <2>3. QED  BY <2>1, <2>2, Zenon
  <1> HIDE DEF f, g, t, n
  <1>6. /\ \A i \in 1..n : f[i] = IF i = 1 THEN s[i] ELSE f[i - 1] \o s[i]
        /\ \A i \in 1..n + 1 : g[i] = IF i = 1 THEN t[i] ELSE g[i - 1] \o t[i]
    BY <1>5, Zenon DEF OneFlat
  <1>7. \A i \in 1..n : g[i] = f[i]
    <2> DEFINE Bad == {i \in 1..n : g[i] # f[i]}
    <2> SUFFICES ASSUME Bad # {}  PROVE  FALSE
      OBVIOUS
    <2>1. PICK i \in Bad : \A j \in Bad : i <= j
      <3>1. Bad \in SUBSET Nat
        OBVIOUS
      <3> HIDE DEF Bad
      <3>2. QED  BY <3>1, LeastPlace
    <2>2. i \in 1..n /\ i \in 1..n + 1 /\ g[i] # f[i] /\ t[i] = s[i]
      BY <1>1, <2>1
    <2>3. CASE i = 1
      BY <1>6, <2>2, <2>3
    <2>4. CASE i # 1
      <3>1. i - 1 \in 1..n /\ ~(i <= i - 1)
        BY <1>1, <2>2, <2>4
      <3>2. g[i - 1] = f[i - 1]
        BY <2>1, <3>1
      <3> HIDE DEF Bad
      <3>3. g[i] = g[i - 1] \o t[i] /\ f[i] = f[i - 1] \o s[i]
        BY <1>6, <2>2, <2>4
      <3>4. QED  BY <2>2, <3>2, <3>3
    <2>5. QED  BY <2>3, <2>4
  <1>8. CASE n = 0
    <2>1. g[n + 1] = x
      BY <1>1, <1>6, <1>8
    <2>2. QED  BY <1>3, <1>4, <1>8, <2>1 DEF t
  <1>9. CASE n # 0
    <2>1. n \in 1..n /\ n + 1 \in 1..n + 1 /\ n + 1 # 1 /\ (n + 1) - 1 = n
      BY <1>1, <1>9
    <2>2. g[n + 1] = g[n] \o x /\ g[n] = f[n]
      BY <1>1, <1>6, <1>7, <2>1
    <2>3. QED  BY <1>2, <1>3, <1>9, <2>2 DEF t
  <1>10. QED  BY <1>8, <1>9

LEMMA FlatOfNone == FlattenSeq(<<>>) = <<>>
  <1>1. Len(<<>>) = 0
    OBVIOUS
  <1>2. QED  BY <1>1 DEF FlattenSeq

LEMMA FlatTyped ==
  ASSUME NEW K, NEW X, X \subseteq Seq(K), NEW s \in Seq(X)
  PROVE  FlattenSeq(s) \in Seq(K)
  <1> DEFINE P(k) == SubSeq(s, 1, k)
             Bad == {k \in 0..Len(s) : FlattenSeq(P(k)) \notin Seq(K)}
  <1>1. Len(s) \in Nat /\ P(0) = <<>> /\ P(Len(s)) = s
    BY PrefixGrows
  <1>2. Bad = {}
    <2> SUFFICES ASSUME Bad # {}  PROVE  FALSE
      OBVIOUS
    <2>1. PICK k \in Bad : \A j \in Bad : k <= j
      <3>1. Bad \in SUBSET Nat
        OBVIOUS
      <3> HIDE DEF Bad
      <3>2. QED  BY <3>1, LeastPlace
    <2>2. CASE k = 0
      BY <1>1, <2>1, <2>2, FlatOfNone, EmptySeq
    <2>3. CASE k # 0
      <3>1. k - 1 \in 0..Len(s) /\ k \in 1..Len(s) /\ ~(k <= k - 1)
        BY <1>1, <2>1, <2>3
      <3>2. FlattenSeq(P(k - 1)) \in Seq(K)
        BY <2>1, <3>1
      <3>3. P(k - 1) \in Seq(X) /\ s[k] \in X /\ P(k) = Append(P(k - 1), s[k])
        BY <3>1, PrefixGrows
      <3>4. s[k] \in Seq(K) /\ s[k] = <<>> \o s[k]
        BY <3>3, ConcatEmptySeq
      <3>5. FlattenSeq(P(k)) = FlattenSeq(P(k - 1)) \o s[k]
        <4> HIDE DEF P
        <4>1. QED  BY <3>3, <3>4, FlatGrows
      <3>6. FlattenSeq(P(k)) \in Seq(K)
        <4> HIDE DEF P
        <4>1. QED  BY <3>2, <3>4, <3>5, ConcatProperties
      <3>7. QED  BY <2>1, <3>6
    <2>4. QED  BY <2>2, <2>3
  <1>3. FlattenSeq(P(Len(s))) \in Seq(K)
    <2>1. Len(s) \in 0..Len(s)
      BY <1>1
    <2>2. QED  BY <1>2, <2>1, Zenon
  <1>4. QED  BY <1>1, <1>3, Zenon

LEMMA FlatJoin ==
  ASSUME NEW K, NEW X, X \subseteq Seq(K), NEW a \in Seq(X), NEW b \in Seq(X)
  PROVE  FlattenSeq(a \o b) = FlattenSeq(a) \o FlattenSeq(b)
  <1> DEFINE P(k) == SubSeq(b, 1, k)
             Bad == {k \in 0..Len(b) : FlattenSeq(a \o P(k)) # FlattenSeq(a) \o FlattenSeq(P(k))}
  <1>1. Len(b) \in Nat /\ P(0) = <<>> /\ P(Len(b)) = b
    BY PrefixGrows
  <1>2. FlattenSeq(a) \in Seq(K)
    BY FlatTyped
  <1>3. Bad = {}
    <2> SUFFICES ASSUME Bad # {}  PROVE  FALSE
      OBVIOUS
    <2>1. PICK k \in Bad : \A j \in Bad : k <= j
      <3>1. Bad \in SUBSET Nat
        OBVIOUS
      <3> HIDE DEF Bad
      <3>2. QED  BY <3>1, LeastPlace
    <2>2. CASE k = 0
      <3>1. FlattenSeq(a) \o <<>> = FlattenSeq(a) /\ a \o <<>> = a
        BY <1>2, ConcatEmptySeq
      <3>2. P(k) = <<>> /\ FlattenSeq(P(k)) = <<>>
        BY <1>1, <2>2, FlatOfNone
      <3>3. QED  BY <2>1, <3>1, <3>2
    <2>3. CASE k # 0
      <3>1. k - 1 \in 0..Len(b) /\ k \in 1..Len(b) /\ ~(k <= k - 1)
        BY <1>1, <2>1, <2>3
      <3> DEFINE q == P(k - 1)
                 x == b[k]
      <3>2. FlattenSeq(a \o q) = FlattenSeq(a) \o FlattenSeq(q)
        BY <2>1, <3>1
      <3>3. q \in Seq(X) /\ x \in X /\ P(k) = Append(q, x)
        BY <3>1, PrefixGrows, SMTT(60)
      <3> HIDE DEF q, x, Bad
      <3>4. x \in Seq(K) /\ x = <<>> \o x
        BY <3>3, ConcatEmptySeq
      <3>5. FlattenSeq(Append(q, x)) = FlattenSeq(q) \o x
        BY <3>3, <3>4, FlatGrows
      <3>6. a \o Append(q, x) = Append(a \o q, x) /\ a \o q \in Seq(X)
        BY <3>3, AppendToConcat, ConcatProperties, SMTT(60)
      <3>7. FlattenSeq(Append(a \o q, x)) = FlattenSeq(a \o q) \o x
        <4> DEFINE y == a \o q
        <4>1. y \in Seq(X)
          BY <3>6
        <4> HIDE DEF y
        <4>2. FlattenSeq(Append(y, x)) = FlattenSeq(y) \o x
          BY <3>3, <3>4, <4>1, FlatGrows
        <4>3. QED  BY <4>2 DEF y
      <3>8. (FlattenSeq(a) \o FlattenSeq(q)) \o x = FlattenSeq(a) \o (FlattenSeq(q) \o x)
        <4>1. FlattenSeq(q) \in Seq(K)
          BY <3>3, FlatTyped
        <4>2. QED  BY <1>2, <3>4, <4>1, ConcatAssociative, SMTT(60)
      <3>9. FlattenSeq(a \o P(k)) = FlattenSeq(a) \o FlattenSeq(P(k))
        BY <3>2, <3>3, <3>5, <3>6, <3>7, <3>8
      <3>10. QED  BY <2>1, <3>9 DEF Bad
    <2>4. QED  BY <2>2, <2>3
  <1>4. FlattenSeq(a \o P(Len(b))) = FlattenSeq(a) \o FlattenSeq(P(Len(b)))
    <2>1. Len(b) \in 0..Len(b)
      BY <1>1
    <2>2. QED  BY <1>3, <2>1, Zenon
  <1>5. QED  BY <1>1, <1>4, Zenon

LEMMA FlatJoined ==
  ASSUME NEW K, NEW a \in Seq(Seq(K)), NEW b \in Seq(Seq(K))
  PROVE  FlattenSeq(a \o b) = FlattenSeq(a) \o FlattenSeq(b)
  BY FlatJoin

-----------------------------------------------------------------------------
(* The pairs mapper m makes of a line and of lines, and how many of them   *)
(* have a key.                                                             *)
Pairs(m, line) ==
    CASE m = "wordcount"   -> wordcount(line)
      [] m = "wordlengths" -> wordlengths(line)
      [] m = "lettercount" -> lettercount(line)
      [] m = "asciicount"  -> asciicount(line)

PairsOf(m, s) == [k \in DOMAIN s |-> Pairs(m, s[k])]
AllPairs(m, s) == FlattenSeq(PairsOf(m, s))
Tally(m, s, key) == Cnt(AllPairs(m, s), key)

(* L: lines, K: what they are mapped to. *)
MapsTo(m, L, K) == \A l \in L : Pairs(m, l) \in Seq(K)

LEMMA PairsOfLines ==
  ASSUME NEW m, NEW L, NEW K, MapsTo(m, L, K), NEW s \in Seq(L)
  PROVE  PairsOf(m, s) \in Seq(Seq(K)) /\ Len(PairsOf(m, s)) = Len(s)
         /\ \A k \in 1..Len(s) : PairsOf(m, s)[k] = Pairs(m, s[k])
  <1>1. Len(s) \in Nat /\ DOMAIN s = 1..Len(s) /\ \A k \in 1..Len(s) : s[k] \in L
    BY LenProperties, ElementOfSeq
  <1> DEFINE n == Len(s)
             p == PairsOf(m, s)
  <1>2. p = [k \in 1..n |-> Pairs(m, s[k])]
    BY <1>1 DEF PairsOf
  <1>3. \A k \in 1..n : Pairs(m, s[k]) \in Seq(K)
    BY <1>1 DEF MapsTo
  <1> HIDE DEF p
  <1>4. p \in [1..n -> Seq(K)]
    BY <1>2, <1>3
  <1>5. p \in Seq(Seq(K)) /\ Len(p) = n
    <2> DEFINE X == Seq(K)
    <2>1. p \in [1..n -> X] /\ n \in Nat
      BY <1>1, <1>4
    <2> HIDE DEF X, n
    <2>2. p \in Seq(X) /\ Len(p) = n
      BY <2>1
    <2>3. QED  BY <2>2 DEF X
  <1>6. QED  BY <1>2, <1>5 DEF p

LEMMA TallyJoin ==
  ASSUME NEW m, NEW L, NEW K, MapsTo(m, L, K), NEW s \in Seq(L), NEW t \in Seq(L), NEW key
  PROVE  Tally(m, s \o t, key) = Tally(m, s, key) + Tally(m, t, key) /\ Tally(m, s, key) \in Nat
  <1> DEFINE X == Seq(K)
             p == PairsOf(m, s)
             q == PairsOf(m, t)
             u == s \o t
             r == PairsOf(m, u)
  <1>1. /\ u \in Seq(L) /\ Len(u) = Len(s) + Len(t)
        /\ \A i \in 1..Len(s) + Len(t) : u[i] = IF i <= Len(s) THEN s[i] ELSE t[i - Len(s)]
    BY ConcatProperties
  <1>2. Len(s) \in Nat /\ Len(t) \in Nat
    BY LenProperties
  <1> HIDE DEF u
  <1>3. /\ p \in Seq(X) /\ Len(p) = Len(s) /\ \A k \in 1..Len(s) : p[k] = Pairs(m, s[k])
        /\ q \in Seq(X) /\ Len(q) = Len(t) /\ \A k \in 1..Len(t) : q[k] = Pairs(m, t[k])
        /\ r \in Seq(X) /\ Len(r) = Len(u) /\ \A k \in 1..Len(u) : r[k] = Pairs(m, u[k])
    BY <1>1, PairsOfLines
  <1>4. X \subseteq Seq(K)
    OBVIOUS
  <1>5. AllPairs(m, s) = FlattenSeq(p) /\ AllPairs(m, t) = FlattenSeq(q) /\ AllPairs(m, u) = FlattenSeq(r)
    BY DEF AllPairs
  <1> HIDE DEF X, p, q, r
  <1>6. r = p \o q
    <2>1. /\ p \o q \in Seq(X) /\ Len(p \o q) = Len(p) + Len(q)
          /\ \A i \in 1..Len(p) + Len(q) : (p \o q)[i] = IF i <= Len(p) THEN p[i] ELSE q[i - Len(p)]
      <3>1. p \in Seq(X) /\ q \in Seq(X)
        BY <1>3
      <3>2. QED  BY <3>1, ConcatProperties
    <2> DEFINE v == p \o q
    <2> HIDE DEF v
    <2>2. ASSUME NEW i \in 1..Len(r)  PROVE  r[i] = v[i]
      <3>1. i \in 1..Len(u) /\ i \in 1..Len(p) + Len(q) /\ i \in 1..Len(s) + Len(t)
        BY <1>1, <1>2, <1>3
      <3>2. CASE i <= Len(s)
        <4>1. i \in 1..Len(s)
          BY <1>2, <3>1, <3>2
        <4>2. r[i] = Pairs(m, s[i]) /\ v[i] = p[i]
          BY <1>1, <1>3, <2>1, <3>1, <3>2 DEF v
        <4>3. QED  BY <1>3, <4>1, <4>2
      <3>3. CASE ~(i <= Len(s))
        <4>1. i - Len(s) \in 1..Len(t)
          BY <1>2, <3>1, <3>3
        <4>2. r[i] = Pairs(m, t[i - Len(s)]) /\ v[i] = q[i - Len(s)]
          BY <1>1, <1>3, <2>1, <3>1, <3>3 DEF v
        <4>3. QED  BY <1>3, <4>1, <4>2
      <3>4. QED  BY <3>2, <3>3
    <2>3. v \in Seq(X) /\ Len(v) = Len(r)
      BY <1>1, <1>2, <1>3, <2>1 DEF v
    <2>4. r = v
      BY <1>3, <2>2, <2>3, SeqEqual
    <2>5. QED  BY <2>4 DEF v
  <1>7. FlattenSeq(r) = FlattenSeq(p) \o FlattenSeq(q)
    <2>1. p \in Seq(Seq(K)) /\ q \in Seq(Seq(K))
      BY <1>3 DEF X
    <2>2. FlattenSeq(p \o q) = FlattenSeq(p) \o FlattenSeq(q)
      BY <2>1, FlatJoined
    <2>3. QED  BY <1>6, <2>2
  <1>8. FlattenSeq(p) \in Seq(K) /\ FlattenSeq(q) \in Seq(K)
    BY <1>3, <1>4, FlatTyped
  <1>9. QED  BY <1>5, <1>7, <1>8, CountJoin DEF Tally, u

LEMMA TallyOfOne ==
  ASSUME NEW m, NEW L, NEW K, MapsTo(m, L, K), NEW l \in L, NEW key
  PROVE  Tally(m, <<l>>, key) = Cnt(Pairs(m, l), key) /\ Tally(m, <<>>, key) = 0
  <1>1. PairsOf(m, <<>>) = <<>>
    BY DEF PairsOf
  <1>2. PairsOf(m, <<l>>) = <<Pairs(m, l)>>
    BY DEF PairsOf
  <1>3. Pairs(m, l) \in Seq(K)
    BY DEF MapsTo
  <1> DEFINE X == Seq(K)
             x == Pairs(m, l)
  <1>4. <<>> \in Seq(X) /\ x \in X
    BY <1>3
  <1>5. x = <<>> \o x
    BY <1>3, ConcatEmptySeq
  <1> HIDE DEF X, x
  <1>6. FlattenSeq(Append(<<>>, x)) = FlattenSeq(<<>>) \o x
    BY <1>4, <1>5, FlatGrows
  <1>7. Append(<<>>, x) = <<x>>
    OBVIOUS
  <1>8. FlattenSeq(<<x>>) = x
    BY <1>5, <1>6, <1>7, FlatOfNone
  <1>9. QED  BY <1>1, <1>2, <1>8, FlatOfNone, CountOfOne DEF Tally, AllPairs, x

-----------------------------------------------------------------------------
MapperNames == {"wordcount", "wordlengths", "lettercount", "asciicount"}

KeySet(m, C) == UNION {Range(Pairs(m, l)) : l \in Seq(C)}

LEMMA PairsAreList ==
  ASSUME NEW C, NEW l \in Seq(C), NEW m \in MapperNames
  PROVE  \E n \in Nat : Pairs(m, l) = [k \in 1..n |-> Pairs(m, l)[k]]
  <1>1. Len(Words(l)) \in Nat /\ DOMAIN Words(l) = 1..Len(Words(l))
    <2>1. <<>> \in Seq(C)
      BY EmptySeq
    <2>2. RunsWithout(l, " ") \in Seq(Seq(C))
      BY <2>1, RunsOfParts
    <2> DEFINE X == Seq(C)
    <2> HIDE DEF X
    <2>3. RunsWithout(l, " ") \in Seq(X)
      BY <2>2 DEF X
    <2>4. QED  BY <2>3, LenProperties DEF Words
  <1>2. Cardinality({i \in DOMAIN l : l[i] \in Letters}) \in Nat
    <2>1. Len(l) \in Nat /\ DOMAIN l = 1..Len(l)
      BY LenProperties
    <2>2. IsFiniteSet(1..Len(l)) /\ {i \in 1..Len(l) : l[i] \in Letters} \subseteq 1..Len(l)
      BY <2>1, FS_Interval
    <2>3. QED  BY <2>1, <2>2, FS_Subset, FS_CardinalityType
  <1>3. PICK c \in Nat : c = Cardinality({i \in DOMAIN l : l[i] \in Letters})
    BY <1>2
  <1>4. DOMAIN LettersOf(l) = 1..c
    BY <1>3 DEF LettersOf
  <1>5. CASE m = "wordcount"
    <2>1. Pairs(m, l) = [k \in 1..Len(Words(l)) |-> replace_chars(Words(l)[k])]
      BY <1>1, <1>5 DEF Pairs, wordcount
    <2>2. QED  BY <1>1, <2>1
  <1>6. CASE m = "wordlengths"
    <2>1. Pairs(m, l) = [k \in 1..Len(Words(l)) |-> <<Len(Words(l)[k])>>]
      BY <1>1, <1>6 DEF Pairs, wordlengths
    <2>2. QED  BY <1>1, <2>1
  <1>7. CASE m = "lettercount"
    <2>1. Pairs(m, l) = [k \in 1..c |-> <<"letters">>]
      BY <1>4, <1>7 DEF Pairs, lettercount
    <2>2. QED  BY <2>1
  <1>8. CASE m = "asciicount"
    <2>1. Pairs(m, l) = [k \in 1..c |-> <<tolower[LettersOf(l)[k]]>>]
      BY <1>4, <1>8 DEF Pairs, asciicount
    <2>2. QED  BY <2>1
  <1>9. QED  BY <1>5, <1>6, <1>7, <1>8 DEF MapperNames

LEMMA MappersTyped ==
  ASSUME NEW C, NEW m \in MapperNames
  PROVE  MapsTo(m, Seq(C), KeySet(m, C))
  <1> SUFFICES ASSUME NEW l \in Seq(C)  PROVE  Pairs(m, l) \in Seq(KeySet(m, C))
    BY DEF MapsTo
  <1>1. PICK n \in Nat : Pairs(m, l) = [k \in 1..n |-> Pairs(m, l)[k]]
    BY PairsAreList
  <1> DEFINE p == Pairs(m, l)
             K == KeySet(m, C)
  <1>2. \A k \in DOMAIN p : p[k] \in K
    BY DEF KeySet, Range
  <1> HIDE DEF p, K
  <1>3. p = [k \in 1..n |-> p[k]]
    BY <1>1 DEF p
  <1>4. \A k \in 1..n : p[k] \in K
    BY <1>2, <1>3
  <1>5. p \in Seq(K)
    BY <1>3, <1>4
  <1>6. QED  BY <1>5 DEF p, K

(* The lines of the parts have the pairs of the lines of the input.        *)
LEMMA PartsTally ==
  ASSUME NEW C, NEW d \in Seq(C), NEW m \in MapperNames, NEW key
  PROVE  SumFunctionOnSet([i \in Parts |-> Tally(m, Lines(write_portion(d, i - 1)), key)], Parts)
            = Tally(m, Lines(d), key)
  <1> DEFINE L == Seq(C)
             K == KeySet(m, C)
             f == [i \in Parts |-> Tally(m, Lines(write_portion(d, i - 1)), key)]
             P(k) == Lines(SubSeq(d, 1, Cut(d, k)))
             T(s) == Tally(m, s, key)
             Bad == {k \in 0..count : SumFunctionOnSet(f, 1..k) # T(P(k))}
  <1>1. count \in Nat \ {0} /\ Len(d) \in Nat /\ Parts = 1..count
    BY LenProperties, MapReduceAssumption DEF Parts
  <1>2. MapsTo(m, L, K)
    BY MappersTyped
  <1>3. \A k \in 0..count - 1 : /\ P(k + 1) = P(k) \o Lines(write_portion(d, k))
                                /\ P(k) \in Seq(L) /\ Lines(write_portion(d, k)) \in Seq(L)
    BY LinesOfPart
  <1>4. P(0) = <<>> /\ P(count) = Lines(d)
    <2>1. Cut(d, 0) = 0 /\ Cut(d, count) = Len(d)
      BY PortionsTile
    <2>2. SubSeq(d, 1, 0) = <<>> /\ SubSeq(d, 1, Len(d)) = d
      BY PrefixGrows
    <2>3. 0 \in 0..count - 1
      BY <1>1
    <2>4. Lines(<<>>) = <<>>
      BY <2>3, LinesOfPart
    <2>5. QED  BY <2>1, <2>2, <2>4
  <1> HIDE DEF L, K, P
  <1>5. \A k \in 0..count - 1 : /\ T(P(k + 1)) = T(P(k)) + T(Lines(write_portion(d, k)))
                                /\ T(P(k)) \in Nat /\ T(Lines(write_portion(d, k))) \in Nat
    <2> SUFFICES ASSUME NEW k \in 0..count - 1
                 PROVE  /\ T(P(k + 1)) = T(P(k)) + T(Lines(write_portion(d, k)))
                        /\ T(P(k)) \in Nat /\ T(Lines(write_portion(d, k))) \in Nat
      OBVIOUS
    <2> DEFINE x == P(k)
               y == Lines(write_portion(d, k))
    <2>1. P(k + 1) = x \o y /\ x \in Seq(L) /\ y \in Seq(L)
      BY <1>3
    <2> HIDE DEF x, y
    <2>2. Tally(m, x \o y, key) = Tally(m, x, key) + Tally(m, y, key) /\ Tally(m, x, key) \in Nat
      BY <1>2, <2>1, TallyJoin
    <2>3. Tally(m, y, key) \in Nat
      BY <1>2, <2>1, TallyJoin
    <2>4. QED  BY <2>1, <2>2, <2>3 DEF x, y
  <1>6. T(P(0)) = 0
    <2>1. <<>> \in L
      BY EmptySeq DEF L
    <2>2. QED  BY <1>2, <1>4, <2>1, TallyOfOne
  <1>7. \A k \in 0..count - 1 : f[k + 1] = T(Lines(write_portion(d, k)))
    <2> SUFFICES ASSUME NEW k \in 0..count - 1  PROVE  f[k + 1] = T(Lines(write_portion(d, k)))
      OBVIOUS
    <2>1. k + 1 \in Parts /\ (k + 1) - 1 = k
      BY <1>1
    <2>2. QED  BY <2>1
  <1> HIDE DEF f, T
  <1>8. Bad = {}
    <2> SUFFICES ASSUME Bad # {}  PROVE  FALSE
      OBVIOUS
    <2>1. PICK k \in Bad : \A j \in Bad : k <= j
      <3>1. Bad \in SUBSET Nat
        BY <1>1
      <3> HIDE DEF Bad
      <3>2. QED  BY <3>1, LeastPlace
    <2>2. k \in 0..count /\ SumFunctionOnSet(f, 1..k) # T(P(k))
      BY <2>1
    <2>3. CASE k = 0
      <3>1. 1..0 = {}
        OBVIOUS
      <3>2. QED  BY <1>6, <2>2, <2>3, <3>1, SumOfNone
    <2>4. CASE k # 0
      <3>1. PICK j \in 0..count - 1 : k = j + 1
        <4>1. k - 1 \in 0..count - 1 /\ k = (k - 1) + 1
          BY <1>1, <2>2, <2>4
        <4>2. QED  BY <4>1
      <3>2. SumFunctionOnSet(f, 1..j) = T(P(j))
        <4>1. j \in 0..count /\ ~(k <= j)
          BY <1>1, <3>1
        <4>2. QED  BY <2>1, <4>1
      <3> DEFINE I == 1..j
      <3>3. k \notin I /\ I \union {k} = 1..k
        <4>1. j \in Nat /\ k = j + 1
          BY <1>1, <3>1
        <4>2. k \notin 1..j /\ (1..j) \union {k} = 1..k
          BY <4>1
        <4>3. QED  BY <4>2
      <3>4. \A i \in I \union {k} : f[i] \in Int
        <4> SUFFICES ASSUME NEW i \in I \union {k}  PROVE  f[i] \in Int
          OBVIOUS
        <4>1. i - 1 \in 0..count - 1 /\ i = (i - 1) + 1
          BY <1>1, <3>1
        <4>2. f[i] = T(Lines(write_portion(d, i - 1)))
          BY <1>7, <4>1
        <4>3. QED  BY <1>5, <4>1, <4>2
      <3>5. SumFunctionOnSet(f, I) = T(P(j)) /\ IsFiniteSet(I)
        <4>1. \A b \in Nat : IsFiniteSet(1..b)
          BY FS_Interval
        <4>2. j \in Nat
          BY <1>1, <3>1
        <4>3. QED  BY <3>2, <4>1, <4>2
      <3> HIDE DEF I
      <3>6. SumFunctionOnSet(f, I \union {k}) = SumFunctionOnSet(f, I) + f[k]
        <4>1. IsFiniteSet(I) /\ k \notin I /\ \A i \in I \union {k} : f[i] \in Int
          BY <3>3, <3>4, <3>5
        <4>2. QED  BY <4>1, SumGrows, ZenonT(60)
      <3>7. f[k] = T(Lines(write_portion(d, j)))
        BY <1>7, <3>1
      <3>8. T(P(k)) = T(P(j)) + T(Lines(write_portion(d, j)))
        BY <1>5, <3>1
      <3>9. QED  BY <2>2, <3>3, <3>5, <3>6, <3>7, <3>8
    <2>5. QED  BY <2>3, <2>4
  <1>9. SumFunctionOnSet(f, 1..count) = T(P(count))
    <2>1. count \in 0..count
      BY <1>1
    <2>2. QED  BY <1>8, <2>1
  <1>10. QED  BY <1>1, <1>4, <1>9 DEF f, T

-----------------------------------------------------------------------------
(* Where the pairs of the input are: in the data store, in pipe 0, or      *)
(* still with part i, as pairs of its mapper or as lines that its pipe,    *)
(* its splitter or, before there is a splitter, the input has.             *)
LineSet == Seq(Range(input))
Keys    == KeySet(mapperName, Range(input))

InStore(ds, key) == IF key \in DOMAIN ds THEN ds[key] ELSE 0

HeldLines(i) == IF Started(Splitter(i)) THEN unsent[Splitter(i)]
                ELSE Lines(write_portion(input, i - 1))

PendingOf(i, key) == (Tally(mapperName, HeldLines(i), key) + Tally(mapperName, pipe[i], key))
                     + Cnt(unsent[MapperOf(i)], key)

AllCounted ==
    \A key : (InStore(datastore, key) + Cnt(pipe[0], key))
             + SumFunctionOnSet([i \in Parts |-> PendingOf(i, key)], Parts)
             = Tally(mapperName, Lines(input), key)

CountTypes ==
    /\ input \in Inputs /\ mapperName \in Mappers
    /\ \A i \in Parts : /\ unsent[Splitter(i)] \in Seq(LineSet) /\ pipe[i] \in Seq(LineSet)
                        /\ unsent[MapperOf(i)] \in Seq(Keys)
    /\ pipe[0] \in Seq(Keys)
    /\ datastore = [key \in DOMAIN datastore |-> datastore[key]]
    /\ \A key \in DOMAIN datastore : datastore[key] \in Nat \ {0}

(* What main knows of the processes it has forked and waited for. *)
WaitsHold ==
    /\ mainPc = "splitter" => \A i \in Parts : i >= mainI => ~Started(Splitter(i))
    /\ mainPc = "mapper" => \A i \in Parts : i > mainI => ~Started(Splitter(i))
    /\ mainPc \in {"wait splitter", "wait mapper"} =>
          \A i \in Parts : i < mainI => status[Splitter(i)] = "ok"
    /\ mainPc \in {"wait reducer", "done"} => \A i \in Parts : status[Splitter(i)] = "ok"
    /\ mainPc = "done" => Ended(Reducer)
    /\ status[Reducer] = "fail" => "reducer" \in broken
    /\ \A i \in Parts : status[MapperOf(i)] = "fail" => "mapper" \in broken

CountInv == PipesInv /\ CountTypes /\ WaitsHold /\ AllCounted

LEMMA KeysFit ==
  ASSUME input \in Inputs, mapperName \in Mappers
  PROVE  input \in Seq(Range(input)) /\ mapperName \in MapperNames /\ MapsTo(mapperName, LineSet, Keys)
  <1>1. input \in Seq(Range(input)) /\ mapperName \in MapperNames
    BY InputAssumption DEF MapperNames
  <1>2. QED  BY <1>1, MappersTyped DEF LineSet, Keys

LEMMA PortionTyped ==
  ASSUME input \in Inputs, mapperName \in Mappers, NEW i \in Parts
  PROVE  Lines(write_portion(input, i - 1)) \in Seq(LineSet)
  <1>1. i - 1 \in 0..count - 1
    BY MapReduceAssumption DEF Parts
  <1>2. input \in Seq(Range(input))
    BY KeysFit
  <1>3. QED  BY <1>1, <1>2, LinesOfPart DEF LineSet

LEMMA TallyIsNat ==
  ASSUME input \in Inputs, mapperName \in Mappers, NEW s \in Seq(LineSet), NEW key
  PROVE  Tally(mapperName, s, key) \in Nat
  BY KeysFit, TallyJoin

LEMMA CntIsNat == ASSUME NEW K, NEW s \in Seq(K), NEW key  PROVE  Cnt(s, key) \in Nat
  BY CountJoin

LEMMA PendingIsNat ==
  ASSUME CountTypes, NEW i \in Parts, NEW key
  PROVE  PendingOf(i, key) \in Nat
  <1>1. HeldLines(i) \in Seq(LineSet)
    BY PortionTyped DEF HeldLines, CountTypes
  <1>2. Tally(mapperName, HeldLines(i), key) \in Nat /\ Tally(mapperName, pipe[i], key) \in Nat
    BY <1>1, TallyIsNat DEF CountTypes
  <1>3. Cnt(unsent[MapperOf(i)], key) \in Nat
    BY CntIsNat DEF CountTypes
  <1>4. QED  BY <1>2, <1>3 DEF PendingOf

LEMMA FirstAndRest ==
  ASSUME NEW X, NEW s \in Seq(X), s # <<>>
  PROVE  Head(s) \in X /\ Tail(s) \in Seq(X) /\ <<Head(s)>> \in Seq(X) /\ s = <<Head(s)>> \o Tail(s)
  <1>1. Head(s) \in X /\ Tail(s) \in Seq(X) /\ <<Head(s)>> \in Seq(X)
    BY HeadTailProperties
  <1>2. s = <<Head(s)>> \o Tail(s)
    BY <1>1
  <1>3. QED  BY <1>1, <1>2

LEMMA SumMoves ==
  ASSUME NEW S, IsFiniteSet(S), NEW f, NEW g, NEW y, y \in S,
         \A x \in S : f[x] \in Int, \A x \in S : g[x] \in Int, \A x \in S \ {y} : g[x] = f[x]
  PROVE  SumFunctionOnSet(f, S) + g[y] = SumFunctionOnSet(g, S) + f[y]
  <1> DEFINE T == S \ {y}
  <1>1. IsFiniteSet(T) /\ y \notin T
    BY FS_Subset
  <1>2. T \union {y} = S
    OBVIOUS
  <1>3. (\A x \in T \union {y} : f[x] \in Int) /\ (\A x \in T \union {y} : g[x] \in Int)
        /\ (\A x \in T : f[x] = g[x] /\ f[x] \in Int) /\ f[y] \in Int /\ g[y] \in Int
    OBVIOUS
  <1> HIDE DEF T
  <1>4. SumFunctionOnSet(f, T \union {y}) = SumFunctionOnSet(f, T) + f[y] /\ SumFunctionOnSet(f, T) \in Int
    BY <1>1, <1>3, SumGrows
  <1>5. SumFunctionOnSet(g, T \union {y}) = SumFunctionOnSet(g, T) + g[y] /\ SumFunctionOnSet(g, T) \in Int
    BY <1>1, <1>3, SumGrows
  <1>6. SumFunctionOnSet(g, T) = SumFunctionOnSet(f, T)
    BY <1>1, <1>3, SumOfSame
  <1>7. SumFunctionOnSet(f, S) = SumFunctionOnSet(f, T) + f[y] /\ SumFunctionOnSet(g, S) = SumFunctionOnSet(g, T) + g[y]
    BY <1>2, <1>4, <1>5
  <1>8. QED  BY <1>3, <1>4, <1>5, <1>6, <1>7

LEMMA PartsFinite == IsFiniteSet(Parts)
  <1>1. count \in Nat
    BY MapReduceAssumption
  <1>2. QED  BY <1>1, FS_Interval DEF Parts

-----------------------------------------------------------------------------
LEMMA CountStarts == MapReduceInit => CountInv
  <1> SUFFICES ASSUME MapReduceInit  PROVE  CountInv
    OBVIOUS
  <1>1. /\ input \in Inputs /\ mapperName \in Mappers /\ mainPc = "splitter" /\ mainI = 1
        /\ status = [p \in Processes |-> IF p = Main THEN "run" ELSE "none"]
        /\ pipe = [q \in Pipes |-> <<>>] /\ unsent = [p \in Processes |-> <<>>] /\ datastore = <<>>
    BY DEF MapReduceInit
  <1>2. /\ \A p \in Processes \ {Main} : status[p] = "none"
        /\ \A p \in Processes : unsent[p] = <<>>
        /\ \A q \in Pipes : pipe[q] = <<>>
    BY <1>1, ProcessesDiffer
  <1>3. /\ pipe[0] = <<>> /\ status[Reducer] = "none"
        /\ \A i \in Parts : /\ ~Started(Splitter(i)) /\ status[MapperOf(i)] = "none" /\ pipe[i] = <<>>
                            /\ unsent[Splitter(i)] = <<>> /\ unsent[MapperOf(i)] = <<>>
    BY <1>2, ProcessesDiffer, PartsArePipes DEF Started
  <1>4. WaitsHold
    BY <1>1, <1>3 DEF WaitsHold
  <1>5. CountTypes
    <2>1. <<>> \in Seq(LineSet) /\ <<>> \in Seq(Keys)
      BY EmptySeq
    <2>2. DOMAIN datastore = {} /\ datastore = [key \in DOMAIN datastore |-> datastore[key]]
      BY <1>1
    <2>3. QED  BY <1>1, <1>3, <2>1, <2>2 DEF CountTypes
  <1>6. AllCounted
    <2> SUFFICES ASSUME NEW key
                 PROVE  (InStore(datastore, key) + Cnt(pipe[0], key))
                        + SumFunctionOnSet([i \in Parts |-> PendingOf(i, key)], Parts)
                        = Tally(mapperName, Lines(input), key)
      BY DEF AllCounted
    <2>1. InStore(datastore, key) = 0 /\ Cnt(pipe[0], key) = 0
      <3>1. key \notin DOMAIN <<>>
        OBVIOUS
      <3>2. InStore(datastore, key) = 0
        BY <1>1, <3>1 DEF InStore
      <3>3. Cnt(pipe[0], key) = 0
        BY <1>3, CountOfOne
      <3>4. QED  BY <3>2, <3>3
    <2>2. ASSUME NEW i \in Parts
          PROVE  PendingOf(i, key) = Tally(mapperName, Lines(write_portion(input, i - 1)), key)
      <3>1. HeldLines(i) = Lines(write_portion(input, i - 1))
        BY <1>3 DEF HeldLines
      <3>2. Tally(mapperName, pipe[i], key) = 0
        <4>1. Range(input) = Range(input) /\ <<>> \in LineSet
          BY EmptySeq DEF LineSet
        <4>2. Tally(mapperName, <<>>, key) = 0
          BY <1>1, <4>1, KeysFit, TallyOfOne
        <4>3. QED  BY <1>3, <4>2
      <3>3. Cnt(unsent[MapperOf(i)], key) = 0
        BY <1>3, CountOfOne
      <3>4. Tally(mapperName, Lines(write_portion(input, i - 1)), key) \in Nat
        BY <1>1, PortionTyped, TallyIsNat
      <3>5. QED  BY <3>1, <3>2, <3>3, <3>4 DEF PendingOf
    <2>3. [i \in Parts |-> PendingOf(i, key)]
             = [i \in Parts |-> Tally(mapperName, Lines(write_portion(input, i - 1)), key)]
      BY <2>2
    <2>4. SumFunctionOnSet([i \in Parts |-> PendingOf(i, key)], Parts) = Tally(mapperName, Lines(input), key)
      BY <1>1, <2>3, KeysFit, PartsTally
    <2>5. Tally(mapperName, Lines(input), key) \in Int
      <3> DEFINE f == [i \in Parts |-> PendingOf(i, key)]
      <3>1. \A i \in Parts : f[i] \in Int
        BY <1>5, PendingIsNat
      <3> HIDE DEF f
      <3>2. SumFunctionOnSet(f, Parts) \in Int
        BY <3>1, PartsFinite, SumIsInt
      <3>3. QED  BY <2>4, <3>2 DEF f
    <2>6. QED  BY <2>1, <2>4, <2>5
  <1>7. QED  BY <1>4, <1>5, <1>6, PipesStart DEF CountInv

-----------------------------------------------------------------------------
(* Steps that move nothing from one place to another.                      *)
LEMMA CountKept ==
  ASSUME AllCounted, UNCHANGED <<input, mapperName, datastore>>, pipe'[0] = pipe[0],
         \A i \in Parts : \A key : PendingOf(i, key)' = PendingOf(i, key)
  PROVE  AllCounted'
  <1> SUFFICES ASSUME NEW key
               PROVE  (InStore(datastore', key) + Cnt(pipe'[0], key))
                      + SumFunctionOnSet([i \in Parts |-> PendingOf(i, key)'], Parts)
                      = Tally(mapperName', Lines(input'), key)
    BY DEF AllCounted
  <1>1. [i \in Parts |-> PendingOf(i, key)'] = [i \in Parts |-> PendingOf(i, key)]
    OBVIOUS
  <1>2. (InStore(datastore, key) + Cnt(pipe[0], key))
        + SumFunctionOnSet([i \in Parts |-> PendingOf(i, key)], Parts)
        = Tally(mapperName, Lines(input), key)
    BY DEF AllCounted
  <1>3. QED  BY <1>1, <1>2

LEMMA PlacesKept ==
  ASSUME UNCHANGED <<input, mapperName, pipe, unsent>>,
         \A i \in Parts : Started(Splitter(i))' <=> Started(Splitter(i))
  PROVE  \A i \in Parts : \A key : PendingOf(i, key)' = PendingOf(i, key)
  BY DEF PendingOf, HeldLines

LEMMA TypesKept ==
  ASSUME CountTypes, UNCHANGED <<input, mapperName, pipe, unsent, datastore>>
  PROVE  CountTypes'
  BY DEF CountTypes, LineSet, Keys

LEMMA SplitterForkCounts == ASSUME CountInv, ForkSplitter  PROVE  CountInv'
  <1> DEFINE p == Splitter(mainI)
             lot == Lines(write_portion(input, mainI - 1))
  <1>1. /\ mainPc = "splitter" /\ mainPc' = "mapper" /\ mainI' = mainI
        /\ status' = [status EXCEPT ![p] = "run"]
        /\ unsent' = [unsent EXCEPT ![p] = lot]
        /\ UNCHANGED <<pipe, datastore, output, input, mapperName, broken, older>>
    BY DEF ForkSplitter, Fork, Fixed
  <1>2. /\ mainI \in Parts /\ p \in Processes \ {Main, Reducer} /\ \A i \in Parts : MapperOf(i) # p
        /\ status \in [Processes -> {"none", "run", "ok", "fail"}]
        /\ unsent = [q \in Processes |-> unsent[q]]
    BY ProcessesDiffer DEF CountInv, PipesInv, PipeTypes
  <1>3. \A i \in Parts : i # mainI => Splitter(i) # p
    BY <1>2, ProcessesDiffer
  <1>4. lot \in Seq(LineSet)
    BY <1>2, PortionTyped DEF CountInv, CountTypes
  <1>5. ~Started(p)
    <2>1. mainI >= mainI
      BY <1>2 DEF Parts
    <2>2. QED  BY <1>1, <1>2, <2>1 DEF CountInv, WaitsHold
  <1> HIDE DEF p, lot
  <1>6. /\ status'[p] = "run" /\ unsent'[p] = lot
        /\ \A q \in Processes \ {p} : status'[q] = status[q] /\ unsent'[q] = unsent[q]
    BY <1>1, <1>2
  <1>7. \A i \in Parts : /\ MapperOf(i) \in Processes \ {p}
                         /\ i # mainI => Splitter(i) \in Processes \ {p}
    BY <1>2, <1>3, ProcessesDiffer
  <1>8. Reducer \in Processes \ {p}
    BY <1>2, ProcessesDiffer
  <1>9. CountTypes'
    <2>1. LineSet' = LineSet /\ Keys' = Keys
      BY <1>1 DEF LineSet, Keys
    <2>2. \A i \in Parts : unsent'[Splitter(i)] \in Seq(LineSet)
      <3> SUFFICES ASSUME NEW i \in Parts  PROVE  unsent'[Splitter(i)] \in Seq(LineSet)
        OBVIOUS
      <3>1. CASE i = mainI
        BY <1>4, <1>6, <3>1 DEF p
      <3>2. CASE i # mainI
        BY <1>6, <1>7, <3>2 DEF CountInv, CountTypes
      <3>3. QED  BY <3>1, <3>2
    <2>3. \A i \in Parts : unsent'[MapperOf(i)] = unsent[MapperOf(i)]
      BY <1>6, <1>7
    <2>4. QED  BY <1>1, <2>1, <2>2, <2>3 DEF CountInv, CountTypes
  <1>10. WaitsHold'
    <2>1. \A i \in Parts : i > mainI => ~Started(Splitter(i))'
      <3> SUFFICES ASSUME NEW i \in Parts, i > mainI  PROVE  ~Started(Splitter(i))'
        OBVIOUS
      <3>1. i # mainI /\ i >= mainI
        BY <1>2 DEF Parts
      <3>2. ~Started(Splitter(i))
        BY <1>1, <3>1 DEF CountInv, WaitsHold
      <3>3. QED  BY <1>6, <1>7, <3>1, <3>2 DEF Started
    <2>2. \A i \in Parts : status'[MapperOf(i)] = status[MapperOf(i)]
      BY <1>6, <1>7
    <2>3. status'[Reducer] = status[Reducer]
      BY <1>6, <1>8
    <2>4. QED  BY <1>1, <2>1, <2>2, <2>3 DEF CountInv, WaitsHold
  <1>11. AllCounted'
    <2>1. \A i \in Parts : \A key : PendingOf(i, key)' = PendingOf(i, key)
      <3> SUFFICES ASSUME NEW i \in Parts, NEW key  PROVE  PendingOf(i, key)' = PendingOf(i, key)
        OBVIOUS
      <3>1. HeldLines(i)' = HeldLines(i)
        <4>1. CASE i = mainI
          <5>1. Started(Splitter(i))' /\ ~Started(Splitter(i))
            BY <1>5, <1>6, <4>1 DEF Started, p
          <5>2. HeldLines(i)' = unsent'[Splitter(i)] /\ HeldLines(i) = Lines(write_portion(input, i - 1))
            BY <5>1 DEF HeldLines
          <5>3. QED  BY <1>6, <4>1, <5>2 DEF p, lot
        <4>2. CASE i # mainI
          <5>1. status'[Splitter(i)] = status[Splitter(i)] /\ unsent'[Splitter(i)] = unsent[Splitter(i)]
            BY <1>6, <1>7, <4>2
          <5>2. QED  BY <1>1, <5>1 DEF HeldLines, Started
        <4>3. QED  BY <4>1, <4>2
      <3>2. unsent'[MapperOf(i)] = unsent[MapperOf(i)]
        BY <1>6, <1>7
      <3>3. QED  BY <1>1, <3>1, <3>2 DEF PendingOf
    <2>2. QED  BY <1>1, <2>1, CountKept DEF CountInv
  <1>12. QED  BY <1>1, <1>9, <1>10, <1>11, SplitterForked DEF CountInv

LEMMA MapperForkCounts == ASSUME CountInv, ForkMapper  PROVE  CountInv'
  <1> DEFINE p == MapperOf(mainI)
  <1>1. /\ mainPc = "mapper"
        /\ status' = [status EXCEPT ![p] = "run"]
        /\ IF mainI < count THEN mainPc' = "splitter" /\ mainI' = mainI + 1
           ELSE mainPc' = "reducer" /\ mainI' = mainI
        /\ UNCHANGED <<pipe, unsent, datastore, output, input, mapperName, broken, older>>
    BY DEF ForkMapper, Fixed
  <1>2. /\ mainI \in Parts /\ p \in Processes \ {Main, Reducer} /\ \A i \in Parts : Splitter(i) # p
        /\ status \in [Processes -> {"none", "run", "ok", "fail"}]
    BY ProcessesDiffer DEF CountInv, PipesInv, PipeTypes
  <1> HIDE DEF p
  <1>3. status'[p] = "run" /\ \A q \in Processes \ {p} : status'[q] = status[q]
    BY <1>1, <1>2
  <1>4. \A i \in Parts : status'[Splitter(i)] = status[Splitter(i)]
    BY <1>2, <1>3, ProcessesDiffer
  <1>5. \A i \in Parts : status'[MapperOf(i)] = "fail" => status[MapperOf(i)] = "fail"
    BY <1>3, ProcessesDiffer
  <1>6. status'[Reducer] = status[Reducer]
    BY <1>2, <1>3, ProcessesDiffer
  <1>7. WaitsHold'
    <2>1. mainPc' = "splitter" => \A i \in Parts : i >= mainI' => ~Started(Splitter(i))'
      <3> SUFFICES ASSUME mainPc' = "splitter", NEW i \in Parts, i >= mainI'  PROVE  ~Started(Splitter(i))'
        OBVIOUS
      <3>1. mainI' = mainI + 1
        BY <1>1
      <3>2. i > mainI
        BY <1>2, <3>1 DEF Parts
      <3>3. QED  BY <1>1, <1>4, <3>2 DEF CountInv, WaitsHold, Started
    <2>2. mainPc' \in {"splitter", "reducer"}
      BY <1>1
    <2>3. QED  BY <1>1, <1>4, <1>5, <1>6, <2>1, <2>2 DEF CountInv, WaitsHold
  <1>8. CountTypes'
    BY <1>1, TypesKept DEF CountInv
  <1>9. AllCounted'
    <2>1. \A i \in Parts : Started(Splitter(i))' <=> Started(Splitter(i))
      BY <1>4 DEF Started
    <2>2. QED  BY <1>1, <2>1, PlacesKept, CountKept DEF CountInv
  <1>10. QED  BY <1>1, <1>7, <1>8, <1>9, MapperForked DEF CountInv

LEMMA PartsBefore ==
  /\ \A i \in Parts : ~(i < 1)
  /\ \A m, i \in Parts : i < m + 1 => i < m \/ i = m
  /\ \A m, i \in Parts : ~(m < count) => i < m \/ i = m
  BY MapReduceAssumption DEF Parts

LEMMA ParentCounts == ASSUME CountInv, ForkReducer \/ ForkFails \/ WaitForAll  PROVE  CountInv'
  <1>1. UNCHANGED <<pipe, unsent, datastore, output, input, mapperName, broken, older>>
    BY DEF ForkReducer, ForkFails, WaitForAll, Fixed
  <1>2. /\ status \in [Processes -> {"none", "run", "ok", "fail"}]
        /\ Main \in Processes /\ Reducer \in Processes /\ Main # Reducer /\ mainI \in Parts
    BY ProcessesDiffer DEF CountInv, PipesInv, PipeTypes
  <1>3. \E p \in {Main, Reducer}, how \in {"run", "ok", "fail"} :
           /\ status' \in {status, [status EXCEPT ![p] = how]}
           /\ p = Reducer => how = "run" /\ mainPc = "reducer"
    <2>1. CASE ForkReducer
      <3>1. status' = [status EXCEPT ![Reducer] = "run"] /\ mainPc = "reducer"
        BY <2>1 DEF ForkReducer
      <3>2. QED  BY <3>1
    <2>2. CASE ForkFails
      <3>1. status' = [status EXCEPT ![Main] = "fail"] /\ Main # Reducer
        BY <2>2, ProcessesDiffer DEF ForkFails
      <3>2. QED  BY <3>1
    <2>3. CASE WaitForAll
      <3>1. status' \in {status, [status EXCEPT ![Main] = "ok"], [status EXCEPT ![Main] = "fail"]}
        BY <2>3 DEF WaitForAll
      <3>2. Main # Reducer
        BY ProcessesDiffer
      <3>3. QED  BY <3>1, <3>2
    <2>4. QED  BY <2>1, <2>2, <2>3
  <1>4. PICK p \in {Main, Reducer}, how \in {"run", "ok", "fail"} :
           /\ status' \in {status, [status EXCEPT ![p] = how]}
           /\ p = Reducer => how = "run" /\ mainPc = "reducer"
    BY <1>3
  <1>5. \A i \in Parts : status'[Splitter(i)] = status[Splitter(i)] /\ status'[MapperOf(i)] = status[MapperOf(i)]
    BY <1>2, <1>4, ProcessesDiffer
  <1>6. status'[Reducer] = status[Reducer] \/ (status'[Reducer] = "run" /\ mainPc = "reducer")
    BY <1>2, <1>4
  <1>7. \A i \in Parts : Started(Splitter(i))' <=> Started(Splitter(i))
    BY <1>5 DEF Started
  <1>8. CountTypes' /\ AllCounted'
    <2>1. CountTypes'
      BY <1>1, TypesKept DEF CountInv
    <2>2. AllCounted'
      BY <1>1, <1>7, PlacesKept, CountKept DEF CountInv
    <2>3. QED  BY <2>1, <2>2
  <1>9. WaitsHold'
    <2>1. mainPc' \notin {"splitter", "mapper"}
      BY DEF ForkReducer, ForkFails, WaitForAll
    <2>2. mainPc' \in {"wait splitter", "wait mapper"} => \A i \in Parts : i < mainI' => status[Splitter(i)] = "ok"
      <3> SUFFICES ASSUME mainPc' \in {"wait splitter", "wait mapper"}, NEW i \in Parts, i < mainI'
                   PROVE  status[Splitter(i)] = "ok"
        OBVIOUS
      <3>1. CASE ForkReducer
        <4>1. mainI' = 1
          BY <3>1 DEF ForkReducer
        <4>2. QED  BY <1>2, <4>1, PartsBefore
      <3>2. CASE ForkFails
        BY <3>2 DEF ForkFails
      <3>3. CASE WaitForAll
        <4>1. /\ mainPc \in {"wait splitter", "wait mapper"}
              /\ \/ mainI' = mainI
                 \/ mainI' = mainI + 1 /\ status[Splitter(mainI)] = "ok"
          BY <3>3 DEF WaitForAll
        <4>2. i < mainI \/ (i = mainI /\ status[Splitter(mainI)] = "ok")
          BY <1>2, <4>1, PartsBefore
        <4>3. QED  BY <4>1, <4>2 DEF CountInv, WaitsHold
      <3>4. QED  BY <3>1, <3>2, <3>3
    <2>3. mainPc' \in {"wait reducer", "done"} =>
            /\ \A i \in Parts : status[Splitter(i)] = "ok"
            /\ mainPc' = "done" => Ended(Reducer)
            /\ WaitForAll
      <3> SUFFICES ASSUME mainPc' \in {"wait reducer", "done"}
                   PROVE  /\ \A i \in Parts : status[Splitter(i)] = "ok"
                          /\ mainPc' = "done" => Ended(Reducer)
                          /\ WaitForAll
        OBVIOUS
      <3>1. WaitForAll
        BY DEF ForkReducer, ForkFails
      <3>2. CASE mainPc' = "wait reducer"
        <4>1. mainPc = "wait mapper" /\ status[Splitter(mainI)] = "ok" /\ ~(mainI < count)
          BY <3>1, <3>2 DEF WaitForAll
        <4>2. \A i \in Parts : i < mainI \/ i = mainI
          BY <1>2, <4>1, PartsBefore
        <4>3. QED  BY <3>1, <3>2, <4>1, <4>2 DEF CountInv, WaitsHold
      <3>3. CASE mainPc' = "done"
        <4>1. mainPc = "wait reducer" /\ Ended(Reducer)
          BY <3>1, <3>3 DEF WaitForAll
        <4>2. QED  BY <3>1, <4>1 DEF CountInv, WaitsHold
      <3>4. QED  BY <3>2, <3>3
    <2>4. WaitForAll => mainPc # "reducer"
      BY DEF WaitForAll
    <2>5. mainPc' = "done" => Ended(Reducer)'
      BY <1>6, <2>3, <2>4 DEF Ended
    <2>6. status'[Reducer] = "fail" => "reducer" \in broken'
      BY <1>1, <1>6 DEF CountInv, WaitsHold
    <2>7. \A i \in Parts : status'[MapperOf(i)] = "fail" => "mapper" \in broken'
      BY <1>1, <1>5 DEF CountInv, WaitsHold
    <2>8. QED  BY <1>5, <2>1, <2>2, <2>3, <2>5, <2>6, <2>7 DEF WaitsHold
  <1>10. QED  BY <1>1, <1>8, <1>9, ParentKeeps DEF CountInv

-----------------------------------------------------------------------------
(* A child that ends: its unsent items, if any, stay where they are.       *)
LEMMA ExitCounts ==
  ASSUME CountInv, NEW p \in Processes \ {Main}, NEW how \in {"ok", "fail"}, Exit(p, how),
         p = Reducer /\ how = "fail" => "reducer" \in broken,
         \A i \in Parts : p = MapperOf(i) /\ how = "fail" => "mapper" \in broken
  PROVE  CountTypes' /\ WaitsHold' /\ AllCounted'
  <1>1. /\ status[p] = "run" /\ status' = [status EXCEPT ![p] = how]
        /\ UNCHANGED <<mainPc, mainI, pipe, unsent, datastore, input, mapperName, broken>>
    BY DEF Exit, Fixed
  <1>2. status \in [Processes -> {"none", "run", "ok", "fail"}]
    BY DEF CountInv, PipesInv, PipeTypes
  <1>3. status'[p] = how /\ \A q \in Processes \ {p} : status'[q] = status[q]
    BY <1>1, <1>2
  <1>4. \A q \in Processes : /\ Started(q)' <=> Started(q)
                             /\ status[q] = "ok" => status'[q] = "ok"
                             /\ Ended(q) => Ended(q)'
    BY <1>1, <1>3 DEF Started, Ended
  <1>5. CountTypes'
    BY <1>1, TypesKept DEF CountInv
  <1>6. AllCounted'
    <2>1. \A i \in Parts : Started(Splitter(i))' <=> Started(Splitter(i))
      BY <1>4, ProcessesDiffer
    <2>2. QED  BY <1>1, <2>1, PlacesKept, CountKept DEF CountInv
  <1>7. WaitsHold'
    <2>1. status'[Reducer] = "fail" => "reducer" \in broken
      <3>1. Reducer \in Processes /\ (status[Reducer] = "fail" => "reducer" \in broken)
        BY ProcessesDiffer DEF CountInv, WaitsHold
      <3>2. CASE p = Reducer
        BY <1>3, <3>2
      <3>3. CASE p # Reducer
        BY <1>3, <3>1, <3>3
      <3>4. QED  BY <3>2, <3>3
    <2>2. \A i \in Parts : status'[MapperOf(i)] = "fail" => "mapper" \in broken
      <3> SUFFICES ASSUME NEW i \in Parts, status'[MapperOf(i)] = "fail"  PROVE  "mapper" \in broken
        OBVIOUS
      <3>1. MapperOf(i) \in Processes
        BY ProcessesDiffer
      <3>2. CASE p = MapperOf(i)
        BY <1>3, <3>2
      <3>3. CASE p # MapperOf(i)
        BY <1>3, <3>1, <3>3 DEF CountInv, WaitsHold
      <3>4. QED  BY <3>2, <3>3
    <2>3. Ended(Reducer) => Ended(Reducer)'
      BY <1>4, ProcessesDiffer
    <2>4. \A i \in Parts : /\ Started(Splitter(i))' <=> Started(Splitter(i))
                           /\ status[Splitter(i)] = "ok" => status'[Splitter(i)] = "ok"
      BY <1>4, ProcessesDiffer
    <2>5. QED  BY <1>1, <2>1, <2>2, <2>3, <2>4 DEF CountInv, WaitsHold
  <1>8. QED  BY <1>5, <1>6, <1>7

LEMMA OtherPart ==
  ASSUME NEW j \in Parts, UNCHANGED <<input, mapperName, status>>, pipe'[j] = pipe[j],
         unsent'[Splitter(j)] = unsent[Splitter(j)], unsent'[MapperOf(j)] = unsent[MapperOf(j)]
  PROVE  \A key : PendingOf(j, key)' = PendingOf(j, key)
  BY DEF PendingOf, HeldLines, Started

LEMMA WaitsStay ==
  ASSUME WaitsHold, UNCHANGED <<mainPc, mainI, status, broken>>
  PROVE  WaitsHold'
  BY DEF WaitsHold, Started, Ended

(* A line goes from a splitter to its pipe. *)
LEMMA SplitterWriteCounts ==
  ASSUME CountInv, NEW i \in Parts, Write(Splitter(i), i)
  PROVE  CountTypes' /\ WaitsHold' /\ AllCounted'
  <1> DEFINE p == Splitter(i)
             s == unsent[p]
             l == Head(s)
             t == Tail(s)
  <1>1. /\ status[p] = "run" /\ s # <<>>
        /\ pipe' = [pipe EXCEPT ![i] = Append(pipe[i], l)]
        /\ unsent' = [unsent EXCEPT ![p] = t]
        /\ UNCHANGED <<mainPc, mainI, status, datastore, input, mapperName, broken>>
    BY DEF Write, Fixed
  <1>2. /\ p \in Processes /\ i \in Pipes /\ i # 0 /\ 0 \in Pipes
        /\ \A j \in Parts : /\ MapperOf(j) \in Processes \ {p} /\ j \in Pipes
                            /\ j # i => Splitter(j) \in Processes \ {p}
    BY ProcessesDiffer, PartsArePipes
  <1>3. pipe = [q \in Pipes |-> pipe[q]] /\ unsent = [q \in Processes |-> unsent[q]]
    BY DEF CountInv, PipesInv, PipeTypes
  <1>4. s \in Seq(LineSet) /\ pipe[i] \in Seq(LineSet) /\ input \in Inputs /\ mapperName \in Mappers
    BY DEF CountInv, CountTypes
  <1>5. l \in LineSet /\ t \in Seq(LineSet) /\ <<l>> \in Seq(LineSet) /\ s = <<l>> \o t
    <2> HIDE DEF s
    <2>1. QED  BY <1>1, <1>4, FirstAndRest
  <1>6. Append(pipe[i], l) = pipe[i] \o <<l>> /\ Append(pipe[i], l) \in Seq(LineSet)
    <2> HIDE DEF l
    <2>1. QED  BY <1>4, <1>5, AppendProperties
  <1> DEFINE u == Append(pipe[i], l)
  <1>7. Started(p) /\ HeldLines(i) = s
    BY <1>1 DEF Started, HeldLines
  <1> HIDE DEF p, s, l, t, u
  <1>8. /\ pipe'[i] = u /\ unsent'[p] = t
        /\ \A q \in Pipes \ {i} : pipe'[q] = pipe[q]
        /\ \A q \in Processes \ {p} : unsent'[q] = unsent[q]
    BY <1>1, <1>2, <1>3 DEF u
  <1>9. CountTypes'
    <2>1. LineSet' = LineSet /\ Keys' = Keys
      BY <1>1 DEF LineSet, Keys
    <2>2. ASSUME NEW j \in Parts
          PROVE  /\ unsent'[Splitter(j)] \in Seq(LineSet) /\ pipe'[j] \in Seq(LineSet)
                 /\ unsent'[MapperOf(j)] \in Seq(Keys)
      <3>1. unsent'[MapperOf(j)] = unsent[MapperOf(j)]
        BY <1>2, <1>8
      <3>2. CASE j = i
        BY <1>5, <1>6, <1>8, <3>1, <3>2 DEF CountInv, CountTypes, p, u
      <3>3. CASE j # i
        BY <1>2, <1>8, <3>1, <3>3 DEF CountInv, CountTypes
      <3>4. QED  BY <3>2, <3>3
    <2>3. pipe'[0] = pipe[0]
      BY <1>2, <1>8
    <2>4. QED  BY <1>1, <2>1, <2>2, <2>3 DEF CountInv, CountTypes
  <1>10. WaitsHold'
    BY <1>1, WaitsStay DEF CountInv
  <1>11. \A j \in Parts : \A key : PendingOf(j, key)' = PendingOf(j, key)
    <2> SUFFICES ASSUME NEW j \in Parts, NEW key  PROVE  PendingOf(j, key)' = PendingOf(j, key)
      OBVIOUS
    <2>1. CASE j # i
      <3>1. /\ pipe'[j] = pipe[j] /\ unsent'[Splitter(j)] = unsent[Splitter(j)]
            /\ unsent'[MapperOf(j)] = unsent[MapperOf(j)]
        BY <1>2, <1>8, <2>1
      <3>2. QED  BY <1>1, <3>1, OtherPart
    <2>2. CASE j = i
      <3> DEFINE T(x) == Tally(mapperName, x, key)
      <3>1. T(s) = T(<<l>>) + T(t) /\ T(u) = T(pipe[i]) + T(<<l>>)
            /\ T(<<l>>) \in Nat /\ T(t) \in Nat /\ T(pipe[i]) \in Nat
        <4>1. MapsTo(mapperName, LineSet, Keys)
          BY <1>4, KeysFit
        <4>2. T(<<l>> \o t) = T(<<l>>) + T(t) /\ T(<<l>>) \in Nat
          BY <1>5, <4>1, TallyJoin
        <4>3. T(pipe[i] \o <<l>>) = T(pipe[i]) + T(<<l>>) /\ T(pipe[i]) \in Nat
          BY <1>4, <1>5, <4>1, TallyJoin, ZenonT(60)
        <4>4. T(t) \in Nat
          BY <1>4, <1>5, TallyIsNat
        <4>5. s = <<l>> \o t /\ u = pipe[i] \o <<l>>
          BY <1>5, <1>6 DEF u
        <4>6. QED  BY <4>2, <4>3, <4>4, <4>5
      <3> DEFINE e == Cnt(unsent[MapperOf(i)], key)
      <3>2. e \in Nat /\ unsent'[MapperOf(i)] = unsent[MapperOf(i)]
        BY <1>2, <1>8, CntIsNat DEF CountInv, CountTypes
      <3>3. PendingOf(i, key) = (T(s) + T(pipe[i])) + e
        BY <1>7 DEF PendingOf
      <3>4. HeldLines(i)' = t
        BY <1>1, <1>7, <1>8 DEF HeldLines, Started, p
      <3>5. PendingOf(i, key)' = (T(t) + T(u)) + e
        BY <1>1, <1>8, <3>2, <3>4 DEF PendingOf
      <3> HIDE DEF T, e
      <3>6. QED  BY <2>2, <3>1, <3>2, <3>3, <3>5
    <2>3. QED  BY <2>1, <2>2
  <1>12. pipe'[0] = pipe[0]
    BY <1>2, <1>8
  <1>13. AllCounted'
    BY <1>1, <1>11, <1>12, CountKept DEF CountInv
  <1>14. QED  BY <1>9, <1>10, <1>13

(* A mapper takes a line: its pairs are what the line counted. *)
LEMMA MapperReadCounts ==
  ASSUME CountInv, NEW i \in Parts, status[MapperOf(i)] = "run", unsent[MapperOf(i)] = <<>>, pipe[i] # <<>>,
         pipe' = [pipe EXCEPT ![i] = Tail(@)],
         unsent' = [unsent EXCEPT ![MapperOf(i)] = mapper(Head(pipe[i]))],
         UNCHANGED <<mainPc, mainI, status, ends, datastore, output>>, Fixed
  PROVE  CountTypes' /\ WaitsHold' /\ AllCounted'
  <1> DEFINE p == MapperOf(i)
             s == pipe[i]
             l == Head(s)
             t == Tail(s)
             w == Pairs(mapperName, l)
  <1>1. /\ pipe' = [pipe EXCEPT ![i] = t] /\ unsent' = [unsent EXCEPT ![p] = w]
        /\ UNCHANGED <<mainPc, mainI, status, datastore, input, mapperName, broken>>
    BY DEF Fixed, mapper, Pairs
  <1>2. /\ p \in Processes /\ i \in Pipes /\ i # 0 /\ 0 \in Pipes
        /\ \A j \in Parts : /\ Splitter(j) \in Processes \ {p} /\ j \in Pipes
                            /\ j # i => MapperOf(j) \in Processes \ {p}
    BY ProcessesDiffer, PartsArePipes
  <1>3. pipe = [q \in Pipes |-> pipe[q]] /\ unsent = [q \in Processes |-> unsent[q]]
    BY DEF CountInv, PipesInv, PipeTypes
  <1>4. s \in Seq(LineSet) /\ input \in Inputs /\ mapperName \in Mappers
    BY DEF CountInv, CountTypes
  <1>5. l \in LineSet /\ t \in Seq(LineSet) /\ <<l>> \in Seq(LineSet) /\ s = <<l>> \o t
    <2>1. s # <<>>
      OBVIOUS
    <2> HIDE DEF s
    <2>2. QED  BY <1>4, <2>1, FirstAndRest
  <1>6. MapsTo(mapperName, LineSet, Keys)
    BY <1>4, KeysFit
  <1>7. w \in Seq(Keys)
    BY <1>5, <1>6 DEF MapsTo
  <1>8. unsent[p] = <<>>
    OBVIOUS
  <1> HIDE DEF p, s, l, t, w
  <1>9. /\ pipe'[i] = t /\ unsent'[p] = w
        /\ \A q \in Pipes \ {i} : pipe'[q] = pipe[q]
        /\ \A q \in Processes \ {p} : unsent'[q] = unsent[q]
    BY <1>1, <1>2, <1>3
  <1>10. CountTypes'
    <2>1. LineSet' = LineSet /\ Keys' = Keys
      BY <1>1 DEF LineSet, Keys
    <2>2. ASSUME NEW j \in Parts
          PROVE  /\ unsent'[Splitter(j)] \in Seq(LineSet) /\ pipe'[j] \in Seq(LineSet)
                 /\ unsent'[MapperOf(j)] \in Seq(Keys)
      <3>1. unsent'[Splitter(j)] = unsent[Splitter(j)]
        BY <1>2, <1>9
      <3>2. CASE j = i
        BY <1>5, <1>7, <1>9, <3>1, <3>2 DEF CountInv, CountTypes, p
      <3>3. CASE j # i
        BY <1>2, <1>9, <3>1, <3>3 DEF CountInv, CountTypes
      <3>4. QED  BY <3>2, <3>3
    <2>3. pipe'[0] = pipe[0]
      BY <1>2, <1>9
    <2>4. QED  BY <1>1, <2>1, <2>2, <2>3 DEF CountInv, CountTypes
  <1>11. WaitsHold'
    BY <1>1, WaitsStay DEF CountInv
  <1>12. \A j \in Parts : \A key : PendingOf(j, key)' = PendingOf(j, key)
    <2> SUFFICES ASSUME NEW j \in Parts, NEW key  PROVE  PendingOf(j, key)' = PendingOf(j, key)
      OBVIOUS
    <2>1. CASE j # i
      <3>1. /\ pipe'[j] = pipe[j] /\ unsent'[Splitter(j)] = unsent[Splitter(j)]
            /\ unsent'[MapperOf(j)] = unsent[MapperOf(j)]
        BY <1>2, <1>9, <2>1
      <3>2. QED  BY <1>1, <3>1, OtherPart
    <2>2. CASE j = i
      <3> DEFINE T(x) == Tally(mapperName, x, key)
                 h == HeldLines(i)
      <3>1. T(s) = T(<<l>>) + T(t) /\ T(<<l>>) \in Nat /\ T(t) \in Nat
        <4>1. T(<<l>> \o t) = T(<<l>>) + T(t) /\ T(<<l>>) \in Nat
          BY <1>5, <1>6, TallyJoin
        <4>2. T(t) \in Nat
          BY <1>4, <1>5, TallyIsNat
        <4>3. QED  BY <1>5, <4>1, <4>2
      <3>2. T(<<l>>) = Cnt(w, key)
        BY <1>5, <1>6, TallyOfOne DEF w
      <3>3. T(h) \in Nat
        <4>1. h \in Seq(LineSet)
          BY <1>4, PortionTyped DEF HeldLines, CountInv, CountTypes
        <4>2. QED  BY <1>4, <4>1, TallyIsNat
      <3>4. HeldLines(i)' = h
        BY <1>1, <1>2, <1>9 DEF HeldLines, Started
      <3>5. PendingOf(i, key) = (T(h) + T(s)) + 0
        <4>1. Cnt(unsent[MapperOf(i)], key) = 0
          BY <1>8, CountOfOne DEF p
        <4>2. QED  BY <4>1 DEF PendingOf, s
      <3>6. PendingOf(i, key)' = (T(h) + T(t)) + Cnt(w, key)
        BY <1>1, <1>9, <3>4 DEF PendingOf, p
      <3> HIDE DEF T, h
      <3>7. QED  BY <2>2, <3>1, <3>2, <3>3, <3>5, <3>6
    <2>3. QED  BY <2>1, <2>2
  <1>13. pipe'[0] = pipe[0]
    BY <1>2, <1>9
  <1>14. AllCounted'
    BY <1>1, <1>12, <1>13, CountKept DEF CountInv
  <1>15. QED  BY <1>10, <1>11, <1>14

-----------------------------------------------------------------------------
LEMMA PendingAllNat == CountTypes => \A i \in Parts : \A key : PendingOf(i, key) \in Nat
  BY PendingIsNat

LEMMA PendingNextNat == (CountTypes => \A i \in Parts : \A key : PendingOf(i, key) \in Nat)'
  BY PendingAllNat, PTL

(* A pair goes from a mapper to pipe 0. *)
LEMMA MapperWriteCounts ==
  ASSUME CountInv, NEW i \in Parts, Write(MapperOf(i), 0)
  PROVE  CountTypes' /\ WaitsHold' /\ AllCounted'
  <1> DEFINE p == MapperOf(i)
             s == unsent[p]
             x == Head(s)
             t == Tail(s)
             u == Append(pipe[0], x)
  <1>1. /\ s # <<>>
        /\ pipe' = [pipe EXCEPT ![0] = u] /\ unsent' = [unsent EXCEPT ![p] = t]
        /\ UNCHANGED <<mainPc, mainI, status, datastore, input, mapperName, broken>>
    BY DEF Write, Fixed
  <1>2. /\ p \in Processes /\ 0 \in Pipes
        /\ \A j \in Parts : /\ Splitter(j) \in Processes \ {p} /\ j \in Pipes \ {0}
                            /\ j # i => MapperOf(j) \in Processes \ {p}
    BY ProcessesDiffer, PartsArePipes
  <1>3. pipe = [q \in Pipes |-> pipe[q]] /\ unsent = [q \in Processes |-> unsent[q]]
    BY DEF CountInv, PipesInv, PipeTypes
  <1>4. s \in Seq(Keys) /\ pipe[0] \in Seq(Keys)
    BY DEF CountInv, CountTypes
  <1>5. x \in Keys /\ t \in Seq(Keys) /\ <<x>> \in Seq(Keys) /\ s = <<x>> \o t
    <2> HIDE DEF s
    <2>1. QED  BY <1>1, <1>4, FirstAndRest
  <1>6. u = pipe[0] \o <<x>> /\ u \in Seq(Keys)
    <2> HIDE DEF x
    <2>1. QED  BY <1>4, <1>5, AppendProperties
  <1> HIDE DEF p, s, x, t, u
  <1>7. /\ pipe'[0] = u /\ unsent'[p] = t
        /\ \A q \in Pipes \ {0} : pipe'[q] = pipe[q]
        /\ \A q \in Processes \ {p} : unsent'[q] = unsent[q]
    BY <1>1, <1>2, <1>3
  <1>8. CountTypes'
    <2>1. LineSet' = LineSet /\ Keys' = Keys
      BY <1>1 DEF LineSet, Keys
    <2>2. ASSUME NEW j \in Parts
          PROVE  /\ unsent'[Splitter(j)] \in Seq(LineSet) /\ pipe'[j] \in Seq(LineSet)
                 /\ unsent'[MapperOf(j)] \in Seq(Keys)
      <3>1. unsent'[Splitter(j)] = unsent[Splitter(j)] /\ pipe'[j] = pipe[j]
        BY <1>2, <1>7
      <3>2. CASE j = i
        BY <1>5, <1>7, <3>1, <3>2 DEF CountInv, CountTypes, p
      <3>3. CASE j # i
        BY <1>2, <1>7, <3>1, <3>3 DEF CountInv, CountTypes
      <3>4. QED  BY <3>2, <3>3
    <2>3. QED  BY <1>1, <1>6, <1>7, <2>1, <2>2 DEF CountInv, CountTypes
  <1>9. WaitsHold'
    BY <1>1, WaitsStay DEF CountInv
  <1>10. AllCounted'
    <2> SUFFICES ASSUME NEW key
                 PROVE  (InStore(datastore', key) + Cnt(pipe'[0], key))
                        + SumFunctionOnSet([j \in Parts |-> PendingOf(j, key)'], Parts)
                        = Tally(mapperName', Lines(input'), key)
      BY DEF AllCounted
    <2> DEFINE f == [j \in Parts |-> PendingOf(j, key)]
               g == [j \in Parts |-> PendingOf(j, key)']
               e == Cnt(<<x>>, key)
    <2>1. (InStore(datastore, key) + Cnt(pipe[0], key)) + SumFunctionOnSet(f, Parts)
             = Tally(mapperName, Lines(input), key)
      BY DEF AllCounted, CountInv
    <2>2. Cnt(u, key) = Cnt(pipe[0], key) + e /\ Cnt(s, key) = e + Cnt(t, key)
          /\ e \in Nat /\ Cnt(t, key) \in Nat /\ Cnt(pipe[0], key) \in Nat
      <3>1. Cnt(pipe[0] \o <<x>>, key) = Cnt(pipe[0], key) + e /\ Cnt(pipe[0], key) \in Nat
        BY <1>4, <1>5, CountJoin
      <3>2. Cnt(<<x>> \o t, key) = e + Cnt(t, key) /\ e \in Nat
        BY <1>5, CountJoin
      <3>3. Cnt(t, key) \in Nat
        BY <1>5, CntIsNat
      <3>4. QED  BY <1>5, <1>6, <3>1, <3>2, <3>3
    <2>3. \A j \in Parts \ {i} : PendingOf(j, key)' = PendingOf(j, key)
      <3> SUFFICES ASSUME NEW j \in Parts \ {i}  PROVE  PendingOf(j, key)' = PendingOf(j, key)
        OBVIOUS
      <3>1. /\ pipe'[j] = pipe[j] /\ unsent'[Splitter(j)] = unsent[Splitter(j)]
            /\ unsent'[MapperOf(j)] = unsent[MapperOf(j)]
        BY <1>2, <1>7
      <3>2. j \in Parts
        OBVIOUS
      <3>3. QED  BY <1>1, <3>1, <3>2, OtherPart
    <2>4. \A j \in Parts : PendingOf(j, key) \in Nat /\ PendingOf(j, key)' \in Nat
      <3>1. \A j \in Parts : PendingOf(j, key) \in Nat
        BY PendingIsNat DEF CountInv
      <3>2. \A j \in Parts : PendingOf(j, key)' \in Nat
        BY <1>8, PendingNextNat
      <3>3. QED  BY <3>1, <3>2
    <2>5. PendingOf(i, key) = PendingOf(i, key)' + e
      <3> DEFINE a == Tally(mapperName, HeldLines(i), key)
                 b == Tally(mapperName, pipe[i], key)
      <3>1. a \in Nat /\ b \in Nat
        <4>1. HeldLines(i) \in Seq(LineSet) /\ pipe[i] \in Seq(LineSet) /\ input \in Inputs /\ mapperName \in Mappers
          BY PortionTyped DEF HeldLines, CountInv, CountTypes
        <4>2. QED  BY <4>1, TallyIsNat
      <3>2. PendingOf(i, key) = (a + b) + Cnt(s, key)
        BY DEF PendingOf, s, p
      <3>3. HeldLines(i)' = HeldLines(i) /\ pipe'[i] = pipe[i]
        BY <1>1, <1>2, <1>7 DEF HeldLines, Started
      <3>4. PendingOf(i, key)' = (a + b) + Cnt(t, key)
        BY <1>1, <1>7, <3>3 DEF PendingOf, p
      <3> HIDE DEF a, b, e
      <3>5. QED  BY <2>2, <3>1, <3>2, <3>4
    <2>6. /\ \A j \in Parts : f[j] \in Int /\ g[j] \in Int
          /\ \A j \in Parts \ {i} : g[j] = f[j]
          /\ f[i] = g[i] + e
      BY <2>3, <2>4, <2>5
    <2>7. InStore(datastore, key) \in Nat
      BY DEF InStore, CountInv, CountTypes
    <2> HIDE DEF f, g, e
    <2>8. SumFunctionOnSet(f, Parts) \in Int /\ SumFunctionOnSet(g, Parts) \in Int
      <3>1. (\A j \in Parts : f[j] \in Int) /\ (\A j \in Parts : g[j] \in Int)
        BY <2>6
      <3>2. SumFunctionOnSet(f, Parts) \in Int
        BY <3>1, PartsFinite, SumIsInt
      <3>3. SumFunctionOnSet(g, Parts) \in Int
        BY <3>1, PartsFinite, SumIsInt
      <3>4. QED  BY <3>2, <3>3
    <2>9. SumFunctionOnSet(f, Parts) = SumFunctionOnSet(g, Parts) + e
      <3>1. i \in Parts
        OBVIOUS
      <3>2. \A j \in Parts : f[j] \in Int
        BY <2>6
      <3>3. \A j \in Parts : g[j] \in Int
        BY <2>6
      <3>4. \A j \in Parts \ {i} : g[j] = f[j]
        BY <2>6
      <3>5. SumFunctionOnSet(f, Parts) + g[i] = SumFunctionOnSet(g, Parts) + f[i]
        BY <3>1, <3>2, <3>3, <3>4, PartsFinite, SumMoves
      <3>6. f[i] = g[i] + e /\ g[i] \in Int /\ e \in Int
        BY <2>2, <2>6, <3>1, <3>3
      <3>7. PICK a \in Int, b \in Int, c \in Int, n \in Int :
               a = SumFunctionOnSet(f, Parts) /\ b = SumFunctionOnSet(g, Parts) /\ c = g[i] /\ n = e
        BY <2>8, <3>6
      <3>8. a + c = b + (c + n)
        BY <3>5, <3>6, <3>7
      <3>9. a = b + n
        BY <3>8
      <3>10. QED  BY <3>7, <3>9
    <2>10. (InStore(datastore, key) + (Cnt(pipe[0], key) + e)) + SumFunctionOnSet(g, Parts)
             = Tally(mapperName, Lines(input), key)
      BY <2>1, <2>2, <2>7, <2>8, <2>9
    <2>11. (InStore(datastore', key) + Cnt(pipe'[0], key)) + SumFunctionOnSet(g, Parts)
             = Tally(mapperName', Lines(input'), key)
      BY <1>1, <1>7, <2>2, <2>10
    <2>12. QED  BY <2>11 DEF g
  <1>11. QED  BY <1>8, <1>9, <1>10

LEMMA ReducedOnce ==
  ASSUME NEW ds, ds = [k \in DOMAIN ds |-> ds[k]], \A k \in DOMAIN ds : ds[k] \in Nat \ {0}, NEW key
  PROVE  /\ Reduce(ds, key) = [k \in DOMAIN Reduce(ds, key) |-> Reduce(ds, key)[k]]
         /\ \A k \in DOMAIN Reduce(ds, key) : Reduce(ds, key)[k] \in Nat \ {0}
         /\ \A k : InStore(Reduce(ds, key), k) = InStore(ds, k) + IF k = key THEN 1 ELSE 0
  <1>1. CASE key \in DOMAIN ds
    <2> DEFINE r == Reduce(ds, key)
    <2>1. r = [ds EXCEPT ![key] = ds[key] + 1]
      BY <1>1 DEF Reduce, datastore_get, datastore_update
    <2> HIDE DEF r
    <2>2. r = [k \in DOMAIN ds |-> IF k = key THEN ds[key] + 1 ELSE ds[k]]
      BY <1>1, <2>1
    <2>3. DOMAIN r = DOMAIN ds /\ r = [k \in DOMAIN r |-> r[k]] /\ r[key] = ds[key] + 1
          /\ \A k \in DOMAIN ds : k # key => r[k] = ds[k]
      BY <1>1, <2>2
    <2>4. \A k \in DOMAIN r : r[k] \in Nat \ {0}
      BY <1>1, <2>3
    <2>5. \A k : InStore(r, k) = InStore(ds, k) + IF k = key THEN 1 ELSE 0
      BY <1>1, <2>3 DEF InStore
    <2>6. QED  BY <2>3, <2>4, <2>5 DEF r
  <1>2. CASE key \notin DOMAIN ds
    <2>1. Reduce(ds, key) = [k \in DOMAIN ds \cup {key} |-> IF k = key THEN 1 ELSE ds[k]]
      BY <1>2 DEF Reduce, datastore_get, datastore_put
    <2>2. QED  BY <1>2, <2>1 DEF InStore
  <1>3. QED  BY <1>1, <1>2

(* The reducer takes a pair and counts it. *)
LEMMA ReducerReadCounts ==
  ASSUME CountInv, pipe[0] # <<>>, pipe' = [pipe EXCEPT ![0] = Tail(@)],
         datastore' = Reduce(datastore, Head(pipe[0])),
         UNCHANGED <<mainPc, mainI, status, ends, unsent, output>>, Fixed
  PROVE  CountTypes' /\ WaitsHold' /\ AllCounted'
  <1> DEFINE s == pipe[0]
             x == Head(s)
             t == Tail(s)
  <1>1. /\ pipe' = [pipe EXCEPT ![0] = t] /\ datastore' = Reduce(datastore, x)
        /\ UNCHANGED <<mainPc, mainI, status, unsent, input, mapperName, broken>>
    BY DEF Fixed
  <1>2. 0 \in Pipes /\ \A j \in Parts : j \in Pipes \ {0}
    BY PartsArePipes
  <1>3. pipe = [q \in Pipes |-> pipe[q]]
    BY DEF CountInv, PipesInv, PipeTypes
  <1>4. s \in Seq(Keys) /\ s # <<>>
    BY DEF CountInv, CountTypes
  <1> HIDE DEF s
  <1>5. x \in Keys /\ t \in Seq(Keys) /\ <<x>> \in Seq(Keys) /\ s = <<x>> \o t
    BY <1>4, FirstAndRest
  <1> HIDE DEF x, t
  <1>6. pipe'[0] = t /\ \A j \in Parts : pipe'[j] = pipe[j]
    BY <1>1, <1>2, <1>3
  <1>7. datastore = [k \in DOMAIN datastore |-> datastore[k]] /\ \A k \in DOMAIN datastore : datastore[k] \in Nat \ {0}
    BY DEF CountInv, CountTypes
  <1>8. /\ datastore' = [k \in DOMAIN datastore' |-> datastore'[k]]
        /\ \A k \in DOMAIN datastore' : datastore'[k] \in Nat \ {0}
        /\ \A k : InStore(datastore', k) = InStore(datastore, k) + IF k = x THEN 1 ELSE 0
    BY <1>1, <1>7, ReducedOnce
  <1>9. CountTypes'
    <2>1. LineSet' = LineSet /\ Keys' = Keys
      BY <1>1 DEF LineSet, Keys
    <2>2. QED  BY <1>1, <1>5, <1>6, <1>8, <2>1 DEF CountInv, CountTypes
  <1>10. WaitsHold'
    BY <1>1, WaitsStay DEF CountInv
  <1>11. AllCounted'
    <2> SUFFICES ASSUME NEW key
                 PROVE  (InStore(datastore', key) + Cnt(pipe'[0], key))
                        + SumFunctionOnSet([j \in Parts |-> PendingOf(j, key)'], Parts)
                        = Tally(mapperName', Lines(input'), key)
      BY DEF AllCounted
    <2> DEFINE f == [j \in Parts |-> PendingOf(j, key)]
               e == Cnt(<<x>>, key)
    <2>1. (InStore(datastore, key) + Cnt(pipe[0], key)) + SumFunctionOnSet(f, Parts)
             = Tally(mapperName, Lines(input), key)
      BY DEF AllCounted, CountInv
    <2>2. [j \in Parts |-> PendingOf(j, key)'] = f
      BY <1>1, <1>6, OtherPart
    <2>3. Cnt(pipe[0], key) = e + Cnt(t, key) /\ e \in Nat /\ Cnt(t, key) \in Nat
      <3>1. Cnt(<<x>> \o t, key) = e + Cnt(t, key) /\ e \in Nat
        BY <1>5, CountJoin
      <3>2. Cnt(t, key) \in Nat
        BY <1>5, CntIsNat
      <3>3. QED  BY <1>5, <3>1, <3>2 DEF s
    <2>4. InStore(datastore', key) = InStore(datastore, key) + e
      <3>1. e = IF x = key THEN 1 ELSE 0
        BY CountOfOne
      <3>2. QED  BY <1>8, <3>1
    <2>5. InStore(datastore, key) \in Nat
      BY <1>7 DEF InStore
    <2>6. (InStore(datastore, key) + e) + Cnt(t, key) = InStore(datastore, key) + Cnt(pipe[0], key)
      <3> HIDE DEF e
      <3>1. QED  BY <2>3, <2>5
    <2>7. (InStore(datastore', key) + Cnt(pipe'[0], key)) = InStore(datastore, key) + Cnt(pipe[0], key)
      BY <1>6, <2>4, <2>6
    <2>8. QED  BY <1>1, <2>1, <2>2, <2>7
  <1>12. QED  BY <1>9, <1>10, <1>11

LEMMA CountKeeps == CountInv /\ [MapReduceNext]_mrVars => CountInv'
  <1> SUFFICES ASSUME CountInv, [MapReduceNext]_mrVars  PROVE  CountInv'
    OBVIOUS
  <1>1. PipesInv'
    BY PipesKeep DEF CountInv
  <1>2. CASE UNCHANGED mrVars
    <2>1. UNCHANGED <<mainPc, mainI, status, pipe, unsent, datastore, input, mapperName, broken>>
      BY <1>2 DEF mrVars
    <2>2. \A i \in Parts : Started(Splitter(i))' <=> Started(Splitter(i))
      BY <2>1 DEF Started
    <2>3. CountTypes' /\ WaitsHold'
      BY <2>1, TypesKept, WaitsStay DEF CountInv
    <2>4. AllCounted'
      BY <2>1, <2>2, PlacesKept, CountKept DEF CountInv
    <2>5. QED  BY <1>1, <2>3, <2>4 DEF CountInv
  <1>3. ASSUME NEW i \in Parts, SplitterStep(i)  PROVE  CountInv'
    <2>1. Splitter(i) \in Processes \ {Main, Reducer} /\ \A j \in Parts : Splitter(i) # MapperOf(j)
      BY ProcessesDiffer
    <2>2. CASE Write(Splitter(i), i)
      BY <1>1, <2>2, SplitterWriteCounts DEF CountInv
    <2>3. ASSUME NEW how \in {"ok", "fail"}, Exit(Splitter(i), how)  PROVE  CountInv'
      BY <1>1, <2>1, <2>3, ExitCounts DEF CountInv
    <2>4. QED  BY <1>3, <2>2, <2>3 DEF SplitterStep
  <1>4. ASSUME NEW i \in Parts, MapperStep(i)  PROVE  CountInv'
    <2>1. MapperOf(i) \in Processes \ {Main, Reducer}
      BY ProcessesDiffer
    <2>2. CASE Write(MapperOf(i), 0)
      BY <1>1, <2>2, MapperWriteCounts DEF CountInv
    <2>3. CASE /\ status[MapperOf(i)] = "run" /\ unsent[MapperOf(i)] = <<>> /\ pipe[i] # <<>>
               /\ pipe' = [pipe EXCEPT ![i] = Tail(@)]
               /\ unsent' = [unsent EXCEPT ![MapperOf(i)] = mapper(Head(pipe[i]))]
               /\ UNCHANGED <<mainPc, mainI, status, ends, datastore, output>> /\ Fixed
      BY <1>1, <2>3, MapperReadCounts DEF CountInv
    <2>4. CASE Exit(MapperOf(i), "ok")
      BY <1>1, <2>1, <2>4, ExitCounts DEF CountInv
    <2>5. CASE Exit(MapperOf(i), "fail") /\ "mapper" \in broken
      BY <1>1, <2>1, <2>5, ExitCounts DEF CountInv
    <2>6. QED  BY <1>4, <2>2, <2>3, <2>4, <2>5 DEF MapperStep
  <1>5. CASE ReducerStep
    <2>1. CASE /\ status[Reducer] = "run" /\ pipe[0] # <<>>
               /\ pipe' = [pipe EXCEPT ![0] = Tail(@)]
               /\ datastore' = Reduce(datastore, Head(pipe[0]))
               /\ UNCHANGED <<mainPc, mainI, status, ends, unsent, output>> /\ Fixed
      BY <1>1, <2>1, ReducerReadCounts DEF CountInv
    <2>2. ASSUME NEW how \in {"ok", "fail"}, Exit(Reducer, how), how = "fail" => "reducer" \in broken
          PROVE  CountInv'
      <3>1. Reducer \in Processes \ {Main}
        BY ProcessesDiffer
      <3>2. \A j \in Parts : Reducer # MapperOf(j)
        BY ProcessesDiffer
      <3>3. QED  BY <1>1, <2>2, <3>1, <3>2, ExitCounts DEF CountInv
    <2>3. QED  BY <1>5, <2>1, <2>2 DEF ReducerStep
  <1>6. QED
    BY <1>2, <1>3, <1>4, <1>5, SplitterForkCounts, MapperForkCounts, ParentCounts DEF MapReduceNext

-----------------------------------------------------------------------------
LEMMA SumOfZeros ==
  ASSUME NEW S, IsFiniteSet(S), NEW f, \A x \in S : f[x] = 0
  PROVE  SumFunctionOnSet(f, S) = 0
  <1> DEFINE none == [s \in SUBSET S |-> 0]
  <1>1. Sums(none, f, S)
    BY DEF Sums
  <1>2. SumFunctionOnSet(f, S) = none[S]
    BY <1>1, SumIs
  <1>3. QED  BY <1>2

LEMMA CountedKeys ==
  ASSUME NEW K, NEW s \in Seq(K), NEW key
  PROVE  Cnt(s, key) # 0 <=> key \in Range(s)
  <1> DEFINE A == {k \in DOMAIN s : s[k] = key}
  <1>1. IsFiniteSet(A)
    <2>1. Len(s) \in Nat /\ DOMAIN s = 1..Len(s)
      BY LenProperties
    <2>2. IsFiniteSet(1..Len(s)) /\ A \subseteq 1..Len(s)
      BY <2>1, FS_Interval
    <2> HIDE DEF A
    <2>3. QED  BY <2>2, FS_Subset
  <1>2. A # {} <=> key \in Range(s)
    BY DEF Range
  <1> HIDE DEF A
  <1>3. Cardinality(A) = 0 <=> A = {}
    BY <1>1, FS_EmptySet
  <1>4. QED  BY <1>2, <1>3 DEF Cnt, A

(* At the end nothing is pending: what is in the store is all there was. *)
LEMMA OutputCounted ==
  ASSUME CountInv, mainPc = "done", broken \cap {"mapper", "reducer"} = {}
  PROVE  \A key : InStore(output.counts, key) = Tally(mapperName, Lines(input), key)
  <1>1. status[Reducer] = "ok"
    BY DEF CountInv, WaitsHold, Ended
  <1>2. /\ pipe[0] = <<>> /\ output = Written(older, datastore) /\ output.counts = datastore
        /\ \A i \in Parts : /\ Ended(MapperOf(i)) /\ status[Splitter(i)] = "ok"
                            /\ status[MapperOf(i)] # "fail" /\ unsent[Splitter(i)] = <<>>
    BY <1>1 DEF CountInv, PipesInv, Drained, WaitsHold, Written
  <1>3. \A i \in Parts : unsent[MapperOf(i)] = <<>> /\ pipe[i] = <<>>
    BY <1>2 DEF CountInv, PipesInv, Drained, Ended
  <1>4. MapsTo(mapperName, LineSet, Keys) /\ <<>> \in LineSet
    BY KeysFit, EmptySeq DEF CountInv, CountTypes, LineSet
  <1> SUFFICES ASSUME NEW key  PROVE  InStore(output.counts, key) = Tally(mapperName, Lines(input), key)
    OBVIOUS
  <1>5. Tally(mapperName, <<>>, key) = 0
    BY <1>4, TallyOfOne
  <1>6. \A i \in Parts : PendingOf(i, key) = 0
    <2> SUFFICES ASSUME NEW i \in Parts  PROVE  PendingOf(i, key) = 0
      OBVIOUS
    <2>1. HeldLines(i) = <<>>
      BY <1>2 DEF HeldLines, Started
    <2>2. Cnt(unsent[MapperOf(i)], key) = 0
      BY <1>3, CountOfOne
    <2>3. QED  BY <1>3, <1>5, <2>1, <2>2 DEF PendingOf
  <1> DEFINE f == [i \in Parts |-> PendingOf(i, key)]
  <1>7. \A i \in Parts : f[i] = 0
    BY <1>6
  <1>8. (InStore(datastore, key) + Cnt(pipe[0], key)) + SumFunctionOnSet(f, Parts)
           = Tally(mapperName, Lines(input), key)
    BY DEF CountInv, AllCounted
  <1> HIDE DEF f
  <1>9. SumFunctionOnSet(f, Parts) = 0
    BY <1>7, PartsFinite, SumOfZeros
  <1>10. Cnt(pipe[0], key) = 0
    BY <1>2, CountOfOne
  <1>11. InStore(datastore, key) \in Nat
    BY DEF InStore, CountInv, CountTypes
  <1>12. QED  BY <1>2, <1>8, <1>9, <1>10, <1>11

LEMMA InputCounted == CountInv => CountsWholeInput
  <1> SUFFICES ASSUME CountInv, mainPc = "done", broken \cap {"mapper", "reducer"} = {}
               PROVE  LET all == FlattenSeq([k \in DOMAIN Lines(input) |-> mapper(Lines(input)[k])])
                      IN  /\ DOMAIN output.counts = Range(all)
                          /\ \A key \in DOMAIN output.counts :
                                output.counts[key] = Cardinality({k \in DOMAIN all : all[k] = key})
                          /\ older <= OutputSize(output.counts) => output.tail = 0
    BY DEF CountsWholeInput
  <1> DEFINE all == FlattenSeq([k \in DOMAIN Lines(input) |-> mapper(Lines(input)[k])])
  <1>1. all = AllPairs(mapperName, Lines(input))
    BY DEF AllPairs, PairsOf, Pairs, mapper
  <1>2. all \in Seq(Keys)
    <2>1. input \in Seq(Range(input)) /\ MapsTo(mapperName, LineSet, Keys)
      BY KeysFit DEF CountInv, CountTypes
    <2>2. Lines(input) \in Seq(LineSet)
      <3>1. <<>> \in Seq(Range(input))
        BY EmptySeq
      <3>2. RunsWithout(input, NL) \in Seq(Seq(Range(input)))
        BY <2>1, <3>1, RunsOfParts
      <3>3. QED  BY <3>2 DEF Lines, LineSet
    <2>3. PairsOf(mapperName, Lines(input)) \in Seq(Seq(Keys))
      BY <2>1, <2>2, PairsOfLines
    <2> DEFINE X == Seq(Keys)
    <2>4. X \subseteq Seq(Keys)
      OBVIOUS
    <2> HIDE DEF X
    <2>5. PairsOf(mapperName, Lines(input)) \in Seq(X)
      BY <2>3 DEF X
    <2>6. FlattenSeq(PairsOf(mapperName, Lines(input))) \in Seq(Keys)
      BY <2>4, <2>5, FlatTyped
    <2>7. QED  BY <1>1, <2>6 DEF AllPairs
  <1>3. \A key : InStore(output.counts, key) = Cnt(all, key)
    BY <1>1, OutputCounted DEF Tally
  <1>4. output = Written(older, datastore) /\ output.counts = datastore /\ \A key \in DOMAIN datastore : datastore[key] \in Nat \ {0}
    <2>1. status[Reducer] = "ok"
      BY DEF CountInv, WaitsHold, Ended
    <2>2. QED  BY <2>1 DEF CountInv, CountTypes, PipesInv, Drained, Written
  <1>5. \A key : Cnt(all, key) # 0 <=> key \in Range(all)
    <2> HIDE DEF all
    <2>1. QED  BY <1>2, CountedKeys
  <1> HIDE DEF all
  <1>6. \A key : key \in DOMAIN output.counts <=> key \in Range(all)
    BY <1>3, <1>4, <1>5 DEF InStore
  <1>7. \A key \in DOMAIN output.counts : output.counts[key] = Cardinality({k \in DOMAIN all : all[k] = key})
    BY <1>3 DEF InStore, Cnt
  <1>8. DOMAIN output.counts = Range(all)
    BY <1>6
  <1>9. older <= OutputSize(output.counts) => output.tail = 0
    BY <1>4 DEF Written
  <1>10. QED  BY <1>7, <1>8, <1>9 DEF all

(* What mapreduce writes counts the pairs of the whole input, every line   *)
(* once, whenever it succeeds and the mapper and reducer programs could be *)
(* run, for any input, number of mappers, mapper program and size of the   *)
(* pipes, with forks or inputs that fail; nothing comes after the end of a *)
(* pipe; and the output file is what was written unless an older one was   *)
(* longer, whose tail open leaves there.                                   *)
THEOREM OutputExact == MapReduceSpec => []OutputCountsInput
  <1>1. MapReduceSpec => []CountInv
    BY CountStarts, CountKeeps, PTL DEF MapReduceSpec
  <1>2. CountInv => CountsWholeInput
    BY InputCounted
  <1>3. CountsWholeInput /\ NothingAfterEnd => OutputCountsInput
    BY DEF OutputCountsInput
  <1>4. QED  BY <1>1, <1>2, <1>3, NothingLost, PTL
=============================================================================

--------------------------- MODULE BarrierProofs ---------------------------
(***************************************************************************)
(* Proofs about Barrier for any number of threads and rounds.              *)
(***************************************************************************)
EXTENDS Barrier, TLAPS, FiniteSetTheorems

(* The threads that have arrived and not left. *)
InnerSet == {t \in Threads : pc[t] = "inner"}

(* The counter counts them, downwards in one phase, upwards in the other. *)
Counting ==
    /\ count <= n_threads => Cardinality(InnerSet) = n_threads - count
    /\ count > n_threads => Cardinality(InnerSet) = count - n_threads

(* Which round each thread is in, relative to times_used. *)
RoundOf(t) ==
    IF pc[t] = "inner"
      THEN /\ arrived[t] = passed[t] + 1
           /\ count <= n_threads => passed[t] = times_used
           /\ count > n_threads => passed[t] = times_used - 1
      ELSE /\ arrived[t] = passed[t]
           /\ passed[t] = times_used

InRound == \A t \in Threads : RoundOf(t)

(***************************************************************************)
(* NobodyPassesEarly alone is not inductive: that the thread which finds   *)
(* count = 1 is really the last one is known only from Counting.           *)
(***************************************************************************)
IInv == TypeOK /\ Counting /\ InRound /\ ReturnsRound /\ SleeperHasReason

(* The number of threads is a positive integer, the set of those inside    *)
(* is finite.                                                              *)
LEMMA PartySize ==
    /\ n_threads \in Nat
    /\ IsFiniteSet(InnerSet)
    /\ Cardinality(InnerSet) \in Nat
<1>1. n_threads \in Nat
  BY ThreadsAssumption, PartyAssumption, FS_CardinalityType
<1>2. InnerSet \subseteq Threads
  BY DEF InnerSet
<1> QED
  BY <1>1, <1>2, ThreadsAssumption, FS_Subset, FS_CardinalityType

(* Going from "inner" to elsewhere removes a thread from InnerSet. *)
LEMMA InnerLess ==
    ASSUME TypeOK, NEW t \in Threads, pc[t] = "inner", NEW place \in Places,
           place # "inner", Goto(t, place)
    PROVE  Cardinality(InnerSet') = Cardinality(InnerSet) - 1
<1>1. InnerSet' = InnerSet \ {t} /\ t \in InnerSet
  BY DEF InnerSet, Goto, TypeOK
<1> QED
  BY <1>1, PartySize, FS_RemoveElement

(* Going from elsewhere to "inner" adds one. *)
LEMMA InnerMore ==
    ASSUME TypeOK, NEW t \in Threads, pc[t] # "inner", Goto(t, "inner")
    PROVE  Cardinality(InnerSet') = Cardinality(InnerSet) + 1
<1>1. InnerSet' = InnerSet \union {t} /\ t \notin InnerSet
  BY DEF InnerSet, Goto, TypeOK
<1> QED
  BY <1>1, PartySize, FS_AddElement

(* Going from elsewhere to elsewhere changes nothing. *)
LEMMA InnerSame ==
    ASSUME TypeOK, NEW t \in Threads, pc[t] # "inner", NEW place \in Places,
           place # "inner", Goto(t, place)
    PROVE  InnerSet' = InnerSet
  BY DEF InnerSet, Goto, TypeOK

(* The thread that finds count = 1 finds everybody else inside. *)
LEMMA LastIsLast ==
    ASSUME TypeOK, Counting, NEW t \in Threads, pc[t] # "inner", count = 1
    PROVE  /\ \A u \in Threads \ {t} : pc[u] = "inner"
           /\ Cardinality(InnerSet) = n_threads - 1
<1>1. Cardinality(InnerSet) = n_threads - 1
  BY PartySize, PartyAssumption DEF Counting
<1>2. t \notin InnerSet /\ InnerSet \subseteq Threads
  BY DEF InnerSet
<1>3. Cardinality(InnerSet \union {t}) = n_threads
  BY <1>1, <1>2, PartySize, FS_AddElement
<1>4. InnerSet \union {t} = Threads
  BY <1>2, <1>3, ThreadsAssumption, PartyAssumption, FS_Subset
<1> QED
  BY <1>1, <1>4 DEF InnerSet

(* When nobody has to leave, nobody is inside. *)
LEMMA FullCountMeansEmpty ==
    ASSUME TypeOK, Counting, count = n_threads
    PROVE  \A t \in Threads : pc[t] # "inner"
<1>1. Cardinality(InnerSet) = 0
  BY PartySize DEF Counting
<1>2. InnerSet = {}
  BY <1>1, PartySize, FS_EmptySet
<1> QED
  BY <1>2 DEF InnerSet

-----------------------------------------------------------------------------
(* barrier_init establishes the invariant. *)
LEMMA InitIInv == Init => IInv
<1> SUFFICES ASSUME Init PROVE IInv
  OBVIOUS
<1>1. n_threads \in Nat /\ n_threads > 0
  BY PartySize, PartyAssumption
<1>2. TypeOK
  BY <1>1 DEF Init, TypeOK, Places
<1>3. Counting
  <2>1. InnerSet = {}
    BY DEF Init, InnerSet
  <2> QED
    BY <1>1, <2>1, FS_EmptySet DEF Init, Counting
<1>4. InRound /\ ReturnsRound /\ SleeperHasReason
  BY DEF Init, InRound, RoundOf, ReturnsRound, SleeperHasReason
<1> QED
  BY <1>2, <1>3, <1>4 DEF IInv

(* Steps that move no thread in or out and leave the counters alone. *)
LEMMA QuietStep ==
    ASSUME IInv, UNCHANGED <<count, times_used, arrived, passed>>,
           InnerSet' = InnerSet, TypeOK'
    PROVE  Counting' /\ InRound'
<1>1. Counting'
  BY DEF IInv, Counting
<1>2. \A t \in Threads : pc'[t] = "inner" <=> pc[t] = "inner"
  BY DEF InnerSet
<1>3. InRound'
  BY <1>2 DEF IInv, InRound, RoundOf
<1> QED
  BY <1>1, <1>3

(* Every step preserves the invariant. *)
LEMMA NextIInv == IInv /\ [Next]_vars => IInv'
<1> SUFFICES ASSUME IInv, [Next]_vars PROVE IInv'
  OBVIOUS
<1>n. n_threads \in Nat /\ n_threads > 0
  BY PartySize, PartyAssumption
<1>t. TypeOK /\ Counting /\ InRound /\ ReturnsRound /\ SleeperHasReason
  BY DEF IInv
<1>1. ASSUME NEW t \in Threads, Call(t) PROVE IInv'
  <2>1. TypeOK'
    BY <1>1, <1>t DEF TypeOK, Call, Goto, Places
  <2>2. InnerSet' = InnerSet
    BY <1>1, <1>t, InnerSame DEF Call, Places
  <2>3. Counting' /\ InRound'
    BY <1>1, <2>1, <2>2, QuietStep DEF Call
  <2>4. ReturnsRound' /\ SleeperHasReason'
    BY <1>1, <1>t DEF TypeOK, ReturnsRound, SleeperHasReason, Call, Goto
  <2> QED
    BY <2>1, <2>3, <2>4 DEF IInv
<1>2. ASSUME NEW t \in Threads, EntryBlock(t) \/ InnerBlock(t) PROVE IInv'
  <2>1. TypeOK'
    BY <1>2, <1>t DEF TypeOK, EntryBlock, InnerBlock, HoldsMutex, Block
  <2>2. UNCHANGED <<count, times_used, pc, arrived, passed, result>>
    BY <1>2 DEF EntryBlock, InnerBlock, Block
  <2>3. Counting' /\ InRound'
    BY <2>1, <2>2, QuietStep DEF InnerSet
  <2>4. ReturnsRound' /\ SleeperHasReason'
    BY <1>2, <1>t DEF ReturnsRound, SleeperHasReason, EntryBlock, InnerBlock,
                      HoldsMutex, Block
  <2> QED
    BY <2>1, <2>3, <2>4 DEF IInv
<1>3. ASSUME NEW t \in Threads, Arrive(t) PROVE IInv'
  <2>1. pc[t] = "entry" /\ count <= n_threads /\ count \in 2 .. n_threads
    BY <1>3, <1>t, <1>n DEF Arrive, HoldsMutex, TypeOK
  <2>2. TypeOK'
    BY <1>3, <1>t, <1>n, <2>1 DEF TypeOK, Arrive, Goto, Places
  <2>3. Cardinality(InnerSet') = Cardinality(InnerSet) + 1
    BY <1>3, <1>t, <2>1, InnerMore DEF Arrive
  <2>4. Counting'
    BY <1>3, <1>t, <1>n, <2>1, <2>3, PartySize DEF Counting, Arrive
  <2>5. InRound'
    BY <1>3, <1>t, <1>n, <2>1 DEF TypeOK, InRound, RoundOf, Arrive, Goto
  <2>6. ReturnsRound' /\ SleeperHasReason'
    BY <1>3, <1>t, <1>n, <2>1 DEF TypeOK, ReturnsRound, SleeperHasReason,
                                  Arrive, Goto
  <2> QED
    BY <2>2, <2>4, <2>5, <2>6 DEF IInv
<1>4. ASSUME NEW t \in Threads, ArriveLast(t) PROVE IInv'
  <2>1. pc[t] = "entry" /\ count = 1 /\ t \notin waiting
    BY <1>4 DEF ArriveLast, HoldsMutex
  <2>2. /\ \A u \in Threads \ {t} : pc[u] = "inner"
        /\ Cardinality(InnerSet) = n_threads - 1
    BY <1>t, <2>1, LastIsLast
  <2>3. TypeOK'
    BY <1>4, <1>t, <1>n, <2>1 DEF TypeOK, ArriveLast, Goto, Places
  <2>4. InnerSet' = InnerSet
    BY <1>4, <1>t, <2>1, InnerSame DEF ArriveLast, Places
  <2>5. Counting'
    <3>1. count' = 2 * n_threads - 1
      BY <1>4 DEF ArriveLast
    <3> QED
      BY <1>n, <2>2, <2>4, <3>1 DEF Counting
  <2>6. InRound'
    <3> SUFFICES ASSUME NEW u \in Threads PROVE RoundOf(u)'
      BY DEF InRound
    <3>1. CASE u = t
      BY <1>4, <1>t, <2>1, <3>1 DEF TypeOK, InRound, RoundOf, ArriveLast, Goto
    <3>2. CASE u # t
      <4>1. pc[u] = "inner" /\ pc'[u] = "inner"
        BY <1>4, <1>t, <2>2, <3>2 DEF TypeOK, ArriveLast, Goto
      <4>2. n_threads # 1
        <5>1. u \in InnerSet
          BY <4>1 DEF InnerSet
        <5> QED
          BY <2>2, <5>1, PartySize, FS_EmptySet
      <4>3. count' > n_threads
        BY <1>4, <1>n, <4>2 DEF ArriveLast
      <4>4. arrived'[u] = arrived[u] /\ passed'[u] = passed[u]
        BY <1>4, <1>t, <3>2 DEF TypeOK, ArriveLast
      <4>5. arrived[u] = passed[u] + 1 /\ passed[u] = times_used
        BY <1>t, <1>n, <2>1, <4>1 DEF InRound, RoundOf
      <4>6. count' \in Int /\ times_used' = times_used + 1 /\ times_used \in Nat
        BY <1>4, <1>n, <1>t DEF TypeOK, ArriveLast
      <4> QED
        BY <1>n, <4>1, <4>3, <4>4, <4>5, <4>6 DEF RoundOf
    <3> QED
      BY <3>1, <3>2
  <2>7. ReturnsRound' /\ SleeperHasReason'
    <3>1. pc'[t] = "unlocked"
      BY <1>4, <1>t DEF TypeOK, ArriveLast, Goto
    <3> QED
      BY <1>4, <1>t, <3>1 DEF TypeOK, ReturnsRound, SleeperHasReason,
                              ArriveLast, Goto
  <2> QED
    BY <2>3, <2>5, <2>6, <2>7 DEF IInv
<1>5. ASSUME NEW t \in Threads, Leave(t) PROVE IInv'
  <2>1. pc[t] = "inner" /\ t \notin waiting /\ count \in n_threads .. 2 * n_threads - 1
    BY <1>5, <1>t, <1>n DEF Leave, HoldsMutex, TypeOK
  <2>2. count > n_threads
    BY <1>t, <1>n, <2>1, FullCountMeansEmpty
  <2>3. TypeOK'
    BY <1>5, <1>t, <1>n, <2>1, <2>2 DEF TypeOK, Leave, Goto, Places
  <2>4. Cardinality(InnerSet') = Cardinality(InnerSet) - 1
    BY <1>5, <1>t, <2>1, InnerLess DEF Leave, Places
  <2>5. Counting'
    BY <1>5, <1>t, <1>n, <2>1, <2>2, <2>4, PartySize DEF Counting, Leave
  <2>6. InRound'
    <3>0. count' = n_threads => \A u \in Threads : pc'[u] # "inner"
      <4>1. ASSUME count' = n_threads PROVE InnerSet' = {}
        <5>1. Cardinality(InnerSet) = 1
          BY <1>5, <1>t, <1>n, <2>1, <2>2, <4>1 DEF Leave, Counting
        <5>2. InnerSet' = InnerSet \ {t} /\ t \in InnerSet
          BY <1>5, <1>t, <2>1 DEF Leave, Goto, InnerSet, TypeOK
        <5> QED
          BY <5>1, <5>2, PartySize, FS_Singleton
      <4> QED
        BY <4>1 DEF InnerSet
    <3> SUFFICES ASSUME NEW u \in Threads PROVE RoundOf(u)'
      BY DEF InRound
    <3>1. count' = count - 1 /\ count' >= n_threads /\ count' \in Int
      BY <1>5, <1>n, <2>1, <2>2 DEF Leave
    <3>2. CASE u = t
      BY <1>5, <1>t, <1>n, <2>1, <2>2, <3>2
         DEF TypeOK, InRound, RoundOf, Leave, Goto
    <3>3. CASE u # t
      <4>1. /\ pc'[u] = pc[u] /\ arrived'[u] = arrived[u]
            /\ passed'[u] = passed[u] /\ times_used' = times_used
        BY <1>5, <1>t, <3>3 DEF TypeOK, Leave, Goto
      <4>2. pc'[u] = "inner" => count' > n_threads
        BY <1>n, <3>0, <3>1
      <4> QED
        BY <1>t, <1>n, <2>1, <2>2, <3>1, <4>1, <4>2 DEF InRound, RoundOf
    <3> QED
      BY <3>2, <3>3
  <2>7. ReturnsRound' /\ SleeperHasReason'
    <3>1. pc'[t] = "unlocked"
      BY <1>5, <1>t DEF TypeOK, Leave, Goto
    <3> QED
      BY <1>5, <1>t, <3>1 DEF TypeOK, ReturnsRound, SleeperHasReason,
                              Leave, Goto
  <2> QED
    BY <2>3, <2>5, <2>6, <2>7 DEF IInv
<1>6. ASSUME NEW t \in Threads, Broadcast(t) PROVE IInv'
  <2>1. TypeOK'
    BY <1>6, <1>t DEF TypeOK, Broadcast, Goto, Places
  <2>2. InnerSet' = InnerSet
    BY <1>6, <1>t, InnerSame DEF Broadcast, Places
  <2>3. Counting' /\ InRound'
    BY <1>6, <2>1, <2>2, QuietStep DEF Broadcast
  <2>4. ReturnsRound' /\ SleeperHasReason'
    BY <1>6, <1>t DEF TypeOK, ReturnsRound, SleeperHasReason, Broadcast, Goto
  <2> QED
    BY <2>1, <2>3, <2>4 DEF IInv
<1>7. ASSUME NEW t \in Threads, ReturnTimesUsed(t) PROVE IInv'
  <2>1. TypeOK'
    BY <1>7, <1>t DEF TypeOK, ReturnTimesUsed, Goto, Places
  <2>2. InnerSet' = InnerSet
    BY <1>7, <1>t, InnerSame DEF ReturnTimesUsed, Places
  <2>3. Counting' /\ InRound'
    BY <1>7, <2>1, <2>2, QuietStep DEF ReturnTimesUsed
  <2>4. passed[t] = times_used
    BY <1>7, <1>t DEF ReturnTimesUsed, InRound, RoundOf
  <2>5. ReturnsRound' /\ SleeperHasReason'
    BY <1>7, <1>t, <2>4 DEF TypeOK, ReturnsRound, SleeperHasReason,
                            ReturnTimesUsed, Goto
  <2> QED
    BY <2>1, <2>3, <2>5 DEF IInv
<1>8. ASSUME NEW t \in Threads, SpuriousWakeup(t) PROVE IInv'
  <2>1. TypeOK'
    BY <1>8, <1>t DEF TypeOK, SpuriousWakeup
  <2>2. Counting' /\ InRound'
    BY <1>8, <2>1, QuietStep DEF SpuriousWakeup, InnerSet
  <2>3. ReturnsRound' /\ SleeperHasReason'
    BY <1>8, <1>t DEF ReturnsRound, SleeperHasReason, SpuriousWakeup
  <2> QED
    BY <2>1, <2>2, <2>3 DEF IInv
<1>9. ASSUME UNCHANGED vars PROVE IInv'
  <2>1. TypeOK' /\ ReturnsRound' /\ SleeperHasReason'
    BY <1>9, <1>t DEF vars, TypeOK, ReturnsRound, SleeperHasReason
  <2>2. Counting' /\ InRound'
    BY <1>9, <2>1, QuietStep DEF vars, InnerSet
  <2> QED
    BY <2>1, <2>2 DEF IInv
<1> QED
  BY <1>1, <1>2, <1>3, <1>4, <1>5, <1>6, <1>7, <1>8, <1>9
     DEF Next, Step, Joined

(* The invariant holds in every reachable state of the barrier. *)
THEOREM Invariance == Spec => []IInv
  BY InitIInv, NextIInv, PTL DEF Spec

(***************************************************************************)
(* No thread passes round k of barrier_wait before every thread has        *)
(* arrived at round k, for any number of threads.                          *)
(***************************************************************************)
THEOREM BarrierHolds == Spec => []NobodyPassesEarly
<1>1. IInv => NobodyPassesEarly
  <2> SUFFICES ASSUME IInv, NEW t \in Threads, NEW u \in Threads
               PROVE  passed[t] <= arrived[u]
    BY DEF NobodyPassesEarly
  <2>1. TypeOK /\ n_threads \in Nat /\ RoundOf(t) /\ RoundOf(u)
    BY PartySize DEF IInv, InRound
  <2>2. CASE count <= n_threads
    BY <2>1, <2>2 DEF TypeOK, RoundOf
  <2>3. CASE count > n_threads
    BY <2>1, <2>3 DEF TypeOK, RoundOf
  <2> QED
    BY <2>1, <2>2, <2>3 DEF TypeOK
<1> QED
  BY <1>1, Invariance, PTL

(* What barrier_wait returns after the unlock is the caller's own round. *)
THEOREM ResultIsRound == Spec => []ReturnsRound
<1>1. IInv => ReturnsRound
  BY DEF IInv
<1> QED
  BY <1>1, Invariance, PTL

(* No wakeup is lost between the unlock and the broadcast. *)
THEOREM NoWakeupLost == Spec => []SleeperHasReason
<1>1. IInv => SleeperHasReason
  BY DEF IInv
<1> QED
  BY <1>1, Invariance, PTL

(* barrier_wait implements the abstract barrier of RoundBarrier. *)
THEOREM RefinesBarrier == Spec => ImplementsBarrier
<1>1. Init => Rendezvous!RBInit
  BY DEF Init, Rendezvous!RBInit
<1>2. IInv /\ [Next]_vars => [Rendezvous!RBNext]_Rendezvous!rbVars
  <2> SUFFICES ASSUME IInv, [Next]_vars
               PROVE  [Rendezvous!RBNext]_Rendezvous!rbVars
    OBVIOUS
  <2>n. n_threads \in Nat /\ n_threads > 0
    BY PartySize, PartyAssumption
  <2>t. TypeOK /\ Counting /\ InRound
    BY DEF IInv
  <2>1. ASSUME NEW t \in Threads, Arrive(t) PROVE Rendezvous!RBArrive(t)
    BY <2>1, <2>t DEF Arrive, HoldsMutex, InRound, RoundOf,
                      Rendezvous!RBArrive
  <2>2. ASSUME NEW t \in Threads, ArriveLast(t)
        PROVE  Rendezvous!RBArriveAndPass(t)
    <3>1. pc[t] = "entry" /\ count = 1
      BY <2>2 DEF ArriveLast, HoldsMutex
    <3>2. \A u \in Threads \ {t} : pc[u] = "inner"
      BY <2>t, <3>1, LastIsLast
    <3>3. arrived[t] = passed[t] /\ passed[t] = times_used
      BY <2>t, <3>1 DEF InRound, RoundOf
    <3>4. \A u \in Threads \ {t} : passed[t] < arrived[u]
      BY <2>t, <2>n, <3>1, <3>2, <3>3 DEF InRound, RoundOf, TypeOK
    <3> QED
      BY <2>2, <3>3, <3>4 DEF ArriveLast, Rendezvous!RBArriveAndPass
  <2>3. ASSUME NEW t \in Threads, Leave(t) PROVE Rendezvous!RBPass(t)
    <3>1. pc[t] = "inner" /\ count >= n_threads
      BY <2>3 DEF Leave, HoldsMutex
    <3>2. count > n_threads
      BY <2>t, <2>n, <3>1, FullCountMeansEmpty DEF TypeOK
    <3>3. \A u \in Threads : passed[t] < arrived[u]
      BY <2>t, <2>n, <3>1, <3>2 DEF InRound, RoundOf, TypeOK
    <3> QED
      BY <2>3, <3>3 DEF Leave, Rendezvous!RBPass
  <2>4. ASSUME NEW t \in Threads,
               \/ Call(t) \/ EntryBlock(t) \/ InnerBlock(t) \/ Broadcast(t)
               \/ ReturnTimesUsed(t) \/ SpuriousWakeup(t)
        PROVE  UNCHANGED Rendezvous!rbVars
    BY <2>4 DEF Call, EntryBlock, InnerBlock, Block, Broadcast,
                ReturnTimesUsed, SpuriousWakeup, Rendezvous!rbVars
  <2>5. ASSUME UNCHANGED vars PROVE UNCHANGED Rendezvous!rbVars
    BY <2>5 DEF vars, Rendezvous!rbVars
  <2> QED
    BY <2>1, <2>2, <2>3, <2>4, <2>5 DEF Next, Step, Joined, Rendezvous!RBNext
<1> QED
  BY <1>1, <1>2, Invariance, PTL DEF Spec, ImplementsBarrier, Rendezvous!RBSpec

=============================================================================

---------------------------- MODULE MemoryProofs ----------------------------
(***************************************************************************)
(* Proofs about the two components that manage memory, Malloc and Mmu.     *)
(*                                                                         *)
(* Malloc, for any header size, heap limit and sizes: blocks never         *)
(* overlap, callers keep what they hold, and both linked lists say what    *)
(* the memory is.  Each helper gets a lemma that says what it does to the  *)
(* fields of a heap and one that says which part of the invariant it       *)
(* keeps.  The invariant is stated for any heap, as malloc and free pass   *)
(* through heaps in which a block is on neither list or next to a free     *)
(* one.                                                                    *)
(*                                                                         *)
(* Mmu, for any processes, pages, frames and TLB: every page holds what    *)
(* its process wrote last, no frame has two uses, and the TLB points into  *)
(* the tables of the current process only.  The invariant is stated for a  *)
(* memory m, directories D and tables E, as a handler passes through       *)
(* memories in which a frame it asked for has no use yet (Fresh).          *)
(***************************************************************************)
EXTENDS Malloc, Mmu, TLAPS, FiniteSetTheorems, WellFoundedInduction

Used(H)  == {p \in H.blocks : H.free[p] = 0}
Frees(H) == {p \in H.blocks : H.free[p] = 1}

(* Blocks lie side by side, below the break. *)
Layout(H) ==
    /\ \A p \in H.blocks : p + META + H.size[p] <= H.brk
    /\ \A p, q \in H.blocks : p < q => p + META + H.size[p] <= q

(* next leads to the block that follows in memory, and prev leads back. *)
NextIsNeighbour(H) ==
    \A p \in H.blocks :
        IF H.next[p] = NULL
          THEN H.tail = p /\ \A q \in H.blocks : q <= p
          ELSE /\ H.next[p] \in H.blocks /\ H.next[p] > p
               /\ \A q \in H.blocks : q > p => q >= H.next[p]
               /\ H.prev[H.next[p]] = p

PrevIsNeighbour(H) ==
    \A p \in H.blocks :
        IF H.prev[p] = NULL
          THEN \A q \in H.blocks : p <= q
          ELSE H.prev[p] \in H.blocks /\ H.next[H.prev[p]] = p

TailIsLast(H) ==
    IF H.tail = NULL THEN H.blocks = {} ELSE H.tail \in H.blocks /\ H.next[H.tail] = NULL

Shape(H) ==
    H \in Heap /\ Layout(H) /\ NextIsNeighbour(H) /\ PrevIsNeighbour(H) /\ TailIsLast(H)

(* f is the free list: its k-th block, NULL behind its end. *)
HeapPlaces == 0 .. HeapLimit

Walk(H, f) ==
    /\ f \in [HeapPlaces -> Link]
    /\ f[0] = H.freehead
    /\ \A k \in 1 .. HeapLimit :
          f[k] = IF f[k - 1] = NULL THEN NULL ELSE H.freenext[f[k - 1]]

(* f has the blocks of F, each once, and freeprev leads back. *)
Lists(H, F, f) ==
    /\ Walk(H, f)
    /\ \A k \in HeapPlaces : f[k] # NULL => f[k] \in F
    /\ \A x \in F : \E k \in HeapPlaces : f[k] = x
    /\ \A j, k \in HeapPlaces : f[j] = f[k] /\ f[j] # NULL => j = k
    /\ \A j, k \in HeapPlaces : j <= k /\ f[k] # NULL => f[j] # NULL
    /\ \A k \in HeapPlaces : f[k] # NULL => H.freeprev[f[k]] = IF k = 0 THEN NULL ELSE f[k - 1]

Listed(H, F) == Lists(H, F, FreeAt(H))

(* No two neighbours are free, those next to p aside. *)
CoalescedBut(H, p) ==
    \A x \in Frees(H) \ {p} : H.next[x] \notin {NULL, p} => H.free[H.next[x]] = 0

(* The blocks in use in H, p aside, are in use in K and as large. *)
Keeps(H, K, p) ==
    \A q \in Used(H) \ {p} : q \in Used(K) /\ K.size[q] = H.size[q]

(* A heap between two calls. *)
Good(H) ==
    /\ Shape(H)
    /\ Listed(H, Frees(H))
    /\ CoalescedBut(H, NULL)

(* A heap in which p was just freed and is not on the list yet. *)
GoodBut(H, p) ==
    /\ Shape(H)
    /\ p \in Frees(H)
    /\ Listed(H, Frees(H) \ {p})
    /\ CoalescedBut(H, p)

(* The products that callers ask calloc for fit a size_t (calloc does not  *)
(* look for overflow).                                                     *)
ProductsFit == \A num \in Counts, size \in Sizes : num * size < SIZE_MOD

(***************************************************************************)
(* MemoryIsSafe is not inductive: that a block taken from the free list is *)
(* free, and that the blocks merged are neighbours, is what the lists say. *)
(***************************************************************************)
Intact(H, L) ==
    \A p \in Addr : L[p] # 0 => p \in Used(H) /\ (ProductsFit => H.size[p] >= L[p])

HeapInv ==
    /\ Good(heap)
    /\ live \in [Addr -> Nat]
    /\ Intact(heap, live)

-----------------------------------------------------------------------------
(* The free list as a function. *)

LEMMA LeastExists ==
    ASSUME NEW S \in SUBSET Nat, S # {}
    PROVE  \E m \in S : \A n \in S : m <= n
<1>1. PICK m \in S : \A n \in S : ~(<<n, m>> \in OpToRel(<, Nat))
  BY NatLessThanWellFounded, WFMin, Zenon
<1>2. \A n \in S : ~(n < m)
  BY <1>1 DEF OpToRel
<1> QED
  BY <1>2

LEMMA SizesAreNat == Sizes \subseteq Nat /\ Counts \subseteq Nat
BY SizesAssumption

LEMMA Constants ==
    /\ META \in Nat \ {0} /\ HeapLimit \in Nat
    /\ NULL \notin Addr /\ NULL \in Link /\ Addr \subseteq Nat /\ Addr \subseteq Link
BY MetaAssumption, LimitAssumption DEF Addr, Link, NULL

(* FreeAt is the walk, where there is one. *)
LEMMA FreeAtIsWalk ==
    ASSUME NEW H, NEW f, Walk(H, f)
    PROVE  FreeAt(H) = f
<1> DEFINE Step(g) == [k \in 0 .. HeapLimit |->
                          IF k = 0 THEN H.freehead
                          ELSE IF g[k - 1] = NULL THEN NULL ELSE H.freenext[g[k - 1]]]
<1>1. f = Step(f)
  <2>1. f \in [HeapPlaces -> Link] /\ 0 \in HeapPlaces
    BY Constants DEF Walk, HeapPlaces
  <2>2. ASSUME NEW k \in 0 .. HeapLimit
        PROVE  f[k] = Step(f)[k]
    <3>1. CASE k = 0
      BY <3>1 DEF Walk
    <3>2. CASE k # 0
      BY <3>2, Constants DEF Walk
    <3> QED
      BY <3>1, <3>2
  <2> QED
    BY <2>1, <2>2 DEF HeapPlaces
<1>2. FreeAt(H) = CHOOSE g : g = Step(g)
  BY DEF FreeAt
<1>3. FreeAt(H) = Step(FreeAt(H))
  <2> HIDE DEF Step
  <2> QED
    BY <1>1, <1>2, Zenon
<1> DEFINE at  == FreeAt(H)
           Bad == {k \in HeapPlaces : f[k] # at[k]}
<1>4. Bad = {}
  <2> SUFFICES ASSUME Bad # {} PROVE FALSE
    OBVIOUS
  <2>1. Bad \in SUBSET Nat
    BY Constants DEF HeapPlaces
  <2>2. PICK k \in Bad : \A n \in Bad : k <= n
    BY <2>1, LeastExists
  <2>3. k \in HeapPlaces /\ f[k] = Step(f)[k] /\ at[k] = Step(at)[k]
    BY <1>1, <1>3, <2>2
  <2>4. k # 0
    BY <2>2, <2>3 DEF HeapPlaces
  <2>5. k - 1 \in HeapPlaces
    BY <2>3, <2>4, Constants DEF HeapPlaces
  <2>6. f[k - 1] = at[k - 1]
    BY <2>2, <2>5, Constants DEF HeapPlaces
  <2> QED
    BY <2>2, <2>3, <2>4, <2>6 DEF HeapPlaces
<1>5. /\ f \in [HeapPlaces -> Link]
      /\ at = [k \in HeapPlaces |-> at[k]]
  BY <1>3 DEF Walk, HeapPlaces
<1> QED
  BY <1>4, <1>5

(* A list of blocks has fewer than there are places. *)
LEMMA ListEnds ==
    ASSUME NEW H, NEW F \in SUBSET Addr, NEW f, Lists(H, F, f)
    PROVE  f[HeapLimit] = NULL
<1> SUFFICES ASSUME f[HeapLimit] # NULL PROVE FALSE
  OBVIOUS
<1>1. f \in [HeapPlaces -> Addr]
  <2>1. \A k \in HeapPlaces : k <= HeapLimit
    BY Constants DEF HeapPlaces
  <2>2. \A k \in HeapPlaces : f[k] # NULL
    BY <2>1, Constants DEF Lists, HeapPlaces
  <2> QED
    BY <2>2 DEF Lists, Walk
<1>2. /\ IsFiniteSet(HeapPlaces) /\ Cardinality(HeapPlaces) = HeapLimit + 1
      /\ IsFiniteSet(Addr) /\ Cardinality(Addr) = HeapLimit
  <2>1. HeapLimit \in Int
    BY Constants
  <2>2. Cardinality(0 .. HeapLimit) = HeapLimit + 1 /\ IsFiniteSet(0 .. HeapLimit)
    BY <2>1, FS_Interval, Constants
  <2>3. Cardinality(1 .. HeapLimit) = HeapLimit /\ IsFiniteSet(1 .. HeapLimit)
    BY <2>1, FS_Interval, Constants
  <2> QED
    BY <2>2, <2>3 DEF HeapPlaces, Addr
<1>3. Cardinality(Addr) < Cardinality(HeapPlaces)
  BY <1>2, Constants
<1>4. PICK j, k \in HeapPlaces : j # k /\ f[j] = f[k]
  BY <1>1, <1>2, <1>3, FS_PigeonHole
<1>5. f[j] # NULL
  BY <1>1, Constants
<1> QED
  BY <1>4, <1>5 DEF Lists

(* What does not touch the links of the listed blocks keeps the list. *)
LEMMA ListKept ==
    ASSUME NEW H, NEW K, NEW F, Listed(H, F),
           K.freehead = H.freehead,
           \A x \in F : K.freenext[x] = H.freenext[x] /\ K.freeprev[x] = H.freeprev[x]
    PROVE  Listed(K, F)
<1> DEFINE f == FreeAt(H)
<1> HIDE DEF f
<1>1. Lists(H, F, f)
  BY DEF Listed, f
<1>2. Walk(K, f)
  <2>1. \A k \in 1 .. HeapLimit : k - 1 \in HeapPlaces
    BY Constants DEF HeapPlaces
  <2> QED
    BY <1>1, <2>1 DEF Lists, Walk
<1>3. Lists(K, F, f)
  BY <1>1, <1>2 DEF Lists
<1> QED
  BY <1>2, <1>3, FreeAtIsWalk DEF Listed

(* A block put in front of the list. *)
LEMMA ListInsert ==
    ASSUME NEW H, NEW K, NEW F \in SUBSET Addr, NEW p \in Addr, p \notin F, Listed(H, F),
           K.freehead = p, K.freenext[p] = H.freehead, K.freeprev[p] = NULL,
           \A x \in F : K.freenext[x] = H.freenext[x],
           \A x \in F : K.freeprev[x] = IF x = H.freehead THEN p ELSE H.freeprev[x]
    PROVE  Listed(K, F \union {p})
<1> DEFINE f == FreeAt(H)
           g == [k \in HeapPlaces |-> IF k = 0 THEN p ELSE f[k - 1]]
<1> HIDE DEF f
<1>1. Lists(H, F, f) /\ f \in [HeapPlaces -> Link] /\ f[HeapLimit] = NULL /\ f[0] = H.freehead
  BY ListEnds DEF Listed, f, Lists, Walk
<1>2. \A k \in HeapPlaces : k # 0 => k - 1 \in HeapPlaces /\ k \in 1 .. HeapLimit
  BY Constants DEF HeapPlaces
<1>3. g \in [HeapPlaces -> Link] /\ 0 \in HeapPlaces /\ g[0] = p
  BY <1>1, <1>2, Constants DEF HeapPlaces
<1>4. \A k \in HeapPlaces : k # 0 => g[k] = f[k - 1]
  OBVIOUS
<1>5. p # NULL
  BY Constants
<1> HIDE DEF g
<1>6. Walk(K, g)
  <2>1. ASSUME NEW k \in 1 .. HeapLimit
        PROVE  g[k] = IF g[k - 1] = NULL THEN NULL ELSE K.freenext[g[k - 1]]
    <3>1. k \in HeapPlaces /\ k # 0 /\ g[k] = f[k - 1] /\ k - 1 \in HeapPlaces
      BY <1>2, <1>4, Constants DEF HeapPlaces
    <3>2. CASE k = 1
      BY <1>1, <1>3, <1>5, <3>1, <3>2
    <3>3. CASE k # 1
      <4>1. k - 1 \in 1 .. HeapLimit /\ k - 2 \in HeapPlaces /\ (k - 1) - 1 = k - 2
        BY <3>3, Constants DEF HeapPlaces
      <4>2. g[k - 1] = f[k - 2]
        BY <1>4, <3>1, <4>1
      <4>3. f[k - 1] = IF f[k - 2] = NULL THEN NULL ELSE H.freenext[f[k - 2]]
        BY <1>1, <4>1 DEF Lists, Walk
      <4>4. f[k - 2] # NULL => f[k - 2] \in F
        BY <1>1, <4>1 DEF Lists
      <4> QED
        BY <3>1, <4>2, <4>3, <4>4
    <3> QED
      BY <3>2, <3>3
  <2> QED
    BY <1>3, <2>1 DEF Walk
<1>7. \A k \in HeapPlaces : g[k] # NULL => g[k] \in F \union {p}
  BY <1>1, <1>2, <1>3, <1>4 DEF Lists
<1>8. ASSUME NEW x \in F \union {p} PROVE \E k \in HeapPlaces : g[k] = x
  <2>1. CASE x = p
    BY <1>3, <2>1
  <2>2. CASE x \in F
    <3>1. PICK k \in HeapPlaces : f[k] = x
      BY <1>1, <2>2 DEF Lists
    <3>2. k # HeapLimit
      BY <1>1, <2>2, <3>1, Constants
    <3>3. k + 1 \in HeapPlaces /\ k + 1 # 0 /\ (k + 1) - 1 = k
      BY <3>1, <3>2, Constants DEF HeapPlaces
    <3>4. g[k + 1] = x
      BY <1>4, <3>1, <3>3
    <3> QED
      BY <3>3, <3>4
  <2> QED
    BY <2>1, <2>2
<1>9. ASSUME NEW j \in HeapPlaces, NEW k \in HeapPlaces, g[j] = g[k], g[j] # NULL
      PROVE  j = k
  <2>1. CASE j # 0 /\ k # 0
    <3>1. j - 1 = k - 1
      BY <1>1, <1>2, <1>4, <1>9, <2>1 DEF Lists
    <3> QED
      BY <3>1, Constants DEF HeapPlaces
  <2>2. CASE j = 0 \/ k = 0
    BY <1>1, <1>2, <1>3, <1>4, <1>9, <2>2 DEF Lists
  <2> QED
    BY <2>1, <2>2
<1>10. ASSUME NEW j \in HeapPlaces, NEW k \in HeapPlaces, j <= k, g[k] # NULL
       PROVE  g[j] # NULL
  <2>1. CASE j = 0
    BY <1>3, <1>5, <2>1
  <2>2. CASE j # 0
    <3>1. k # 0 /\ j - 1 <= k - 1
      BY <1>10, <2>2, Constants DEF HeapPlaces
    <3> QED
      BY <1>1, <1>2, <1>4, <1>10, <2>2, <3>1 DEF Lists
  <2> QED
    BY <2>1, <2>2
<1>11. ASSUME NEW k \in HeapPlaces, g[k] # NULL
       PROVE  K.freeprev[g[k]] = IF k = 0 THEN NULL ELSE g[k - 1]
  <2>1. CASE k = 0
    BY <1>3, <2>1
  <2>2. CASE k # 0
    <3>1. k - 1 \in HeapPlaces /\ g[k] = f[k - 1] /\ f[k - 1] \in F
      BY <1>1, <1>2, <1>4, <1>11, <2>2 DEF Lists
    <3>2. CASE k = 1
      BY <1>1, <1>3, <3>1, <3>2
    <3>3. CASE k # 1
      <4>1. k - 2 \in HeapPlaces /\ k - 1 # 0 /\ (k - 1) - 1 = k - 2
        BY <2>2, <3>3, Constants DEF HeapPlaces
      <4>2. f[k - 1] # H.freehead
        <5>1. \A i, j \in HeapPlaces : f[i] = f[j] /\ f[i] # NULL => i = j
          BY <1>1 DEF Lists
        <5>2. f[k - 1] # NULL
          BY <1>11, <3>1
        <5>3. f[0] = H.freehead /\ 0 \in HeapPlaces /\ k - 1 \in HeapPlaces /\ k - 1 # 0
          BY <1>1, <1>3, <3>1, <4>1
        <5>4. f[k - 1] # f[0]
          BY <5>1, <5>2, <5>3
        <5> QED
          BY <5>3, <5>4
      <4>3. H.freeprev[f[k - 1]] = f[k - 2]
        <5>1. \A i \in HeapPlaces : f[i] # NULL => H.freeprev[f[i]] = IF i = 0 THEN NULL ELSE f[i - 1]
          BY <1>1 DEF Lists
        <5> QED
          BY <1>11, <3>1, <4>1, <5>1, ZenonT(60)
      <4>4. g[k - 1] = f[k - 2]
        BY <1>4, <3>1, <4>1
      <4> QED
        BY <2>2, <3>1, <4>2, <4>3, <4>4
    <3> QED
      BY <3>2, <3>3
  <2> QED
    BY <2>1, <2>2
<1>12. Lists(K, F \union {p}, g)
  BY <1>6, <1>7, <1>8, <1>9, <1>10, <1>11 DEF Lists
<1> QED
  BY <1>6, <1>12, FreeAtIsWalk DEF Listed

(* A block taken out of the list. *)
LEMMA ListRemove ==
    ASSUME NEW H, NEW K, NEW F \in SUBSET Addr, NEW p \in F, Listed(H, F),
           K.freehead = IF p = H.freehead THEN H.freenext[p] ELSE H.freehead,
           \A x \in F \ {p} :
              /\ K.freenext[x] = IF x = H.freeprev[p] THEN H.freenext[p] ELSE H.freenext[x]
              /\ K.freeprev[x] = IF x = H.freenext[p] THEN H.freeprev[p] ELSE H.freeprev[x]
    PROVE  Listed(K, F \ {p})
<1> DEFINE f == FreeAt(H)
<1> HIDE DEF f
<1>1. Lists(H, F, f) /\ f \in [HeapPlaces -> Link] /\ f[HeapLimit] = NULL /\ f[0] = H.freehead
  BY ListEnds DEF Listed, f, Lists, Walk
<1>2. /\ \A k \in HeapPlaces : f[k] # NULL => f[k] \in F
      /\ \A j, k \in HeapPlaces : f[j] = f[k] /\ f[j] # NULL => j = k
      /\ \A j, k \in HeapPlaces : j <= k /\ f[k] # NULL => f[j] # NULL
      /\ \A k \in HeapPlaces : f[k] # NULL => H.freeprev[f[k]] = IF k = 0 THEN NULL ELSE f[k - 1]
      /\ \A k \in 1 .. HeapLimit : f[k] = IF f[k - 1] = NULL THEN NULL ELSE H.freenext[f[k - 1]]
  BY <1>1 DEF Lists, Walk
<1>3. PICK i \in HeapPlaces : f[i] = p
  BY <1>1 DEF Lists
<1>4. p # NULL /\ i # HeapLimit
  BY <1>1, <1>3, Constants
<1>5. \A k \in HeapPlaces : k # 0 => k - 1 \in HeapPlaces /\ k \in 1 .. HeapLimit
  BY Constants DEF HeapPlaces
<1>6. \A k \in HeapPlaces : k # HeapLimit => k + 1 \in 1 .. HeapLimit /\ k + 1 \in HeapPlaces /\ (k + 1) - 1 = k
  BY Constants DEF HeapPlaces
<1>7. H.freenext[p] = f[i + 1] /\ i + 1 \in HeapPlaces
  BY <1>2, <1>3, <1>4, <1>6
<1>8. H.freeprev[p] = IF i = 0 THEN NULL ELSE f[i - 1]
  BY <1>2, <1>3, <1>4
<1>9. \A k \in HeapPlaces : f[k] # NULL /\ k # i => f[k] \in F \ {p}
  BY <1>2, <1>3
<1> DEFINE g == [k \in HeapPlaces |-> IF k < i THEN f[k] ELSE IF k = HeapLimit THEN NULL ELSE f[k + 1]]
<1>10. g \in [HeapPlaces -> Link] /\ 0 \in HeapPlaces
  BY <1>1, <1>6, Constants DEF HeapPlaces
<1>11. /\ \A k \in HeapPlaces : k < i => g[k] = f[k]
       /\ \A k \in HeapPlaces : k >= i /\ k # HeapLimit => g[k] = f[k + 1]
       /\ g[HeapLimit] = NULL
  BY <1>3, <1>4, Constants DEF HeapPlaces
<1> HIDE DEF g
<1>12. Walk(K, g)
  <2>1. g[0] = K.freehead
    <3>1. CASE i = 0
      BY <1>1, <1>3, <1>4, <1>7, <1>10, <1>11, <3>1
    <3>2. CASE i # 0
      <4>1. 0 < i
        BY <1>3, <3>2, Constants DEF HeapPlaces
      <4>2. p # f[0]
        BY <1>2, <1>3, <1>4, <1>10, <3>2
      <4> QED
        BY <1>1, <1>10, <1>11, <4>1, <4>2
    <3> QED
      BY <3>1, <3>2
  <2>2. ASSUME NEW k \in 1 .. HeapLimit
        PROVE  g[k] = IF g[k - 1] = NULL THEN NULL ELSE K.freenext[g[k - 1]]
    <3>1. k \in HeapPlaces /\ k - 1 \in HeapPlaces /\ k \in Nat /\ k # 0 /\ i \in Nat /\ k - 1 # HeapLimit
      BY <1>3, Constants DEF HeapPlaces
    <3>2. CASE k < i
      <4>1. g[k] = f[k] /\ g[k - 1] = f[k - 1]
        BY <1>11, <3>1, <3>2
      <4>2. f[k - 1] # NULL /\ k - 1 # i /\ f[k - 1] \in F \ {p}
        BY <1>2, <1>3, <1>4, <1>9, <3>1, <3>2
      <4>3. f[k - 1] # H.freeprev[p]
        <5>1. i # 0 /\ i - 1 \in HeapPlaces /\ k - 1 # i - 1
          BY <1>3, <1>5, <3>1, <3>2
        <5> QED
          BY <1>2, <1>8, <3>1, <4>2, <5>1
      <4> QED
        BY <1>2, <4>1, <4>2, <4>3
    <3>3. CASE k = i
      <4>1. g[k] = f[i + 1] /\ g[k - 1] = f[i - 1]
        BY <1>4, <1>11, <3>1, <3>3
      <4>2. f[i - 1] # NULL /\ i - 1 # i /\ f[i - 1] \in F \ {p}
        BY <1>2, <1>3, <1>4, <1>9, <3>1, <3>3
      <4>3. f[i - 1] = H.freeprev[p]
        BY <1>8, <3>1, <3>3
      <4> QED
        BY <1>7, <4>1, <4>2, <4>3
    <3>4. CASE k > i
      <4>1. g[k - 1] = f[k]
        BY <1>11, <3>1, <3>4
      <4>2. CASE k = HeapLimit
        BY <1>1, <1>11, <4>1, <4>2
      <4>3. CASE k # HeapLimit
        <5>1. g[k] = f[k + 1] /\ k + 1 \in 1 .. HeapLimit /\ (k + 1) - 1 = k
          BY <1>6, <1>11, <3>1, <3>4, <4>3
        <5>2. f[k + 1] = IF f[k] = NULL THEN NULL ELSE H.freenext[f[k]]
          BY <1>2, <5>1
        <5>3. ASSUME f[k] # NULL
              PROVE  f[k] \in F \ {p} /\ f[k] # H.freeprev[p]
          <6>1. f[k] \in F \ {p}
            BY <1>9, <3>1, <3>4, <5>3
          <6>2. i # 0 => i - 1 \in HeapPlaces /\ k # i - 1
            BY <1>3, <1>5, <3>1, <3>4
          <6> QED
            BY <1>2, <1>8, <3>1, <5>3, <6>1, <6>2
        <5> QED
          BY <4>1, <5>1, <5>2, <5>3
      <4> QED
        BY <4>2, <4>3
    <3> QED
      BY <3>1, <3>2, <3>3, <3>4
  <2> QED
    BY <1>10, <2>1, <2>2 DEF Walk
<1>13. \A k \in HeapPlaces : k \in Nat /\ (k < i \/ k >= i) /\ i \in Nat
  BY <1>3, Constants DEF HeapPlaces
<1>14. \A k \in HeapPlaces : g[k] # NULL => g[k] \in F \ {p}
  <2> SUFFICES ASSUME NEW k \in HeapPlaces, g[k] # NULL PROVE g[k] \in F \ {p}
    OBVIOUS
  <2>1. CASE k < i
    BY <1>9, <1>11, <1>13, <2>1
  <2>2. CASE k >= i
    <3>1. k # HeapLimit /\ k + 1 \in HeapPlaces /\ k + 1 # i /\ g[k] = f[k + 1]
      BY <1>6, <1>11, <1>13, <2>2
    <3> QED
      BY <1>9, <3>1
  <2> QED
    BY <1>13, <2>1, <2>2
<1>15. ASSUME NEW x \in F \ {p} PROVE \E k \in HeapPlaces : g[k] = x
  <2>1. PICK k \in HeapPlaces : f[k] = x
    BY <1>1 DEF Lists
  <2>2. CASE k < i
    BY <1>11, <2>1, <2>2
  <2>3. CASE k > i
    <3>1. k - 1 \in HeapPlaces /\ k - 1 >= i /\ k - 1 # HeapLimit /\ (k - 1) + 1 = k
      BY <1>13, <2>3, Constants DEF HeapPlaces
    <3> QED
      BY <1>11, <2>1, <3>1
  <2>4. k # i
    BY <1>3, <2>1
  <2> QED
    BY <1>13, <2>2, <2>3, <2>4
<1>16. \A k \in HeapPlaces : g[k] # NULL =>
          \E l \in HeapPlaces : l # i /\ f[l] = g[k] /\ k = IF l < i THEN l ELSE l - 1
  <2> SUFFICES ASSUME NEW k \in HeapPlaces, g[k] # NULL
               PROVE  \E l \in HeapPlaces : l # i /\ f[l] = g[k] /\ k = IF l < i THEN l ELSE l - 1
    OBVIOUS
  <2>1. CASE k < i
    BY <1>11, <1>13, <2>1
  <2>2. CASE k >= i
    <3>1. k # HeapLimit /\ k + 1 \in HeapPlaces /\ k + 1 # i /\ g[k] = f[k + 1]
          /\ ~(k + 1 < i) /\ k = (k + 1) - 1
      BY <1>6, <1>11, <1>13, <2>2
    <3> QED
      BY <3>1
  <2> QED
    BY <1>13, <2>1, <2>2
<1>17. ASSUME NEW j \in HeapPlaces, NEW k \in HeapPlaces, g[j] = g[k], g[j] # NULL
       PROVE  j = k
  <2>1. PICK l \in HeapPlaces : f[l] = g[j] /\ j = IF l < i THEN l ELSE l - 1
    BY <1>16, <1>17
  <2>2. PICK m \in HeapPlaces : f[m] = g[k] /\ k = IF m < i THEN m ELSE m - 1
    BY <1>16, <1>17
  <2>3. l = m
    BY <1>2, <1>17, <2>1, <2>2
  <2> QED
    BY <2>1, <2>2, <2>3
<1>18. ASSUME NEW j \in HeapPlaces, NEW k \in HeapPlaces, j <= k, g[k] # NULL
       PROVE  g[j] # NULL
  <2>1. k # HeapLimit \/ k < i
    BY <1>11, <1>18
  <2>2. j # HeapLimit
    BY <1>11, <1>13, <1>18, <1>3, <1>4, Constants DEF HeapPlaces
  <2>3. CASE k < i
    <3>1. g[k] = f[k] /\ g[j] = f[j]
      BY <1>11, <1>13, <1>18, <2>3
    <3> QED
      BY <1>2, <1>18, <3>1
  <2>4. CASE k >= i /\ j < i
    <3>1. g[k] = f[k + 1] /\ g[j] = f[j] /\ k + 1 \in HeapPlaces /\ j <= k + 1
      BY <1>6, <1>11, <1>13, <1>18, <2>1, <2>4
    <3> QED
      BY <1>2, <1>18, <3>1
  <2>5. CASE k >= i /\ j >= i
    <3>1. g[k] = f[k + 1] /\ g[j] = f[j + 1] /\ k + 1 \in HeapPlaces /\ j + 1 \in HeapPlaces /\ j + 1 <= k + 1
      BY <1>6, <1>11, <1>13, <1>18, <2>1, <2>2, <2>5
    <3> QED
      BY <1>2, <1>18, <3>1
  <2> QED
    BY <1>13, <2>3, <2>4, <2>5
<1>19. ASSUME NEW k \in HeapPlaces, g[k] # NULL
       PROVE  K.freeprev[g[k]] = IF k = 0 THEN NULL ELSE g[k - 1]
  <2>1. g[k] \in F \ {p}
    BY <1>14, <1>19
  <2>2. CASE k < i
    <3>1. g[k] = f[k] /\ f[k] # f[i + 1]
      BY <1>2, <1>7, <1>11, <1>13, <1>19, <2>2
    <3>2. K.freeprev[f[k]] = IF k = 0 THEN NULL ELSE f[k - 1]
      BY <1>2, <1>7, <1>19, <2>1, <3>1
    <3>3. k # 0 => g[k - 1] = f[k - 1]
      BY <1>5, <1>11, <1>13, <2>2
    <3> QED
      BY <3>1, <3>2, <3>3
  <2>3. CASE k = i
    <3>1. g[k] = f[i + 1]
      BY <1>4, <1>11, <1>13, <2>3
    <3>2. K.freeprev[g[k]] = IF i = 0 THEN NULL ELSE f[i - 1]
      BY <1>7, <1>8, <2>1, <3>1
    <3>3. i # 0 => g[i - 1] = f[i - 1]
      BY <1>5, <1>11, <1>13, <2>3
    <3> QED
      BY <2>3, <3>2, <3>3
  <2>4. CASE k > i
    <3>1. k # HeapLimit /\ k # 0
      BY <1>11, <1>13, <1>19, <2>4
    <3>2. g[k] = f[k + 1] /\ k + 1 \in HeapPlaces /\ k + 1 # 0 /\ (k + 1) - 1 = k
      BY <1>6, <1>11, <1>13, <2>4, <3>1
    <3>3. f[k + 1] # f[i + 1]
      <4>1. k + 1 # i + 1
        BY <1>13, <2>4
      <4> QED
        BY <1>2, <1>7, <1>19, <3>2, <4>1
    <3>4. H.freeprev[f[k + 1]] = f[k]
      BY <1>2, <1>19, <3>2
    <3>5. g[k - 1] = f[k]
      <4>1. k - 1 \in HeapPlaces /\ k - 1 >= i /\ k - 1 # HeapLimit /\ (k - 1) + 1 = k
        BY <1>13, <2>4, Constants DEF HeapPlaces
      <4> QED
        BY <1>11, <4>1
    <3> QED
      BY <1>7, <2>1, <3>1, <3>2, <3>3, <3>4, <3>5
  <2> QED
    BY <1>13, <2>2, <2>3, <2>4
<1>20. Lists(K, F \ {p}, g)
  BY <1>12, <1>14, <1>15, <1>17, <1>18, <1>19 DEF Lists
<1> QED
  BY <1>12, <1>20, FreeAtIsWalk DEF Listed

-----------------------------------------------------------------------------
(* What the helpers do to the fields. *)

(* The fields of a heap, with their types. *)
LEMMA HeapFields ==
    ASSUME NEW H \in Heap
    PROVE  /\ H.blocks \in SUBSET Addr
           /\ H.size \in [Addr -> Nat] /\ H.free \in [Addr -> {0, 1}]
           /\ H.next \in [Addr -> Link] /\ H.prev \in [Addr -> Link]
           /\ H.freenext \in [Addr -> Link] /\ H.freeprev \in [Addr -> Link]
           /\ H.tail \in Link /\ H.freehead \in Link
           /\ H.brk \in 1 .. HeapLimit + 1
BY DEF Heap

LEMMA HeapNumbers ==
    ASSUME NEW H \in Heap
    PROVE  /\ H.blocks \subseteq Nat /\ META \in Nat \ {0}
           /\ H.brk \in Nat \ {0} /\ NULL \notin H.blocks
           /\ \A x \in H.blocks : x \in Addr /\ x \in Nat /\ H.size[x] \in Nat
<1>1. H.blocks \in SUBSET Addr /\ H.size \in [Addr -> Nat] /\ H.brk \in 1 .. HeapLimit + 1
  BY HeapFields
<1>2. /\ \A x \in H.blocks : x \in Addr /\ x \in Nat /\ H.size[x] \in Nat
      /\ NULL \notin H.blocks
  BY <1>1, Constants
<1>3. H.brk \in Nat \ {0} /\ META \in Nat \ {0}
  BY <1>1, Constants
<1> QED
  BY <1>2, <1>3

(* A record with these fields, of their types, is a heap. *)
HeapDomain == {"blocks", "size", "free", "next", "prev", "freenext", "freeprev", "tail", "freehead", "brk"}

LEMMA IsHeap ==
    ASSUME NEW K, K = [f \in HeapDomain |-> K[f]],
           K.blocks \in SUBSET Addr,
           K.size \in [Addr -> Nat], K.free \in [Addr -> {0, 1}],
           K.next \in [Addr -> Link], K.prev \in [Addr -> Link],
           K.freenext \in [Addr -> Link], K.freeprev \in [Addr -> Link],
           K.tail \in Link, K.freehead \in Link,
           K.brk \in 1 .. HeapLimit + 1
    PROVE  K \in Heap
BY DEF Heap, HeapDomain

LEMMA InsertFields ==
    ASSUME NEW H \in Heap, NEW p \in Addr, NEW K, K = insertfree(H, p)
    PROVE  /\ K \in Heap
           /\ K.blocks = H.blocks /\ K.size = H.size /\ K.free = H.free
           /\ K.next = H.next /\ K.prev = H.prev /\ K.tail = H.tail /\ K.brk = H.brk
           /\ K.freehead = p /\ K.freenext[p] = H.freehead
           /\ \A a \in Addr : a # p => K.freenext[a] = H.freenext[a]
           /\ \A a \in Addr : K.freeprev[a] = IF a = H.freehead THEN p
                                            ELSE IF a = p THEN NULL ELSE H.freeprev[a]
<1>1. PICK fp : fp = [H.freeprev EXCEPT ![p] = NULL]
  OBVIOUS
<1>2. /\ fp \in [Addr -> Link] /\ p \in Link /\ H.freehead \in Link
      /\ \A a \in Addr : fp[a] = IF a = p THEN NULL ELSE H.freeprev[a]
  BY <1>1, HeapFields, Constants
<1>3. PICK fq : fq = SetIfAny(fp, H.freehead, p)
  OBVIOUS
<1>4. fq \in [Addr -> Link] /\ \A a \in Addr : fq[a] = IF a = H.freehead THEN p ELSE fp[a]
  BY <1>2, <1>3, Constants DEF SetIfAny, Link
<1>5. K = [H EXCEPT !.freeprev = fq, !.freenext[p] = H.freehead, !.freehead = p]
  BY <1>1, <1>3 DEF insertfree
<1>6. /\ K.freeprev = fq
      /\ K.freenext = [H.freenext EXCEPT ![p] = H.freehead]
      /\ K.freehead = p
      /\ K.blocks = H.blocks /\ K.size = H.size /\ K.free = H.free
      /\ K.next = H.next /\ K.prev = H.prev /\ K.tail = H.tail /\ K.brk = H.brk
  BY <1>5 DEF Heap
<1>7. K \in Heap
  <2>1. K = [f \in HeapDomain |-> K[f]]
    BY <1>5 DEF Heap, HeapDomain
  <2> QED
    BY <1>2, <1>4, <1>6, <2>1, HeapFields, IsHeap
<1> QED
  BY <1>2, <1>4, <1>6, <1>7, HeapFields

LEMMA RemoveFields ==
    ASSUME NEW H \in Heap, NEW p \in Addr, NEW K, K = removefree(H, p)
    PROVE  /\ K \in Heap
           /\ K.blocks = H.blocks /\ K.size = H.size /\ K.free = H.free
           /\ K.next = H.next /\ K.prev = H.prev /\ K.tail = H.tail /\ K.brk = H.brk
           /\ K.freehead = IF p = H.freehead THEN H.freenext[p] ELSE H.freehead
           /\ \A a \in Addr \ {p} :
                /\ K.freenext[a] = IF a = H.freeprev[p] THEN H.freenext[p] ELSE H.freenext[a]
                /\ K.freeprev[a] = IF a = H.freenext[p] THEN H.freeprev[p] ELSE H.freeprev[a]
<1>1. PICK fp, fn : /\ fp = [H.freeprev EXCEPT ![p] = NULL]
                    /\ fn = [H.freenext EXCEPT ![p] = NULL]
  OBVIOUS
<1>2. /\ fp \in [Addr -> Link] /\ fn \in [Addr -> Link]
      /\ H.freenext[p] \in Link /\ H.freeprev[p] \in Link
      /\ \A a \in Addr \ {p} : fp[a] = H.freeprev[a] /\ fn[a] = H.freenext[a]
  BY <1>1, HeapFields, Constants
<1>3. PICK fq, fm : /\ fq = SetIfAny(fp, H.freenext[p], H.freeprev[p])
                    /\ fm = SetIfAny(fn, H.freeprev[p], H.freenext[p])
  OBVIOUS
<1>4. fq \in [Addr -> Link] /\ \A a \in Addr : fq[a] = IF a = H.freenext[p] THEN H.freeprev[p] ELSE fp[a]
  BY <1>2, <1>3, Constants DEF SetIfAny, Link
<1>5. fm \in [Addr -> Link] /\ \A a \in Addr : fm[a] = IF a = H.freeprev[p] THEN H.freenext[p] ELSE fn[a]
  BY <1>2, <1>3, Constants DEF SetIfAny, Link
<1>6. K = [H EXCEPT !.freeprev = fq, !.freenext = fm,
                    !.freehead = IF p = @ THEN H.freenext[p] ELSE @]
  BY <1>1, <1>3 DEF removefree
<1>7. /\ K.freeprev = fq /\ K.freenext = fm
      /\ K.freehead = IF p = H.freehead THEN H.freenext[p] ELSE H.freehead
      /\ K.blocks = H.blocks /\ K.size = H.size /\ K.free = H.free
      /\ K.next = H.next /\ K.prev = H.prev /\ K.tail = H.tail /\ K.brk = H.brk
  BY <1>6 DEF Heap
<1>8. K \in Heap
  BY <1>2, <1>4, <1>5, <1>6, ZenonT(60) DEF Heap
<1> QED
  BY <1>2, <1>4, <1>5, <1>7, <1>8

(* b, which follows a, becomes part of it. *)
LEMMA AbsorbFields ==
    ASSUME NEW H \in Heap, NEW a \in Addr, NEW b \in Addr, a # b, H.next[b] # b,
           NEW K, K = Absorb(H, a, b)
    PROVE  /\ K \in Heap
           /\ K.blocks = H.blocks \ {b} /\ K.brk = H.brk
           /\ K.size[a] = H.size[a] + H.size[b] + META
           /\ K.next[a] = H.next[b] /\ K.free[a] = H.free[a]
           /\ \A x \in Addr \ {a, b} : K.size[x] = H.size[x] /\ K.next[x] = H.next[x]
           /\ \A x \in Addr \ {b} : K.free[x] = H.free[x]
           /\ \A x \in Addr \ {b} : K.prev[x] = IF x = H.next[b] THEN a ELSE H.prev[x]
           /\ K.tail = IF H.next[b] = NULL THEN a ELSE H.tail
           /\ K.freehead = H.freehead /\ K.freenext = H.freenext /\ K.freeprev = H.freeprev
<1>1. PICK pr : pr = SetIfAny(H.prev, H.next[b], a)
  OBVIOUS
<1>2. /\ pr \in [Addr -> Link]
      /\ \A x \in Addr : pr[x] = IF x = H.next[b] THEN a ELSE H.prev[x]
  <2>1. H.prev \in [Addr -> Link] /\ H.next[b] \in Link /\ a \in Link
    BY HeapFields, Constants
  <2> QED
    BY <1>1, <2>1, Constants DEF SetIfAny, Link
<1>3. PICK sz, nx, fr, pv :
        /\ sz = [H.size EXCEPT ![a] = H.size[a] + H.size[b] + META, ![b] = 0]
        /\ nx = [H.next EXCEPT ![a] = H.next[b], ![b] = NULL]
        /\ fr = [H.free EXCEPT ![b] = 0]
        /\ pv = [pr EXCEPT ![b] = NULL]
  OBVIOUS
<1>4. /\ sz \in [Addr -> Nat] /\ sz[a] = H.size[a] + H.size[b] + META
      /\ \A x \in Addr \ {a, b} : sz[x] = H.size[x]
  BY <1>3, HeapFields, Constants
<1>5. /\ nx \in [Addr -> Link] /\ nx[a] = H.next[b]
      /\ \A x \in Addr \ {a, b} : nx[x] = H.next[x]
  BY <1>3, HeapFields, Constants
<1>6. fr \in [Addr -> {0, 1}] /\ \A x \in Addr \ {b} : fr[x] = H.free[x]
  BY <1>3, HeapFields
<1>7. pv \in [Addr -> Link] /\ \A x \in Addr \ {b} : pv[x] = pr[x]
  BY <1>2, <1>3, Constants
<1>8. K = [f \in HeapDomain |-> K[f]]
  BY DEF Absorb, Heap, HeapDomain
<1>9. /\ K.blocks = H.blocks \ {b} /\ K.size = sz /\ K.free = fr /\ K.next = nx /\ K.prev = pv
      /\ K.tail = IF H.next[b] = NULL THEN a ELSE H.tail
      /\ K.brk = H.brk
      /\ K.freehead = H.freehead /\ K.freenext = H.freenext /\ K.freeprev = H.freeprev
  <2>1. K.size = sz /\ K.free = fr /\ K.next = nx
    <3>1. K.free = fr
      BY <1>3 DEF Absorb, Heap
    <3>2. K.next = nx
      BY <1>3 DEF Absorb, Heap
    <3>3. K.size = sz
      BY <1>3 DEF Absorb, Heap
    <3> QED
      BY <3>1, <3>2, <3>3
  <2>2. K.prev = pv
    BY <1>1, <1>3 DEF Absorb, Heap
  <2>3. /\ K.blocks = H.blocks \ {b}
        /\ K.tail = IF H.next[b] = NULL THEN a ELSE H.tail
        /\ K.brk = H.brk
        /\ K.freehead = H.freehead /\ K.freenext = H.freenext /\ K.freeprev = H.freeprev
    BY DEF Absorb, Heap
  <2> QED
    BY <2>1, <2>2, <2>3
<1>10. K \in Heap
  BY <1>4, <1>5, <1>6, <1>7, <1>8, <1>9, HeapFields, IsHeap, Constants, ZenonT(60)
<1> QED
  BY <1>2, <1>4, <1>5, <1>6, <1>7, <1>9, <1>10

LEMMA GrowFields ==
    ASSUME NEW H \in Heap, NEW size \in Nat, H.brk + META + size <= HeapLimit + 1,
           H.tail # H.brk, NEW K, K = Grow(H, size)
    PROVE  /\ K \in Heap /\ H.brk \in Addr
           /\ K.blocks = H.blocks \union {H.brk} /\ K.brk = H.brk + META + size
           /\ K.size[H.brk] = size /\ K.free[H.brk] = 0 /\ K.next[H.brk] = NULL
           /\ K.prev[H.brk] = H.tail /\ K.tail = H.brk /\ K.freehead = H.freehead
           /\ \A x \in Addr \ {H.brk} :
                /\ K.size[x] = H.size[x] /\ K.free[x] = H.free[x] /\ K.prev[x] = H.prev[x]
                /\ K.freenext[x] = H.freenext[x] /\ K.freeprev[x] = H.freeprev[x]
                /\ K.next[x] = IF x = H.tail THEN H.brk ELSE H.next[x]
<1>1. PICK b : b = H.brk
  OBVIOUS
<1>2. b \in Addr /\ b \in Link
  BY <1>1, HeapFields, Constants DEF Addr, Link
<1>3. PICK n0 : n0 = [H.next EXCEPT ![b] = NULL]
  OBVIOUS
<1>4. n0 \in [Addr -> Link] /\ n0[b] = NULL /\ \A x \in Addr \ {b} : n0[x] = H.next[x]
  BY <1>2, <1>3, HeapFields, Constants
<1>5. PICK nx : nx = SetIfAny(n0, H.tail, b)
  OBVIOUS
<1>6. nx \in [Addr -> Link] /\ \A x \in Addr : nx[x] = IF x = H.tail THEN b ELSE n0[x]
  <2>1. H.tail \in Link
    BY HeapFields
  <2> QED
    BY <1>2, <1>4, <1>5, <2>1, Constants DEF SetIfAny, Link
<1>7. K = [H EXCEPT !.blocks = @ \union {b}, !.size[b] = size, !.free[b] = 0, !.next = nx,
                    !.prev[b] = H.tail, !.tail = b, !.freenext[b] = NULL, !.freeprev[b] = NULL,
                    !.brk = @ + META + size]
  BY <1>1, <1>3, <1>5 DEF Grow
<1>8. /\ K.blocks = H.blocks \union {b} /\ K.size = [H.size EXCEPT ![b] = size]
      /\ K.free = [H.free EXCEPT ![b] = 0] /\ K.next = nx
      /\ K.prev = [H.prev EXCEPT ![b] = H.tail] /\ K.tail = b
      /\ K.freenext = [H.freenext EXCEPT ![b] = NULL]
      /\ K.freeprev = [H.freeprev EXCEPT ![b] = NULL]
      /\ K.freehead = H.freehead /\ K.brk = H.brk + META + size
  BY <1>7 DEF Heap
<1>9. K \in Heap
  <2>1. H.brk + META + size \in 1 .. HeapLimit + 1
    BY HeapFields, Constants
  <2>2. K = [f \in HeapDomain |-> K[f]]
    BY <1>7 DEF Heap, HeapDomain
  <2>3. /\ K.size \in [Addr -> Nat] /\ K.free \in [Addr -> {0, 1}]
        /\ K.prev \in [Addr -> Link]
        /\ K.freenext \in [Addr -> Link] /\ K.freeprev \in [Addr -> Link]
    BY <1>2, <1>8, HeapFields, Constants
  <2>4. K.blocks \in SUBSET Addr /\ K.next \in [Addr -> Link] /\ K.tail \in Link
    BY <1>2, <1>6, <1>8, HeapFields
  <2>5. K.freehead \in Link /\ K.brk \in 1 .. HeapLimit + 1
    BY <1>8, <2>1, HeapFields
  <2> QED
    BY <2>2, <2>3, <2>4, <2>5, IsHeap
<1> QED
  BY <1>1, <1>2, <1>4, <1>6, <1>8, <1>9, HeapFields

-----------------------------------------------------------------------------
(* The block list and the memory. *)

(* A heap with the same block list and blocks no larger. *)
LEMMA ShapeKept ==
    ASSUME NEW H, NEW K \in Heap, Shape(H),
           K.blocks = H.blocks, K.next = H.next, K.prev = H.prev,
           K.tail = H.tail, K.brk = H.brk,
           \A x \in H.blocks : K.size[x] <= H.size[x]
    PROVE  Shape(K)
<1>1. Layout(K)
  <2>1. /\ H.blocks \subseteq Nat /\ META \in Nat /\ H.brk \in Nat
        /\ \A x \in H.blocks : H.size[x] \in Nat /\ K.size[x] \in Nat
    <3>1. H \in Heap
      BY DEF Shape
    <3> QED
      BY <3>1, HeapNumbers
  <2> QED
    BY <2>1 DEF Shape, Layout
<1>2. NextIsNeighbour(K)
  BY DEF Shape, NextIsNeighbour
<1>3. PrevIsNeighbour(K) /\ TailIsLast(K)
  BY DEF Shape, PrevIsNeighbour, TailIsLast
<1> QED
  BY <1>1, <1>2, <1>3 DEF Shape

(* b = next[a] becomes part of a. *)
LEMMA ShapeAbsorb ==
    ASSUME NEW H, NEW K \in Heap, Shape(H), NEW a \in H.blocks, NEW b, b = H.next[a], b # NULL,
           K.blocks = H.blocks \ {b}, K.brk = H.brk,
           K.size[a] = H.size[a] + H.size[b] + META,
           K.next[a] = H.next[b],
           \A x \in H.blocks \ {a, b} : K.size[x] = H.size[x] /\ K.next[x] = H.next[x],
           \A x \in H.blocks \ {b} : K.prev[x] = IF x = H.next[b] THEN a ELSE H.prev[x],
           K.tail = IF H.next[b] = NULL THEN a ELSE H.tail
    PROVE  Shape(K)
<1>1. PICK c : c = H.next[b]
  OBVIOUS
<1>2. /\ H.blocks \subseteq Nat /\ META \in Nat /\ H.brk \in Nat /\ NULL \notin H.blocks
      /\ \A x \in H.blocks : H.size[x] \in Nat
  <2>1. H \in Heap
    BY DEF Shape
  <2> QED
    BY <2>1, HeapNumbers
<1>3. b \in H.blocks /\ b > a /\ H.prev[b] = a /\ \A q \in H.blocks : q > a => q >= b
  BY DEF Shape, NextIsNeighbour
<1>4. c = NULL => H.tail = b /\ \A q \in H.blocks : q <= b
  BY <1>1, <1>3 DEF Shape, NextIsNeighbour
<1>5. c # NULL => /\ c \in H.blocks /\ c > b /\ H.prev[c] = b
                  /\ \A q \in H.blocks : q > b => q >= c
  BY <1>1, <1>3 DEF Shape, NextIsNeighbour
<1>6. Layout(K)
  <2>1. \A x, y \in H.blocks : x < y => x + META + H.size[x] <= y
    BY DEF Shape, Layout
  <2>2. \A x \in H.blocks : x + META + H.size[x] <= H.brk
    BY DEF Shape, Layout
  <2>3. a + META + H.size[a] <= b
    BY <1>3, <2>1
  <2>4. a + META + K.size[a] <= b + META + H.size[b]
    BY <1>2, <1>3, <2>3
  <2>5. \A y \in H.blocks \ {b} : a < y => a + META + K.size[a] <= y
    BY <1>2, <1>3, <2>1, <2>4
  <2>6. a + META + K.size[a] <= H.brk
    BY <1>2, <1>3, <2>2, <2>4
  <2>7. \A x \in K.blocks : x # a => K.size[x] = H.size[x]
    OBVIOUS
  <2> QED
    BY <2>1, <2>2, <2>5, <2>6, <2>7 DEF Layout
<1>7. NextIsNeighbour(K)
  <2> SUFFICES ASSUME NEW x \in H.blocks \ {b}
               PROVE  IF K.next[x] = NULL
                        THEN K.tail = x /\ \A q \in K.blocks : q <= x
                        ELSE /\ K.next[x] \in K.blocks /\ K.next[x] > x
                             /\ \A q \in K.blocks : q > x => q >= K.next[x]
                             /\ K.prev[K.next[x]] = x
    BY DEF NextIsNeighbour
  <2>1. CASE x = a /\ c = NULL
    <3>1. ASSUME NEW q \in K.blocks PROVE q <= a
      <4>1. q \in H.blocks /\ q # b /\ q \in Nat /\ a \in Nat /\ b \in Nat
        BY <1>2, <1>3
      <4>2. q <= b /\ (q > a => q >= b)
        BY <1>3, <1>4, <2>1, <4>1
      <4> QED
        BY <4>1, <4>2
    <3> QED
      BY <1>1, <2>1, <3>1
  <2>2. CASE x = a /\ c # NULL
    <3>1. c \in K.blocks /\ c > a /\ K.prev[c] = a /\ K.next[a] = c
      BY <1>1, <1>2, <1>3, <1>5, <2>2
    <3>2. \A q \in K.blocks : q > a => q >= c
      BY <1>2, <1>3, <1>5, <2>2
    <3> QED
      BY <2>2, <3>1, <3>2
  <2>3. CASE x # a
    <3>1. K.next[x] = H.next[x]
      BY <2>3
    <3>2. CASE H.next[x] = NULL
      <4>1. H.tail = x /\ \A q \in H.blocks : q <= x
        BY <3>2 DEF Shape, NextIsNeighbour
      <4> QED
        BY <1>1, <1>4, <3>1, <3>2, <4>1
    <3>3. CASE H.next[x] # NULL
      <4>1. /\ H.next[x] \in H.blocks /\ H.next[x] > x /\ H.prev[H.next[x]] = x
            /\ \A q \in H.blocks : q > x => q >= H.next[x]
        BY <3>3 DEF Shape, NextIsNeighbour
      <4>2. H.next[x] # b /\ H.next[x] # c
        BY <1>2, <1>3, <1>5, <2>3, <3>3, <4>1
      <4>3. K.prev[H.next[x]] = x
        BY <1>1, <4>1, <4>2
      <4> QED
        BY <3>1, <3>3, <4>1, <4>2, <4>3
    <3> QED
      BY <3>2, <3>3
  <2> QED
    BY <2>1, <2>2, <2>3
<1>8. PrevIsNeighbour(K)
  <2> SUFFICES ASSUME NEW x \in H.blocks \ {b}
               PROVE  IF K.prev[x] = NULL
                        THEN \A q \in K.blocks : x <= q
                        ELSE K.prev[x] \in K.blocks /\ K.next[K.prev[x]] = x
    BY DEF PrevIsNeighbour
  <2>1. CASE x = c
    BY <1>1, <1>2, <1>3, <2>1
  <2>2. CASE x # c
    <3>1. K.prev[x] = H.prev[x]
      BY <1>1, <2>2
    <3>2. CASE H.prev[x] = NULL
      BY <3>1, <3>2 DEF Shape, PrevIsNeighbour
    <3>3. CASE H.prev[x] # NULL
      <4>1. H.prev[x] \in H.blocks /\ H.next[H.prev[x]] = x
        BY <3>3 DEF Shape, PrevIsNeighbour
      <4>2. H.prev[x] # a /\ H.prev[x] # b
        BY <1>1, <2>2, <4>1
      <4> QED
        BY <3>1, <3>3, <4>1, <4>2
    <3> QED
      BY <3>2, <3>3
  <2> QED
    BY <2>1, <2>2
<1>9. TailIsLast(K)
  <2>1. CASE c = NULL
    BY <1>1, <1>2, <1>3, <2>1 DEF TailIsLast
  <2>2. CASE c # NULL
    <3>1. H.tail \in H.blocks /\ H.next[H.tail] = NULL
      BY DEF Shape, TailIsLast
    <3>2. H.tail # a /\ H.tail # b
      BY <1>1, <2>2, <3>1
    <3>3. H.tail # NULL /\ K.tail = H.tail
      BY <1>1, <1>2, <2>2, <3>1
    <3> QED
      BY <3>1, <3>2, <3>3 DEF TailIsLast
  <2> QED
    BY <2>1, <2>2
<1> QED
  BY <1>6, <1>7, <1>8, <1>9 DEF Shape

(* The part of p behind q becomes a block. *)
LEMMA ShapeCut ==
    ASSUME NEW H, NEW K \in Heap, Shape(H), NEW p \in H.blocks,
           NEW size \in Nat, NEW rest \in Nat, NEW q,
           q = p + META + size, H.size[p] = size + META + rest,
           K.blocks = H.blocks \union {q}, K.brk = H.brk,
           K.size[p] = size, K.size[q] = rest,
           K.next[p] = q, K.next[q] = H.next[p],
           \A x \in H.blocks \ {p} : K.size[x] = H.size[x] /\ K.next[x] = H.next[x],
           \A x \in K.blocks : K.prev[x] = IF x = H.next[p] THEN q ELSE IF x = q THEN p ELSE H.prev[x],
           K.tail = IF H.next[p] = NULL THEN q ELSE H.tail
    PROVE  Shape(K) /\ q \notin H.blocks
<1>1. PICK n : n = H.next[p]
  OBVIOUS
<1>2. /\ H.blocks \subseteq Nat /\ META \in Nat \ {0} /\ H.brk \in Nat /\ NULL \notin H.blocks
      /\ \A x \in H.blocks : H.size[x] \in Nat
      /\ q \in Nat /\ q > p /\ q + META + rest = p + META + H.size[p]
  <2>1. H \in Heap
    BY DEF Shape
  <2>2. /\ H.blocks \subseteq Nat /\ META \in Nat \ {0} /\ H.brk \in Nat /\ NULL \notin H.blocks
        /\ \A x \in H.blocks : H.size[x] \in Nat
    BY <2>1, HeapNumbers
  <2> QED
    BY <2>2
<1>3. /\ \A x, y \in H.blocks : x < y => x + META + H.size[x] <= y
      /\ \A x \in H.blocks : x + META + H.size[x] <= H.brk
  BY DEF Shape, Layout
<1>4. \A y \in H.blocks : y > p => y >= q + META + rest
  BY <1>2, <1>3
<1>5. q \notin H.blocks /\ q # NULL /\ n # q
  <2>1. q \notin H.blocks
    BY <1>2, <1>4
  <2>2. n = NULL \/ n \in H.blocks
    BY <1>1 DEF Shape, NextIsNeighbour
  <2>3. q # NULL
    BY <1>2 DEF NULL
  <2> QED
    BY <2>1, <2>2, <2>3
<1>6. n = NULL => H.tail = p /\ \A y \in H.blocks : y <= p
  BY <1>1 DEF Shape, NextIsNeighbour
<1>7. n # NULL => n \in H.blocks /\ n > p /\ H.prev[n] = p /\ \A y \in H.blocks : y > p => y >= n
  BY <1>1 DEF Shape, NextIsNeighbour
<1>8. Layout(K)
  <2>1. ASSUME NEW x \in K.blocks PROVE x + META + K.size[x] <= K.brk
    <3>1. CASE x = p
      <4>1. p + META + H.size[p] <= H.brk
        BY <1>3
      <4> QED
        BY <1>2, <3>1, <4>1
    <3>2. CASE x = q
      BY <1>2, <1>3, <3>2
    <3>3. CASE x \notin {p, q}
      BY <1>3, <3>3
    <3> QED
      BY <3>1, <3>2, <3>3
  <2>2. ASSUME NEW x \in K.blocks, NEW y \in K.blocks, x < y PROVE x + META + K.size[x] <= y
    <3>1. CASE x = p
      BY <1>2, <1>4, <2>2, <3>1
    <3>2. CASE x = q
      BY <1>2, <1>4, <2>2, <3>2
    <3>3. CASE x \notin {p, q} /\ y = q
      <4>1. x < p
        BY <1>2, <1>4, <2>2, <3>3
      <4>2. x + META + H.size[x] <= p
        BY <1>3, <3>3, <4>1
      <4> QED
        BY <1>2, <3>3, <4>2
    <3>4. CASE x \notin {p, q} /\ y # q
      BY <1>3, <2>2, <3>4
    <3> QED
      BY <3>1, <3>2, <3>3, <3>4
  <2> QED
    BY <2>1, <2>2 DEF Layout
<1>9. NextIsNeighbour(K)
  <2> SUFFICES ASSUME NEW x \in K.blocks
               PROVE  IF K.next[x] = NULL
                        THEN K.tail = x /\ \A y \in K.blocks : y <= x
                        ELSE /\ K.next[x] \in K.blocks /\ K.next[x] > x
                             /\ \A y \in K.blocks : y > x => y >= K.next[x]
                             /\ K.prev[K.next[x]] = x
    BY DEF NextIsNeighbour
  <2>1. CASE x = p
    <3>1. \A y \in K.blocks : y > p => y >= q
      BY <1>2, <1>4
    <3> QED
      BY <1>1, <1>2, <1>5, <2>1, <3>1
  <2>2. CASE x = q /\ n = NULL
    BY <1>1, <1>2, <1>6, <2>2
  <2>3. CASE x = q /\ n # NULL
    <3>1. n > q /\ \A y \in K.blocks : y > q => y >= n
      BY <1>2, <1>4, <1>7, <2>3
    <3> QED
      BY <1>1, <1>7, <2>3, <3>1
  <2>4. CASE x \notin {p, q}
    <3>1. x \in H.blocks /\ K.next[x] = H.next[x]
      BY <2>4
    <3>2. CASE H.next[x] = NULL
      <4>1. H.tail = x /\ \A y \in H.blocks : y <= x
        BY <3>1, <3>2 DEF Shape, NextIsNeighbour
      <4>2. q <= x
        BY <1>2, <1>4, <2>4, <3>1, <4>1
      <4>3. n # NULL
        BY <1>6, <2>4, <4>1
      <4> QED
        BY <1>1, <3>1, <3>2, <4>1, <4>2, <4>3
    <3>3. CASE H.next[x] # NULL
      <4>1. /\ H.next[x] \in H.blocks /\ H.next[x] > x /\ H.prev[H.next[x]] = x
            /\ \A y \in H.blocks : y > x => y >= H.next[x]
        BY <3>1, <3>3 DEF Shape, NextIsNeighbour
      <4>2. q > x => q >= H.next[x]
        BY <1>2, <1>4, <2>4, <3>1, <4>1
      <4>3. H.next[x] # n /\ H.next[x] # q
        BY <1>5, <1>7, <2>4, <3>3, <4>1
      <4>4. K.prev[H.next[x]] = x
        BY <1>1, <4>1, <4>3
      <4> QED
        BY <3>1, <3>3, <4>1, <4>2, <4>4
    <3> QED
      BY <3>2, <3>3
  <2> QED
    BY <2>1, <2>2, <2>3, <2>4
<1>10. PrevIsNeighbour(K)
  <2> SUFFICES ASSUME NEW x \in K.blocks
               PROVE  IF K.prev[x] = NULL
                        THEN \A y \in K.blocks : x <= y
                        ELSE K.prev[x] \in K.blocks /\ K.next[K.prev[x]] = x
    BY DEF PrevIsNeighbour
  <2>1. CASE x = n
    BY <1>1, <1>5, <2>1
  <2>2. CASE x = q
    BY <1>1, <1>2, <1>5, <2>2
  <2>3. CASE x \notin {n, q}
    <3>1. x \in H.blocks /\ K.prev[x] = H.prev[x]
      BY <1>1, <2>3
    <3>2. CASE H.prev[x] = NULL
      <4>1. \A y \in H.blocks : x <= y
        BY <3>1, <3>2 DEF Shape, PrevIsNeighbour
      <4> QED
        BY <1>2, <3>1, <3>2, <4>1
    <3>3. CASE H.prev[x] # NULL
      <4>1. H.prev[x] \in H.blocks /\ H.next[H.prev[x]] = x
        BY <3>1, <3>3 DEF Shape, PrevIsNeighbour
      <4>2. H.prev[x] # p
        BY <1>1, <2>3, <4>1
      <4> QED
        BY <3>1, <3>3, <4>1, <4>2
    <3> QED
      BY <3>2, <3>3
  <2> QED
    BY <2>1, <2>2, <2>3
<1>11. TailIsLast(K)
  <2>1. CASE n = NULL
    BY <1>1, <1>5, <2>1 DEF TailIsLast
  <2>2. CASE n # NULL
    <3>1. H.tail \in H.blocks /\ H.next[H.tail] = NULL
      BY DEF Shape, TailIsLast
    <3>2. H.tail # p /\ H.tail # NULL /\ K.tail = H.tail
      BY <1>1, <1>2, <2>2, <3>1
    <3> QED
      BY <3>1, <3>2 DEF TailIsLast
  <2> QED
    BY <2>1, <2>2
<1> QED
  BY <1>5, <1>8, <1>9, <1>10, <1>11 DEF Shape

(* A block behind all others. *)
LEMMA ShapeGrow ==
    ASSUME NEW H, NEW K \in Heap, Shape(H), NEW size \in Nat, NEW b, b = H.brk,
           K.blocks = H.blocks \union {b}, K.brk = b + META + size,
           K.size[b] = size, K.next[b] = NULL, K.prev[b] = H.tail, K.tail = b,
           \A x \in H.blocks :
              /\ K.size[x] = H.size[x] /\ K.prev[x] = H.prev[x]
              /\ K.next[x] = IF x = H.tail THEN b ELSE H.next[x]
    PROVE  Shape(K)
<1>1. /\ H.blocks \subseteq Nat /\ META \in Nat \ {0} /\ b \in Nat \ {0} /\ NULL \notin H.blocks
      /\ \A x \in H.blocks : H.size[x] \in Nat
  <2>1. H \in Heap
    BY DEF Shape
  <2> QED
    BY <2>1, HeapNumbers
<1>2. \A x \in H.blocks : x + META + H.size[x] <= b
  BY DEF Shape, Layout
<1>3. \A x \in H.blocks : x < b
  BY <1>1, <1>2
<1>4. b # NULL /\ b \notin H.blocks
  BY <1>1, <1>3 DEF NULL
<1>5. H.tail # NULL => H.tail \in H.blocks /\ H.next[H.tail] = NULL
  BY DEF Shape, TailIsLast
<1>6. Layout(K)
  <2>1. ASSUME NEW x \in H.blocks, NEW y \in H.blocks, x < y PROVE x + META + H.size[x] <= y
    BY <2>1 DEF Shape, Layout
  <2>2. \A x \in H.blocks : x + META + H.size[x] <= b + META + size
    BY <1>1, <1>2
  <2> QED
    BY <1>1, <1>2, <1>3, <2>1, <2>2 DEF Layout
<1>7. NextIsNeighbour(K)
  <2> SUFFICES ASSUME NEW x \in K.blocks
               PROVE  IF K.next[x] = NULL
                        THEN K.tail = x /\ \A y \in K.blocks : y <= x
                        ELSE /\ K.next[x] \in K.blocks /\ K.next[x] > x
                             /\ \A y \in K.blocks : y > x => y >= K.next[x]
                             /\ K.prev[K.next[x]] = x
    BY DEF NextIsNeighbour
  <2>1. CASE x = b
    BY <1>1, <1>3, <2>1
  <2>2. CASE x \in H.blocks /\ x = H.tail
    <3>1. \A y \in H.blocks : y <= x
      BY <1>1, <1>5, <2>2 DEF Shape, NextIsNeighbour
    <3> QED
      BY <1>1, <1>3, <1>4, <2>2, <3>1
  <2>3. CASE x \in H.blocks /\ x # H.tail
    <3>1. /\ H.next[x] # NULL /\ H.next[x] \in H.blocks /\ H.next[x] > x /\ H.prev[H.next[x]] = x
          /\ \A y \in H.blocks : y > x => y >= H.next[x]
      BY <2>3 DEF Shape, NextIsNeighbour
    <3> QED
      BY <1>1, <1>3, <2>3, <3>1
  <2> QED
    BY <2>1, <2>2, <2>3
<1>8. PrevIsNeighbour(K)
  <2> SUFFICES ASSUME NEW x \in K.blocks
               PROVE  IF K.prev[x] = NULL
                        THEN \A y \in K.blocks : x <= y
                        ELSE K.prev[x] \in K.blocks /\ K.next[K.prev[x]] = x
    BY DEF PrevIsNeighbour
  <2>1. CASE x = b /\ H.tail = NULL
    BY <1>1, <2>1 DEF Shape, TailIsLast
  <2>2. CASE x = b /\ H.tail # NULL
    BY <1>5, <2>2
  <2>3. CASE x \in H.blocks /\ H.prev[x] = NULL
    <3>1. \A y \in H.blocks : x <= y
      BY <2>3 DEF Shape, PrevIsNeighbour
    <3> QED
      BY <1>1, <1>3, <2>3, <3>1
  <2>4. CASE x \in H.blocks /\ H.prev[x] # NULL
    <3>1. H.prev[x] \in H.blocks /\ H.next[H.prev[x]] = x
      BY <2>4 DEF Shape, PrevIsNeighbour
    <3>2. H.prev[x] # H.tail
      BY <1>1, <1>5, <2>4, <3>1
    <3> QED
      BY <2>4, <3>1, <3>2
  <2> QED
    BY <2>1, <2>2, <2>3, <2>4
<1>9. TailIsLast(K)
  BY <1>4 DEF TailIsLast
<1> QED
  BY <1>6, <1>7, <1>8, <1>9 DEF Shape

-----------------------------------------------------------------------------
(* What the helpers keep. *)

LEMMA FreeRemoveKeeps ==
    ASSUME NEW H, Shape(H), NEW F \in SUBSET Addr, Listed(H, F), NEW p \in F,
           NEW K, K = removefree(H, p)
    PROVE  /\ Shape(K) /\ Listed(K, F \ {p})
           /\ K.blocks = H.blocks /\ K.size = H.size /\ K.free = H.free
           /\ K.next = H.next /\ K.prev = H.prev /\ K.tail = H.tail /\ K.brk = H.brk
<1>1. H \in Heap /\ p \in Addr
  BY DEF Shape
<1>2. /\ K \in Heap
      /\ K.blocks = H.blocks /\ K.size = H.size /\ K.free = H.free
      /\ K.next = H.next /\ K.prev = H.prev /\ K.tail = H.tail /\ K.brk = H.brk
  BY <1>1, RemoveFields
<1>3. /\ K.freehead = IF p = H.freehead THEN H.freenext[p] ELSE H.freehead
      /\ \A a \in F \ {p} :
            /\ K.freenext[a] = IF a = H.freeprev[p] THEN H.freenext[p] ELSE H.freenext[a]
            /\ K.freeprev[a] = IF a = H.freenext[p] THEN H.freeprev[p] ELSE H.freeprev[a]
  BY <1>1, RemoveFields
<1>4. Listed(K, F \ {p})
  BY <1>3, ListRemove
<1>5. \A x \in H.blocks : K.size[x] <= H.size[x]
  BY <1>1, <1>2, HeapNumbers
<1>6. Shape(K)
  BY <1>2, <1>5, ShapeKept
<1> QED
  BY <1>2, <1>4, <1>6

LEMMA InsertKeeps ==
    ASSUME NEW H, Shape(H), NEW F \in SUBSET Addr, Listed(H, F), NEW p \in Addr, p \notin F,
           NEW K, K = insertfree(H, p)
    PROVE  /\ Shape(K) /\ Listed(K, F \union {p})
           /\ K.blocks = H.blocks /\ K.size = H.size /\ K.free = H.free
           /\ K.next = H.next /\ K.prev = H.prev /\ K.tail = H.tail /\ K.brk = H.brk
<1>1. H \in Heap
  BY DEF Shape
<1>2. /\ K \in Heap
      /\ K.blocks = H.blocks /\ K.size = H.size /\ K.free = H.free
      /\ K.next = H.next /\ K.prev = H.prev /\ K.tail = H.tail /\ K.brk = H.brk
  BY <1>1, InsertFields
<1>3. p # H.freehead
  <2>1. PICK f : Lists(H, F, f)
    BY DEF Listed
  <2>2. 0 \in HeapPlaces /\ f[0] = H.freehead
    BY <2>1, Constants DEF HeapPlaces, Lists, Walk
  <2>3. f[0] = NULL \/ f[0] \in F
    BY <2>1, <2>2 DEF Lists
  <2> QED
    BY <2>2, <2>3, Constants
<1>4. /\ K.freehead = p /\ K.freenext[p] = H.freehead /\ K.freeprev[p] = NULL
      /\ \A x \in F : K.freenext[x] = H.freenext[x]
      /\ \A x \in F : K.freeprev[x] = IF x = H.freehead THEN p ELSE H.freeprev[x]
  <2>1. /\ K.freehead = p /\ K.freenext[p] = H.freehead
        /\ \A a \in Addr : a # p => K.freenext[a] = H.freenext[a]
        /\ \A a \in Addr : K.freeprev[a] = IF a = H.freehead THEN p
                                          ELSE IF a = p THEN NULL ELSE H.freeprev[a]
    BY <1>1, InsertFields
  <2> QED
    BY <1>3, <2>1
<1>5. Listed(K, F \union {p})
  BY <1>4, ListInsert
<1>6. \A x \in H.blocks : K.size[x] <= H.size[x]
  BY <1>1, <1>2, HeapNumbers
<1>7. Shape(K)
  BY <1>2, <1>6, ShapeKept
<1> QED
  BY <1>2, <1>5, <1>7

LEMMA AbsorbKeeps ==
    ASSUME NEW H, Shape(H), NEW F, Listed(H, F), F \subseteq Addr,
           NEW a \in H.blocks, NEW b, b = H.next[a], b # NULL,
           NEW K, K = Absorb(H, a, b)
    PROVE  /\ Shape(K) /\ Listed(K, F)
           /\ a # b /\ b \in H.blocks /\ K.blocks = H.blocks \ {b}
           /\ K.size[a] = H.size[a] + H.size[b] + META
           /\ K.next[a] = H.next[b] /\ H.next[b] \notin {a, b}
           /\ \A x \in H.blocks \ {a, b} : K.size[x] = H.size[x] /\ K.next[x] = H.next[x]
           /\ \A x \in H.blocks \ {b} : K.free[x] = H.free[x]
<1>1. H \in Heap /\ H.blocks \subseteq Addr /\ H.blocks \subseteq Nat /\ NULL \notin H.blocks
  BY HeapFields, HeapNumbers DEF Shape
<1>2. b \in H.blocks /\ b > a
  BY DEF Shape, NextIsNeighbour
<1>3. H.next[b] # NULL => H.next[b] \in H.blocks /\ H.next[b] > b
  BY <1>2 DEF Shape, NextIsNeighbour
<1>4. a # b /\ H.next[b] \notin {a, b} /\ a \in Addr /\ b \in Addr
  BY <1>1, <1>2, <1>3
<1>5. /\ K \in Heap
      /\ K.blocks = H.blocks \ {b} /\ K.brk = H.brk
      /\ K.size[a] = H.size[a] + H.size[b] + META
      /\ K.next[a] = H.next[b]
      /\ \A x \in Addr \ {a, b} : K.size[x] = H.size[x] /\ K.next[x] = H.next[x]
      /\ \A x \in Addr \ {b} : K.free[x] = H.free[x]
      /\ \A x \in Addr \ {b} : K.prev[x] = IF x = H.next[b] THEN a ELSE H.prev[x]
      /\ K.tail = IF H.next[b] = NULL THEN a ELSE H.tail
      /\ K.freehead = H.freehead /\ K.freenext = H.freenext /\ K.freeprev = H.freeprev
  BY <1>1, <1>4, AbsorbFields, SMTT(60)
<1>6. /\ \A x \in H.blocks \ {a, b} : K.size[x] = H.size[x] /\ K.next[x] = H.next[x]
      /\ \A x \in H.blocks \ {b} : K.free[x] = H.free[x]
      /\ \A x \in H.blocks \ {b} : K.prev[x] = IF x = H.next[b] THEN a ELSE H.prev[x]
  BY <1>1, <1>5
<1>7. Shape(K)
  BY <1>5, <1>6, ShapeAbsorb, SMTT(60)
<1>8. Listed(K, F)
  BY <1>5, ListKept
<1> QED
  BY <1>2, <1>4, <1>5, <1>6, <1>7, <1>8

-----------------------------------------------------------------------------
(* free. *)

LEMMA FreesAre ==
    ASSUME NEW H \in Heap
    PROVE  /\ Frees(H) \in SUBSET Addr /\ Frees(H) \subseteq H.blocks
           /\ \A x \in H.blocks : H.free[x] # 1 => H.free[x] = 0
<1>1. H.blocks \subseteq Addr /\ H.free \in [Addr -> {0, 1}]
  BY HeapFields
<1> QED
  BY <1>1 DEF Frees

(* A block in use grows by the free block behind it (realloc). *)
LEMMA MergeNextUsed ==
    ASSUME NEW H, Good(H), NEW p \in Used(H), H.next[p] # NULL, H.free[H.next[p]] = 1,
           NEW K, K = MergeNext(H, p)
    PROVE  /\ Good(K) /\ Keeps(H, K, p) /\ p \in Used(K)
           /\ K.size[p] = H.size[p] + H.size[H.next[p]] + META
<1>1. PICK n : n = H.next[p]
  OBVIOUS
<1>2. PICK R : R = removefree(H, n)
  OBVIOUS
<1>3. K = Absorb(R, p, n)
  BY <1>1, <1>2 DEF MergeNext
<1>4. /\ Shape(H) /\ H \in Heap /\ Frees(H) \in SUBSET Addr /\ Listed(H, Frees(H))
      /\ p \in H.blocks /\ H.free[p] = 0
  BY FreesAre DEF Good, Shape, Used
<1>5. n \in Frees(H)
  BY <1>1, <1>4 DEF Shape, NextIsNeighbour, Frees
<1>6. /\ Shape(R) /\ Listed(R, Frees(H) \ {n}) /\ R.blocks = H.blocks /\ R.size = H.size
      /\ R.free = H.free /\ R.next = H.next
  BY <1>2, <1>4, <1>5, FreeRemoveKeeps, SMTT(60)
<1>7. Frees(H) \ {n} \subseteq Addr /\ p \in R.blocks /\ n = R.next[p] /\ n # NULL
  BY <1>1, <1>4, <1>6
<1>8. /\ Shape(K) /\ Listed(K, Frees(H) \ {n})
      /\ p # n /\ K.blocks = H.blocks \ {n}
      /\ K.size[p] = H.size[p] + H.size[n] + META
      /\ \A x \in H.blocks \ {p, n} : K.size[x] = H.size[x] /\ K.next[x] = H.next[x]
      /\ \A x \in H.blocks \ {n} : K.free[x] = H.free[x]
  <2> HIDE DEF Absorb
  <2> QED
    BY <1>3, <1>6, <1>7, AbsorbKeeps
<1>9. Frees(K) = Frees(H) \ {n}
  BY <1>8 DEF Frees
<1>10. Keeps(H, K, p) /\ p \in Used(K)
  BY <1>1, <1>4, <1>8 DEF Keeps, Used
<1>11. CoalescedBut(K, NULL)
  <2> SUFFICES ASSUME NEW x \in Frees(H) \ {n, NULL}, K.next[x] # NULL
               PROVE  K.free[K.next[x]] = 0
    BY <1>9 DEF CoalescedBut
  <2>1. x \in H.blocks \ {p, n} /\ K.next[x] = H.next[x]
    BY <1>4, <1>8 DEF Frees
  <2>2. H.free[H.next[x]] = 0
    BY <2>1 DEF Good, CoalescedBut
  <2>3. H.next[x] \in H.blocks \ {n}
    BY <1>1, <1>4, <2>1, <2>2 DEF Shape, NextIsNeighbour
  <2> QED
    BY <1>8, <2>1, <2>2, <2>3
<1> QED
  BY <1>1, <1>8, <1>9, <1>10, <1>11 DEF Good

(* The block behind p joins it, if it is free. *)
LEMMA MergeNextFree ==
    ASSUME NEW H, NEW p, GoodBut(H, p), NEW K, K = MergeNext(H, p)
    PROVE  /\ GoodBut(K, p) /\ Keeps(H, K, p)
           /\ K.next[p] # NULL => K.free[K.next[p]] = 0
<1>1. PICK n : n = H.next[p]
  OBVIOUS
<1>2. /\ Shape(H) /\ H \in Heap /\ Frees(H) \ {p} \in SUBSET Addr /\ Listed(H, Frees(H) \ {p})
      /\ p \in H.blocks /\ H.free[p] = 1
  BY FreesAre DEF GoodBut, Shape, Frees
<1>3. n # NULL => n \in H.blocks /\ n # p
  BY <1>1, <1>2, HeapNumbers DEF Shape, NextIsNeighbour
<1>4. CASE ~(n # NULL /\ H.free[n] = 1)
  <2>1. K = H
    BY <1>1, <1>4 DEF MergeNext
  <2>2. Keeps(H, K, p)
    BY <2>1 DEF Keeps
  <2> QED
    BY <1>1, <1>2, <1>3, <1>4, <2>1, <2>2, FreesAre
<1>5. CASE n # NULL /\ H.free[n] = 1
  <2>1. PICK R : R = removefree(H, n)
    OBVIOUS
  <2>2. K = Absorb(R, p, n)
    BY <1>1, <1>5, <2>1 DEF MergeNext
  <2>3. n \in Frees(H) \ {p}
    BY <1>3, <1>5 DEF Frees
  <2>4. /\ Shape(R) /\ Listed(R, (Frees(H) \ {p}) \ {n}) /\ R.blocks = H.blocks
        /\ R.size = H.size /\ R.free = H.free /\ R.next = H.next
    <3>1. PICK F : F = Frees(H) \ {p}
      OBVIOUS
    <3>2. F \in SUBSET Addr /\ Listed(H, F) /\ n \in F /\ Shape(H)
      BY <1>2, <2>3, <3>1
    <3>3. /\ Shape(R) /\ Listed(R, F \ {n}) /\ R.blocks = H.blocks
          /\ R.size = H.size /\ R.free = H.free /\ R.next = H.next
      BY <2>1, <3>2, FreeRemoveKeeps
    <3> QED
      BY <3>1, <3>3
  <2>5. (Frees(H) \ {p}) \ {n} \subseteq Addr /\ p \in R.blocks /\ n = R.next[p]
    BY <1>1, <1>2, <2>4
  <2>6. /\ Shape(K) /\ Listed(K, (Frees(H) \ {p}) \ {n})
        /\ K.blocks = H.blocks \ {n} /\ K.next[p] = H.next[n] /\ H.next[n] \notin {p, n}
        /\ \A x \in H.blocks \ {p, n} : K.size[x] = H.size[x] /\ K.next[x] = H.next[x]
        /\ \A x \in H.blocks \ {n} : K.free[x] = H.free[x]
    BY <1>5, <2>2, <2>4, <2>5, AbsorbKeeps
  <2>7. Frees(K) \ {p} = (Frees(H) \ {p}) \ {n} /\ p \in Frees(K)
    BY <1>2, <1>3, <1>5, <2>6 DEF Frees
  <2>8. Keeps(H, K, p)
    BY <1>5, <2>6 DEF Keeps, Used
  <2>9. K.next[p] # NULL => K.free[K.next[p]] = 0
    <3> SUFFICES ASSUME K.next[p] # NULL PROVE K.free[K.next[p]] = 0
      OBVIOUS
    <3>1. H.free[H.next[n]] = 0
      BY <2>3, <2>6 DEF GoodBut, CoalescedBut
    <3>2. H.next[n] \in H.blocks \ {n}
      BY <1>2, <1>3, <1>5, <2>6 DEF Shape, NextIsNeighbour
    <3> QED
      BY <2>6, <3>1, <3>2
  <2>10. CoalescedBut(K, p)
    <3> SUFFICES ASSUME NEW x \in (Frees(H) \ {p}) \ {n}, K.next[x] \notin {NULL, p}
                 PROVE  K.free[K.next[x]] = 0
      BY <2>7 DEF CoalescedBut
    <3>1. x \in H.blocks \ {p, n} /\ K.next[x] = H.next[x]
      BY <2>6 DEF Frees
    <3>2. H.free[H.next[x]] = 0
      BY <3>1 DEF GoodBut, CoalescedBut
    <3>3. H.next[x] \in H.blocks \ {n}
      BY <1>2, <1>5, <3>1, <3>2 DEF Shape, NextIsNeighbour
    <3> QED
      BY <2>6, <3>1, <3>2, <3>3
  <2> QED
    BY <2>6, <2>7, <2>8, <2>9, <2>10 DEF GoodBut
<1> QED
  BY <1>4, <1>5

(* p goes on the list, or into the free block before it. *)
LEMMA MergePrevFree ==
    ASSUME NEW H, NEW p, GoodBut(H, p), H.next[p] # NULL => H.free[H.next[p]] = 0,
           NEW K, K = MergePrev(H, p)
    PROVE  Good(K) /\ Keeps(H, K, p)
<1>1. PICK b : b = H.prev[p]
  OBVIOUS
<1>2. /\ Shape(H) /\ H \in Heap /\ Frees(H) \ {p} \in SUBSET Addr /\ Listed(H, Frees(H) \ {p})
      /\ p \in H.blocks /\ p \in Addr /\ H.free[p] = 1 /\ p \in Frees(H)
  BY FreesAre, HeapNumbers DEF GoodBut, Shape, Frees
<1>3. b # NULL => b \in H.blocks /\ H.next[b] = p
  BY <1>1, <1>2 DEF Shape, PrevIsNeighbour
<1>4. \A x \in H.blocks : H.next[x] # NULL =>
          H.next[x] \in H.blocks /\ H.next[x] # x /\ H.prev[H.next[x]] = x
  BY <1>2, HeapNumbers DEF Shape, NextIsNeighbour
<1>5. p # NULL
  BY <1>2, Constants
<1>6. CASE ~(b # NULL /\ H.free[b] = 1)
  <2>1. K = insertfree(H, p)
    BY <1>1, <1>6 DEF MergePrev
  <2>2. /\ Shape(K) /\ Listed(K, (Frees(H) \ {p}) \union {p}) /\ K.blocks = H.blocks
        /\ K.size = H.size /\ K.free = H.free /\ K.next = H.next
    BY <1>2, <2>1, InsertKeeps
  <2>3. Frees(K) = (Frees(H) \ {p}) \union {p} /\ Frees(K) = Frees(H) /\ Used(K) = Used(H)
    BY <1>2, <2>2 DEF Frees, Used
  <2>4. Keeps(H, K, p)
    BY <2>2, <2>3 DEF Keeps
  <2>5. CoalescedBut(K, NULL)
    <3> SUFFICES ASSUME NEW x \in Frees(H), H.next[x] # NULL
                 PROVE  H.free[H.next[x]] = 0
      BY <2>2, <2>3 DEF CoalescedBut
    <3>1. x \in H.blocks /\ H.free[x] = 1
      BY DEF Frees
    <3>2. H.next[x] = p => x = p
      BY <1>1, <1>4, <1>6, <3>1, <1>2, HeapNumbers
    <3>3. CASE x = p
      BY <3>3
    <3>4. CASE x # p
      BY <3>2, <3>4 DEF GoodBut, CoalescedBut
    <3> QED
      BY <3>3, <3>4
  <2> QED
    BY <2>2, <2>3, <2>4, <2>5 DEF Good
<1>7. CASE b # NULL /\ H.free[b] = 1
  <2>1. PICK R : R = removefree(H, b)
    OBVIOUS
  <2>2. PICK A : A = Absorb(R, b, p)
    OBVIOUS
  <2>3. K = insertfree(A, b)
    BY <1>1, <1>7, <2>1, <2>2 DEF MergePrev
  <2>4. b \in Frees(H) \ {p}
    BY <1>3, <1>4, <1>5, <1>7 DEF Frees
  <2>5. /\ Shape(R) /\ Listed(R, (Frees(H) \ {p}) \ {b}) /\ R.blocks = H.blocks
        /\ R.size = H.size /\ R.free = H.free /\ R.next = H.next
    <3>1. PICK F : F = Frees(H) \ {p}
      OBVIOUS
    <3>2. F \in SUBSET Addr /\ Listed(H, F) /\ b \in F /\ Shape(H)
      BY <1>2, <2>4, <3>1
    <3>3. /\ Shape(R) /\ Listed(R, F \ {b}) /\ R.blocks = H.blocks
          /\ R.size = H.size /\ R.free = H.free /\ R.next = H.next
      BY <2>1, <3>2, FreeRemoveKeeps
    <3> QED
      BY <3>1, <3>3
  <2>6. (Frees(H) \ {p}) \ {b} \subseteq Addr /\ b \in R.blocks /\ p = R.next[b]
    BY <1>2, <1>3, <1>7, <2>5
  <2>7. /\ Shape(A) /\ Listed(A, (Frees(H) \ {p}) \ {b})
        /\ A.blocks = H.blocks \ {p} /\ A.next[b] = H.next[p] /\ H.next[p] \notin {b, p}
        /\ \A x \in H.blocks \ {b, p} : A.size[x] = H.size[x] /\ A.next[x] = H.next[x]
        /\ \A x \in H.blocks \ {p} : A.free[x] = H.free[x]
    BY <1>5, <2>2, <2>5, <2>6, AbsorbKeeps
  <2>8. b \in Addr /\ b \notin (Frees(H) \ {p}) \ {b} /\ (Frees(H) \ {p}) \ {b} \in SUBSET Addr
    BY <1>2, <2>4
  <2>9. /\ Shape(K) /\ Listed(K, ((Frees(H) \ {p}) \ {b}) \union {b}) /\ K.blocks = A.blocks
        /\ K.size = A.size /\ K.free = A.free /\ K.next = A.next
    BY <2>3, <2>7, <2>8, InsertKeeps
  <2>10. Frees(K) = ((Frees(H) \ {p}) \ {b}) \union {b} /\ Frees(K) = Frees(H) \ {p}
    BY <2>4, <2>7, <2>9 DEF Frees
  <2>11. Keeps(H, K, p)
    BY <1>7, <2>7, <2>9 DEF Keeps, Used
  <2>12. CoalescedBut(K, NULL)
    <3> SUFFICES ASSUME NEW x \in Frees(H) \ {p}, A.next[x] # NULL
                 PROVE  A.free[A.next[x]] = 0
      BY <2>9, <2>10 DEF CoalescedBut
    <3>1. CASE x = b
      BY <1>2, <1>4, <2>7, <3>1
    <3>2. CASE x # b
      <4>1. x \in H.blocks \ {b, p} /\ A.next[x] = H.next[x]
        BY <2>7, <3>2 DEF Frees
      <4>2. H.next[x] \in H.blocks \ {p}
        BY <1>1, <1>4, <3>2, <4>1
      <4>3. H.free[H.next[x]] = 0
        BY <4>1, <4>2 DEF GoodBut, CoalescedBut
      <4> QED
        BY <2>7, <4>1, <4>2, <4>3
    <3> QED
      BY <3>1, <3>2
  <2> QED
    BY <2>9, <2>10, <2>11, <2>12 DEF Good
<1> QED
  BY <1>6, <1>7

LEMMA FreeKeeps ==
    ASSUME NEW H, Good(H), NEW p \in Used(H), NEW K, K = free(H, p)
    PROVE  Good(K) /\ Keeps(H, K, p)
<1>1. PICK G : G = [H EXCEPT !.free[p] = 1]
  OBVIOUS
<1>2. PICK M : M = MergeNext(G, p)
  OBVIOUS
<1>3. H \in Heap /\ p \in H.blocks /\ p \in Addr /\ H.free[p] = 0 /\ Shape(H)
  BY HeapNumbers DEF Used, Good, Shape
<1>4. K = MergePrev(M, p)
  BY <1>1, <1>2, <1>3 DEF free
<1>5. /\ G.blocks = H.blocks /\ G.size = H.size /\ G.free = [H.free EXCEPT ![p] = 1]
      /\ G.next = H.next /\ G.prev = H.prev /\ G.tail = H.tail /\ G.brk = H.brk
      /\ G.freehead = H.freehead /\ G.freenext = H.freenext /\ G.freeprev = H.freeprev
  BY <1>1, <1>3 DEF Heap
<1>6. G \in Heap
  <2>1. G = [f \in HeapDomain |-> G[f]]
    BY <1>1, <1>3 DEF Heap, HeapDomain
  <2>2. G.free \in [Addr -> {0, 1}]
    BY <1>3, <1>5, HeapFields
  <2> QED
    BY <1>3, <1>5, <2>1, <2>2, HeapFields, IsHeap
<1>7. G.free[p] = 1 /\ \A x \in H.blocks \ {p} : G.free[x] = H.free[x]
  BY <1>3, <1>5, HeapFields
<1>8. GoodBut(G, p)
  <2>1. Shape(G)
    <3>1. \A x \in H.blocks : G.size[x] <= H.size[x]
      BY <1>3, <1>5, HeapNumbers
    <3> QED
      BY <1>3, <1>5, <1>6, <3>1, ShapeKept
  <2>2. p \in Frees(G) /\ Frees(G) \ {p} = Frees(H)
    BY <1>3, <1>5, <1>7 DEF Frees
  <2>3. Listed(G, Frees(H))
    <3>1. Listed(H, Frees(H))
      BY DEF Good
    <3> QED
      BY <1>5, <3>1, ListKept
  <2>4. CoalescedBut(G, p)
    <3> SUFFICES ASSUME NEW x \in Frees(H), H.next[x] \notin {NULL, p}
                 PROVE  G.free[H.next[x]] = 0
      BY <1>5, <2>2 DEF CoalescedBut
    <3>1. x \in H.blocks /\ x # NULL
      BY <1>3, HeapNumbers DEF Frees
    <3>2. H.free[H.next[x]] = 0
      BY <3>1 DEF Good, CoalescedBut
    <3>3. H.next[x] \in H.blocks
      BY <1>3, <3>1 DEF Shape, NextIsNeighbour
    <3> QED
      BY <1>7, <3>2, <3>3
  <2> QED
    BY <2>1, <2>2, <2>3, <2>4 DEF GoodBut
<1>9. Keeps(H, G, p)
  BY <1>5, <1>7 DEF Keeps, Used
<1>10. GoodBut(M, p) /\ Keeps(G, M, p) /\ (M.next[p] # NULL => M.free[M.next[p]] = 0)
  BY <1>2, <1>8, MergeNextFree
<1>11. Good(K) /\ Keeps(M, K, p)
  BY <1>4, <1>10, MergePrevFree
<1> QED
  BY <1>9, <1>10, <1>11 DEF Keeps

-----------------------------------------------------------------------------
(* malloc. *)

(* The search ends, at the end of the list or at a block that is large enough. *)
LEMMA FirstFitIs ==
    ASSUME NEW H, Good(H), NEW size \in Nat, NEW p, p = FirstFit(H, size), p # NULL
    PROVE  p \in Frees(H) /\ H.size[p] >= size
<1>1. PICK f : f = FreeAt(H)
  OBVIOUS
<1>2. Lists(H, Frees(H), f) /\ Frees(H) \in SUBSET Addr
  BY <1>1, FreesAre DEF Good, Listed, Shape
<1>3. f[HeapLimit] = NULL /\ HeapLimit \in HeapPlaces /\ HeapPlaces \subseteq Nat
  BY <1>2, ListEnds, Constants DEF HeapPlaces
<1> DEFINE Stop(k) == f[k] = NULL \/ H.size[f[k]] >= size
           S == {k \in HeapPlaces : Stop(k)}
<1>4. S \in SUBSET Nat /\ S # {}
  BY <1>3
<1>5. PICK m \in S : \A n \in S : m <= n
  BY <1>4, LeastExists
<1>6. Stop(m) /\ m \in HeapPlaces /\ \A j \in 0 .. m - 1 : ~Stop(j)
  <2>1. m \in Nat /\ m <= HeapLimit
    BY <1>3, <1>5 DEF HeapPlaces
  <2>2. \A j \in 0 .. m - 1 : j \in HeapPlaces /\ ~(m <= j)
    BY <2>1, Constants DEF HeapPlaces
  <2> QED
    BY <1>5, <2>2
<1>7. PICK c : c = CHOOSE k \in 0 .. HeapLimit : Stop(k) /\ \A j \in 0 .. k - 1 : ~Stop(j)
  OBVIOUS
<1>8. c \in HeapPlaces /\ Stop(c)
  BY <1>6, <1>7 DEF HeapPlaces
<1>9. p = f[c]
  BY <1>1, <1>7 DEF FirstFit
<1>10. f[c] \in Frees(H)
  BY <1>2, <1>8, <1>9 DEF Lists
<1> QED
  BY <1>8, <1>9, <1>10

(* A free block, cut to size, is taken. *)
LEMMA ReuseKeeps ==
    ASSUME NEW H, Good(H), NEW p \in Frees(H), NEW size \in Nat, H.size[p] >= size,
           NEW K, K = Reuse(H, p, size)
    PROVE  Good(K) /\ Keeps(H, K, NULL) /\ p \in Used(K) /\ K.size[p] = size
<1>1. PICK R : R = removefree(H, p)
  OBVIOUS
<1>2. /\ Shape(H) /\ H \in Heap /\ Frees(H) \in SUBSET Addr /\ Listed(H, Frees(H))
      /\ p \in H.blocks /\ p \in Addr /\ H.free[p] = 1 /\ p \in Nat /\ p # NULL
      /\ H.size[p] \in Nat /\ META \in Nat \ {0}
  BY FreesAre, HeapNumbers DEF Good, Shape, Frees
<1>3. /\ Shape(R) /\ Listed(R, Frees(H) \ {p}) /\ R.blocks = H.blocks /\ R.size = H.size
      /\ R.free = H.free /\ R.next = H.next /\ R.prev = H.prev /\ R.tail = H.tail
      /\ R.brk = H.brk
  <2>1. PICK F : F = Frees(H)
    OBVIOUS
  <2>2. Shape(H) /\ F \in SUBSET Addr /\ Listed(H, F) /\ p \in F
    BY <1>2, <2>1
  <2>3. /\ Shape(R) /\ Listed(R, F \ {p}) /\ R.blocks = H.blocks /\ R.size = H.size
        /\ R.free = H.free /\ R.next = H.next /\ R.prev = H.prev /\ R.tail = H.tail
        /\ R.brk = H.brk
    BY <1>1, <2>2, FreeRemoveKeeps
  <2> QED
    BY <2>1, <2>3
<1>4. R \in Heap
  BY <1>3 DEF Shape
<1>5. K = [split(R, p, size) EXCEPT !.free[p] = 0, !.size[p] = size]
  BY <1>1 DEF Reuse
<1>6. \A x \in H.blocks : H.next[x] # NULL => H.next[x] \in H.blocks /\ H.next[x] # x
  BY <1>2, HeapNumbers DEF Shape, NextIsNeighbour
<1>7. \A x \in Frees(H) : H.next[x] # NULL => H.free[H.next[x]] = 0
  BY <1>2, HeapNumbers DEF Good, CoalescedBut, Frees
<1>8. CASE H.size[p] <= size + 3 * META
  <2>1. K = [R EXCEPT !.free[p] = 0, !.size[p] = size]
    BY <1>3, <1>5, <1>8 DEF split
  <2>2. /\ K.blocks = H.blocks /\ K.size = [H.size EXCEPT ![p] = size]
        /\ K.free = [H.free EXCEPT ![p] = 0]
        /\ K.next = H.next /\ K.prev = H.prev /\ K.tail = H.tail /\ K.brk = H.brk
        /\ K.freehead = R.freehead /\ K.freenext = R.freenext /\ K.freeprev = R.freeprev
    BY <1>3, <1>4, <2>1 DEF Heap
  <2>3. K \in Heap
    <3>1. K = [f \in HeapDomain |-> K[f]]
      BY <1>4, <2>1 DEF Heap, HeapDomain
    <3>2. K.free \in [Addr -> {0, 1}] /\ K.size \in [Addr -> Nat]
      BY <1>2, <2>2, HeapFields
    <3>3. K.freehead \in Link /\ K.freenext \in [Addr -> Link] /\ K.freeprev \in [Addr -> Link]
      BY <1>4, <2>2, HeapFields
    <3> QED
      BY <1>2, <2>2, <3>1, <3>2, <3>3, HeapFields, IsHeap, SMTT(60)
  <2>4. /\ K.free[p] = 0 /\ \A x \in H.blocks \ {p} : K.free[x] = H.free[x]
        /\ K.size[p] = size /\ \A x \in H.blocks \ {p} : K.size[x] = H.size[x]
    BY <1>2, <2>2, HeapFields
  <2>5. Shape(K)
    <3>1. \A x \in H.blocks : K.size[x] <= H.size[x]
      BY <1>2, <2>4, HeapNumbers
    <3> QED
      BY <1>2, <2>2, <2>3, <3>1, ShapeKept
  <2>6. Frees(K) = Frees(H) \ {p}
    BY <2>2, <2>4 DEF Frees
  <2>7. Listed(K, Frees(H) \ {p})
    BY <1>3, <2>2, ListKept
  <2>8. CoalescedBut(K, NULL)
    <3> SUFFICES ASSUME NEW x \in Frees(H) \ {p}, H.next[x] # NULL
                 PROVE  K.free[H.next[x]] = 0
      BY <2>2, <2>6 DEF CoalescedBut
    <3>1. H.next[x] \in H.blocks /\ H.free[H.next[x]] = 0
      BY <1>6, <1>7 DEF Frees
    <3> QED
      BY <2>4, <3>1
  <2>9. Keeps(H, K, NULL) /\ p \in Used(K)
    BY <1>2, <2>2, <2>4 DEF Keeps, Used
  <2> QED
    BY <2>4, <2>5, <2>6, <2>7, <2>8, <2>9 DEF Good
<1>9. CASE ~(H.size[p] <= size + 3 * META)
  <2>1. PICK q, rest : q = p + META + size /\ rest = H.size[p] - size - META
    OBVIOUS
  <2>2. rest \in Nat /\ H.size[p] = size + META + rest /\ q > p /\ q \in Nat
    BY <1>2, <1>9, <2>1
  <2>3. q \in Addr
    <3>1. p + META + H.size[p] <= H.brk
      BY <1>2 DEF Shape, Layout
    <3>2. H.brk \in Nat /\ H.brk <= HeapLimit + 1
      BY <1>2, HeapFields, Constants
    <3>3. q < H.brk
      BY <1>2, <2>1, <2>2, <3>1, <3>2
    <3> QED
      BY <1>2, <2>2, <3>2, <3>3, Constants DEF Addr
  <2>4. PICK pv : pv = SetIfAny([R.prev EXCEPT ![q] = p], R.next[p], q)
    OBVIOUS
  <2>5. /\ pv \in [Addr -> Link]
        /\ \A x \in Addr : pv[x] = IF x = H.next[p] THEN q ELSE IF x = q THEN p ELSE H.prev[x]
    <3>1. PICK p0 : p0 = [R.prev EXCEPT ![q] = p]
      OBVIOUS
    <3>2. /\ p0 \in [Addr -> Link] /\ H.next[p] \in Link /\ q \in Link
          /\ \A x \in Addr : p0[x] = IF x = q THEN p ELSE H.prev[x]
      BY <1>2, <1>3, <2>3, <3>1, HeapFields, Constants
    <3> QED
      BY <1>3, <2>4, <3>1, <3>2, Constants DEF SetIfAny, Link
  <2>6. PICK nx : nx = [R.next EXCEPT ![q] = R.next[p], ![p] = q]
    OBVIOUS
  <2>7. /\ nx \in [Addr -> Link] /\ nx[p] = q /\ nx[q] = H.next[p]
        /\ \A x \in Addr \ {p, q} : nx[x] = H.next[x]
    BY <1>2, <1>3, <2>2, <2>3, <2>6, HeapFields, Constants
  <2>8. PICK C : C = [R EXCEPT !.blocks = @ \union {q}, !.size[q] = rest, !.free[q] = 1,
                               !.next = nx, !.prev = pv,
                               !.tail = IF R.next[p] = NULL THEN q ELSE @]
    OBVIOUS
  <2>9. /\ C.blocks = H.blocks \union {q} /\ C.size = [H.size EXCEPT ![q] = rest]
        /\ C.free = [H.free EXCEPT ![q] = 1] /\ C.next = nx /\ C.prev = pv
        /\ C.tail = IF H.next[p] = NULL THEN q ELSE H.tail
        /\ C.brk = H.brk
        /\ C.freehead = R.freehead /\ C.freenext = R.freenext /\ C.freeprev = R.freeprev
    BY <1>3, <1>4, <2>8 DEF Heap
  <2>10. C \in Heap
    <3>1. C = [f \in HeapDomain |-> C[f]]
      BY <1>4, <2>8 DEF Heap, HeapDomain
    <3>2. C.free \in [Addr -> {0, 1}] /\ C.size \in [Addr -> Nat]
      BY <1>2, <2>2, <2>3, <2>9, HeapFields
    <3>3. C.freehead \in Link /\ C.freenext \in [Addr -> Link] /\ C.freeprev \in [Addr -> Link]
      BY <1>4, <2>9, HeapFields
    <3>4. C.blocks \in SUBSET Addr /\ C.tail \in Link /\ C.brk \in 1 .. HeapLimit + 1
      BY <1>2, <2>3, <2>9, HeapFields, Constants
    <3> QED
      BY <2>5, <2>7, <2>9, <3>1, <3>2, <3>3, <3>4, IsHeap
  <2>11. PICK D : D = insertfree(C, q)
    OBVIOUS
  <2>12. split(R, p, size) = D
    <3>1. split(R, p, size) = CutAt(R, p, size, q, rest)
      BY <1>3, <1>9, <2>1 DEF split
    <3> QED
      BY <2>4, <2>6, <2>8, <2>11, <3>1 DEF CutAt
  <2>13. /\ D \in Heap
         /\ D.blocks = C.blocks /\ D.size = C.size /\ D.free = C.free
         /\ D.next = C.next /\ D.prev = C.prev /\ D.tail = C.tail /\ D.brk = C.brk
    BY <2>3, <2>10, <2>11, InsertFields
  <2>14. K = [D EXCEPT !.free[p] = 0, !.size[p] = size]
    BY <1>5, <2>12
  <2>15. /\ K.blocks = H.blocks \union {q}
         /\ K.size = [D.size EXCEPT ![p] = size] /\ K.free = [D.free EXCEPT ![p] = 0]
         /\ K.next = nx /\ K.prev = pv
         /\ K.tail = IF H.next[p] = NULL THEN q ELSE H.tail
         /\ K.brk = H.brk
         /\ K.freehead = D.freehead /\ K.freenext = D.freenext /\ K.freeprev = D.freeprev
    <3>1. /\ K.blocks = D.blocks /\ K.next = D.next /\ K.prev = D.prev /\ K.tail = D.tail
          /\ K.brk = D.brk
          /\ K.size = [D.size EXCEPT ![p] = size] /\ K.free = [D.free EXCEPT ![p] = 0]
          /\ K.freehead = D.freehead /\ K.freenext = D.freenext /\ K.freeprev = D.freeprev
      BY <2>13, <2>14 DEF Heap
    <3> QED
      BY <2>9, <2>13, <3>1
  <2>16. K \in Heap
    <3>1. K = [f \in HeapDomain |-> K[f]]
      BY <2>13, <2>14 DEF Heap, HeapDomain
    <3>2. K.free \in [Addr -> {0, 1}] /\ K.size \in [Addr -> Nat]
      BY <1>2, <2>13, <2>15, HeapFields
    <3>3. K.freehead \in Link /\ K.freenext \in [Addr -> Link] /\ K.freeprev \in [Addr -> Link]
      BY <2>13, <2>15, HeapFields
    <3>4. K.blocks \in SUBSET Addr /\ K.tail \in Link /\ K.brk \in 1 .. HeapLimit + 1
      BY <1>2, <2>3, <2>15, HeapFields, Constants
    <3> QED
      BY <2>5, <2>7, <2>15, <3>1, <3>2, <3>3, <3>4, IsHeap, SMTT(60)
  <2>17. /\ K.free[p] = 0 /\ K.free[q] = 1 /\ \A x \in H.blocks \ {p, q} : K.free[x] = H.free[x]
         /\ K.size[p] = size /\ K.size[q] = rest
         /\ \A x \in H.blocks \ {p, q} : K.size[x] = H.size[x]
    <3>1. p # q /\ H.blocks \subseteq Addr /\ H.free \in [Addr -> {0, 1}] /\ H.size \in [Addr -> Nat]
      BY <1>2, <2>2, HeapFields
    <3>2. /\ K.free = [[H.free EXCEPT ![q] = 1] EXCEPT ![p] = 0]
          /\ K.size = [[H.size EXCEPT ![q] = rest] EXCEPT ![p] = size]
      BY <2>9, <2>13, <2>15
    <3> QED
      BY <1>2, <2>3, <3>1, <3>2
  <2>18. Shape(K) /\ q \notin H.blocks
    <3>1. p \notin {q} /\ q \notin H.blocks
      <4>1. \A y \in H.blocks : p < y => p + META + H.size[p] <= y
        BY <1>2 DEF Shape, Layout
      <4>2. \A y \in H.blocks : y \in Nat
        BY <1>2, HeapNumbers
      <4> QED
        BY <1>2, <2>1, <2>2, <4>1, <4>2
    <3>2. /\ \A x \in H.blocks \ {p} : K.size[x] = H.size[x] /\ K.next[x] = H.next[x]
          /\ \A x \in K.blocks : K.prev[x] = IF x = H.next[p] THEN q ELSE IF x = q THEN p ELSE H.prev[x]
      <4>1. H.blocks \subseteq Addr /\ K.blocks \subseteq Addr
        BY <1>2, <2>16, HeapFields
      <4>2. \A x \in H.blocks \ {p} : x \in Addr \ {p, q}
        BY <3>1, <4>1
      <4>3. \A x \in H.blocks \ {p} : K.size[x] = H.size[x]
        BY <2>17, <3>1
      <4>4. \A x \in H.blocks \ {p} : K.next[x] = H.next[x]
        BY <2>7, <2>15, <4>2
      <4>5. \A x \in K.blocks : K.prev[x] = IF x = H.next[p] THEN q ELSE IF x = q THEN p ELSE H.prev[x]
        BY <2>5, <2>15, <4>1
      <4> QED
        BY <4>3, <4>4, <4>5
    <3>3. K.next[p] = q /\ K.next[q] = H.next[p]
      BY <2>7, <2>15
    <3>4. /\ Shape(H) /\ p \in H.blocks /\ rest \in Nat /\ q = p + META + size
          /\ H.size[p] = size + META + rest
          /\ K.blocks = H.blocks \union {q} /\ K.brk = H.brk
          /\ K.size[p] = size /\ K.size[q] = rest
          /\ K.tail = IF H.next[p] = NULL THEN q ELSE H.tail
      BY <1>2, <2>1, <2>2, <2>15, <2>17
    <3>5. Shape(K)
      BY <2>16, <3>2, <3>3, <3>4, ShapeCut
    <3> QED
      BY <3>1, <3>5
  <2>19. Frees(K) = (Frees(H) \ {p}) \union {q}
    BY <1>2, <2>15, <2>17, <2>18 DEF Frees
  <2>20. Listed(K, (Frees(H) \ {p}) \union {q})
    <3>1. PICK F : F = Frees(H) \ {p}
      OBVIOUS
    <3>2. F \in SUBSET Addr /\ q \notin F /\ Listed(R, F)
      BY <1>2, <1>3, <2>18, <3>1 DEF Frees
    <3>3. Listed(C, F)
      BY <2>9, <3>2, ListKept
    <3>4. PICK h : h = C.freehead
      OBVIOUS
    <3>5. q # h
      <4>1. PICK f : Lists(C, F, f)
        BY <3>3 DEF Listed
      <4>2. 0 \in HeapPlaces /\ f[0] = h
        BY <3>4, <4>1, Constants DEF HeapPlaces, Lists, Walk
      <4>3. f[0] = NULL \/ f[0] \in F
        BY <4>1, <4>2 DEF Lists
      <4> QED
        BY <2>3, <3>2, <4>2, <4>3, Constants
    <3>6. /\ D.freehead = q /\ D.freenext[q] = C.freehead
          /\ \A a \in Addr : a # q => D.freenext[a] = C.freenext[a]
          /\ \A a \in Addr : D.freeprev[a] = IF a = C.freehead THEN q
                                            ELSE IF a = q THEN NULL ELSE C.freeprev[a]
      BY <2>3, <2>10, <2>11, InsertFields
    <3>7. /\ K.freehead = q /\ K.freenext[q] = C.freehead /\ K.freeprev[q] = NULL
          /\ \A x \in F : K.freenext[x] = C.freenext[x]
          /\ \A x \in F : K.freeprev[x] = IF x = C.freehead THEN q ELSE C.freeprev[x]
      BY <2>3, <2>15, <3>2, <3>4, <3>5, <3>6
    <3>8. Listed(K, F \union {q})
      BY <2>3, <3>2, <3>3, <3>7, ListInsert
    <3> QED
      BY <3>1, <3>8
  <2>21. CoalescedBut(K, NULL)
    <3> SUFFICES ASSUME NEW x \in (Frees(H) \ {p}) \union {q}, K.next[x] # NULL
                 PROVE  K.free[K.next[x]] = 0
      BY <2>19 DEF CoalescedBut
    <3>1. CASE x = q
      <4>1. K.next[x] = H.next[p]
        BY <2>7, <2>15, <3>1
      <4>2. H.next[p] \in H.blocks \ {p, q} /\ H.free[H.next[p]] = 0
        BY <1>2, <1>6, <1>7, <2>18, <4>1
      <4> QED
        BY <2>17, <4>1, <4>2
    <3>2. CASE x # q
      <4>1. x \in Frees(H) /\ x \in H.blocks /\ x \in Addr /\ x # p /\ K.next[x] = H.next[x]
        BY <1>2, <2>7, <2>15, <3>2 DEF Frees
      <4>2. H.next[x] \in H.blocks \ {p, q} /\ H.free[H.next[x]] = 0
        BY <1>2, <1>6, <1>7, <2>18, <4>1
      <4> QED
        BY <2>17, <4>1, <4>2
    <3> QED
      BY <3>1, <3>2
  <2>22. Keeps(H, K, NULL) /\ p \in Used(K)
    BY <1>2, <2>15, <2>17, <2>18 DEF Keeps, Used
  <2> QED
    BY <2>17, <2>18, <2>19, <2>20, <2>21, <2>22 DEF Good
<1> QED
  BY <1>8, <1>9

(* A block from sbrk. *)
LEMMA GrowKeeps ==
    ASSUME NEW H, Good(H), NEW size \in Nat, H.brk + META + size <= HeapLimit + 1,
           NEW K, K = Grow(H, size)
    PROVE  /\ Good(K) /\ Keeps(H, K, NULL)
           /\ H.brk \in Used(K) /\ H.brk \notin H.blocks /\ K.size[H.brk] = size
<1>1. PICK b : b = H.brk
  OBVIOUS
<1>2. /\ Shape(H) /\ H \in Heap /\ Frees(H) \in SUBSET Addr /\ Listed(H, Frees(H))
      /\ H.blocks \subseteq Addr
  BY FreesAre, HeapFields DEF Good, Shape
<1>3. b \notin H.blocks
  <2>1. \A x \in H.blocks : x + META + H.size[x] <= b
    BY <1>1, <1>2 DEF Shape, Layout
  <2>2. META \in Nat \ {0} /\ b \in Nat \ {0} /\ \A x \in H.blocks : x \in Nat /\ H.size[x] \in Nat
    BY <1>1, <1>2, HeapNumbers
  <2> QED
    BY <2>1, <2>2
<1>4. H.tail # b
  <2>1. H.tail = NULL \/ H.tail \in H.blocks
    BY <1>2 DEF Shape, TailIsLast
  <2>2. b # NULL
    BY <1>1, <1>2, HeapNumbers DEF NULL
  <2> QED
    BY <1>3, <2>1, <2>2
<1>5. /\ K \in Heap /\ b \in Addr
      /\ K.blocks = H.blocks \union {b} /\ K.brk = b + META + size
      /\ K.size[b] = size /\ K.free[b] = 0 /\ K.next[b] = NULL
      /\ K.prev[b] = H.tail /\ K.tail = b /\ K.freehead = H.freehead
      /\ \A x \in Addr \ {b} :
            /\ K.size[x] = H.size[x] /\ K.free[x] = H.free[x] /\ K.prev[x] = H.prev[x]
            /\ K.freenext[x] = H.freenext[x] /\ K.freeprev[x] = H.freeprev[x]
            /\ K.next[x] = IF x = H.tail THEN b ELSE H.next[x]
  BY <1>1, <1>2, <1>4, GrowFields
<1>6. \A x \in H.blocks :
            /\ K.size[x] = H.size[x] /\ K.free[x] = H.free[x] /\ K.prev[x] = H.prev[x]
            /\ K.freenext[x] = H.freenext[x] /\ K.freeprev[x] = H.freeprev[x]
            /\ K.next[x] = IF x = H.tail THEN b ELSE H.next[x]
  BY <1>2, <1>3, <1>5
<1>7. Shape(K)
  BY <1>1, <1>2, <1>5, <1>6, ShapeGrow
<1>8. Frees(K) = Frees(H)
  BY <1>5, <1>6 DEF Frees
<1>9. Listed(K, Frees(H))
  <2>1. \A x \in Frees(H) : K.freenext[x] = H.freenext[x] /\ K.freeprev[x] = H.freeprev[x]
    BY <1>6 DEF Frees
  <2> QED
    BY <1>2, <1>5, <2>1, ListKept
<1>10. CoalescedBut(K, NULL)
  <2> SUFFICES ASSUME NEW x \in Frees(H), x # NULL, K.next[x] # NULL
               PROVE  K.free[K.next[x]] = 0
    BY <1>8 DEF CoalescedBut
  <2>1. x \in H.blocks
    BY DEF Frees
  <2>2. CASE x = H.tail
    BY <1>5, <1>6, <2>1, <2>2
  <2>3. CASE x # H.tail
    <3>1. K.next[x] = H.next[x]
      BY <1>6, <2>1, <2>3
    <3>2. H.next[x] \in H.blocks
      BY <1>2, <2>1, <3>1 DEF Shape, NextIsNeighbour
    <3>3. H.free[H.next[x]] = 0
      BY <3>1 DEF Good, CoalescedBut
    <3> QED
      BY <1>6, <3>1, <3>2, <3>3
  <2> QED
    BY <2>2, <2>3
<1>11. Keeps(H, K, NULL) /\ b \in Used(K)
  BY <1>5, <1>6 DEF Keeps, Used
<1> QED
  BY <1>1, <1>3, <1>5, <1>7, <1>8, <1>9, <1>10, <1>11 DEF Good

(* malloc gives a block of the size asked for that nobody has, or nothing. *)
LEMMA MallocKeeps ==
    ASSUME NEW H, Good(H), NEW size \in Nat, NEW r, r = malloc(H, size)
    PROVE  /\ Good(r.heap) /\ Keeps(H, r.heap, NULL)
           /\ r.ptr # NULL => /\ r.ptr \in Addr /\ r.ptr \notin Used(H)
                              /\ r.ptr \in Used(r.heap) /\ r.heap.size[r.ptr] = size
<1>1. PICK p : p = FirstFit(H, size)
  OBVIOUS
<1>2. Keeps(H, H, NULL)
  BY DEF Keeps
<1>3. CASE size # 0 /\ p # NULL
  <2>1. r.ptr = p /\ r.heap = Reuse(H, p, size)
    BY <1>1, <1>3 DEF malloc
  <2>2. p \in Frees(H) /\ H.size[p] >= size
    BY <1>1, <1>3, FirstFitIs
  <2>3. Good(r.heap) /\ Keeps(H, r.heap, NULL) /\ p \in Used(r.heap) /\ r.heap.size[p] = size
    BY <2>1, <2>2, ReuseKeeps
  <2>4. p \in Addr /\ p \notin Used(H)
    BY <2>2, FreesAre DEF Good, Shape, Frees, Used
  <2> QED
    BY <2>1, <2>3, <2>4
<1>4. CASE size # 0 /\ p = NULL /\ H.brk + META + size <= HeapLimit + 1
  <2>1. r.ptr = H.brk /\ r.heap = Grow(H, size)
    BY <1>1, <1>4 DEF malloc
  <2>2. /\ Good(r.heap) /\ Keeps(H, r.heap, NULL)
        /\ H.brk \in Used(r.heap) /\ H.brk \notin H.blocks /\ r.heap.size[H.brk] = size
    BY <1>4, <2>1, GrowKeeps
  <2>3. H.brk \in Addr /\ H.brk \notin Used(H)
    <3>1. r.heap \in Heap
      BY <2>2 DEF Good, Shape
    <3> QED
      BY <2>2, <3>1, HeapNumbers DEF Used
  <2> QED
    BY <2>1, <2>2, <2>3
<1>5. CASE size = 0 \/ (p = NULL /\ ~(H.brk + META + size <= HeapLimit + 1))
  <2>1. r.ptr = NULL /\ r.heap = H
    BY <1>1, <1>5 DEF malloc
  <2> QED
    BY <1>2, <2>1
<1> QED
  BY <1>3, <1>4, <1>5

-----------------------------------------------------------------------------
(* The invariant. *)

LEMMA InitHeap == Init => HeapInv
<1> SUFFICES ASSUME Init PROVE HeapInv
  OBVIOUS
<1>1. PICK H : H = heap
  OBVIOUS
<1>2. /\ H.blocks = {} /\ H.tail = NULL /\ H.freehead = NULL /\ H \in Heap
  <2>1. 1 \in 1 .. HeapLimit + 1 /\ NULL \in Link
    BY Constants
  <2> QED
    BY <1>1, <2>1 DEF Init, Heap
<1>3. Shape(H) /\ Frees(H) = {}
  BY <1>2 DEF Shape, Layout, NextIsNeighbour, PrevIsNeighbour, TailIsLast, Frees
<1>4. Listed(H, {})
  <2>1. PICK f : f = [k \in HeapPlaces |-> NULL]
    OBVIOUS
  <2>2. \A k \in 1 .. HeapLimit : k \in HeapPlaces /\ k - 1 \in HeapPlaces
    BY Constants DEF HeapPlaces
  <2>3. Walk(H, f)
    BY <1>2, <2>1, <2>2, Constants DEF Walk, HeapPlaces
  <2>4. Lists(H, {}, f)
    BY <2>1, <2>3 DEF Lists
  <2> QED
    BY <2>3, <2>4, FreeAtIsWalk DEF Listed
<1>5. Good(H)
  BY <1>3, <1>4 DEF Good, CoalescedBut
<1>6. live \in [Addr -> Nat] /\ Intact(H, live)
  BY DEF Init, Intact
<1> QED
  BY <1>1, <1>5, <1>6 DEF HeapInv

(* A caller receives the block malloc returns. *)
LEMMA GiveKeeps ==
    ASSUME NEW H, NEW L \in [Addr -> Nat], Intact(H, L), NEW size \in Nat, NEW r,
           /\ Good(r.heap) /\ Keeps(H, r.heap, NULL)
           /\ r.ptr # NULL => /\ r.ptr \in Addr /\ r.ptr \notin Used(H)
                              /\ r.ptr \in Used(r.heap) /\ r.heap.size[r.ptr] = size,
           NEW asked \in Nat, ProductsFit => asked = size,
           NEW M, M = Give(L, r.ptr, asked)
    PROVE  Good(r.heap) /\ M \in [Addr -> Nat] /\ Intact(r.heap, M)
<1>1. /\ Good(r.heap) /\ Keeps(H, r.heap, NULL)
      /\ r.ptr # NULL => /\ r.ptr \in Addr /\ r.ptr \in Used(r.heap)
                         /\ r.heap.size[r.ptr] = size
  OBVIOUS
<1>2. M \in [Addr -> Nat]
  BY <1>1 DEF Give
<1>3. ASSUME NEW p \in Addr, M[p] # 0
      PROVE  p \in Used(r.heap) /\ (ProductsFit => r.heap.size[p] >= M[p])
  <2>1. CASE p = r.ptr
    <3>1. p # NULL /\ M[p] = asked
      BY <2>1, Constants DEF Give
    <3> QED
      BY <1>1, <2>1, <3>1
  <2>2. CASE p # r.ptr
    <3>1. M[p] = L[p] /\ p # NULL
      BY <1>1, <2>2, Constants DEF Give
    <3>2. p \in Used(H) /\ (ProductsFit => H.size[p] >= L[p])
      BY <1>3, <3>1 DEF Intact
    <3> QED
      BY <1>1, <3>1, <3>2 DEF Keeps
  <2> QED
    BY <2>1, <2>2
<1> QED
  BY <1>1, <1>2, <1>3 DEF Intact

LEMMA ReallocInPlaceKeeps ==
    ASSUME HeapInv, NEW p \in Addr, NEW size \in Sizes, ReallocInPlace(p, size)
    PROVE  HeapInv'
<1>1. /\ Good(heap) /\ live \in [Addr -> Nat] /\ Intact(heap, live) /\ size \in Nat
      /\ live' = [live EXCEPT ![p] = size] /\ live[p] # 0
  BY SizesAreNat DEF HeapInv, ReallocInPlace
<1>2. p \in Used(heap) /\ heap \in Heap /\ p \in heap.blocks
  BY <1>1 DEF Intact, Good, Shape, Used
<1>3. /\ live' \in [Addr -> Nat] /\ live'[p] = size
      /\ \A x \in Addr \ {p} : live'[x] = live[x]
  BY <1>1
<1>4. CASE heap.size[p] >= size /\ UNCHANGED heap
  <2>1. Good(heap')
    BY <1>1, <1>4
  <2>2. Intact(heap', live')
    BY <1>1, <1>2, <1>3, <1>4 DEF Intact
  <2> QED
    BY <1>3, <2>1, <2>2 DEF HeapInv
<1>5. CASE CanExtend(p, size) /\ heap' = MergeNext(heap, p)
  <2>1. PICK n : n = heap.next[p]
    OBVIOUS
  <2>2. n # NULL /\ heap.size[n] + heap.size[p] >= size /\ heap.free[n] = 1
    BY <1>5, <2>1 DEF CanExtend
  <2>3. /\ Good(heap') /\ Keeps(heap, heap', p) /\ p \in Used(heap')
        /\ heap'.size[p] = heap.size[p] + heap.size[n] + META
    BY <1>1, <1>2, <1>5, <2>1, <2>2, MergeNextUsed
  <2>4. heap'.size[p] >= size
    <3>1. n \in heap.blocks
      BY <1>1, <1>2, <2>1, <2>2 DEF Good, Shape, NextIsNeighbour
    <3>2. heap.size[p] \in Nat /\ heap.size[n] \in Nat /\ META \in Nat
      BY <1>2, <3>1, HeapNumbers
    <3> QED
      BY <1>1, <2>2, <2>3, <3>2
  <2>5. ASSUME NEW x \in Addr, live'[x] # 0
        PROVE  x \in Used(heap') /\ (ProductsFit => heap'.size[x] >= live'[x])
    <3>1. CASE x = p
      BY <1>3, <2>3, <2>4, <3>1
    <3>2. CASE x # p
      <4>1. x \in Used(heap) /\ (ProductsFit => heap.size[x] >= live[x]) /\ live'[x] = live[x]
        BY <1>1, <1>3, <2>5, <3>2 DEF Intact
      <4> QED
        BY <2>3, <3>2, <4>1 DEF Keeps
    <3> QED
      BY <3>1, <3>2
  <2>6. Intact(heap', live')
    BY <2>5 DEF Intact
  <2> QED
    BY <1>3, <2>3, <2>6 DEF HeapInv
<1> QED
  BY <1>4, <1>5 DEF ReallocInPlace

LEMMA ReallocMoveKeeps ==
    ASSUME HeapInv, NEW p \in Addr, NEW size \in Sizes, ReallocMove(p, size)
    PROVE  HeapInv'
<1>1. /\ Good(heap) /\ live \in [Addr -> Nat] /\ Intact(heap, live) /\ size \in Nat /\ live[p] # 0
  BY SizesAreNat DEF HeapInv, ReallocMove
<1>2. p \in Used(heap) /\ p # NULL
  BY <1>1, Constants DEF Intact
<1>3. PICK r : r = malloc(heap, size)
  OBVIOUS
<1>4. /\ Good(r.heap) /\ Keeps(heap, r.heap, NULL)
      /\ r.ptr # NULL => /\ r.ptr \in Addr /\ r.ptr \notin Used(heap)
                         /\ r.ptr \in Used(r.heap) /\ r.heap.size[r.ptr] = size
  BY <1>1, <1>3, MallocKeeps, ZenonT(60)
<1>5. CASE r.ptr = NULL
  <2>1. heap' = heap /\ live' = live
    BY <1>3, <1>5 DEF ReallocMove, vars
  <2> QED
    BY <1>1, <2>1 DEF HeapInv
<1>6. CASE r.ptr # NULL
  <2>1. PICK t : t = r.ptr
    OBVIOUS
  <2>2. heap' = free(r.heap, p) /\ live' = [live EXCEPT ![p] = 0, ![t] = size]
    BY <1>3, <1>6, <2>1 DEF ReallocMove
  <2>3. t \in Addr /\ t # p /\ t \in Used(r.heap) /\ r.heap.size[t] = size
    BY <1>2, <1>4, <1>6, <2>1
  <2>4. p \in Used(r.heap)
    BY <1>2, <1>4 DEF Keeps
  <2>5. Good(heap') /\ Keeps(r.heap, heap', p)
    BY <1>4, <2>2, <2>4, FreeKeeps
  <2>6. /\ live' \in [Addr -> Nat] /\ live'[p] = 0 /\ live'[t] = size
        /\ \A x \in Addr \ {p, t} : live'[x] = live[x]
    BY <1>1, <2>2, <2>3
  <2>7. ASSUME NEW x \in Addr, live'[x] # 0
        PROVE  x \in Used(heap') /\ (ProductsFit => heap'.size[x] >= live'[x])
    <3>1. x # p
      BY <2>6, <2>7
    <3>2. CASE x = t
      <4>1. x \in Used(heap') /\ heap'.size[x] = size
        BY <2>3, <2>5, <3>2 DEF Keeps
      <4> QED
        BY <1>1, <2>6, <3>2, <4>1
    <3>3. CASE x # t
      <4>1. live'[x] = live[x] /\ x \in Used(heap) /\ (ProductsFit => heap.size[x] >= live[x]) /\ x # NULL
        BY <1>1, <2>6, <2>7, <3>1, <3>3, Constants DEF Intact
      <4>2. x \in Used(r.heap) /\ r.heap.size[x] = heap.size[x]
        BY <1>4, <4>1 DEF Keeps
      <4>3. x \in Used(heap') /\ heap'.size[x] = heap.size[x]
        BY <2>5, <3>1, <4>2 DEF Keeps
      <4> QED
        BY <4>1, <4>3
    <3> QED
      BY <3>2, <3>3
  <2>8. Intact(heap', live')
    BY <2>7 DEF Intact
  <2> QED
    BY <2>5, <2>6, <2>8 DEF HeapInv
<1> QED
  BY <1>5, <1>6

LEMMA NextHeap ==
    ASSUME HeapInv, [Next]_vars
    PROVE  HeapInv'
<1>1. Good(heap) /\ live \in [Addr -> Nat] /\ Intact(heap, live)
  BY DEF HeapInv
<1>2. ASSUME NEW size \in Sizes, Malloc(size) PROVE HeapInv'
  <2>1. PICK r : r = malloc(heap, size)
    OBVIOUS
  <2>2. heap' = r.heap /\ live' = Give(live, r.ptr, size) /\ size \in Nat
    BY <1>2, <2>1, SizesAreNat DEF Malloc
  <2>3. /\ Good(r.heap) /\ Keeps(heap, r.heap, NULL)
        /\ r.ptr # NULL => /\ r.ptr \in Addr /\ r.ptr \notin Used(heap)
                           /\ r.ptr \in Used(r.heap) /\ r.heap.size[r.ptr] = size
    BY <1>1, <2>1, <2>2, MallocKeeps
  <2>4. Good(heap') /\ live' \in [Addr -> Nat] /\ Intact(heap', live')
    BY <1>1, <2>2, <2>3, GiveKeeps
  <2> QED
    BY <2>4 DEF HeapInv
<1>3. ASSUME NEW num \in Counts, NEW size \in Sizes, Calloc(num, size) PROVE HeapInv'
  <2>1. PICK n : n = num * size
    OBVIOUS
  <2>2. n \in Nat /\ (ProductsFit => n < SIZE_MOD) /\ SIZE_MOD \in Nat \ {0}
    BY <2>1, SizesAreNat, LimitAssumption DEF ProductsFit
  <2>3. n % SIZE_MOD \in Nat /\ (ProductsFit => n = n % SIZE_MOD)
    BY <2>2
  <2>4. PICK r : r = malloc(heap, n % SIZE_MOD)
    OBVIOUS
  <2>5. heap' = r.heap /\ live' = Give(live, r.ptr, n)
    BY <1>3, <2>1, <2>4 DEF Calloc
  <2>6. /\ Good(r.heap) /\ Keeps(heap, r.heap, NULL)
        /\ r.ptr # NULL => /\ r.ptr \in Addr /\ r.ptr \notin Used(heap)
                           /\ r.ptr \in Used(r.heap) /\ r.heap.size[r.ptr] = n % SIZE_MOD
    BY <1>1, <2>3, <2>4, MallocKeeps, SMTT(60)
  <2>7. Good(heap') /\ live' \in [Addr -> Nat] /\ Intact(heap', live')
    BY <1>1, <2>2, <2>3, <2>5, <2>6, GiveKeeps
  <2> QED
    BY <2>7 DEF HeapInv
<1>4. ASSUME NEW p \in Addr, Free(p) PROVE HeapInv'
  <2>1. heap' = free(heap, p) /\ live' = [live EXCEPT ![p] = 0] /\ p \in Used(heap)
    BY <1>1, <1>4 DEF Free, Intact
  <2>2. Good(heap') /\ Keeps(heap, heap', p)
    BY <1>1, <2>1, FreeKeeps
  <2>3. /\ live' \in [Addr -> Nat] /\ live'[p] = 0
        /\ \A x \in Addr \ {p} : live'[x] = live[x]
    BY <1>1, <2>1
  <2>4. Intact(heap', live')
    BY <1>1, <2>2, <2>3 DEF Intact, Keeps
  <2> QED
    BY <2>2, <2>3, <2>4 DEF HeapInv
<1>5. ASSUME NEW p \in Addr, NEW size \in Sizes, ReallocInPlace(p, size) \/ ReallocMove(p, size)
      PROVE  HeapInv'
  BY <1>5, ReallocInPlaceKeeps, ReallocMoveKeeps
<1>6. CASE UNCHANGED vars
  <2>1. heap' = heap /\ live' = live
    BY <1>6 DEF vars
  <2> QED
    BY <1>1, <2>1 DEF HeapInv
<1>7. CASE Wrap
  <2>1. heap' = heap /\ live' = live
    BY <1>7 DEF Wrap
  <2> QED
    BY <1>1, <2>1 DEF HeapInv
<1> QED
  BY <1>2, <1>3, <1>4, <1>5, <1>6, <1>7 DEF Next, Calls

-----------------------------------------------------------------------------
(* What the invariant says of the lists. *)
LEMMA GoodLists ==
    ASSUME Good(heap)
    PROVE  ListsAreSound
<1>1. /\ heap \in Heap /\ Shape(heap)
      /\ FreeBlocks = Frees(heap) /\ Frees(heap) \in SUBSET Addr
  BY FreesAre DEF Good, Shape, FreeBlocks, Frees
<1>2. FreeListExact
  <2>1. PICK f : f = FreeAt(heap)
    OBVIOUS
  <2>2. Lists(heap, Frees(heap), f)
    BY <2>1 DEF Good, Listed
  <2> DEFINE In == {k \in 0 .. HeapLimit : f[k] # NULL}
  <2>3. {f[k] : k \in In} = Frees(heap)
    <3>1. \A x \in Frees(heap) : x # NULL
      BY <1>1, Constants
    <3> QED
      BY <2>2, <3>1 DEF Lists, HeapPlaces
  <2>4. /\ \A j, k \in In : f[j] = f[k] => j = k
        /\ \A k \in In : heap.freeprev[f[k]] = IF k = 0 THEN NULL ELSE f[k - 1]
    BY <2>2 DEF Lists, HeapPlaces
  <2> QED
    BY <1>1, <2>1, <2>3, <2>4 DEF FreeListExact
<1>3. ListIsMemoryOrder
  BY <1>1 DEF Shape, NextIsNeighbour, PrevIsNeighbour, ListIsMemoryOrder
<1>4. Coalesced
  <2>1. \A x \in Frees(heap) : x # NULL
    BY <1>1, Constants
  <2> QED
    BY <1>1, <2>1 DEF Good, CoalescedBut, Coalesced
<1> QED
  BY <1>2, <1>3, <1>4 DEF ListsAreSound

LEMMA HeapInvSafe ==
    ASSUME HeapInv, ProductsFit
    PROVE  MemoryIsSafe
<1>1. NoOverlap
  BY DEF HeapInv, Good, Shape, Layout, NoOverlap, End
<1>2. LiveIsIntact
  BY DEF HeapInv, Intact, Used, LiveIsIntact
<1> QED
  BY <1>1, <1>2 DEF MemoryIsSafe

(* The inductive invariant holds in every reachable state, whatever malloc, *)
(* calloc, realloc and free are asked for, until an argument of sbrk wraps. *)
THEOREM HeapInvariance == Spec => []HeapInv
<1>1. HeapInv /\ [Next]_vars => HeapInv'
  BY NextHeap
<1> QED
  BY InitHeap, <1>1, PTL DEF Spec

(* Type correctness: headers stay addresses of the heap or NULL, and the   *)
(* break never passes the limit.                                           *)
THEOREM HeapTypes == Spec => []TypeOK
<1>1. HeapInv /\ wrapped \in BOOLEAN => TypeOK
  BY DEF HeapInv, Good, Shape, TypeOK
<1>2. Init => wrapped \in BOOLEAN
  BY DEF Init
<1>3. wrapped \in BOOLEAN /\ [Next]_vars => (wrapped \in BOOLEAN)'
  <2>1. Calls /\ UNCHANGED wrapped => wrapped' = wrapped
    OBVIOUS
  <2>2. Wrap => wrapped' = TRUE
    BY DEF Wrap
  <2>3. UNCHANGED vars => wrapped' = wrapped
    BY DEF vars
  <2>4. Next => (Calls /\ UNCHANGED wrapped) \/ Wrap
    BY DEF Next
  <2>5. wrapped \in BOOLEAN /\ wrapped' = wrapped => wrapped' \in BOOLEAN
    OBVIOUS
  <2>6. wrapped' = TRUE => wrapped' \in BOOLEAN
    OBVIOUS
  <2> QED
    BY <2>1, <2>2, <2>3, <2>4, <2>5, <2>6, Zenon
<1>4. Spec => [](wrapped \in BOOLEAN)
  BY <1>2, <1>3, PTL DEF Spec
<1> QED
  BY <1>1, <1>4, HeapInvariance, PTL

(* However calls of malloc, calloc, realloc and free follow one another,   *)
(* of any sizes whose sum with a header sbrk takes as it is (or refuses),  *)
(* the free list has exactly the free blocks, the block list is memory     *)
(* order and no two free blocks are neighbours.                            *)
THEOREM ListsSound == Spec => []ListsAreSound
<1>1. HeapInv => ListsAreSound
  BY GoodLists DEF HeapInv
<1> QED
  BY <1>1, HeapInvariance, PTL

(* No two blocks ever overlap, also where a product given to calloc wraps, *)
(* as long as no argument of sbrk has wrapped.                             *)
THEOREM BlocksApart == Spec => [](~wrapped => NoOverlap)
<1>1. HeapInv => (~wrapped => NoOverlap)
  BY DEF HeapInv, Good, Shape, Layout, NoOverlap, End
<1> QED
  BY <1>1, HeapInvariance, PTL

(* Where the products given to calloc fit a size_t, and as long as no      *)
(* argument of sbrk has wrapped, every caller keeps a block of its own that *)
(* has the units it asked for until it gives it back.                      *)
THEOREM MemorySafe ==
    ASSUME ProductsFit
    PROVE  Spec => []MemoryIsSafe
<1>1. HeapInv => MemoryIsSafe
  BY HeapInvSafe
<1> QED
  BY <1>1, HeapInvariance, PTL

-----------------------------------------------------------------------------
(* The virtual memory unit. *)

Entries == [present : BOOLEAN, base : Frames \union {NoFrame}, rw : BOOLEAN]
Values  == Data \union {0}

Memories == [pte : [Frames -> [Pages -> Entries]], free : SUBSET Frames,
             mem : [Frames -> Values], swap : [Pointers -> Values]]

IsDir(D, f)   == \E q \in Pids : D[q] = f
IsTable(E, f) == \E q \in Pids, d \in Dirs : E[q][d] = f

(* Directories and page tables have a frame each, which nothing else has. *)
RootsApart(D, E, m) ==
    /\ D \in [Pids -> Frames \union {NoFrame}]
    /\ E \in [Pids -> [Dirs -> Frames \union {NoFrame}]]
    /\ \A q \in Pids : D[q] = NoFrame => \A d \in Dirs : E[q][d] = NoFrame
    /\ \A q, r \in Pids : D[q] = D[r] /\ D[q] # NoFrame => q = r
    /\ \A q, r \in Pids, d, c \in Dirs :
          E[q][d] = E[r][c] /\ E[q][d] # NoFrame => q = r /\ d = c
    /\ \A q \in Pids : D[q] # NoFrame => D[q] \notin m.free /\ ~IsTable(E, D[q])
    /\ \A q \in Pids, d \in Dirs : E[q][d] # NoFrame => E[q][d] \notin m.free

(* Only tables have entries, and each page in memory has its own frame. *)
PagesApart(D, E, m) ==
    /\ \A t \in Frames, p \in Pages : m.pte[t][p].present =>
          /\ IsTable(E, t)
          /\ m.pte[t][p].base \in Frames \ m.free
          /\ ~IsDir(D, m.pte[t][p].base) /\ ~IsTable(E, m.pte[t][p].base)
    /\ \A t, u \in Frames, p, r \in Pages :
          m.pte[t][p].present /\ m.pte[u][r].present /\ m.pte[t][p].base = m.pte[u][r].base
              => t = u /\ p = r
    /\ \A t \in Frames, p \in Pages : ~IsTable(E, t) => m.swap[<<t, p>>] = 0

Sound(D, E, m) == m \in Memories /\ RootsApart(D, E, m) /\ PagesApart(D, E, m)

(* A frame that was just handed out. *)
Fresh(D, E, m, f) ==
    /\ f \in Frames \ m.free
    /\ ~IsDir(D, f) /\ ~IsTable(E, f)
    /\ \A t \in Frames, p \in Pages : m.pte[t][p].present => m.pte[t][p].base # f

DatumOf(m, t, p) ==
    IF m.pte[t][p].present THEN m.mem[m.pte[t][p].base] ELSE m.swap[<<t, p>>]

(* L is what the pages hold. *)
Holds(E, m, L) ==
    /\ L \in [Pids -> [Pages -> Values]]
    /\ \A q \in Pids, p \in Pages :
          L[q][p] = IF E[q][VPN0[p]] = NoFrame THEN 0 ELSE DatumOf(m, E[q][VPN0[p]], p)

TlbIsOwn(D, E, t, c) ==
    \A e \in t : /\ c \in Pids /\ D[c] # NoFrame
                 /\ e.page \in Pages /\ e.ptr = <<E[c][VPN0[e.page]], e.page>>
                 /\ E[c][VPN0[e.page]] # NoFrame

PageInv ==
    /\ Sound(page_directories, pde, Memory)
    /\ Holds(pde, Memory, lastWritten)
    /\ TlbIsOwn(page_directories, pde, tlb, curr_pid)

-----------------------------------------------------------------------------
LEMMA LeastIsIn ==
    ASSUME NEW S \in SUBSET Nat, S # {}
    PROVE  Min(S) \in S
<1>1. PICK m \in S : \A n \in S : ~(<<n, m>> \in OpToRel(<, Nat))
  BY NatLessThanWellFounded, WFMin, Zenon
<1>2. \A n \in S : ~(n < m)
  BY <1>1 DEF OpToRel
<1>3. \A n \in S : m <= n
  BY <1>2
<1> QED
  BY <1>3 DEF Min

LEMMA FrameFacts ==
    /\ Frames \subseteq Nat /\ NoFrame \notin Frames
    /\ \A p \in Pages : VPN0[p] \in Dirs
    /\ Absent \in Entries /\ Absent.present = FALSE
BY MmuAssumption DEF Frames, NoFrame, Dirs, Absent, Entries

LEMMA MemoryFields ==
    ASSUME NEW m \in Memories
    PROVE  /\ m.pte \in [Frames -> [Pages -> Entries]] /\ m.free \in SUBSET Frames
           /\ m.mem \in [Frames -> Values] /\ m.swap \in [Pointers -> Values]
           /\ \A t \in Frames, p \in Pages :
                /\ m.pte[t][p] \in Entries /\ m.pte[t][p].present \in BOOLEAN
                /\ m.pte[t][p].base \in Frames \union {NoFrame}
                /\ <<t, p>> \in Pointers /\ m.swap[<<t, p>>] \in Values
<1>1. /\ m.pte \in [Frames -> [Pages -> Entries]] /\ m.free \in SUBSET Frames
      /\ m.mem \in [Frames -> Values] /\ m.swap \in [Pointers -> Values]
  BY DEF Memories
<1>2. ASSUME NEW t \in Frames, NEW p \in Pages
      PROVE  /\ m.pte[t][p] \in Entries /\ m.pte[t][p].present \in BOOLEAN
             /\ m.pte[t][p].base \in Frames \union {NoFrame}
             /\ <<t, p>> \in Pointers /\ m.swap[<<t, p>>] \in Values
  <2>1. m.pte[t][p] \in Entries
    BY <1>1
  <2>2. <<t, p>> \in Pointers
    BY DEF Pointers
  <2> QED
    BY <1>1, <2>1, <2>2 DEF Entries
<1> QED
  BY <1>1, <1>2

(* What the kernel does for a frame: it takes a free one, or swaps a page out. *)
TakesFree(m, f, g) == f \in m.free /\ g = [m EXCEPT !.free = @ \ {f}]

SwapsOut(m, t, p, f, g) ==
    /\ m.free = {}
    /\ m.pte[t][p].present /\ f = m.pte[t][p].base
    /\ g = [m EXCEPT !.swap[<<t, p>>] = m.mem[f], !.mem[f] = 0, !.pte[t][p] = Absent]

LEMMA AskKernelIs ==
    ASSUME NEW m \in Memories, NEW a \in AskKernel(m), NEW f, NEW g, f = a.f, g = a.m
    PROVE  \/ TakesFree(m, f, g)
           \/ \E t \in Frames, p \in Pages : SwapsOut(m, t, p, f, g)
<1>1. CASE m.free # {}
  <2>1. m.free \in SUBSET Nat
    BY MemoryFields, FrameFacts
  <2>2. Min(m.free) \in m.free
    BY <1>1, <2>1, LeastIsIn
  <2>3. a.f = Min(m.free) /\ a.m = [m EXCEPT !.free = @ \ {Min(m.free)}]
    BY <1>1 DEF AskKernel
  <2> QED
    BY <2>2, <2>3 DEF TakesFree
<1>2. CASE m.free = {}
  <2>1. PICK x \in Resident(m) :
          a = LET h == m.pte[x[1]][x[2]].base IN
              [f |-> h,
               m |-> [m EXCEPT !.swap[x] = m.mem[h], !.mem[h] = 0, !.pte[x[1]][x[2]] = Absent]]
    BY <1>2 DEF AskKernel
  <2>2. PICK t \in Frames, p \in Pages : x = <<t, p>> /\ m.pte[t][p].present
    BY DEF Resident, Pointers
  <2>3. x[1] = t /\ x[2] = p
    BY <2>2
  <2>4. PICK h : h = m.pte[t][p].base
    OBVIOUS
  <2>5. a = [f |-> h,
             m |-> [m EXCEPT !.swap[<<t, p>>] = m.mem[h], !.mem[h] = 0, !.pte[t][p] = Absent]]
    BY <2>1, <2>2, <2>3, <2>4
  <2>6. /\ a.f = h
        /\ a.m = [m EXCEPT !.swap[<<t, p>>] = m.mem[h], !.mem[h] = 0, !.pte[t][p] = Absent]
    BY <2>5
  <2>7. f = h /\ g = [m EXCEPT !.swap[<<t, p>>] = m.mem[f], !.mem[f] = 0, !.pte[t][p] = Absent]
    BY <2>6
  <2> QED
    BY <1>2, <2>2, <2>4, <2>7 DEF SwapsOut
<1> QED
  BY <1>1, <1>2

LEMMA AskKernelKeeps ==
    ASSUME NEW D, NEW E, NEW m, Sound(D, E, m), NEW a \in AskKernel(m), NEW g, g = a.m
    PROVE  /\ Sound(D, E, g) /\ Fresh(D, E, g, a.f)
           /\ \A t \in Frames, p \in Pages :
                /\ DatumOf(g, t, p) = DatumOf(m, t, p)
                /\ g.pte[t][p].present => m.pte[t][p].present
<1>1. m \in Memories /\ RootsApart(D, E, m) /\ PagesApart(D, E, m)
  BY DEF Sound
<1>2. PICK f : f = a.f
  OBVIOUS
<1>3. CASE TakesFree(m, f, g)
  <2>0. f \in m.free /\ g = [m EXCEPT !.free = @ \ {f}]
    BY <1>3 DEF TakesFree
  <2>1. /\ g.pte = m.pte /\ g.mem = m.mem /\ g.swap = m.swap /\ g.free = m.free \ {f}
        /\ g \in Memories
    BY <1>1, <2>0 DEF Memories
  <2>2. RootsApart(D, E, g)
    BY <1>1, <2>1 DEF RootsApart
  <2>3. PagesApart(D, E, g)
    BY <1>1, <2>1 DEF PagesApart
  <2>4. f \in Frames /\ f # NoFrame
    BY <1>1, <2>0, MemoryFields, FrameFacts
  <2>5. Fresh(D, E, g, f)
    <3>1. ~IsDir(D, f) /\ ~IsTable(E, f)
      BY <1>1, <2>0, <2>4 DEF RootsApart, IsDir, IsTable
    <3>2. \A t \in Frames, p \in Pages : g.pte[t][p].present => g.pte[t][p].base # f
      BY <1>1, <2>0, <2>1 DEF PagesApart
    <3> QED
      BY <2>1, <2>4, <3>1, <3>2 DEF Fresh
  <2>6. \A t \in Frames, p \in Pages : DatumOf(g, t, p) = DatumOf(m, t, p)
    BY <2>1 DEF DatumOf
  <2> QED
    BY <1>2, <2>1, <2>2, <2>3, <2>5, <2>6 DEF Sound
<1>4. ASSUME NEW t \in Frames, NEW p \in Pages, SwapsOut(m, t, p, f, g)
      PROVE  /\ Sound(D, E, g) /\ Fresh(D, E, g, a.f)
             /\ \A u \in Frames, r \in Pages :
                  /\ DatumOf(g, u, r) = DatumOf(m, u, r)
                  /\ g.pte[u][r].present => m.pte[u][r].present
  <2>0. /\ m.free = {} /\ m.pte[t][p].present /\ f = m.pte[t][p].base
        /\ g = [m EXCEPT !.swap[<<t, p>>] = m.mem[f], !.mem[f] = 0, !.pte[t][p] = Absent]
    BY <1>4 DEF SwapsOut
  <2>1. /\ g.free = m.free /\ g.pte = [m.pte EXCEPT ![t][p] = Absent]
        /\ g.mem = [m.mem EXCEPT ![f] = 0] /\ g.swap = [m.swap EXCEPT ![<<t, p>>] = m.mem[f]]
    BY <1>1, <2>0 DEF Memories
  <2>2. /\ IsTable(E, t) /\ f \in Frames \ m.free /\ ~IsDir(D, f) /\ ~IsTable(E, f)
    BY <1>1, <2>0 DEF PagesApart
  <2>3. /\ m.pte \in [Frames -> [Pages -> Entries]] /\ m.mem \in [Frames -> Values]
        /\ m.swap \in [Pointers -> Values] /\ <<t, p>> \in Pointers
    BY <1>1, MemoryFields
  <2>4. /\ g.pte \in [Frames -> [Pages -> Entries]] /\ ~g.pte[t][p].present
        /\ \A u \in Frames, r \in Pages : <<u, r>> # <<t, p>> => g.pte[u][r] = m.pte[u][r]
    BY <2>1, <2>3, FrameFacts
  <2>5. /\ g.mem \in [Frames -> Values] /\ \A h \in Frames \ {f} : g.mem[h] = m.mem[h]
    BY <2>1, <2>2, <2>3 DEF Values
  <2>6. /\ g.swap \in [Pointers -> Values] /\ g.swap[<<t, p>>] = m.mem[f]
        /\ \A x \in Pointers \ {<<t, p>>} : g.swap[x] = m.swap[x]
    BY <2>1, <2>2, <2>3
  <2>7. g \in Memories
    BY <1>1, <2>0, <2>1, <2>4, <2>5, <2>6 DEF Memories
  <2>8. RootsApart(D, E, g)
    BY <1>1, <2>1 DEF RootsApart
  <2>9. \A u \in Frames, r \in Pages : g.pte[u][r].present =>
            <<u, r>> # <<t, p>> /\ g.pte[u][r] = m.pte[u][r] /\ m.pte[u][r].present
    BY <2>4
  <2>10. PagesApart(D, E, g)
    <3>1. ASSUME NEW u \in Frames, NEW r \in Pages, g.pte[u][r].present
          PROVE  /\ IsTable(E, u) /\ g.pte[u][r].base \in Frames \ g.free
                 /\ ~IsDir(D, g.pte[u][r].base) /\ ~IsTable(E, g.pte[u][r].base)
      <4>1. g.pte[u][r] = m.pte[u][r] /\ m.pte[u][r].present
        BY <2>9, <3>1
      <4> QED
        BY <1>1, <2>1, <4>1 DEF PagesApart
    <3>2. ASSUME NEW u \in Frames, NEW v \in Frames, NEW r \in Pages, NEW s \in Pages,
                 g.pte[u][r].present, g.pte[v][s].present, g.pte[u][r].base = g.pte[v][s].base
          PROVE  u = v /\ r = s
      <4>1. /\ g.pte[u][r] = m.pte[u][r] /\ m.pte[u][r].present
            /\ g.pte[v][s] = m.pte[v][s] /\ m.pte[v][s].present
        BY <2>9, <3>2
      <4> QED
        BY <1>1, <3>2, <4>1 DEF PagesApart
    <3>3. ASSUME NEW u \in Frames, NEW r \in Pages, ~IsTable(E, u)
          PROVE  g.swap[<<u, r>>] = 0
      <4>1. <<u, r>> \in Pointers \ {<<t, p>>}
        BY <2>2, <3>3 DEF Pointers
      <4> QED
        BY <1>1, <2>6, <3>3, <4>1 DEF PagesApart
    <3> QED
      BY <3>1, <3>2, <3>3 DEF PagesApart
  <2>11. \A u \in Frames, r \in Pages : g.pte[u][r].present => g.pte[u][r].base # f
    <3> SUFFICES ASSUME NEW u \in Frames, NEW r \in Pages, g.pte[u][r].present, g.pte[u][r].base = f
                 PROVE  FALSE
      OBVIOUS
    <3>1. <<u, r>> # <<t, p>> /\ g.pte[u][r] = m.pte[u][r] /\ m.pte[u][r].present
      BY <2>9
    <3>2. u = t /\ r = p
      <4>1. \A u1, u2 \in Frames, r1, r2 \in Pages :
              m.pte[u1][r1].present /\ m.pte[u2][r2].present /\ m.pte[u1][r1].base = m.pte[u2][r2].base
                  => u1 = u2 /\ r1 = r2
        BY <1>1 DEF PagesApart
      <4>2. m.pte[u][r].present /\ m.pte[t][p].present /\ m.pte[u][r].base = m.pte[t][p].base
        BY <2>0, <3>1
      <4> QED
        BY <4>1, <4>2
    <3> QED
      BY <3>1, <3>2
  <2>12. Fresh(D, E, g, f)
    BY <2>1, <2>2, <2>11 DEF Fresh
  <2>13. ASSUME NEW u \in Frames, NEW r \in Pages
         PROVE  DatumOf(g, u, r) = DatumOf(m, u, r)
    <3>1. CASE u = t /\ r = p
      BY <2>0, <2>4, <2>6, <3>1 DEF DatumOf
    <3>2. CASE ~(u = t /\ r = p)
      <4>1. <<u, r>> \in Pointers \ {<<t, p>>} /\ g.pte[u][r] = m.pte[u][r]
        BY <2>4, <3>2 DEF Pointers
      <4>2. g.swap[<<u, r>>] = m.swap[<<u, r>>]
        BY <2>6, <4>1
      <4>3. m.pte[u][r].present => m.pte[u][r].base \in Frames \ {f}
        BY <1>1, <2>11, <4>1 DEF PagesApart
      <4> QED
        BY <2>5, <4>1, <4>2, <4>3 DEF DatumOf
    <3> QED
      BY <3>1, <3>2
  <2> QED
    BY <1>2, <2>7, <2>8, <2>9, <2>10, <2>12, <2>13 DEF Sound
<1> QED
  BY <1>1, <1>2, <1>3, <1>4, AskKernelIs

(* A page fault: the page is in memory afterwards, as it was on disk. *)
LEMMA FaultInKeeps ==
    ASSUME NEW D, NEW E, NEW m, Sound(D, E, m), NEW t \in Frames, NEW p \in Pages,
           IsTable(E, t), ~m.pte[t][p].present, NEW rw \in BOOLEAN,
           NEW n \in FaultIn(m, <<t, p>>, rw)
    PROVE  /\ Sound(D, E, n) /\ n.pte[t][p].present /\ n.pte[t][p].rw = rw
           /\ \A u \in Frames, r \in Pages :
                /\ DatumOf(n, u, r) = DatumOf(m, u, r)
                /\ n.pte[u][r].present => m.pte[u][r].present \/ <<u, r>> = <<t, p>>
<1>1. PICK a \in AskKernel(m) :
        n = [a.m EXCEPT !.pte[t][p] = [present |-> TRUE, base |-> a.f, rw |-> rw],
                        !.mem[a.f] = a.m.swap[<<t, p>>]]
  BY DEF FaultIn
<1>2. PICK g, f : g = a.m /\ f = a.f
  OBVIOUS
<1>3. PICK e : e = [present |-> TRUE, base |-> f, rw |-> rw]
  OBVIOUS
<1>4. n = [g EXCEPT !.pte[t][p] = e, !.mem[f] = g.swap[<<t, p>>]]
  BY <1>1, <1>2, <1>3
<1>5. /\ Sound(D, E, g) /\ Fresh(D, E, g, f)
      /\ \A u \in Frames, r \in Pages :
           /\ DatumOf(g, u, r) = DatumOf(m, u, r)
           /\ g.pte[u][r].present => m.pte[u][r].present
  BY <1>2, AskKernelKeeps
<1>6. g \in Memories /\ RootsApart(D, E, g) /\ PagesApart(D, E, g)
  BY <1>5 DEF Sound
<1>7. /\ f \in Frames \ g.free /\ ~IsDir(D, f) /\ ~IsTable(E, f)
      /\ \A u \in Frames, r \in Pages : g.pte[u][r].present => g.pte[u][r].base # f
  BY <1>5 DEF Fresh
<1>8. e \in Entries /\ e.present = TRUE /\ e.base = f /\ e.rw = rw
  BY <1>3, <1>7 DEF Entries
<1>9. /\ n.free = g.free /\ n.swap = g.swap
      /\ n.pte = [g.pte EXCEPT ![t][p] = e] /\ n.mem = [g.mem EXCEPT ![f] = g.swap[<<t, p>>]]
  BY <1>4, <1>6 DEF Memories
<1>10. /\ g.pte \in [Frames -> [Pages -> Entries]] /\ g.mem \in [Frames -> Values]
       /\ g.swap[<<t, p>>] \in Values
  BY <1>6, MemoryFields
<1>11. /\ n.pte \in [Frames -> [Pages -> Entries]] /\ n.pte[t][p] = e
       /\ \A u \in Frames, r \in Pages : <<u, r>> # <<t, p>> => n.pte[u][r] = g.pte[u][r]
  BY <1>8, <1>9, <1>10
<1>12. /\ n.mem \in [Frames -> Values] /\ n.mem[f] = g.swap[<<t, p>>]
       /\ \A h \in Frames \ {f} : n.mem[h] = g.mem[h]
  BY <1>7, <1>9, <1>10
<1>13. n \in Memories
  BY <1>4, <1>6, <1>9, <1>11, <1>12 DEF Memories
<1>14. RootsApart(D, E, n)
  BY <1>6, <1>9 DEF RootsApart
<1>15. ~g.pte[t][p].present
  BY <1>5
<1>16. PagesApart(D, E, n)
  <2>1. ASSUME NEW u \in Frames, NEW r \in Pages, n.pte[u][r].present
        PROVE  /\ IsTable(E, u) /\ n.pte[u][r].base \in Frames \ n.free
               /\ ~IsDir(D, n.pte[u][r].base) /\ ~IsTable(E, n.pte[u][r].base)
    <3>1. CASE u = t /\ r = p
      BY <1>7, <1>8, <1>9, <1>11, <3>1
    <3>2. CASE ~(u = t /\ r = p)
      <4>1. n.pte[u][r] = g.pte[u][r]
        BY <1>11, <3>2
      <4> QED
        BY <1>6, <1>9, <2>1, <4>1 DEF PagesApart
    <3> QED
      BY <3>1, <3>2
  <2>2. ASSUME NEW u \in Frames, NEW v \in Frames, NEW r \in Pages, NEW s \in Pages,
               n.pte[u][r].present, n.pte[v][s].present, n.pte[u][r].base = n.pte[v][s].base
        PROVE  u = v /\ r = s
    <3>1. CASE (u = t /\ r = p) /\ (v = t /\ s = p)
      BY <3>1
    <3>2. CASE (u = t /\ r = p) /\ ~(v = t /\ s = p)
      <4>1. n.pte[v][s] = g.pte[v][s] /\ n.pte[u][r].base = f
        BY <1>8, <1>11, <3>2
      <4> QED
        BY <1>7, <2>2, <4>1
    <3>3. CASE ~(u = t /\ r = p) /\ (v = t /\ s = p)
      <4>1. n.pte[u][r] = g.pte[u][r] /\ n.pte[v][s].base = f
        BY <1>8, <1>11, <3>3
      <4> QED
        BY <1>7, <2>2, <4>1
    <3>4. CASE ~(u = t /\ r = p) /\ ~(v = t /\ s = p)
      <4>1. n.pte[u][r] = g.pte[u][r] /\ n.pte[v][s] = g.pte[v][s]
        BY <1>11, <3>4
      <4> QED
        BY <1>6, <2>2, <4>1 DEF PagesApart
    <3> QED
      BY <3>1, <3>2, <3>3, <3>4
  <2>3. \A u \in Frames, r \in Pages : ~IsTable(E, u) => n.swap[<<u, r>>] = 0
    BY <1>6, <1>9 DEF PagesApart
  <2> QED
    BY <2>1, <2>2, <2>3 DEF PagesApart
<1>17. ASSUME NEW u \in Frames, NEW r \in Pages
       PROVE  /\ DatumOf(n, u, r) = DatumOf(m, u, r)
              /\ n.pte[u][r].present => m.pte[u][r].present \/ <<u, r>> = <<t, p>>
  <2>1. CASE u = t /\ r = p
    <3>1. DatumOf(n, t, p) = g.swap[<<t, p>>]
      BY <1>8, <1>11, <1>12 DEF DatumOf
    <3>2. DatumOf(g, t, p) = g.swap[<<t, p>>]
      BY <1>15 DEF DatumOf
    <3>3. DatumOf(g, t, p) = DatumOf(m, t, p)
      BY <1>5
    <3> QED
      BY <2>1, <3>1, <3>2, <3>3
  <2>2. CASE ~(u = t /\ r = p)
    <3>1. n.pte[u][r] = g.pte[u][r]
      BY <1>11, <2>2
    <3>2. g.pte[u][r].present => g.pte[u][r].base \in Frames \ {f}
      BY <1>6, <1>7 DEF PagesApart
    <3>3. DatumOf(n, u, r) = DatumOf(g, u, r)
      BY <1>9, <1>12, <3>1, <3>2 DEF DatumOf
    <3> QED
      BY <1>5, <3>1, <3>3
  <2> QED
    BY <2>1, <2>2
<1> QED
  BY <1>8, <1>11, <1>13, <1>14, <1>16, <1>17 DEF Sound

SetDir(D, q, f)      == [D EXCEPT ![q] = f]
SetTable(E, q, d, f) == [E EXCEPT ![q][d] = f]

(* A frame that was handed out becomes the directory of a process. *)
LEMMA AddDir ==
    ASSUME NEW D, NEW E, NEW m, Sound(D, E, m), NEW f, Fresh(D, E, m, f),
           NEW q \in Pids, D[q] = NoFrame, NEW C, C = SetDir(D, q, f)
    PROVE  Sound(C, E, m) /\ C[q] = f /\ f # NoFrame
<1>1. m \in Memories /\ RootsApart(D, E, m) /\ PagesApart(D, E, m)
  BY DEF Sound
<1>2. /\ f \in Frames \ m.free /\ f # NoFrame /\ ~IsDir(D, f) /\ ~IsTable(E, f)
      /\ \A t \in Frames, p \in Pages : m.pte[t][p].present => m.pte[t][p].base # f
  BY FrameFacts DEF Fresh
<1>3. D \in [Pids -> Frames \union {NoFrame}]
  BY <1>1 DEF RootsApart
<1>4. /\ C \in [Pids -> Frames \union {NoFrame}] /\ C[q] = f
      /\ \A r \in Pids \ {q} : C[r] = D[r]
  BY <1>2, <1>3 DEF SetDir
<1>5. \A r \in Pids : D[r] # f
  BY <1>2 DEF IsDir
<1>6. RootsApart(C, E, m)
  <2>1. \A r, s \in Pids : C[r] = C[s] /\ C[r] # NoFrame => r = s
    BY <1>1, <1>4, <1>5 DEF RootsApart
  <2>2. \A r \in Pids : C[r] # NoFrame => C[r] \notin m.free /\ ~IsTable(E, C[r])
    BY <1>1, <1>2, <1>4, SMTT(60) DEF RootsApart
  <2>3. \A r \in Pids : C[r] = NoFrame => D[r] = NoFrame
    BY <1>2, <1>4
  <2>4. \A r \in Pids : C[r] = NoFrame => \A d \in Dirs : E[r][d] = NoFrame
    BY <1>1, <2>3 DEF RootsApart
  <2>5. E \in [Pids -> [Dirs -> Frames \union {NoFrame}]]
    BY <1>1 DEF RootsApart
  <2> QED
    BY <1>1, <1>4, <2>1, <2>2, <2>4, <2>5 DEF RootsApart
<1>7. PagesApart(C, E, m)
  <2>1. \A h : IsDir(C, h) => IsDir(D, h) \/ h = f
    BY <1>4 DEF IsDir
  <2>2. ASSUME NEW t \in Frames, NEW p \in Pages, m.pte[t][p].present
        PROVE  ~IsDir(C, m.pte[t][p].base)
    <3>1. ~IsDir(D, m.pte[t][p].base) /\ m.pte[t][p].base # f
      BY <1>1, <1>2, <2>2 DEF PagesApart
    <3> QED
      BY <2>1, <3>1
  <2> QED
    BY <1>1, <2>2 DEF PagesApart
<1> QED
  BY <1>1, <1>2, <1>4, <1>6, <1>7 DEF Sound

(* A frame that was handed out becomes a page table, of pages that hold 0. *)
LEMMA AddTable ==
    ASSUME NEW D, NEW E, NEW m, Sound(D, E, m), NEW f, Fresh(D, E, m, f),
           NEW q \in Pids, D[q] # NoFrame, NEW d \in Dirs, E[q][d] = NoFrame,
           NEW F, F = SetTable(E, q, d, f)
    PROVE  /\ Sound(D, F, m) /\ f \in Frames /\ F[q][d] = f /\ IsTable(F, f)
           /\ \A p \in Pages : ~m.pte[f][p].present
           /\ \A L : Holds(E, m, L) => Holds(F, m, L)
           /\ \A r \in Pids, c \in Dirs : E[r][c] # NoFrame => F[r][c] = E[r][c]
<1>1. m \in Memories /\ RootsApart(D, E, m) /\ PagesApart(D, E, m)
  BY DEF Sound
<1>2. /\ f \in Frames \ m.free /\ f # NoFrame /\ ~IsDir(D, f) /\ ~IsTable(E, f)
      /\ \A t \in Frames, p \in Pages : m.pte[t][p].present => m.pte[t][p].base # f
  BY FrameFacts DEF Fresh
<1>3. E \in [Pids -> [Dirs -> Frames \union {NoFrame}]]
  BY <1>1 DEF RootsApart
<1>4. F \in [Pids -> [Dirs -> Frames \union {NoFrame}]] /\ F[q][d] = f
  BY <1>2, <1>3 DEF SetTable
<1>5. \A r \in Pids, c \in Dirs : ~(r = q /\ c = d) => F[r][c] = E[r][c]
  BY <1>3 DEF SetTable
<1>6. \A r \in Pids, c \in Dirs : E[r][c] # f
  BY <1>2 DEF IsTable
<1>7. \A h \in Frames : IsTable(F, h) <=> IsTable(E, h) \/ h = f
  <2>1. ASSUME NEW h, IsTable(F, h) PROVE IsTable(E, h) \/ h = f
    <3>1. PICK r \in Pids, c \in Dirs : F[r][c] = h
      BY <2>1 DEF IsTable
    <3>2. CASE r = q /\ c = d
      BY <1>4, <3>1, <3>2
    <3>3. CASE ~(r = q /\ c = d)
      BY <1>5, <3>1, <3>3 DEF IsTable
    <3> QED
      BY <3>2, <3>3
  <2>2. ASSUME NEW h \in Frames, IsTable(E, h) PROVE IsTable(F, h)
    <3>1. PICK r \in Pids, c \in Dirs : E[r][c] = h
      BY <2>2 DEF IsTable
    <3>2. h # NoFrame
      BY FrameFacts
    <3>3. F[r][c] = h
      BY <1>5, <3>1, <3>2
    <3> QED
      BY <3>3 DEF IsTable
  <2>3. IsTable(F, f)
    BY <1>4 DEF IsTable
  <2> QED
    BY <2>1, <2>2, <2>3
<1>8. \A p \in Pages : ~m.pte[f][p].present
  BY <1>1, <1>2 DEF PagesApart
<1>9. RootsApart(D, F, m)
  <2>1. D \in [Pids -> Frames \union {NoFrame}]
    BY <1>1 DEF RootsApart
  <2>2. ASSUME NEW r \in Pids, D[r] = NoFrame, NEW c \in Dirs PROVE F[r][c] = NoFrame
    <3>1. r # q /\ E[r][c] = NoFrame
      BY <1>1, <2>2 DEF RootsApart
    <3> QED
      BY <1>5, <3>1
  <2>3. ASSUME NEW r \in Pids, NEW s \in Pids, NEW b \in Dirs, NEW c \in Dirs,
               F[r][b] = F[s][c], F[r][b] # NoFrame
        PROVE  r = s /\ b = c
    <3>1. CASE r = q /\ b = d
      BY <1>4, <1>5, <1>6, <2>3, <3>1
    <3>2. CASE s = q /\ c = d
      BY <1>4, <1>5, <1>6, <2>3, <3>2
    <3>3. CASE ~(r = q /\ b = d) /\ ~(s = q /\ c = d)
      <4>1. F[r][b] = E[r][b] /\ F[s][c] = E[s][c]
        BY <1>5, <3>3
      <4>2. E[r][b] = E[s][c] /\ E[r][b] # NoFrame => r = s /\ b = c
        BY <1>1 DEF RootsApart
      <4> QED
        BY <2>3, <4>1, <4>2
    <3> QED
      BY <3>1, <3>2, <3>3
  <2>4. ASSUME NEW r \in Pids, D[r] # NoFrame
        PROVE  D[r] \notin m.free /\ ~IsTable(F, D[r])
    <3>1. D[r] \notin m.free /\ ~IsTable(E, D[r])
      BY <1>1, <2>4 DEF RootsApart
    <3>2. D[r] \in Frames /\ D[r] # f
      BY <1>2, <2>1, <2>4 DEF IsDir
    <3> QED
      BY <1>7, <3>1, <3>2
  <2>5. ASSUME NEW r \in Pids, NEW c \in Dirs, F[r][c] # NoFrame
        PROVE  F[r][c] \notin m.free
    <3>1. CASE r = q /\ c = d
      BY <1>2, <1>4, <3>1
    <3>2. CASE ~(r = q /\ c = d)
      <4>1. F[r][c] = E[r][c]
        BY <1>5, <3>2
      <4> QED
        BY <1>1, <2>5, <4>1 DEF RootsApart
    <3> QED
      BY <3>1, <3>2
  <2>6. \A r \in Pids, s \in Pids : D[r] = D[s] /\ D[r] # NoFrame => r = s
    BY <1>1 DEF RootsApart
  <2>7. \A r \in Pids : D[r] = NoFrame => \A c \in Dirs : F[r][c] = NoFrame
    BY <2>2
  <2>8. \A r, s \in Pids, b, c \in Dirs :
          F[r][b] = F[s][c] /\ F[r][b] # NoFrame => r = s /\ b = c
    BY <2>3
  <2>9. /\ \A r \in Pids : D[r] # NoFrame => D[r] \notin m.free /\ ~IsTable(F, D[r])
        /\ \A r \in Pids, c \in Dirs : F[r][c] # NoFrame => F[r][c] \notin m.free
    BY <2>4, <2>5
  <2> QED
    BY <1>4, <2>1, <2>6, <2>7, <2>8, <2>9 DEF RootsApart
<1>10. PagesApart(D, F, m)
  <2>1. ASSUME NEW t \in Frames, NEW p \in Pages, m.pte[t][p].present
        PROVE  /\ IsTable(F, t)
               /\ m.pte[t][p].base \in Frames \ m.free
               /\ ~IsDir(D, m.pte[t][p].base) /\ ~IsTable(F, m.pte[t][p].base)
    <3>1. /\ IsTable(E, t) /\ m.pte[t][p].base \in Frames \ m.free
          /\ ~IsDir(D, m.pte[t][p].base) /\ ~IsTable(E, m.pte[t][p].base)
      BY <1>1, <2>1 DEF PagesApart
    <3>2. m.pte[t][p].base # f
      BY <1>2, <2>1
    <3> QED
      BY <1>7, <3>1, <3>2
  <2>2. \A t, u \in Frames, p, r \in Pages :
          m.pte[t][p].present /\ m.pte[u][r].present /\ m.pte[t][p].base = m.pte[u][r].base
              => t = u /\ p = r
    BY <1>1 DEF PagesApart
  <2>3. ASSUME NEW t \in Frames, NEW p \in Pages, ~IsTable(F, t) PROVE m.swap[<<t, p>>] = 0
    BY <1>1, <1>7, <2>3 DEF PagesApart
  <2> QED
    BY <2>1, <2>2, <2>3 DEF PagesApart
<1>11. ASSUME NEW L, Holds(E, m, L) PROVE Holds(F, m, L)
  <2>1. L \in [Pids -> [Pages -> Values]]
    BY <1>11 DEF Holds
  <2>2. ASSUME NEW r \in Pids, NEW p \in Pages
        PROVE  L[r][p] = IF F[r][VPN0[p]] = NoFrame THEN 0 ELSE DatumOf(m, F[r][VPN0[p]], p)
    <3>0. VPN0[p] \in Dirs
      BY FrameFacts
    <3>1. L[r][p] = IF E[r][VPN0[p]] = NoFrame THEN 0 ELSE DatumOf(m, E[r][VPN0[p]], p)
      BY <1>11 DEF Holds
    <3>2. CASE r = q /\ VPN0[p] = d
      <4>1. L[r][p] = 0
        BY <3>1, <3>2
      <4>2. DatumOf(m, f, p) = 0
        BY <1>1, <1>2, <1>8 DEF PagesApart, DatumOf
      <4> QED
        BY <1>2, <1>4, <3>2, <4>1, <4>2
    <3>3. CASE ~(r = q /\ VPN0[p] = d)
      <4>1. F[r][VPN0[p]] = E[r][VPN0[p]]
        BY <1>5, <3>0, <3>3
      <4> QED
        BY <3>1, <4>1
    <3> QED
      BY <3>2, <3>3
  <2> QED
    BY <2>1, <2>2 DEF Holds
<1>12. \A r \in Pids, c \in Dirs : E[r][c] # NoFrame => F[r][c] = E[r][c]
  BY <1>5
<1> QED
  BY <1>1, <1>2, <1>4, <1>7, <1>8, <1>9, <1>10, <1>11, <1>12 DEF Sound

(* Pages that hold the same data as before still hold L. *)
LEMMA HoldsAlong ==
    ASSUME NEW D, NEW E, NEW m, NEW n, NEW L, Sound(D, E, m), Holds(E, m, L),
           \A t \in Frames, p \in Pages : DatumOf(n, t, p) = DatumOf(m, t, p)
    PROVE  Holds(E, n, L)
<1>1. E \in [Pids -> [Dirs -> Frames \union {NoFrame}]]
  BY DEF Sound, RootsApart
<1>2. ASSUME NEW q \in Pids, NEW p \in Pages
      PROVE  L[q][p] = IF E[q][VPN0[p]] = NoFrame THEN 0 ELSE DatumOf(n, E[q][VPN0[p]], p)
  <2>1. L[q][p] = IF E[q][VPN0[p]] = NoFrame THEN 0 ELSE DatumOf(m, E[q][VPN0[p]], p)
    BY DEF Holds
  <2>2. E[q][VPN0[p]] # NoFrame => E[q][VPN0[p]] \in Frames
    BY <1>1, FrameFacts
  <2> QED
    BY <2>1, <2>2
<1>3. L \in [Pids -> [Pages -> Values]]
  BY DEF Holds
<1> QED
  BY <1>2, <1>3 DEF Holds

LEMMA SameUses ==
    ASSUME NEW D, NEW E, NEW m, NEW n, RootsApart(D, E, m), PagesApart(D, E, m),
           n.pte = m.pte, n.free = m.free, n.swap = m.swap
    PROVE  RootsApart(D, E, n) /\ PagesApart(D, E, n)
<1>1. RootsApart(D, E, n)
  BY DEF RootsApart
<1>2. PagesApart(D, E, n)
  BY DEF PagesApart
<1> QED
  BY <1>1, <1>2

(* A write into the frame of a page changes that page and no other. *)
PutDatum(m, f, v) == [m EXCEPT !.mem[f] = v]
PutPage(L, q, p, v) == [L EXCEPT ![q][p] = v]

LEMMA WriteKeeps ==
    ASSUME NEW D, NEW E, NEW m, NEW L, Sound(D, E, m), Holds(E, m, L),
           NEW q \in Pids, NEW p \in Pages, NEW t \in Frames, t = E[q][VPN0[p]],
           m.pte[t][p].present, NEW v \in Data
    PROVE  /\ Sound(D, E, PutDatum(m, m.pte[t][p].base, v))
           /\ Holds(E, PutDatum(m, m.pte[t][p].base, v), PutPage(L, q, p, v))
<1>0. PICK f, n, K : f = m.pte[t][p].base /\ n = PutDatum(m, f, v) /\ K = PutPage(L, q, p, v)
  OBVIOUS
<1>1. m \in Memories /\ RootsApart(D, E, m) /\ PagesApart(D, E, m)
  BY DEF Sound
<1>2. f \in Frames
  BY <1>0, <1>1 DEF PagesApart
<1>3. m.mem \in [Frames -> Values] /\ v \in Values
  BY <1>1, MemoryFields DEF Values
<1>4. n.pte = m.pte /\ n.free = m.free /\ n.swap = m.swap /\ n.mem = [m.mem EXCEPT ![f] = v]
  BY <1>0, <1>1 DEF Memories, PutDatum
<1>5. n.mem \in [Frames -> Values] /\ n.mem[f] = v /\ \A h \in Frames \ {f} : n.mem[h] = m.mem[h]
  <2>1. PICK M : M = m.mem
    OBVIOUS
  <2>2. M \in [Frames -> Values] /\ n.mem = [M EXCEPT ![f] = v]
    BY <1>3, <1>4, <2>1
  <2>3. [M EXCEPT ![f] = v] \in [Frames -> Values] /\ [M EXCEPT ![f] = v][f] = v
    BY <1>2, <1>3, <2>2
  <2>4. \A h \in Frames \ {f} : [M EXCEPT ![f] = v][h] = M[h]
    BY <1>2, <1>3, <2>2
  <2> QED
    BY <2>1, <2>2, <2>3, <2>4
<1>6. n \in Memories
  BY <1>0, <1>1, <1>4, <1>5 DEF Memories, PutDatum
<1>7. RootsApart(D, E, n) /\ PagesApart(D, E, n)
  BY <1>1, <1>4, SameUses
<1>8. L \in [Pids -> [Pages -> Values]]
  BY DEF Holds
<1>9. /\ K \in [Pids -> [Pages -> Values]] /\ K[q][p] = v
      /\ \A r \in Pids, s \in Pages : ~(r = q /\ s = p) => K[r][s] = L[r][s]
  BY <1>0, <1>3, <1>8 DEF PutPage
<1>10. E \in [Pids -> [Dirs -> Frames \union {NoFrame}]]
  BY <1>1 DEF RootsApart
<1>11. ASSUME NEW u \in Frames, NEW s \in Pages, m.pte[u][s].present, m.pte[u][s].base = f
       PROVE  u = t /\ s = p
  <2>1. \A w, y \in Frames, z, r \in Pages :
          m.pte[w][z].present /\ m.pte[y][r].present /\ m.pte[w][z].base = m.pte[y][r].base
              => w = y /\ z = r
    BY <1>1 DEF PagesApart
  <2>2. m.pte[u][s].base = m.pte[t][p].base
    BY <1>0, <1>11
  <2> QED
    BY <1>11, <2>1, <2>2, ZenonT(60)
<1>12. ASSUME NEW r \in Pids, NEW s \in Pages
       PROVE  K[r][s] = IF E[r][VPN0[s]] = NoFrame THEN 0 ELSE DatumOf(n, E[r][VPN0[s]], s)
  <2>1. CASE r = q /\ s = p
    <3>1. DatumOf(n, t, p) = v
      BY <1>0, <1>4, <1>5 DEF DatumOf
    <3>2. t # NoFrame
      BY FrameFacts
    <3> QED
      BY <1>9, <2>1, <3>1, <3>2
  <2>2. CASE ~(r = q /\ s = p)
    <3>1. K[r][s] = IF E[r][VPN0[s]] = NoFrame THEN 0 ELSE DatumOf(m, E[r][VPN0[s]], s)
      BY <1>9, <2>2 DEF Holds
    <3>2. CASE E[r][VPN0[s]] = NoFrame
      BY <3>1, <3>2
    <3>3. CASE E[r][VPN0[s]] # NoFrame
      <4>1. PICK u \in Frames : u = E[r][VPN0[s]]
        BY <1>10, <3>3, FrameFacts
      <4>2. ~(u = t /\ s = p)
        <5>1. \A y, z \in Pids, d, c \in Dirs : E[y][d] = E[z][c] /\ E[y][d] # NoFrame => y = z
          BY <1>1 DEF RootsApart
        <5>2. VPN0[p] \in Dirs /\ VPN0[s] \in Dirs
          BY FrameFacts
        <5>3. E[r][VPN0[s]] = E[q][VPN0[p]] => r = q
          BY <3>3, <5>1, <5>2
        <5> QED
          BY <2>2, <4>1, <5>3
      <4>3. m.pte[u][s].present => m.pte[u][s].base \in Frames \ {f}
        <5>1. m.pte[u][s].present => m.pte[u][s].base \in Frames
          BY <1>1 DEF PagesApart
        <5> QED
          BY <1>11, <4>2, <5>1
      <4>4. DatumOf(n, u, s) = DatumOf(m, u, s)
        <5>1. CASE m.pte[u][s].present
          <6>1. n.mem[m.pte[u][s].base] = m.mem[m.pte[u][s].base]
            BY <1>5, <4>3, <5>1
          <6> QED
            BY <1>4, <5>1, <6>1 DEF DatumOf
        <5>2. CASE ~m.pte[u][s].present
          BY <1>4, <5>2 DEF DatumOf
        <5> QED
          BY <5>1, <5>2
      <4> QED
        BY <3>1, <3>3, <4>1, <4>4
    <3> QED
      BY <3>2, <3>3
  <2> QED
    BY <2>1, <2>2
<1>13. Sound(D, E, n) /\ Holds(E, n, K)
  BY <1>6, <1>7, <1>9, <1>12 DEF Sound, Holds
<1> QED
  BY <1>0, <1>13

LEMMA MemorySet ==
    ASSUME NEW m \in Memories, SetMemory(m)
    PROVE  Memory' = m
BY DEF Memories, SetMemory, Memory

(* The whole of Store, on the memory m that the lookup of the table left. *)
LEMMA StoreKeeps ==
    ASSUME NEW D, NEW E, NEW m, Sound(D, E, m), Holds(E, m, lastWritten),
           NEW q \in Pids, NEW p \in Pages, NEW t \in Frames, t = E[q][VPN0[p]],
           NEW v \in Data, Store(m, <<t, p>>, q, p, v)
    PROVE  Sound(D, E, Memory') /\ Holds(E, Memory', lastWritten')
<1>1. PICK n \in IF m.pte[t][p].present THEN {m} ELSE FaultIn(m, <<t, p>>, Writable(p)) :
        IF n.pte[t][p].rw
        THEN /\ SetMemory([n EXCEPT !.mem[n.pte[t][p].base] = v])
             /\ lastWritten' = [lastWritten EXCEPT ![q][p] = v]
        ELSE SetMemory(n) /\ UNCHANGED lastWritten
  BY DEF Store
<1>2. IsTable(E, t)
  BY FrameFacts DEF IsTable
<1>3. Sound(D, E, n) /\ Holds(E, n, lastWritten) /\ n.pte[t][p].present
  <2>1. CASE m.pte[t][p].present
    BY <1>1, <2>1
  <2>2. CASE ~m.pte[t][p].present
    <3>1. n \in FaultIn(m, <<t, p>>, Writable(p)) /\ Writable(p) \in BOOLEAN
      <4>1. n \in FaultIn(m, <<t, p>>, Writable(p))
        BY <1>1, <2>2, Zenon
      <4>2. Writable(p) \in BOOLEAN
        BY DEF Writable
      <4> QED
        BY <4>1, <4>2
    <3>2. /\ Sound(D, E, n) /\ n.pte[t][p].present
          /\ \A u \in Frames, r \in Pages : DatumOf(n, u, r) = DatumOf(m, u, r)
      BY <1>2, <2>2, <3>1, FaultInKeeps, SMTT(60)
    <3> QED
      BY <3>2, HoldsAlong
  <2> QED
    BY <2>1, <2>2
<1>4. CASE n.pte[t][p].rw
  <2>1. PICK f, k : f = n.pte[t][p].base /\ k = PutDatum(n, f, v)
    OBVIOUS
  <2>2. SetMemory(k) /\ lastWritten' = [lastWritten EXCEPT ![q][p] = v]
    BY <1>1, <1>4, <2>1 DEF PutDatum
  <2>3. PICK L, K : L = lastWritten /\ K = PutPage(L, q, p, v)
    OBVIOUS
  <2>4. Sound(D, E, k) /\ Holds(E, k, K)
    <3>1. Holds(E, n, L) /\ Sound(D, E, n) /\ n.pte[t][p].present
      BY <1>3, <2>3
    <3>2. /\ Sound(D, E, PutDatum(n, n.pte[t][p].base, v))
          /\ Holds(E, PutDatum(n, n.pte[t][p].base, v), PutPage(L, q, p, v))
      BY <3>1, WriteKeeps
    <3> QED
      BY <2>1, <2>3, <3>2
  <2>5. Memory' = k
    BY <2>2, <2>4, MemorySet DEF Sound
  <2> QED
    BY <2>2, <2>3, <2>4, <2>5 DEF PutPage
<1>5. CASE ~n.pte[t][p].rw
  <2>1. SetMemory(n) /\ lastWritten' = lastWritten
    BY <1>1, <1>5
  <2>2. Memory' = n
    BY <1>3, <2>1, MemorySet DEF Sound
  <2> QED
    BY <1>3, <2>1, <2>2
<1> QED
  BY <1>4, <1>5

-----------------------------------------------------------------------------
(* The TLB an access begins with belongs to the process that comes in. *)
LEMMA SwitchIsOwn ==
    ASSUME NEW D, NEW E, TlbIsOwn(D, E, tlb, curr_pid), NEW q
    PROVE  TlbIsOwn(D, E, SwitchTo(q), q)
BY DEF SwitchTo, TlbIsOwn

LEMMA HitIsOwn ==
    ASSUME NEW D, NEW E, NEW m, Sound(D, E, m), NEW t, NEW q, TlbIsOwn(D, E, t, q),
           NEW p, NEW e \in TlbHits(t, p)
    PROVE  \E h \in Frames : h = E[q][VPN0[p]] /\ e.ptr = <<h, p>>
<1>1. e \in t /\ e.page = p
  BY DEF TlbHits
<1>2. /\ q \in Pids /\ p \in Pages /\ e.ptr = <<E[q][VPN0[p]], p>> /\ E[q][VPN0[p]] # NoFrame
  BY <1>1 DEF TlbIsOwn
<1>3. E[q][VPN0[p]] \in Frames
  BY <1>2, FrameFacts DEF Sound, RootsApart
<1> QED
  BY <1>2, <1>3

(* The entry of a page that the walk of the tables found goes into the TLB. *)
LEMMA TlbAddIsOwn ==
    ASSUME NEW D, NEW E, NEW t, NEW q \in Pids, TlbIsOwn(D, E, t, q), D[q] # NoFrame,
           NEW p \in Pages, NEW h, h = E[q][VPN0[p]], h # NoFrame,
           NEW u \in TlbAdd(t, p, <<h, p>>)
    PROVE  TlbIsOwn(D, E, u, q)
<1>1. \A e \in u : e \in t \/ e = [page |-> p, ptr |-> <<h, p>>]
  BY DEF TlbAdd
<1>2. ASSUME NEW e \in u
      PROVE  /\ e.page \in Pages /\ e.ptr = <<E[q][VPN0[e.page]], e.page>>
             /\ E[q][VPN0[e.page]] # NoFrame
  <2>1. CASE e \in t
    BY <2>1 DEF TlbIsOwn
  <2>2. CASE e = [page |-> p, ptr |-> <<h, p>>]
    BY <2>2
  <2> QED
    BY <1>1, <2>1, <2>2
<1> QED
  BY <1>2 DEF TlbIsOwn

-----------------------------------------------------------------------------
LEMMA InitPages == MmuInit => PageInv
<1> SUFFICES ASSUME MmuInit PROVE PageInv
  OBVIOUS
<1>1. /\ page_directories \in [Pids -> Frames \union {NoFrame}]
      /\ \A q \in Pids : page_directories[q] = NoFrame
  BY DEF MmuInit
<1>2. /\ pde \in [Pids -> [Dirs -> Frames \union {NoFrame}]]
      /\ \A q \in Pids, d \in Dirs : pde[q][d] = NoFrame
  BY DEF MmuInit, NoTable
<1>3. /\ pte \in [Frames -> [Pages -> Entries]]
      /\ \A t \in Frames, p \in Pages : pte[t][p].present = FALSE
  BY FrameFacts DEF MmuInit
<1>4. /\ mem \in [Frames -> Values] /\ swap \in [Pointers -> Values] /\ freeFrames = Frames
      /\ \A x \in Pointers : swap[x] = 0
  BY DEF MmuInit, Values
<1>5. PICK m : m = Memory
  OBVIOUS
<1>6. m.pte = pte /\ m.free = freeFrames /\ m.mem = mem /\ m.swap = swap
  BY <1>5 DEF Memory
<1>7. m \in Memories
  BY <1>3, <1>4, <1>5 DEF Memories, Memory
<1>8. RootsApart(page_directories, pde, m)
  BY <1>1, <1>2 DEF RootsApart
<1>9. PagesApart(page_directories, pde, m)
  <2>1. \A t \in Frames, p \in Pages : ~m.pte[t][p].present /\ m.swap[<<t, p>>] = 0
    BY <1>3, <1>4, <1>6 DEF Pointers
  <2> QED
    BY <2>1 DEF PagesApart
<1>10. Holds(pde, m, lastWritten)
  <2>1. /\ lastWritten \in [Pids -> [Pages -> Values]]
        /\ \A q \in Pids, p \in Pages : lastWritten[q][p] = 0
    BY DEF MmuInit, Values
  <2>2. \A q \in Pids, p \in Pages : pde[q][VPN0[p]] = NoFrame
    BY <1>2, FrameFacts
  <2> QED
    BY <2>1, <2>2 DEF Holds
<1>11. TlbIsOwn(page_directories, pde, tlb, curr_pid)
  BY DEF MmuInit, TlbIsOwn
<1> QED
  BY <1>5, <1>7, <1>8, <1>9, <1>10, <1>11 DEF PageInv, Sound

(* A read: the memory and the TLB it leaves. *)
LEMMA FetchKeeps ==
    ASSUME NEW q, NEW m, NEW t, Sound(page_directories, pde, m), Holds(pde, m, lastWritten),
           TlbIsOwn(page_directories, pde, t, q), Fetch(m, t), curr_pid' = q
    PROVE  PageInv'
<1>1. /\ SetMemory(m) /\ tlb' = t /\ page_directories' = page_directories /\ pde' = pde
      /\ lastWritten' = lastWritten
  BY DEF Fetch
<1>2. Memory' = m
  BY <1>1, MemorySet DEF Sound
<1> QED
  BY <1>1, <1>2 DEF PageInv

LEMMA ReadKeeps ==
    ASSUME PageInv, NEW q \in Pids, NEW p \in Pages, mmu_read_from_virtual_address(q, p)
    PROVE  PageInv'
<1>1. PICK t : t = SwitchTo(q)
  OBVIOUS
<1>2. PICK D, E, m, L : D = page_directories /\ E = pde /\ m = Memory /\ L = lastWritten
  OBVIOUS
<1>3. Sound(D, E, m) /\ Holds(E, m, L) /\ TlbIsOwn(D, E, t, q)
  BY <1>1, <1>2, SwitchIsOwn DEF PageInv
<1>4. D[q] # NoFrame /\ curr_pid' = q
  BY <1>2 DEF mmu_read_from_virtual_address
<1>5. CASE tlb' = t /\ UNCHANGED <<page_directories, pde, pte, freeFrames, mem, swap, lastWritten>>
  <2>1. Memory' = Memory
    BY <1>5 DEF Memory
  <2> QED
    BY <1>2, <1>3, <1>4, <1>5, <2>1 DEF PageInv
<1>6. CASE Segment[p] = {}
  BY <1>1, <1>5, <1>6 DEF mmu_read_from_virtual_address, SegmentationFault
<1>7. CASE ReadHit(p, t)
  <2>1. PICK e \in TlbHits(t, p) :
          IF pte[e.ptr[1]][e.ptr[2]].present THEN Fetch(Memory, t)
          ELSE \E n \in FaultIn(Memory, e.ptr, Writable(p)) : Fetch(n, t)
    BY <1>7 DEF ReadHit
  <2>2. PICK h \in Frames : h = E[q][VPN0[p]] /\ e.ptr = <<h, p>>
    BY <1>3, HitIsOwn
  <2>3. CASE pte[h][p].present
    <3>1. Fetch(m, t)
      BY <1>2, <2>1, <2>2, <2>3
    <3> QED
      BY <1>2, <1>3, <1>4, <3>1, FetchKeeps
  <2>4. CASE ~pte[h][p].present
    <3>1. PICK n \in FaultIn(m, <<h, p>>, Writable(p)) : Fetch(n, t)
      BY <1>2, <2>1, <2>2, <2>4
    <3>2. ~m.pte[h][p].present /\ IsTable(E, h) /\ Writable(p) \in BOOLEAN
      BY <1>2, <2>2, <2>4, FrameFacts DEF Memory, IsTable, Writable
    <3>3. Sound(D, E, n) /\ \A u \in Frames, r \in Pages : DatumOf(n, u, r) = DatumOf(m, u, r)
      BY <1>3, <3>1, <3>2, FaultInKeeps
    <3>4. Holds(E, n, L)
      BY <1>3, <3>3, HoldsAlong
    <3> QED
      BY <1>2, <1>3, <1>4, <3>1, <3>3, <3>4, FetchKeeps
  <2> QED
    BY <2>3, <2>4
<1>8. CASE ReadMiss(q, p, t)
  <2>1. CASE pde[q][VPN0[p]] = NoFrame
    BY <1>5, <1>8, <2>1 DEF ReadMiss
  <2>2. CASE pde[q][VPN0[p]] # NoFrame
    <3>1. PICK h : h = E[q][VPN0[p]]
      OBVIOUS
    <3>2. PICK u \in TlbAdd(t, p, <<h, p>>) : Fetch(m, u)
      BY <1>2, <1>8, <2>2, <3>1 DEF ReadMiss
    <3>3. TlbIsOwn(D, E, u, q)
      BY <1>2, <1>3, <1>4, <2>2, <3>1, <3>2, TlbAddIsOwn
    <3> QED
      BY <1>2, <1>3, <1>4, <3>2, <3>3, FetchKeeps
  <2> QED
    BY <2>1, <2>2
<1> QED
  BY <1>1, <1>6, <1>7, <1>8 DEF mmu_read_from_virtual_address

LEMMA WriteActionKeeps ==
    ASSUME PageInv, NEW q \in Pids, NEW p \in Pages, NEW v \in Data,
           mmu_write_to_virtual_address(q, p, v)
    PROVE  PageInv'
<1>1. PICK t : t = SwitchTo(q)
  OBVIOUS
<1>2. PICK D, E, m : D = page_directories /\ E = pde /\ m = Memory
  OBVIOUS
<1>3. Sound(D, E, m) /\ Holds(E, m, lastWritten) /\ TlbIsOwn(D, E, t, q)
  BY <1>1, <1>2, SwitchIsOwn DEF PageInv
<1>4. D[q] # NoFrame /\ curr_pid' = q /\ page_directories' = D
  BY <1>2 DEF mmu_write_to_virtual_address
<1>5. VPN0[p] \in Dirs /\ E \in [Pids -> [Dirs -> Frames \union {NoFrame}]]
  BY <1>3, FrameFacts DEF Sound, RootsApart
<1>6. CASE tlb' = t /\ UNCHANGED <<pde, pte, freeFrames, mem, swap, lastWritten>>
  <2>1. Memory' = Memory
    BY <1>6 DEF Memory
  <2> QED
    BY <1>2, <1>3, <1>4, <1>6, <2>1 DEF PageInv
<1>7. ASSUME NEW e \in TlbHits(t, p), Store(Memory, e.ptr, q, p, v), tlb' = t, UNCHANGED pde
      PROVE  PageInv'
  <2>1. PICK h \in Frames : h = E[q][VPN0[p]] /\ e.ptr = <<h, p>>
    BY <1>3, HitIsOwn
  <2>2. Store(m, <<h, p>>, q, p, v)
    BY <1>2, <1>7, <2>1
  <2>3. Sound(D, E, Memory') /\ Holds(E, Memory', lastWritten')
    BY <1>3, <2>1, <2>2, StoreKeeps
  <2> QED
    BY <1>2, <1>3, <1>4, <1>7, <2>3 DEF PageInv
<1>8. ASSUME NEW a \in TableFor(q, p), pde' = [pde EXCEPT ![q][VPN0[p]] = a.f],
             tlb' \in TlbAdd(t, p, <<a.f, p>>), Store(a.m, <<a.f, p>>, q, p, v)
      PROVE  PageInv'
  <2>1. PICK f, g, F : f = a.f /\ g = a.m /\ F = pde'
    OBVIOUS
  <2>2. F = SetTable(E, q, VPN0[p], f)
    BY <1>2, <1>8, <2>1 DEF SetTable
  <2>3. /\ f \in Frames /\ F[q][VPN0[p]] = f /\ Sound(D, F, g) /\ Holds(F, g, lastWritten)
        /\ \A r \in Pids, c \in Dirs : E[r][c] # NoFrame => F[r][c] = E[r][c]
    <3>1. CASE E[q][VPN0[p]] # NoFrame
      <4>1. f = E[q][VPN0[p]] /\ g = m
        BY <1>2, <1>8, <2>1, <3>1 DEF TableFor
      <4>2. F = E
        BY <1>5, <2>2, <4>1 DEF SetTable
      <4>3. f \in Frames
        BY <1>5, <3>1, <4>1
      <4> QED
        BY <1>3, <4>1, <4>2, <4>3
    <3>2. CASE E[q][VPN0[p]] = NoFrame
      <4>1. a \in AskKernel(m)
        BY <1>2, <1>8, <3>2 DEF TableFor
      <4>2. /\ Sound(D, E, g) /\ Fresh(D, E, g, f)
            /\ \A u \in Frames, r \in Pages : DatumOf(g, u, r) = DatumOf(m, u, r)
        BY <1>3, <2>1, <4>1, AskKernelKeeps
      <4>3. Holds(E, g, lastWritten)
        BY <1>3, <4>2, HoldsAlong
      <4> QED
        BY <1>4, <1>5, <2>2, <3>2, <4>2, <4>3, AddTable
    <3> QED
      BY <3>1, <3>2
  <2>4. Store(g, <<f, p>>, q, p, v)
    BY <1>8, <2>1
  <2>5. Sound(D, F, Memory') /\ Holds(F, Memory', lastWritten')
    BY <2>3, <2>4, StoreKeeps
  <2>6. TlbIsOwn(D, F, t, q)
    <3>1. ASSUME NEW e \in t
          PROVE  /\ q \in Pids /\ D[q] # NoFrame
                 /\ e.page \in Pages /\ e.ptr = <<F[q][VPN0[e.page]], e.page>>
                 /\ F[q][VPN0[e.page]] # NoFrame
      <4>1. /\ e.page \in Pages /\ e.ptr = <<E[q][VPN0[e.page]], e.page>>
            /\ E[q][VPN0[e.page]] # NoFrame
        BY <1>3 DEF TlbIsOwn
      <4>2. F[q][VPN0[e.page]] = E[q][VPN0[e.page]]
        BY <2>3, <4>1, FrameFacts
      <4> QED
        BY <1>4, <4>1, <4>2
    <3> QED
      BY <3>1 DEF TlbIsOwn
  <2>7. PICK u : u = tlb'
    OBVIOUS
  <2>8. u \in TlbAdd(t, p, <<f, p>>) /\ f # NoFrame
    BY <1>8, <2>1, <2>3, <2>7, FrameFacts
  <2>9. TlbIsOwn(D, F, u, q)
    BY <1>4, <2>3, <2>6, <2>8, TlbAddIsOwn
  <2> QED
    BY <1>4, <2>1, <2>5, <2>7, <2>9 DEF PageInv
<1> QED
  BY <1>1, <1>6, <1>7, <1>8 DEF mmu_write_to_virtual_address

LEMMA AddKeeps ==
    ASSUME PageInv, NEW q \in Pids, mmu_add_process(q)
    PROVE  PageInv'
<1>1. PICK D, E, m, L : D = page_directories /\ E = pde /\ m = Memory /\ L = lastWritten
  OBVIOUS
<1>2. Sound(D, E, m) /\ Holds(E, m, L) /\ TlbIsOwn(D, E, tlb, curr_pid) /\ D[q] = NoFrame
  BY <1>1 DEF PageInv, mmu_add_process
<1>3. PICK a \in AskKernel(m) : \E b \in AskKernel(a.m) :
          /\ page_directories' = [D EXCEPT ![q] = a.f]
          /\ pde' = [E EXCEPT ![q][VPN0[TestPage1]] = b.f]
          /\ \E k \in FaultIn(b.m, <<b.f, TestPage1>>, TRUE) :
             \E n \in FaultIn(k, <<b.f, TestPage2>>, TRUE) : SetMemory(n)
  BY <1>1 DEF mmu_add_process
<1>4. PICK f, g : f = a.f /\ g = a.m
  OBVIOUS
<1>5. PICK b \in AskKernel(g) :
          /\ page_directories' = [D EXCEPT ![q] = f]
          /\ pde' = [E EXCEPT ![q][VPN0[TestPage1]] = b.f]
          /\ \E k \in FaultIn(b.m, <<b.f, TestPage1>>, TRUE) :
             \E n \in FaultIn(k, <<b.f, TestPage2>>, TRUE) : SetMemory(n)
  BY <1>3, <1>4
<1>6. PICK h, o, d : h = b.f /\ o = b.m /\ d = VPN0[TestPage1]
  OBVIOUS
<1>7. PICK k \in FaultIn(o, <<h, TestPage1>>, TRUE) :
        \E n \in FaultIn(k, <<h, TestPage2>>, TRUE) : SetMemory(n)
  BY <1>5, <1>6
<1>8. PICK n \in FaultIn(k, <<h, TestPage2>>, TRUE) : SetMemory(n)
  BY <1>7
<1>9. PICK C, F, w : C = SetDir(D, q, f) /\ F = SetTable(E, q, d, h) /\ w = TRUE
  OBVIOUS
<1>10. C = page_directories' /\ F = pde'
  BY <1>5, <1>6, <1>9 DEF SetDir, SetTable
<1>11. /\ TestPage1 \in Pages /\ TestPage2 \in Pages /\ TestPage1 # TestPage2
       /\ d \in Dirs /\ w \in BOOLEAN
  BY <1>6, <1>9, MmuAssumption, FrameFacts
<1>12. /\ Sound(D, E, g) /\ Fresh(D, E, g, f)
       /\ \A t \in Frames, p \in Pages : DatumOf(g, t, p) = DatumOf(m, t, p)
  BY <1>2, <1>3, <1>4, AskKernelKeeps
<1>13. Holds(E, g, L)
  BY <1>2, <1>12, HoldsAlong
<1>14. Sound(C, E, g) /\ C[q] = f /\ f # NoFrame
  BY <1>2, <1>9, <1>12, AddDir
<1>15. /\ Sound(C, E, o) /\ Fresh(C, E, o, h)
       /\ \A t \in Frames, p \in Pages : DatumOf(o, t, p) = DatumOf(g, t, p)
  BY <1>6, <1>14, AskKernelKeeps
<1>16. Holds(E, o, L)
  BY <1>13, <1>14, <1>15, HoldsAlong
<1>17. E[q][d] = NoFrame
  BY <1>2, <1>11 DEF Sound, RootsApart
<1>18. /\ Sound(C, F, o) /\ h \in Frames /\ IsTable(F, h) /\ Holds(F, o, L)
       /\ \A p \in Pages : ~o.pte[h][p].present
       /\ \A r \in Pids, c \in Dirs : E[r][c] # NoFrame => F[r][c] = E[r][c]
  BY <1>9, <1>11, <1>14, <1>15, <1>16, <1>17, AddTable
<1>19. /\ Sound(C, F, k)
       /\ \A t \in Frames, p \in Pages :
            /\ DatumOf(k, t, p) = DatumOf(o, t, p)
            /\ k.pte[t][p].present => o.pte[t][p].present \/ <<t, p>> = <<h, TestPage1>>
  <2>1. k \in FaultIn(o, <<h, TestPage1>>, w)
    BY <1>7, <1>9
  <2> QED
    BY <1>11, <1>18, <2>1, FaultInKeeps
<1>20. Holds(F, k, L)
  BY <1>18, <1>19, HoldsAlong
<1>21. ~k.pte[h][TestPage2].present
  <2>1. <<h, TestPage2>> # <<h, TestPage1>>
    BY <1>11
  <2> QED
    BY <1>11, <1>18, <1>19, <2>1
<1>22. /\ Sound(C, F, n)
       /\ \A t \in Frames, p \in Pages : DatumOf(n, t, p) = DatumOf(k, t, p)
  <2>1. n \in FaultIn(k, <<h, TestPage2>>, w)
    BY <1>8, <1>9
  <2> QED
    BY <1>11, <1>18, <1>19, <1>21, <2>1, FaultInKeeps
<1>23. Holds(F, n, L)
  BY <1>19, <1>20, <1>22, HoldsAlong
<1>24. Memory' = n
  BY <1>8, <1>22, MemorySet DEF Sound
<1>25. TlbIsOwn(C, F, tlb, curr_pid)
  <2>1. ASSUME NEW e \in tlb, NEW c, c = curr_pid
        PROVE  /\ c \in Pids /\ C[c] # NoFrame
               /\ e.page \in Pages /\ e.ptr = <<F[c][VPN0[e.page]], e.page>>
               /\ F[c][VPN0[e.page]] # NoFrame
    <3>1. /\ c \in Pids /\ D[c] # NoFrame
          /\ e.page \in Pages /\ e.ptr = <<E[c][VPN0[e.page]], e.page>>
          /\ E[c][VPN0[e.page]] # NoFrame
      BY <1>2, <2>1 DEF TlbIsOwn
    <3>2. F[c][VPN0[e.page]] = E[c][VPN0[e.page]]
      BY <1>18, <3>1, FrameFacts
    <3>3. c # q
      BY <1>2, <3>1
    <3>4. C[c] = D[c]
      BY <1>2, <1>9, <3>1, <3>3 DEF Sound, RootsApart, SetDir
    <3> QED
      BY <3>1, <3>2, <3>4
  <2> QED
    BY <2>1 DEF TlbIsOwn
<1>26. tlb' = tlb /\ curr_pid' = curr_pid /\ lastWritten' = L
  BY <1>1 DEF mmu_add_process
<1> QED
  BY <1>10, <1>22, <1>23, <1>24, <1>25, <1>26 DEF PageInv

(* The frames a removed process gives back: none is used by another. *)
LEMMA FramesOfIs ==
    ASSUME PageInv, NEW q \in Pids, page_directories[q] # NoFrame
    PROVE  /\ TablesOf(q) \subseteq FramesOf(q) /\ FramesOf(q) \in SUBSET Frames
           /\ FramesOf(q) \intersect freeFrames = {}
           /\ page_directories[q] \in FramesOf(q)
           /\ \A t \in Frames : t \in TablesOf(q) <=> \E d \in Dirs : pde[q][d] = t
           /\ \A t \in Frames, p \in Pages : pte[t][p].present =>
                 (pte[t][p].base \in FramesOf(q) <=> t \in TablesOf(q))
           /\ \A r \in Pids \ {q} :
                 /\ page_directories[r] \notin FramesOf(q)
                 /\ \A d \in Dirs : pde[r][d] \notin FramesOf(q)
<1>1. PICK D, E, m : D = page_directories /\ E = pde /\ m = Memory
  OBVIOUS
<1>2. /\ m \in Memories /\ RootsApart(D, E, m) /\ PagesApart(D, E, m)
      /\ m.pte = pte /\ m.free = freeFrames
  BY <1>1 DEF PageInv, Sound, Memory
<1>3. PICK T, R, P : /\ T = TablesOf(q) /\ R = FramesOf(q)
                     /\ P = {pte[x[1]][x[2]].base : x \in {y \in T \X Pages : pte[y[1]][y[2]].present}}
  OBVIOUS
<1>4. R = {D[q]} \union T \union P
  BY <1>1, <1>3 DEF FramesOf
<1>5. /\ D \in [Pids -> Frames \union {NoFrame}]
      /\ E \in [Pids -> [Dirs -> Frames \union {NoFrame}]]
  BY <1>2 DEF RootsApart
<1>6. T \in SUBSET Frames /\ \A t \in Frames : t \in T <=> \E d \in Dirs : E[q][d] = t
  BY <1>1, <1>3, <1>5, FrameFacts DEF TablesOf
<1>7. \A h : h \in P <=> \E t \in T, p \in Pages : pte[t][p].present /\ h = pte[t][p].base
  <2>1. ASSUME NEW h \in P PROVE \E t \in T, p \in Pages : pte[t][p].present /\ h = pte[t][p].base
    <3>1. PICK x \in {y \in T \X Pages : pte[y[1]][y[2]].present} : h = pte[x[1]][x[2]].base
      BY <1>3, <2>1
    <3>2. x[1] \in T /\ x[2] \in Pages /\ pte[x[1]][x[2]].present
      BY <3>1
    <3> QED
      BY <3>1, <3>2
  <2>2. ASSUME NEW t \in T, NEW p \in Pages, pte[t][p].present PROVE pte[t][p].base \in P
    <3>1. PICK x : x = <<t, p>>
      OBVIOUS
    <3>2. x \in T \X Pages /\ x[1] = t /\ x[2] = p
      BY <3>1
    <3> QED
      BY <1>3, <2>2, <3>2
  <2> QED
    BY <2>1, <2>2
<1>8. D[q] \in Frames /\ D[q] \notin freeFrames /\ ~IsTable(E, D[q])
  BY <1>1, <1>2, <1>5 DEF RootsApart
<1>9. ASSUME NEW t \in T PROVE IsTable(E, t) /\ t \notin freeFrames
  <2>1. PICK d \in Dirs : E[q][d] = t
    BY <1>6
  <2>2. t # NoFrame
    BY <1>6, FrameFacts
  <2> QED
    BY <1>2, <2>1, <2>2 DEF RootsApart, IsTable
<1>10. ASSUME NEW h \in P
       PROVE  h \in Frames \ freeFrames /\ ~IsDir(D, h) /\ ~IsTable(E, h)
  <2>1. PICK t \in T, p \in Pages : pte[t][p].present /\ h = pte[t][p].base
    BY <1>7
  <2>2. t \in Frames
    BY <1>6
  <2> QED
    BY <1>2, <2>1, <2>2 DEF PagesApart
<1>11. R \in SUBSET Frames /\ R \intersect freeFrames = {}
  BY <1>4, <1>6, <1>8, <1>9, <1>10
<1>12. ASSUME NEW t \in Frames, NEW p \in Pages, pte[t][p].present
       PROVE  pte[t][p].base \in R <=> t \in T
  <2>1. PICK h : h = pte[t][p].base
    OBVIOUS
  <2>2. ~IsDir(D, h) /\ ~IsTable(E, h)
    BY <1>2, <1>12, <2>1 DEF PagesApart
  <2>3. h # D[q] /\ h \notin T
    BY <1>9, <2>2 DEF IsDir
  <2>4. ASSUME h \in P PROVE t \in T
    <3>1. PICK u \in T, r \in Pages : pte[u][r].present /\ h = pte[u][r].base
      BY <1>7, <2>4
    <3>2. u \in Frames
      BY <1>6
    <3>3. u = t
      BY <1>2, <1>12, <2>1, <3>1, <3>2, ZenonT(60) DEF PagesApart
    <3> QED
      BY <3>3
  <2>5. ASSUME t \in T PROVE h \in P
    BY <1>7, <1>12, <2>1, <2>5
  <2> QED
    BY <1>4, <2>1, <2>3, <2>4, <2>5
<1>13. ASSUME NEW r \in Pids \ {q}
       PROVE  D[r] \notin R /\ \A d \in Dirs : E[r][d] \notin R
  <2>1. D[r] \notin R
    <3>1. CASE D[r] = NoFrame
      BY <1>11, <3>1, FrameFacts
    <3>2. CASE D[r] # NoFrame
      <4>1. D[r] # D[q] /\ ~IsTable(E, D[r]) /\ IsDir(D, D[r])
        BY <1>2, <3>2 DEF RootsApart, IsDir
      <4> QED
        BY <1>4, <1>9, <1>10, <4>1
    <3> QED
      BY <3>1, <3>2
  <2>2. ASSUME NEW d \in Dirs PROVE E[r][d] \notin R
    <3>1. CASE E[r][d] = NoFrame
      BY <1>11, <3>1, FrameFacts
    <3>2. CASE E[r][d] # NoFrame
      <4>1. IsTable(E, E[r][d])
        BY DEF IsTable
      <4>2. \A c \in Dirs : E[q][c] # E[r][d]
        BY <1>2, <3>2 DEF RootsApart
      <4>3. E[r][d] \notin T
        BY <1>6, <4>2
      <4> QED
        BY <1>4, <1>8, <1>10, <4>1, <4>3
    <3> QED
      BY <3>1, <3>2
  <2> QED
    BY <2>1, <2>2
<1> QED
  BY <1>1, <1>3, <1>4, <1>6, <1>11, <1>12, <1>13

LEMMA RemoveKeeps ==
    ASSUME PageInv, NEW q \in Pids, mmu_remove_process(q)
    PROVE  PageInv'
<1>1. PICK D, E, m : D = page_directories /\ E = pde /\ m = Memory
  OBVIOUS
<1>2. /\ m \in Memories /\ RootsApart(D, E, m) /\ PagesApart(D, E, m)
      /\ Holds(E, m, lastWritten) /\ TlbIsOwn(D, E, tlb, curr_pid)
      /\ m.pte = pte /\ m.free = freeFrames /\ m.mem = mem /\ m.swap = swap
  BY <1>1 DEF PageInv, Sound, Memory
<1>3. PICK T, R : T = TablesOf(q) /\ R = FramesOf(q)
  OBVIOUS
<1>4. /\ T \subseteq R /\ R \in SUBSET Frames /\ R \intersect freeFrames = {} /\ D[q] \in R
      /\ \A t \in Frames : t \in T <=> \E d \in Dirs : E[q][d] = t
      /\ \A t \in Frames, p \in Pages : pte[t][p].present => (pte[t][p].base \in R <=> t \in T)
      /\ \A r \in Pids \ {q} : D[r] \notin R /\ \A d \in Dirs : E[r][d] \notin R
  BY <1>1, <1>3, FramesOfIs DEF mmu_remove_process
<1>5. /\ D \in [Pids -> Frames \union {NoFrame}]
      /\ E \in [Pids -> [Dirs -> Frames \union {NoFrame}]]
  BY <1>2 DEF RootsApart
<1>6. PICK C, F, n : C = page_directories' /\ F = pde' /\ n = Memory'
  OBVIOUS
<1>7. n.pte = pte' /\ n.free = freeFrames' /\ n.mem = mem' /\ n.swap = swap'
  BY <1>6 DEF Memory
<1>8. /\ C \in [Pids -> Frames \union {NoFrame}] /\ C[q] = NoFrame
      /\ \A r \in Pids \ {q} : C[r] = D[r]
  BY <1>1, <1>5, <1>6 DEF mmu_remove_process
<1>9. /\ F \in [Pids -> [Dirs -> Frames \union {NoFrame}]]
      /\ \A d \in Dirs : F[q][d] = NoFrame
      /\ \A r \in Pids \ {q} : F[r] = E[r]
  BY <1>1, <1>5, <1>6 DEF mmu_remove_process, NoTable
<1>10. /\ pte \in [Frames -> [Pages -> Entries]] /\ mem \in [Frames -> Values]
       /\ swap \in [Pointers -> Values] /\ freeFrames \in SUBSET Frames
  BY <1>2, MemoryFields
<1>11. /\ n.pte \in [Frames -> [Pages -> Entries]]
       /\ \A t \in Frames, p \in Pages :
            IF t \in T THEN ~n.pte[t][p].present ELSE n.pte[t][p] = pte[t][p]
  BY <1>3, <1>7, <1>10, FrameFacts DEF mmu_remove_process
<1>12. /\ n.mem \in [Frames -> Values] /\ \A h \in Frames \ R : n.mem[h] = mem[h]
  BY <1>3, <1>7, <1>10 DEF mmu_remove_process, Values
<1>13. /\ n.swap \in [Pointers -> Values]
       /\ \A t \in Frames, p \in Pages :
            n.swap[<<t, p>>] = IF t \in T THEN 0 ELSE swap[<<t, p>>]
  <2>1. swap' = [x \in Pointers |-> IF x[1] \in T THEN 0 ELSE swap[x]]
    BY <1>3 DEF mmu_remove_process
  <2>2. \A t \in Frames, p \in Pages : <<t, p>> \in Pointers /\ <<t, p>>[1] = t
    BY DEF Pointers
  <2>3. swap' \in [Pointers -> Values]
    BY <1>10, <2>1 DEF Values
  <2>4. \A t \in Frames, p \in Pages : swap'[<<t, p>>] = IF t \in T THEN 0 ELSE swap[<<t, p>>]
    BY <2>1, <2>2
  <2> QED
    BY <1>7, <2>3, <2>4
<1>14. n.free = freeFrames \union R /\ n.free \in SUBSET Frames
  BY <1>3, <1>4, <1>7, <1>10 DEF mmu_remove_process
<1>15. n \in Memories
  <2>1. n = [pte |-> n.pte, free |-> n.free, mem |-> n.mem, swap |-> n.swap]
    BY <1>6 DEF Memory
  <2> QED
    BY <1>11, <1>12, <1>13, <1>14, <2>1 DEF Memories
<1>16. ASSUME NEW h \in Frames
       PROVE  /\ IsTable(F, h) <=> IsTable(E, h) /\ h \notin T
              /\ IsDir(C, h) => IsDir(D, h)
  <2>0. h # NoFrame
    BY FrameFacts
  <2>1. ASSUME IsTable(F, h) PROVE IsTable(E, h) /\ h \notin T
    <3>1. PICK r \in Pids, d \in Dirs : F[r][d] = h
      BY <2>1 DEF IsTable
    <3>2. r \in Pids \ {q}
      BY <1>9, <2>0, <3>1
    <3>3. E[r][d] = h
      BY <1>9, <3>1, <3>2
    <3>4. h \notin R
      BY <1>4, <3>2, <3>3
    <3> QED
      BY <1>4, <3>3, <3>4 DEF IsTable
  <2>2. ASSUME IsTable(E, h), h \notin T PROVE IsTable(F, h)
    <3>1. PICK r \in Pids, d \in Dirs : E[r][d] = h
      BY <2>2 DEF IsTable
    <3>2. r # q
      BY <1>4, <2>2, <3>1
    <3>3. F[r][d] = h
      BY <1>9, <3>1, <3>2
    <3> QED
      BY <3>3 DEF IsTable
  <2>3. ASSUME IsDir(C, h) PROVE IsDir(D, h)
    BY <1>8, <2>0, <2>3 DEF IsDir
  <2> QED
    BY <2>1, <2>2, <2>3
<1>17. RootsApart(C, F, n)
  <2>1. \A r \in Pids : C[r] = NoFrame => \A d \in Dirs : F[r][d] = NoFrame
    BY <1>2, <1>8, <1>9 DEF RootsApart
  <2>2. ASSUME NEW r \in Pids, NEW s \in Pids, C[r] = C[s], C[r] # NoFrame PROVE r = s
    <3>1. C[r] = D[r] /\ C[s] = D[s]
      BY <1>8, <2>2
    <3> QED
      BY <1>2, <2>2, <3>1 DEF RootsApart
  <2>3. ASSUME NEW r \in Pids, NEW s \in Pids, NEW d \in Dirs, NEW c \in Dirs,
               F[r][d] = F[s][c], F[r][d] # NoFrame
        PROVE  r = s /\ d = c
    <3>1. F[r][d] = E[r][d] /\ F[s][c] = E[s][c]
      BY <1>9, <2>3
    <3>2. E[r][d] = E[s][c] /\ E[r][d] # NoFrame => r = s /\ d = c
      BY <1>2 DEF RootsApart
    <3> QED
      BY <2>3, <3>1, <3>2
  <2>4. ASSUME NEW r \in Pids, C[r] # NoFrame PROVE C[r] \notin n.free /\ ~IsTable(F, C[r])
    <3>1. r \in Pids \ {q} /\ C[r] = D[r] /\ D[r] \in Frames
      BY <1>5, <1>8, <2>4
    <3>2. D[r] \notin freeFrames /\ ~IsTable(E, D[r])
      BY <1>2, <2>4, <3>1 DEF RootsApart
    <3> QED
      BY <1>4, <1>14, <1>16, <3>1, <3>2
  <2>5. ASSUME NEW r \in Pids, NEW d \in Dirs, F[r][d] # NoFrame PROVE F[r][d] \notin n.free
    <3>1. r \in Pids \ {q} /\ F[r][d] = E[r][d]
      BY <1>9, <2>5
    <3>2. E[r][d] \notin freeFrames
      BY <1>2, <2>5, <3>1 DEF RootsApart
    <3> QED
      BY <1>4, <1>14, <3>1, <3>2
  <2>6. \A r, s \in Pids : C[r] = C[s] /\ C[r] # NoFrame => r = s
    BY <2>2
  <2>7. \A r, s \in Pids, d, c \in Dirs :
          F[r][d] = F[s][c] /\ F[r][d] # NoFrame => r = s /\ d = c
    BY <2>3
  <2>8. /\ \A r \in Pids : C[r] # NoFrame => C[r] \notin n.free /\ ~IsTable(F, C[r])
        /\ \A r \in Pids, d \in Dirs : F[r][d] # NoFrame => F[r][d] \notin n.free
    BY <2>4, <2>5
  <2> QED
    BY <1>8, <1>9, <2>1, <2>6, <2>7, <2>8 DEF RootsApart
<1>18. ASSUME NEW t \in Frames, NEW p \in Pages, n.pte[t][p].present
       PROVE  t \notin T /\ n.pte[t][p] = pte[t][p] /\ pte[t][p].present
  BY <1>11, <1>18
<1>19. PagesApart(C, F, n)
  <2>1. ASSUME NEW t \in Frames, NEW p \in Pages, n.pte[t][p].present
        PROVE  /\ IsTable(F, t) /\ n.pte[t][p].base \in Frames \ n.free
               /\ ~IsDir(C, n.pte[t][p].base) /\ ~IsTable(F, n.pte[t][p].base)
    <3>1. t \notin T /\ n.pte[t][p] = pte[t][p] /\ pte[t][p].present
      BY <1>18, <2>1
    <3>2. /\ IsTable(E, t) /\ pte[t][p].base \in Frames \ freeFrames
          /\ ~IsDir(D, pte[t][p].base) /\ ~IsTable(E, pte[t][p].base)
      BY <1>2, <3>1 DEF PagesApart
    <3>3. pte[t][p].base \notin R
      BY <1>4, <3>1
    <3> QED
      BY <1>14, <1>16, <3>1, <3>2, <3>3
  <2>2. ASSUME NEW t \in Frames, NEW u \in Frames, NEW p \in Pages, NEW r \in Pages,
               n.pte[t][p].present, n.pte[u][r].present, n.pte[t][p].base = n.pte[u][r].base
        PROVE  t = u /\ p = r
    <3>1. /\ n.pte[t][p] = pte[t][p] /\ pte[t][p].present
          /\ n.pte[u][r] = pte[u][r] /\ pte[u][r].present
      BY <1>18, <2>2
    <3> QED
      BY <1>2, <2>2, <3>1 DEF PagesApart
  <2>3. ASSUME NEW t \in Frames, NEW p \in Pages, ~IsTable(F, t) PROVE n.swap[<<t, p>>] = 0
    <3>1. CASE t \in T
      BY <1>13, <3>1
    <3>2. CASE t \notin T
      <4>1. swap[<<t, p>>] = 0
        BY <1>2, <1>16, <2>3, <3>2 DEF PagesApart
      <4> QED
        BY <1>13, <3>2, <4>1
    <3> QED
      BY <3>1, <3>2
  <2> QED
    BY <2>1, <2>2, <2>3 DEF PagesApart
<1>20. Holds(F, n, lastWritten')
  <2>1. lastWritten \in [Pids -> [Pages -> Values]]
    BY <1>2 DEF Holds
  <2>2. /\ lastWritten' \in [Pids -> [Pages -> Values]]
        /\ \A p \in Pages : lastWritten'[q][p] = 0
        /\ \A r \in Pids \ {q} : lastWritten'[r] = lastWritten[r]
    BY <2>1 DEF mmu_remove_process, Values
  <2>3. ASSUME NEW r \in Pids, NEW p \in Pages
        PROVE  lastWritten'[r][p] =
                 IF F[r][VPN0[p]] = NoFrame THEN 0 ELSE DatumOf(n, F[r][VPN0[p]], p)
    <3>0. VPN0[p] \in Dirs
      BY FrameFacts
    <3>1. CASE r = q
      BY <1>9, <2>2, <3>0, <3>1
    <3>2. CASE r # q
      <4>1. F[r][VPN0[p]] = E[r][VPN0[p]] /\ lastWritten'[r][p] = lastWritten[r][p]
        BY <1>9, <2>2, <3>2
      <4>2. lastWritten[r][p] =
              IF E[r][VPN0[p]] = NoFrame THEN 0 ELSE DatumOf(m, E[r][VPN0[p]], p)
        BY <1>2 DEF Holds
      <4>3. ASSUME NEW u, u = E[r][VPN0[p]], u # NoFrame
            PROVE  DatumOf(n, u, p) = DatumOf(m, u, p)
        <5>1. u \in Frames /\ u \notin T
          BY <1>4, <1>5, <3>0, <3>2, <4>3
        <5>2. n.pte[u][p] = m.pte[u][p] /\ n.swap[<<u, p>>] = m.swap[<<u, p>>]
          BY <1>2, <1>11, <1>13, <5>1
        <5>3. m.pte[u][p].present => m.pte[u][p].base \in Frames \ R
          <6>1. m.pte[u][p].present => m.pte[u][p].base \in Frames
            BY <1>2, <5>1 DEF PagesApart
          <6> QED
            BY <1>2, <1>4, <5>1, <6>1
        <5>4. m.pte[u][p].present => n.mem[m.pte[u][p].base] = m.mem[m.pte[u][p].base]
          BY <1>2, <1>12, <5>3
        <5> QED
          BY <5>2, <5>4 DEF DatumOf
      <4> QED
        BY <4>1, <4>2, <4>3
    <3> QED
      BY <3>1, <3>2
  <2> QED
    BY <2>2, <2>3 DEF Holds
<1>21. TlbIsOwn(C, F, tlb', curr_pid')
  <2>1. curr_pid' = curr_pid /\ tlb' = IF curr_pid = q THEN {} ELSE tlb
    BY DEF mmu_remove_process
  <2>2. CASE curr_pid = q
    BY <2>1, <2>2 DEF TlbIsOwn
  <2>3. CASE curr_pid # q
    <3>1. ASSUME NEW e \in tlb, NEW c, c = curr_pid
          PROVE  /\ c \in Pids /\ C[c] # NoFrame
                 /\ e.page \in Pages /\ e.ptr = <<F[c][VPN0[e.page]], e.page>>
                 /\ F[c][VPN0[e.page]] # NoFrame
      <4>1. /\ c \in Pids \ {q} /\ D[c] # NoFrame
            /\ e.page \in Pages /\ e.ptr = <<E[c][VPN0[e.page]], e.page>>
            /\ E[c][VPN0[e.page]] # NoFrame
        BY <1>2, <2>3, <3>1 DEF TlbIsOwn
      <4>2. C[c] = D[c] /\ F[c] = E[c]
        BY <1>8, <1>9, <4>1
      <4> QED
        BY <4>1, <4>2
    <3> QED
      BY <2>1, <2>3, <3>1 DEF TlbIsOwn
  <2> QED
    BY <2>2, <2>3
<1> QED
  BY <1>6, <1>15, <1>17, <1>19, <1>20, <1>21 DEF PageInv, Sound

LEMMA NextPages == PageInv /\ [MmuNext]_mmuVars => PageInv'
<1> SUFFICES ASSUME PageInv, [MmuNext]_mmuVars PROVE PageInv'
  OBVIOUS
<1>1. CASE UNCHANGED mmuVars
  <2>1. /\ Memory' = Memory /\ page_directories' = page_directories /\ pde' = pde
        /\ lastWritten' = lastWritten /\ tlb' = tlb /\ curr_pid' = curr_pid
    BY <1>1 DEF mmuVars, Memory
  <2> QED
    BY <2>1 DEF PageInv
<1>2. ASSUME NEW q \in Pids, mmu_add_process(q) \/ mmu_remove_process(q) PROVE PageInv'
  BY <1>2, AddKeeps, RemoveKeeps
<1>3. ASSUME NEW q \in Pids, NEW p \in Pages, mmu_read_from_virtual_address(q, p) PROVE PageInv'
  BY <1>3, ReadKeeps
<1>4. ASSUME NEW q \in Pids, NEW p \in Pages, NEW v \in Data,
             mmu_write_to_virtual_address(q, p, v)
      PROVE  PageInv'
  BY <1>4, WriteActionKeeps
<1> QED
  BY <1>1, <1>2, <1>3, <1>4 DEF MmuNext

-----------------------------------------------------------------------------
(* Frames, tables, TLB and data stay consistent through every sequence of  *)
(* mmu_add_process, mmu_remove_process, reads and writes, however          *)
(* ask_kernel_for_frame chooses the pages it swaps out.                    *)
THEOREM PageInvariance == MmuSpec => []PageInv
<1>1. MmuInit => PageInv
  BY InitPages
<1>2. PageInv /\ [MmuNext]_mmuVars => PageInv'
  BY NextPages
<1> QED
  BY <1>1, <1>2, PTL DEF MmuSpec

LEMMA PageInvSafe == PageInv => PagesKeepTheirData
<1> SUFFICES ASSUME PageInv PROVE PagesKeepTheirData
  OBVIOUS
<1>1. ASSUME NEW e \in tlb
      PROVE  /\ e.ptr[2] = e.page /\ Live(curr_pid)
             /\ pde[curr_pid][VPN0[e.page]] = e.ptr[1]
  <2>1. /\ page_directories[curr_pid] # NoFrame
        /\ e.ptr = <<pde[curr_pid][VPN0[e.page]], e.page>>
    BY DEF PageInv, TlbIsOwn
  <2> QED
    BY <2>1 DEF Live
<1>2. ASSUME NEW q \in Pids, NEW p \in Pages, pde[q][VPN0[p]] # NoFrame
      PROVE  Datum(<<pde[q][VPN0[p]], p>>) = lastWritten[q][p]
  <2>1. PICK u : u = pde[q][VPN0[p]]
    OBVIOUS
  <2>2. lastWritten[q][p] = DatumOf(Memory, u, p)
    BY <1>2, <2>1 DEF PageInv, Holds
  <2>3. Datum(<<u, p>>) = DatumOf(Memory, u, p)
    BY DEF Datum, Entry, DatumOf, Memory
  <2> QED
    BY <2>1, <2>2, <2>3
<1>3. \A q \in Pids : Live(q) => FramesOf(q) \cap freeFrames = {}
  BY FramesOfIs DEF Live
<1>4. ASSUME NEW a \in Pids, NEW b \in Pids, a # b, Live(a), Live(b)
      PROVE  FramesOf(a) \cap FramesOf(b) = {}
  <2>1. page_directories[a] # NoFrame /\ page_directories[b] # NoFrame
    BY <1>4 DEF Live
  <2>2. ASSUME NEW h \in FramesOf(b) PROVE h \notin FramesOf(a)
    <3>1. CASE h = page_directories[b]
      BY <1>4, <2>1, <3>1, FramesOfIs
    <3>2. CASE h \in TablesOf(b)
      <4>1. \A d \in Dirs : pde[b][d] \notin FramesOf(a)
        BY <1>4, <2>1, FramesOfIs
      <4> QED
        BY <3>2, <4>1 DEF TablesOf
    <3>3. CASE h \in {pte[x[1]][x[2]].base :
                        x \in {y \in TablesOf(b) \X Pages : pte[y[1]][y[2]].present}}
      <4>1. PICK x \in TablesOf(b) \X Pages :
              pte[x[1]][x[2]].present /\ h = pte[x[1]][x[2]].base
        BY <3>3
      <4>2. PICK t, p : t = x[1] /\ p = x[2]
        OBVIOUS
      <4>3. t \in TablesOf(b) /\ p \in Pages /\ pte[t][p].present /\ h = pte[t][p].base
        BY <4>1, <4>2
      <4>4. t \in Frames
        BY <2>1, <4>3, FramesOfIs
      <4>5. \A d \in Dirs : pde[b][d] \notin FramesOf(a)
        BY <1>4, <2>1, FramesOfIs
      <4>6. t \notin FramesOf(a)
        BY <4>3, <4>5 DEF TablesOf
      <4>7. t \notin TablesOf(a)
        BY <2>1, <4>6, FramesOfIs
      <4> QED
        BY <2>1, <4>3, <4>4, <4>7, FramesOfIs
    <3> QED
      BY <3>1, <3>2, <3>3 DEF FramesOf
  <2> QED
    BY <2>2
<1> QED
  BY <1>1, <1>2, <1>3, <1>4 DEF PagesKeepTheirData

(* Each page of a live process holds what that process wrote last, in its  *)
(* frame or in its swap file, whatever was evicted, removed or switched in *)
(* between; the TLB points into the tables of the current process only,    *)
(* and no frame belongs to two processes or is free while in use.          *)
THEOREM PagesSafe == MmuSpec => []PagesKeepTheirData
<1>1. MmuSpec => []PageInv
  BY PageInvariance
<1>2. PageInv => PagesKeepTheirData
  BY PageInvSafe
<1> QED
  BY <1>1, <1>2, PTL

=============================================================================

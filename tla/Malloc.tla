------------------------------- MODULE Malloc -------------------------------
(***************************************************************************)
(* The allocator of malloc/alloc.c: blocks with headers in one doubly      *)
(* linked list in the order of their addresses, and the free ones also in  *)
(* a doubly linked list with the last freed first.                         *)
(*                                                                         *)
(* Addresses and sizes are in units; a header takes META of them.  A block *)
(* is named by the address of its header, which lies just before the       *)
(* pointer a caller has.  The header fields are kept for every address; a  *)
(* block that is merged into another leaves `blocks', and its fields go    *)
(* back to what they were, as the program does not read them any more.     *)
(*                                                                         *)
(* A call whose argument of sbrk wraps around (alloc.c:142) gets a block   *)
(* that lies over the break, or the break is moved down; what the program  *)
(* does from then on is undefined, and the model ends there.               *)
(***************************************************************************)
EXTENDS Integers

CONSTANTS META,       \* sizeof(metadata_t)
          HeapLimit,  \* sbrk fails beyond this address
          Sizes,      \* sizes callers ask for
          Counts,     \* numbers of elements given to calloc
          SIZE_MOD    \* 2 ^ (width of size_t)

ASSUME MetaAssumption  == META \in Nat \ {0}
(* The heap takes at most half of the addresses. *)
ASSUME LimitAssumption ==
    /\ HeapLimit \in Nat /\ SIZE_MOD \in Nat \ {0}
    /\ HeapLimit + 3 * META <= SIZE_MOD \div 2
ASSUME SizesAssumption == Sizes \subseteq 0 .. SIZE_MOD - 1 /\ Counts \subseteq 0 .. SIZE_MOD - 1

Addr == 1 .. HeapLimit
NULL == 0
Link == Addr \union {NULL}

VARIABLES heap,    \* the headers, tail, freehead and the break
          live,    \* what each caller asked for, by block; 0 = not allocated
          wrapped  \* an argument of sbrk has wrapped around

vars == <<heap, live, wrapped>>

Heap == [blocks : SUBSET Addr,
         size : [Addr -> Nat], free : [Addr -> {0, 1}],
         next : [Addr -> Link], prev : [Addr -> Link],
         freenext : [Addr -> Link], freeprev : [Addr -> Link],
         tail : Link, freehead : Link,
         brk : 1 .. HeapLimit + 1]

TypeOK == heap \in Heap /\ live \in [Addr -> Nat] /\ wrapped \in BOOLEAN

Init ==
    /\ heap = [blocks |-> {},
               size |-> [a \in Addr |-> 0], free |-> [a \in Addr |-> 0],
               next |-> [a \in Addr |-> NULL], prev |-> [a \in Addr |-> NULL],
               freenext |-> [a \in Addr |-> NULL], freeprev |-> [a \in Addr |-> NULL],
               tail |-> NULL, freehead |-> NULL, brk |-> 1]
    /\ live = [a \in Addr |-> 0]
    /\ wrapped = FALSE

-----------------------------------------------------------------------------
(* if (x != NULL) { x->f = y; } *)
SetIfAny(f, x, y) == IF x = NULL THEN f ELSE [f EXCEPT ![x] = y]

insertfree(H, p) ==
    [H EXCEPT !.freeprev = SetIfAny([@ EXCEPT ![p] = NULL], H.freehead, p),
              !.freenext[p] = H.freehead,
              !.freehead = p]

(* Mutant: freehead is not moved when its block is taken out. *)
removefreeKeepsHead(H, p) ==
    [H EXCEPT !.freeprev = SetIfAny([@ EXCEPT ![p] = NULL], H.freenext[p], H.freeprev[p]),
              !.freenext = SetIfAny([@ EXCEPT ![p] = NULL], H.freeprev[p], H.freenext[p])]

removefree(H, p) ==
    [H EXCEPT !.freeprev = SetIfAny([@ EXCEPT ![p] = NULL], H.freenext[p], H.freeprev[p]),
              !.freenext = SetIfAny([@ EXCEPT ![p] = NULL], H.freeprev[p], H.freenext[p]),
              !.freehead = IF p = @ THEN H.freenext[p] ELSE @]

(* The part of p behind its first sz units becomes a free block. *)
CutAt(H, p, sz, q, rest) ==
    insertfree([H EXCEPT !.blocks = @ \union {q},
                         !.size[q] = rest,
                         !.free[q] = 1,
                         !.next = [@ EXCEPT ![q] = H.next[p], ![p] = q],
                         !.prev = SetIfAny([@ EXCEPT ![q] = p], H.next[p], q),
                         !.tail = IF H.next[p] = NULL THEN q ELSE @], q)

(* Mutant: the new header is not taken off the rest. *)
splitGreedy(H, p, sz) ==
    IF H.size[p] <= sz + 3 * META THEN H
    ELSE CutAt(H, p, sz, p + META + sz, H.size[p] - sz)

split(H, p, sz) ==
    IF H.size[p] <= sz + 3 * META THEN H
    ELSE CutAt(H, p, sz, p + META + sz, H.size[p] - sz - META)

(* Mutant: tail stays at a block that is gone. *)
AbsorbKeepsTail(H, a, b) ==
    [H EXCEPT !.blocks = @ \ {b},
              !.size = [@ EXCEPT ![a] = H.size[a] + H.size[b] + META, ![b] = 0],
              !.free[b] = 0,
              !.next = [@ EXCEPT ![a] = H.next[b], ![b] = NULL],
              !.prev = [SetIfAny(@, H.next[b], a) EXCEPT ![b] = NULL]]

(* Block b, which follows a, becomes part of it. *)
Absorb(H, a, b) ==
    [H EXCEPT !.blocks = @ \ {b},
              !.size = [@ EXCEPT ![a] = H.size[a] + H.size[b] + META, ![b] = 0],
              !.free[b] = 0,
              !.next = [@ EXCEPT ![a] = H.next[b], ![b] = NULL],
              !.prev = [SetIfAny(@, H.next[b], a) EXCEPT ![b] = NULL],
              !.tail = IF H.next[b] = NULL THEN a ELSE @]

-----------------------------------------------------------------------------
(* The k-th block of the free list, NULL behind its end. *)
FreeAt(H) ==
    LET at[k \in 0 .. HeapLimit] ==
            IF k = 0 THEN H.freehead
            ELSE IF at[k - 1] = NULL THEN NULL ELSE H.freenext[at[k - 1]]
    IN  at

(* First fit, in the order of the free list. *)
FirstFit(H, size) ==
    LET at == FreeAt(H)
        Stop(k) == at[k] = NULL \/ H.size[at[k]] >= size
    IN  at[CHOOSE k \in 0 .. HeapLimit : Stop(k) /\ \A j \in 0 .. k - 1 : ~Stop(j)]

(* A free block is cut to size and taken. *)
Reuse(H, p, size) ==
    [split(removefree(H, p), p, size) EXCEPT !.free[p] = 0, !.size[p] = size]

(* sbrk: a new block behind all others. *)
Grow(H, size) ==
    [H EXCEPT !.blocks = @ \union {H.brk},
              !.size[H.brk] = size,
              !.free[H.brk] = 0,
              !.next = SetIfAny([@ EXCEPT ![H.brk] = NULL], H.tail, H.brk),
              !.prev[H.brk] = H.tail,
              !.tail = H.brk,
              !.freenext[H.brk] = NULL,
              !.freeprev[H.brk] = NULL,
              !.brk = @ + META + size]

(* sbrk takes a signed number: what a size_t sum becomes. *)
Increment(size) ==
    LET n == (META + size) % SIZE_MOD
    IN  IF n < SIZE_MOD \div 2 THEN n ELSE n - SIZE_MOD

(* sbrk succeeds, but with another number than header and size make. *)
SbrkWraps(H, size) ==
    /\ size # 0 /\ FirstFit(H, size) = NULL
    /\ Increment(size) # META + size
    /\ H.brk + Increment(size) \in 1 .. HeapLimit + 1

(* The block malloc(size) returns, and the heap it leaves, where the       *)
(* argument of sbrk does not wrap or sbrk fails.                           *)
malloc(H, size) ==
    LET p == FirstFit(H, size)
    IN  CASE size = 0 -> [ptr |-> NULL, heap |-> H]
          [] size # 0 /\ p # NULL -> [ptr |-> p, heap |-> Reuse(H, p, size)]
          [] size # 0 /\ p = NULL /\ H.brk + META + size <= HeapLimit + 1 ->
                [ptr |-> H.brk, heap |-> Grow(H, size)]
          [] OTHER -> [ptr |-> NULL, heap |-> H]

(* The block after p, if it is free, becomes part of p. *)
MergeNext(H, p) ==
    LET n == H.next[p]
    IN  IF n # NULL /\ H.free[n] = 1 THEN Absorb(removefree(H, n), p, n) ELSE H

(* Mutant: the block before is not looked at. *)
MergeNone(H, p) == insertfree(H, p)

(* p, or the free block before it grown by p, goes on the free list. *)
MergePrev(H, p) ==
    LET b == H.prev[p]
    IN  IF b # NULL /\ H.free[b] = 1
          THEN insertfree(Absorb(removefree(H, b), b, p), b)
          ELSE insertfree(H, p)

free(H, p) ==
    IF H.free[p] = 1 THEN H
    ELSE MergePrev(MergeNext([H EXCEPT !.free[p] = 1], p), p)

-----------------------------------------------------------------------------
(* A caller receives p, unless it is NULL, for `size' units. *)
Give(L, p, size) == IF p = NULL THEN L ELSE [L EXCEPT ![p] = size]

Malloc(size) ==
    /\ ~SbrkWraps(heap, size)
    /\ LET r == malloc(heap, size)
       IN  heap' = r.heap /\ live' = Give(live, r.ptr, size)

(* malloc(num * size), which wraps around, and memset *)
Calloc(num, size) ==
    /\ ~SbrkWraps(heap, (num * size) % SIZE_MOD)
    /\ LET r == malloc(heap, (num * size) % SIZE_MOD)
       IN  heap' = r.heap /\ live' = Give(live, r.ptr, num * size)

(* One of the calls that reach sbrk gets what it did not ask for. *)
Wrap ==
    /\ \E size \in Sizes \union {(num * s) % SIZE_MOD : num \in Counts, s \in Sizes} :
          SbrkWraps(heap, size)
    /\ wrapped' = TRUE
    /\ UNCHANGED <<heap, live>>

Free(p) ==
    /\ live[p] # 0
    /\ heap' = free(heap, p)
    /\ live' = [live EXCEPT ![p] = 0]

(* Mutant: whether the block after p is free is not asked. *)
CanExtendAny(p, size) ==
    LET n == heap.next[p]
    IN  n # NULL /\ heap.size[n] + heap.size[p] >= size

(* The block after p is free and large enough together with it. *)
CanExtend(p, size) ==
    LET n == heap.next[p]
    IN  n # NULL /\ heap.size[n] + heap.size[p] >= size /\ heap.free[n] = 1

(* realloc of a block that is large enough, or can be made so *)
ReallocInPlace(p, size) ==
    /\ live[p] # 0 /\ size # 0
    /\ \/ heap.size[p] >= size /\ UNCHANGED heap
       \/ heap.size[p] < size /\ CanExtend(p, size) /\ heap' = MergeNext(heap, p)
    /\ live' = [live EXCEPT ![p] = size]

(* realloc that copies to a new block; if there is none, nothing changes *)
ReallocMove(p, size) ==
    /\ live[p] # 0
    /\ heap.size[p] < size /\ ~CanExtend(p, size) /\ ~SbrkWraps(heap, size)
    /\ LET r == malloc(heap, size)
       IN  IF r.ptr = NULL THEN UNCHANGED <<heap, live>>
           ELSE /\ heap' = free(r.heap, p)
                /\ live' = [live EXCEPT ![p] = 0, ![r.ptr] = size]

(* realloc(p, 0) is free; realloc(NULL, size) is malloc. *)
Calls ==
    \/ \E size \in Sizes : Malloc(size)
    \/ \E num \in Counts, size \in Sizes : Calloc(num, size)
    \/ \E p \in Addr :
         \/ Free(p)
         \/ \E size \in Sizes : ReallocInPlace(p, size) \/ ReallocMove(p, size)

Next ==
    /\ ~wrapped
    /\ \/ Calls /\ UNCHANGED wrapped
       \/ Wrap

Spec == Init /\ [][Next]_vars

-----------------------------------------------------------------------------
End(p) == p + META + heap.size[p]
FreeBlocks == {p \in heap.blocks : heap.free[p] = 1}

(* No two blocks share a unit, headers included, and none reaches over the *)
(* break, however blocks are split, merged, extended and reused.           *)
NoOverlap ==
    /\ \A p, q \in heap.blocks : p < q => End(p) <= q
    /\ \A p \in heap.blocks : End(p) <= heap.brk

(* What a caller holds is a block in use with at least the units asked     *)
(* for: no step that serves one caller takes space from another.           *)
LiveIsIntact ==
    \A p \in Addr : live[p] # 0 =>
        p \in heap.blocks /\ heap.free[p] = 0 /\ heap.size[p] >= live[p]

(* The free list holds every free block once and nothing else.             *)
FreeListExact ==
    LET at == FreeAt(heap)
        In == {k \in 0 .. HeapLimit : at[k] # NULL}
    IN  /\ {at[k] : k \in In} = FreeBlocks
        /\ \A j, k \in In : at[j] = at[k] => j = k
        /\ \A k \in In : heap.freeprev[at[k]] = IF k = 0 THEN NULL ELSE at[k - 1]

(* The block list is the blocks in the order of their addresses: what free *)
(* takes for the neighbours of a block are its neighbours in memory.       *)
ListIsMemoryOrder ==
    /\ \A p \in heap.blocks :
         /\ IF heap.next[p] = NULL
              THEN heap.tail = p /\ \A q \in heap.blocks : q <= p
              ELSE /\ heap.next[p] \in heap.blocks /\ heap.next[p] > p
                   /\ \A q \in heap.blocks : q > p => q >= heap.next[p]
                   /\ heap.prev[heap.next[p]] = p
         /\ heap.prev[p] = NULL => \A q \in heap.blocks : p <= q

(* Two neighbours are never both free: memory that was given back in       *)
(* pieces can serve a request as large as the pieces together.             *)
Coalesced ==
    \A p \in FreeBlocks : heap.next[p] # NULL => heap.free[heap.next[p]] = 0

(* The memory is safe: blocks never overlap, and what one caller holds is  *)
(* never given, cut or merged away while another is served by malloc,      *)
(* calloc, realloc or free, as long as no argument of sbrk wraps.          *)
MemoryIsSafe == wrapped \/ (NoOverlap /\ LiveIsIntact)

(* The two lists of the allocator say what the memory is: the free list    *)
(* has exactly the free blocks, the block list has the blocks in memory    *)
(* order, and free leaves no two free neighbours, as long as no argument   *)
(* of sbrk wraps.                                                          *)
ListsAreSound == wrapped \/ (FreeListExact /\ ListIsMemoryOrder /\ Coalesced)

=============================================================================

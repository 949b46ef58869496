---------------------------- MODULE MiniValgrind ----------------------------
(***************************************************************************)
(* mini_valgrind/mini_valgrind.c: wrappers that keep a list of records of  *)
(* the blocks handed out and two running totals.  A record and its payload *)
(* share an address.  malloc, realloc and free are the C library's.        *)
(*                                                                         *)
(* The first record's next is never written, so it is what malloc's memory *)
(* holds: Null or Wild.  Following Wild, or going on with a list that still *)
(* holds a record realloc has moved away, is undefined: mvBroken, and the  *)
(* program is not followed any further.                                    *)
(***************************************************************************)
EXTENDS Naturals, FiniteSets, FiniteSetsExt, Functions

CONSTANTS Addresses,    \* where records may be placed
          MvSizes,      \* request sizes, 0 among them
          MaxTotal,     \* bound: total_memory_requested
          MaxInvalid    \* bound: invalid_addresses

ASSUME MvAssumption == MvSizes \subseteq Nat /\ Addresses \subseteq Nat \ {0}

VARIABLES mvHead, mvNext, request_size,
          total_memory_requested, total_memory_freed, invalid_addresses,
          asked,      \* ghost: sizes of the blocks the caller holds
          mvBroken

mvVars == <<mvHead, mvNext, request_size, total_memory_requested,
            total_memory_freed, invalid_addresses, asked, mvBroken>>

Null == 0
Wild == Max(Addresses) + 1

MvInit ==
    /\ mvHead = Null
    /\ mvNext = [a \in Addresses |-> Null]
    /\ request_size = [a \in Addresses |-> 0]
    /\ total_memory_requested = 0 /\ total_memory_freed = 0 /\ invalid_addresses = 0
    /\ asked = [a \in Addresses |-> 0]
    /\ mvBroken = FALSE

Held == {a \in Addresses : asked[a] # 0}

Undefined ==
    /\ mvBroken' = TRUE
    /\ UNCHANGED <<mvHead, mvNext, request_size, total_memory_requested,
                   total_memory_freed, invalid_addresses, asked>>

(* The records a walk from head meets, in the order it meets them. *)
Chain ==
    LET step[k \in Nat] == IF k = 0 THEN mvHead
                           ELSE IF step[k - 1] \in Addresses THEN mvNext[step[k - 1]] ELSE Null
    IN  [k \in 0..Cardinality(Addresses) |-> step[k]]
Reaches(a)  == \E k \in DOMAIN Chain : Chain[k] = a
EndsWild    == Reaches(Wild)

(* mini_malloc and mini_calloc: the new record follows the head. *)
Track(n) ==
    \/ /\ mvHead = Wild
       /\ Undefined
    \/ /\ mvHead # Wild
       /\ \E a \in Addresses \ Held :
            /\ a = Min(Addresses \ Held)
            /\ \/ /\ mvHead = Null
                  /\ mvHead' = a
                  /\ \E junk \in {Null, Wild} : mvNext' = [mvNext EXCEPT ![a] = junk]
               \/ /\ mvHead # Null
                  /\ mvNext' = [mvNext EXCEPT ![a] = mvNext[mvHead], ![mvHead] = a]
                  /\ UNCHANGED mvHead
            /\ request_size' = [request_size EXCEPT ![a] = n]
            /\ asked' = [asked EXCEPT ![a] = n]
       /\ total_memory_requested' = total_memory_requested + n
       /\ UNCHANGED <<total_memory_freed, invalid_addresses, mvBroken>>

mini_malloc(n) == n # 0 /\ total_memory_requested + n <= MaxTotal /\ Track(n)
mini_calloc(c, n) == c * n # 0 /\ total_memory_requested + c * n <= MaxTotal /\ Track(c * n)

Invalid ==
    /\ invalid_addresses < MaxInvalid
    /\ invalid_addresses' = invalid_addresses + 1
    /\ UNCHANGED <<mvHead, mvNext, request_size, total_memory_requested,
                   total_memory_freed, asked, mvBroken>>

FreeSkipsHead(a) ==    \* mutant: the head's size is not counted
    /\ Reaches(a)
    /\ total_memory_freed' = IF a = mvHead THEN total_memory_freed
                             ELSE total_memory_freed + request_size[a]
    /\ IF a = mvHead THEN mvHead' = mvNext[a] /\ UNCHANGED mvNext
       ELSE /\ mvNext' = [b \in Addresses |-> IF b \in Held /\ mvNext[b] = a THEN mvNext[a]
                                              ELSE mvNext[b]]
            /\ UNCHANGED mvHead
    /\ asked' = [asked EXCEPT ![a] = 0]
    /\ UNCHANGED <<request_size, total_memory_requested, invalid_addresses, mvBroken>>

Untrack(a) ==
    /\ Reaches(a)
    /\ total_memory_freed' = total_memory_freed + request_size[a]
    /\ IF a = mvHead THEN mvHead' = mvNext[a] /\ UNCHANGED mvNext
       ELSE /\ mvNext' = [b \in Addresses |-> IF b \in Held /\ mvNext[b] = a THEN mvNext[a]
                                              ELSE mvNext[b]]
            /\ UNCHANGED mvHead
    /\ asked' = [asked EXCEPT ![a] = 0]
    /\ UNCHANGED <<request_size, total_memory_requested, invalid_addresses, mvBroken>>

mini_free(a) ==
    \/ Untrack(a)
    \/ ~Reaches(a) /\ EndsWild /\ Undefined
    \/ ~Reaches(a) /\ ~EndsWild /\ Invalid

(* The record found is handed to realloc; the list is not told where it went. *)
Resize(a, n) ==
    LET old == request_size[a] IN
    /\ request_size' = [request_size EXCEPT ![a] = n]
    /\ asked' = [asked EXCEPT ![a] = n]
    /\ IF n < old THEN /\ total_memory_freed' = total_memory_freed + (old - n)
                       /\ UNCHANGED total_memory_requested
       ELSE /\ total_memory_requested' = total_memory_requested + (n - old)
            /\ UNCHANGED total_memory_freed
    /\ mvBroken' \in {FALSE, TRUE}    \* stayed in place, or moved
    /\ UNCHANGED <<mvHead, mvNext, invalid_addresses>>

mini_realloc(a, n) ==
    \/ n = 0 /\ a # Null /\ mini_free(a)
    \/ n # 0 /\ a = Null /\ mini_malloc(n)
    \/ /\ n # 0 /\ a # Null
       /\ \/ Reaches(a) /\ total_memory_requested + n <= MaxTotal /\ Resize(a, n)
          \/ ~Reaches(a) /\ EndsWild /\ Undefined
          \/ ~Reaches(a) /\ ~EndsWild /\ Invalid

MvNextStep ==
    /\ ~mvBroken
    /\ \/ \E n \in MvSizes : mini_malloc(n) \/ mini_calloc(2, n)
       \/ \E a \in Addresses : mini_free(a)
       \/ \E a \in Addresses \cup {Null}, n \in MvSizes : mini_realloc(a, n)

(* As long as no realloc has moved a block and no uninitialised link has   *)
(* been followed, a walk from head meets exactly the blocks the caller     *)
(* holds, whatever the order of calls and of invalid frees, so none of     *)
(* them is reported invalid, and the two totals differ by what is leaked.  *)
LeaksAreCounted ==
    ~mvBroken /\ ~EndsWild =>
        /\ {a \in Addresses : Reaches(a)} = Held
        /\ \A a \in Held : request_size[a] = asked[a]
        /\ total_memory_requested - total_memory_freed = SumFunction(asked)
=============================================================================

------------------------------- MODULE Vector -------------------------------
(***************************************************************************)
(* vector/vector.c: a growing array that owns copies of its elements, and  *)
(* vector/sstring.c, whose strings are split into such a vector.           *)
(*                                                                         *)
(* An object is a number; copy_constructor and default_constructor take    *)
(* the lowest one not alive and the destructor ends one.  Slots at and     *)
(* beyond size hold nothing usable (Junk).  Elements passed in are not     *)
(* the object they replace (vector_set destroys before it copies).         *)
(***************************************************************************)
EXTENDS Naturals, Sequences, SequencesExt, FiniteSetsExt

CONSTANTS Elements,          \* values of elements; 0 is the default one
          INITIAL_CAPACITY,
          MaxSize,           \* bound: size and reserved capacity
          Delimiter,         \* sstring_split's delimiter
          Texts,             \* strings passed to the sstring functions
          MaxLen             \* bound: length of an sstring

GROWTH_FACTOR == 2

ASSUME VectorAssumption == INITIAL_CAPACITY \in Nat \ {0} /\ MaxSize \in Nat

VARIABLES array,      \* array[i], i < capacity: an object or Junk
          size, capacity,
          alive,      \* the objects that exist
          value,      \* value[o]
          contents    \* ghost: the sequence of values the vector stands for

vectorVars == <<array, size, capacity, alive, value, contents>>

Junk    == 0
Objects == 1..(MaxSize + 1)

(* The least power of the growth factor that reaches target. *)
get_new_capacity(target) ==
    LET power[k \in Nat] == IF k < target THEN power[GROWTH_FACTOR * k] ELSE k
    IN  power[1]

Slots(cap) == 0..(cap - 1)

VectorInit ==    \* vector_create
    /\ array = [i \in Slots(INITIAL_CAPACITY) |-> Junk]
    /\ size = 0
    /\ capacity = INITIAL_CAPACITY
    /\ alive = {}
    /\ value = [o \in Objects |-> 0]
    /\ contents = <<>>

(* realloc, if n slots do not fit: the old slots keep their pointers. *)
Reserved(n) == IF n > capacity THEN get_new_capacity(n) ELSE capacity
Grown(n)    == [i \in Slots(Reserved(n)) |-> IF i < capacity THEN array[i] ELSE Junk]

New == Min(Objects \ alive)
Construct(x) == alive' = alive \cup {New} /\ value' = [value EXCEPT ![New] = x]

vector_resize(n) ==
    /\ size' = n
    /\ \/ /\ size > n
          /\ alive' = alive \ {array[i] : i \in n..(size - 1)}
          /\ array' = [i \in Slots(capacity) |-> IF i < n THEN array[i] ELSE Junk]
          /\ contents' = SubSeq(contents, 1, n)
          /\ UNCHANGED <<capacity, value>>
       \/ /\ size <= n
          /\ capacity' = Reserved(n)
          /\ LET fresh == SetToSortSeq(Objects \ alive, <)
                 made  == {fresh[k] : k \in 1..(n - size)}
             IN  /\ alive' = alive \cup made
                 /\ value' = [o \in Objects |-> IF o \in made THEN 0 ELSE value[o]]
                 /\ array' = [i \in Slots(Reserved(n)) |->
                                IF i \in size..(n - 1) THEN fresh[i - size + 1] ELSE Grown(n)[i]]
          /\ contents' = contents \o [k \in 1..(n - size) |-> 0]

vector_reserve(n) ==
    /\ array' = Grown(n)
    /\ capacity' = Reserved(n)
    /\ UNCHANGED <<size, alive, value, contents>>

vector_set(i, x) ==
    /\ LET o == array[i]
           c == Min(Objects \ (alive \ {o}))
       IN  /\ alive' = (alive \ {o}) \cup {c}
           /\ value' = [value EXCEPT ![c] = x]
           /\ array' = [array EXCEPT ![i] = c]
    /\ contents' = [contents EXCEPT ![i + 1] = x]
    /\ UNCHANGED <<size, capacity>>

vector_push_back(x) ==
    /\ size' = size + 1
    /\ capacity' = Reserved(size + 1)
    /\ array' = [Grown(size + 1) EXCEPT ![size] = New]
    /\ Construct(x)
    /\ contents' = Append(contents, x)

vector_pop_back ==
    /\ size > 0
    /\ size' = size - 1
    /\ alive' = alive \ {array[size - 1]}
    /\ array' = [array EXCEPT ![size - 1] = Junk]
    /\ contents' = Front(contents)
    /\ UNCHANGED <<capacity, value>>

vector_insert(pos, x) ==
    /\ size' = size + 1
    /\ capacity' = Reserved(size + 1)
    /\ array' = [i \in Slots(Reserved(size + 1)) |->
                    CASE i = pos               -> New
                      [] i > pos /\ i <= size  -> Grown(size + 1)[i - 1]
                      [] OTHER                 -> Grown(size + 1)[i]]
    /\ Construct(x)
    /\ contents' = InsertAt(contents, pos + 1, x)

EraseKeepsLast(pos) ==    \* mutant: the shift stops one slot early
    /\ pos < size
    /\ size' = size - 1
    /\ alive' = alive \ {array[pos]}
    /\ array' = [i \in Slots(capacity) |->
                    IF i >= pos /\ i < size - 2 THEN array[i + 1]
                    ELSE IF i = size - 1 THEN Junk ELSE array[i]]
    /\ contents' = RemoveAt(contents, pos + 1)
    /\ UNCHANGED <<capacity, value>>

vector_erase(pos) ==
    /\ pos < size
    /\ size' = size - 1
    /\ alive' = alive \ {array[pos]}
    /\ array' = [i \in Slots(capacity) |->
                    IF i >= pos /\ i < size - 1 THEN array[i + 1]
                    ELSE IF i = size - 1 THEN Junk ELSE array[i]]
    /\ contents' = RemoveAt(contents, pos + 1)
    /\ UNCHANGED <<capacity, value>>

vector_clear ==
    /\ alive' = alive \ {array[i] : i \in Slots(size)}
    /\ size' = 0
    /\ array' = [i \in Slots(capacity) |-> Junk]
    /\ contents' = <<>>
    /\ UNCHANGED <<capacity, value>>

(* Its memory is gone with it: capacity 0 stands for no vector. *)
vector_destroy ==
    /\ alive' = alive \ {array[i] : i \in Slots(size)}
    /\ size' = 0 /\ capacity' = 0
    /\ array' = <<>>
    /\ contents' = <<>>
    /\ UNCHANGED value

VectorNext ==
    /\ capacity > 0
    /\ \/ \E n \in 0..MaxSize : vector_resize(n) \/ vector_reserve(n)
       \/ \E i \in Slots(size), x \in Elements : vector_set(i, x)
       \/ \E x \in Elements : size < MaxSize /\ vector_push_back(x)
       \/ \E i \in 0..size, x \in Elements : size < MaxSize /\ vector_insert(i, x)
       \/ \E i \in Slots(size) : vector_erase(i)
       \/ vector_pop_back
       \/ vector_clear
       \/ vector_destroy

vector_at(i) == array[i]      \* also vector_get, vector_begin
vector_back  == array[size - 1]
vector_empty == size = 0

(* Through any sequence of calls, with the array moved by realloc and slots *)
(* shifted by insert and erase, the slots below size hold different living *)
(* objects with the values put there, and no other object lives: nothing   *)
(* is leaked, shared by two slots or destroyed twice, and nothing is left  *)
(* by vector_destroy.                                                      *)
VectorIsSequence ==
    /\ size <= capacity /\ size = Len(contents)
    /\ \A i \in Slots(size) : vector_at(i) \in alive /\ value[vector_at(i)] = contents[i + 1]
    /\ alive = {array[i] : i \in Slots(size)}
    /\ \A i, j \in Slots(size) : array[i] = array[j] => i = j
    /\ ~vector_empty => value[vector_back] = Last(contents)

-----------------------------------------------------------------------------
VARIABLES source, len    \* an sstring

sstringVars == <<source, len>>

SstringInit == source = <<>> /\ len = 0     \* cstr_to_sstring of ""

sstring_append(addition) ==
    /\ source' = source \o addition
    /\ len' = len + Len(addition)

(* strstr: the first place at or after offset where target stands, or {}. *)
Occurrences(target, offset) ==
    {k \in offset..len : /\ k + Len(target) <= Len(source)
                         /\ SubSeq(source, k + 1, k + Len(target)) = target}

sstring_slice(start, end) == SubSeq(source, start + 1, end)

sstring_substitute(offset, target, substitution) ==
    /\ Occurrences(target, offset) # {}
    /\ LET a == Min(Occurrences(target, offset)) IN
       source' = sstring_slice(0, a) \o substitution
                  \o SubSeq(source, a + Len(target) + 1, Len(source))
    /\ len' = len - Len(target) + Len(substitution)

(* strtok: the maximal runs without the delimiter. *)
sstring_split ==
    LET Add(tokens, c) ==
            CASE c = Delimiter         -> IF Last(tokens) = <<>> THEN tokens
                                          ELSE Append(tokens, <<>>)
              [] OTHER                 -> Append(Front(tokens), Append(Last(tokens), c))
        all == FoldLeft(Add, <<<<>>>>, source)
    IN  IF Last(all) = <<>> THEN Front(all) ELSE all

SstringNext ==
    \/ \E t \in Texts : len + Len(t) <= MaxLen /\ sstring_append(t)
    \/ \E t \in Texts \ {<<>>}, s \in Texts, o \in 0..len :
          len + Len(s) - Len(t) <= MaxLen /\ sstring_substitute(o, t, s)

(* The stored length is the length of the text after every append and      *)
(* substitution, so the buffers sized by it hold the text, and splitting   *)
(* into a vector loses only delimiters and makes no empty token.           *)
SstringIsText ==
    /\ len = Len(source)
    /\ FlattenSeq(sstring_split) = SelectSeq(source, LAMBDA c : c # Delimiter)
    /\ \A k \in DOMAIN sstring_split : sstring_split[k] # <<>>

(* The two containers hold what their callers put into them: the vector    *)
(* its sequence of live objects, the sstring its text.                     *)
VectorIsSound == VectorIsSequence /\ SstringIsText

=============================================================================

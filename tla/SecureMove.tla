----------------------------- MODULE SecureMove -----------------------------
(* know_your_tools: secure_move reads a file into memory in lines of at    *)
(* most 80 characters (read_wrap.c), overwrites it (shred.c), and writes   *)
(* the lines to another file (utils.c), with the first and the last five   *)
(* in front if there are more than ten.                                    *)
EXTENDS Naturals, Sequences, SequencesExt

CONSTANTS
    Sources,        \* files: sequences of lines, a line a sequence of characters
    LIMIT,          \* 80
    EXTRACT,        \* lines in the head and in the tail: 5
    PAGE_SIZE,      \* 4096
    ITERATIONS,     \* 3
    MoveFaults      \* what may fail: "read", "shred", "write"

VARIABLES
    moveAt,         \* "read", "shred", "open", "print", or how it ended
    original,       \* the file to move
    lines,          \* input_file->lines
    disk,           \* how often each byte of the file has been overwritten
    num_bytes,      \* of the pass under way
    position,       \* in the file
    passes,
    destination     \* lines written; "blank" for the empty lines between parts

moveVars == <<moveAt, original, lines, disk, num_bytes, position, passes, destination>>

(* Each line ends in a newline. *)
Bytes(file) == FoldSeq(LAMBDA l, n : n + Len(l) + 1, 0, file)

MoveInit ==
    /\ moveAt = "read"
    /\ original \in Sources
    /\ lines = <<>>
    /\ disk = [i \in 1..Bytes(original) |-> 0]
    /\ num_bytes = 0 /\ position = 0 /\ passes = 0
    /\ destination = <<>>

(* Mutant: a line of exactly the limit, or of several, loses its last part. *)
WrappedShort(l) ==
    [k \in 1..(IF l = <<>> THEN 0 ELSE (Len(l) - 1) \div LIMIT) |->
        SubSeq(l, (k - 1) * LIMIT + 1, k * LIMIT)]

(* A line longer than the limit is cut, an empty one is dropped. *)
Wrapped(l) ==
    [k \in 1..(Len(l) + LIMIT - 1) \div LIMIT |->
        SubSeq(l, (k - 1) * LIMIT + 1, IF k * LIMIT < Len(l) THEN k * LIMIT ELSE Len(l))]

read_wrap ==
    /\ moveAt = "read"
    /\ \/ /\ "read" \in MoveFaults
          /\ moveAt' = "no file" /\ UNCHANGED lines
       \/ /\ lines' = FlattenSeq([i \in DOMAIN original |-> Wrapped(original[i])])
          /\ moveAt' = "shred"
    /\ UNCHANGED <<original, disk, num_bytes, position, passes, destination>>

(* shred: a file that cannot be opened, or is empty, is left as it is, and *)
(* main does not look at the result.                                       *)
shred ==
    /\ moveAt = "shred"
    /\ moveAt' \in {"pass"} \union (IF "shred" \in MoveFaults THEN {"open"} ELSE {})
    /\ Len(disk) = 0 => moveAt' = "open"
    /\ num_bytes' = Len(disk) /\ position' = 0 /\ passes' = 0
    /\ UNCHANGED <<original, lines, disk, destination>>

(* write_random writes a page, and the null byte after it, at a time. *)
StringSize == IF PAGE_SIZE < num_bytes + 1 THEN PAGE_SIZE ELSE num_bytes + 1

write_random ==
    /\ moveAt = "pass" /\ num_bytes > 0
    /\ disk' = [i \in 1..(IF position + StringSize + 1 > Len(disk) THEN position + StringSize + 1
                          ELSE Len(disk)) |->
                  (IF i \in DOMAIN disk THEN disk[i] ELSE 0)
                    + (IF i \in position + 1..position + StringSize + 1 THEN 1 ELSE 0)]
    /\ position' = position + StringSize + 1
    /\ num_bytes' = IF num_bytes > PAGE_SIZE THEN num_bytes - PAGE_SIZE ELSE 0
    /\ UNCHANGED <<moveAt, original, lines, passes, destination>>

(* reset_file before the next pass; the size is that of the file before. *)
EndPass ==
    /\ moveAt = "pass" /\ num_bytes = 0
    /\ passes' = passes + 1
    /\ position' = 0
    /\ IF passes + 1 < ITERATIONS
         THEN num_bytes' = Bytes(original) /\ UNCHANGED moveAt
         ELSE moveAt' = "open" /\ UNCHANGED num_bytes
    /\ UNCHANGED <<original, lines, disk, destination>>

Head5 == SubSeq(lines, 1, EXTRACT)
Tail5 == SubSeq(lines, Len(lines) - EXTRACT + 1, Len(lines))

(* The test for a failed open is never true: the program goes on and all   *)
(* writes fail.                                                            *)
print_file ==
    /\ moveAt = "open"
    /\ \/ "write" \in MoveFaults /\ moveAt' = "lost" /\ UNCHANGED destination
       \/ /\ moveAt' = "moved"
          /\ destination' =
                (IF Len(lines) > 2 * EXTRACT
                   THEN Head5 \o <<<<"blank">>>> \o Tail5 \o <<<<"blank">>>> ELSE <<>>)
                \o lines
    /\ UNCHANGED <<original, lines, disk, num_bytes, position, passes>>

MoveNext == read_wrap \/ shred \/ write_random \/ EndPass \/ print_file

-----------------------------------------------------------------------------
(* After a move that could write its destination, the last lines of it are *)
(* the text of the file, no character lost or moved and no line too long,  *)
(* and unless the file could not be opened for writing every byte of it    *)
(* has been overwritten in each pass.                                      *)
MoveKeepsText ==
    moveAt = "moved" =>
        /\ FlattenSeq(SubSeq(destination, Len(destination) - Len(lines) + 1, Len(destination)))
              = FlattenSeq(original)
        /\ \A i \in DOMAIN lines : Len(lines[i]) \in 1..LIMIT
        /\ passes > 0 => \A i \in DOMAIN disk : i <= Bytes(original) => disk[i] >= ITERATIONS
=============================================================================

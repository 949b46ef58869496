------------------------------ MODULE Lookups ------------------------------
(* mad_mad_access_patterns: lookup1 walks a binary tree in a file with     *)
(* fseek and fread, lookup2 through a mapping of the file.                 *)
EXTENDS Naturals, Sequences

CONSTANTS
    Trees,          \* files: offset |-> [word, left_child, right_child], root
                    \* at 4; NotATree for one without the magic word
    NotATree,
    Words           \* the words on the command line, numbers in their order

VARIABLES
    tool,           \* "lookup1" or "lookup2"
    tree,           \* the file
    word,           \* index of the word looked for
    node,           \* offset of the node that is compared
    printed,        \* results so far: TRUE for found
    lkStatus        \* "checking" the file, "looking", or the exit status

lkVars == <<tool, tree, word, node, printed, lkStatus>>

LookupInit ==
    /\ tool \in {"lookup1", "lookup2"} /\ tree \in Trees
    /\ word = 1 /\ node = 4 /\ printed = <<>>
    /\ lkStatus = "checking"

(* The file is opened and has to start with BTRE. *)
CheckFormat ==
    /\ lkStatus = "checking"
    /\ lkStatus' = IF tree = NotATree THEN "2" ELSE "looking"
    /\ UNCHANGED <<tool, tree, word, node, printed>>

Answer(found) ==
    /\ printed' = Append(printed, found)
    /\ word' = word + 1
    /\ node' = 4
    /\ lkStatus' = IF word = Len(Words) THEN "0" ELSE lkStatus
    /\ UNCHANGED <<tool, tree>>

Descend(child) ==
    /\ node' = child
    /\ UNCHANGED <<tool, tree, word, printed, lkStatus>>

(* One turn of the loop of lookup1: a child at offset 0 is not read. *)
FseekStep ==
    /\ tool = "lookup1" /\ lkStatus = "looking"
    /\ LET n == tree[node]
           child == IF Words[word] > n.word THEN n.right_child ELSE n.left_child
       IN  \/ Words[word] = n.word /\ Answer(TRUE)
           \/ Words[word] # n.word /\ child = 0 /\ Answer(FALSE)
           \/ Words[word] # n.word /\ child # 0 /\ Descend(child)

(* Mutant: left for right. *)
SearchOther ==
    /\ tool = "lookup2" /\ lkStatus = "looking"
    /\ \/ node = 0 /\ Answer(FALSE)
       \/ node # 0 /\ Words[word] = tree[node].word /\ Answer(TRUE)
       \/ node # 0 /\ Words[word] < tree[node].word /\ Descend(tree[node].right_child)
       \/ node # 0 /\ Words[word] > tree[node].word /\ Descend(tree[node].left_child)

(* One call of search in lookup2: offset 0 is looked at in the next call. *)
search ==
    /\ tool = "lookup2" /\ lkStatus = "looking"
    /\ \/ node = 0 /\ Answer(FALSE)
       \/ node # 0 /\ Words[word] = tree[node].word /\ Answer(TRUE)
       \/ node # 0 /\ Words[word] < tree[node].word /\ Descend(tree[node].left_child)
       \/ node # 0 /\ Words[word] > tree[node].word /\ Descend(tree[node].right_child)

LookupNext == CheckFormat \/ FseekStep \/ search

(* Both tools find exactly the words that are somewhere in the tree. *)
LookupsFind ==
    tree # NotATree =>
        \A i \in DOMAIN printed : printed[i] <=> \E o \in DOMAIN tree : tree[o].word = Words[i]
=============================================================================

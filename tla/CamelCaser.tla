----------------------------- MODULE CamelCaser -----------------------------
(* extreme_edge_cases/camelCaser.c: camel_caser splits a text at its       *)
(* punctuation and rewrites every sentence in camel case, in place.        *)
EXTENDS Naturals, Sequences, SequencesExt

CONSTANTS Inputs    \* texts over the characters below

(* One character of each class, and the letter in both cases. *)
isalpha(c) == c \in {"a", "A"}
isdigit(c) == c = "1"
isspace(c) == c = " "
ispunct(c) == c = "."
tolower(c) == IF c = "A" THEN "a" ELSE c
toupper(c) == IF c = "a" THEN "A" ELSE c

VARIABLES
    input_str,
    temp1, temp2,   \* start of the sentence and position of the scan
    camels,         \* result: the sentences
    sentence, letter    \* i and j of the second loop

camelVars == <<input_str, temp1, temp2, camels, sentence, letter>>

CamelInit ==
    /\ input_str \in Inputs
    /\ temp1 = 1 /\ temp2 = 1
    /\ camels = <<>>
    /\ sentence = 1 /\ letter = 1

(* What follows the last punctuation mark is no sentence. *)
SplitStep ==
    /\ temp2 <= Len(input_str)
    /\ IF ispunct(input_str[temp2])
         THEN camels' = Append(camels, SubSeq(input_str, temp1, temp2 - 1)) /\ temp1' = temp2 + 1
         ELSE UNCHANGED <<camels, temp1>>
    /\ temp2' = temp2 + 1
    /\ UNCHANGED <<input_str, sentence, letter>>

(* The first test of a turn: a letter after a digit is a capital. *)
Cased(s, j) ==
    IF ~isalpha(s[j]) THEN s
    ELSE [s EXCEPT ![j] = IF j > 1 /\ isdigit(s[j - 1]) THEN toupper(tolower(@)) ELSE tolower(@)]

(* The inner loop as an if: one space is squeezed out. *)
SqueezedOnce(s, j) ==
    IF ~isspace(s[j]) THEN s
    ELSE LET rest == SubSeq(s, j + 1, Len(s))
         IN  SubSeq(s, 1, j - 1) \o
             (IF rest = <<>> THEN <<>> ELSE [rest EXCEPT ![1] = toupper(@)])

(* The inner loop: spaces from j on are squeezed out, and the letter that  *)
(* moves to j becomes a capital.                                           *)
Squeezed(s, j) ==
    LET spaces == {n \in 0..Len(s) - j + 1 : \A k \in j..j + n - 1 : isspace(s[k])}
        n == CHOOSE m \in spaces : \A k \in spaces : k <= m
        rest == SubSeq(s, j + n, Len(s))
    IN  IF n = 0 THEN s
        ELSE SubSeq(s, 1, j - 1) \o
             (IF rest = <<>> THEN <<>> ELSE [rest EXCEPT ![1] = toupper(@)])

(* One turn of the loop over a sentence, or its end: the first letter is   *)
(* made small.                                                             *)
RewriteStep ==
    /\ temp2 > Len(input_str) /\ sentence <= Len(camels)
    /\ LET s == camels[sentence]
       IN  \/ /\ letter <= Len(s)
              /\ camels' = [camels EXCEPT ![sentence] = Squeezed(Cased(s, letter), letter)]
              /\ letter' = letter + 1 /\ UNCHANGED sentence
           \/ /\ letter > Len(s)
              /\ camels' = [camels EXCEPT ![sentence] =
                               IF s = <<>> THEN s ELSE [s EXCEPT ![1] = tolower(@)]]
              /\ sentence' = sentence + 1 /\ letter' = 1
    /\ UNCHANGED <<input_str, temp1, temp2>>

CamelNext == SplitStep \/ RewriteStep

-----------------------------------------------------------------------------
(* Camel case of characters from..to of the input, without the squeezing:  *)
(* a letter is a capital if a space or a digit is right before it and      *)
(* anything but spaces before that.                                        *)
Camel(from, to) ==
    LET cased(p) == IF /\ \E q \in from..p - 1 : ~isspace(input_str[q])
                       /\ isspace(input_str[p - 1]) \/ isdigit(input_str[p - 1])
                    THEN toupper(input_str[p]) ELSE tolower(input_str[p])
        marked == [p \in 1..to - from + 1 |-> cased(from + p - 1)]
    IN  SelectSeq(marked, LAMBDA c : ~isspace(c))

Ends == SelectSeq([p \in 1..Len(input_str) |-> p], LAMBDA p : ispunct(input_str[p]))

(* Rewriting in place while the text shrinks gives the camel case of every *)
(* sentence, in order, also of empty ones and of runs of spaces.           *)
CamelCaserIsExact ==
    sentence > Len(camels) /\ temp2 > Len(input_str) =>
        /\ Len(camels) = Len(Ends)
        /\ \A i \in DOMAIN Ends :
              camels[i] = Camel(IF i = 1 THEN 1 ELSE Ends[i - 1] + 1, Ends[i] - 1)
=============================================================================

----------------------------- MODULE ThreadLabs -----------------------------
(***************************************************************************)
(* teaching_threads/par_reduce.c: threads reduce the parts of a list, each *)
(* taking its part's number from a counter they share without a lock; and  *)
(* critical_concurrency/rendezvous.c: two threads that each change one     *)
(* text and print the other's, with a semaphore for each.                  *)
(***************************************************************************)
EXTENDS Naturals, Sequences, SequencesExt

CONSTANTS lst,           \* the list reduced (by addition, with base case 0)
          num_threads,
          quoteLen       \* characters of a quote

ASSUME ThreadLabsAssumption ==
    lst \in Seq(Nat) /\ num_threads \in Nat \ {0} /\ quoteLen \in Nat

VARIABLES thread_part,     \* the shared counter
          prPc, tp,        \* tp[t]: the part thread t took
          partial,         \* partial[t]: what thread t returned
          retval           \* <<result>> once par_reduce has returned

prVars == <<thread_part, prPc, tp, partial, retval>>

PrThreads == 1..num_threads

ParReduceInit ==
    /\ thread_part = 0
    /\ prPc = [t \in PrThreads |-> "read"]
    /\ tp = [t \in PrThreads |-> 0]
    /\ partial = [t \in PrThreads |-> 0]
    /\ retval = IF Len(lst) <= num_threads THEN <<FoldLeft(+, 0, lst)>> ELSE <<>>

(* thread_part++ : a read and, later, a write of the value read plus one. *)
ReadPart(t) ==
    /\ retval = <<>> /\ prPc[t] = "read"
    /\ tp' = [tp EXCEPT ![t] = thread_part]
    /\ prPc' = [prPc EXCEPT ![t] = "write"]
    /\ UNCHANGED <<thread_part, partial, retval>>

WritePart(t) ==
    /\ prPc[t] = "write"
    /\ thread_part' = tp[t] + 1
    /\ prPc' = [prPc EXCEPT ![t] = "reduce"]
    /\ UNCHANGED <<tp, partial, retval>>

Skip == Len(lst) \div num_threads
SliceLenAll(p) == Skip    \* mutant: the last part does not take the rest
SliceLen(p) == IF p = num_threads - 1 THEN Len(lst) - Skip * (num_threads - 1) ELSE Skip

ReducePart(t) ==
    /\ prPc[t] = "reduce"
    /\ LET from == tp[t] * Skip IN
       partial' = [partial EXCEPT ![t] = FoldLeft(+, 0, SubSeq(lst, from + 1, from + SliceLen(tp[t])))]
    /\ prPc' = [prPc EXCEPT ![t] = "done"]
    /\ UNCHANGED <<thread_part, tp, retval>>

JoinAndReduce ==
    /\ retval = <<>>
    /\ \A t \in PrThreads : prPc[t] = "done"
    /\ retval' = <<FoldLeft(+, 0, partial)>>
    /\ UNCHANGED <<thread_part, prPc, tp, partial>>

ParReduceNext ==
    JoinAndReduce \/ \E t \in PrThreads : ReadPart(t) \/ WritePart(t) \/ ReducePart(t)

ParReduceSpec == ParReduceInit /\ [][ParReduceNext]_prVars

-----------------------------------------------------------------------------
VARIABLES quote,      \* quote[x]: characters of the text already changed
          sem,        \* sem[x]: the semaphore posted when text x is changed
          rvPc,       \* rvPc[x]: the thread that changes text x
          printed     \* printed[x]: how much of x was changed when printed

rvVars == <<quote, sem, rvPc, printed>>

Texts2   == {"A", "B"}
Other(x) == IF x = "A" THEN "B" ELSE "A"

RendezvousInit ==
    /\ quote = [x \in Texts2 |-> 0] /\ sem = [x \in Texts2 |-> 0]
    /\ rvPc = [x \in Texts2 |-> "modify"] /\ printed = [x \in Texts2 |-> <<>>]

Modify(x) ==
    /\ rvPc[x] = "modify"
    /\ IF quote[x] < quoteLen THEN quote' = [quote EXCEPT ![x] = @ + 1] /\ UNCHANGED rvPc
       ELSE rvPc' = [rvPc EXCEPT ![x] = "post"] /\ UNCHANGED quote
    /\ UNCHANGED <<sem, printed>>

SemPost(x) ==
    /\ rvPc[x] = "post"
    /\ sem' = [sem EXCEPT ![x] = @ + 1]
    /\ rvPc' = [rvPc EXCEPT ![x] = "wait"]
    /\ UNCHANGED <<quote, printed>>

WaitForOwn(x) ==    \* mutant: the thread waits for its own text
    /\ rvPc[x] = "wait" /\ sem[x] > 0
    /\ sem' = [sem EXCEPT ![x] = @ - 1]
    /\ printed' = [printed EXCEPT ![Other(x)] = <<quote[Other(x)]>>]
    /\ rvPc' = [rvPc EXCEPT ![x] = "done"]
    /\ UNCHANGED quote

SemWaitAndPrint(x) ==
    /\ rvPc[x] = "wait" /\ sem[Other(x)] > 0
    /\ sem' = [sem EXCEPT ![Other(x)] = @ - 1]
    /\ printed' = [printed EXCEPT ![Other(x)] = <<quote[Other(x)]>>]
    /\ rvPc' = [rvPc EXCEPT ![x] = "done"]
    /\ UNCHANGED quote

RendezvousNext == \E x \in Texts2 : Modify(x) \/ SemPost(x) \/ SemWaitAndPrint(x)

RendezvousSpec == RendezvousInit /\ [][RendezvousNext]_rvVars

-----------------------------------------------------------------------------
(* Whatever the race on thread_part does, every thread stays inside the    *)
(* list.                                                                   *)
PartsStayInList ==
    \A t \in PrThreads : tp[t] < num_threads
                         /\ tp[t] * Skip + SliceLen(tp[t]) <= Len(lst)

(* par_reduce returns the reduction of the whole list unless the race made *)
(* two threads take the same part.                                         *)
ReducesWholeList ==
    retval # <<>> /\ (Len(lst) <= num_threads \/ \A s, t \in PrThreads : tp[s] = tp[t] => s = t)
        => retval = <<FoldLeft(+, 0, lst)>>

(* Neither thread of the rendezvous prints a text before the other has     *)
(* changed all of it.                                                      *)
PrintsWholeTexts == \A x \in Texts2 : printed[x] \in {<<>>, <<quoteLen>>}

(* Neither program uses memory that its partners are not done with or that *)
(* is not theirs: parts of the list stay in it, texts printed are whole.   *)
ThreadLabsAreSafe == PartsStayInList /\ ReducesWholeList /\ PrintsWholeTexts

ParReduceOver  == retval # <<>>
RendezvousOver == \A x \in Texts2 : rvPc[x] = "done"
=============================================================================

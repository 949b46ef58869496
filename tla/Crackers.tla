----------------------------- MODULE Crackers -------------------------------
(***************************************************************************)
(* password_cracker/: cracker1.c gives each password to one of several     *)
(* workers over a shared queue; cracker2.c has all workers search one      *)
(* password together, between two pthread barriers.                        *)
(*                                                                         *)
(* A task is [space, target]: the candidates are 0 .. space - 1 in the     *)
(* order of incrementString, and target is the one whose hash matches (or  *)
(* no candidate).  The queue, the barriers and getSubrange are libraries.  *)
(***************************************************************************)
EXTENDS Naturals, Sequences, FiniteSets, Functions

CONSTANTS Workers,       \* 1 .. thread_count
          Tasks          \* the lines of the input, a sequence of tasks

ASSUME CrackersAssumption ==
    /\ Cardinality(Workers) \in Nat \ {0}
    /\ Workers = 1..Cardinality(Workers)
    /\ Tasks \in Seq([space : Nat \ {0}, target : Nat])

Pill == [space |-> 0, target |-> 0]      \* the NULL task
Crackable(t) == t.target < t.space

-----------------------------------------------------------------------------
(* cracker1.c *)
VARIABLES work,            \* the queue
          c1Main,          \* main: the line it reads next, then whom it joins
          c1Pc, c1Task,    \* c1Task[w]: what worker w cracks, c1Raw[w]: candidate
          c1Raw, success, fail,
          num_success, num_fail

c1Vars == <<work, c1Main, c1Pc, c1Task, c1Raw, success, fail, num_success, num_fail>>

Cracker1Init ==
    /\ work = <<>>
    /\ c1Main = [at |-> "read", k |-> 1]
    /\ c1Pc = [w \in Workers |-> "pull"]
    /\ c1Task = [w \in Workers |-> Pill]
    /\ c1Raw = [w \in Workers |-> 0]
    /\ success = [w \in Workers |-> 0] /\ fail = [w \in Workers |-> 0]
    /\ num_success = 0 /\ num_fail = 0

queue_pull(w) ==
    /\ c1Pc[w] = "pull"
    /\ work # <<>>
    /\ work' = Tail(work)
    /\ c1Task' = [c1Task EXCEPT ![w] = Head(work)]
    /\ c1Raw' = [c1Raw EXCEPT ![w] = 0]
    /\ c1Pc' = [c1Pc EXCEPT ![w] = IF Head(work) = Pill THEN "hand on" ELSE "hash"]
    /\ UNCHANGED <<c1Main, success, fail, num_success, num_fail>>

(* One candidate: a match, the last one, or on to the next. *)
HashStopsBeforeLast(w) ==    \* mutant
    LET t == c1Task[w] IN
    /\ c1Pc[w] = "hash"
    /\ \/ /\ c1Raw[w] = t.target
          /\ success' = [success EXCEPT ![w] = @ + 1]
          /\ c1Pc' = [c1Pc EXCEPT ![w] = "pull"] /\ UNCHANGED <<c1Raw, fail>>
       \/ /\ c1Raw[w] # t.target /\ c1Raw[w] + 1 >= t.space - 1
          /\ fail' = [fail EXCEPT ![w] = @ + 1]
          /\ c1Pc' = [c1Pc EXCEPT ![w] = "pull"] /\ UNCHANGED <<c1Raw, success>>
       \/ /\ c1Raw[w] # t.target /\ c1Raw[w] + 1 < t.space - 1
          /\ c1Raw' = [c1Raw EXCEPT ![w] = @ + 1] /\ UNCHANGED <<c1Pc, success, fail>>
    /\ UNCHANGED <<work, c1Main, c1Task, num_success, num_fail>>

Hash(w) ==
    LET t == c1Task[w] IN
    /\ c1Pc[w] = "hash"
    /\ \/ /\ c1Raw[w] = t.target
          /\ success' = [success EXCEPT ![w] = @ + 1]
          /\ c1Pc' = [c1Pc EXCEPT ![w] = "pull"] /\ UNCHANGED <<c1Raw, fail>>
       \/ /\ c1Raw[w] # t.target /\ c1Raw[w] = t.space - 1
          /\ fail' = [fail EXCEPT ![w] = @ + 1]
          /\ c1Pc' = [c1Pc EXCEPT ![w] = "pull"] /\ UNCHANGED <<c1Raw, success>>
       \/ /\ c1Raw[w] # t.target /\ c1Raw[w] # t.space - 1
          /\ c1Raw' = [c1Raw EXCEPT ![w] = @ + 1] /\ UNCHANGED <<c1Pc, success, fail>>
    /\ UNCHANGED <<work, c1Main, c1Task, num_success, num_fail>>

SwallowPill(w) ==    \* mutant: the pill is not handed on
    /\ c1Pc[w] = "hand on"
    /\ c1Pc' = [c1Pc EXCEPT ![w] = "exit"]
    /\ UNCHANGED <<work, c1Main, c1Task, c1Raw, success, fail, num_success, num_fail>>

HandPillOn(w) ==
    /\ c1Pc[w] = "hand on"
    /\ work' = Append(work, Pill)
    /\ c1Pc' = [c1Pc EXCEPT ![w] = "exit"]
    /\ UNCHANGED <<c1Main, c1Task, c1Raw, success, fail, num_success, num_fail>>

ReadTasks ==
    /\ c1Main.at = "read"
    /\ IF c1Main.k <= Len(Tasks)
       THEN /\ work' = Append(work, Tasks[c1Main.k])
            /\ c1Main' = [c1Main EXCEPT !.k = @ + 1]
       ELSE /\ work' = Append(work, Pill)
            /\ c1Main' = [at |-> "join", k |-> 1]
    /\ UNCHANGED <<c1Pc, c1Task, c1Raw, success, fail, num_success, num_fail>>

JoinWorkers ==
    /\ c1Main.at = "join"
    /\ c1Pc[c1Main.k] = "exit"
    /\ num_success' = num_success + success[c1Main.k]
    /\ num_fail' = num_fail + fail[c1Main.k]
    /\ c1Main' = IF c1Main.k = Cardinality(Workers) THEN [at |-> "done", k |-> 0]
                 ELSE [c1Main EXCEPT !.k = @ + 1]
    /\ UNCHANGED <<work, c1Pc, c1Task, c1Raw, success, fail>>

Cracker1Next ==
    \/ ReadTasks \/ JoinWorkers
    \/ \E w \in Workers : queue_pull(w) \/ Hash(w) \/ HandPillOn(w)

Cracker1Spec == Cracker1Init /\ [][Cracker1Next]_c1Vars

(* The summary counts every line of the input once, cracked or not, with   *)
(* any distribution of the tasks over the workers, and queue_destroy finds *)
(* only the pill: no task is left behind it.                               *)
SummaryIsExact ==
    c1Main.at = "done" =>
        /\ num_success = Cardinality({k \in DOMAIN Tasks : Crackable(Tasks[k])})
        /\ num_fail = Len(Tasks) - num_success
        /\ work = <<Pill>>

-----------------------------------------------------------------------------
(* cracker2.c *)
VARIABLES c2Main, c2Line,      \* main: where it is, and the line it is at
          c2Pc, c2I,           \* worker: where it is, loop counter
          start_index, hash_count, find, stop, password,
          atBarrier1, atBarrier2,    \* who waits; 0 is main
          summary              \* per line: found and the hashes counted

c2Vars == <<c2Main, c2Line, c2Pc, c2I, start_index, hash_count, find, stop, password,
            atBarrier1, atBarrier2, summary>>

NoPassword == <<>>

Cracker2Init ==
    /\ c2Main = "line" /\ c2Line = 1
    /\ c2Pc = [w \in Workers |-> "to barrier1"]
    /\ c2I = [w \in Workers |-> 0]
    /\ start_index = [w \in Workers |-> 0] /\ hash_count = [w \in Workers |-> 0]
    /\ find = FALSE /\ stop = FALSE /\ password = NoPassword
    /\ atBarrier1 = {} /\ atBarrier2 = {}
    /\ summary = <<>>

thread_count == Cardinality(Workers)

(* getSubrange: equal parts, the last one takes the rest. *)
PartStart(space, w) == (w - 1) * (space \div thread_count)
PartCount(space, w) == IF w = thread_count THEN space - PartStart(space, w)
                       ELSE space \div thread_count

SetUpRound ==
    /\ c2Main = "line"
    /\ \/ /\ c2Line <= Len(Tasks)
          /\ start_index' = [w \in Workers |-> PartStart(Tasks[c2Line].space, w)]
          /\ hash_count' = [w \in Workers |-> 0]
          /\ find' = FALSE
          /\ password' = NoPassword
          /\ c2Main' = "to barrier1"
          /\ UNCHANGED stop
       \/ /\ c2Line > Len(Tasks)
          /\ stop' = TRUE
          /\ c2Main' = "to barrier1"
          /\ UNCHANGED <<start_index, hash_count, find, password>>
    /\ UNCHANGED <<c2Line, c2Pc, c2I, atBarrier1, atBarrier2, summary>>

(* Arriving at barrier1; the last to arrive lets everyone go. *)
Everyone == Workers \cup {0}

MainBarrier1 ==
    /\ c2Main = "to barrier1"
    /\ IF atBarrier1 \cup {0} = Everyone
       THEN /\ atBarrier1' = {}
            /\ c2Pc' = [w \in Workers |-> "released"]
            /\ c2Main' = IF stop THEN "join" ELSE "to barrier2"
       ELSE /\ atBarrier1' = atBarrier1 \cup {0}
            /\ c2Main' = "in barrier1" /\ UNCHANGED c2Pc
    /\ UNCHANGED <<c2Line, c2I, start_index, hash_count, find, stop, password, atBarrier2, summary>>

WorkerBarrier1(w) ==
    /\ c2Pc[w] = "to barrier1"
    /\ IF atBarrier1 \cup {w} = Everyone
       THEN /\ atBarrier1' = {}
            /\ c2Pc' = [v \in Workers |-> "released"]
            /\ c2Main' = IF stop THEN "join" ELSE "to barrier2"
       ELSE /\ atBarrier1' = atBarrier1 \cup {w}
            /\ c2Pc' = [c2Pc EXCEPT ![w] = "in barrier1"] /\ UNCHANGED c2Main
    /\ UNCHANGED <<c2Line, c2I, start_index, hash_count, find, stop, password, atBarrier2, summary>>

CheckStop(w) ==
    /\ c2Pc[w] = "released"
    /\ c2Pc' = [c2Pc EXCEPT ![w] = IF stop THEN "exit" ELSE "search"]
    /\ c2I' = [c2I EXCEPT ![w] = 0]
    /\ UNCHANGED <<c2Main, c2Line, start_index, hash_count, find, stop, password,
                   atBarrier1, atBarrier2, summary>>

(* The top of the loop: find is read under the mutex. *)
LookAtFind(w) ==
    /\ c2Pc[w] = "search"
    /\ c2Pc' = [c2Pc EXCEPT ![w] = IF c2I[w] = PartCount(Tasks[c2Line].space, w) \/ find
                                   THEN "to barrier2" ELSE "hash"]
    /\ UNCHANGED <<c2Main, c2Line, c2I, start_index, hash_count, find, stop, password,
                   atBarrier1, atBarrier2, summary>>

Candidate(w) == start_index[w] + c2I[w]

Crypt(w) ==
    /\ c2Pc[w] = "hash"
    /\ hash_count' = [hash_count EXCEPT ![w] = @ + 1]
    /\ IF Candidate(w) = Tasks[c2Line].target
       THEN c2Pc' = [c2Pc EXCEPT ![w] = "found"] /\ UNCHANGED c2I
       ELSE c2Pc' = [c2Pc EXCEPT ![w] = "search"] /\ c2I' = [c2I EXCEPT ![w] = @ + 1]
    /\ UNCHANGED <<c2Main, c2Line, start_index, find, stop, password, atBarrier1, atBarrier2, summary>>

SetFind(w) ==
    /\ c2Pc[w] = "found"
    /\ find' = TRUE
    /\ password' = <<Candidate(w)>>
    /\ c2Pc' = [c2Pc EXCEPT ![w] = "to barrier2"]
    /\ UNCHANGED <<c2Main, c2Line, c2I, start_index, hash_count, stop, atBarrier1, atBarrier2, summary>>

WorkerBarrier2(w) ==
    /\ c2Pc[w] = "to barrier2"
    /\ IF atBarrier2 \cup {w} = Everyone
       THEN /\ atBarrier2' = {}
            /\ c2Pc' = [v \in Workers |-> "to barrier1"]
            /\ c2Main' = "summary"
       ELSE /\ atBarrier2' = atBarrier2 \cup {w}
            /\ c2Pc' = [c2Pc EXCEPT ![w] = "in barrier2"] /\ UNCHANGED c2Main
    /\ UNCHANGED <<c2Line, c2I, start_index, hash_count, find, stop, password, atBarrier1, summary>>

MainSkipsBarrier2 ==    \* mutant: the summary is not kept behind barrier2
    /\ c2Main = "to barrier2"
    /\ c2Main' = "summary"
    /\ UNCHANGED <<c2Line, c2Pc, c2I, start_index, hash_count, find, stop, password,
                   atBarrier1, atBarrier2, summary>>

MainBarrier2 ==
    /\ c2Main = "to barrier2"
    /\ IF atBarrier2 \cup {0} = Everyone
       THEN /\ atBarrier2' = {}
            /\ c2Pc' = [w \in Workers |-> "to barrier1"]
            /\ c2Main' = "summary"
       ELSE /\ atBarrier2' = atBarrier2 \cup {0}
            /\ c2Main' = "in barrier2" /\ UNCHANGED c2Pc
    /\ UNCHANGED <<c2Line, c2I, start_index, hash_count, find, stop, password, atBarrier1, summary>>

(* find and the hash counts are read without the mutex. *)
Summarise ==
    /\ c2Main = "summary"
    /\ summary' = Append(summary, [found |-> find, password |-> password,
                                   hashes |-> SumFunction(hash_count)])
    /\ c2Line' = c2Line + 1
    /\ c2Main' = "line"
    /\ UNCHANGED <<c2Pc, c2I, start_index, hash_count, find, stop, password, atBarrier1, atBarrier2>>

JoinAll ==
    /\ c2Main = "join"
    /\ \A w \in Workers : c2Pc[w] = "exit"
    /\ c2Main' = "done"
    /\ UNCHANGED <<c2Line, c2Pc, c2I, start_index, hash_count, find, stop, password,
                   atBarrier1, atBarrier2, summary>>

Cracker2Next ==
    \/ SetUpRound \/ MainBarrier1 \/ MainBarrier2 \/ Summarise \/ JoinAll
    \/ \E w \in Workers : WorkerBarrier1(w) \/ CheckStop(w) \/ LookAtFind(w) \/ Crypt(w)
                          \/ SetFind(w) \/ WorkerBarrier2(w)

Cracker2Spec == Cracker2Init /\ [][Cracker2Next]_c2Vars

(* Each round's summary belongs to its own password although it is read    *)
(* without the mutex: found exactly if a candidate matches, with that      *)
(* candidate as the password; and while main sets up or sums up a round no *)
(* worker is between the barriers.                                         *)
RoundsBelong ==
    /\ \A k \in DOMAIN summary :
          IF Crackable(Tasks[k])
          THEN summary[k].found /\ summary[k].password = <<Tasks[k].target>>
          ELSE ~summary[k].found
    /\ c2Main \in {"line", "summary"} =>
          \A w \in Workers : c2Pc[w] \in {"to barrier1", "in barrier1"}

(* Every candidate is hashed if none matches, and none twice.              *)
HashesAreExact ==
    \A k \in DOMAIN summary :
        IF Crackable(Tasks[k]) THEN summary[k].hashes \in 1..Tasks[k].space
        ELSE summary[k].hashes = Tasks[k].space

(* The summaries of both crackers are exact, whichever worker gets which   *)
(* task or part and however the workers interleave with main.              *)
CrackersAreExact == SummaryIsExact /\ RoundsBelong /\ HashesAreExact

Cracker1Over == c1Main.at = "done"
Cracker2Over == c2Main = "done"
=============================================================================

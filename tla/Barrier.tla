------------------------------ MODULE Barrier ------------------------------
(***************************************************************************)
(* The reusable barrier of critical_concurrency/barrier.c.  One counter    *)
(* serves two phases: it falls from n_threads to 0 while threads arrive,   *)
(* is set to 2 * n_threads - 1 by the last one and falls back to n_threads *)
(* while they leave; above n_threads nobody may arrive.                    *)
(*                                                                         *)
(* An action is what a thread does while it holds the mutex.  The          *)
(* broadcast and the read of times_used come after the unlock, so each is  *)
(* an action of its own.                                                   *)
(***************************************************************************)
EXTENDS Integers, FiniteSets

CONSTANTS Threads,    \* the threads that share the barrier
          n_threads,  \* argument of barrier_init
          Rounds      \* how often each thread calls barrier_wait

ASSUME ThreadsAssumption == IsFiniteSet(Threads)
ASSUME PartyAssumption   == n_threads = Cardinality(Threads) /\ n_threads > 0
ASSUME RoundsAssumption  == Rounds \in Nat

VARIABLES count,       \* barrier->count
          times_used,  \* barrier->times_used
          pc,          \* where each thread is in barrier_wait
          waiting,     \* threads blocked in pthread_cond_wait
          arrived,     \* history: how often each thread has arrived ...
          passed,      \* ... and passed
          result       \* what the last barrier_wait of each thread returned

vars == <<count, times_used, pc, waiting, arrived, passed, result>>

(* "entry": in the first loop; "inner": arrived, in the second loop;       *)
(* "unlocked": past the unlock; "reading": past the broadcast.             *)
Places == {"out", "entry", "inner", "unlocked", "reading"}

TypeOK ==
    /\ count \in 1 .. 2 * n_threads - 1
    /\ times_used \in Nat
    /\ pc \in [Threads -> Places]
    /\ waiting \subseteq {t \in Threads : pc[t] \in {"entry", "inner"}}
    /\ arrived \in [Threads -> Nat]
    /\ passed \in [Threads -> Nat]
    /\ result \in [Threads -> Nat]

-----------------------------------------------------------------------------
(* barrier_init *)
Init ==
    /\ count = n_threads
    /\ times_used = 0
    /\ pc = [t \in Threads |-> "out"]
    /\ waiting = {}
    /\ arrived = [t \in Threads |-> 0]
    /\ passed = [t \in Threads |-> 0]
    /\ result = [t \in Threads |-> 0]

Goto(t, place) == pc' = [pc EXCEPT ![t] = place]

HoldsMutex(t, place) == pc[t] = place /\ t \notin waiting

(* A thread calls barrier_wait. *)
Call(t) ==
    /\ pc[t] = "out"
    /\ passed[t] < Rounds
    /\ Goto(t, "entry")
    /\ UNCHANGED <<count, times_used, waiting, arrived, passed, result>>

Block(t) ==
    /\ waiting' = waiting \union {t}
    /\ UNCHANGED <<count, times_used, pc, arrived, passed, result>>

(* First loop: the threads of the previous round are still leaving. *)
EntryBlock(t) == HoldsMutex(t, "entry") /\ count > n_threads /\ Block(t)

(* Mutant: the first loop is missing. *)
ArriveAnyTime(t) ==
    /\ HoldsMutex(t, "entry")
    /\ count # 1
    /\ count' = count - 1
    /\ Goto(t, "inner")
    /\ waiting' = waiting \union {t}
    /\ arrived' = [arrived EXCEPT ![t] = @ + 1]
    /\ UNCHANGED <<times_used, passed, result>>

(* Not the last to arrive: count is now below n_threads, so it blocks. *)
Arrive(t) ==
    /\ HoldsMutex(t, "entry")
    /\ count <= n_threads
    /\ count # 1
    /\ count' = count - 1
    /\ Goto(t, "inner")
    /\ waiting' = waiting \union {t}
    /\ arrived' = [arrived EXCEPT ![t] = @ + 1]
    /\ UNCHANGED <<times_used, passed, result>>

(* Mutant: times_used is not incremented. *)
ArriveLastUncounted(t) ==
    /\ HoldsMutex(t, "entry")
    /\ count = 1
    /\ count' = 2 * n_threads - 1
    /\ Goto(t, "unlocked")
    /\ arrived' = [arrived EXCEPT ![t] = @ + 1]
    /\ passed' = [passed EXCEPT ![t] = @ + 1]
    /\ UNCHANGED <<times_used, waiting, result>>

(* The last to arrive starts the leaving phase. *)
ArriveLast(t) ==
    /\ HoldsMutex(t, "entry")
    /\ count = 1
    /\ count' = 2 * n_threads - 1
    /\ times_used' = times_used + 1
    /\ Goto(t, "unlocked")
    /\ arrived' = [arrived EXCEPT ![t] = @ + 1]
    /\ passed' = [passed EXCEPT ![t] = @ + 1]
    /\ UNCHANGED <<waiting, result>>

(* Second loop, woken too early. *)
InnerBlock(t) == HoldsMutex(t, "inner") /\ count < n_threads /\ Block(t)

(* Mutant: the second wait is guarded by `if'. *)
LeaveUnchecked(t) ==
    /\ HoldsMutex(t, "inner")
    /\ count' = count - 1
    /\ Goto(t, "unlocked")
    /\ passed' = [passed EXCEPT ![t] = @ + 1]
    /\ UNCHANGED <<times_used, waiting, arrived, result>>

(* Past the second loop: one fewer thread has to leave. *)
Leave(t) ==
    /\ HoldsMutex(t, "inner")
    /\ count >= n_threads
    /\ count' = count - 1
    /\ Goto(t, "unlocked")
    /\ passed' = [passed EXCEPT ![t] = @ + 1]
    /\ UNCHANGED <<times_used, waiting, arrived, result>>

(* Mutant: one waiter is signalled. *)
SignalOne(t) ==
    /\ pc[t] = "unlocked"
    /\ IF waiting = {} THEN UNCHANGED waiting
                       ELSE \E w \in waiting : waiting' = waiting \ {w}
    /\ Goto(t, "reading")
    /\ UNCHANGED <<count, times_used, arrived, passed, result>>

(* pthread_cond_broadcast, without the mutex. *)
Broadcast(t) ==
    /\ pc[t] = "unlocked"
    /\ waiting' = {}
    /\ Goto(t, "reading")
    /\ UNCHANGED <<count, times_used, arrived, passed, result>>

(* return barrier->times_used, without the mutex. *)
ReturnTimesUsed(t) ==
    /\ pc[t] = "reading"
    /\ result' = [result EXCEPT ![t] = times_used]
    /\ Goto(t, "out")
    /\ UNCHANGED <<count, times_used, waiting, arrived, passed>>

SpuriousWakeup(t) ==
    /\ t \in waiting
    /\ waiting' = waiting \ {t}
    /\ UNCHANGED <<count, times_used, pc, arrived, passed, result>>

Step(t) ==
    \/ Call(t)
    \/ EntryBlock(t)
    \/ Arrive(t)
    \/ ArriveLast(t)
    \/ InnerBlock(t)
    \/ Leave(t)
    \/ Broadcast(t)
    \/ ReturnTimesUsed(t)

AllDone == \A t \in Threads : passed[t] = Rounds /\ pc[t] = "out"

(* The threads have been joined; barrier_destroy frees no modelled state. *)
Joined == AllDone /\ UNCHANGED vars

Next ==
    \/ \E t \in Threads : Step(t) \/ SpuriousWakeup(t)
    \/ Joined

Spec == Init /\ [][Next]_vars

(* A thread that can run is eventually scheduled. *)
FairSpec == Spec /\ \A t \in Threads : WF_vars(Step(t))

-----------------------------------------------------------------------------
(***************************************************************************)
(* The mutex is released before the broadcast.  A thread asleep although   *)
(* its loop condition is false is a thread whose waker has unlocked and    *)
(* has still to broadcast: no wakeup is lost in that window.               *)
(***************************************************************************)
SleeperHasReason ==
    \A t \in waiting :
        \/ pc[t] = "entry" /\ count > n_threads
        \/ pc[t] = "inner" /\ count < n_threads
        \/ \E u \in Threads : pc[u] = "unlocked"

(***************************************************************************)
(* Nobody passes round k before everybody has arrived at round k, although *)
(* a fast thread may call barrier_wait again while others still leave.     *)
(***************************************************************************)
NobodyPassesEarly == \A t, u \in Threads : passed[t] <= arrived[u]

(***************************************************************************)
(* times_used is read after the unlock; still every thread of a round gets *)
(* that round's number: nobody can finish the next round meanwhile.        *)
(***************************************************************************)
ReturnsRound ==
    \A t \in Threads : pc[t] = "out" => result[t] = passed[t]

(* The barrier implements RoundBarrier. *)
Rendezvous == INSTANCE RoundBarrier WITH Party <- Threads,
                                         arrivals <- arrived,
                                         passes <- passed

(* Every behaviour of the threads is one of the abstract barrier. *)
ImplementsBarrier == Rendezvous!RBSpec

(* Every thread gets through all its rounds. *)
AllRoundsComplete == <>AllDone

=============================================================================

------------------------------ MODULE Semamore ------------------------------
(***************************************************************************)
(* The semaphore with an upper bound of critical_concurrency/semamore.c,   *)
(* used by threads that each run a fixed list of semm_post and semm_wait   *)
(* calls, as the threads of semamore_tests.c do.                           *)
(*                                                                         *)
(* A post blocks while value is max_val and a wait blocks while it is 0,   *)
(* both on the same condition variable.  Only semm_post signals, and a     *)
(* signal wakes one thread, whichever it is waiting for.                   *)
(***************************************************************************)
EXTENDS Integers, Sequences, FiniteSets

CONSTANTS Semamores,  \* the semaphores
          Threads,    \* the threads
          Script,     \* what each thread calls, in order: <<"post" | "wait", s>>
          initial,    \* `value' given to semm_init, for each semaphore
          max_val     \* `max_val' given to semm_init, for each semaphore

ASSUME ThreadsAssumption == IsFiniteSet(Threads)
ASSUME ScriptAssumption  == Script \in [Threads -> Seq({"post", "wait"} \X Semamores)]
ASSUME MaxValAssumption  == max_val \in [Semamores -> Nat]
ASSUME InitialAssumption == /\ initial \in [Semamores -> Nat]
                            /\ \A s \in Semamores : initial[s] <= max_val[s]

VARIABLES value,    \* s->value
          at,       \* index in its script of each thread's next or current call
          inside,   \* threads inside semm_post or semm_wait
          waiting   \* threads blocked in pthread_cond_wait(&s->cv)

vars == <<value, at, inside, waiting>>

Finished(t) == at[t] > Len(Script[t])
Op(t)       == Script[t][at[t]][1]
Sem(t)      == Script[t][at[t]][2]

(* The value stays between 0 and max_val although several threads may be   *)
(* woken, or woken for nothing, for one unit.                              *)
TypeOK ==
    /\ value \in [Semamores -> Nat]
    /\ \A s \in Semamores : value[s] <= max_val[s]
    /\ at \in [Threads -> Nat \ {0}]
    /\ waiting \subseteq inside
    /\ inside \subseteq {t \in Threads : ~Finished(t)}

-----------------------------------------------------------------------------
(* semm_init *)
Init ==
    /\ value = initial
    /\ at = [t \in Threads |-> 1]
    /\ inside = {}
    /\ waiting = {}

Call(t) ==
    /\ ~Finished(t)
    /\ t \notin inside
    /\ inside' = inside \union {t}
    /\ UNCHANGED <<value, at, waiting>>

HoldsMutex(t, op) == t \in inside /\ t \notin waiting /\ Op(t) = op

Block(t) ==
    /\ waiting' = waiting \union {t}
    /\ UNCHANGED <<value, at, inside>>

Return(t) ==
    /\ inside' = inside \ {t}
    /\ at' = [at EXCEPT ![t] = @ + 1]

(* semm_wait: while (s->value == 0) pthread_cond_wait *)
WaitBlock(t) == HoldsMutex(t, "wait") /\ value[Sem(t)] = 0 /\ Block(t)

(* Mutant: the wait is guarded by `if'. *)
WaitUnchecked(t) ==
    /\ HoldsMutex(t, "wait")
    /\ value' = [value EXCEPT ![Sem(t)] = @ - 1]
    /\ Return(t)
    /\ UNCHANGED waiting

(* semm_wait: s->value--, and no signal *)
Wait(t) ==
    /\ HoldsMutex(t, "wait")
    /\ value[Sem(t)] # 0
    /\ value' = [value EXCEPT ![Sem(t)] = @ - 1]
    /\ Return(t)
    /\ UNCHANGED waiting

(* semm_post: while (s->value == s->max_val) pthread_cond_wait *)
PostBlock(t) ==
    HoldsMutex(t, "post") /\ value[Sem(t)] = max_val[Sem(t)] /\ Block(t)

Sleepers(s) == {w \in waiting : Sem(w) = s}

(* pthread_cond_signal wakes one sleeper, if there is one. *)
Signal(s) ==
    IF Sleepers(s) = {} THEN UNCHANGED waiting
                        ELSE \E w \in Sleepers(s) : waiting' = waiting \ {w}

(* Mutant: the post signals only when it makes the value positive. *)
PostSignalsAtOne(t) ==
    /\ HoldsMutex(t, "post")
    /\ value[Sem(t)] # max_val[Sem(t)]
    /\ value' = [value EXCEPT ![Sem(t)] = @ + 1]
    /\ IF value'[Sem(t)] = 1 THEN Signal(Sem(t)) ELSE UNCHANGED waiting
    /\ Return(t)

(* semm_post: s->value++ and pthread_cond_signal *)
Post(t) ==
    /\ HoldsMutex(t, "post")
    /\ value[Sem(t)] # max_val[Sem(t)]
    /\ value' = [value EXCEPT ![Sem(t)] = @ + 1]
    /\ Signal(Sem(t))
    /\ Return(t)

SpuriousWakeup(t) ==
    /\ t \in waiting
    /\ waiting' = waiting \ {t}
    /\ UNCHANGED <<value, at, inside>>

Step(t) == Call(t) \/ WaitBlock(t) \/ Wait(t) \/ PostBlock(t) \/ Post(t)

(* The threads are joined; semm_destroy frees no modelled state. *)
Joined == (\A t \in Threads : Finished(t)) /\ UNCHANGED vars

Next ==
    \/ \E t \in Threads : Step(t) \/ SpuriousWakeup(t)
    \/ Joined

Spec == Init /\ [][Next]_vars

(* A thread that can run is eventually scheduled; no spurious wakeup is due. *)
FairSpec == Spec /\ \A t \in Threads : WF_vars(Step(t))

-----------------------------------------------------------------------------
(***************************************************************************)
(* As long as no post can find the semaphore full, one signal per post is  *)
(* enough: when somebody sleeps in semm_wait while there are units to      *)
(* take, at least as many other waiters are awake to take them.  (A post   *)
(* that sleeps on a full semaphore can take the signal meant for a wait.)  *)
(***************************************************************************)
Posts(s) == UNION {{<<t, i>> : i \in {k \in DOMAIN Script[t] :
                                        Script[t][k] = <<"post", s>>}} : t \in Threads}
Ample(s) == initial[s] + Cardinality(Posts(s)) <= max_val[s]

AwakeFor(s) == {t \in inside \ waiting : Op(t) = "wait" /\ Sem(t) = s}

UnitsAreClaimed ==
    \A s \in Semamores :
        Ample(s) /\ (\E t \in Sleepers(s) : Op(t) = "wait") =>
            value[s] <= Cardinality(AwakeFor(s))

(***************************************************************************)
(* semm_wait "Should block when the value ... is at 0.  Otherwise, should  *)
(* decrement the value": no call stays blocked for ever while the value    *)
(* stays positive.                                                         *)
(***************************************************************************)
WaitIsNotStuck ==
    \A t \in Threads :
        ~<>[](t \in inside /\ Op(t) = "wait" /\ value[Sem(t)] # 0)

(***************************************************************************)
(* semm_post "Should block when the value ... is at max_value.  Otherwise, *)
(* should increment the value": no call stays blocked for ever while the   *)
(* value stays below max_val.                                              *)
(***************************************************************************)
PostIsNotStuck ==
    \A t \in Threads :
        ~<>[](t \in inside /\ Op(t) = "post" /\ value[Sem(t)] # max_val[Sem(t)])

(* The value of a semaphore stays between 0 and max_val although several   *)
(* threads may be woken, or woken for nothing, for one unit, and no unit   *)
(* waits for a thread that sleeps.                                         *)
SemamoreIsSound ==
    /\ \A s \in Semamores : value[s] \in 0 .. max_val[s]
    /\ UnitsAreClaimed

=============================================================================

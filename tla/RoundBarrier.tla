---------------------------- MODULE RoundBarrier ----------------------------
(***************************************************************************)
(* What a reusable barrier promises a fixed set of threads: nobody passes  *)
(* it for the k-th time before everybody has arrived for the k-th time.    *)
(***************************************************************************)
EXTENDS Naturals

CONSTANT Party        \* the threads that meet at the barrier

VARIABLES arrivals,   \* how often each thread has arrived
          passes      \* how often each thread has passed

rbVars == <<arrivals, passes>>

RBInit ==
    /\ arrivals = [t \in Party |-> 0]
    /\ passes = [t \in Party |-> 0]

RBArrive(t) ==
    /\ arrivals[t] = passes[t]
    /\ arrivals' = [arrivals EXCEPT ![t] = @ + 1]
    /\ UNCHANGED passes

RBPass(t) ==
    /\ passes[t] < arrivals[t]
    /\ \A u \in Party : passes[t] < arrivals[u]
    /\ passes' = [passes EXCEPT ![t] = @ + 1]
    /\ UNCHANGED arrivals

(* The last to arrive need not stop. *)
RBArriveAndPass(t) ==
    /\ arrivals[t] = passes[t]
    /\ \A u \in Party \ {t} : passes[t] < arrivals[u]
    /\ arrivals' = [arrivals EXCEPT ![t] = @ + 1]
    /\ passes' = [passes EXCEPT ![t] = @ + 1]

RBNext == \E t \in Party : RBArrive(t) \/ RBPass(t) \/ RBArriveAndPass(t)

RBSpec == RBInit /\ [][RBNext]_rbVars

=============================================================================

------------------------------- MODULE Queue -------------------------------
(***************************************************************************)
(* The thread-safe queue of critical_concurrency/queue.c: a linked list    *)
(* guarded by one mutex and ONE condition variable that both a blocked     *)
(* pusher and a blocked puller wait on.                                    *)
(*                                                                         *)
(* Every access to the structure happens between lock and unlock, so one   *)
(* action stands for what a thread does from acquiring the mutex until it  *)
(* releases it, at the unlock or inside pthread_cond_wait.  A thread that  *)
(* is woken has to acquire the mutex again and evaluates its loop          *)
(* condition again, as the `while' of the code does.                       *)
(*                                                                         *)
(* The callers are the ones of queue_tests.c and of the programs that use  *)
(* such a queue: each producer pushes, and each consumer pulls, a given    *)
(* number of times.                                                        *)
(***************************************************************************)
EXTENDS Integers, Sequences

CONSTANTS Producers,  \* threads that call queue_push
          Consumers,  \* threads that call queue_pull
          max_size,   \* argument of queue_create; not positive = no limit
          Calls       \* how many calls each thread makes

Threads == Producers \union Consumers

ASSUME DisjointAssumption == Producers \intersect Consumers = {}
ASSUME MaxSizeAssumption  == max_size \in Int
ASSUME CallsAssumption    == Calls \in [Threads -> Nat]

VARIABLES items,    \* the data of the nodes from head to tail
          size,     \* this->size
          waiting,  \* threads blocked in pthread_cond_wait(&this->cv)
          inside,   \* threads that have called an operation and not returned
          left,     \* how many calls each thread has still to make
          pulled,   \* history: what the pulls returned, in order
          alive     \* FALSE once queue_destroy has freed the queue

vars == <<items, size, waiting, inside, left, pulled, alive>>

(* Every push has a datum of its own: who pushes, and how many are left. *)
Item == UNION {{<<p, n>> : n \in 1..Calls[p]} : p \in Producers}

TypeOK ==
    /\ items \in Seq(Item)
    /\ size \in Int
    /\ waiting \subseteq inside
    /\ inside \subseteq Threads
    /\ left \in [Threads -> Nat]
    /\ \A t \in Threads : left[t] <= Calls[t]
    /\ pulled \in Seq(Item)
    /\ alive \in BOOLEAN

-----------------------------------------------------------------------------
(* queue_create *)
Init ==
    /\ items = <<>>
    /\ size = 0
    /\ waiting = {}
    /\ inside = {}
    /\ left = Calls
    /\ pulled = <<>>
    /\ alive = TRUE

Full  == max_size > 0 /\ size = max_size
Empty == size = 0

(* A thread enters queue_push or queue_pull and competes for the mutex. *)
Call(t) ==
    /\ alive
    /\ t \notin inside
    /\ left[t] > 0
    /\ inside' = inside \union {t}
    /\ UNCHANGED <<items, size, waiting, left, pulled, alive>>

(* Holding the mutex: the thread runs, it is not blocked on the cv. *)
Running(t) == t \in inside /\ t \notin waiting

Return(t) ==
    /\ inside' = inside \ {t}
    /\ left' = [left EXCEPT ![t] = @ - 1]

Block(t) ==
    /\ waiting' = waiting \union {t}
    /\ UNCHANGED <<items, size, inside, left, pulled, alive>>

(* queue_push finds the queue full and waits. *)
PushBlock(p) == Running(p) /\ Full /\ Block(p)

(* The new node is linked at the tail and the threads in woken wake up. *)
LinkNode(p, woken) ==
    /\ Running(p)
    /\ items' = Append(items, <<p, left[p]>>)
    /\ size' = size + 1
    /\ waiting' = waiting \ woken
    /\ Return(p)
    /\ UNCHANGED <<pulled, alive>>

(* Mutant: the push signals one waiter instead of broadcasting. *)
PushSignalsOne(p) ==
    /\ ~Full
    /\ \/ waiting = {} /\ LinkNode(p, {})
       \/ \E w \in waiting : LinkNode(p, IF size + 1 = 1 THEN {w} ELSE {})

(* Mutant: the wait is guarded by `if', so a woken push does not look again. *)
PushDoesNotRecheck(p) == LinkNode(p, IF size + 1 = 1 THEN waiting ELSE {})

(* queue_push appends its node; the push that ends emptiness broadcasts. *)
Push(p) ==
    /\ ~Full
    /\ LinkNode(p, IF size + 1 = 1 THEN waiting ELSE {})

(* queue_pull finds the queue empty and waits. *)
PullBlock(c) == Running(c) /\ Empty /\ Block(c)

(* The head is unlinked and returned and the threads in woken wake up. *)
UnlinkHead(c, woken) ==
    /\ Running(c)
    /\ ~Empty
    /\ items' = Tail(items)
    /\ pulled' = Append(pulled, Head(items))
    /\ size' = size - 1
    /\ waiting' = waiting \ woken
    /\ Return(c)
    /\ UNCHANGED alive

(* Mutants: the broadcast is made only at emptiness, or not at all; the     *)
(* node is taken from the wrong end.                                       *)
PullBroadcastsAtEmpty(c) == UnlinkHead(c, IF size - 1 = 0 THEN waiting ELSE {})
PullSilently(c) == UnlinkHead(c, {})
PullNewest(c) ==
    /\ Running(c)
    /\ ~Empty
    /\ items' = SubSeq(items, 1, Len(items) - 1)
    /\ pulled' = Append(pulled, items[Len(items)])
    /\ size' = size - 1
    /\ waiting' = {}
    /\ Return(c)
    /\ UNCHANGED alive

(* queue_pull unlinks the head; the pull that ends fullness broadcasts. *)
Pull(c) ==
    UnlinkHead(c, IF max_size > 0 /\ size - 1 = max_size - 1
                    THEN waiting ELSE {})

(* pthread_cond_wait may return although nobody signalled. *)
SpuriousWakeup(t) ==
    /\ t \in waiting
    /\ waiting' = waiting \ {t}
    /\ UNCHANGED <<items, size, inside, left, pulled, alive>>

Finished == \A t \in Threads : left[t] = 0

(* queue_destroy, called once every thread is joined, frees what is left. *)
Destroy ==
    /\ alive
    /\ Finished
    /\ items' = <<>>
    /\ alive' = FALSE
    /\ UNCHANGED <<size, waiting, inside, left, pulled>>

Destroyed == ~alive /\ UNCHANGED vars

PushStep(p) == PushBlock(p) \/ Push(p)
PullStep(c) == PullBlock(c) \/ Pull(c)

Next ==
    \/ \E t \in Threads : Call(t) \/ SpuriousWakeup(t)
    \/ \E p \in Producers : PushStep(p)
    \/ \E c \in Consumers : PullStep(c)
    \/ Destroy
    \/ Destroyed

Spec == Init /\ [][Next]_vars

(***************************************************************************)
(* Fairness: a thread that can run is eventually scheduled and eventually  *)
(* gets the mutex.  Nothing is assumed about spurious wakeups.             *)
(***************************************************************************)
Fairness ==
    /\ \A t \in Threads : WF_vars(Call(t))
    /\ \A p \in Producers : WF_vars(PushStep(p))
    /\ \A c \in Consumers : WF_vars(PullStep(c))
    /\ WF_vars(Destroy)

FairSpec == Spec /\ Fairness

-----------------------------------------------------------------------------
(***************************************************************************)
(* No lost wakeup.  A pusher and a puller sleep on the same condition      *)
(* variable and only the push that makes size 1 and the pull that leaves   *)
(* max_size - 1 broadcast; still a sleeping pusher means that the queue is *)
(* full at this moment and a sleeping puller that it is empty.             *)
(***************************************************************************)
NoLostWakeup ==
    \A t \in waiting : IF t \in Producers THEN Full ELSE Empty

(***************************************************************************)
(* The counter the loops test agrees with the list they protect, and the   *)
(* limit given to queue_create is kept although several pushers are woken  *)
(* for the one slot that a pull frees.                                     *)
(***************************************************************************)
WithinLimit ==
    alive => /\ size = Len(items)
             /\ max_size > 0 => size <= max_size

(* The queue implements an atomic bounded FIFO (see Fifo). *)
Abstract == INSTANCE Fifo WITH Data <- Item, Capacity <- max_size,
                               content <- items, delivered <- pulled,
                               open <- alive

(* Pushes and pulls by any threads are atomic FIFO operations. *)
ImplementsFifo == Abstract!FifoSpec

(***************************************************************************)
(* When there are as many pulls as pushes every call returns and the queue *)
(* can be destroyed, under mere weak fairness of the threads.              *)
(***************************************************************************)
EveryCallReturns == <>~alive

=============================================================================

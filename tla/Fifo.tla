-------------------------------- MODULE Fifo --------------------------------
(***************************************************************************)
(* What a thread-safe queue promises its callers: enqueue and dequeue are  *)
(* atomic, what is dequeued comes out in the order it went in, once, and   *)
(* a queue with a positive capacity never holds more than that.            *)
(***************************************************************************)
EXTENDS Integers, Sequences

CONSTANTS Data,      \* what may be put in
          Capacity   \* not positive = no limit

VARIABLES content,   \* what is in the queue, oldest first
          delivered, \* everything that was dequeued, in order
          open       \* FALSE once the queue is destroyed

fifoVars == <<content, delivered, open>>

FifoInit == content = <<>> /\ delivered = <<>> /\ open = TRUE

Enqueue ==
    /\ open
    /\ Capacity > 0 => Len(content) < Capacity
    /\ \E d \in Data : content' = Append(content, d)
    /\ UNCHANGED <<delivered, open>>

Dequeue ==
    /\ open
    /\ content # <<>>
    /\ content' = Tail(content)
    /\ delivered' = Append(delivered, Head(content))
    /\ UNCHANGED open

Close ==
    /\ open
    /\ open' = FALSE
    /\ content' = <<>>
    /\ UNCHANGED delivered

FifoNext == Enqueue \/ Dequeue \/ Close

FifoSpec == FifoInit /\ [][FifoNext]_fifoVars

=============================================================================

----------------------------- MODULE MCBarrier -----------------------------
(* Instance of Barrier for TLC. *)
EXTENDS Barrier

CONSTANTS t1, t2, t3, t4

=============================================================================

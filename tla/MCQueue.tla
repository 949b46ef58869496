------------------------------ MODULE MCQueue ------------------------------
(* Instances of Queue for TLC. *)
EXTENDS Queue, TLC

CONSTANTS p1, p2, p3, c1, c2

(* As many pulls as pushes, not evenly spread over the threads. *)
MCCalls == (p1 :> 2) @@ (p2 :> 2) @@ (p3 :> 2) @@ (c1 :> 4) @@ (c2 :> 2)

=============================================================================

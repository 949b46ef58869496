---------------------------- MODULE MCSemamore ----------------------------
(* Instances of Semamore for TLC. *)
EXTENDS Semamore, TLC

CONSTANTS pool, tight, t1, t2, t3, t4, t5

(* pool: two threads wait twice each for what one posts.  tight: one       *)
(* thread posts three times what another takes twice; one unit fits.       *)
PoolScript ==
    (t1 :> <<<<"post", pool>>, <<"post", pool>>, <<"post", pool>>, <<"post", pool>>>>) @@
    (t2 :> <<<<"wait", pool>>, <<"wait", pool>>>>) @@
    (t3 :> <<<<"wait", pool>>, <<"wait", pool>>>>) @@
    (t4 :> <<<<"post", tight>>, <<"post", tight>>, <<"post", tight>>>>) @@
    (t5 :> <<<<"wait", tight>>, <<"wait", tight>>>>)

(* One thread posts twice what another takes once; one unit fits. *)
FullScript ==
    (t4 :> <<<<"post", tight>>, <<"post", tight>>>>) @@
    (t5 :> <<<<"wait", tight>>>>)

StartEmpty == [s \in Semamores |-> 0]
MaxValues  == [s \in Semamores |-> IF s = pool THEN 4 ELSE 1]

=============================================================================

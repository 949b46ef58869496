---------------------------- MODULE MCChatServer ----------------------------
(* Instances of ChatServer for TLC. *)
EXTENDS ChatServer

First  == {1}
One    == [c \in 1 .. Conns |-> 1]
FirstTwo == [c \in 1 .. Conns |-> IF c <= 2 THEN 1 ELSE 0]

=============================================================================

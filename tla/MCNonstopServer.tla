-------------------------- MODULE MCNonstopServer --------------------------
(* Instance of NonstopServer for TLC: a PUT in two chunks or a GET, next   *)
(* to a client with any request, or a DELETE next to a PUT, over an empty  *)
(* directory or one that holds file a.                                     *)
EXTENDS NonstopServer

Ask(verb, name, size, sends) ==
    [verb |-> verb, name |-> name, size |-> size, sends |-> sends]

Puts == {Ask("PUT", "a", 3, 3),   \* two chunks
         Ask("PUT", "a", 2, 2),   \* exactly one
         Ask("PUT", "a", 5, 4),   \* ends too early
         Ask("PUT", "a", 2, 3),   \* too much
         Ask("PUT", "b", 1, 1)}

Others == {Ask("GET", "a", 0, 0), Ask("DELETE", "a", 0, 0), Ask("LIST", "a", 0, 0),
           Ask("V_UNKNOWN", "a", 0, 0)}

MCScripts ==
    {<<r, s>> : r \in {Ask("PUT", "a", 3, 3), Ask("GET", "a", 0, 0)}, s \in Puts \union Others}
       \union {<<Ask("DELETE", "a", 0, 0), Ask("PUT", "a", 2, 2)>>}

Nothing  == [n \in {} |-> 0]
FileA    == [n \in {"a"} |-> 4]
MCEarlier == {Nothing, FileA}

=============================================================================

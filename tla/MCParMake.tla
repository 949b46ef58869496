----------------------------- MODULE MCParMake -----------------------------
(* Instances of ParMake for TLC. *)
EXTENDS ParMake, TLC

CONSTANTS root, a, b, c, d, w1, w2

(* Two goals share a dependency; "b" has a second one of its own. *)
DiamondDeps ==
    (root :> {a, b}) @@ (a :> {c}) @@ (b :> {c, d}) @@ (c :> {}) @@ (d :> {})

(* A file rule of two commands over file rules, one source and one phony. *)
DiamondCommands == (root :> 0) @@ (a :> 2) @@ (b :> 1) @@ (c :> 1) @@ (d :> 0)

=============================================================================

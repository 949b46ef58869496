---------------------------- MODULE MCRuleGraph ----------------------------
(* Instance of RuleGraph for TLC: every makefile of a few lines. *)
EXTENDS RuleGraph, TLC

CONSTANTS a, b, c

(* No goal on the command line, or all three names. *)
GoalSets == {{}, Targets}

(* The names are interchangeable. *)
Names == Permutations(Targets)

=============================================================================

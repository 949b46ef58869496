----------------------------- MODULE RuleGraph -----------------------------
(***************************************************************************)
(* What parmake.c does before it starts threads: it has the makefile       *)
(* parsed (module MakefileParser), drops every goal from which a cycle can *)
(* be reached (detectCycle), and then every vertex that "" does not reach  *)
(* any more (find_useful_nodes).  What is left has to satisfy the          *)
(* assumption of module ParMake.                                           *)
(***************************************************************************)
EXTENDS MakefileParser, FiniteSets

VARIABLES graph,   \* graph_neighbors; its domain is the set of vertices
          todo,    \* the goals of `tgts' the loop has still to look at
          phase    \* "parser", "goals", "useful" or "ready"

prepared == <<graph, todo, phase>>

PrepareInit ==
    /\ Init
    /\ graph = <<>>
    /\ todo = {}
    /\ phase = "parser"

(* The graph the parser returns. *)
Parsed == [v \in vertices |-> {u \in vertices : <<v, u>> \in edges}]

(* parser_parse_makefile has returned; tgts = graph_neighbors(g, "") *)
GetGoals ==
    /\ phase = "parser"
    /\ status = "parsed"
    /\ graph' = Parsed
    /\ todo' = Parsed[Root]
    /\ phase' = "goals"
    /\ UNCHANGED vars

-----------------------------------------------------------------------------
(* Mutant: one set of visited vertices is kept over the whole search, so   *)
(* a vertex that is reached twice counts as a cycle.                       *)
RECURSIVE VisitAll(_, _)
VisitAll(S, visited) ==
    IF S = {} THEN <<FALSE, visited>>
    ELSE LET v == CHOOSE x \in S : TRUE
         IN  IF v \in visited THEN <<TRUE, visited>>
             ELSE LET below == VisitAll(graph[v], visited \union {v})
                  IN  IF below[1] THEN below
                      ELSE VisitAll(S \ {v}, below[2])
RevisitIsCycle(v, visited) == VisitAll({v}, visited)[1]

(* visited holds the path to v: set_remove undoes set_add on the way back. *)
RECURSIVE CyclicFrom(_, _)
CyclicFrom(v, visited) ==
    \/ v \in visited
    \/ \E n \in graph[v] : CyclicFrom(n, visited \union {v})

checkCyclicFunc(v, visited) == CyclicFrom(v, visited)

detectCycle(tgt) == checkCyclicFunc(tgt, {})

(* One iteration of the loop over tgts. *)
CheckGoal(v) ==
    /\ phase = "goals"
    /\ v \in todo
    /\ todo' = todo \ {v}
    /\ graph' = IF detectCycle(v)
                  THEN [graph EXCEPT ![Root] = @ \ {v}]
                  ELSE graph
    /\ UNCHANGED <<phase, vars>>

GoalsDone ==
    /\ phase = "goals"
    /\ todo = {}
    /\ phase' = "useful"
    /\ UNCHANGED <<graph, todo, vars>>

(* Marks what is reached: a vertex whose state is 1 is not entered again. *)
RECURSIVE find_useful_nodes_helper(_, _)
find_useful_nodes_helper(frontier, marked) ==
    IF frontier \subseteq marked THEN marked
    ELSE LET t == CHOOSE x \in frontier \ marked : TRUE
         IN  find_useful_nodes_helper((frontier \ {t}) \union graph[t],
                                      marked \union {t})

(* Mutant: only the goals and their own dependencies are kept. *)
KeepTwoLevels ==
    /\ phase = "useful"
    /\ LET keep == {Root} \union graph[Root] \union UNION {graph[g] : g \in graph[Root]}
       IN  graph' = [v \in keep |-> graph[v]]
    /\ phase' = "ready"
    /\ UNCHANGED <<todo, vars>>

(* graph_remove_vertex for every vertex that is not marked. *)
find_useful_nodes ==
    /\ phase = "useful"
    /\ LET marked == find_useful_nodes_helper({Root}, {})
       IN  graph' = [v \in marked |-> graph[v] \intersect marked]
    /\ phase' = "ready"
    /\ UNCHANGED <<todo, vars>>

(* A program that has exited, or is ready to start its threads. *)
Ended ==
    /\ phase = "ready" \/ status \in {"exit 1", "exit 2"}
    /\ UNCHANGED <<vars, prepared>>

PrepareNext ==
    \/ ParserStep /\ UNCHANGED prepared
    \/ GetGoals
    \/ (\E v \in Targets : CheckGoal(v))
    \/ GoalsDone
    \/ find_useful_nodes
    \/ Ended

PrepareSpec == PrepareInit /\ [][PrepareNext]_<<vars, prepared>>

-----------------------------------------------------------------------------
(* Reference definitions over the parsed graph: the least closed set. *)
Reach(g, v) ==
    {u \in vertices : \A S \in SUBSET vertices :
        (v \in S /\ \A x \in S : g[x] \subseteq S) => u \in S}

OnCycle(g, u) == \E n \in g[u] : u \in Reach(g, n)

(***************************************************************************)
(* A goal is dropped exactly when a cycle can be reached from it: shared   *)
(* dependencies are not taken for cycles, and no cycle is left.            *)
(***************************************************************************)
CyclicGoalsDropped ==
    phase \in {"useful", "ready"} =>
        graph[Root] = {v \in Parsed[Root] :
                          \A u \in Reach(Parsed, v) : ~OnCycle(Parsed, u)}

(***************************************************************************)
(* What the threads work on: exactly the descendants of the goals kept,    *)
(* each with all the dependencies it had, and without a cycle.             *)
(***************************************************************************)
PreparedGraph ==
    phase = "ready" =>
        /\ DOMAIN graph = {Root} \union UNION {Reach(Parsed, v) : v \in graph[Root]}
        /\ \A v \in DOMAIN graph \ {Root} : graph[v] = Parsed[v]
        /\ \A S \in SUBSET DOMAIN graph :
                S # {} => \E v \in S : graph[v] \intersect S = {}

(* The graph given to the threads is the acyclic part below the goals.     *)
PreparedRight == CyclicGoalsDropped /\ PreparedGraph

=============================================================================

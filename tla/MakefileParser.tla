--------------------------- MODULE MakefileParser ---------------------------
(***************************************************************************)
(* parser_parse_makefile of parallel_make/parser.c, one action per line of *)
(* the makefile.  A line is what the string helpers make of it: a rule     *)
(* line with a target and its dependencies, a recipe line (it began with a *)
(* tab), a line with nothing left once blanks and comments are stripped,   *)
(* or one with no separator.  A command is known by its line number.       *)
(***************************************************************************)
EXTENDS Integers, Sequences

CONSTANTS Targets,   \* names a makefile may mention
          Goals,     \* the sets of goals that may be given; {} = none
          MaxLines   \* bound on the length of the makefile

Root   == "root"     \* the sentinel vertex ""
None   == "none"     \* no rule yet
Vertex == Targets \union {Root}

Line == [kind : {"rule"}, target : Targets, deps : SUBSET Targets]
        \union [kind : {"recipe", "blank", "bad"}]

VARIABLES input,      \* history: the lines read so far
          vertices,   \* graph_contains_vertex
          edges,      \* graph_add_edge
          firstRule,  \* first_target
          curr,       \* curr_rule
          inBlock,    \* in_command_block
          recipeAt,   \* curr_rule->state: the line of the first command, 0 = none
          commands,   \* rule->commands
          status      \* "reading", "parsed" or the exit status

vars == <<input, vertices, edges, firstRule, curr, inBlock, recipeAt, commands, status>>

TypeOK ==
    /\ input \in Seq(Line) /\ Len(input) <= MaxLines
    /\ vertices \subseteq Vertex
    /\ edges \subseteq vertices \X vertices
    /\ {firstRule, curr} \subseteq Targets \union {None}
    /\ inBlock \in BOOLEAN
    /\ recipeAt \in [Targets -> 0 .. MaxLines]
    /\ commands \in [Targets -> Seq(1 .. MaxLines)]
    /\ status \in {"reading", "parsed", "exit 1", "exit 2"}

Init ==
    /\ input = <<>>
    /\ vertices = {Root}
    /\ edges = {}
    /\ firstRule = None
    /\ curr = None
    /\ inBlock = FALSE
    /\ recipeAt = [t \in Targets |-> 0]
    /\ commands = [t \in Targets |-> <<>>]
    /\ status = "reading"

-----------------------------------------------------------------------------
(* getline: the next line is l. *)
Read(l) ==
    /\ status = "reading"
    /\ Len(input) < MaxLines
    /\ input' = Append(input, l)

LineNumber == Len(input) + 1

(* A target with its dependencies; a known target keeps its commands. *)
RuleLine(t, deps) ==
    /\ Read([kind |-> "rule", target |-> t, deps |-> deps])
    /\ inBlock' = FALSE
    /\ vertices' = vertices \union {t} \union deps
    /\ firstRule' = IF t \notin vertices /\ firstRule = None THEN t ELSE firstRule
    /\ curr' = t
    /\ edges' = edges \union ({t} \X deps)
    /\ UNCHANGED <<recipeAt, commands, status>>

(* Mutant: in_command_block is not looked at. *)
RecipeAlwaysAppends ==
    /\ Read([kind |-> "recipe"])
    /\ curr # None
    /\ inBlock' = TRUE
    /\ recipeAt' = [recipeAt EXCEPT ![curr] = LineNumber]
    /\ commands' = [commands EXCEPT ![curr] = Append(@, LineNumber)]
    /\ UNCHANGED <<vertices, edges, firstRule, curr, status>>

(* The first command of a block replaces the commands of an earlier one. *)
RecipeLine ==
    /\ Read([kind |-> "recipe"])
    /\ curr # None
    /\ inBlock' = TRUE
    /\ recipeAt' = IF inBlock THEN recipeAt ELSE [recipeAt EXCEPT ![curr] = LineNumber]
    /\ commands' = [commands EXCEPT ![curr] =
                      Append(IF ~inBlock /\ recipeAt[curr] # 0 THEN <<>> ELSE @,
                             LineNumber)]
    /\ UNCHANGED <<vertices, edges, firstRule, curr, status>>

BlankLine ==
    /\ Read([kind |-> "blank"])
    /\ UNCHANGED <<vertices, edges, firstRule, curr, inBlock, recipeAt, commands, status>>

Stop(code) ==
    /\ status' = code
    /\ UNCHANGED <<vertices, firstRule, curr, inBlock, recipeAt, commands>>

(* "recipe commences before first target" *)
EarlyRecipe == Read([kind |-> "recipe"]) /\ curr = None /\ Stop("exit 2") /\ UNCHANGED edges

(* "missing separator" *)
MissingSeparator == Read([kind |-> "bad"]) /\ Stop("exit 2") /\ UNCHANGED edges

(* End of file: the goals become the neighbours of "". *)
Finish(goals) ==
    /\ status = "reading"
    /\ goals = {} => firstRule # None
    /\ goals \subseteq vertices
    /\ edges' = edges \union ({Root} \X IF goals = {} THEN {firstRule} ELSE goals)
    /\ Stop("parsed")
    /\ UNCHANGED input

(* open_makefile: there is no makefile, or it cannot be opened. *)
open_makefile_fails ==
    /\ status = "reading" /\ input = <<>>
    /\ Stop("exit 2")
    /\ UNCHANGED <<input, edges>>

(* "No targets" *)
NoTargets ==
    /\ status = "reading" /\ firstRule = None
    /\ Stop("exit 2")
    /\ UNCHANGED <<input, edges>>

(* "No rule to make target" *)
UnknownGoal(goals) ==
    /\ status = "reading" /\ ~(goals \subseteq vertices)
    /\ Stop("exit 1")
    /\ UNCHANGED <<input, edges>>

ParserStep ==
    \/ \E t \in Targets, deps \in SUBSET Targets : RuleLine(t, deps)
    \/ RecipeLine \/ BlankLine \/ EarlyRecipe \/ MissingSeparator
    \/ \E goals \in Goals : Finish(goals) \/ UnknownGoal(goals)
    \/ open_makefile_fails
    \/ {} \in Goals /\ NoTargets

Spec == Init /\ [][ParserStep]_vars

-----------------------------------------------------------------------------
(* Reference definitions, over the whole makefile. *)
RuleLines == {i \in DOMAIN input : input[i].kind = "rule"}
Recipes   == {i \in DOMAIN input : input[i].kind = "recipe"}

(* The rule line a line belongs to, 0 = none. *)
Owner(i) ==
    CHOOSE j \in RuleLines \union {0} :
        j <= i /\ \A k \in RuleLines : k <= i => k <= j

Heads(t) == {j \in RuleLines : input[j].target = t /\ \E i \in Recipes : Owner(i) = j}

(***************************************************************************)
(* A rule defined twice has the commands of its last block only, in order, *)
(* however rule lines without recipes and blank lines come in between.     *)
(***************************************************************************)
LastRecipeWins ==
    status = "parsed" =>
        \A t \in Targets :
            LET last  == {j \in Heads(t) : \A k \in Heads(t) : k <= j}
                block == {i \in Recipes : Owner(i) \in last}
            IN  /\ {commands[t][i] : i \in DOMAIN commands[t]} = block
                /\ \A i, j \in DOMAIN commands[t] :
                      i < j => commands[t][i] < commands[t][j]

(***************************************************************************)
(* The graph holds exactly the dependencies of all the rule lines, and ""  *)
(* leads to the first rule of the file when no goal was given.             *)
(***************************************************************************)
GraphIsMakefile ==
    status = "parsed" =>
        /\ {e \in edges : e[1] # Root} =
              UNION {{input[j].target} \X input[j].deps : j \in RuleLines}
        /\ LET goals == {e[2] : e \in {x \in edges : x[1] = Root}}
           IN  \/ goals \in Goals \ {{}}
               \/ /\ {} \in Goals
                  /\ \E j \in RuleLines : /\ \A k \in RuleLines : j <= k
                                          /\ goals = {input[j].target}

(* parser_parse_makefile builds the rules and the graph that are written   *)
(* down.                                                                   *)
ParsedRight == LastRecipeWins /\ GraphIsMakefile

=============================================================================

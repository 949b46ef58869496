---------------------------- MODULE MCLibraries ----------------------------
(***************************************************************************)
(* The sequential parts of the repository for TLC.  They share no state:   *)
(* each behaviour picks one of them at the start and calls its operations, *)
(* one instance of each, so that one run explores them side by side.       *)
(***************************************************************************)
EXTENDS Malloc, Mmu, Vector, MiniValgrind, Editor, Scheduler, MinixFs,
        CamelCaser, Lookups, SecureMove, Utilities, TLC

VARIABLE library    \* the one this behaviour uses

mallocVars == vars
allVars == <<library, mallocVars, mmuVars, vectorVars, sstringVars, mvVars, editorVars,
             schedVars, fsVars, camelVars, lkVars, moveVars, utVars>>

-----------------------------------------------------------------------------
(* Mmu: pages 1 and 2 are the test pages and have the directory entry that *)
(* mmu_add_process makes, pages 3 and 4 (read only) share another one with *)
(* page 5, which lies in no segment.                                       *)
MCVPN0   == [p \in Pages |-> IF p < 3 THEN 0 ELSE 1]
MCSegment == [p \in Pages |-> CASE p \in {1, 2, 3} -> {"read", "write"}
                                [] p = 4 -> {"read"}
                                [] OTHER -> {}]

(* Vector: the texts appended and substituted. *)
MCTexts == {<<>>, <<"a">>, <<"b">>, <<" ">>, <<"a", "b">>}

(* Editor: an escaped newline after plain text, and an escaped backslash. *)
MCTyped    == {<<"n", "\\", "n">>, <<"\\", "\\">>}
MCSearched == {<<>>, <<"n">>, <<"n", "\\">>}

(* Scheduler: neither the priorities nor the runtimes order the jobs as    *)
(* they arrive.                                                            *)
MCPriority == [j \in Jobs |-> IF j = 1 THEN 2 ELSE 1]
MCRuntime  == [j \in Jobs |-> IF j = 2 THEN 1 ELSE 2]

(* CamelCaser: all texts of four characters and sentences of six. *)
MCInputs ==
    UNION {[1..n -> {"a", "A", "1", " ", "."}] : n \in 0..4}
    \cup {s \o <<".">> : s \in [1..5 -> {"a", "A", "1", " "}]}

(* Lookups: a file without the magic bytes, a tree of one node, and one    *)
(* with a path that turns.                                                 *)
TreeNode(w, l, r) == [word |-> w, left_child |-> l, right_child |-> r]
Turning == (4 :> TreeNode(4, 10, 20)) @@ (10 :> TreeNode(1, 0, 30))
           @@ (20 :> TreeNode(6, 0, 0)) @@ (30 :> TreeNode(3, 0, 0))
MCTrees == {NotATree, 4 :> TreeNode(3, 0, 0), Turning}
MCWords == <<3, 5, 1, 7>>

(* SecureMove: empty files and lines, lines shorter than, as long as and   *)
(* longer than the limit, and a file shorter than what is extracted.       *)
MCSources ==
    {<<>>, << <<>> >>, << <<1, 2>>, <<>>, <<3, 4, 5>> >>,
     << <<1, 2, 3, 4, 5>>, <<6>> >>, << <<1>>, <<2>>, <<3, 4>> >>}

(* Utilities: variables that refer to each other, with more and fewer      *)
(* values than runs, names given twice, and malformed ones.                *)
Is(t)     == <<"is", t>>
RefTo(n)  == <<"as", n>>
Bad(t)    == <<"bad", t>>
Var(n, v) == [name |-> n, values |-> v]
MCLines == [num : 0..2, command : {"none", "c"}, vars : {
    <<>>,
    << Var("A", <<Is("1")>>), Var("B", <<RefTo("A"), Is("2")>>) >>,
    << Var("A", <<Is("1"), RefTo("B")>>), Var("B", <<RefTo("A")>>),
       Var("C", <<RefTo("B"), RefTo("A")>>) >>,
    << Var("A", <<Is("1"), Is("2"), Bad("3")>>), Var("A", <<Is("3"), RefTo("A")>>),
       Var("B", <<RefTo("A")>>) >>,
    << Var("A", <<Bad("x")>>) >>, << Var("bad", <<Is("1")>>) >>, << Var("A", <<>>) >>}]

-----------------------------------------------------------------------------
(* The library picked starts in any of its initial states, each other one  *)
(* in a single one, in which it stays.                                     *)
Libraries == {"malloc", "mmu", "vector", "sstring", "mini_valgrind", "editor", "scheduler",
              "minixfs", "camelCaser", "lookup", "secure_move", "utilities"}

LibrariesInit ==
    /\ library \in Libraries
    /\ Init /\ MmuInit /\ VectorInit /\ SstringInit /\ MvInit /\ EditorInit /\ FsInit
    /\ SchedInit /\ (library # "scheduler" => pqueue_scheme = "FCFS")
    /\ CamelInit /\ (library # "camelCaser" => input_str = <<>>)
    /\ LookupInit /\ (library # "lookup" => tree = NotATree /\ tool = "lookup1")
    /\ MoveInit /\ (library # "secure_move" => original = <<>>)
    /\ UtilitiesInit /\ (library # "utilities" => line = [num |-> 0, command |-> "none", vars |-> <<>>])

Frame(l, its) == IF library = l THEN TRUE ELSE UNCHANGED its

Only(l) ==
    /\ library = l /\ UNCHANGED library
    /\ Frame("malloc", mallocVars) /\ Frame("mmu", mmuVars)
    /\ Frame("vector", vectorVars) /\ Frame("sstring", sstringVars)
    /\ Frame("mini_valgrind", mvVars) /\ Frame("editor", editorVars)
    /\ Frame("scheduler", schedVars) /\ Frame("minixfs", fsVars)
    /\ Frame("camelCaser", camelVars) /\ Frame("lookup", lkVars)
    /\ Frame("secure_move", moveVars) /\ Frame("utilities", utVars)

LibrariesNext ==
    \/ Only("malloc") /\ Next
    \/ Only("mmu") /\ MmuNext
    \/ Only("vector") /\ VectorNext
    \/ Only("sstring") /\ SstringNext
    \/ Only("mini_valgrind") /\ MvNextStep
    \/ Only("editor") /\ EditorNext
    \/ Only("scheduler") /\ SchedNext
    \/ Only("minixfs") /\ FsNext
    \/ Only("camelCaser") /\ CamelNext
    \/ Only("lookup") /\ LookupNext
    \/ Only("secure_move") /\ MoveNext
    \/ Only("utilities") /\ UtilitiesNext

LibrariesSpec == LibrariesInit /\ [][LibrariesNext]_allVars

-----------------------------------------------------------------------------
(* The small tools do what their reference definitions say: both lookups   *)
(* find what a search of the whole tree finds, camelCaser rewrites each    *)
(* sentence as its definition says, secure_move loses no character, and    *)
(* env runs each command in the environment its references mean.           *)
ToolsMatchReference == LookupsFind /\ CamelCaserIsExact /\ MoveKeepsText /\ EnvRunsAsTold

=============================================================================

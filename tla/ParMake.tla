------------------------------ MODULE ParMake ------------------------------
(***************************************************************************)
(* The scheduler of parallel_make/parmake.c: worker threads take rules     *)
(* from the queue `jobs', decide whether they are out of date, run their   *)
(* commands and report them on the queue `checked'; the main thread takes  *)
(* them from there and releases or fails the rules that depend on them.    *)
(*                                                                         *)
(* The graph is what cycle removal and find_useful_nodes leave (module     *)
(* RuleGraph).  The queues are unbounded FIFOs (module Fifo): they are     *)
(* created with max_size 0.  A file is known by its modification time.     *)
(***************************************************************************)
EXTENDS Integers, Sequences, FiniteSets

CONSTANTS Rules,      \* the targets of the makefile
          Root,       \* the sentinel vertex ""
          Deps,       \* graph_neighbors
          Commands,   \* how many commands each rule has
          FileRules,  \* rules whose last command writes the target
          Workers,    \* the threads that run myjob
          Times       \* modification times there may be at the start; 0 = no file

Vertices == Rules \union {Root}

NULL == "NULL"    \* the pill that ends the workers

(* Every non-empty set of vertices has one that depends on none of them. *)
Acyclic ==
    \A S \in SUBSET Vertices : S # {} => \E v \in S : Deps[v] \intersect S = {}

(* find_useful_nodes leaves only vertices that can be reached from "". *)
Useful ==
    \A S \in SUBSET Vertices :
        Root \in S /\ (\A v \in S : Deps[v] \subseteq S) => S = Vertices

ASSUME GraphAssumption ==
    /\ Root \notin Rules
    /\ NULL \notin Vertices
    /\ IsFiniteSet(Rules)
    /\ Deps \in [Vertices -> SUBSET Rules]
    /\ Acyclic
    /\ Useful
ASSUME CommandsAssumption ==
    /\ Commands \in [Vertices -> Nat]
    /\ Commands[Root] = 0
    /\ FileRules \subseteq {r \in Rules : Commands[r] > 0}
ASSUME TimesAssumption == Times \subseteq Nat /\ Times \ {0} # {}

VARIABLES state,      \* rule->state: 1 useful, 0 satisfied, -1 failed
          satisfied,  \* satisfied_dependencies
          jobs,       \* queue of rules to do
          checked,    \* queue of rules done or failed
          wpc,        \* where each worker is in myjob
          job,        \* the rule each worker has pulled
          cmd,        \* how many of its commands have been run
          mainpc,     \* where the main thread is in parmake
          mtime,      \* modification time of each target, 0 = no file
          now,        \* the clock
          ran         \* history: how often each rule's commands were started

workerVars == <<wpc, job, cmd>>
fileVars   == <<mtime, now>>
vars == <<state, satisfied, jobs, checked, workerVars, mainpc, fileVars, ran>>

Parents(r) == {p \in Vertices : r \in Deps[p]}

(* graph_antineighbors and graph_vertices list a hash table: any order. *)
Orderings(S) == {f \in [1 .. Cardinality(S) -> S] :
                    \A i, j \in DOMAIN f : f[i] = f[j] => i = j}

TypeOK ==
    /\ state \in [Vertices -> {-1, 0, 1}]
    /\ satisfied \in [Vertices -> Nat]
    /\ jobs \in Seq(Vertices \union {NULL})
    /\ checked \in Seq(Vertices)
    /\ wpc \in [Workers -> {"pull", "check", "run", "report", "pill", "exit"}]
    /\ job \in [Workers -> Vertices \union {NULL}]
    /\ cmd \in [Workers -> Nat]
    /\ mainpc \in {"loop", "pill", "join", "done"}
    /\ mtime \in [Vertices -> Nat]
    /\ now \in Nat
    /\ ran \in [Vertices -> Nat]

-----------------------------------------------------------------------------
(* parmake up to the creation of the threads: the leaves are queued. *)
Init ==
    /\ state = [v \in Vertices |-> 1]
    /\ satisfied = [v \in Vertices |-> 0]
    /\ jobs \in Orderings({v \in Vertices : Deps[v] = {}})
    /\ checked = <<>>
    /\ wpc = [w \in Workers |-> "pull"]
    /\ job = [w \in Workers |-> NULL]
    /\ cmd = [w \in Workers |-> 0]
    /\ mainpc = "loop"
    /\ mtime \in {m \in [Vertices -> Times \union {0}] : m[Root] = 0}
    /\ now \in {n \in Times \union {0} : \A t \in Times : t <= n}
    /\ ran = [v \in Vertices |-> 0]

Goto(w, place) == wpc' = [wpc EXCEPT ![w] = place]

(* myjob: job = queue_pull(jobs), a rule *)
PullJob(w) ==
    /\ wpc[w] = "pull"
    /\ jobs # <<>>
    /\ Head(jobs) # NULL
    /\ job' = [job EXCEPT ![w] = Head(jobs)]
    /\ jobs' = Tail(jobs)
    /\ Goto(w, "check")
    /\ UNCHANGED <<state, satisfied, checked, cmd, mainpc, fileVars, ran>>

(* myjob: the pull returns NULL and ends the loop *)
PullPill(w) ==
    /\ wpc[w] = "pull"
    /\ jobs # <<>>
    /\ Head(jobs) = NULL
    /\ jobs' = Tail(jobs)
    /\ Goto(w, "pill")
    /\ UNCHANGED <<state, satisfied, checked, job, cmd, mainpc, fileVars, ran>>

(* Mutant: the worker keeps the pill to itself. *)
SwallowPill(w) ==
    /\ wpc[w] = "pill"
    /\ Goto(w, "exit")
    /\ UNCHANGED <<state, satisfied, jobs, checked, job, cmd, mainpc,
                   fileVars, ran>>

(* myjob: queue_push(jobs, NULL) for the next worker *)
PushPill(w) ==
    /\ wpc[w] = "pill"
    /\ jobs' = Append(jobs, NULL)
    /\ Goto(w, "exit")
    /\ UNCHANGED <<state, satisfied, checked, job, cmd, mainpc, fileVars, ran>>

(* Mutant: only a missing target is out of date. *)
ValidIfMissing(r) == mtime[r] = 0

rule_valid_to_run(r) ==
    \/ mtime[r] = 0
    \/ \E d \in Deps[r] : mtime[d] = 0 \/ mtime[d] > mtime[r]

(* checkSatisfied: the rule is up to date *)
SkipRule(w) ==
    /\ wpc[w] = "check"
    /\ ~rule_valid_to_run(job[w])
    /\ state' = [state EXCEPT ![job[w]] = 0]
    /\ Goto(w, "report")
    /\ UNCHANGED <<satisfied, jobs, checked, job, cmd, mainpc, fileVars, ran>>

(* checkSatisfied: the rule has to be run *)
StartRule(w) ==
    /\ wpc[w] = "check"
    /\ rule_valid_to_run(job[w])
    /\ cmd' = [cmd EXCEPT ![w] = 0]
    /\ ran' = [ran EXCEPT ![job[w]] = @ + 1]
    /\ Goto(w, "run")
    /\ UNCHANGED <<state, satisfied, jobs, checked, job, mainpc, fileVars>>

(* execRule: system(cmd) succeeds; the last command writes the target. *)
RunCommand(w) ==
    /\ wpc[w] = "run"
    /\ cmd[w] < Commands[job[w]]
    /\ cmd' = [cmd EXCEPT ![w] = @ + 1]
    /\ IF job[w] \in FileRules /\ cmd[w] + 1 = Commands[job[w]]
         THEN /\ now' \in {now, now + 1}
              /\ mtime' = [mtime EXCEPT ![job[w]] = now']
         ELSE UNCHANGED fileVars
    /\ UNCHANGED <<state, satisfied, jobs, checked, wpc, job, mainpc, ran>>

(* execRule: system(cmd) fails and the rest of the rule is left out. *)
CommandFails(w) ==
    /\ wpc[w] = "run"
    /\ cmd[w] < Commands[job[w]]
    /\ state' = [state EXCEPT ![job[w]] = -1]
    /\ Goto(w, "report")
    /\ UNCHANGED <<satisfied, jobs, checked, job, cmd, mainpc, fileVars, ran>>

(* execRule: all commands done *)
FinishRule(w) ==
    /\ wpc[w] = "run"
    /\ cmd[w] = Commands[job[w]]
    /\ state' = [state EXCEPT ![job[w]] = 0]
    /\ Goto(w, "report")
    /\ UNCHANGED <<satisfied, jobs, checked, job, cmd, mainpc, fileVars, ran>>

(* myjob: queue_push(checked, job) *)
Report(w) ==
    /\ wpc[w] = "report"
    /\ checked' = Append(checked, job[w])
    /\ Goto(w, "pull")
    /\ UNCHANGED <<state, satisfied, jobs, job, cmd, mainpc, fileVars, ran>>

-----------------------------------------------------------------------------
(* The main loop pulls a rule other than "" from checked. *)
MainPulls(r) ==
    /\ mainpc = "loop"
    /\ checked # <<>>
    /\ r = Head(checked)
    /\ r # Root

Released(r) ==
    {p \in Parents(r) : satisfied[p] + 1 = Cardinality(Deps[p])}

(* The rule counts for its parents; the ones in next are queued. *)
CountFor(r, next) ==
    /\ satisfied' = [v \in Vertices |->
                        satisfied[v] + IF v \in Parents(r) THEN 1 ELSE 0]
    /\ \E o \in Orderings(next) : jobs' = jobs \o o
    /\ checked' = Tail(checked)
    /\ UNCHANGED <<state, workerVars, mainpc, fileVars, ran>>

(* Mutant: a failed rule counts like one that is done. *)
MainFailedCounts(r) ==
    MainPulls(r) /\ state[r] = -1 /\ CountFor(r, Released(r))

(* A failed rule fails its parents, which are reported in turn. *)
MainFailed(r) ==
    /\ MainPulls(r)
    /\ state[r] = -1
    /\ state' = [v \in Vertices |-> IF v \in Parents(r) THEN -1 ELSE state[v]]
    /\ \E o \in Orderings(Parents(r)) : checked' = Tail(checked) \o o
    /\ UNCHANGED <<satisfied, jobs, workerVars, mainpc, fileVars, ran>>

(* Mutant: a parent is queued as soon as one of its dependencies is done. *)
MainDoneEager(r) == MainPulls(r) /\ state[r] = 0 /\ CountFor(r, Parents(r))

(* A satisfied rule counts for its parents; complete parents are queued. *)
MainDone(r) == MainPulls(r) /\ state[r] = 0 /\ CountFor(r, Released(r))

(* The sentinel has come back: leave the loop. *)
MainBreak ==
    /\ mainpc = "loop"
    /\ checked # <<>>
    /\ Head(checked) = Root
    /\ checked' = Tail(checked)
    /\ mainpc' = "pill"
    /\ UNCHANGED <<state, satisfied, jobs, workerVars, fileVars, ran>>

MainPill ==
    /\ mainpc = "pill"
    /\ jobs' = Append(jobs, NULL)
    /\ mainpc' = "join"
    /\ UNCHANGED <<state, satisfied, checked, workerVars, fileVars, ran>>

(* pthread_join of all workers; both queues are destroyed. *)
MainJoin ==
    /\ mainpc = "join"
    /\ \A w \in Workers : wpc[w] = "exit"
    /\ mainpc' = "done"
    /\ jobs' = <<>>
    /\ checked' = <<>>
    /\ UNCHANGED <<state, satisfied, workerVars, fileVars, ran>>

Terminated == mainpc = "done" /\ UNCHANGED vars

Work(w) ==
    \/ PullJob(w) \/ PullPill(w) \/ PushPill(w)
    \/ SkipRule(w) \/ StartRule(w)
    \/ RunCommand(w) \/ CommandFails(w) \/ FinishRule(w)
    \/ Report(w)

Main ==
    \/ \E r \in Rules : MainFailed(r) \/ MainDone(r)
    \/ MainBreak \/ MainPill \/ MainJoin

Next == (\E w \in Workers : Work(w)) \/ Main \/ Terminated

Spec == Init /\ [][Next]_vars

(* Threads that can run are eventually scheduled and commands end. *)
FairSpec == Spec /\ WF_vars(Main) /\ \A w \in Workers : WF_vars(Work(w))

-----------------------------------------------------------------------------
(***************************************************************************)
(* "make sure dependencies are satisifed before rules!": when a worker     *)
(* looks at a rule or runs it, every dependency of it is satisfied, and a  *)
(* rule is run at most once however many paths lead to it.                 *)
(***************************************************************************)
DependenciesFirst ==
    \A w \in Workers :
        wpc[w] \in {"check", "run", "report"} =>
            \A d \in Deps[job[w]] : state[d] = 0

RunAtMostOnce == \A v \in Vertices : ran[v] <= 1

(* Dependencies come first and no rule runs twice, whichever workers       *)
(* finish in which order.                                                  *)
RunsInOrder == DependenciesFirst /\ RunAtMostOnce

(***************************************************************************)
(* What is known of a rule stays true: a satisfied rule never fails later  *)
(* and a failed one is never satisfied, although the main thread writes    *)
(* the state of every parent of a failed rule without looking at it.       *)
(***************************************************************************)
DecidedForGood ==
    [][\A v \in Vertices : state[v] # 1 => state'[v] = state[v]]_vars

(***************************************************************************)
(* When parmake returns, the sentinel is satisfied only if every rule is,  *)
(* and then every target that is a file is at least as new as each of its  *)
(* dependencies that is a file, whatever the files' times were before.     *)
(***************************************************************************)
Built == mainpc = "done" /\ state[Root] = 0

SuccessMeansBuilt ==
    Built => \A v \in Vertices :
                /\ state[v] = 0
                /\ v \in FileRules =>
                    \A d \in Deps[v] : mtime[v] > 0 /\ mtime[d] <= mtime[v]

(***************************************************************************)
(* A failure is not forgotten: if the sentinel is satisfied no command     *)
(* failed, and if it failed some rule did.                                 *)
(***************************************************************************)
FailureReachesRoot ==
    mainpc = "done" =>
        (state[Root] = -1 <=> \E r \in Rules : state[r] = -1)

(* What parmake returns is true: success means built, and a failure of any *)
(* command is seen at the sentinel.                                        *)
ResultIsTrue == SuccessMeansBuilt /\ FailureReachesRoot

(* parmake returns: the pill reaches every worker and all are joined. *)
Terminates == <>(mainpc = "done")

(***************************************************************************)
(* test_makefiles/testfile7: "don't run rules if they have dependency      *)
(* failures, but still run all a rule's descendants even if one of them    *)
(* fails": at the end a rule that was never looked at has a failed         *)
(* dependency.                                                             *)
(***************************************************************************)
DescendantsStillRun ==
    mainpc = "done" =>
        \A r \in Rules :
            state[r] = 1 => \E d \in Deps[r] : state[d] # 0

=============================================================================

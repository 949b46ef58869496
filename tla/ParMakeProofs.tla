--------------------------- MODULE ParMakeProofs ---------------------------
(***************************************************************************)
(* Proofs about ParMake, for any graph of rules, any number of workers and *)
(* any files: dependencies come first, no rule runs twice, what is known   *)
(* of a rule stays true, and what parmake returns is true.                 *)
(***************************************************************************)
EXTENDS ParMake, TLAPS, FiniteSetTheorems, SequenceTheorems

In(x, s)   == \E i \in DOMAIN s : s[i] = x
Once(x, s) == \A i, j \in DOMAIN s : s[i] = x /\ s[j] = x => i = j

(* Worker w has pulled v and has not put it into checked yet. *)
Holds(w, v) == wpc[w] \in {"check", "run", "report"} /\ job[w] = v
Deciding(w) == wpc[w] \in {"check", "run"}

(* The main thread has counted d for the parents of d. *)
Counted(d) ==
    /\ state[d] = 0
    /\ ~In(d, checked)
    /\ \A w \in Workers : wpc[w] = "report" => job[w] # d

CountedDeps(v) == {d \in Deps[v] : Counted(d)}

(* All dependencies of v are satisfied, and have been counted. *)
IsReady(v) ==
    /\ satisfied[v] = Cardinality(Deps[v])
    /\ \A d \in Deps[v] : state[d] = 0

-----------------------------------------------------------------------------
(* Whoever holds a rule holds a vertex of the graph. *)
HoldsVertex ==
    \A w \in Workers : wpc[w] \in {"check", "run", "report"} => job[w] \in Vertices

(* Only a rule whose dependencies are satisfied is queued, held or done. *)
ReadyFirst ==
    \A v \in Vertices :
        In(v, jobs) \/ (\E w \in Workers : Holds(w, v)) \/ state[v] = 0 => IsReady(v)

(* A rule that is queued, or held before its result, is not decided. *)
QueuedUndecided ==
    \A v \in Vertices :
        In(v, jobs) \/ (\E w \in Workers : Deciding(w) /\ job[w] = v) => state[v] = 1

(* A rule is in one place: once in jobs, or with one worker. *)
OnePlace ==
    \A v \in Vertices :
        /\ Once(v, jobs)
        /\ In(v, jobs) => \A w \in Workers : ~Holds(w, v)
        /\ \A w, u \in Workers : Holds(w, v) /\ Holds(u, v) => w = u

(* A report is decided; a satisfied rule is reported once. *)
ReportedOnce ==
    /\ \A v \in Vertices : In(v, checked) => state[v] # 1
    /\ \A v \in Vertices : state[v] = 0 => Once(v, checked)
    /\ \A w \in Workers : wpc[w] = "report" =>
          /\ state[job[w]] # 1
          /\ state[job[w]] = 0 => ~In(job[w], checked)

(* satisfied_dependencies is what its name says, until the end. *)
CountIsExact ==
    mainpc # "done" =>
        \A v \in Vertices : satisfied[v] = Cardinality(CountedDeps(v))

(* A rule failed by a command of its own, or through a dependency. *)
FailedForReason ==
    \A v \in Vertices : state[v] = -1 =>
        \/ v # Root /\ satisfied[v] = Cardinality(Deps[v])
        \/ \E d \in Deps[v] : state[d] = -1

(* The commands of a rule are started once, by the worker that decides it. *)
StartedOnce ==
    \A v \in Vertices :
        /\ ran[v] <= 1
        /\ ran[v] = 1 => state[v] # 1 \/ \E w \in Workers : wpc[w] = "run" /\ job[w] = v

(* The target of v is there and no older than any of its dependencies. *)
UpToDate(m, v) == m[v] > 0 /\ \A d \in Deps[v] : m[d] <= m[v]

(* Files are as new as they must be when their rule is satisfied. *)
FilesInOrder ==
    /\ now > 0
    /\ \A v \in Vertices : mtime[v] <= now
    /\ \A v \in FileRules : state[v] = 0 => UpToDate(mtime, v)
    /\ \A w \in Workers : wpc[w] = "run" =>
          /\ cmd[w] <= Commands[job[w]]
          /\ job[w] \in FileRules /\ cmd[w] = Commands[job[w]] => UpToDate(mtime, job[w])

(* The main loop is left when the sentinel has been reported. *)
RootDecided == mainpc # "loop" => state[Root] # 1

(***************************************************************************)
(* RunsInOrder and ResultIsTrue are not inductive: a parent is queued when *)
(* its count is complete, so the count must be exact, for which a rule     *)
(* must be in one place and be reported once.                              *)
(***************************************************************************)
IInv ==
    /\ TypeOK
    /\ HoldsVertex
    /\ ReadyFirst
    /\ QueuedUndecided
    /\ OnePlace
    /\ ReportedOnce
    /\ CountIsExact
    /\ FailedForReason
    /\ StartedOnce
    /\ FilesInOrder
    /\ RootDecided

-----------------------------------------------------------------------------
(* What is in a sequence, and how often, after its head is removed. *)
LEMMA TailIn ==
    ASSUME NEW S, NEW s \in Seq(S), s # <<>>
    PROVE  /\ Tail(s) \in Seq(S) /\ Head(s) \in S
           /\ \A x : In(x, s) <=> x = Head(s) \/ In(x, Tail(s))
           /\ \A x : Once(x, s) => Once(x, Tail(s))
           /\ Once(Head(s), s) => ~In(Head(s), Tail(s))
<1>1. /\ Tail(s) \in Seq(S) /\ Head(s) \in S /\ Len(s) \in Nat \ {0}
      /\ Len(Tail(s)) = Len(s) - 1
      /\ DOMAIN s = 1 .. Len(s) /\ DOMAIN Tail(s) = 1 .. Len(s) - 1
      /\ \A i \in 1 .. Len(s) - 1 : Tail(s)[i] = s[i + 1]
      /\ Head(s) = s[1]
  BY HeadTailProperties, EmptySeq, LenProperties
<1>2. ASSUME NEW x, In(x, s), x # Head(s) PROVE In(x, Tail(s))
  <2>1. PICK i \in 1 .. Len(s) : s[i] = x
    BY <1>1, <1>2 DEF In
  <2>2. i - 1 \in 1 .. Len(s) - 1 /\ Tail(s)[i - 1] = x
    BY <1>1, <1>2, <2>1
  <2> QED
    BY <1>1, <2>2 DEF In
<1>3. ASSUME NEW x, In(x, Tail(s)) PROVE In(x, s)
  BY <1>1, <1>3 DEF In
<1>4. In(Head(s), s)
  BY <1>1 DEF In
<1>5. ASSUME NEW x, Once(x, s) PROVE Once(x, Tail(s))
  BY <1>1, <1>5 DEF Once
<1>6. ASSUME Once(Head(s), s) PROVE ~In(Head(s), Tail(s))
  BY <1>1, <1>6 DEF Once, In
<1> QED
  BY <1>1, <1>2, <1>3, <1>4, <1>5, <1>6

(* The same after an element is appended. *)
LEMMA AppendIn ==
    ASSUME NEW S, NEW s \in Seq(S), NEW e \in S
    PROVE  /\ Append(s, e) \in Seq(S)
           /\ \A x : In(x, Append(s, e)) <=> In(x, s) \/ x = e
           /\ \A x : Once(x, s) /\ (x = e => ~In(x, s)) => Once(x, Append(s, e))
<1> DEFINE t == Append(s, e)
<1>1. /\ t \in Seq(S) /\ Len(s) \in Nat
      /\ DOMAIN s = 1 .. Len(s) /\ DOMAIN t = 1 .. Len(s) + 1
      /\ \A i \in 1 .. Len(s) : t[i] = s[i]
      /\ t[Len(s) + 1] = e
  BY AppendProperties, LenProperties
<1> HIDE DEF t
<1>2. \A x : In(x, t) <=> In(x, s) \/ x = e
  BY <1>1 DEF In
<1>3. ASSUME NEW x, Once(x, s), x = e => ~In(x, s) PROVE Once(x, t)
  BY <1>1, <1>3 DEF Once, In
<1> QED
  BY <1>1, <1>2, <1>3 DEF t

(* An ordering of a finite set lists only its elements, none twice. *)
LEMMA OrderingIn ==
    ASSUME NEW T, IsFiniteSet(T), NEW o \in Orderings(T)
    PROVE  /\ o \in Seq(T)
           /\ \A x : In(x, o) => x \in T
           /\ \A x : Once(x, o)
<1>1. Cardinality(T) \in Nat
  BY FS_CardinalityType
<1>2. /\ o \in [1 .. Cardinality(T) -> T]
      /\ \A i, j \in DOMAIN o : o[i] = o[j] => i = j
  BY DEF Orderings
<1> QED
  BY <1>1, <1>2 DEF In, Once

(* What is in a sequence, and how often, after an ordering is appended. *)
LEMMA ConcatIn ==
    ASSUME NEW S, NEW s \in Seq(S),
           NEW T, T \subseteq S, IsFiniteSet(T), NEW o \in Orderings(T)
    PROVE  /\ s \o o \in Seq(S)
           /\ \A x : In(x, s \o o) => In(x, s) \/ x \in T
           /\ \A x : In(x, s) => In(x, s \o o)
           /\ \A x : Once(x, s) /\ (x \in T => ~In(x, s)) => Once(x, s \o o)
<1> DEFINE t == s \o o
<1>1. o \in Seq(T) /\ (\A x : In(x, o) => x \in T) /\ (\A x : Once(x, o))
  BY OrderingIn
<1>2. o \in Seq(S)
  BY <1>1, SeqMonotonic
<1>3. /\ t \in Seq(S) /\ Len(s) \in Nat /\ Len(o) \in Nat
      /\ Len(t) = Len(s) + Len(o)
      /\ DOMAIN s = 1 .. Len(s) /\ DOMAIN o = 1 .. Len(o) /\ DOMAIN t = 1 .. Len(t)
      /\ \A i \in 1 .. Len(t) : t[i] = IF i <= Len(s) THEN s[i] ELSE o[i - Len(s)]
  BY <1>2, ConcatProperties, LenProperties
<1> HIDE DEF t
<1>4. ASSUME NEW i \in DOMAIN t, i > Len(s)
      PROVE  i - Len(s) \in DOMAIN o /\ t[i] = o[i - Len(s)] /\ t[i] \in T
  BY <1>1, <1>3, <1>4 DEF In
<1>5. \A x : In(x, t) => In(x, s) \/ x \in T
  BY <1>3, <1>4 DEF In
<1>6. \A x : In(x, s) => In(x, t)
  BY <1>3, SMTT(60) DEF In
<1>7. ASSUME NEW x, Once(x, s), x \in T => ~In(x, s),
             NEW i \in DOMAIN t, NEW j \in DOMAIN t, t[i] = x, t[j] = x
      PROVE  i = j
  <2>1. CASE i <= Len(s) /\ j <= Len(s)
    BY <1>3, <1>7, <2>1 DEF Once
  <2>2. CASE i > Len(s) /\ j > Len(s)
    <3>1. i - Len(s) = j - Len(s)
      BY <1>1, <1>4, <1>7, <2>2 DEF Once
    <3> QED
      BY <1>3, <3>1
  <2>3. CASE i <= Len(s) /\ j > Len(s)
    BY <1>3, <1>4, <1>7, <2>3 DEF In
  <2>4. CASE j <= Len(s) /\ i > Len(s)
    BY <1>3, <1>4, <1>7, <2>4 DEF In
  <2> QED
    BY <1>3, <2>1, <2>2, <2>3, <2>4
<1>8. \A x : Once(x, s) /\ (x \in T => ~In(x, s)) => Once(x, t)
  BY <1>7 DEF Once
<1> QED
  BY <1>3, <1>5, <1>6, <1>8 DEF t

-----------------------------------------------------------------------------
(* The graph and every part of it that the code lists is finite. *)
LEMMA GraphIsFinite ==
    /\ IsFiniteSet(Vertices)
    /\ \A v \in Vertices : Deps[v] \subseteq Rules /\ IsFiniteSet(Deps[v])
    /\ \A S \in SUBSET Vertices : IsFiniteSet(S)
<1>1. IsFiniteSet(Vertices)
  BY GraphAssumption, FS_AddElement DEF Vertices
<1>2. ASSUME NEW S \in SUBSET Vertices PROVE IsFiniteSet(S)
  BY <1>1, FS_Subset
<1>3. \A v \in Vertices : Deps[v] \subseteq Rules
  BY GraphAssumption
<1> QED
  BY <1>1, <1>2, <1>3 DEF Vertices

(* The count stays exact when the same dependencies are counted. *)
LEMMA CountKept ==
    ASSUME CountIsExact, mainpc' # "done" => mainpc # "done",
           satisfied' = satisfied,
           \A d \in Rules : Counted(d)' <=> Counted(d)
    PROVE  CountIsExact'
<1> SUFFICES ASSUME mainpc' # "done", NEW v \in Vertices
             PROVE  satisfied'[v] = Cardinality(CountedDeps(v)')
  BY DEF CountIsExact
<1>1. CountedDeps(v)' = CountedDeps(v)
  BY GraphIsFinite DEF CountedDeps
<1> QED
  BY <1>1 DEF CountIsExact

(* The leaves are queued and nothing is known yet. *)
LEMMA InitIInv == Init => IInv
<1> SUFFICES ASSUME Init PROVE IInv
  OBVIOUS
<1> DEFINE leaves == {v \in Vertices : Deps[v] = {}}
<1>1. PICK o \in Orderings(leaves) : jobs = o
  BY DEF Init
<1>2. /\ jobs \in Seq(leaves) /\ (\A x : In(x, jobs) => x \in leaves)
      /\ \A x : Once(x, jobs)
  BY <1>1, GraphIsFinite, OrderingIn
<1>3. checked = <<>> /\ checked \in Seq(Vertices) /\ \A x : ~In(x, checked)
  BY DEF Init, In
<1>4. now \in Nat /\ now > 0 /\ mtime \in [Vertices -> Nat]
      /\ \A v \in Vertices : mtime[v] <= now
  <2>1. now \in Nat /\ Times \union {0} \subseteq Nat
    BY TimesAssumption DEF Init
  <2>2. \A t \in Times \union {0} : t <= now
    BY <2>1 DEF Init
  <2>3. now > 0
    <3>1. PICK t \in Times : t # 0
      BY TimesAssumption
    <3>2. t \in Nat /\ t <= now
      BY <2>1, <2>2
    <3> QED
      BY <2>1, <3>1, <3>2
  <2>4. mtime \in [Vertices -> Times \union {0}]
    BY DEF Init
  <2> QED
    BY <2>1, <2>2, <2>3, <2>4
<1>5. TypeOK
  <2>1. jobs \in Seq(Vertices \union {NULL})
    BY <1>2, SeqMonotonic
  <2> QED
    BY <1>3, <1>4, <2>1 DEF TypeOK, Init
<1>6. \A v \in Vertices : CountedDeps(v) = {}
  BY GraphIsFinite DEF CountedDeps, Counted, Init, Vertices
<1>7. CountIsExact
  BY <1>6, FS_EmptySet DEF CountIsExact, Init
<1>8. ReadyFirst
  <2>1. \A v \in leaves : IsReady(v)
    BY FS_EmptySet DEF IsReady, Init
  <2>2. \A w \in Workers : wpc[w] = "pull"
    BY DEF Init
  <2>3. \A v \in Vertices : state[v] = 1
    BY DEF Init
  <2> QED
    BY <1>2, <2>1, <2>2, <2>3 DEF ReadyFirst, Holds
<1>9. QueuedUndecided /\ OnePlace /\ HoldsVertex
  BY <1>2 DEF QueuedUndecided, OnePlace, HoldsVertex, Holds, Deciding, Init
<1>10. ReportedOnce /\ FailedForReason /\ StartedOnce /\ RootDecided
  BY <1>3 DEF ReportedOnce, FailedForReason, StartedOnce, RootDecided, Init
<1>11. FilesInOrder
  BY <1>4, CommandsAssumption DEF FilesInOrder, Init, Vertices
<1> QED
  BY <1>5, <1>7, <1>8, <1>9, <1>10, <1>11 DEF IInv

(* A worker takes a rule from the queue. *)
LEMMA PullJobStep ==
    ASSUME IInv, NEW w \in Workers, PullJob(w)
    PROVE  IInv'
<1> DEFINE v == Head(jobs)
<1>1. /\ TypeOK /\ wpc[w] = "pull" /\ jobs # <<>> /\ v # NULL
      /\ job' = [job EXCEPT ![w] = v] /\ jobs' = Tail(jobs)
      /\ wpc' = [wpc EXCEPT ![w] = "check"]
      /\ UNCHANGED <<state, satisfied, checked, cmd, mainpc, mtime, now, ran>>
  BY DEF IInv, PullJob, Goto, fileVars
<1>2. /\ jobs \in Seq(Vertices \union {NULL})
      /\ jobs' \in Seq(Vertices \union {NULL}) /\ v \in Vertices
      /\ \A x : In(x, jobs) <=> x = v \/ In(x, jobs')
      /\ \A x : Once(x, jobs) => Once(x, jobs')
      /\ Once(v, jobs) => ~In(v, jobs')
  BY <1>1, TailIn DEF TypeOK
<1> HIDE DEF v
<1>3. TypeOK'
  BY <1>1, <1>2 DEF TypeOK
<1>4. \A u \in Workers : \A x : Holds(u, x)' <=> (Holds(u, x) \/ (u = w /\ x = v))
  BY <1>1 DEF TypeOK, Holds
<1>5. HoldsVertex'
  BY <1>1, <1>2 DEF IInv, HoldsVertex, TypeOK
<1>6. ReadyFirst'
  BY <1>1, <1>2, <1>4 DEF IInv, ReadyFirst, IsReady
<1>7. QueuedUndecided'
  BY <1>1, <1>2 DEF IInv, QueuedUndecided, Deciding, TypeOK
<1>8. OnePlace'
  BY <1>2, <1>4 DEF IInv, OnePlace
<1>9. ReportedOnce'
  BY <1>1 DEF IInv, ReportedOnce, TypeOK
<1>10. CountIsExact'
  <2>1. \A d \in Rules : Counted(d)' <=> Counted(d)
    BY <1>1 DEF Counted, TypeOK
  <2> QED
    BY <1>1, <2>1, CountKept DEF IInv
<1>11. FailedForReason' /\ RootDecided'
  BY <1>1 DEF IInv, FailedForReason, RootDecided
<1>12. StartedOnce'
  BY <1>1 DEF IInv, StartedOnce, TypeOK
<1>13. FilesInOrder'
  BY <1>1 DEF IInv, FilesInOrder, UpToDate, TypeOK
<1> QED
  BY <1>3, <1>5, <1>6, <1>7, <1>8, <1>9, <1>10, <1>11, <1>12, <1>13 DEF IInv

(* A worker takes the pill, or passes it on and ends. *)
LEMMA PillStep ==
    ASSUME IInv, NEW w \in Workers, PullPill(w) \/ PushPill(w)
    PROVE  IInv'
<1>1. /\ TypeOK /\ wpc[w] \in {"pull", "pill"}
      /\ wpc' \in {[wpc EXCEPT ![w] = "pill"], [wpc EXCEPT ![w] = "exit"]}
      /\ UNCHANGED <<state, satisfied, checked, job, cmd, mainpc, mtime, now, ran>>
  BY DEF IInv, PullPill, PushPill, Goto, fileVars
<1>2. /\ jobs' \in Seq(Vertices \union {NULL})
      /\ \A v \in Vertices : /\ In(v, jobs') <=> In(v, jobs)
                             /\ Once(v, jobs) => Once(v, jobs')
  <2>1. CASE PullPill(w)
    BY <1>1, <2>1, TailIn, GraphAssumption DEF TypeOK, PullPill
  <2>2. CASE PushPill(w)
    <3>1. NULL \in Vertices \union {NULL} /\ jobs \in Seq(Vertices \union {NULL})
      BY <1>1 DEF TypeOK
    <3>2. \A v \in Vertices : v # NULL
      BY GraphAssumption
    <3> QED
      BY <2>2, <3>1, <3>2, AppendIn DEF PushPill
  <2> QED
    BY <2>1, <2>2
<1>3. TypeOK'
  BY <1>1, <1>2 DEF TypeOK
<1>4. \A u \in Workers : /\ \A x : Holds(u, x)' <=> Holds(u, x)
                         /\ Deciding(u)' <=> Deciding(u)
                         /\ wpc'[u] = "report" <=> wpc[u] = "report"
                         /\ wpc'[u] = "run" <=> wpc[u] = "run"
  BY <1>1 DEF TypeOK, Holds, Deciding
<1>5. HoldsVertex'
  BY <1>1, <1>4 DEF IInv, HoldsVertex, TypeOK
<1>6. ReadyFirst' /\ QueuedUndecided' /\ OnePlace'
  BY <1>1, <1>2, <1>4
     DEF IInv, ReadyFirst, IsReady, QueuedUndecided, OnePlace
<1>7. ReportedOnce' /\ FailedForReason' /\ StartedOnce' /\ RootDecided'
  BY <1>1, <1>4 DEF IInv, ReportedOnce, FailedForReason, StartedOnce, RootDecided
<1>8. CountIsExact'
  <2>1. \A d \in Rules : Counted(d)' <=> Counted(d)
    BY <1>1, <1>4 DEF Counted
  <2> QED
    BY <1>1, <2>1, CountKept DEF IInv
<1>9. FilesInOrder'
  BY <1>1, <1>4 DEF IInv, FilesInOrder, UpToDate
<1> QED
  BY <1>3, <1>5, <1>6, <1>7, <1>8, <1>9 DEF IInv

(* A worker starts a rule that is out of date. *)
LEMMA StartRuleStep ==
    ASSUME IInv, NEW w \in Workers, StartRule(w)
    PROVE  IInv'
<1> DEFINE v == job[w]
<1>1. /\ TypeOK /\ wpc[w] = "check" /\ v \in Vertices /\ state[v] = 1
      /\ cmd' = [cmd EXCEPT ![w] = 0]
      /\ ran' = [ran EXCEPT ![v] = @ + 1]
      /\ wpc' = [wpc EXCEPT ![w] = "run"]
      /\ UNCHANGED <<state, satisfied, jobs, checked, job, mainpc, mtime, now>>
  BY DEF IInv, StartRule, Goto, fileVars, HoldsVertex, QueuedUndecided, Deciding
<1>2. TypeOK'
  BY <1>1 DEF TypeOK
<1>3. \A u \in Workers : /\ \A x : Holds(u, x)' <=> Holds(u, x)
                         /\ Deciding(u)' <=> Deciding(u)
                         /\ wpc'[u] = "report" <=> wpc[u] = "report"
  BY <1>1 DEF TypeOK, Holds, Deciding
<1>4. HoldsVertex'
  BY <1>1, <1>3 DEF IInv, HoldsVertex, TypeOK
<1>5. ReadyFirst' /\ QueuedUndecided' /\ OnePlace'
  BY <1>1, <1>3 DEF IInv, ReadyFirst, IsReady, QueuedUndecided, OnePlace
<1>6. ReportedOnce' /\ FailedForReason' /\ RootDecided'
  BY <1>1, <1>3 DEF IInv, ReportedOnce, FailedForReason, RootDecided
<1>7. CountIsExact'
  <2>1. \A d \in Rules : Counted(d)' <=> Counted(d)
    BY <1>1, <1>3 DEF Counted
  <2> QED
    BY <1>1, <2>1, CountKept DEF IInv
<1>8. StartedOnce'
  <2>1. ran[v] # 1
    <3>1. \A u \in Workers : wpc[u] = "run" => job[u] # v
      BY <1>1 DEF IInv, OnePlace, Holds
    <3> QED
      BY <1>1, <3>1 DEF IInv, StartedOnce
  <2> QED
    BY <1>1, <2>1 DEF IInv, StartedOnce, TypeOK
<1>9. FilesInOrder'
  <2>1. v \in FileRules => Commands[v] > 0
    BY CommandsAssumption
  <2>2. Commands[v] \in Nat
    BY <1>1, CommandsAssumption
  <2> QED
    BY <1>1, <2>1, <2>2, SMTT(60) DEF IInv, FilesInOrder, UpToDate, TypeOK
<1> QED
  BY <1>2, <1>4, <1>5, <1>6, <1>7, <1>8, <1>9 DEF IInv

(* A command of a rule succeeds. *)
LEMMA RunCommandStep ==
    ASSUME IInv, NEW w \in Workers, RunCommand(w)
    PROVE  IInv'
<1>0. PICK v \in Vertices : v = job[w]
  BY DEF IInv, RunCommand, HoldsVertex
<1>1. /\ TypeOK /\ wpc[w] = "run" /\ cmd[w] < Commands[v]
      /\ state[v] = 1 /\ IsReady(v)
      /\ cmd' = [cmd EXCEPT ![w] = @ + 1]
      /\ UNCHANGED <<state, satisfied, jobs, checked, wpc, job, mainpc, ran>>
  BY <1>0 DEF IInv, RunCommand, HoldsVertex, QueuedUndecided, ReadyFirst, Holds, Deciding
<1>2. /\ now' \in Nat /\ now' >= now
      /\ \/ mtime' = mtime
         \/ mtime' = [mtime EXCEPT ![v] = now']
      /\ v \in FileRules /\ cmd[w] + 1 = Commands[v] => mtime' = [mtime EXCEPT ![v] = now']
  BY <1>0, <1>1 DEF RunCommand, fileVars, TypeOK
<1>3. TypeOK'
  BY <1>1, <1>2 DEF TypeOK
<1>4. HoldsVertex' /\ RootDecided'
  BY <1>1 DEF IInv, HoldsVertex, RootDecided
<1>5. ReadyFirst' /\ QueuedUndecided' /\ OnePlace'
  BY <1>1
     DEF IInv, ReadyFirst, IsReady, QueuedUndecided, OnePlace, Holds, Deciding
<1>6. ReportedOnce' /\ FailedForReason' /\ StartedOnce'
  BY <1>1 DEF IInv, ReportedOnce, FailedForReason, StartedOnce
<1>7. CountIsExact'
  <2>1. \A d \in Rules : Counted(d)' <=> Counted(d)
    BY <1>1 DEF Counted
  <2> QED
    BY <1>1, <2>1, CountKept DEF IInv
<1>8. FilesInOrder'
  <2>1. now' > 0 /\ \A x \in Vertices : mtime'[x] <= now'
    <3>1. now > 0 /\ now \in Nat /\ mtime \in [Vertices -> Nat]
          /\ \A x \in Vertices : mtime[x] <= now
      BY DEF IInv, FilesInOrder, TypeOK
    <3>2. ASSUME NEW x \in Vertices PROVE mtime'[x] <= now'
      <4>1. mtime'[x] = now' \/ mtime'[x] = mtime[x]
        BY <1>2, <3>1
      <4>2. mtime[x] \in Nat /\ mtime[x] <= now
        BY <3>1
      <4> QED
        BY <1>2, <3>1, <4>1, <4>2
    <3> QED
      BY <1>2, <3>1, <3>2
  <2>2. \A x \in Vertices : x # v => mtime'[x] = mtime[x]
    BY <1>1, <1>2 DEF TypeOK
  <2>3. ASSUME NEW x \in Vertices, IsReady(x), x # v, UpToDate(mtime, x)
        PROVE  UpToDate(mtime', x)
    <3>1. \A d \in Deps[x] : d \in Vertices /\ d # v
      BY <1>1, <2>3, GraphIsFinite DEF IsReady, Vertices
    <3> QED
      BY <2>2, <2>3, <3>1 DEF UpToDate
  <2>4. ASSUME NEW x \in FileRules, state'[x] = 0 PROVE UpToDate(mtime', x)
    <3>1. x \in Vertices /\ x # v /\ IsReady(x) /\ UpToDate(mtime, x)
      BY <1>1, <2>4, CommandsAssumption DEF IInv, ReadyFirst, FilesInOrder, Vertices
    <3> QED
      BY <2>3, <3>1
  <2>5. ASSUME NEW u \in Workers, wpc'[u] = "run", u # w
        PROVE  /\ cmd'[u] <= Commands[job'[u]]
               /\ job'[u] \in FileRules /\ cmd'[u] = Commands[job'[u]] => UpToDate(mtime', job'[u])
    <3>1. /\ cmd'[u] = cmd[u] /\ job'[u] = job[u] /\ wpc[u] = "run"
      BY <1>1, <2>5 DEF TypeOK
    <3>2. job[u] \in Vertices /\ job[u] # v /\ IsReady(job[u])
      BY <1>0, <1>1, <2>5, <3>1 DEF IInv, HoldsVertex, OnePlace, ReadyFirst, Holds
    <3> QED
      BY <2>3, <2>5, <3>1, <3>2 DEF IInv, FilesInOrder
  <2>6. /\ cmd'[w] <= Commands[v]
        /\ v \in FileRules /\ cmd'[w] = Commands[v] => UpToDate(mtime', v)
    <3>1. Commands[v] \in Nat /\ cmd[w] \in Nat /\ cmd'[w] = cmd[w] + 1
      BY <1>1, CommandsAssumption DEF TypeOK
    <3>2. ASSUME v \in FileRules, cmd'[w] = Commands[v] PROVE UpToDate(mtime', v)
      <4>1. mtime'[v] = now'
        BY <1>1, <1>2, <3>1, <3>2 DEF TypeOK
      <4>2. \A d \in Deps[v] : d \in Vertices
        BY <1>1, GraphIsFinite DEF Vertices
      <4> QED
        BY <2>1, <4>1, <4>2 DEF UpToDate
    <3> QED
      BY <1>1, <3>1, <3>2
  <2> QED
    BY <1>0, <1>1, <2>1, <2>4, <2>5, <2>6 DEF FilesInOrder
<1> QED
  BY <1>3, <1>4, <1>5, <1>6, <1>7, <1>8 DEF IInv

(* checkSatisfied and execRule set the state of the rule the worker holds. *)
LEMMA DecideStep ==
    ASSUME IInv, NEW w \in Workers, NEW v \in Vertices, NEW result \in {-1, 0},
           Deciding(w), job[w] = v,
           state' = [state EXCEPT ![v] = result],
           Goto(w, "report"),
           UNCHANGED <<satisfied, jobs, checked, job, cmd, mainpc, fileVars, ran>>,
           result = -1 => v # Root,
           result = 0 /\ v \in FileRules => UpToDate(mtime, v)
    PROVE  IInv'
<1>1. /\ TypeOK /\ state[v] = 1 /\ IsReady(v) /\ ~In(v, jobs) /\ ~In(v, checked)
      /\ wpc' = [wpc EXCEPT ![w] = "report"]
      /\ \A u \in Workers : u # w => ~Holds(u, v)
      /\ UNCHANGED <<mtime, now>>
  BY DEF IInv, QueuedUndecided, ReadyFirst, ReportedOnce, OnePlace, Deciding, Holds,
         Goto, fileVars
<1>2. TypeOK'
  BY <1>1 DEF TypeOK
<1>3. state'[v] = result /\ \A x \in Vertices : x # v => state'[x] = state[x]
  BY <1>1 DEF TypeOK
<1>4. \A u \in Workers : /\ \A x : Holds(u, x)' <=> Holds(u, x)
                         /\ Deciding(u)' <=> Deciding(u) /\ u # w
                         /\ wpc'[u] = "report" <=> wpc[u] = "report" \/ u = w
                         /\ wpc'[u] = "run" <=> wpc[u] = "run" /\ u # w
  BY <1>1 DEF TypeOK, Holds, Deciding
<1>5. \A x \in Vertices : \A d \in Deps[x] : d \in Vertices
  BY GraphIsFinite DEF Vertices
<1>6. \A x \in Vertices : IsReady(x) => v \notin Deps[x]
  BY <1>1 DEF IsReady
<1>7. \A x \in Vertices : IsReady(x) => IsReady(x)'
  BY <1>3, <1>5, <1>6 DEF IsReady
<1>8. HoldsVertex'
  BY <1>4 DEF IInv, HoldsVertex, Holds
<1>9. ReadyFirst'
  BY <1>1, <1>3, <1>4, <1>7 DEF IInv, ReadyFirst
<1>10. QueuedUndecided'
  <2>1. \A u \in Workers : Deciding(u)' => job[u] # v
    BY <1>1, <1>4 DEF Holds, Deciding
  <2> QED
    BY <1>1, <1>3, <1>4, <2>1 DEF IInv, QueuedUndecided
<1>11. OnePlace'
  BY <1>4 DEF IInv, OnePlace
<1>12. ReportedOnce'
  <2>1. \A u \in Workers : u # w /\ wpc[u] = "report" => job[u] # v /\ job[u] \in Vertices
    BY <1>1 DEF Holds, IInv, HoldsVertex
  <2>2. Once(v, checked)
    BY <1>1 DEF Once, In
  <2> QED
    BY <1>1, <1>3, <1>4, <2>1, <2>2 DEF IInv, ReportedOnce
<1>13. CountIsExact'
  <2>1. \A d \in Rules : Counted(d)' <=> Counted(d)
    BY <1>1, <1>3, <1>4 DEF Counted, Vertices
  <2> QED
    BY <2>1, CountKept DEF IInv
<1>14. FailedForReason'
  <2>1. ASSUME NEW x \in Vertices, state'[x] = -1, x # v
        PROVE  \/ x # Root /\ satisfied'[x] = Cardinality(Deps[x])
               \/ \E d \in Deps[x] : state'[d] = -1
    <3>1. \/ x # Root /\ satisfied[x] = Cardinality(Deps[x])
          \/ \E d \in Deps[x] : state[d] = -1
      BY <1>3, <2>1 DEF IInv, FailedForReason
    <3> QED
      BY <1>1, <1>3, <1>5, <3>1
  <2>2. state'[v] = -1 => v # Root /\ satisfied'[v] = Cardinality(Deps[v])
    BY <1>1, <1>3 DEF IsReady
  <2> QED
    BY <2>1, <2>2 DEF FailedForReason
<1>15. StartedOnce'
  BY <1>3, <1>4 DEF IInv, StartedOnce
<1>16. FilesInOrder'
  <2>1. \A x \in FileRules : x \in Vertices
    BY CommandsAssumption DEF Vertices
  <2> QED
    BY <1>1, <1>3, <1>4, <2>1 DEF IInv, FilesInOrder
<1>17. RootDecided'
  BY <1>3 DEF IInv, RootDecided
<1> QED
  BY <1>2, <1>8, <1>9, <1>10, <1>11, <1>12, <1>13, <1>14, <1>15, <1>16, <1>17 DEF IInv

(* A worker puts the rule it has decided into checked. *)
LEMMA ReportStep ==
    ASSUME IInv, NEW w \in Workers, Report(w)
    PROVE  IInv'
<1>0. PICK v \in Vertices : v = job[w]
  BY DEF IInv, Report, HoldsVertex
<1>1. /\ TypeOK /\ wpc[w] = "report" /\ state[v] # 1
      /\ state[v] = 0 => ~In(v, checked)
      /\ wpc' = [wpc EXCEPT ![w] = "pull"]
      /\ \A u \in Workers : u # w => ~Holds(u, v)
      /\ UNCHANGED <<state, satisfied, jobs, job, cmd, mainpc, mtime, now, ran>>
  BY <1>0 DEF IInv, Report, Goto, fileVars, ReportedOnce, OnePlace, Holds
<1>2. /\ checked' \in Seq(Vertices)
      /\ \A x : In(x, checked') <=> In(x, checked) \/ x = v
      /\ \A x : Once(x, checked) /\ (x = v => ~In(x, checked)) => Once(x, checked')
  BY <1>0, <1>1, AppendIn DEF Report, TypeOK
<1>3. TypeOK'
  BY <1>1, <1>2 DEF TypeOK
<1>4. \A u \in Workers : /\ \A x : Holds(u, x)' <=> Holds(u, x) /\ u # w
                         /\ Deciding(u)' <=> Deciding(u)
                         /\ wpc'[u] = "report" <=> wpc[u] = "report" /\ u # w
                         /\ wpc'[u] = "run" <=> wpc[u] = "run"
  BY <1>1 DEF TypeOK, Holds, Deciding
<1>5. HoldsVertex'
  BY <1>1, <1>4 DEF IInv, HoldsVertex, Holds
<1>6. ReadyFirst' /\ QueuedUndecided' /\ OnePlace'
  BY <1>1, <1>4 DEF IInv, ReadyFirst, IsReady, QueuedUndecided, OnePlace
<1>7. ReportedOnce'
  BY <1>1, <1>2, <1>4 DEF IInv, ReportedOnce, Holds
<1>8. CountIsExact'
  <2>1. \A d \in Rules : Counted(d)' <=> Counted(d)
    BY <1>0, <1>1, <1>2, <1>4 DEF Counted
  <2> QED
    BY <1>1, <2>1, CountKept DEF IInv
<1>9. FailedForReason' /\ StartedOnce' /\ RootDecided'
  BY <1>1, <1>4 DEF IInv, FailedForReason, StartedOnce, RootDecided
<1>10. FilesInOrder'
  BY <1>1, <1>4 DEF IInv, FilesInOrder
<1> QED
  BY <1>3, <1>5, <1>6, <1>7, <1>8, <1>9, <1>10 DEF IInv

(* The main thread leaves its loop, sends the pill, joins the workers. *)
LEMMA MainEndStep ==
    ASSUME IInv, MainBreak \/ MainPill \/ MainJoin
    PROVE  IInv'
<1>1. /\ TypeOK /\ mainpc # "done" /\ mainpc' \in {"pill", "join", "done"}
      /\ UNCHANGED <<state, satisfied, wpc, job, cmd, mtime, now, ran>>
  BY DEF IInv, MainBreak, MainPill, MainJoin, workerVars, fileVars
<1>2. /\ jobs' \in Seq(Vertices \union {NULL})
      /\ \A v \in Vertices : /\ In(v, jobs') => In(v, jobs)
                             /\ Once(v, jobs) => Once(v, jobs')
  <2>1. CASE MainBreak
    BY <1>1, <2>1 DEF MainBreak, TypeOK
  <2>2. CASE MainPill
    <3>1. NULL \in Vertices \union {NULL} /\ jobs \in Seq(Vertices \union {NULL})
      BY <1>1 DEF TypeOK
    <3>2. \A v \in Vertices : v # NULL
      BY GraphAssumption
    <3> QED
      BY <2>2, <3>1, <3>2, AppendIn DEF MainPill
  <2>3. CASE MainJoin
    BY <2>3 DEF MainJoin, In, Once
  <2> QED
    BY <2>1, <2>2, <2>3
<1>3. /\ checked' \in Seq(Vertices)
      /\ \A v \in Vertices : /\ In(v, checked') => In(v, checked)
                             /\ Once(v, checked) => Once(v, checked')
      /\ mainpc' # "done" => \A v \in Rules : In(v, checked) => In(v, checked')
      /\ mainpc = "loop" => In(Root, checked)
  <2>1. CASE MainBreak
    <3>1. Root \notin Rules
      BY GraphAssumption
    <3> QED
      BY <1>1, <2>1, <3>1, TailIn DEF MainBreak, TypeOK
  <2>2. CASE MainPill
    BY <1>1, <2>2 DEF MainPill, TypeOK
  <2>3. CASE MainJoin
    BY <2>3 DEF MainJoin, In, Once
  <2> QED
    BY <2>1, <2>2, <2>3
<1>4. TypeOK'
  BY <1>1, <1>2, <1>3 DEF TypeOK
<1>5. HoldsVertex' /\ ReadyFirst' /\ QueuedUndecided' /\ OnePlace'
  BY <1>1, <1>2
     DEF IInv, HoldsVertex, ReadyFirst, IsReady, QueuedUndecided, OnePlace, Holds, Deciding
<1>6. ReportedOnce'
  BY <1>1, <1>3 DEF IInv, ReportedOnce, HoldsVertex
<1>7. CountIsExact'
  <2>1. CASE mainpc' = "done"
    BY <2>1 DEF CountIsExact
  <2>2. CASE mainpc' # "done"
    <3>1. \A d \in Rules : Counted(d)' <=> Counted(d)
      BY <1>1, <1>3, <2>2 DEF Counted, Vertices
    <3> QED
      BY <1>1, <3>1, CountKept DEF IInv
  <2> QED
    BY <2>1, <2>2
<1>8. FailedForReason' /\ StartedOnce' /\ FilesInOrder'
  BY <1>1 DEF IInv, FailedForReason, StartedOnce, FilesInOrder
<1>9. RootDecided'
  BY <1>1, <1>3 DEF IInv, RootDecided, ReportedOnce, Vertices
<1> QED
  BY <1>4, <1>5, <1>6, <1>7, <1>8, <1>9 DEF IInv

(* A failed rule fails its parents: none of them can have been queued. *)
LEMMA MainFailedStep ==
    ASSUME IInv, NEW r \in Rules, MainFailed(r)
    PROVE  IInv'
<1>1. /\ TypeOK /\ mainpc = "loop" /\ checked # <<>> /\ r = Head(checked)
      /\ r \in Vertices /\ state[r] = -1
      /\ state' = [v \in Vertices |-> IF v \in Parents(r) THEN -1 ELSE state[v]]
      /\ UNCHANGED <<satisfied, jobs, wpc, job, cmd, mainpc, mtime, now, ran>>
  BY DEF IInv, MainFailed, MainPulls, workerVars, fileVars, Vertices
<1>2. PICK o \in Orderings(Parents(r)) : checked' = Tail(checked) \o o
  BY DEF MainFailed
<1>3. /\ checked' \in Seq(Vertices)
      /\ In(r, checked)
      /\ \A x : In(x, checked') => In(x, checked) \/ x \in Parents(r)
      /\ \A x : In(x, checked) => x = r \/ In(x, checked')
      /\ \A x : Once(x, checked) /\ x \notin Parents(r) => Once(x, checked')
  <2>1. Parents(r) \subseteq Vertices /\ IsFiniteSet(Parents(r))
    BY GraphIsFinite DEF Parents
  <2>2. /\ Tail(checked) \in Seq(Vertices)
        /\ \A x : In(x, checked) <=> x = r \/ In(x, Tail(checked))
        /\ \A x : Once(x, checked) => Once(x, Tail(checked))
    BY <1>1, TailIn DEF TypeOK
  <2> QED
    BY <1>2, <2>1, <2>2, ConcatIn
<1>4. TypeOK'
  BY <1>1, <1>3 DEF TypeOK
<1>5. \A x \in Vertices : \A d \in Deps[x] : d \in Vertices
  BY GraphIsFinite DEF Vertices
<1>6. \A x \in Vertices : IsReady(x) => x \notin Parents(r)
  BY <1>1 DEF IsReady, Parents
<1>7. \A x \in Vertices : /\ state'[x] = 0 <=> state[x] = 0
                          /\ state[x] = -1 => state'[x] = -1
                          /\ state[x] # 1 => state'[x] # 1
                          /\ x \in Parents(r) => state'[x] = -1
                          /\ x \notin Parents(r) => state'[x] = state[x]
  BY <1>1, <1>6 DEF IInv, ReadyFirst, TypeOK
<1>8. \A x \in Vertices : IsReady(x)' <=> IsReady(x)
  BY <1>1, <1>5, <1>7 DEF IsReady
<1>9. HoldsVertex' /\ ReadyFirst' /\ OnePlace'
  BY <1>1, <1>7, <1>8 DEF IInv, HoldsVertex, ReadyFirst, OnePlace, Holds
<1>10. QueuedUndecided'
  <2>1. ASSUME NEW x \in Vertices,
               In(x, jobs) \/ \E w \in Workers : Deciding(w) /\ job[w] = x
        PROVE  state[x] = 1 /\ x \notin Parents(r)
    BY <1>6, <2>1 DEF IInv, QueuedUndecided, ReadyFirst, Deciding, Holds
  <2> QED
    BY <1>1, <1>7, <2>1 DEF QueuedUndecided, Deciding
<1>11. ReportedOnce'
  <2>1. \A x \in Vertices : In(x, checked') => state'[x] # 1
    BY <1>3, <1>7 DEF IInv, ReportedOnce
  <2>2. \A x \in Vertices : state'[x] = 0 => Once(x, checked') /\ x \notin Parents(r)
    BY <1>3, <1>7 DEF IInv, ReportedOnce
  <2>3. ASSUME NEW w \in Workers, wpc'[w] = "report"
        PROVE  state'[job'[w]] # 1 /\ (state'[job'[w]] = 0 => ~In(job'[w], checked'))
    <3>1. job[w] \in Vertices /\ job'[w] = job[w] /\ wpc[w] = "report"
      BY <1>1, <2>3 DEF IInv, HoldsVertex
    <3> QED
      BY <1>3, <1>7, <2>2, <3>1 DEF IInv, ReportedOnce
  <2> QED
    BY <2>1, <2>2, <2>3 DEF ReportedOnce
<1>12. CountIsExact'
  <2>1. ASSUME NEW d \in Rules PROVE Counted(d)' <=> Counted(d)
    <3>1. d \in Vertices
      BY DEF Vertices
    <3>2. state[d] = 0 => d # r /\ d \notin Parents(r)
      BY <1>1, <1>7, <3>1
    <3> QED
      BY <1>1, <1>3, <1>7, <3>1, <3>2 DEF Counted
  <2> QED
    BY <1>1, <2>1, CountKept DEF IInv
<1>13. FailedForReason'
  <2>1. ASSUME NEW x \in Vertices, state'[x] = -1
        PROVE  \/ x # Root /\ satisfied'[x] = Cardinality(Deps[x])
               \/ \E d \in Deps[x] : state'[d] = -1
    <3>1. CASE x \in Parents(r)
      <4>1. r \in Deps[x] /\ state'[r] = -1
        BY <1>1, <1>7, <3>1 DEF Parents
      <4> QED
        BY <4>1
    <3>2. CASE x \notin Parents(r)
      BY <1>1, <1>5, <1>7, <2>1, <3>2 DEF IInv, FailedForReason
    <3> QED
      BY <3>1, <3>2
  <2> QED
    BY <2>1 DEF FailedForReason
<1>14. StartedOnce' /\ RootDecided'
  BY <1>1, <1>7 DEF IInv, StartedOnce, RootDecided
<1>15. FilesInOrder'
  <2>1. \A x \in FileRules : x \in Vertices
    BY CommandsAssumption DEF Vertices
  <2> QED
    BY <1>1, <1>7, <2>1 DEF IInv, FilesInOrder
<1> QED
  BY <1>4, <1>9, <1>10, <1>11, <1>12, <1>13, <1>14, <1>15 DEF IInv

(* A satisfied rule is counted, once, and completes the parents it queues. *)
LEMMA MainDoneStep ==
    ASSUME IInv, NEW r \in Rules, MainDone(r)
    PROVE  IInv'
<1>1. /\ TypeOK /\ mainpc = "loop" /\ checked # <<>> /\ r = Head(checked)
      /\ r \in Vertices /\ state[r] = 0
      /\ satisfied' = [v \in Vertices |->
                          satisfied[v] + IF v \in Parents(r) THEN 1 ELSE 0]
      /\ checked' = Tail(checked)
      /\ UNCHANGED <<state, wpc, job, cmd, mainpc, mtime, now, ran>>
  BY DEF IInv, MainDone, MainPulls, CountFor, workerVars, fileVars, Vertices
<1>2. PICK o \in Orderings(Released(r)) : jobs' = jobs \o o
  BY DEF MainDone, CountFor
<1>3. /\ checked' \in Seq(Vertices)
      /\ In(r, checked) /\ ~In(r, checked')
      /\ \A x : x # r => (In(x, checked') <=> In(x, checked))
      /\ \A x : Once(x, checked) => Once(x, checked')
  BY <1>1, TailIn DEF TypeOK, IInv, ReportedOnce
<1>4. /\ jobs' \in Seq(Vertices \union {NULL})
      /\ \A x : In(x, jobs') => In(x, jobs) \/ x \in Released(r)
      /\ \A x : Once(x, jobs) /\ (x \in Released(r) => ~In(x, jobs)) => Once(x, jobs')
  <2>1. Released(r) \subseteq Vertices /\ IsFiniteSet(Released(r))
    BY GraphIsFinite DEF Released, Parents
  <2>2. Released(r) \subseteq Vertices \union {NULL} /\ jobs \in Seq(Vertices \union {NULL})
    BY <1>1, <2>1 DEF TypeOK
  <2> QED
    BY <1>2, <2>1, <2>2, ConcatIn
<1>5. TypeOK'
  BY <1>1, <1>3, <1>4, SMTT(60) DEF TypeOK
<1>6. ~Counted(r) /\ Counted(r)' /\ \A d \in Rules : d # r => (Counted(d)' <=> Counted(d))
  <2>1. \A w \in Workers : wpc[w] = "report" => job[w] # r
    BY <1>1, <1>3 DEF IInv, ReportedOnce
  <2> QED
    BY <1>1, <1>3, <2>1 DEF Counted
<1>7. \A v \in Vertices : /\ IsFiniteSet(CountedDeps(v)) /\ IsFiniteSet(Deps[v])
                          /\ CountedDeps(v) \subseteq Deps[v]
                          /\ Cardinality(CountedDeps(v)) \in Nat
                          /\ Cardinality(Deps[v]) \in Nat
                          /\ satisfied[v] = Cardinality(CountedDeps(v))
  <2>1. \A v \in Vertices : CountedDeps(v) \subseteq Deps[v] /\ Deps[v] \subseteq Vertices
    BY GraphIsFinite DEF CountedDeps, Vertices
  <2>2. \A v \in Vertices : IsFiniteSet(CountedDeps(v)) /\ IsFiniteSet(Deps[v])
    BY <2>1, GraphIsFinite
  <2>3. \A v \in Vertices : satisfied[v] = Cardinality(CountedDeps(v))
    BY <1>1 DEF IInv, CountIsExact
  <2> QED
    BY <2>1, <2>2, <2>3, FS_CardinalityType
<1>8. \A v \in Vertices :
         CountedDeps(v)' = IF v \in Parents(r) THEN CountedDeps(v) \union {r}
                                               ELSE CountedDeps(v)
  <2>1. \A v \in Vertices : Deps[v] \subseteq Rules /\ (v \in Parents(r) <=> r \in Deps[v])
    BY GraphIsFinite DEF Parents
  <2> QED
    BY <1>6, <2>1 DEF CountedDeps
<1>9. CountIsExact'
  <2>1. ASSUME NEW v \in Vertices
        PROVE  satisfied'[v] = Cardinality(CountedDeps(v)')
    <3>1. CASE v \in Parents(r)
      <4>1. r \notin CountedDeps(v)
        BY <1>6 DEF CountedDeps
      <4>2. Cardinality(CountedDeps(v) \union {r}) = Cardinality(CountedDeps(v)) + 1
        BY <1>7, <4>1, FS_AddElement
      <4> QED
        BY <1>1, <1>7, <1>8, <3>1, <4>2
    <3>2. CASE v \notin Parents(r)
      BY <1>1, <1>7, <1>8, <3>2
    <3> QED
      BY <3>1, <3>2
  <2> QED
    BY <2>1 DEF CountIsExact
<1>10. ASSUME NEW v \in Vertices, satisfied[v] = Cardinality(Deps[v])
       PROVE  v \notin Parents(r) /\ satisfied'[v] = satisfied[v]
  <2>1. CountedDeps(v) = Deps[v]
    BY <1>7, <1>10, FS_Subset
  <2>2. v \notin Parents(r)
    BY <1>6, <2>1 DEF CountedDeps, Parents
  <2> QED
    BY <1>1, <1>7, <2>2
<1>11. ASSUME NEW v \in Released(r)
       PROVE  /\ v \in Vertices /\ ~IsReady(v) /\ IsReady(v)'
              /\ state[v] = 1 /\ ~In(v, jobs) /\ \A w \in Workers : ~Holds(w, v)
  <2>1. v \in Vertices /\ v \in Parents(r) /\ satisfied[v] + 1 = Cardinality(Deps[v])
    BY DEF Released, Parents
  <2>2. satisfied[v] # Cardinality(Deps[v])
    BY <1>7, <2>1
  <2>3. satisfied'[v] = Cardinality(Deps[v])
    BY <1>1, <2>1
  <2>4. CountedDeps(v)' = Deps[v]
    <3>1. CountedDeps(v)' \subseteq Deps[v]
      BY DEF CountedDeps
    <3>2. Cardinality(CountedDeps(v)') = Cardinality(Deps[v])
      BY <1>1, <1>9, <2>1, <2>3 DEF CountIsExact
    <3> QED
      BY <1>7, <2>1, <3>1, <3>2, FS_Subset
  <2>5. \A d \in Deps[v] : state[d] = 0
    BY <1>1, <2>4 DEF CountedDeps, Counted
  <2>6. IsReady(v)' /\ ~IsReady(v)
    BY <1>1, <2>2, <2>3, <2>5 DEF IsReady
  <2>7. state[v] # 0 /\ ~In(v, jobs) /\ \A w \in Workers : ~Holds(w, v)
    BY <2>1, <2>6 DEF IInv, ReadyFirst
  <2>8. state[v] # -1
    BY <2>1, <2>2, <2>5 DEF IInv, FailedForReason
  <2> QED
    BY <1>1, <2>1, <2>6, <2>7, <2>8 DEF TypeOK
<1>12. \A v \in Vertices : IsReady(v) => IsReady(v)'
  BY <1>1, <1>10 DEF IsReady
<1>13. HoldsVertex' /\ RootDecided'
  BY <1>1 DEF IInv, HoldsVertex, RootDecided
<1>14. ReadyFirst'
  BY <1>1, <1>4, <1>11, <1>12 DEF IInv, ReadyFirst, Holds
<1>15. QueuedUndecided'
  BY <1>1, <1>4, <1>11 DEF IInv, QueuedUndecided, Deciding
<1>16. OnePlace'
  BY <1>1, <1>4, <1>11 DEF IInv, OnePlace, Holds
<1>17. ReportedOnce'
  <2>1. \A x : In(x, checked') => In(x, checked)
    BY <1>3
  <2> QED
    BY <1>1, <1>3, <2>1 DEF IInv, ReportedOnce
<1>18. FailedForReason'
  BY <1>1, <1>10 DEF IInv, FailedForReason
<1>19. StartedOnce' /\ FilesInOrder'
  BY <1>1 DEF IInv, StartedOnce, FilesInOrder
<1> QED
  BY <1>5, <1>9, <1>13, <1>14, <1>15, <1>16, <1>17, <1>18, <1>19 DEF IInv

-----------------------------------------------------------------------------
(* A step of a worker that decides the rule it holds. *)
LEMMA WorkerDecides ==
    ASSUME IInv, NEW w \in Workers, SkipRule(w) \/ CommandFails(w) \/ FinishRule(w)
    PROVE  \E v \in Vertices, result \in {-1, 0} :
              /\ Deciding(w) /\ job[w] = v
              /\ state' = [state EXCEPT ![v] = result]
              /\ Goto(w, "report")
              /\ UNCHANGED <<satisfied, jobs, checked, job, cmd, mainpc, fileVars, ran>>
              /\ result = -1 => v # Root
              /\ result = 0 /\ v \in FileRules => UpToDate(mtime, v)
<1>0. PICK v \in Vertices : v = job[w]
  BY DEF IInv, HoldsVertex, SkipRule, CommandFails, FinishRule
<1>1. mtime \in [Vertices -> Nat] /\ Deps[v] \subseteq Vertices
  BY GraphIsFinite DEF IInv, TypeOK, Vertices
<1>2. CASE SkipRule(w)
  <2>1. mtime[v] > 0 /\ \A d \in Deps[v] : mtime[d] <= mtime[v]
    BY <1>0, <1>1, <1>2 DEF SkipRule, rule_valid_to_run
  <2>2. 0 \in {-1, 0} /\ 0 # -1
    OBVIOUS
  <2> WITNESS v \in Vertices, 0 \in {-1, 0}
  <2> QED
    BY <1>0, <1>2, <2>1, <2>2 DEF SkipRule, Deciding, UpToDate
<1>3. CASE CommandFails(w)
  <2>1. v # Root
    BY <1>0, <1>3, CommandsAssumption DEF CommandFails, IInv, TypeOK
  <2>2. -1 \in {-1, 0} /\ -1 # 0
    OBVIOUS
  <2> WITNESS v \in Vertices, -1 \in {-1, 0}
  <2> QED
    BY <1>0, <1>3, <2>1, <2>2 DEF CommandFails, Deciding
<1>4. CASE FinishRule(w)
  <2>1. v \in FileRules => UpToDate(mtime, v)
    BY <1>0, <1>4 DEF FinishRule, IInv, FilesInOrder
  <2>2. 0 \in {-1, 0} /\ 0 # -1
    OBVIOUS
  <2> WITNESS v \in Vertices, 0 \in {-1, 0}
  <2> QED
    BY <1>0, <1>4, <2>1, <2>2 DEF FinishRule, Deciding
<1> QED
  BY <1>2, <1>3, <1>4

(* Every step of the workers and of the main thread keeps the invariant. *)
LEMMA NextIInv == IInv /\ [Next]_vars => IInv'
<1> SUFFICES ASSUME IInv, [Next]_vars PROVE IInv'
  OBVIOUS
<1>1. ASSUME NEW w \in Workers, SkipRule(w) \/ CommandFails(w) \/ FinishRule(w)
      PROVE  IInv'
  <2>1. PICK v \in Vertices, result \in {-1, 0} :
              /\ Deciding(w) /\ job[w] = v
              /\ state' = [state EXCEPT ![v] = result]
              /\ Goto(w, "report")
              /\ UNCHANGED <<satisfied, jobs, checked, job, cmd, mainpc, fileVars, ran>>
              /\ result = -1 => v # Root
              /\ result = 0 /\ v \in FileRules => UpToDate(mtime, v)
    BY <1>1, WorkerDecides
  <2> QED
    BY <2>1, DecideStep
<1>2. ASSUME NEW w \in Workers, Work(w) PROVE IInv'
  <2>1. CASE PullJob(w)
    BY <2>1, PullJobStep
  <2>2. CASE PullPill(w) \/ PushPill(w)
    BY <2>2, PillStep
  <2>3. CASE StartRule(w)
    BY <2>3, StartRuleStep
  <2>4. CASE RunCommand(w)
    BY <2>4, RunCommandStep
  <2>5. CASE Report(w)
    BY <2>5, ReportStep
  <2> QED
    BY <1>1, <1>2, <2>1, <2>2, <2>3, <2>4, <2>5 DEF Work
<1>3. ASSUME Main PROVE IInv'
  BY <1>3, MainFailedStep, MainDoneStep, MainEndStep DEF Main
<1>4. ASSUME UNCHANGED vars PROVE IInv'
  <2>1. UNCHANGED <<state, satisfied, jobs, checked, wpc, job, cmd, mainpc, mtime, now, ran>>
    BY <1>4 DEF vars, workerVars, fileVars
  <2>2. TypeOK' /\ HoldsVertex' /\ RootDecided'
    BY <2>1 DEF IInv, TypeOK, HoldsVertex, RootDecided
  <2>3. ReadyFirst' /\ QueuedUndecided' /\ OnePlace' /\ ReportedOnce'
    BY <2>1 DEF IInv, ReadyFirst, IsReady, QueuedUndecided, OnePlace, ReportedOnce,
                Holds, Deciding
  <2>4. CountIsExact'
    <3>1. \A d \in Rules : Counted(d)' <=> Counted(d)
      BY <2>1 DEF Counted
    <3> QED
      BY <2>1, <3>1, CountKept DEF IInv
  <2>5. FailedForReason' /\ StartedOnce' /\ FilesInOrder'
    BY <2>1 DEF IInv, FailedForReason, StartedOnce, FilesInOrder
  <2> QED
    BY <2>2, <2>3, <2>4, <2>5 DEF IInv
<1> QED
  BY <1>2, <1>3, <1>4 DEF Next, Terminated

-----------------------------------------------------------------------------
(***************************************************************************)
(* The invariant holds in every reachable state of parmake.                *)
(***************************************************************************)
THEOREM Invariance == Spec => []IInv
  BY InitIInv, NextIInv, PTL DEF Spec

(* The scheduler's variables keep their types. *)
THEOREM TypeCorrect == Spec => []TypeOK
<1>1. IInv => TypeOK
  BY DEF IInv
<1> QED
  BY <1>1, Invariance, PTL

(***************************************************************************)
(* For any graph, any number of workers and any order of their reports, a  *)
(* rule is looked at only when its dependencies are satisfied, and its     *)
(* commands are started at most once.                                      *)
(***************************************************************************)
THEOREM OrderIsKept == Spec => []RunsInOrder
<1>1. IInv => RunsInOrder
  <2> SUFFICES ASSUME IInv PROVE RunsInOrder
    OBVIOUS
  <2>1. DependenciesFirst
    BY DEF IInv, HoldsVertex, ReadyFirst, IsReady, Holds, DependenciesFirst
  <2>2. RunAtMostOnce
    BY DEF IInv, StartedOnce, RunAtMostOnce
  <2> QED
    BY <2>1, <2>2 DEF RunsInOrder
<1> QED
  BY <1>1, Invariance, PTL

(***************************************************************************)
(* When parmake returns, its answer is true: the set of satisfied rules is *)
(* closed under dependencies, so with the sentinel it holds every vertex,  *)
(* and if the sentinel is not satisfied a command failed.                  *)
(***************************************************************************)
THEOREM AnswerIsTrue == Spec => []ResultIsTrue
<1>1. IInv => ResultIsTrue
  <2> SUFFICES ASSUME IInv PROVE ResultIsTrue
    OBVIOUS
  <2> DEFINE Done == {v \in Vertices : state[v] = 0}
  <2>1. ASSUME state[Root] = 0 PROVE \A v \in Vertices : state[v] = 0
    <3>1. Root \in Done /\ Done \in SUBSET Vertices
      BY <2>1 DEF Vertices
    <3>2. \A v \in Done : Deps[v] \subseteq Done
      BY GraphIsFinite DEF IInv, ReadyFirst, IsReady, Vertices
    <3>3. Done = Vertices
      BY <3>1, <3>2, GraphAssumption DEF Useful
    <3> QED
      BY <3>3
  <2>2. SuccessMeansBuilt
    <3>1. ASSUME state[Root] = 0, NEW v \in Vertices, v \in FileRules
          PROVE  UpToDate(mtime, v)
      BY <2>1, <3>1 DEF IInv, FilesInOrder
    <3> QED
      BY <2>1, <3>1 DEF SuccessMeansBuilt, Built, UpToDate
  <2>3. FailureReachesRoot
    <3>1. ASSUME state[Root] = -1 PROVE \E r \in Rules : state[r] = -1
      BY <3>1, GraphIsFinite DEF IInv, FailedForReason, Vertices
    <3>2. ASSUME mainpc = "done", state[Root] # -1 PROVE \A r \in Rules : state[r] # -1
      <4>1. state[Root] = 0
        BY <3>2 DEF IInv, RootDecided, TypeOK, Vertices
      <4> QED
        BY <2>1, <4>1 DEF Vertices
    <3> QED
      BY <3>1, <3>2 DEF FailureReachesRoot
  <2> QED
    BY <2>2, <2>3 DEF ResultIsTrue
<1> QED
  BY <1>1, Invariance, PTL

(***************************************************************************)
(* A rule that is satisfied or failed stays so: the worker that decides a  *)
(* rule holds it undecided, and a parent of a failed rule is not satisfied *)
(* when the main thread overwrites its state.                              *)
(***************************************************************************)
THEOREM DecisionsAreFinal == Spec => DecidedForGood
<1>1. IInv /\ [Next]_vars => [\A v \in Vertices : state[v] # 1 => state'[v] = state[v]]_vars
  <2> SUFFICES ASSUME IInv, Next
               PROVE  \A v \in Vertices : state[v] # 1 => state'[v] = state[v]
    OBVIOUS
  <2>1. ASSUME NEW w \in Workers, SkipRule(w) \/ CommandFails(w) \/ FinishRule(w)
        PROVE  \A v \in Vertices : state[v] # 1 => state'[v] = state[v]
    <3>1. PICK x \in Vertices, result \in {-1, 0} :
             Deciding(w) /\ job[w] = x /\ state' = [state EXCEPT ![x] = result]
      BY <2>1, WorkerDecides
    <3>2. state[x] = 1
      BY <3>1 DEF IInv, QueuedUndecided
    <3> QED
      BY <3>1, <3>2 DEF IInv, TypeOK
  <2>2. ASSUME NEW r \in Rules, MainFailed(r)
        PROVE  \A v \in Vertices : state[v] # 1 => state'[v] = state[v]
    <3>1. \A v \in Vertices : state[v] = 0 => v \notin Parents(r)
      BY <2>2 DEF IInv, ReadyFirst, IsReady, MainFailed, Parents
    <3> QED
      BY <2>2, <3>1 DEF MainFailed, IInv, TypeOK
  <2>3. \/ UNCHANGED state
        \/ \E w \in Workers : SkipRule(w) \/ CommandFails(w) \/ FinishRule(w)
        \/ \E r \in Rules : MainFailed(r)
    BY DEF Next, Work, Main, Terminated, vars, PullJob, PullPill, PushPill, StartRule,
           RunCommand, Report, MainDone, CountFor, MainBreak, MainPill, MainJoin
  <2> QED
    BY <2>1, <2>2, <2>3
<1> QED
  BY <1>1, Invariance, PTL DEF Spec, DecidedForGood

=============================================================================

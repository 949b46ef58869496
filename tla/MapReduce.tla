----------------------------- MODULE MapReduce ------------------------------
(***************************************************************************)
(* mapreduce/: one splitter and one mapper process for each part of the    *)
(* input and one reducer, connected by pipes.  Pipe i carries lines to     *)
(* mapper i, pipe 0 carries the pairs of all mappers to the reducer.  Only *)
(* who holds which write end matters for the end of a pipe; the read ends  *)
(* stay open in the parent, so that no writer ever gets SIGPIPE.           *)
(***************************************************************************)
EXTENDS Naturals, Sequences, SequencesExt, FiniteSets, Functions

CONSTANTS count,         \* mappers
          Inputs,        \* possible input files, sequences of characters
          Mappers,       \* the mappers/ programs it is run with
          Letters,       \* the characters that are letters
          tolower,       \* the small letter of each
          PipeSize,      \* bound: items a pipe holds
          OlderSizes,    \* how long the output file may be beforehand
          Faults         \* what may go wrong: "fork", "input", "mapper", "reducer"

ASSUME MapReduceAssumption == count \in Nat \ {0} /\ PipeSize \in Nat \ {0}

(* An input is what mmap gives, a mapper one of the programs in mappers/.  *)
ASSUME InputAssumption ==
    /\ \A d \in Inputs : d \in Seq(Range(d))
    /\ Mappers \subseteq {"wordcount", "wordlengths", "lettercount", "asciicount"}
    /\ OlderSizes \subseteq Nat

VARIABLES input, mapperName, broken, older,    \* chosen at the start
          mainPc, mainI,     \* main: where it is, and for which part
          status,            \* status[p]: "none", "run", "ok" or "fail"
          ends,              \* ends[p]: pipes whose write end p holds
          pipe,              \* pipe[q]: what is in pipe q
          unsent,            \* unsent[p]: items p still has to write
          datastore,
          output             \* the file: what the reducer wrote, what is behind it

mrVars == <<input, mapperName, broken, older, mainPc, mainI, status, ends, pipe, unsent,
            datastore, output>>

Parts    == 1..count
Main     == <<"main", 0>>
Splitter(i) == <<"splitter", i>>
MapperOf(i) == <<"mapper", i>>
Reducer  == <<"reducer", 0>>
Processes == {Main, Reducer} \cup {Splitter(i) : i \in Parts} \cup {MapperOf(i) : i \in Parts}
Pipes    == 0..count
NL       == "newline"

-----------------------------------------------------------------------------
(* splitter.c: part idx (from 0) of the input, moved to the next line ends. *)
getSubrange(length, idx) ==
    [start |-> (length * idx) \div count, end |-> (length * (idx + 1)) \div count]

(* The place behind the first newline at or behind p (counted from 0). *)
nextLine(d, p) ==
    LET at == {k \in p..(Len(d) - 1) : d[k + 1] = NL}
    IN  IF at = {} THEN Len(d) ELSE (CHOOSE k \in at : \A j \in at : k <= j) + 1

SplitAtEnd(d, idx) ==    \* mutant: the start is not moved to a line's start
    LET r == getSubrange(Len(d), idx)
        start == IF idx = 0 THEN 0 ELSE r.start
        end   == IF idx = count - 1 THEN Len(d) ELSE nextLine(d, r.end)
    IN  IF end > start THEN SubSeq(d, start + 1, end) ELSE <<>>

write_portion(d, idx) ==
    LET r == getSubrange(Len(d), idx)
        start == IF idx = 0 THEN 0 ELSE nextLine(d, r.start)
        end   == IF idx = count - 1 THEN Len(d) ELSE nextLine(d, r.end)
    IN  IF end > start THEN SubSeq(d, start + 1, end) ELSE <<>>

(* The maximal runs of characters other than c, and getline's lines. *)
RunsWithout(s, c) ==
    LET Add(runs, x) ==
            CASE x # c                          -> Append(Front(runs), Append(Last(runs), x))
              [] x = c /\ Last(runs) = <<>>     -> runs
              [] x = c /\ Last(runs) # <<>>     -> Append(runs, <<>>)
        all == FoldLeft(Add, <<<<>>>>, s)
    IN  IF Last(all) = <<>> THEN Front(all) ELSE all

(* mappers/: the keys a line is mapped to, each with the value 1. *)
Words(line)   == RunsWithout(line, " ")
LettersOf(line) ==
    LET at == {i \in DOMAIN line : line[i] \in Letters}
    IN  [k \in 1..Cardinality(at) |->
            line[CHOOSE i \in at : Cardinality({j \in at : j <= i}) = k]]
replace_chars(w) == [x \in DOMAIN w |-> IF w[x] = ":" THEN ";" ELSE w[x]]

wordcount(line)   == [k \in DOMAIN Words(line) |-> replace_chars(Words(line)[k])]
wordlengths(line) == [k \in DOMAIN Words(line) |-> <<Len(Words(line)[k])>>]
lettercount(line) == [k \in DOMAIN LettersOf(line) |-> <<"letters">>]
asciicount(line)  == [k \in DOMAIN LettersOf(line) |-> <<tolower[LettersOf(line)[k]]>>]

mapper(line) ==
    CASE mapperName = "wordcount"   -> wordcount(line)
      [] mapperName = "wordlengths" -> wordlengths(line)
      [] mapperName = "lettercount" -> lettercount(line)
      [] mapperName = "asciicount"  -> asciicount(line)

(* sum.c under run_reducer_on: get, then update or put. *)
datastore_get(ds, key) == IF key \in DOMAIN ds THEN {ds[key]} ELSE {}
datastore_put(ds, key, v) == IF key \in DOMAIN ds THEN ds
                             ELSE [k \in DOMAIN ds \cup {key} |-> IF k = key THEN v ELSE ds[k]]
datastore_update(ds, key, v) == [ds EXCEPT ![key] = v]
Reduce(ds, key) ==
    IF datastore_get(ds, key) # {} THEN datastore_update(ds, key, ds[key] + 1)
    ELSE datastore_put(ds, key, 1)

Lines(s) == RunsWithout(s, NL)

(* print_ds writes a line for each key: its characters and, counted here   *)
(* as four more, ": ", the value and the newline.  The file is opened      *)
(* without O_TRUNC: of an older one that is longer the tail stays.         *)
OutputSize(ds) == SumFunction([key \in DOMAIN ds |-> Len(key) + 4])
Written(old, ds) ==
    [counts |-> ds,
     tail   |-> IF old <= OutputSize(ds) THEN 0 ELSE old - OutputSize(ds)]

-----------------------------------------------------------------------------
MapReduceInit ==
    /\ input \in Inputs
    /\ mapperName \in Mappers
    /\ broken \in {{}} \cup {{f} : f \in Faults}
    /\ older \in OlderSizes
    /\ mainPc = "splitter" /\ mainI = 1
    /\ status = [p \in Processes |-> IF p = Main THEN "run" ELSE "none"]
    /\ ends = [p \in Processes |-> IF p = Main THEN Pipes ELSE {}]
    /\ pipe = [q \in Pipes |-> <<>>]
    /\ unsent = [p \in Processes |-> <<>>]
    /\ datastore = <<>>
    /\ output = [counts |-> <<>>, tail |-> older]

Fixed == UNCHANGED <<input, mapperName, broken, older>>

(* fork: the child has the write ends the parent has, less those it closes. *)
Fork(p, closes, items) ==
    /\ status' = [status EXCEPT ![p] = "run"]
    /\ ends' = [ends EXCEPT ![p] = ends[Main] \ closes]
    /\ unsent' = [unsent EXCEPT ![p] = items]
    /\ UNCHANGED <<pipe, datastore, output>> /\ Fixed

ForkSplitter ==
    /\ mainPc = "splitter"
    /\ Fork(Splitter(mainI), {0}, Lines(write_portion(input, mainI - 1)))
    /\ mainPc' = "mapper" /\ UNCHANGED mainI

ForkMapperKeepsEnd ==    \* mutant: the parent keeps the write end
    /\ mainPc = "mapper"
    /\ status' = [status EXCEPT ![MapperOf(mainI)] = "run"]
    /\ ends' = [ends EXCEPT ![MapperOf(mainI)] = ends[Main]]
    /\ IF mainI < count THEN mainPc' = "splitter" /\ mainI' = mainI + 1
       ELSE mainPc' = "reducer" /\ UNCHANGED mainI
    /\ UNCHANGED <<pipe, unsent, datastore, output>> /\ Fixed

(* The parent closes its write end of pipe i first. *)
ForkMapper ==
    /\ mainPc = "mapper"
    /\ status' = [status EXCEPT ![MapperOf(mainI)] = "run"]
    /\ ends' = [ends EXCEPT ![Main] = @ \ {mainI}, ![MapperOf(mainI)] = ends[Main] \ {mainI}]
    /\ IF mainI < count THEN mainPc' = "splitter" /\ mainI' = mainI + 1
       ELSE mainPc' = "reducer" /\ UNCHANGED mainI
    /\ UNCHANGED <<pipe, unsent, datastore, output>> /\ Fixed

ForkReducer ==
    /\ mainPc = "reducer"
    /\ status' = [status EXCEPT ![Reducer] = "run"]
    /\ ends' = [ends EXCEPT ![Main] = @ \ {0}]
    /\ mainPc' = "wait splitter" /\ mainI' = 1
    /\ UNCHANGED <<pipe, unsent, datastore, output>> /\ Fixed

ForkFails ==
    /\ "fork" \in broken
    /\ mainPc \in {"splitter", "mapper", "reducer"}
    /\ mainPc' = "failed"
    /\ status' = [status EXCEPT ![Main] = "fail"]
    /\ ends' = [ends EXCEPT ![Main] = {}]
    /\ UNCHANGED <<mainI, pipe, unsent, datastore, output>> /\ Fixed

Ended(p) == status[p] \in {"ok", "fail"}

(* Splitter i, then mapper i; a splitter that failed ends the program. *)
WaitForAll ==
    /\ \/ /\ mainPc = "wait splitter" /\ Ended(Splitter(mainI))
          /\ mainPc' = "wait mapper" /\ UNCHANGED <<mainI, status, ends>>
       \/ /\ mainPc = "wait mapper" /\ Ended(MapperOf(mainI))
          /\ \/ /\ status[Splitter(mainI)] = "fail"
                /\ mainPc' = "failed"
                /\ status' = [status EXCEPT ![Main] = "fail"]
                /\ ends' = [ends EXCEPT ![Main] = {}]
                /\ UNCHANGED mainI
             \/ /\ status[Splitter(mainI)] = "ok"
                /\ IF mainI < count THEN mainPc' = "wait splitter" /\ mainI' = mainI + 1
                   ELSE mainPc' = "wait reducer" /\ UNCHANGED mainI
                /\ UNCHANGED <<status, ends>>
       \/ /\ mainPc = "wait reducer" /\ Ended(Reducer)
          /\ mainPc' = "done"
          /\ status' = [status EXCEPT ![Main] = "ok"]
          /\ ends' = [ends EXCEPT ![Main] = {}]
          /\ UNCHANGED mainI
    /\ UNCHANGED <<pipe, unsent, datastore, output>> /\ Fixed

Exit(p, how) ==
    /\ status[p] = "run"
    /\ status' = [status EXCEPT ![p] = how]
    /\ ends' = [ends EXCEPT ![p] = {}]
    /\ UNCHANGED <<mainPc, mainI, pipe, unsent, datastore>> /\ Fixed

(* A process writes what it has to pipe q while there is room. *)
Write(p, q) ==
    /\ status[p] = "run"
    /\ unsent[p] # <<>>
    /\ Len(pipe[q]) < PipeSize
    /\ pipe' = [pipe EXCEPT ![q] = Append(@, Head(unsent[p]))]
    /\ unsent' = [unsent EXCEPT ![p] = Tail(@)]
    /\ UNCHANGED <<mainPc, mainI, status, ends, datastore, output>> /\ Fixed

SplitterStep(i) ==
    \/ Write(Splitter(i), i) /\ "input" \notin broken
    \/ /\ unsent[Splitter(i)] = <<>> \/ "input" \in broken
       /\ Exit(Splitter(i), IF "input" \in broken THEN "fail" ELSE "ok")
       /\ UNCHANGED output

EndOfFile(q) == pipe[q] = <<>> /\ \A p \in Processes : q \notin ends[p]

(* run_mapper_on_fds: a line in, its pairs out. *)
MapperStep(i) ==
    LET p == MapperOf(i)
        works == ~("mapper" \in broken /\ i = 1)
    IN
    \/ works /\ Write(p, 0)
    \/ /\ works
       /\ status[p] = "run" /\ unsent[p] = <<>> /\ pipe[i] # <<>>
       /\ pipe' = [pipe EXCEPT ![i] = Tail(@)]
       /\ unsent' = [unsent EXCEPT ![p] = mapper(Head(pipe[i]))]
       /\ UNCHANGED <<mainPc, mainI, status, ends, datastore, output>> /\ Fixed
    \/ /\ works
       /\ unsent[p] = <<>> /\ EndOfFile(i)
       /\ Exit(p, "ok") /\ UNCHANGED output
    \/ /\ ~works       \* execlp failed
       /\ Exit(p, "fail") /\ UNCHANGED output

(* run_reducer_on *)
ReducerStep ==
    \/ /\ "reducer" \notin broken
       /\ status[Reducer] = "run" /\ pipe[0] # <<>>
       /\ pipe' = [pipe EXCEPT ![0] = Tail(@)]
       /\ datastore' = Reduce(datastore, Head(pipe[0]))
       /\ UNCHANGED <<mainPc, mainI, status, ends, unsent, output>> /\ Fixed
    \/ /\ "reducer" \notin broken
       /\ EndOfFile(0)
       /\ Exit(Reducer, "ok")
       /\ output' = Written(older, datastore)
    \/ /\ "reducer" \in broken       \* execlp failed
       /\ Exit(Reducer, "fail") /\ UNCHANGED output

MapReduceNext ==
    \/ ForkSplitter \/ ForkMapper \/ ForkReducer \/ ForkFails \/ WaitForAll
    \/ \E i \in Parts : SplitterStep(i) \/ MapperStep(i)
    \/ ReducerStep

MapReduceSpec == MapReduceInit /\ [][MapReduceNext]_mrVars

-----------------------------------------------------------------------------
(* When mapreduce succeeds and its programs could be started, what it      *)
(* wrote counts the whole input, every line once: the parts the splitters  *)
(* cut out fit together at line ends.  The file is that and nothing else   *)
(* if it was not longer before.                                            *)
CountsWholeInput ==
    mainPc = "done" /\ broken \cap {"mapper", "reducer"} = {} =>
        LET all == FlattenSeq([k \in DOMAIN Lines(input) |-> mapper(Lines(input)[k])])
        IN  /\ DOMAIN output.counts = Range(all)
            /\ \A key \in DOMAIN output.counts :
                  output.counts[key] = Cardinality({k \in DOMAIN all : all[k] = key})
            /\ older <= OutputSize(output.counts) => output.tail = 0

(* The reducer takes the end of its pipe for the end of the pairs: then    *)
(* every mapper has ended, having written all its pairs and read all that  *)
(* its splitter wrote, and nothing is left in a pipe.                      *)
NothingAfterEnd ==
    status[Reducer] = "ok" =>
        /\ pipe[0] = <<>> /\ output = Written(older, datastore)
        /\ \A i \in Parts :
              /\ Ended(MapperOf(i))
              /\ status[MapperOf(i)] = "ok" =>
                    unsent[MapperOf(i)] = <<>> /\ pipe[i] = <<>> /\ Ended(Splitter(i))
              /\ status[Splitter(i)] = "ok" => unsent[Splitter(i)] = <<>>

(* What is written counts the input, because nothing is lost between the   *)
(* parts of the input or between the processes.                            *)
OutputCountsInput == CountsWholeInput /\ NothingAfterEnd

(* A process fills the pipe of one that could not be started and waits for *)
(* room forever, the read end being open in the parent, which waits for it:*)
(* a splitter for its mapper, the mappers for the reducer.                 *)
PipeOverruns ==
    \/ /\ "mapper" \in broken
       /\ Len(Lines(write_portion(input, 0))) > PipeSize
    \/ /\ "reducer" \in broken
       /\ PipeSize < Len(FlattenSeq([k \in DOMAIN Lines(input) |-> mapper(Lines(input)[k])]))

MapReduceOver == mainPc \in {"done", "failed"} \/ PipeOverruns
=============================================================================

----------------------------- MODULE MCPrograms -----------------------------
(***************************************************************************)
(* The programs of several threads or processes, and the network clients,  *)
(* for TLC.  They share no state: each behaviour picks one of them at the  *)
(* start and runs it, one instance of each, beside Semamore's threads.     *)
(***************************************************************************)
EXTENDS MCSemamore, Crackers, ThreadLabs, MapReduce, NonstopClient, ChatClient, Resolver

VARIABLE program    \* the one this behaviour runs

semamoreVars == vars
allVars == <<program, semamoreVars, c1Vars, c2Vars, prVars, rvVars, mrVars, clVars, ccVars, rsVars>>

-----------------------------------------------------------------------------
(* Crackers: a password found, one that is not, one with fewer candidates  *)
(* than there are workers.                                                 *)
MCTasks == << [space |-> 3, target |-> 2], [space |-> 4, target |-> 9],
              [space |-> 2, target |-> 0] >>

(* ThreadLabs: each part of the list has a sum of its own; the last part   *)
(* takes the rest of the division.                                         *)
MClst == <<1, 2, 4, 8, 16, 32, 64>>

(* MapReduce: an input that ends without a newline, and one with an empty  *)
(* line and fewer lines than mappers; an older output file only where      *)
(* nothing fails, under two of the mappers: longer and shorter than the    *)
(* new one.                                                                *)
MCInputs ==
    { <<"a", " ", "b", NL, "A", ":", NL, "b", NL, "a">>,
      <<"a", "b", NL, NL, "b", " ", "a">> }

MCtolower == [c \in Letters |-> IF c = "A" THEN "a" ELSE c]

(* NonstopClient: answers cut at every place that matters, with too few,   *)
(* enough and too many bytes.                                              *)
MCTyped == [method : {"get", "GET", "put", "delete", "list", "other"},
            names : 0..2, port : BOOLEAN]
MCAnswers ==
    { <<>>, <<okWord>>, <<okWord, newline>>, <<okWord, newline, 1>>,
      <<otherWord, newline>>, <<errorWord, newline>>,
      <<errorWord, newline, otherWord, newline>>,
      <<okWord, newline, 0, 0>>, <<okWord, newline, 0, 0, 1>>,
      <<okWord, newline, 3, 0, 1, 2, 3>>, <<okWord, newline, 3, 0, 1, 2>>,
      <<okWord, newline, 3, 0, 1, 2, 3, 1>>, <<okWord, newline, 2, 0, 1, 2, 3>>,
      <<okWord, newline, 2, 0, 1, 2>>, <<okWord, newline, 1, 1, 1, 2, 3, 1, 2>> }
MCLocalFiles == {NoFile, <<>>, <<1>>, <<1, 2, 3>>}

(* ChatClient: two lines typed, two messages received. *)
MCTypedLines  == <<"a", "b">>
MCServerPosts == << <<"x", "p">>, <<"y", "q">> >>

(* Resolver: hosts known to the client, to the server, to the authority    *)
(* and to nobody.                                                          *)
MCasks        == <<"mid", "far", "gone", "near">>
MCClientCache == "near" :> "1"
MCServerCache == ("near" :> "2") @@ ("mid" :> "2")
MCZone        == ("far" :> "3") @@ ("mid" :> "5")

-----------------------------------------------------------------------------
Programs == {"semamore", "cracker1", "cracker2", "par_reduce", "rendezvous", "mapreduce",
             "nonstop_client", "chat_client", "rpc"}

(* The program picked starts in any of its initial states, each other one  *)
(* in a single one, in which it stays.                                     *)
ProgramsInit ==
    /\ program \in Programs
    /\ Init /\ Cracker1Init /\ Cracker2Init /\ ParReduceInit /\ RendezvousInit
    /\ ChatClientInit /\ ResolverInit
    /\ MapReduceInit
    /\ program # "mapreduce" =>
          /\ input = CHOOSE i \in Inputs : TRUE
          /\ mapperName = CHOOSE m \in Mappers : TRUE
          /\ broken = {} /\ older = 0
    /\ older # 0 => broken = {} /\ mapperName \in {"wordcount", "wordlengths"}
    /\ ClientInit
    /\ program # "nonstop_client" =>
          /\ command = [method |-> "other", names |-> 0, port |-> FALSE]
          /\ answer = <<>> /\ ending = "eof" /\ local = NoFile

Frame(p, its) == IF program = p THEN TRUE ELSE UNCHANGED its

Only(p) ==
    /\ program = p /\ UNCHANGED program
    /\ Frame("semamore", semamoreVars)
    /\ Frame("cracker1", c1Vars) /\ Frame("cracker2", c2Vars)
    /\ Frame("par_reduce", prVars) /\ Frame("rendezvous", rvVars)
    /\ Frame("mapreduce", mrVars) /\ Frame("nonstop_client", clVars)
    /\ Frame("chat_client", ccVars) /\ Frame("rpc", rsVars)

(* The steps of all programs but Semamore's, whose spurious wakeups make   *)
(* cycles.                                                                 *)
ProgramSteps ==
    \/ Only("cracker1") /\ Cracker1Next
    \/ Only("cracker2") /\ Cracker2Next
    \/ Only("par_reduce") /\ ParReduceNext
    \/ Only("rendezvous") /\ RendezvousNext
    \/ Only("mapreduce") /\ MapReduceNext
    \/ Only("nonstop_client") /\ ClientSteps
    \/ Only("chat_client") /\ ChatClientSteps
    \/ Only("rpc") /\ ResolverSteps

(* What users, servers and other programs do. *)
WorldSteps ==
    \/ Only("nonstop_client") /\ Change
    \/ Only("chat_client") /\ ChatClientWorld
    \/ Only("rpc") /\ NameServer

ProgramsNext ==
    \/ Only("semamore") /\ Next
    \/ ProgramSteps
    \/ WorldSteps

(* A thread or process that can run is eventually scheduled; the world     *)
(* need do nothing.  The steps make no cycle, so that progress of a program *)
(* as a whole is progress of each of its processes that can run.           *)
ProgramsSpec ==
    /\ ProgramsInit /\ [][ProgramsNext]_allVars
    /\ \A t \in Threads : WF_allVars(Only("semamore") /\ Step(t))
    /\ WF_allVars(ProgramSteps)

-----------------------------------------------------------------------------
(* Every program ends: the one pill of cracker1 reaches each worker, the   *)
(* last barrier shows cracker2's workers that they stop, no thread waits   *)
(* for a semaphore nobody posts, each process of mapreduce sees the end of *)
(* its pipe, a client whose server hangs gives up, and SIGINT ends a chat  *)
(* whatever its two threads wait for; and no semm_wait stays blocked for   *)
(* ever while the value stays positive.                                    *)
ProgramsEnd ==
    /\ WaitIsNotStuck
    /\ <>[](CASE program = "semamore" -> TRUE
              [] program = "cracker1" -> Cracker1Over
              [] program = "cracker2" -> Cracker2Over
              [] program = "par_reduce" -> ParReduceOver
              [] program = "rendezvous" -> RendezvousOver
              [] program = "mapreduce" -> MapReduceOver
              [] program = "nonstop_client" -> ClientOver
              [] program = "chat_client" -> ChatClientOver
              [] program = "rpc" -> ResolversOver)

=============================================================================

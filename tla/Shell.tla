-------------------------------- MODULE Shell --------------------------------
(***************************************************************************)
(* The shell of shell/shell.c: the loop that reads lines, the history with *)
(* its replaying commands, the operators && || and ;, foreground and       *)
(* background children, the SIGCHLD handler and the exit.                  *)
(*                                                                         *)
(* A line is one command, or two with an operator between them.  A command *)
(* is a kind and a number; what its words are does not matter.  A pid is   *)
(* used for one child only.                                                *)
(*                                                                         *)
(* The handler interrupts the shell between any two steps, and takes       *)
(* entries out of the same list the shell works on.  So kill, stop, cont   *)
(* and the entering of a child are several steps: the signal, each round   *)
(* of a loop over the list, the free and the calls of the vector library,  *)
(* which read the size of the vector first and change it later.            *)
(***************************************************************************)
EXTENDS Integers, Sequences, SequencesExt, FiniteSets

CONSTANTS Sessions,   \* the lines a user may type, in sequence
          Garbage,    \* lines an uninitialized buffer may hold
          Histories,  \* contents the history file may have at the start
          Pids,       \* pids fork hands out
          MaxDepth    \* frames that fit on the C stack

ASSUME PidsAssumption  == Pids \subseteq Nat \ {0} /\ IsFiniteSet(Pids)
ASSUME BoundAssumption == MaxDepth \in Nat

Kinds == {"empty", "exit", "cd", "ps", "history", "index", "prefix",
          "kill", "stop", "cont", "fg", "bg"}
Command(k, n) == [kind |-> k, n |-> n]
Commands == [kind : Kinds, n : Nat]
Nothing == Command("empty", 0)
Simple(c) == [op |-> "none", first |-> c, second |-> Nothing]
Logical(op, c, d) == [op |-> op, first |-> c, second |-> d]
Lines == {l \in [op : {"none", "&&", "||", ";"}, first : Commands, second : Commands] :
             l.op = "none" => l.second = Nothing}

(* What the shell leaves in its history: no empty line, and no history     *)
(* command but as part of a logical line.                                  *)
IsHistoryCommand(c) == c.kind \in {"history", "index", "prefix"}
Entries == {l \in Lines : l.op = "none" => /\ l.first.kind # "empty"
                                           /\ ~IsHistoryCommand(l.first)}

ASSUME InputAssumption ==
    /\ Sessions \subseteq Seq(Lines) /\ Garbage \subseteq Lines
    /\ Histories \subseteq Seq(Entries)       \* files that a shell has written

(* The words that "!word" can name, by number; "!" alone is number 0. *)
Words == <<"fg", "bg", "cd">>
StartsWith(line, n) == n = 0 \/ line.first.kind = Words[n]
LastStarting(h, n) == SelectLastInSeq(h, LAMBDA l : StartsWith(l, n))

MainPid == 0
Running == "Running"
Stopped == "Stopped"

VARIABLES
    pc,       \* where the shell is
    hist,     \* mycmds: the history
    hfile,    \* the lines of the history file
    eof,      \* feof(stdin)
    input,    \* the lines still to come
    cur,      \* the command exec_cmd runs
    logic,    \* its parameter of that name
    stack,    \* what the callers of exec_cmd still have to do
    ret,      \* what exec_cmd returned
    new,      \* the child that was forked last
    bkgd,     \* the list of background processes, the shell itself first
    idx,      \* i, in a loop over the list
    len,      \* the size that the running call of the vector library read
    child,    \* the children, by pid
    sig,      \* SIGCHLD is pending
    handling, \* sigchld_handler is running
    typed,    \* history variable: the last line typed
    before,   \* history variable: the history when it was typed
    erased,   \* history variable: entries the handler took away during the exit
    mixed     \* history variable: and while the shell was changing the list

lineVars == <<hist, hfile, eof, input, typed, before>>
callVars == <<cur, logic, stack, ret>>
procVars == <<new, bkgd, idx, len, child, sig, handling, erased, mixed>>
vars == <<pc, lineVars, callVars, procVars>>

Ended == {"exited", "failed", "crashed"}
Alive == {"forked", "running", "stopped"}
Exists == Alive \union {"zombie"}

(* One entry for each line of the file, and back. *)
read_commands_from_history == hist = hfile
update_history == hfile' = hist

(***************************************************************************)
(* An entry of the list points to a process struct, which is freed before  *)
(* the entry is erased; Null is what vector_erase leaves in the slots      *)
(* behind the end.  A freed struct still has its pid, or is in use for     *)
(* something else and has the pid of nobody.                               *)
(***************************************************************************)
NoPid == -1
Entry(p) == [pid |-> p, status |-> Running, freed |-> FALSE]
Null == [pid |-> NoPid, status |-> Stopped, freed |-> TRUE]

Slot(k) == IF k <= Len(bkgd) THEN bkgd[k] ELSE Null
PidRead(e) == IF e.freed THEN {e.pid, NoPid} ELSE {e.pid}
HasNull == \E i \in DOMAIN bkgd : bkgd[i] = Null

Init ==
    /\ hfile \in Histories
    /\ read_commands_from_history
    /\ bkgd = <<Entry(MainPid)>>
    /\ child = [p \in Pids |-> [st |-> "none", execed |-> FALSE, bg |-> FALSE,
                                code |-> 0, term |-> FALSE]]
    /\ pc = "prompt" /\ eof = FALSE /\ input \in Sessions
    /\ cur = Nothing /\ logic = FALSE /\ stack = <<>> /\ ret = 0
    /\ new = MainPid /\ idx = 0 /\ len = 0 /\ sig = FALSE /\ handling = FALSE
    /\ typed = Simple(Nothing) /\ before = hfile /\ erased = 0 /\ mixed = 0

-----------------------------------------------------------------------------
(***************************************************************************)
(* Calls.  logic_exec(h, l, s) is where the shell stands when logic_exec   *)
(* has been called with line l, history h and callers s: about to run the  *)
(* first command, with the second one left to do if there is an operator.  *)
(***************************************************************************)
Then(op, c) == [do |-> "then", op |-> op, cmd |-> c]
ReturnZero  == [do |-> "return0", op |-> "none", cmd |-> Nothing]

logic_exec(h, line, s) ==
    /\ cur' = line.first
    /\ IF line.op = "none"
         THEN hist' = h /\ logic' = FALSE /\ stack' = s
         ELSE /\ hist' = Append(h, line)
              /\ logic' = TRUE
              /\ stack' = <<Then(line.op, line.second)>> \o s
    /\ pc' = "exec"
    /\ UNCHANGED <<ret, hfile>>

(* exec_cmd returns r. *)
Return(r) ==
    /\ ret' = r /\ pc' = "return"
    /\ UNCHANGED <<cur, logic, stack, hfile>>

(* A null pointer is read, an assertion fails, a struct is freed twice, or *)
(* the stack or the memory is used up.                                     *)
Fault ==
    /\ pc' = "crashed"
    /\ UNCHANGED <<hfile, cur, logic, stack, ret>>

Crash == Fault /\ UNCHANGED hist

(* A step of the shell's own code: the handler is not on top of it. *)
At(place) == pc = place /\ ~handling

ReadLine ==
    /\ At("prompt") /\ ~eof /\ input # <<>>
    /\ input' = Tail(input)
    /\ typed' = Head(input) /\ before' = hist
    /\ logic_exec(hist, Head(input), <<>>)
    /\ UNCHANGED <<eof, procVars>>

(* fgets fails and the buffer holds whatever was on the stack. *)
ReadEof(line) ==
    /\ At("prompt") /\ input = <<>>
    /\ eof' = TRUE
    /\ typed' = line /\ before' = hist
    /\ logic_exec(hist, line, <<>>)
    /\ UNCHANGED <<input, procVars>>

(* The end of a script given with -f. *)
EndOfScript ==
    /\ At("prompt") /\ ~eof /\ input = <<>>
    /\ update_history
    /\ pc' = "killing" /\ idx' = 2
    /\ UNCHANGED <<hist, eof, input, typed, before, callVars,
                   new, bkgd, len, child, sig, handling, erased, mixed>>

(* logic_exec goes on with the second command, or a caller of exec_cmd is  *)
(* given its return value.                                                 *)
GoOn(op, r) == CASE op = "&&" -> r = 0 [] op = "||" -> r # 0 [] OTHER -> TRUE

ReturnStep ==
    /\ At("return")
    /\ \/ /\ stack = <<>>
          /\ pc' = "prompt"
          /\ UNCHANGED callVars
       \/ /\ stack # <<>>
          /\ Head(stack).do = "return0"
          /\ ret' = 0 /\ stack' = Tail(stack)
          /\ UNCHANGED <<pc, cur, logic>>
       \/ /\ stack # <<>>
          /\ Head(stack).do = "then"
          /\ stack' = Tail(stack)
          /\ IF GoOn(Head(stack).op, ret)
               THEN cur' = Head(stack).cmd /\ logic' = TRUE /\ pc' = "exec"
               ELSE UNCHANGED <<pc, cur, logic>>
          /\ UNCHANGED ret
    /\ UNCHANGED <<lineVars, procVars>>

-----------------------------------------------------------------------------
(* exec_cmd *)
Exiting == cur.kind = "exit" \/ eof

ExecEmpty ==
    /\ At("exec") /\ cur.kind = "empty"
    /\ Return(1)
    /\ UNCHANGED <<hist, eof, input, typed, before, procVars>>

ExecExit ==
    /\ At("exec") /\ cur.kind # "empty" /\ Exiting
    /\ update_history
    /\ pc' = "killing" /\ idx' = 2
    /\ UNCHANGED <<hist, eof, input, typed, before, callVars,
                   new, bkgd, len, child, sig, handling, erased, mixed>>

(* Mutant: the commands of a logical line are recorded as well. *)
Recorded_Twice == Append(hist, Simple(cur))

(* The history once exec_cmd has pushed the command, and popped it again   *)
(* when it is part of a line that is there already.                        *)
Recorded == IF logic THEN hist ELSE Append(hist, Simple(cur))

Exec(kind) == At("exec") /\ cur.kind = kind /\ ~Exiting

Unlisted == UNCHANGED <<eof, input, typed, before>>

cd(r) ==
    /\ Exec("cd")
    /\ hist' = Recorded /\ Return(r)
    /\ Unlisted /\ UNCHANGED procVars

ps ==
    /\ Exec("ps")
    /\ hist' = Recorded /\ pc' = "listing"
    /\ Unlisted /\ UNCHANGED <<hfile, callVars, procVars>>

ps_prints ==
    /\ At("listing")
    /\ IF HasNull THEN Fault ELSE Return(0)
    /\ UNCHANGED <<hist, eof, input, typed, before, procVars>>

(* A history command takes the last entry away, its own one if it is not   *)
(* part of a logical line; vector_pop_back on an empty vector asks for     *)
(* SIZE_MAX elements.                                                      *)
history ==
    /\ Exec("history")
    /\ IF Recorded = <<>> THEN Crash ELSE hist' = Front(Recorded) /\ Return(0)
    /\ Unlisted /\ UNCHANGED procVars

Replay(h, line) ==
    IF Len(stack) + 2 > MaxDepth THEN Crash
    ELSE logic_exec(h, line, <<ReturnZero>> \o stack)

replay_index ==
    /\ Exec("index")
    /\ IF Recorded = <<>> THEN Crash
       ELSE LET h == Front(Recorded)
            IN  IF cur.n >= Len(h) THEN hist' = h /\ Return(0)
                ELSE Replay(h, h[cur.n + 1])
    /\ Unlisted /\ UNCHANGED procVars

replay_prefix ==
    /\ Exec("prefix")
    /\ IF Recorded = <<>> THEN Crash
       ELSE LET h == Front(Recorded)
                last == LastStarting(h, cur.n)
            IN  IF last = 0 THEN hist' = h /\ Return(0)
                ELSE Replay(h, h[last])
    /\ Unlisted /\ UNCHANGED procVars

-----------------------------------------------------------------------------
(* kill, stop and cont: the signal first, then the list. *)
NoProcess == cur.n \notin Pids \/ child[cur.n].st \notin Exists

kill_fails ==
    /\ (Exec("kill") \/ Exec("stop") \/ Exec("cont")) /\ NoProcess
    /\ hist' = Recorded /\ Return(1)
    /\ Unlisted /\ UNCHANGED procVars

GoTo(place) == pc' = place /\ UNCHANGED <<hfile, callVars>>

kill_ ==
    /\ Exec("kill") /\ ~NoProcess
    /\ child' = [child EXCEPT ![cur.n].term = TRUE]
    /\ hist' = Recorded /\ GoTo("getting")
    /\ Unlisted /\ UNCHANGED <<new, bkgd, idx, len, sig, handling, erased, mixed>>

stop ==
    /\ Exec("stop") /\ ~NoProcess
    /\ IF child[cur.n].st = "zombie" THEN UNCHANGED <<child, sig>>
       ELSE child' = [child EXCEPT ![cur.n].st = "stopped"] /\ sig' = TRUE
    /\ hist' = Recorded /\ GoTo("getting")
    /\ Unlisted /\ UNCHANGED <<new, bkgd, idx, len, handling, erased, mixed>>

cont ==
    /\ Exec("cont") /\ ~NoProcess
    /\ IF child[cur.n].st # "stopped" THEN UNCHANGED <<child, sig>>
       ELSE /\ child' = [child EXCEPT ![cur.n].st =
                            IF child[cur.n].execed THEN "running" ELSE "forked"]
            /\ sig' = TRUE
    /\ hist' = Recorded /\ GoTo("changing") /\ idx' = 1
    /\ Unlisted /\ UNCHANGED <<new, bkgd, len, handling, erased, mixed>>

(* The rest of a command on the list: what it leaves alone. *)
ListStep == UNCHANGED <<lineVars, new, child, sig, handling, erased, mixed>>

(* For the message that is printed. *)
get_process ==
    /\ At("getting")
    /\ IF \E i \in DOMAIN bkgd : bkgd[i] = Null /\ \A j \in 1 .. i : bkgd[j].pid # cur.n
         THEN Fault
         ELSE GoTo(IF cur.kind = "kill" THEN "looking" ELSE "changing")
    /\ idx' = 1
    /\ ListStep /\ UNCHANGED <<bkgd, len>>

(* Mutant: the new status is not stored. *)
ch_process_Lost ==
    /\ At("changing")
    /\ IF idx > Len(bkgd) THEN Return(0) /\ UNCHANGED idx
       ELSE IF bkgd[idx] = Null THEN Fault /\ UNCHANGED idx
       ELSE idx' = idx + 1 /\ UNCHANGED <<pc, callVars, hfile>>
    /\ ListStep /\ UNCHANGED <<bkgd, len>>

(* One round of the loop. *)
ch_process ==
    /\ At("changing")
    /\ \/ idx > Len(bkgd) /\ Return(0) /\ UNCHANGED <<bkgd, idx>>
       \/ idx <= Len(bkgd) /\ bkgd[idx] = Null /\ Fault /\ UNCHANGED <<bkgd, idx>>
       \/ /\ idx <= Len(bkgd) /\ bkgd[idx] # Null
          /\ \E pid \in PidRead(bkgd[idx]) :
                bkgd' = IF pid # cur.n THEN bkgd
                        ELSE [bkgd EXCEPT ![idx].status =
                                 IF cur.kind = "stop" THEN Stopped ELSE Running]
          /\ idx' = idx + 1
          /\ UNCHANGED <<pc, hfile, callVars>>
    /\ ListStep /\ UNCHANGED len

(* The loop of rm_process for kill: the test, the free and the erase. *)
rm_process ==
    /\ At("looking")
    /\ \/ idx > Len(bkgd) /\ Return(0) /\ UNCHANGED idx
       \/ idx <= Len(bkgd) /\ bkgd[idx] = Null /\ Fault /\ UNCHANGED idx
       \/ /\ idx <= Len(bkgd) /\ bkgd[idx] # Null
          /\ \E pid \in PidRead(bkgd[idx]) :
                IF pid = cur.n THEN GoTo("freeing") /\ UNCHANGED idx
                ELSE idx' = idx + 1 /\ UNCHANGED <<pc, hfile, callVars>>
    /\ ListStep /\ UNCHANGED <<bkgd, len>>

(* vector_get takes the index that is the size as well, where Null is, and *)
(* free takes a null pointer, but no struct twice.                         *)
free_process ==
    /\ At("freeing")
    /\ \/ idx > Len(bkgd) + 1 /\ Fault /\ UNCHANGED bkgd
       \/ idx <= Len(bkgd) + 1 /\ Slot(idx) = Null /\ GoTo("erasing") /\ UNCHANGED bkgd
       \/ /\ idx <= Len(bkgd) /\ bkgd[idx] # Null
          /\ IF bkgd[idx].freed THEN Fault /\ UNCHANGED bkgd
             ELSE GoTo("erasing") /\ bkgd' = [bkgd EXCEPT ![idx].freed = TRUE]
    /\ ListStep /\ UNCHANGED <<idx, len>>

vector_erase ==
    /\ At("erasing")
    /\ IF idx <= Len(bkgd) THEN GoTo("moving") ELSE Fault
    /\ len' = Len(bkgd)
    /\ ListStep /\ UNCHANGED <<bkgd, idx>>

(* Of the len slots the one is taken out, and the size is one less. *)
vector_erase_moves ==
    /\ At("moving")
    /\ bkgd' = [k \in 1 .. len - 1 |-> IF k < idx THEN Slot(k) ELSE Slot(k + 1)]
    /\ idx' = idx + 1
    /\ GoTo("looking")
    /\ ListStep /\ UNCHANGED len

-----------------------------------------------------------------------------
(* External commands. *)
External == At("exec") /\ cur.kind \in {"fg", "bg"} /\ ~Exiting

fork(p) ==
    /\ External
    /\ child[p].st = "none"
    /\ \A q \in Pids : q < p => child[q].st # "none"    \* pids go up
    /\ child' = [child EXCEPT ![p].st = "forked", ![p].bg = (cur.kind = "bg")]
    /\ new' = p
    /\ hist' = Recorded
    /\ pc' = IF cur.kind = "bg" THEN "setpgid" ELSE "waitpid"
    /\ Unlisted /\ UNCHANGED <<hfile, callVars, bkgd, idx, len, sig, handling, erased, mixed>>

fork_fails ==
    /\ External
    /\ hist' = Recorded /\ pc' = "failed"
    /\ Unlisted /\ UNCHANGED <<hfile, callVars, procVars>>

(* EACCES once the child has called exec, ESRCH once it has been reaped. *)
setpgid ==
    /\ At("setpgid")
    /\ pc' = IF child[new].st \in Exists /\ ~child[new].execed THEN "push" ELSE "failed"
    /\ UNCHANGED <<lineVars, callVars, procVars>>

push_bkgd ==
    /\ At("push")
    /\ len' = Len(bkgd)
    /\ GoTo("storing")
    /\ ListStep /\ UNCHANGED <<bkgd, idx>>

(* vector_push_back writes the slot behind the len it has read, and        *)
(* asserts that the vector has not become shorter, which it may also do    *)
(* after that.                                                             *)
vector_push_back ==
    /\ At("storing")
    /\ \/ /\ bkgd' = [k \in 1 .. len + 1 |-> IF k <= len THEN Slot(k) ELSE Entry(new)]
          /\ Return(0)
       \/ Len(bkgd) < len /\ Fault /\ UNCHANGED bkgd
    /\ ListStep /\ UNCHANGED <<idx, len>>

(* waitpid(child, &status, 0): entered while the child runs, it can be     *)
(* interrupted by a signal, and is then restarted.                         *)
waitpid_blocks ==
    /\ At("waitpid") /\ child[new].st \in Alive
    /\ pc' = "blocked"
    /\ UNCHANGED <<lineVars, callVars, procVars>>

waitpid_returns ==
    /\ At("waitpid") \/ At("blocked")
    /\ child[new].st = "zombie"
    /\ child' = [child EXCEPT ![new].st = "gone"]
    /\ Return(IF child[new].code = 1 THEN 1 ELSE 0)
    /\ UNCHANGED <<hist, eof, input, typed, before,
                   new, bkgd, idx, len, sig, handling, erased, mixed>>

(* Mutant: the call is made again. *)
waitpid_fails_Retried ==
    /\ At("waitpid") /\ child[new].st = "gone"
    /\ UNCHANGED vars

(* ECHILD: the handler has reaped the child. *)
waitpid_fails ==
    /\ At("waitpid") /\ child[new].st = "gone"
    /\ pc' = "failed"
    /\ UNCHANGED <<lineVars, callVars, procVars>>

(* One round of the loop of kill_zombies, then exit. *)
Signalled(pid) ==
    IF pid \in Pids /\ child[pid].st \in Exists
      THEN [child EXCEPT ![pid].term = TRUE] ELSE child

(* Mutant: the loop stops one entry early. *)
kill_zombies_Short ==
    /\ At("killing")
    /\ IF idx < Len(bkgd)
         THEN child' = Signalled(bkgd[idx].pid) /\ idx' = idx + 1 /\ UNCHANGED pc
         ELSE pc' = "exited" /\ UNCHANGED <<child, idx>>
    /\ UNCHANGED <<lineVars, callVars, new, bkgd, len, sig, handling, erased, mixed>>

kill_zombies ==
    /\ At("killing")
    /\ \/ idx > Len(bkgd) /\ pc' = "exited" /\ UNCHANGED <<child, idx>>
       \/ idx <= Len(bkgd) /\ bkgd[idx] = Null /\ pc' = "crashed" /\ UNCHANGED <<child, idx>>
       \/ /\ idx <= Len(bkgd) /\ bkgd[idx] # Null
          /\ \E pid \in PidRead(bkgd[idx]) : child' = Signalled(pid)
          /\ idx' = idx + 1 /\ UNCHANGED pc
    /\ UNCHANGED <<lineVars, callVars, new, bkgd, len, sig, handling, erased, mixed>>

-----------------------------------------------------------------------------
(***************************************************************************)
(* SIGCHLD.  A blocked waitpid whose own child has died returns before the *)
(* signal is delivered; otherwise the handler runs and waitpid is          *)
(* restarted.  The handler reaps one child, whichever it is.               *)
(***************************************************************************)
deliver_sigchld ==
    /\ pc \notin Ended /\ sig /\ ~handling
    /\ pc = "blocked" => child[new].st # "zombie"
    /\ sig' = FALSE /\ handling' = TRUE
    /\ pc' = IF pc = "blocked" THEN "waitpid" ELSE pc
    /\ UNCHANGED <<lineVars, callVars, new, bkgd, idx, len, child, erased, mixed>>

Zombies == {p \in Pids : child[p].st = "zombie"}

(* The shell is in a loop over the list that an entry is taken out of: it  *)
(* may have seen that there is one more slot, which now is Null.           *)
AtLast == \/ pc \in {"getting", "listing"}
          \/ pc \in {"changing", "looking", "killing"} /\ idx = Len(bkgd)

(* The shell has read of the list what it needs to change it. *)
Changing == pc \in {"changing", "looking", "freeing", "erasing", "moving", "storing"}

(* rm_process of the handler, which nothing interrupts. *)
handler_removes(k) ==
    /\ bkgd' = RemoveAt(bkgd, k)
    /\ pc' \in IF AtLast THEN {pc, "crashed"} ELSE {pc}
    /\ erased' = IF pc = "killing" THEN erased + 1 ELSE erased
    /\ mixed'  = IF Changing THEN mixed + 1 ELSE mixed

handler_finds_none == UNCHANGED <<pc, bkgd, erased, mixed>>
handler_faults == pc' = "crashed" /\ UNCHANGED <<bkgd, erased, mixed>>

sigchld_handler ==
    /\ handling
    /\ handling' = FALSE
    /\ \/ /\ Zombies = {}             \* waitpid gives 0 or -1
          /\ IF HasNull /\ \E p \in Pids : child[p].st \in Alive
               THEN handler_faults ELSE handler_finds_none
          /\ UNCHANGED child
       \/ \E p \in Zombies :
             /\ child' = [child EXCEPT ![p].st = "gone"]
             /\ \/ HasNull /\ handler_faults
                \/ /\ ~HasNull
                   /\ \A k \in DOMAIN bkgd : bkgd[k].pid = p => bkgd[k].freed
                   /\ handler_finds_none
                \/ /\ ~HasNull
                   /\ \E k \in DOMAIN bkgd :
                         /\ bkgd[k].pid = p
                         /\ IF bkgd[k].freed THEN handler_faults ELSE handler_removes(k)
    /\ UNCHANGED <<lineVars, callVars, new, idx, len, sig>>

(* The children: exec, which may fail, and the end.  The status of a       *)
(* background child is never looked at.                                    *)
ChildExec(p) ==
    /\ pc \notin Ended /\ child[p].st = "forked"
    /\ child' = [child EXCEPT ![p].st = "running", ![p].execed = TRUE]
    /\ UNCHANGED <<pc, lineVars, callVars, new, bkgd, idx, len, sig, handling, erased, mixed>>

ChildEnds(p, code) ==
    /\ pc \notin Ended /\ child[p].st \in {"forked", "running"}
    /\ child[p].bg => code = 0
    /\ child' = [child EXCEPT ![p].st = "zombie", ![p].code = code]
    /\ sig' = TRUE
    /\ UNCHANGED <<pc, lineVars, callVars, new, bkgd, idx, len, handling, erased, mixed>>

Over == pc \in Ended /\ UNCHANGED vars

ShellStep ==
    \/ ReturnStep \/ ExecEmpty \/ ExecExit
    \/ \E r \in {0, 1} : cd(r)
    \/ ps \/ ps_prints \/ history \/ replay_index \/ replay_prefix
    \/ kill_fails \/ kill_ \/ stop \/ cont
    \/ get_process \/ ch_process
    \/ rm_process \/ free_process \/ vector_erase \/ vector_erase_moves
    \/ \E p \in Pids : fork(p)
    \/ fork_fails \/ setpgid \/ push_bkgd \/ vector_push_back
    \/ waitpid_blocks \/ waitpid_returns \/ waitpid_fails
    \/ kill_zombies

Next ==
    \/ ReadLine \/ \E line \in Garbage : ReadEof(line)
    \/ EndOfScript
    \/ ShellStep
    \/ deliver_sigchld \/ sigchld_handler
    \/ \E p \in Pids : ChildExec(p) \/ \E code \in 0 .. 2 : ChildEnds(p, code)
    \/ Over

(* The shell runs when it can, a pending signal is delivered, and a        *)
(* foreground command ends.                                                *)
Fairness ==
    /\ WF_vars(ShellStep)
    /\ WF_vars(deliver_sigchld) /\ WF_vars(sigchld_handler)
    /\ \A p \in Pids : WF_vars(~child[p].bg /\ \E code \in 0 .. 2 : ChildEnds(p, code))

Spec == Init /\ [][Next]_vars /\ Fairness

-----------------------------------------------------------------------------
(* A background child that the list should have.  While its struct is not  *)
(* freed, ps, kill_zombies and the handler find it.                        *)
Due(p) == /\ child[p].bg /\ child[p].st \in Exists /\ ~child[p].term
          /\ ~(p = new /\ pc \in {"setpgid", "push", "storing"})
Found(p) == \E i \in 2 .. Len(bkgd) : bkgd[i].pid = p /\ ~bkgd[i].freed
Lost == {p \in Pids : Due(p) /\ ~Found(p)}

(* While the shell is up, the list misses at most as many background       *)
(* children as the handler has taken entries away while the shell was      *)
(* changing the list: then rm_process of a kill may free and erase the     *)
(* entry of another child.  As long as that has not happened, a background *)
(* child that has not been reaped and was not killed is in the list        *)
(* exactly once, and while it lives with the right status, from the step   *)
(* that enters it on and between all other steps.                          *)
BackgroundListed ==
    pc \notin Ended =>
        /\ Cardinality(Lost) <= mixed
        /\ mixed = 0 =>
             \A p \in Pids : Due(p) =>
                 \E i \in 2 .. Len(bkgd) :
                    /\ bkgd[i].pid = p
                    /\ \A j \in 1 .. Len(bkgd) : bkgd[j].pid = p => j = i
                    /\ child[p].st \in Alive /\ ~(pc \in {"getting", "changing"} /\ p = cur.n) =>
                          (bkgd[i].status = Stopped <=> child[p].st = "stopped")

Clean(line) == line.op # "none" =>
                  ~IsHistoryCommand(line.first) /\ ~IsHistoryCommand(line.second)

Expansion(h, line) ==
    LET c == line.first
        last == LastStarting(h, c.n)
    IN  IF line.op # "none" THEN <<line>>
        ELSE CASE c.kind \in {"empty", "history"} -> <<>>
               [] c.kind = "index"  -> IF c.n < Len(h) THEN <<h[c.n + 1]>> ELSE <<>>
               [] c.kind = "prefix" -> IF last > 0 THEN <<h[last]>> ELSE <<>>
               [] OTHER             -> <<line>>

(* When the shell is back at the prompt, the history has grown by exactly  *)
(* what the line stands for: the line itself, the entry it replays, or     *)
(* nothing; the parts of a logical line leave no entry of their own.  It   *)
(* holds as long as no history command is part of a logical line.          *)
HistoryIsExpansion ==
    pc = "prompt" /\ Clean(typed) /\ (\A i \in DOMAIN before : Clean(before[i])) =>
        hist = before \o Expansion(before, typed)

Unsignalled == {p \in Pids : /\ child[p].bg /\ child[p].st \in Alive
                             /\ ~child[p].term}

(* After a regular exit the background children that live on without       *)
(* having been sent SIGTERM are at most as many as the entries the handler *)
(* took out of the list while kill_zombies was going through it, each of   *)
(* which makes the loop pass over one entry, or while a command before was *)
(* changing the list.  Without such a removal nobody is left out.          *)
ExitSkipsOnlyErased == pc = "exited" => Cardinality(Unsignalled) <= erased + mixed

(* A line that was read is dealt with: the shell prompts again or ends,    *)
(* although the handler may reap the very child it waits for.              *)
EveryLineIsDone == pc # "prompt" ~> pc \in Ended \union {"prompt"}

=============================================================================

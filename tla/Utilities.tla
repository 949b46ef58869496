----------------------------- MODULE Utilities -----------------------------
(* utilities_unleashed: env.c runs a command several times under           *)
(* environments given on the command line, time.c runs one and shows how   *)
(* long it took.  What fork, exec and the command do is chosen freely.     *)
EXTENDS Naturals, Sequences

CONSTANTS
    CommandLines    \* [num, vars, command]: vars a sequence of [name, values]

(* A value is <<"is", text>>, <<"as", name>> for %name, or <<"bad", text>> *)
(* when it holds a character that is not allowed.                          *)
Outcomes == {"0", "nonzero", "signal"}

VARIABLES
    envAt,          \* "parse", "fork", "wait", or how it ended
    line,           \* the command line
    envRound,       \* i of the loop over the children
    environs,       \* the environment each command was started with
    outcomes,           \* how each command ended
    timeAt,         \* time.c: "start", "wait", or how it ended
    timed           \* outcome of its command

envVars == <<envAt, line, envRound, environs, outcomes>>
timeVars == <<timeAt, timed>>
utVars == <<envVars, timeVars>>

UtilitiesInit ==
    /\ envAt = "parse" /\ line \in CommandLines
    /\ envRound = 1 /\ environs = <<>> /\ outcomes = <<>>
    /\ timeAt = "start" /\ timed = "none"

-----------------------------------------------------------------------------
Variables == 1..Len(line.vars)

(* var[i][j] of main: the values in order; when there are fewer, vars[i],  *)
(* which strtok has cut down to the first.                                 *)
var(i, j) ==
    LET values == line.vars[i].values
    IN  IF j <= Len(values) THEN values[j] ELSE values[1]

(* Only the values that are used are looked at. *)
WellFormed ==
    \A i \in Variables :
        /\ line.vars[i].name # "bad"
        /\ line.vars[i].values # <<>>
        /\ \A j \in 1..line.num : j <= Len(line.vars[i].values) => var(i, j)[1] # "bad"

ParseArguments ==
    /\ envAt = "parse"
    /\ envAt' = IF line.command = "none" \/ ~WellFormed THEN "usage"
                ELSE IF line.num = 0 THEN "0" ELSE "fork"
    /\ UNCHANGED <<line, envRound, environs, outcomes, timeVars>>

(* Mutant: a reference takes the first variable of that name instead. *)
TextOfFirst(texts, j, i) ==
    LET v == var(j, i)
        same == {x \in 1..j - 1 : line.vars[x].name = v[2]}
    IN  IF v[1] = "is" THEN v[2]
        ELSE IF same = {} THEN ""
        ELSE texts[CHOOSE x \in same : \A y \in same : x <= y]

(* The text of variable j in the child of round i, when texts are those of *)
(* the variables before it: a reference takes the last of the same name.   *)
Text(texts, j, i) ==
    LET v == var(j, i)
        same == {x \in 1..j - 1 : line.vars[x].name = v[2]}
    IN  IF v[1] = "is" THEN v[2]
        ELSE IF same = {} THEN ""
        ELSE texts[CHOOSE x \in same : \A y \in same : y <= x]

(* The child: it sets the variables in order, a later one of the same name *)
(* over an earlier one.                                                    *)
ChildTexts(i) ==
    LET texts[j \in 0..Len(line.vars)] ==
            IF j = 0 THEN <<>> ELSE Append(texts[j - 1], Text(texts[j - 1], j, i))
    IN  texts[Len(line.vars)]

Environment(i) ==
    LET texts == ChildTexts(i)
        last(n) == CHOOSE j \in Variables :
                      line.vars[j].name = n /\ \A k \in Variables : line.vars[k].name = n => k <= j
    IN  [n \in {line.vars[j].name : j \in Variables} |-> texts[last(n)]]

(* A fork that fails outcomes the program. *)
ForkChild ==
    /\ envAt = "fork"
    /\ \/ envAt' = "fork failed" /\ UNCHANGED environs
       \/ /\ environs' = Append(environs, Environment(envRound))
          /\ envAt' = "wait"
    /\ UNCHANGED <<line, envRound, outcomes, timeVars>>

(* The next child starts only when this one has ended; an exit status      *)
(* other than 0, of the command or of an exec that failed, outcomes the loop.  *)
WaitChild ==
    /\ envAt = "wait"
    /\ \E o \in Outcomes :
          /\ outcomes' = Append(outcomes, o)
          /\ envAt' = IF o = "nonzero" THEN "1" ELSE IF envRound = line.num THEN "0" ELSE "fork"
    /\ envRound' = envRound + 1
    /\ UNCHANGED <<line, environs, timeVars>>

-----------------------------------------------------------------------------
(* time.c: a command killed by a signal is timed like one that succeeded. *)
StartTimed ==
    /\ timeAt = "start"
    /\ timeAt' \in {"wait", "fork failed"}
    /\ UNCHANGED <<envVars, timed>>

WaitTimed ==
    /\ timeAt = "wait"
    /\ timed' \in Outcomes
    /\ timeAt' = IF timed' = "nonzero" THEN "1" ELSE "shown"
    /\ UNCHANGED envVars

UtilitiesNext == ParseArguments \/ ForkChild \/ WaitChild \/ StartTimed \/ WaitTimed

-----------------------------------------------------------------------------
(* What %name stands for: followed from variable to variable to a text,    *)
(* where each reference means the nearest earlier variable of its name.    *)
Meaning(i) ==
    LET nearest(j) == {x \in 1..j - 1 :
            /\ line.vars[x].name = var(j, i)[2]
            /\ \A y \in x + 1..j - 1 : line.vars[y].name # var(j, i)[2]}
        chain[j \in Variables] ==
            IF var(j, i)[1] = "is" THEN {var(j, i)[2]}
            ELSE UNION {chain[x] : x \in nearest(j)}
    IN  chain

(* Every command env starts sees, for each variable, the value of its own  *)
(* round with all references resolved in that round, empty for one that    *)
(* leads nowhere; no command is started before the one before it has ended *)
(* without an error; and the exit status says whether all of them did.     *)
EnvRunsAsTold ==
    /\ \A i \in DOMAIN environs : \A j \in Variables :
          (\A k \in j + 1..Len(line.vars) : line.vars[k].name # line.vars[j].name) =>
             environs[i][line.vars[j].name] \in
                (IF Meaning(i)[j] = {} THEN {""} ELSE Meaning(i)[j])
    /\ Len(environs) \in {Len(outcomes), Len(outcomes) + 1}
    /\ \A i \in 1..Len(outcomes) - 1 : outcomes[i] # "nonzero"
    /\ envAt = "0" => Len(outcomes) = line.num /\ \A i \in DOMAIN outcomes : outcomes[i] # "nonzero"
    /\ timeAt = "shown" => timed \in {"0", "signal"}
=============================================================================

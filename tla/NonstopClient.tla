--------------------------- MODULE NonstopClient ---------------------------
(* nonstop_networking/client.c: one request from the command line to the   *)
(* exit status.  The server is any peer: it answers one of Answers and     *)
(* then closes the connection, is cut off, or is gone before the client    *)
(* has written its request.                                                *)
(*                                                                         *)
(* A byte is a number: newline, three numbers that stand for the words OK, *)
(* ERROR and any other, and the digits of a size, which takes two of them. *)
EXTENDS Naturals, Sequences

CONSTANTS
    CommandLines,   \* command lines: [method, names, port]
    Answers,        \* byte sequences a server may answer
    LocalFiles,     \* contents the local file may have; NoFile for none
    NoFile,
    BUFFER,         \* size of main's buffer (1024)
    MayChange       \* whether another program may rewrite the local file

ASSUME ClientAssumption ==
    /\ Answers \subseteq Seq(Nat) /\ LocalFiles \ {NoFile} \subseteq Seq(Nat)
    /\ BUFFER \in Nat \ {0}

newline == 10
okWord == 11
errorWord == 12
otherWord == 13
BASE == 4           \* values of one byte of a size

Digits(n) == <<n % BASE, n \div BASE>>

VARIABLES
    clStep,         \* where main is
    command,        \* argv
    sentHead,       \* the request line written to the socket, as words
    sentSize,       \* the size written after it
    sentBody,       \* the file written after that
    answer,         \* all the server sends
    inbox,          \* what is left to read of it
    ending,         \* what a read meets after it: "eof" or "reset"
    local,          \* the local file
    wasLocal,       \* its content when the client started
    shown,          \* what LIST wrote to the standard output
    readsz, writesz,
    moved,          \* read_count or write_count
    clExit          \* the exit status, once clStep is "exited"

clVars == <<clStep, command, sentHead, sentSize, sentBody, answer, inbox, ending,
            local, wasLocal, shown, readsz, writesz, moved, clExit>>

ClientInit ==
    /\ clStep = "args"
    /\ command \in CommandLines
    /\ sentHead = <<>> /\ sentSize = <<>> /\ sentBody = <<>>
    /\ answer \in Answers /\ inbox = answer
    /\ ending \in {"eof", "reset"}
    /\ local \in LocalFiles /\ wasLocal = local
    /\ shown = <<>>
    /\ readsz = 0 /\ writesz = 0 /\ moved = 0
    /\ clExit = 0

Go(step) == clStep' = step /\ UNCHANGED clExit
Leave(status) == clStep' = "exited" /\ clExit' = status

connection == <<sentHead, sentSize, sentBody>>
counters == <<readsz, writesz, moved>>

-----------------------------------------------------------------------------
(* parse_args turns the method into capitals. *)
Upper == [get |-> "GET", put |-> "PUT", delete |-> "DELETE", list |-> "LIST",
          GET |-> "GET", other |-> "OTHER"]

Request == Upper[command.method]

NamesNeeded == [GET |-> 2, PUT |-> 2, DELETE |-> 1, LIST |-> 0]

(* parse_args and check_args: without a port or with too few names only the *)
(* usage is printed.                                                        *)
check_args ==
    /\ clStep = "args"
    /\ IF /\ command.port
          /\ Request \in DOMAIN NamesNeeded
          /\ command.names >= NamesNeeded[Request]
         THEN Go("connect")
         ELSE Leave(1)
    /\ UNCHANGED <<command, connection, answer, inbox, ending, local, wasLocal, shown, counters>>

ConnectToServer ==
    /\ clStep = "connect"
    /\ Go("request") \/ Leave(1)
    /\ UNCHANGED <<command, connection, answer, inbox, ending, local, wasLocal, shown, counters>>

(* A write to a connection the server has closed raises SIGPIPE, which the *)
(* client does not handle.                                                 *)
Pipe ==
    /\ \/ clStep \in {"request", "size"}
       \/ clStep = "body" /\ moved < writesz
    /\ Go("killed")
    /\ UNCHANGED <<command, connection, answer, inbox, ending, local, wasLocal, shown, counters>>

(* GET has opened and emptied its local file, which is supposed to be      *)
(* possible, before it asks for the remote one.  LIST also sends the       *)
(* terminating null byte.                                                  *)
SendRequest ==
    /\ clStep = "request"
    /\ sentHead' = CASE Request = "LIST" -> <<"LIST", "newline", "null">>
                     [] OTHER -> <<Request, "remote", "newline">>
    /\ local' = IF Request = "GET" THEN <<>> ELSE local
    /\ Go(IF Request = "PUT" THEN "stat" ELSE "header")
    /\ UNCHANGED <<command, sentSize, sentBody, answer, inbox, ending, wasLocal, shown, counters>>

Stat ==
    /\ clStep = "stat"
    /\ IF local = NoFile
         THEN Leave(1) /\ UNCHANGED writesz
         ELSE Go("size") /\ writesz' = Len(local)
    /\ UNCHANGED <<command, connection, answer, inbox, ending, local, wasLocal, shown, readsz, moved>>

SendSize ==
    /\ clStep = "size"
    /\ sentSize' = Digits(writesz)
    /\ Go("body")
    /\ UNCHANGED <<command, sentHead, sentBody, answer, inbox, ending, local, wasLocal, shown, counters>>

(* One turn of the loop of PUT: a buffer is read and written as it is,     *)
(* whatever is left of writesz.  At the end of a file that has become      *)
(* shorter the loop goes on for ever without writing anything.             *)
Available == SubSeq(local, moved + 1, IF moved + BUFFER < Len(local) THEN moved + BUFFER ELSE Len(local))

SendBuffer ==
    /\ clStep = "body"
    /\ IF moved < writesz
         THEN /\ Available # <<>>
              /\ sentBody' = sentBody \o Available
              /\ moved' = moved + Len(Available)
              /\ Go("body")
         ELSE Go("header") /\ UNCHANGED <<sentBody, moved>>
    /\ UNCHANGED <<command, sentHead, sentSize, answer, inbox, ending, local, wasLocal, shown, readsz, writesz>>

-----------------------------------------------------------------------------
(* read_all(socket, buffer, count): count bytes, or fewer at the end; -1   *)
(* when the connection is reset.                                           *)
ReadFails(count) == Len(inbox) < count /\ ending = "reset"
Got(count) == IF Len(inbox) < count THEN inbox ELSE SubSeq(inbox, 1, count)
Rest(count) == IF Len(inbox) < count THEN <<>> ELSE SubSeq(inbox, count + 1, Len(inbox))

(* get_response_header reads bytes up to a newline.  At the end of the     *)
(* input it keeps the byte it read last, so it goes on for ever; when it   *)
(* has read none, the byte is uninitialized and may be a newline.          *)
LineEnds == {i \in 1..Len(inbox) : inbox[i] = newline}
FirstEnd == CHOOSE i \in LineEnds : \A j \in LineEnds : i <= j

(* process_response *)
AfterResponse(line) ==
    CASE line = <<errorWord, newline>> -> Go("error")
      [] line = <<okWord, newline>> /\ Request \in {"GET", "LIST"} -> Go("readsize")
      [] line = <<okWord, newline>> /\ Request \in {"PUT", "DELETE"} -> Leave(0)
      [] OTHER -> Leave(11)

get_response_header ==
    /\ clStep \in {"header", "error"}
    /\ IF LineEnds # {}
         THEN /\ inbox' = SubSeq(inbox, FirstEnd + 1, Len(inbox))
              /\ IF clStep = "error" THEN Leave(10) ELSE AfterResponse(SubSeq(inbox, 1, FirstEnd))
         ELSE /\ inbox' = <<>>
              /\ \/ ending = "reset" /\ Leave(1)
                 \/ ending = "eof" /\ inbox = <<>> /\ Leave(IF clStep = "error" THEN 10 ELSE 11)
                 \/ ending = "eof" /\ Go("spin")
    /\ UNCHANGED <<command, connection, answer, ending, local, wasLocal, shown, counters>>

(* read_message_size.  Nothing read is size 0; of a size cut in half the   *)
(* other bytes are uninitialized.  A reset gives -1, which LIST keeps as   *)
(* it is and GET turns into the largest size.                              *)
ReadSize ==
    /\ clStep = "readsize"
    /\ inbox' = Rest(2)
    /\ \/ /\ ~ReadFails(2)
          /\ CASE Len(Got(2)) = 0 -> readsz' = 0
               [] Len(Got(2)) = 1 -> \E d \in 0..BASE - 1 : readsz' = inbox[1] + BASE * d
               [] OTHER -> readsz' = inbox[1] + BASE * inbox[2]
          /\ Go("read")
       \/ /\ ReadFails(2)
          /\ UNCHANGED readsz
          /\ IF Request = "LIST" THEN Leave(1) ELSE Go("overrun")
    /\ UNCHANGED <<command, connection, answer, ending, local, wasLocal, shown, writesz, moved>>

(* A turn of the read loop that takes the end of the input for the end of  *)
(* the file.                                                               *)
ReadBodyToEnd ==
    /\ clStep = "read" /\ moved < readsz /\ ~ReadFails(BUFFER)
    /\ inbox' = Rest(BUFFER)
    /\ moved' = IF Got(BUFFER) = <<>> THEN readsz ELSE moved + Len(Got(BUFFER))
    /\ IF Request = "GET"
         THEN local' = local \o Got(BUFFER) /\ UNCHANGED shown
         ELSE shown' = shown \o Got(BUFFER) /\ UNCHANGED local
    /\ Go("read")
    /\ UNCHANGED <<command, connection, answer, ending, wasLocal, readsz, writesz>>

(* One turn of the loop of GET and LIST.  After a reset the result -1 is   *)
(* taken for the number of bytes to write, far past the buffer.            *)
ReadBody ==
    /\ clStep = "read" /\ moved < readsz
    /\ inbox' = Rest(BUFFER)
    /\ \/ ReadFails(BUFFER) /\ Go("overrun") /\ UNCHANGED <<local, shown, moved>>
       \/ /\ ~ReadFails(BUFFER) /\ Got(BUFFER) = <<>>
          /\ Leave(1)
          /\ UNCHANGED <<local, shown, moved>>
       \/ /\ ~ReadFails(BUFFER) /\ Got(BUFFER) # <<>>
          /\ moved' = moved + Len(Got(BUFFER))
          /\ IF Request = "GET"
               THEN local' = local \o Got(BUFFER) /\ UNCHANGED shown
               ELSE shown' = shown \o Got(BUFFER) /\ UNCHANGED local
          /\ Go("read")
    /\ UNCHANGED <<command, connection, answer, ending, wasLocal, readsz, writesz>>

(* More than announced, in the last buffer or after it, is an error; -1 of *)
(* a reset is not more than 0.                                             *)
CheckRest ==
    /\ clStep = "read" /\ moved >= readsz
    /\ inbox' = IF moved > readsz THEN inbox ELSE Rest(BUFFER)
    /\ IF moved > readsz \/ (~ReadFails(BUFFER) /\ inbox # <<>>) THEN Leave(1) ELSE Leave(0)
    /\ UNCHANGED <<command, connection, answer, ending, local, wasLocal, shown, counters>>

(* Another program writes the local file while PUT is at work. *)
Change ==
    /\ MayChange /\ clStep \in {"size", "body"}
    /\ local = wasLocal
    /\ local' \in LocalFiles \ {NoFile, local}
    /\ UNCHANGED <<clStep, command, connection, answer, inbox, ending, wasLocal, shown, counters, clExit>>

ClientSteps ==
    \/ check_args \/ ConnectToServer \/ Pipe \/ SendRequest \/ Stat \/ SendSize \/ SendBuffer
    \/ get_response_header \/ ReadSize \/ ReadBody \/ CheckRest

ClientSpec == ClientInit /\ [][ClientSteps \/ Change]_clVars

-----------------------------------------------------------------------------
(* The answer a GET or a LIST has to come with: after OK a size and as many *)
(* bytes; nothing after them, or the connection was reset there.            *)
Whole(data) ==
    /\ Len(answer) = 4 + Len(data) \/ (Len(answer) > 4 + Len(data) /\ ending = "reset")
    /\ answer[3] + BASE * answer[4] = Len(data)
    /\ \A i \in 1..Len(data) : answer[4 + i] = data[i]

(* The connection ended before the size was complete.                      *)
SizeCut == Len(answer) < 4

(* An exit status of 0 is the truth.  For PUT the server was sent the      *)
(* whole local file under its size, unless another program changed it; for *)
(* GET and LIST the local file or the output holds what the server         *)
(* announced and nothing less or more.  The two cases the code does not    *)
(* notice are excluded by name: an answer that ends inside the size, and   *)
(* bytes after the announced ones that come before a reset.                *)
ClientIsTruthful ==
    clStep = "exited" /\ clExit = 0 =>
        /\ SubSeq(answer, 1, 2) = <<okWord, newline>>
        /\ Request = "PUT" /\ local = wasLocal =>
              /\ sentSize = Digits(Len(local))
              /\ sentBody = local
        /\ Request = "GET" /\ ~SizeCut => Whole(local)
        /\ Request = "LIST" /\ ~SizeCut => Whole(shown)

(* Main has ended, or one of its loops cannot end: the answer has no line  *)
(* where it needs one, or the file PUT sends has become shorter.           *)
ClientOver ==
    \/ clStep \in {"exited", "killed", "overrun", "spin"}
    \/ clStep = "body" /\ local # wasLocal
=============================================================================

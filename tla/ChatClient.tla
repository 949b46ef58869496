----------------------------- MODULE ChatClient -----------------------------
(* charming_chatroom/client.c with chat_window.c and utils.c: main, the    *)
(* thread that sends what the user types, the thread that shows what the   *)
(* server sends, and the handler of SIGINT, which main runs.  Output goes  *)
(* to a file, so that input comes from fgets.                              *)
(*                                                                         *)
(* pthread_cancel takes effect at the next read, write or fgets of the     *)
(* cancelled thread, also when it is blocked there: a call that returns    *)
(* did so before the cancellation.                                         *)
EXTENDS Naturals, Sequences

CONSTANTS
    TypedLines,          \* sequence of the lines the user types; then end of file
    ServerPosts,          \* sequence of the messages the server sends: <<author, text>>
    MaxSigints

ASSUME ChatClientAssumption ==
    TypedLines \in Seq(STRING) /\ ServerPosts \in Seq(STRING \X STRING)

VARIABLES
    mainAt,         \* "connect", "create", "join", "join reader", or in the handler
    writerAt, readerAt,
    link,           \* "up", "refused", "peer closed", "shut" (by the handler)
    serverSocket,   \* "open" or -1 as "none"
    cancelled,      \* threads cancelled but not ended
    closeChat,
    typed,          \* lines not yet read
    posted,         \* messages not yet read
    wire,           \* what the server has been sent: sizes and messages
    screen,         \* messages written to the output file
    held,           \* what the writer's msg and the reader's buffer hold
    sigints,
    ended           \* "no", an exit status, or how the program died

ccVars == <<mainAt, writerAt, readerAt, link, serverSocket, cancelled, closeChat, typed,
            posted, wire, screen, held, sigints, ended>>

ChatClientInit ==
    /\ mainAt = "connect"
    /\ writerAt = "none" /\ readerAt = "none"
    /\ link = "refused" /\ serverSocket = "open"
    /\ cancelled = {} /\ closeChat = FALSE
    /\ typed = TypedLines /\ posted = ServerPosts
    /\ wire = <<>> /\ screen = <<>>
    /\ held = [thread \in {"writer", "reader"} |-> <<>>]
    /\ sigints = 0
    /\ ended = "no"

Running == ended = "no"

-----------------------------------------------------------------------------
(* main: a connect that fails is reported, and the program goes on. *)
connect_to_server ==
    /\ Running /\ mainAt = "connect"
    /\ link' \in {"up", "refused"}
    /\ mainAt' = "create"
    /\ UNCHANGED <<writerAt, readerAt, serverSocket, cancelled, closeChat, typed, posted,
                   wire, screen, held, sigints, ended>>

CreateThreads ==
    /\ Running /\ mainAt = "create"
    /\ mainAt' = "join"
    /\ writerAt' = "prompt" /\ readerAt' = "size"
    /\ UNCHANGED <<link, serverSocket, cancelled, closeChat, typed, posted, wire, screen,
                   held, sigints, ended>>

JoinWriter ==
    /\ Running /\ mainAt = "join"
    /\ writerAt = "over"
    /\ mainAt' = "join reader"
    /\ UNCHANGED <<writerAt, readerAt, link, serverSocket, cancelled, closeChat, typed, posted,
                   wire, screen, held, sigints, ended>>

JoinReader ==
    /\ Running /\ mainAt = "join reader"
    /\ readerAt = "over"
    /\ ended' = "0"
    /\ UNCHANGED <<mainAt, writerAt, readerAt, link, serverSocket, cancelled, closeChat, typed,
                   posted, wire, screen, held, sigints>>

(* close_program.  The handler is installed before the threads exist, and  *)
(* cancels what is then a null thread; once main has joined the writer, it *)
(* cancels a thread that is gone, which is undefined.                      *)
Sigint ==
    /\ Running /\ mainAt \in {"connect", "create", "join", "join reader"}
    /\ sigints < MaxSigints
    /\ sigints' = sigints + 1
    /\ \/ /\ mainAt # "join"
          /\ ended' = "crash" /\ UNCHANGED <<mainAt, cancelled>>
       \/ /\ mainAt \in {"join", "join reader"}
          /\ mainAt' = "cancel reader"
          /\ cancelled' = cancelled \union (IF writerAt = "over" THEN {} ELSE {"writer"})
          /\ UNCHANGED ended
    /\ UNCHANGED <<writerAt, readerAt, link, serverSocket, closeChat, typed, posted, wire,
                   screen, held>>

CancelReader ==
    /\ Running /\ mainAt = "cancel reader"
    /\ cancelled' = cancelled \union (IF readerAt = "over" THEN {} ELSE {"reader"})
    /\ mainAt' = "close chat"
    /\ UNCHANGED <<writerAt, readerAt, link, serverSocket, closeChat, typed, posted, wire,
                   screen, held, sigints, ended>>

close_chat ==
    /\ Running /\ mainAt = "close chat"
    /\ closeChat' = TRUE
    /\ mainAt' = "close connection"
    /\ UNCHANGED <<writerAt, readerAt, link, serverSocket, cancelled, typed, posted, wire,
                   screen, held, sigints, ended>>

(* shutdown fails on a socket that is closed or was never connected. *)
close_server_connection ==
    /\ Running /\ mainAt = "close connection"
    /\ IF serverSocket = "none" \/ link = "refused"
         THEN ended' = "3" /\ UNCHANGED <<link, serverSocket, mainAt>>
         ELSE /\ link' = "shut" /\ serverSocket' = "none"
              /\ mainAt' = "join"
              /\ UNCHANGED ended
    /\ UNCHANGED <<writerAt, readerAt, cancelled, closeChat, typed, posted, wire, screen,
                   held, sigints>>

-----------------------------------------------------------------------------
(* thread_cancellation_handler runs when a cancelled thread reaches a      *)
(* cancellation point: it frees what the thread holds.                     *)
Cancel(thread, at) ==
    /\ Running /\ thread \in cancelled
    /\ at
    /\ cancelled' = cancelled \ {thread}
    /\ held' = [held EXCEPT ![thread] = <<>>]
    /\ UNCHANGED <<mainAt, link, serverSocket, closeChat, typed, posted, wire, screen,
                   sigints, ended>>

CancelWriter ==
    /\ Cancel("writer", writerAt \in {"prompt", "write size", "write message"})
    /\ writerAt' = "over"
    /\ UNCHANGED readerAt

CancelReaderThread ==
    /\ Cancel("reader", readerAt \in {"size", "body", "show"})
    /\ readerAt' = "over"
    /\ UNCHANGED writerAt

(* create_message: a line goes out with the name of its author. *)
create_message(line) == <<"name", line>>

(* read_message_from_screen: fgets gives the next line; at the end of the  *)
(* input, or if the chat has been closed meanwhile, the thread ends.       *)
GetLine ==
    /\ Running /\ writerAt = "prompt" /\ "writer" \notin cancelled
    /\ IF typed = <<>>
         THEN writerAt' = "over" /\ UNCHANGED <<typed, held>>
         ELSE /\ held' = [held EXCEPT !["writer"] = create_message(Head(typed))]
              /\ typed' = Tail(typed)
              /\ writerAt' = "line"
    /\ UNCHANGED <<mainAt, readerAt, link, serverSocket, cancelled, closeChat, posted, wire,
                   screen, sigints, ended>>

TestCloseChat ==
    /\ Running /\ writerAt = "line"
    /\ IF closeChat
         THEN /\ writerAt' = "over"
              /\ held' = [held EXCEPT !["writer"] = <<>>]
              /\ cancelled' = cancelled \ {"writer"}
         ELSE writerAt' = "write size" /\ UNCHANGED <<held, cancelled>>
    /\ UNCHANGED <<mainAt, readerAt, link, serverSocket, closeChat, typed, posted, wire, screen,
                   sigints, ended>>

(* The message is sent before its size. *)
WriteMessageFirst ==
    /\ Running /\ writerAt \in {"write size", "write message"} /\ "writer" \notin cancelled
    /\ serverSocket = "open" /\ link = "up"
    /\ IF writerAt = "write size"
         THEN /\ wire' = Append(wire, <<"message", held["writer"]>>)
              /\ writerAt' = "write message" /\ UNCHANGED held
         ELSE /\ wire' = Append(wire, <<"size", held["writer"]>>)
              /\ writerAt' = "prompt" /\ held' = [held EXCEPT !["writer"] = <<>>]
    /\ UNCHANGED <<mainAt, readerAt, link, serverSocket, cancelled, closeChat, typed, posted,
                   screen, sigints, ended>>

(* write_message_size and write_all_to_socket.  With the descriptor closed *)
(* the write fails and is repeated until the thread is cancelled; with no  *)
(* peer SIGPIPE kills the program.                                         *)
WriteToServer ==
    /\ Running /\ writerAt \in {"write size", "write message"} /\ "writer" \notin cancelled
    /\ serverSocket = "open"
    /\ IF link = "up"
         THEN /\ IF writerAt = "write size"
                   THEN /\ wire' = Append(wire, <<"size", held["writer"]>>)
                        /\ writerAt' = "write message" /\ UNCHANGED held
                   ELSE /\ wire' = Append(wire, <<"message", held["writer"]>>)
                        /\ writerAt' = "prompt" /\ held' = [held EXCEPT !["writer"] = <<>>]
              /\ UNCHANGED ended
         ELSE ended' = "SIGPIPE" /\ UNCHANGED <<wire, writerAt, held>>
    /\ UNCHANGED <<mainAt, readerAt, link, serverSocket, cancelled, closeChat, typed, posted,
                   screen, sigints>>

(* get_message_size: the end of the input ends the thread; a socket that   *)
(* was never connected is read again and again.                            *)
get_message_size ==
    /\ Running /\ readerAt = "size" /\ "reader" \notin cancelled
    /\ serverSocket = "open"
    /\ \/ posted # <<>> /\ link \in {"up", "peer closed"} /\ readerAt' = "body"
       \/ posted = <<>> /\ link = "peer closed" /\ readerAt' = "over"
    /\ UNCHANGED <<mainAt, writerAt, link, serverSocket, cancelled, closeChat, typed, posted, wire, screen,
                   held, sigints, ended>>

ReadMessage ==
    /\ Running /\ readerAt = "body" /\ "reader" \notin cancelled
    /\ serverSocket = "open"
    /\ held' = [held EXCEPT !["reader"] = Head(posted)]
    /\ posted' = Tail(posted)
    /\ readerAt' = "show"
    /\ UNCHANGED <<mainAt, writerAt, link, serverSocket, cancelled, closeChat, typed, wire,
                   screen, sigints, ended>>

write_message_to_screen ==
    /\ Running /\ readerAt = "show"
    /\ screen' = Append(screen, held["reader"])
    /\ held' = [held EXCEPT !["reader"] = <<>>]
    /\ readerAt' = "size"
    /\ UNCHANGED <<mainAt, writerAt, link, serverSocket, cancelled, closeChat, typed, posted,
                   wire, sigints, ended>>

(* The server closes the connection after its last message. *)
ServerCloses ==
    /\ Running /\ link = "up"
    /\ link' = "peer closed"
    /\ UNCHANGED <<mainAt, writerAt, readerAt, serverSocket, cancelled, closeChat, typed, posted,
                   wire, screen, held, sigints, ended>>

(* The steps of the client alone, and those that wait for the user or the  *)
(* server.                                                                 *)
ChatClientSteps ==
    \/ connect_to_server \/ CreateThreads \/ JoinWriter \/ JoinReader
    \/ CancelReader \/ close_chat \/ close_server_connection
    \/ CancelWriter \/ CancelReaderThread
    \/ TestCloseChat \/ WriteToServer \/ ReadMessage \/ write_message_to_screen

ChatClientWorld == Sigint \/ GetLine \/ get_message_size \/ ServerCloses

ChatClientSpec == ChatClientInit /\ [][ChatClientSteps \/ ChatClientWorld]_ccVars

-----------------------------------------------------------------------------
(* The frames of the first n lines. *)
Frames(n) ==
    [i \in 1..2 * n |->
        <<IF i % 2 = 1 THEN "size" ELSE "message", create_message(TypedLines[(i + 1) \div 2])>>]

(* Whatever the handler cancels and closes meanwhile, the server gets a    *)
(* prefix of the frames of the lines typed, each size before its message   *)
(* and no line lost or twice in between, and the screen shows a prefix of  *)
(* what the server sent.                                                   *)
ChatClientInOrder ==
    /\ \E k \in 0..2 * Len(TypedLines) : wire = SubSeq(Frames(Len(TypedLines)), 1, k)
    /\ \E k \in 0..Len(ServerPosts) : screen = SubSeq(ServerPosts, 1, k)

ChatClientOver == sigints > 0 => ended # "no"
=============================================================================

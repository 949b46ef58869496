--------------------------- MODULE NonstopServer ---------------------------
(***************************************************************************)
(* The server of nonstop_networking: one thread, an edge-triggered epoll   *)
(* loop, and one job per connection that is taken as far as its socket     *)
(* allows whenever an event for it is delivered (current).                 *)
(*                                                                         *)
(* A connection's input is counted in units: HEADER for the request line,  *)
(* one for the size of a PUT, then the data, of which CHUNK fill the       *)
(* job's buffer.  The status line, the size and each unit of data take one *)
(* unit of the socket's send buffer, which holds WINDOW.  read and write   *)
(* take what there is; at the end they answer EAGAIN, or end of file once  *)
(* the client has shut its side down.  A file is an inode: GET keeps it    *)
(* open, PUT opens its name again for every chunk.                         *)
(*                                                                         *)
(* A job's name is freed by the first attempt to send it an error and when *)
(* a DELETE has taken it from file_list; with the name in the list goes    *)
(* that of the PUT that put it there.  If the answer cannot be written     *)
(* then, and the job is dispatched again, a freed name is opened, compared *)
(* or freed once more.  This is undefined behaviour: the model ends there  *)
(* (ruined).                                                               *)
(***************************************************************************)
EXTENDS Integers, SequencesExt, FiniteSetsExt

CONSTANTS Clients, Names,
          Scripts,   \* what clients may ask: functions from Clients to requests
          Earlier,   \* what was stored before: at most one name, with its size
          MayVanish, \* clients that may close their connection at any time
          CHUNK,     \* 1024
          HEADER,    \* units of the request line
          WINDOW

ASSUME WidthAssumption == {CHUNK, HEADER, WINDOW} \subseteq Nat \ {0}

Verbs   == {"PUT", "GET", "DELETE", "LIST", "V_UNKNOWN"}
Request == [verb : Verbs, name : Names, size : Nat, sends : Nat]
ASSUME ScriptAssumption == Scripts \subseteq [Clients -> Request]

NONE   == 0
ASSUME ClientsAssumption == IsFiniteSet(Clients) /\ Clients # {} /\ NONE \notin Clients
ASSUME EarlierAssumption ==
    \A stored \in Earlier : /\ DOMAIN stored \subseteq Names
                            /\ \A m, n \in DOMAIN stored : m = n /\ stored[n] \in Nat

Inodes == 1 .. 2 * Cardinality(Clients) * CHUNK

VARIABLES
    asked,     \* the script of this behaviour
    arrived,   \* units that have reached the server, per connection
    fin,       \* connections whose client has shut down its writing side
    gone,      \* connections whose client does not read any more either
    reset,     \* connections on which that has become known as a reset
    room,      \* free units of the send buffer
    ready,     \* connections with an event epoll_wait has not delivered
    current,   \* the connection whose event is being handled
    dir,       \* the directory: the inode of each name
    content,   \* of each inode
    file_list, \* the names LIST shows
    listed,    \* the jobs whose name, the very string, is in file_list
    freed,     \* the jobs whose name has been freed
    ruined,    \* a freed name has been used
    state, request, taken, readsz, writesz, datasz, filesize, buf, \* the jobs
    filefd, offset,
    status,    \* history: the status line each client was sent
    got,       \* history: the data each client was sent
    opened,    \* history: what a GET found in its file
    disturbed, \* history: jobs whose file was changed under them by others
    stopped    \* the loop was left after SIGINT

sockets == <<arrived, fin, gone, reset, room>>
loop    == <<ready, current>>
files   == <<dir, content, file_list>>
heap    == <<listed, freed, ruined>>
reading == <<request, taken, readsz, datasz, filesize>>
writing == <<writesz, buf, filefd, offset, status, got, opened>>
vars == <<asked, sockets, loop, files, heap, state, reading, writing, disturbed, stopped>>

Of(c)    == asked[c].name
Total(c) == HEADER + IF asked[c].verb = "PUT" THEN 1 + asked[c].sends ELSE 0

-----------------------------------------------------------------------------
(* What an earlier client, 0, has stored: nothing or one file. *)
EarlierUnits(stored) ==
    IF DOMAIN stored = {} THEN <<>>
    ELSE [k \in 1 .. stored[CHOOSE n \in DOMAIN stored : TRUE] |-> <<0, k>>]

Init ==
    /\ asked \in Scripts
    /\ arrived = [c \in Clients |-> 0]
    /\ fin = {} /\ gone = {} /\ reset = {}
    /\ room = [c \in Clients |-> WINDOW]
    /\ ready = {} /\ current = NONE
    /\ \E stored \in Earlier :
         /\ dir = [n \in Names |-> IF n \in DOMAIN stored THEN 1 ELSE NONE]
         /\ content = [i \in Inodes |-> IF i = 1 THEN EarlierUnits(stored) ELSE <<>>]
         /\ file_list \in {<<>>} \union {<<n>> : n \in DOMAIN stored}
         /\ file_list = <<>> <=> DOMAIN stored = {}
    /\ state = [c \in Clients |-> "none"]
    /\ request = [c \in Clients |-> "V_UNKNOWN"]
    /\ taken = [c \in Clients |-> 0]
    /\ readsz = [c \in Clients |-> 0]
    /\ datasz = [c \in Clients |-> 0]
    /\ filesize = [c \in Clients |-> 0]
    /\ writesz = [c \in Clients |-> 0]
    /\ buf = [c \in Clients |-> <<>>]
    /\ filefd = [c \in Clients |-> NONE]
    /\ offset = [c \in Clients |-> 0]
    /\ status = [c \in Clients |-> "none"]
    /\ got = [c \in Clients |-> <<>>]
    /\ opened = [c \in Clients |-> <<>>]
    /\ disturbed = {}
    /\ listed = {} /\ freed = {} /\ ruined = FALSE
    /\ stopped = FALSE

(* Any activity on a registered socket is an event.  (What comes before    *)
(* accept or after close makes no difference, and what comes while another *)
(* job is handled is the same as what comes right after: both left out.)   *)
Notify(c) ==
    /\ state[c] \notin {"none", "DONE"}
    /\ current \in {NONE, c}
    /\ ready' = ready \union {c}

(* The clients, outside the server. *)
Arrive(c) ==
    /\ c \notin fin
    /\ \E n \in arrived[c] + 1 .. Total(c) : arrived' = [arrived EXCEPT ![c] = n]
    /\ Notify(c)
    /\ UNCHANGED <<asked, fin, gone, reset, room, current, files, heap, state, reading, writing,
                   disturbed, stopped>>

ShutDown(c) ==
    /\ c \notin fin /\ arrived[c] = Total(c)
    /\ fin' = fin \union {c}
    /\ Notify(c)
    /\ UNCHANGED <<asked, arrived, gone, reset, room, current, files, heap, state, reading,
                   writing, disturbed, stopped>>

Vanish(c) ==
    /\ c \in MayVanish \ gone
    /\ gone' = gone \union {c} /\ fin' = fin \union {c}
    /\ Notify(c)
    /\ UNCHANGED <<asked, arrived, reset, room, current, files, heap, state, reading,
                   writing, disturbed, stopped>>

(* What is sent to a client that is gone is answered by a reset. *)
Reset(c) ==
    /\ c \in gone \ reset
    /\ reset' = reset \union {c}
    /\ Notify(c)
    /\ UNCHANGED <<asked, arrived, fin, gone, room, current, files, heap, state, reading,
                   writing, disturbed, stopped>>

Drain(c) ==
    /\ c \notin gone /\ room[c] < WINDOW
    /\ room' = [room EXCEPT ![c] = WINDOW]
    /\ Notify(c)
    /\ UNCHANGED <<asked, arrived, fin, gone, reset, current, files, heap, state, reading,
                   writing, disturbed, stopped>>

-----------------------------------------------------------------------------
(* accept, init_job and epoll_add: the new socket is writable, an event *)
Accept(c) ==
    /\ current = NONE /\ state[c] = "none"
    /\ state' = [state EXCEPT ![c] = "READ_HEADER"]
    /\ ready' = ready \union {c}
    /\ UNCHANGED <<asked, sockets, current, files, heap, reading, writing, disturbed, stopped>>

Lists(n) == \E i \in DOMAIN file_list : file_list[i] = n

(* put: the name of the job itself goes to file_list. *)
ListName(c) ==
    IF Lists(Of(c))
      THEN UNCHANGED <<file_list, listed>>
      ELSE /\ file_list' = Append(file_list, Of(c))
           /\ listed' = listed \union {c}

(* epoll_wait delivers an event.  put and handle_delete do not ask whether *)
(* only the response is left: put lists the name, handle_delete starts     *)
(* over.                                                                   *)
Dispatch(c) ==
    /\ current = NONE /\ c \in ready \ freed
    /\ current' = c
    /\ ready' = ready \ {c}
    /\ IF state[c] = "WRITE_RESPONSE" /\ request[c] = "DELETE"
         THEN state' = [state EXCEPT ![c] = "SERVING"]
         ELSE UNCHANGED state
    /\ IF state[c] = "WRITE_RESPONSE" /\ request[c] = "PUT"
         THEN ListName(c)
         ELSE UNCHANGED <<file_list, listed>>
    /\ UNCHANGED <<asked, sockets, dir, content, freed, ruined, reading, writing,
                   disturbed, stopped>>

(* A job without a name is dispatched: handle_delete opens the name, put   *)
(* looks for it in file_list, write_err frees it again.                    *)
UseFreedName(c) ==
    /\ current = NONE /\ c \in ready \intersect freed
    /\ ruined' = TRUE
    /\ UNCHANGED <<asked, sockets, loop, files, listed, freed, state, reading, writing,
                   disturbed, stopped>>

(* The loop is left; cleanup empties the directory. *)
Cleanup ==
    /\ current = NONE
    /\ stopped' = TRUE
    /\ dir' = [n \in Names |-> NONE]
    /\ file_list' = <<>>
    /\ UNCHANGED <<asked, sockets, loop, content, heap, state, reading, writing, disturbed>>

Handling(c, st)  == current = c /\ state[c] = st
Move(c, st)      == state' = [state EXCEPT ![c] = st]
Continue         == UNCHANGED current
BackToLoop       == current' = NONE

-----------------------------------------------------------------------------
(* What becomes of a job whose request line is known. *)
AfterHeader(c) ==
    /\ request' = [request EXCEPT ![c] = asked[c].verb]
    /\ Move(c, CASE asked[c].verb = "PUT" -> "READ_SIZE"
                 [] asked[c].verb = "V_UNKNOWN" -> "ERROR"
                 [] OTHER -> "SERVING")
    /\ Continue

(* read_header.  After an end of file get_header goes on with what is in   *)
(* a[0]: the last character, until the header is too long; or, if this     *)
(* call has read nothing, whatever was there, perhaps the newline that is  *)
(* missing.                                                                *)
ReadHeader(c) ==
    /\ Handling(c, "READ_HEADER")
    /\ taken' = [taken EXCEPT ![c] = Min({HEADER, arrived[c]})]
    /\ \/ /\ taken'[c] = HEADER
          /\ AfterHeader(c)
       \/ /\ taken'[c] < HEADER /\ c \notin fin
          /\ BackToLoop
          /\ UNCHANGED <<request, state>>
       \/ /\ taken'[c] < HEADER /\ c \in fin
          /\ Move(c, "ERROR") /\ Continue
          /\ UNCHANGED request
       \/ /\ taken[c] = HEADER - 1 /\ arrived[c] = taken[c] /\ c \in fin
          /\ AfterHeader(c)
    /\ UNCHANGED <<asked, sockets, ready, files, heap, readsz, datasz, filesize, writing,
                   disturbed, stopped>>

-----------------------------------------------------------------------------
(* Mutant: the handler returns once it has the size, and waits for an      *)
(* event that may have been delivered already.                             *)
PutReadSizeYields(c) ==
    /\ Handling(c, "READ_SIZE")
    /\ IF arrived[c] > taken[c]
         THEN /\ taken' = [taken EXCEPT ![c] = @ + 1]
              /\ filesize' = [filesize EXCEPT ![c] = asked[c].size]
              /\ Move(c, "SERVING")
         ELSE UNCHANGED <<state, taken, filesize>>
    /\ BackToLoop
    /\ UNCHANGED <<asked, sockets, ready, files, heap, request, readsz, datasz, writing,
                   disturbed, stopped>>

(* put: the size, 0 if the input ends before it *)
PutReadSize(c) ==
    /\ Handling(c, "READ_SIZE")
    /\ \/ /\ arrived[c] > taken[c]
          /\ taken' = [taken EXCEPT ![c] = @ + 1]
          /\ filesize' = [filesize EXCEPT ![c] = asked[c].size]
          /\ Move(c, "SERVING") /\ Continue
       \/ /\ arrived[c] = taken[c] /\ c \in fin
          /\ Move(c, "SERVING") /\ Continue
          /\ UNCHANGED <<taken, filesize>>
       \/ /\ arrived[c] = taken[c] /\ c \notin fin
          /\ BackToLoop
          /\ UNCHANGED <<state, taken, filesize>>
    /\ UNCHANGED <<asked, sockets, ready, files, heap, request, readsz, datasz, writing,
                   disturbed, stopped>>

Putting(c)  == request[c] = "PUT" /\ (Handling(c, "SERVING") \/ Handling(c, "READ_DATA"))
Readable(c) == Min({CHUNK - readsz[c], arrived[c] - taken[c]})
Filled(c)   == readsz[c] + Readable(c)

(* put: the buffer is not full and the input has not ended. *)
PutWait(c) ==
    /\ Putting(c)
    /\ Filled(c) < CHUNK /\ c \notin fin
    /\ taken' = [taken EXCEPT ![c] = @ + Readable(c)]
    /\ readsz' = [readsz EXCEPT ![c] = Filled(c)]
    /\ BackToLoop
    /\ UNCHANGED <<asked, sockets, ready, files, heap, state, request, datasz, filesize,
                   writing, disturbed, stopped>>

(* Jobs other than c that work on the file named n. *)
Users(c, n) ==
    {d \in Clients \ {c} : /\ Of(d) = n
                           /\ \/ request[d] = "PUT" /\ state[d] = "READ_DATA"
                              \/ filefd[d] # NONE /\ filefd[d] = dir[n]}

(* The file open finds or creates.  (Bound: the disk has Inodes.) *)
FreeInodes == {j \in Inodes : content[j] = <<>> /\ \A n \in Names : dir[n] # j}
Inode(c) == IF dir[Of(c)] # NONE THEN dir[Of(c)] ELSE CHOOSE j \in FreeInodes : TRUE

(* Mutant: later chunks truncate the file, too. *)
WrittenAnew(c, units) == [content EXCEPT ![Inode(c)] = units]

(* open, for the first chunk with O_TRUNC, else O_APPEND; write_all; close *)
Written(c, units) ==
    [content EXCEPT ![Inode(c)] = IF state[c] = "SERVING" THEN units ELSE @ \o units]

Units(c, from, to) == [k \in 1 .. to - from + 1 |-> <<c, from + k - 1>>]
NewUnits(c) == Units(c, datasz[c] + 1, datasz[c] + Filled(c))

(* put: a buffer is full or the last one; what there is goes to the file.  *)
(* Too much, or an end of input too early, is an error: remove.            *)
PutChunk(c) ==
    /\ Putting(c)
    /\ Filled(c) = CHUNK \/ c \in fin
    /\ dir[Of(c)] # NONE \/ FreeInodes # {}
    /\ taken' = [taken EXCEPT ![c] = @ + Readable(c)]
    /\ datasz' = [datasz EXCEPT ![c] = @ + Filled(c)]
    /\ readsz' = [readsz EXCEPT ![c] = 0]
    /\ disturbed' = (disturbed \ (IF state[c] = "SERVING" THEN {c} ELSE {}))
                       \union Users(c, Of(c))
    /\ \/ /\ datasz'[c] > filesize[c] \/ (datasz'[c] < filesize[c] /\ Filled(c) < CHUNK)
          /\ dir' = [dir EXCEPT ![Of(c)] = NONE]
          /\ content' = IF dir[Of(c)] = NONE THEN content ELSE Written(c, NewUnits(c))
          /\ Move(c, "ERROR")
          /\ UNCHANGED <<file_list, listed>>
       \/ /\ datasz'[c] = filesize[c]
          /\ dir' = [dir EXCEPT ![Of(c)] = Inode(c)]
          /\ content' = Written(c, NewUnits(c))
          /\ ListName(c)
          /\ Move(c, "WRITE_RESPONSE")
       \/ /\ datasz'[c] < filesize[c] /\ Filled(c) = CHUNK
          /\ dir' = [dir EXCEPT ![Of(c)] = Inode(c)]
          /\ content' = Written(c, NewUnits(c))
          /\ Move(c, "READ_DATA")
          /\ UNCHANGED <<file_list, listed>>
    /\ Continue
    /\ UNCHANGED <<asked, sockets, ready, freed, ruined, request, filesize, writing, stopped>>

-----------------------------------------------------------------------------
Serving(c, verb) == Handling(c, "SERVING") /\ request[c] = verb

(* list: the names, taken together as one unit of data *)
ListServe(c) ==
    /\ Serving(c, "LIST")
    /\ filesize' = [filesize EXCEPT ![c] = IF file_list = <<>> THEN 0 ELSE 1]
    /\ buf' = [buf EXCEPT ![c] = <<file_list>>]
    /\ Move(c, "WRITE_RESPONSE") /\ Continue
    /\ UNCHANGED <<asked, sockets, ready, files, heap, request, taken, readsz, datasz, writesz,
                   filefd, offset, status, got, opened, disturbed, stopped>>

(* handle_delete: remove, and the name leaves file_list, where it is once; *)
(* it is freed, and the job's own with it.  (The rest of the loop compares *)
(* with the freed name: what free leaves there is the name of no file.)    *)
DeleteServe(c) ==
    /\ Serving(c, "DELETE") /\ dir[Of(c)] # NONE
    /\ dir' = [dir EXCEPT ![Of(c)] = NONE]
    /\ \/ /\ \E i \in DOMAIN file_list : file_list[i] = Of(c) /\ file_list' = RemoveAt(file_list, i)
          /\ freed' = freed \union {c} \union {d \in listed : Of(d) = Of(c)}
          /\ listed' = {d \in listed : Of(d) # Of(c)}
       \/ ~Lists(Of(c)) /\ UNCHANGED <<file_list, listed, freed>>
    /\ disturbed' = disturbed \union {d \in Users(c, Of(c)) : request[d] = "PUT"}
    /\ Move(c, "WRITE_RESPONSE") /\ Continue
    /\ UNCHANGED <<asked, sockets, ready, content, ruined, reading, writing, stopped>>

(* handle_get: open and fstat *)
GetServe(c) ==
    /\ Serving(c, "GET") /\ dir[Of(c)] # NONE
    /\ filefd' = [filefd EXCEPT ![c] = dir[Of(c)]]
    /\ filesize' = [filesize EXCEPT ![c] = Len(content[dir[Of(c)]])]
    /\ opened' = [opened EXCEPT ![c] = content[dir[Of(c)]]]
    /\ Move(c, "WRITE_RESPONSE") /\ Continue
    /\ UNCHANGED <<asked, sockets, ready, files, heap, request, taken, readsz, datasz, writesz,
                   buf, offset, status, got, disturbed, stopped>>

(* openfile fails. *)
NoSuchFile(c) ==
    /\ Serving(c, "GET") \/ Serving(c, "DELETE")
    /\ dir[Of(c)] = NONE
    /\ Move(c, "ERROR") /\ Continue
    /\ UNCHANGED <<asked, sockets, ready, files, heap, reading, writing, disturbed, stopped>>

-----------------------------------------------------------------------------
CanWrite(c) == c \notin gone /\ room[c] > 0
Spend(c, n) == room' = [room EXCEPT ![c] = @ - n]
Say(c, s)   == status' = [status EXCEPT ![c] = s]

(* What list finds in the uninitialised text of a later call. *)
Lost == <<<<"?">>>>

(* writer answers EAGAIN or an error before it has written anything: in    *)
(* both cases the handler returns.  list has lost its text by its next     *)
(* call, write_err has freed the name before.                              *)
CannotWrite(c) ==
    /\ \E st \in {"WRITE_RESPONSE", "WRITE_SIZE", "ERROR"} : Handling(c, st)
    /\ ~CanWrite(c)
    /\ buf' = IF request[c] = "LIST" THEN [buf EXCEPT ![c] = Lost] ELSE buf
    /\ freed' = IF state[c] = "ERROR" /\ request[c] \in {"PUT", "GET", "DELETE"}
                  THEN freed \union {c} ELSE freed
    /\ BackToLoop
    /\ UNCHANGED <<asked, sockets, ready, files, listed, ruined, state, reading, writesz, filefd,
                   offset, status, got, opened, disturbed, stopped>>

(* shutdown, close; the socket leaves epoll with it *)
Finish(c) == Move(c, "DONE") /\ ready' = ready \ {c} /\ BackToLoop

write_response(c) ==
    /\ Handling(c, "WRITE_RESPONSE") /\ CanWrite(c)
    /\ Spend(c, 1) /\ Say(c, "OK")
    /\ IF request[c] \in {"LIST", "GET"}
         THEN Move(c, "WRITE_SIZE") /\ Continue /\ UNCHANGED ready
         ELSE Finish(c)
    /\ UNCHANGED <<asked, arrived, fin, gone, reset, files, heap, reading, writesz, buf, filefd,
                   offset, got, opened, disturbed, stopped>>

write_size(c) ==
    /\ Handling(c, "WRITE_SIZE") /\ CanWrite(c)
    /\ Spend(c, 1)
    /\ IF filesize[c] = 0
         THEN Finish(c)
         ELSE Move(c, "WRITE_DATA") /\ Continue /\ UNCHANGED ready
    /\ UNCHANGED <<asked, arrived, fin, gone, reset, files, heap, reading, writing, disturbed, stopped>>

write_err(c) ==
    /\ Handling(c, "ERROR") /\ CanWrite(c)
    /\ Spend(c, 1) /\ Say(c, "ERROR")
    /\ Finish(c)
    /\ UNCHANGED <<asked, arrived, fin, gone, reset, files, heap, reading, writesz, buf, filefd,
                   offset, got, opened, disturbed, stopped>>

(* Mutant: the file is read again although the buffer is not sent yet. *)
RefillAlways(c) ==
    IF request[c] = "GET"
      THEN SubSeq(content[filefd[c]], offset[c] + 1,
                  Min({offset[c] + CHUNK, Len(content[filefd[c]])}))
      ELSE buf[c]

(* handle_get: a new buffer is read when nothing of the last one is left   *)
(* to be sent, that is, when writesz is 0.                                 *)
Refill(c) ==
    IF request[c] = "GET" /\ writesz[c] = 0
      THEN SubSeq(content[filefd[c]], offset[c] + 1,
                  Min({offset[c] + CHUNK, Len(content[filefd[c]])}))
      ELSE buf[c]

(* One round of the loop of handle_get or list. *)
WriteData(c) ==
    /\ Handling(c, "WRITE_DATA")
    /\ LET b    == Refill(c)
           left == Len(b) - writesz[c]
           n    == IF c \in gone THEN 0 ELSE Min({room[c], left})
       IN  /\ Spend(c, n)
           /\ got' = [got EXCEPT ![c] = @ \o SubSeq(b, writesz[c] + 1, writesz[c] + n)]
           /\ offset' = [offset EXCEPT ![c] =
                            IF request[c] = "GET" /\ writesz[c] = 0 THEN @ + Len(b) ELSE @]
           /\ IF n < left
                THEN /\ writesz' = [writesz EXCEPT ![c] = @ + n]
                     /\ buf' = [buf EXCEPT ![c] = IF request[c] = "LIST" THEN Lost ELSE b]
                     /\ BackToLoop
                     /\ UNCHANGED <<state, datasz, ready>>
                ELSE /\ datasz' = [datasz EXCEPT ![c] = @ + Len(b)]
                     /\ writesz' = [writesz EXCEPT ![c] = 0]
                     /\ buf' = [buf EXCEPT ![c] = b]
                     /\ IF datasz'[c] >= filesize[c]
                          THEN Finish(c)
                          ELSE Continue /\ UNCHANGED <<state, ready>>
    /\ UNCHANGED <<asked, arrived, fin, gone, reset, files, heap, request, taken, readsz, filesize,
                   filefd, status, opened, disturbed, stopped>>

-----------------------------------------------------------------------------
Server(c) ==
    \/ Accept(c) \/ Dispatch(c) \/ UseFreedName(c) \/ ReadHeader(c)
    \/ PutReadSize(c) \/ PutWait(c) \/ PutChunk(c)
    \/ ListServe(c) \/ DeleteServe(c) \/ GetServe(c) \/ NoSuchFile(c)
    \/ CannotWrite(c) \/ write_response(c) \/ write_size(c) \/ write_err(c) \/ WriteData(c)

Client(c) == Arrive(c) \/ ShutDown(c) \/ Vanish(c) \/ Reset(c) \/ Drain(c)

Running == ~stopped /\ ~ruined

Next ==
    /\ Running
    /\ (\E c \in Clients : Server(c) \/ Client(c)) \/ Cleanup

Spec == Init /\ [][Next]_vars

(* The server's thread runs, events of every socket are delivered, clients *)
(* send what they have and read what they are sent.                        *)
FairSpec ==
    /\ Spec
    /\ \A c \in Clients : /\ SF_vars(Running /\ Server(c))
                          /\ WF_vars(Running /\ (Arrive(c) \/ ShutDown(c)))
                          /\ WF_vars(Running /\ Drain(c))

-----------------------------------------------------------------------------
(* A PUT that is answered OK has stored exactly the announced units, in    *)
(* order, however they came in and whatever other jobs ran in between, as  *)
(* long as no other job wrote to or removed the same file meanwhile.       *)
PutIsFaithful ==
    \A c \in Clients :
        state[c] = "WRITE_RESPONSE" /\ request[c] = "PUT" /\ current = c /\ c \notin disturbed \union gone =>
            /\ dir[Of(c)] # NONE
            /\ content[dir[Of(c)]] = Units(c, 1, filesize[c])
            /\ \E i \in DOMAIN file_list : file_list[i] = Of(c)

(* A GET delivers what the file held when it was opened, complete and in   *)
(* order, although the client reads it in pieces, the name may be deleted  *)
(* and other jobs run in between, as long as nobody writes to the file.    *)
GetIsFaithful ==
    \A c \in Clients :
        state[c] = "DONE" /\ request[c] = "GET" /\ status[c] = "OK" /\ c \notin disturbed =>
            got[c] = opened[c]

(* Files stored and delivered are exact.                                   *)
FilesAreFaithful == PutIsFaithful /\ GetIsFaithful

(* A GET that found the send buffer full before it could send anything of  *)
(* the buffer it had just read: its next call reads over that buffer.      *)
Starved(c) ==
    state[c] = "WRITE_DATA" /\ request[c] = "GET" /\ writesz[c] = 0 /\ current # c

(* Every client that stays gets its answer and its connection is closed:   *)
(* no edge of epoll is missed, whoever leaves in the middle of a request.  *)
(* Three cases are excluded.  In two of them a GET loops for ever, waiting *)
(* for units that are not there: a file that is rewritten under it, and a  *)
(* buffer lost as described for Starved.  In the third the server uses the *)
(* freed name of a client it could not answer, and may abort.              *)
Undisturbed ==
    /\ Running
    /\ \A d \in disturbed : request[d] # "GET"
    /\ \A c \in Clients : ~Starved(c)

EveryRequestAnswered ==
    []Undisturbed => \A c \in Clients : <>(state[c] = "DONE" \/ c \in gone)

=============================================================================

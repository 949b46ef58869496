----------------------------- MODULE ChatServer -----------------------------
(***************************************************************************)
(* The server of charming_chatroom: the main thread accepts connections    *)
(* into a table of MAX_CLIENTS slots and starts one detached thread per    *)
(* connection, which reads messages and writes each of them to all slots   *)
(* while it holds the mutex.                                               *)
(*                                                                         *)
(* Descriptors are modelled as the kernel hands them out: accept returns   *)
(* the lowest free number, close frees it at once.  read and write on a    *)
(* closed descriptor return -1 with EBADF, and the loops of utils.c call   *)
(* them again: such a reader is at "spin", such a writer stays at "write"   *)
(* until accept happens to hand the number out again.                      *)
(* A message is two writes, its size and its bytes (its body), and the      *)
(* number may be closed and handed out again between them: the new owner   *)
(* gets a body without its size, its stream is torn, and no more of it is  *)
(* modelled.  Each write takes all its bytes at once; clients always drain  *)
(* what they receive.                                                      *)
(***************************************************************************)
EXTENDS Integers, Sequences, FiniteSets

CONSTANTS Conns,        \* connections clients may make, in the order they come
          MAX_CLIENTS,
          Quota,        \* how many messages each client may send
          MayLeave,     \* clients that may close their connection
          Interrupts    \* whether SIGINT may be sent to the server

ASSUME ConnsAssumption == Conns \in Nat
ASSUME LimitAssumption == MAX_CLIENTS \in Nat \ {0} /\ Quota \in [1 .. Conns -> Nat]

Clients == 1 .. Conns
Slots   == 0 .. MAX_CLIENTS - 1
Fds     == 4 .. 4 + Conns       \* after the standard streams and serverSocket
NONE    == 0
MAIN    == -1
Message == UNION {{c} \X (1 .. Quota[c]) : c \in Clients}

VARIABLES clients,      \* the slots: a descriptor or -1
          clientsCount,
          endSession,
          mutex,        \* the thread that holds it, NONE = free
          table,        \* the kernel's descriptors: a connection or NONE
          backlog,      \* connections not accepted yet
          stage,        \* of each connection: "new", "made", "served", "refused"
          peerOpen,     \* connections whose client has not left
          shut,         \* connections shut down by the server
          sent, unread, \* messages sent by each client, and not read yet
          inbox,        \* what each client has received whole, until its stream is torn
          mpc, mfd, mslot, \* the main thread
          tpc, tslot, tmsg, tidx,  \* the thread of each connection
          half,         \* to whom it has written the size for its slot tidx
          torn,         \* <<client, message>>: a body came without its size
          order,        \* history: the messages in the order of their broadcasts
          audience,     \* history: who was in a slot when a broadcast began
          killed        \* SIGPIPE has ended the process

kernel  == <<table, backlog, shut>>
room    == <<clients, clientsCount, mutex>>
peers   == <<stage, peerOpen, sent, unread, inbox>>
main    == <<mpc, mfd, mslot>>
threads == <<tpc, tslot, tmsg, tidx>>
wire    == <<half, torn>>
history == <<order, audience>>
vars == <<kernel, room, endSession, peers, main, threads, wire, history, killed>>

TypeOK ==
    /\ clients \in [Slots -> Fds \union {-1}]
    /\ clientsCount \in 0 .. MAX_CLIENTS
    /\ endSession \in {0, 1}
    /\ mutex \in Clients \union {NONE}
    /\ table \in [Fds -> Clients \union {NONE}]
    /\ backlog \in Seq(Clients)
    /\ stage \in [Clients -> {"new", "made", "served", "refused"}]
    /\ peerOpen \subseteq Clients /\ shut \subseteq Clients
    /\ sent \in [Clients -> Nat] /\ unread \in [Clients -> Nat]
    /\ \A c \in Clients : unread[c] <= sent[c] /\ sent[c] <= Quota[c]
    /\ inbox \in [Clients -> Seq(Clients \X Nat)]
    /\ mpc \in {"top", "accept", "accepted", "refuse", "register", "cleanup", "exit"}
    /\ mfd \in Fds \union {-1}
    /\ mslot \in 0 .. MAX_CLIENTS
    /\ tpc \in [Clients -> {"none", "top", "read", "spin", "blocked", "body", "lock",
                            "write", "close", "clear", "done"}]
    /\ tslot \in [Clients -> Slots]
    /\ tmsg \in [Clients -> Clients \X Nat]
    /\ tidx \in [Clients -> 0 .. MAX_CLIENTS]
    /\ half \in [Clients -> Clients \union {NONE}]
    /\ torn \subseteq Clients \X Message
    /\ order \in Seq(Clients \X Nat)
    /\ audience \in [Message -> SUBSET Clients]

-----------------------------------------------------------------------------
Init ==
    /\ clients = [s \in Slots |-> -1]
    /\ clientsCount = 0
    /\ endSession = 0
    /\ mutex = NONE
    /\ table = [f \in Fds |-> NONE]
    /\ backlog = <<>>
    /\ stage = [c \in Clients |-> "new"]
    /\ peerOpen = Clients
    /\ shut = {}
    /\ sent = [c \in Clients |-> 0]
    /\ unread = [c \in Clients |-> 0]
    /\ inbox = [c \in Clients |-> <<>>]
    /\ mpc = "top" /\ mfd = -1 /\ mslot = 0
    /\ tpc = [c \in Clients |-> "none"]
    /\ tslot = [c \in Clients |-> 0]
    /\ tmsg = [c \in Clients |-> <<c, 1>>]
    /\ tidx = [c \in Clients |-> 0]
    /\ half = [c \in Clients |-> NONE] /\ torn = {}
    /\ order = <<>>
    /\ audience = [m \in Message |-> {}]
    /\ killed = FALSE

(* The clients, outside the server. *)
Connect(c) ==
    /\ stage[c] = "new"
    /\ \A d \in 1 .. c - 1 : stage[d] # "new"
    /\ stage' = [stage EXCEPT ![c] = "made"]
    /\ backlog' = Append(backlog, c)
    /\ UNCHANGED <<table, shut, room, endSession, peerOpen, sent, unread, inbox,
                   main, threads, wire, history, killed>>

Send(c) ==
    /\ stage[c] \in {"made", "served"} /\ c \in peerOpen
    /\ sent[c] < Quota[c]
    /\ sent' = [sent EXCEPT ![c] = @ + 1]
    /\ unread' = [unread EXCEPT ![c] = @ + 1]
    /\ UNCHANGED <<kernel, room, endSession, stage, peerOpen, inbox, main,
                   threads, wire, history, killed>>

Leave(c) ==
    /\ c \in MayLeave \intersect peerOpen /\ stage[c] # "new"
    /\ peerOpen' = peerOpen \ {c}
    /\ UNCHANGED <<kernel, room, endSession, stage, sent, unread, inbox, main,
                   threads, wire, history, killed>>

-----------------------------------------------------------------------------
(* run_server: while (endSession == 0) *)
MainTop ==
    /\ mpc = "top"
    /\ mpc' = IF endSession = 0 THEN "accept" ELSE "cleanup"
    /\ UNCHANGED <<kernel, room, endSession, peers, mfd, mslot, threads, wire, history, killed>>

LowestFree == CHOOSE f \in Fds :
                 table[f] = NONE /\ \A g \in Fds : table[g] = NONE => f <= g

(* accept returns a connection. *)
Accept ==
    /\ mpc = "accept"
    /\ backlog # <<>>
    /\ table' = [table EXCEPT ![LowestFree] = Head(backlog)]
    /\ mfd' = LowestFree
    /\ backlog' = Tail(backlog)
    /\ mpc' = "accepted"
    /\ UNCHANGED <<shut, room, endSession, peers, mslot, threads, wire, history, killed>>

(* The tests after accept, made without the mutex. *)
Examine ==
    /\ mpc = "accepted"
    /\ mpc' = CASE endSession = 1 -> "cleanup"
                [] endSession = 0 /\ clientsCount >= MAX_CLIENTS -> "refuse"
                [] OTHER -> "register"
    /\ UNCHANGED <<kernel, room, endSession, peers, mfd, mslot, threads, wire, history, killed>>

(* shutdown and close of a connection there is no room for *)
Refuse ==
    /\ mpc = "refuse"
    /\ shut' = shut \union {table[mfd]}
    /\ stage' = [stage EXCEPT ![table[mfd]] = "refused"]
    /\ table' = [table EXCEPT ![mfd] = NONE]
    /\ mpc' = "top"
    /\ UNCHANGED <<backlog, room, endSession, peerOpen, sent, unread, inbox, mfd,
                   mslot, threads, wire, history, killed>>

FreeSlots == {s \in Slots : clients[s] = -1}

(* Mutant: the new client is not counted. *)
RegisterUncounted ==
    /\ mpc = "register" /\ mutex = NONE
    /\ LET c == table[mfd]
           p == CHOOSE s \in FreeSlots : \A r \in FreeSlots : s <= r
       IN  /\ clients' = [clients EXCEPT ![p] = mfd]
           /\ tslot' = [tslot EXCEPT ![c] = p]
           /\ tpc' = [tpc EXCEPT ![c] = "top"]
           /\ stage' = [stage EXCEPT ![c] = "served"]
    /\ mpc' = "top"
    /\ UNCHANGED <<kernel, clientsCount, mutex, endSession, peerOpen, sent, unread,
                   inbox, mfd, mslot, tmsg, tidx, wire, history, killed>>

(* Under the mutex: first free slot, clientsCount++; then the thread. *)
Register ==
    /\ mpc = "register"
    /\ mutex = NONE
    /\ LET c == table[mfd]
           p == CHOOSE s \in FreeSlots : \A r \in FreeSlots : s <= r
       IN  /\ clients' = [clients EXCEPT ![p] = mfd]
           /\ tslot' = [tslot EXCEPT ![c] = p]
           /\ tpc' = [tpc EXCEPT ![c] = "top"]
           /\ stage' = [stage EXCEPT ![c] = "served"]
    /\ clientsCount' = clientsCount + 1
    /\ mpc' = "top"
    /\ UNCHANGED <<kernel, mutex, endSession, peerOpen, sent, unread, inbox, mfd,
                   mslot, tmsg, tidx, wire, history, killed>>

(* cleanup, without the mutex: shutdown and close of one slot *)
Cleanup ==
    /\ mpc = "cleanup"
    /\ mslot < MAX_CLIENTS
    /\ LET f == clients[mslot]
       IN  IF f # -1
             THEN /\ shut' = shut \union ({table[f]} \ {NONE})
                  /\ table' = [table EXCEPT ![f] = NONE]
             ELSE UNCHANGED <<shut, table>>
    /\ mslot' = mslot + 1
    /\ UNCHANGED <<backlog, room, endSession, peers, mpc, mfd, threads, wire, history, killed>>

(* pthread_exit: the process ends with its last thread. *)
MainExit ==
    /\ mpc = "cleanup"
    /\ mslot = MAX_CLIENTS
    /\ mpc' = "exit"
    /\ UNCHANGED <<kernel, room, endSession, peers, mfd, mslot, threads, wire, history, killed>>

(* close_server: SIGINT is handled by any thread; only if it is the main   *)
(* thread, and this is blocked in accept, does accept return (EINTR).      *)
Sigint(handler) ==
    /\ Interrupts
    /\ endSession = 0
    /\ endSession' = 1
    /\ IF handler = MAIN /\ mpc = "accept"
         THEN mpc' = "accepted" /\ mfd' = -1
         ELSE UNCHANGED <<mpc, mfd>>
    /\ UNCHANGED <<kernel, room, peers, mslot, threads, wire, history, killed>>

-----------------------------------------------------------------------------
Goto(c, place) == tpc' = [tpc EXCEPT ![c] = place]

(* process_client: while (retval > 0 && endSession == 0) *)
ThreadTop(c) ==
    /\ tpc[c] = "top"
    /\ Goto(c, IF endSession = 0 THEN "read" ELSE "close")
    /\ UNCHANGED <<kernel, room, endSession, peers, main, tslot, tmsg, tidx, wire, history, killed>>

(* The connection behind a slot, NONE = closed, a call answers EBADF. *)
Behind(s) == IF clients[s] = -1 THEN NONE ELSE table[clients[s]]

(* get_message_size: read enters the kernel, or answers EBADF for ever. *)
EnterRead(c) ==
    /\ tpc[c] = "read"
    /\ Goto(c, IF Behind(tslot[c]) = NONE THEN "spin" ELSE "blocked")
    /\ UNCHANGED <<kernel, room, endSession, peers, main, tslot, tmsg, tidx, wire, history, killed>>

(* The size of a message arrives, whatever has become of the descriptor. *)
GotSize(c) ==
    /\ tpc[c] = "blocked"
    /\ unread[c] > 0
    /\ Goto(c, "body")
    /\ UNCHANGED <<kernel, room, endSession, peers, main, tslot, tmsg, tidx, wire, history, killed>>

(* read_all_from_socket, for the message's bytes, on the slot's descriptor *)
ReadBody(c) ==
    /\ tpc[c] = "body"
    /\ LET d == Behind(tslot[c])
       IN  IF d = NONE
             THEN Goto(c, "spin") /\ UNCHANGED <<tmsg, unread>>
             ELSE /\ tmsg' = [tmsg EXCEPT ![c] = <<d, sent[d] - unread[d] + 1>>]
                  /\ unread' = [unread EXCEPT ![d] = @ - 1]
                  /\ Goto(c, "lock")
    /\ UNCHANGED <<kernel, room, endSession, stage, peerOpen, sent, inbox, main,
                   tslot, tidx, wire, history, killed>>

(* read returns 0: the client has left or cleanup has shut the socket down. *)
ReadEnd(c) ==
    /\ tpc[c] = "blocked"
    /\ unread[c] = 0
    /\ c \notin peerOpen \/ c \in shut
    /\ Goto(c, "close")
    /\ UNCHANGED <<kernel, room, endSession, peers, main, tslot, tmsg, tidx, wire, history, killed>>

(* Mutant: the mutex is not taken for the broadcast. *)
StartBroadcastUnlocked(c) ==
    /\ tpc[c] = "lock"
    /\ tidx' = [tidx EXCEPT ![c] = 0]
    /\ order' = Append(order, tmsg[c])
    /\ audience' = [audience EXCEPT ![tmsg[c]] =
                       {Behind(s) : s \in Slots} \ {NONE}]
    /\ Goto(c, "write")
    /\ UNCHANGED <<kernel, room, endSession, peers, main, tslot, tmsg, wire, killed>>

(* write_to_clients: pthread_mutex_lock *)
StartBroadcast(c) ==
    /\ tpc[c] = "lock"
    /\ mutex = NONE
    /\ mutex' = c
    /\ tidx' = [tidx EXCEPT ![c] = 0]
    /\ order' = Append(order, tmsg[c])
    /\ audience' = [audience EXCEPT ![tmsg[c]] =
                       {Behind(s) : s \in Slots} \ {NONE}]
    /\ Goto(c, "write")
    /\ UNCHANGED <<kernel, clients, clientsCount, endSession, peers, main, tslot,
                   tmsg, wire, killed>>

SlotWritten(c) == tidx' = [tidx EXCEPT ![c] = @ + 1]

Writing(c) == tpc[c] = "write" /\ tidx[c] < MAX_CLIENTS

(* clients[i] == -1 *)
WriteNothing(c) ==
    /\ Writing(c)
    /\ clients[tidx[c]] = -1
    /\ SlotWritten(c)
    /\ UNCHANGED <<kernel, room, endSession, peers, main, tpc, tslot, tmsg, wire,
                   history, killed>>

(* write_message_size; it may reach nobody any more. *)
WriteSize(c) ==
    /\ Writing(c)
    /\ half[c] = NONE
    /\ Behind(tidx[c]) \notin {NONE} \union shut
    /\ half' = [half EXCEPT ![c] = Behind(tidx[c])]
    /\ UNCHANGED <<kernel, room, endSession, peers, main, threads, torn, history, killed>>

Torn(d) == \E m \in Message : <<d, m>> \in torn

(* write_all_to_socket, for the bytes, to whoever has the number by now *)
WriteBody(c) ==
    /\ Writing(c)
    /\ half[c] # NONE
    /\ LET d == Behind(tidx[c])
       IN  /\ d \notin {NONE} \union shut
           /\ inbox' = IF d \in peerOpen /\ d = half[c] /\ ~Torn(d)
                          THEN [inbox EXCEPT ![d] = Append(@, tmsg[c])]
                          ELSE inbox
           /\ torn' = IF d \in peerOpen /\ d # half[c]
                         THEN torn \union {<<d, tmsg[c]>>}
                         ELSE torn
    /\ half' = [half EXCEPT ![c] = NONE]
    /\ SlotWritten(c)
    /\ UNCHANGED <<kernel, room, endSession, stage, peerOpen, sent, unread, main,
                   tpc, tslot, tmsg, history, killed>>

(* SIGPIPE is not handled: the peer has closed, or cleanup shut the socket. *)
BrokenPipe(c) ==
    /\ Writing(c)
    /\ LET d == Behind(tidx[c])
       IN  d # NONE /\ (d \notin peerOpen \/ d \in shut)
    /\ killed' = TRUE
    /\ UNCHANGED <<kernel, room, endSession, peers, main, threads, wire, history>>

(* Mutant: pthread_mutex_unlock is missing. *)
EndBroadcastLocked(c) ==
    /\ tpc[c] = "write"
    /\ tidx[c] = MAX_CLIENTS
    /\ Goto(c, "top")
    /\ UNCHANGED <<kernel, room, endSession, peers, main, tslot, tmsg, tidx, wire, history, killed>>

(* pthread_mutex_unlock *)
EndBroadcast(c) ==
    /\ tpc[c] = "write"
    /\ tidx[c] = MAX_CLIENTS
    /\ mutex' = NONE
    /\ Goto(c, "top")
    /\ UNCHANGED <<kernel, clients, clientsCount, endSession, peers, main, tslot,
                   tmsg, tidx, wire, history, killed>>

(* close(clients[clientId]), before the mutex is taken *)
CloseSocket(c) ==
    /\ tpc[c] = "close"
    /\ table' = [table EXCEPT ![clients[tslot[c]]] = NONE]
    /\ Goto(c, "clear")
    /\ UNCHANGED <<backlog, shut, room, endSession, peers, main, tslot, tmsg,
                   tidx, wire, history, killed>>

(* Mutant: the descriptor is closed again, whoever has it by now. *)
ClearSlotCloses(c) ==
    /\ tpc[c] = "clear"
    /\ mutex = NONE
    /\ table' = [table EXCEPT ![clients[tslot[c]]] = NONE]
    /\ clients' = [clients EXCEPT ![tslot[c]] = -1]
    /\ clientsCount' = clientsCount - 1
    /\ Goto(c, "done")
    /\ UNCHANGED <<backlog, shut, mutex, endSession, peers, main, tslot, tmsg, tidx, wire, history, killed>>

(* clients[clientId] = -1, clientsCount-- *)
ClearSlot(c) ==
    /\ tpc[c] = "clear"
    /\ mutex = NONE
    /\ clients' = [clients EXCEPT ![tslot[c]] = -1]
    /\ clientsCount' = clientsCount - 1
    /\ Goto(c, "done")
    /\ UNCHANGED <<kernel, mutex, endSession, peers, main, tslot, tmsg, tidx, wire, history, killed>>

-----------------------------------------------------------------------------
Main == MainTop \/ Accept \/ Examine \/ Refuse \/ Register \/ Cleanup \/ MainExit

Thread(c) ==
    \/ ThreadTop(c) \/ EnterRead(c) \/ GotSize(c) \/ ReadBody(c) \/ ReadEnd(c)
    \/ StartBroadcast(c) \/ WriteNothing(c) \/ WriteSize(c) \/ WriteBody(c)
    \/ BrokenPipe(c) \/ EndBroadcast(c) \/ CloseSocket(c) \/ ClearSlot(c)

Client(c) == Connect(c) \/ Send(c) \/ Leave(c)

Next ==
    /\ ~killed
    /\ \/ Main
       \/ \E c \in Clients : Thread(c) \/ Client(c)
       \/ \E h \in {MAIN} \union {c \in Clients : tpc[c] \notin {"none", "done"}} : Sigint(h)

Spec == Init /\ [][Next]_vars

(* The server's threads run; clients connect, send and leave as they like. *)
FairSpec == /\ Spec
            /\ WF_vars(~killed /\ Main)
            /\ \A c \in Clients : WF_vars(~killed /\ Thread(c))

-----------------------------------------------------------------------------
(* clientsCount is the number of slots in use, whatever joins and leaves   *)
(* interleave: the limit is enforced on the true number.                   *)
CountMatches == clientsCount = Cardinality(Slots \ FreeSlots)

(* The limit is tested before the mutex is taken.  A slot is still free    *)
(* when the mutex is held: the search never leaves p at -1, which would    *)
(* start a thread on clients[-1].                                          *)
SlotAlwaysFound == mpc = "register" => FreeSlots # {}

(* The table of clients is right at every step of main and the threads.    *)
TableIsSound == CountMatches /\ SlotAlwaysFound

Before(seq, m, n) == \E i, j \in DOMAIN seq : i < j /\ seq[i] = m /\ seq[j] = n

(* Every client sees the messages in one and the same order, the one in    *)
(* which the broadcasts took the mutex, as long as its stream is not torn. *)
OneOrder ==
    \A c \in Clients : \A m, n \in Message :
        m # n /\ Before(inbox[c], m, n) => Before(order, m, n)

(* A thread broadcasts the messages of its own client only, once each and  *)
(* in the order in which they were sent, although a descriptor is closed,  *)
(* and may be handed out again, before its slot is cleared.                *)
SenderOrder ==
    /\ \A c \in Clients : tpc[c] \in {"lock", "write"} => tmsg[c][1] = c
    /\ \A i, j \in DOMAIN order :
          i < j /\ order[i][1] = order[j][1] => order[i][2] < order[j][2]

(* Only a newcomer's stream is torn: a broadcast never gives its body      *)
(* without the size to a client who was behind a slot when it began,       *)
(* although numbers are closed and handed out between the two writes.      *)
NewcomersTorn == \A t \in torn : t[1] \notin audience[t[2]]

(* All clients see one order of messages, which has each sender's messages *)
(* once each and in the order in which the sender wrote them, until a      *)
(* client's stream is torn, which befalls newcomers only.                  *)
BroadcastOrder == OneOrder /\ SenderOrder /\ NewcomersTorn

(* While nobody leaves, a message of a client in the room reaches everyone *)
(* who was in the room when its broadcast began, its sender included.      *)
Received(c, m) == m \in {inbox[c][i] : i \in DOMAIN inbox[c]}

Quiet == peerOpen = Clients /\ endSession = 0

EveryMessageDelivered ==
    []Quiet =>
        \A c \in Clients : \A k \in 1 .. Quota[c] :
            (stage[c] = "served" /\ sent[c] >= k)
               ~> (audience[<<c, k>>] # {} /\ \A d \in audience[<<c, k>>] : Received(d, <<c, k>>))

(* A write on a closed socket gives up: write_all_to_socket reports -1.    *)
(* (A thread at this point can only repeat the failing write.)             *)
WriteFailureReturns ==
    \A c \in Clients : Writing(c) /\ clients[tidx[c]] # -1 => Behind(tidx[c]) # NONE

=============================================================================

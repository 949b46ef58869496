-------------------------- MODULE ChatServerProofs --------------------------
(***************************************************************************)
(* Proofs about ChatServer, for any number of connections, slots and       *)
(* messages: the table of clients is right, everybody sees the messages in *)
(* one order, every sender's messages come once each, in its order, and    *)
(* only the stream of a newcomer is torn between the size and the body.    *)
(***************************************************************************)
EXTENDS ChatServer, TLAPS, FiniteSetTheorems, SequenceTheorems, WellFoundedInduction

(* A thread that has a slot, and one that has not closed its connection. *)
Live(c) == tpc[c] \notin {"none", "done"}
Open(c) == tpc[c] \notin {"none", "clear", "done"}

(* The slot of a live thread is its own. *)
SlotsAreOwned ==
    /\ \A c \in Clients : Live(c) => clients[tslot[c]] # -1
    /\ \A c, d \in Clients : Live(c) /\ Live(d) /\ c # d => tslot[c] # tslot[d]

(* The descriptor of an open thread is its connection, until cleanup. *)
DescriptorsHold ==
    \A c \in Clients :
        Open(c) => \/ table[clients[tslot[c]]] = c
                   \/ table[clients[tslot[c]]] = NONE /\ mpc \in {"cleanup", "exit"}

(* Main holds a connection that has no thread yet. *)
HasConnection ==
    \/ mpc \in {"refuse", "register"}
    \/ mpc = "accepted" /\ endSession = 0

MainHolds ==
    HasConnection => /\ mfd \in Fds
                     /\ table[mfd] \in Clients
                     /\ tpc[table[mfd]] = "none"

RoomLeft == mpc = "register" => clientsCount < MAX_CLIENTS

(* A connection is in one place: not made, in the backlog, or in the table. *)
Waits(c) == \E i \in DOMAIN backlog : backlog[i] = c

OnePlace ==
    /\ \A c \in Clients :
          stage[c] = "new" => ~Waits(c) /\ tpc[c] = "none" /\ \A f \in Fds : table[f] # c
    /\ \A c \in Clients :
          Waits(c) => tpc[c] = "none" /\ \A f \in Fds : table[f] # c
    /\ \A i, j \in DOMAIN backlog : backlog[i] = backlog[j] => i = j
    /\ \A f, g \in Fds : table[f] = table[g] /\ table[f] # NONE => f = g

(* The thread that writes has the mutex, and its message is the last one. *)
WriterIsLast ==
    \A c \in Clients :
        tpc[c] = "write" => mutex = c /\ order # <<>> /\ tmsg[c] = order[Len(order)]

(* What a client has received are broadcasts, in their order. *)
InboxesInOrder ==
    \A c \in Clients : \A i, j \in DOMAIN inbox[c] :
        i <= j => \E p, q \in DOMAIN order :
                     p <= q /\ order[p] = inbox[c][i] /\ order[q] = inbox[c][j]

(* The number of c's messages that its thread has read. *)
ReadOf(c) == sent[c] - unread[c]

SendersInOrder ==
    /\ \A c \in Clients : tpc[c] = "body" => unread[c] > 0
    /\ \A c \in Clients : tpc[c] = "lock" => tmsg[c] = <<c, ReadOf(c)>>
    /\ \A i \in DOMAIN order : order[i][2] <= ReadOf(order[i][1])
    /\ \A i \in DOMAIN order :
          tpc[order[i][1]] = "lock" => order[i][2] < ReadOf(order[i][1])

(* Everybody in an audience has been accepted. *)
AudiencesAccepted ==
    \A m \in Message : \A d \in audience[m] : stage[d] # "new" /\ ~Waits(d)

(* What is about to be broadcast is a message, and not broadcast yet. *)
MessagesSent ==
    /\ \A c \in Clients : tpc[c] \in {"lock", "write"} => tmsg[c] \in Message
    /\ \A t \in torn : \E i \in DOMAIN order : order[i] = t[2]

(* Between its two writes a thread has the mutex; behind the slot is still *)
(* the client who has the size, or nobody, or one who came later.          *)
HalfWritten ==
    \A c \in Clients :
        half[c] # NONE =>
            /\ Writing(c)
            /\ clients[tidx[c]] # -1
            /\ \/ Behind(tidx[c]) \in {half[c], NONE}
               \/ Behind(tidx[c]) \notin audience[tmsg[c]]

(***************************************************************************)
(* Neither property is inductive.  That a thread reads from its own client *)
(* needs DescriptorsHold, which rests on MainHolds and OnePlace: the       *)
(* number that is closed or handed out is nobody else's.                   *)
(***************************************************************************)
IInv ==
    /\ TypeOK
    /\ CountMatches
    /\ RoomLeft
    /\ SlotsAreOwned
    /\ DescriptorsHold
    /\ MainHolds
    /\ OnePlace
    /\ WriterIsLast
    /\ InboxesInOrder
    /\ SendersInOrder
    /\ SenderOrder
    /\ AudiencesAccepted
    /\ MessagesSent
    /\ HalfWritten
    /\ NewcomersTorn

-----------------------------------------------------------------------------
(* A set of numbers that has a member has a least one. *)
LEMMA LeastExists ==
    ASSUME NEW S \in SUBSET Nat, S # {}
    PROVE  \E m \in S : \A n \in S : m <= n
<1>1. PICK m \in S : \A n \in S : ~(<<n, m>> \in OpToRel(<, Nat))
  BY NatLessThanWellFounded, WFMin, Zenon
<1>2. \A n \in S : ~(n < m)
  BY <1>1 DEF OpToRel
<1> QED
  BY <1>2

(* accept always finds a free descriptor: there is one more than clients. *)
LEMMA DescriptorFree ==
    ASSUME TypeOK, OnePlace
    PROVE  LowestFree \in Fds /\ table[LowestFree] = NONE
<1> DEFINE Free == {f \in Fds : table[f] = NONE}
<1>1. Free # {}
  <2> SUFFICES ASSUME Free = {} PROVE FALSE
    OBVIOUS
  <2>1. table \in [Fds -> Clients]
    BY DEF TypeOK
  <2>2. /\ IsFiniteSet(Fds) /\ Cardinality(Fds) = Conns + 1
        /\ IsFiniteSet(Clients) /\ Cardinality(Clients) = Conns
    <3>1. Conns \in Int /\ 4 + Conns \in Int
      BY ConnsAssumption
    <3>2. Cardinality(4 .. 4 + Conns) = Conns + 1 /\ IsFiniteSet(4 .. 4 + Conns)
      BY <3>1, FS_Interval, ConnsAssumption
    <3>3. Cardinality(1 .. Conns) = Conns /\ IsFiniteSet(1 .. Conns)
      BY <3>1, FS_Interval, ConnsAssumption
    <3> QED
      BY <3>2, <3>3 DEF Fds, Clients
  <2>3. Cardinality(Clients) < Cardinality(Fds)
    BY <2>2, ConnsAssumption
  <2>4. PICK f, g \in Fds : f # g /\ table[f] = table[g]
    BY <2>1, <2>2, <2>3, FS_PigeonHole
  <2>5. table[f] \in Clients
    BY <2>1
  <2> QED
    BY <2>4, <2>5 DEF OnePlace, Clients, NONE
<1>2. Free \in SUBSET Nat
  BY ConnsAssumption DEF Fds
<1>3. \E f \in Free : \A g \in Free : f <= g
  BY <1>1, <1>2, LeastExists
<1>4. \E f \in Fds : table[f] = NONE /\ \A g \in Fds : table[g] = NONE => f <= g
  BY <1>3
<1> QED
  BY <1>4 DEF LowestFree

(* The slots in use are finitely many, and clientsCount counts them. *)
LEMMA SlotsFinite ==
    /\ IsFiniteSet(Slots)
    /\ Cardinality(Slots) = MAX_CLIENTS
    /\ IsFiniteSet(Slots \ FreeSlots)
<1>1. IsFiniteSet(0 .. MAX_CLIENTS - 1) /\ Cardinality(0 .. MAX_CLIENTS - 1) = MAX_CLIENTS
  <2>1. 0 \in Int /\ MAX_CLIENTS - 1 \in Int
    BY LimitAssumption
  <2> QED
    BY <2>1, FS_Interval, LimitAssumption
<1>2. Slots \ FreeSlots \in SUBSET Slots
  OBVIOUS
<1> QED
  BY <1>1, <1>2, FS_Subset DEF Slots

(* The slot that main takes. *)
FirstFree == CHOOSE s \in FreeSlots : \A r \in FreeSlots : s <= r

(* Main finds a slot: fewer than MAX_CLIENTS are in use. *)
LEMMA SlotFound ==
    ASSUME TypeOK, CountMatches, RoomLeft, mpc = "register"
    PROVE  FreeSlots # {} /\ FirstFree \in Slots /\ clients[FirstFree] = -1
<1>1. FreeSlots # {}
  <2> SUFFICES ASSUME FreeSlots = {} PROVE FALSE
    OBVIOUS
  <2>1. Slots \ FreeSlots = Slots
    OBVIOUS
  <2> QED
    BY <2>1, SlotsFinite, LimitAssumption DEF CountMatches, RoomLeft
<1>2. FreeSlots \in SUBSET Nat
  BY LimitAssumption DEF FreeSlots, Slots
<1>3. \E s \in FreeSlots : \A r \in FreeSlots : s <= r
  BY <1>1, <1>2, LeastExists
<1>4. FirstFree \in FreeSlots
  BY <1>3 DEF FirstFree
<1> QED
  BY <1>1, <1>4 DEF FreeSlots

(* A thread whose connection is open reads from its own client. *)
LEMMA BehindOwn ==
    ASSUME TypeOK, SlotsAreOwned, DescriptorsHold,
           NEW c \in Clients, Open(c)
    PROVE  /\ clients[tslot[c]] \in Fds
           /\ Behind(tslot[c]) = table[clients[tslot[c]]]
           /\ Behind(tslot[c]) \in {c, NONE}
<1>1. clients[tslot[c]] \in Fds
  BY DEF SlotsAreOwned, TypeOK, Live, Open
<1>2. clients[tslot[c]] # -1
  BY DEF SlotsAreOwned, Live, Open
<1> QED
  BY <1>1, <1>2 DEF DescriptorsHold, Behind

(* Only main starts a thread; a thread never goes back. *)
LEMMA ThreadsMove ==
    ASSUME TypeOK, Next, ~Register
    PROVE  /\ tslot' = tslot
           /\ \A c \in Clients : Live(c)' => Live(c)
           /\ \A c \in Clients : Open(c)' => Open(c)
           /\ \A c \in Clients : tpc[c] = "none" <=> tpc'[c] = "none"
<1>1. CASE UNCHANGED <<tslot, tpc>>
  BY <1>1 DEF Live, Open
<1>2. ASSUME NEW c \in Clients,
             ThreadTop(c) \/ EnterRead(c) \/ GotSize(c) \/ ReadBody(c) \/ ReadEnd(c) \/ EndBroadcast(c)
      PROVE  /\ tslot' = tslot
             /\ tpc[c] \in {"top", "read", "blocked", "body", "write"}
             /\ \E place \in {"top", "read", "close", "spin", "blocked", "body", "lock"} :
                   tpc' = [tpc EXCEPT ![c] = place]
  BY <1>2 DEF ThreadTop, EnterRead, GotSize, ReadBody, ReadEnd, EndBroadcast, Goto
<1>3. ASSUME NEW c \in Clients, StartBroadcast(c) \/ CloseSocket(c) \/ ClearSlot(c)
      PROVE  /\ tslot' = tslot
             /\ \/ tpc[c] = "lock" /\ tpc' = [tpc EXCEPT ![c] = "write"]
                \/ tpc[c] = "close" /\ tpc' = [tpc EXCEPT ![c] = "clear"]
                \/ tpc[c] = "clear" /\ tpc' = [tpc EXCEPT ![c] = "done"]
  BY <1>3 DEF StartBroadcast, CloseSocket, ClearSlot, Goto
<1>4. CASE \E c \in Clients : ThreadTop(c) \/ EnterRead(c) \/ GotSize(c) \/ ReadBody(c) \/ ReadEnd(c)
                              \/ EndBroadcast(c) \/ StartBroadcast(c) \/ CloseSocket(c) \/ ClearSlot(c)
  BY <1>2, <1>3, <1>4, ZenonT(60) DEF Live, Open, TypeOK
<1> QED
  BY <1>1, <1>4
     DEF Next, Main, MainTop, Accept, Examine, Refuse, Cleanup, MainExit, Sigint,
         Thread, WriteNothing, WriteSize, WriteBody, BrokenPipe, Client, Connect, Send,
         Leave, threads

(* Every step keeps the types. *)
LEMMA TypeKept ==
    ASSUME TypeOK, CountMatches, RoomLeft, SlotsAreOwned, DescriptorsHold, MainHolds,
           OnePlace, SendersInOrder, MessagesSent, Next
    PROVE  TypeOK'
<1> USE DEF kernel, room, peers, main, threads, wire, history
<1>1. CASE MainTop \/ Examine \/ MainExit
  BY <1>1 DEF MainTop, Examine, MainExit, TypeOK
<1>2. CASE Accept
  <2>1. LowestFree \in Fds /\ Head(backlog) \in Clients /\ Tail(backlog) \in Seq(Clients)
    BY <1>2, DescriptorFree, HeadTailProperties DEF Accept, TypeOK
  <2> QED
    BY <1>2, <2>1 DEF Accept, TypeOK
<1>3. CASE Refuse
  <2>1. mfd \in Fds /\ table[mfd] \in Clients
    BY <1>3 DEF Refuse, MainHolds, HasConnection
  <2> QED
    BY <1>3, <2>1 DEF Refuse, TypeOK
<1>4. CASE Register
  <2>1. mfd \in Fds /\ table[mfd] \in Clients
    BY <1>4 DEF Register, MainHolds, HasConnection
  <2>2. FirstFree \in Slots
    BY <1>4, SlotFound DEF Register
  <2>3. clientsCount + 1 \in 0 .. MAX_CLIENTS
    BY <1>4, LimitAssumption DEF Register, RoomLeft, TypeOK
  <2> QED
    BY <1>4, <2>1, <2>2, <2>3 DEF Register, FirstFree, TypeOK
<1>5. CASE Cleanup
  <2>1. mslot \in Slots /\ mslot + 1 \in 0 .. MAX_CLIENTS
    <3>1. mslot \in 0 .. MAX_CLIENTS /\ mslot < MAX_CLIENTS
      BY <1>5 DEF Cleanup, TypeOK
    <3>2. MAX_CLIENTS \in Nat
      BY LimitAssumption
    <3> QED
      BY <3>1, <3>2 DEF Slots
  <2>2. shut' \subseteq Clients /\ table' \in [Fds -> Clients \union {NONE}]
    <3>1. CASE clients[mslot] = -1
      BY <1>5, <3>1 DEF Cleanup, TypeOK
    <3>2. CASE clients[mslot] # -1
      <4>1. clients[mslot] \in Fds
        BY <2>1, <3>2 DEF TypeOK
      <4>2. table[clients[mslot]] \in Clients \union {NONE}
        BY <4>1 DEF TypeOK
      <4> QED
        BY <1>5, <3>2, <4>2, ZenonT(60) DEF Cleanup, TypeOK
    <3> QED
      BY <3>1, <3>2
  <2> QED
    BY <1>5, <2>1, <2>2 DEF Cleanup, TypeOK
<1>6. CASE \E h \in {MAIN} \union {c \in Clients : tpc[c] \notin {"none", "done"}} : Sigint(h)
  BY <1>6, ZenonT(60) DEF Sigint, TypeOK
<1>7. ASSUME NEW c \in Clients, Connect(c)
      PROVE  TypeOK'
  <2>1. Append(backlog, c) \in Seq(Clients)
    BY AppendProperties DEF TypeOK
  <2> QED
    BY <1>7, <2>1 DEF Connect, TypeOK
<1>8. ASSUME NEW c \in Clients, Send(c)
      PROVE  TypeOK'
  <2>1. Quota[c] \in Nat
    BY LimitAssumption DEF Clients
  <2>2. \A d \in Clients : unread'[d] <= sent'[d] /\ sent'[d] <= Quota[d]
    <3>1. \A d \in Clients : /\ sent[d] \in Nat /\ unread[d] \in Nat
                             /\ unread[d] <= sent[d] /\ sent[d] <= Quota[d]
      BY DEF TypeOK
    <3>2. /\ \A d \in Clients : d # c => sent'[d] = sent[d] /\ unread'[d] = unread[d]
          /\ sent'[c] = sent[c] + 1 /\ unread'[c] = unread[c] + 1 /\ sent[c] < Quota[c]
      BY <1>8 DEF Send, TypeOK
    <3> QED
      BY <2>1, <3>1, <3>2
  <2>3. sent' \in [Clients -> Nat] /\ unread' \in [Clients -> Nat]
    BY <1>8, SMTT(60) DEF Send, TypeOK
  <2> QED
    BY <1>8, <2>2, <2>3 DEF Send, TypeOK
<1>9. ASSUME NEW c \in Clients, Leave(c)
      PROVE  TypeOK'
  BY <1>9 DEF Leave, TypeOK
<1>10. ASSUME NEW c \in Clients, ThreadTop(c) \/ EnterRead(c) \/ GotSize(c) \/ ReadEnd(c)
       PROVE  TypeOK'
  BY <1>10, ZenonT(60) DEF ThreadTop, EnterRead, GotSize, ReadEnd, Goto, TypeOK
<1>11. ASSUME NEW c \in Clients, ReadBody(c)
       PROVE  TypeOK'
  <2>1. CASE Behind(tslot[c]) = NONE
    BY <1>11, <2>1 DEF ReadBody, Goto, TypeOK
  <2>2. CASE Behind(tslot[c]) # NONE
    <3>1. Behind(tslot[c]) = c
      BY <1>11, <2>2, BehindOwn DEF ReadBody, Open
    <3>2. unread[c] > 0 /\ unread[c] \in Nat /\ sent[c] \in Nat /\ unread[c] <= sent[c]
      BY <1>11 DEF ReadBody, SendersInOrder, TypeOK
    <3>3. /\ tmsg' = [tmsg EXCEPT ![c] = <<c, sent[c] - unread[c] + 1>>]
          /\ unread' = [unread EXCEPT ![c] = @ - 1]
      BY <1>11, <2>2, <3>1 DEF ReadBody
    <3>4. tmsg' \in [Clients -> Clients \X Nat]
      <4>1. <<c, sent[c] - unread[c] + 1>> \in Clients \X Nat
        BY <3>2
      <4> QED
        BY <3>3, <4>1 DEF TypeOK
    <3>5. unread' \in [Clients -> Nat] /\ \A d \in Clients : unread'[d] <= sent[d]
      <4>1. unread[c] - 1 \in Nat /\ unread[c] - 1 <= sent[c]
        BY <3>2
      <4>2. unread' = [unread EXCEPT ![c] = unread[c] - 1]
        BY <3>3
      <4> QED
        BY <4>1, <4>2 DEF TypeOK
    <3> QED
      BY <1>11, <2>2, <3>4, <3>5 DEF ReadBody, Goto, TypeOK
  <2> QED
    BY <2>1, <2>2
<1>12. ASSUME NEW c \in Clients, StartBroadcast(c)
       PROVE  TypeOK'
  <2>1. Append(order, tmsg[c]) \in Seq(Clients \X Nat)
    BY AppendProperties DEF TypeOK
  <2>2. 0 \in 0 .. MAX_CLIENTS
    BY LimitAssumption
  <2>3. tidx' \in [Clients -> 0 .. MAX_CLIENTS]
    BY <1>12, <2>2 DEF StartBroadcast, TypeOK
  <2>4. {Behind(s) : s \in Slots} \ {NONE} \subseteq Clients
    BY DEF Behind, TypeOK
  <2>5. audience' \in [Message -> SUBSET Clients]
    BY <1>12, <2>4 DEF StartBroadcast, TypeOK
  <2>6. tpc' \in [Clients -> {"none", "top", "read", "spin", "blocked", "body", "lock",
                             "write", "close", "clear", "done"}]
    BY <1>12 DEF StartBroadcast, Goto, TypeOK
  <2> QED
    BY <1>12, <2>1, <2>3, <2>5, <2>6 DEF StartBroadcast, TypeOK
<1>13. ASSUME NEW c \in Clients, Writing(c), SlotWritten(c)
       PROVE  tidx' \in [Clients -> 0 .. MAX_CLIENTS]
  BY <1>13, LimitAssumption, SMTT(60) DEF Writing, SlotWritten, TypeOK
<1>14. ASSUME NEW c \in Clients, WriteNothing(c) \/ BrokenPipe(c)
       PROVE  TypeOK'
  BY <1>13, <1>14 DEF WriteNothing, BrokenPipe, TypeOK
<1>15. ASSUME NEW c \in Clients, WriteSize(c)
       PROVE  TypeOK'
  <2>1. Behind(tidx[c]) \in Clients
    <3>1. tidx[c] \in Slots
      BY <1>15, LimitAssumption DEF WriteSize, Writing, Slots, TypeOK
    <3> QED
      BY <1>15, <3>1 DEF WriteSize, Behind, TypeOK
  <2>2. half' \in [Clients -> Clients \union {NONE}]
    BY <1>15, <2>1 DEF WriteSize, TypeOK
  <2> QED
    BY <1>15, <2>2 DEF WriteSize, TypeOK
<1>16. ASSUME NEW c \in Clients, WriteBody(c)
       PROVE  TypeOK'
  <2>1. Behind(tidx[c]) \in Clients
    <3>1. tidx[c] \in Slots
      BY <1>16, LimitAssumption DEF WriteBody, Writing, Slots, TypeOK
    <3> QED
      BY <1>16, <3>1 DEF WriteBody, Behind, TypeOK
  <2> DEFINE d == Behind(tidx[c])
  <2>2. Append(inbox[d], tmsg[c]) \in Seq(Clients \X Nat)
    BY <2>1, AppendProperties DEF TypeOK
  <2>3. inbox' = inbox \/ inbox' = [inbox EXCEPT ![d] = Append(inbox[d], tmsg[c])]
    BY <1>16 DEF WriteBody
  <2>4. inbox' \in [Clients -> Seq(Clients \X Nat)]
    BY <2>1, <2>2, <2>3 DEF TypeOK
  <2>5. tmsg[c] \in Message
    BY <1>16 DEF WriteBody, Writing, MessagesSent
  <2>6. torn' \subseteq torn \union {<<d, tmsg[c]>>}
    BY <1>16 DEF WriteBody
  <2>7. torn' \subseteq Clients \X Message
    <3>1. <<d, tmsg[c]>> \in Clients \X Message
      BY <2>1, <2>5
    <3>2. torn \subseteq Clients \X Message
      BY DEF TypeOK
    <3> QED
      BY <2>6, <3>1, <3>2
  <2>8. half' \in [Clients -> Clients \union {NONE}]
    BY <1>16 DEF WriteBody, TypeOK
  <2>9. tidx' \in [Clients -> 0 .. MAX_CLIENTS]
    BY <1>13, <1>16 DEF WriteBody
  <2> QED
    BY <1>16, <2>4, <2>7, <2>8, <2>9 DEF WriteBody, TypeOK
<1>17. ASSUME NEW c \in Clients, EndBroadcast(c)
       PROVE  TypeOK'
  BY <1>17 DEF EndBroadcast, Goto, TypeOK
<1>18. ASSUME NEW c \in Clients, CloseSocket(c)
       PROVE  TypeOK'
  BY <1>18 DEF CloseSocket, Goto, TypeOK
<1>19. ASSUME NEW c \in Clients, ClearSlot(c)
       PROVE  TypeOK'
  <2>1. clientsCount > 0
    <3>1. tslot[c] \in Slots \ FreeSlots
      BY <1>19 DEF ClearSlot, SlotsAreOwned, Live, FreeSlots, TypeOK
    <3>2. Cardinality(Slots \ FreeSlots) # 0
      BY <3>1, SlotsFinite, FS_EmptySet
    <3> QED
      BY <3>2 DEF CountMatches, TypeOK
  <2>2. clientsCount - 1 \in 0 .. MAX_CLIENTS
    BY <2>1, LimitAssumption DEF TypeOK
  <2> QED
    BY <1>19, <2>2 DEF ClearSlot, Goto, TypeOK
<1> QED
  BY <1>1, <1>2, <1>3, <1>4, <1>5, <1>6, <1>7, <1>8, <1>9, <1>10, <1>11, <1>12,
     <1>14, <1>15, <1>16, <1>17, <1>18, <1>19
     DEF Next, Main, Thread, Client

(* The slots change when a client registers, and when its thread ends. *)
LEMMA RoomMoves ==
    ASSUME Next
    PROVE  \/ Register
           \/ \E c \in Clients : ClearSlot(c)
           \/ UNCHANGED <<clients, clientsCount>>
BY DEF Next, Main, Thread, Client, MainTop, Accept, Examine, Refuse, Cleanup, MainExit,
       Sigint, Connect, Send, Leave, ThreadTop, EnterRead, GotSize, ReadBody, ReadEnd,
       StartBroadcast, WriteNothing, WriteSize, WriteBody, BrokenPipe, EndBroadcast,
       CloseSocket, room

(* The descriptors change at these steps only. *)
LEMMA TableMoves ==
    ASSUME Next
    PROVE  \/ Accept \/ Refuse \/ Cleanup
           \/ \E c \in Clients : CloseSocket(c)
           \/ UNCHANGED table
BY DEF Next, Main, Thread, Client, MainTop, Examine, Register, MainExit,
       Sigint, Connect, Send, Leave, ThreadTop, EnterRead, GotSize, ReadBody, ReadEnd,
       StartBroadcast, WriteNothing, WriteSize, WriteBody, BrokenPipe, EndBroadcast,
       ClearSlot, kernel

(* clientsCount stays the number of slots in use. *)
LEMMA CountKept ==
    ASSUME TypeOK, CountMatches, RoomLeft, SlotsAreOwned, MainHolds, Next
    PROVE  CountMatches' /\ RoomLeft'
<1>1. CASE Register
  <2>1. FirstFree \in Slots /\ clients[FirstFree] = -1
    BY <1>1, SlotFound DEF Register
  <2>2. FirstFree \notin Slots \ FreeSlots
    BY <2>1 DEF FreeSlots
  <2>3. mfd \in Fds /\ mfd # -1
    BY <1>1, ConnsAssumption DEF Register, MainHolds, HasConnection, Fds
  <2>4. clients' = [clients EXCEPT ![FirstFree] = mfd]
    BY <1>1 DEF Register, FirstFree
  <2>5. (Slots \ FreeSlots)' = (Slots \ FreeSlots) \union {FirstFree}
    BY <2>1, <2>3, <2>4 DEF FreeSlots, TypeOK
  <2>6. Cardinality((Slots \ FreeSlots) \union {FirstFree}) = Cardinality(Slots \ FreeSlots) + 1
    BY <2>2, SlotsFinite, FS_AddElement
  <2>7. CountMatches'
    BY <1>1, <2>5, <2>6 DEF Register, CountMatches
  <2>8. RoomLeft'
    BY <1>1 DEF Register, RoomLeft
  <2> QED
    BY <2>7, <2>8
<1>2. ASSUME NEW c \in Clients, ClearSlot(c)
      PROVE  CountMatches' /\ RoomLeft'
  <2> DEFINE s == tslot[c]
  <2>1. s \in Slots /\ clients[s] # -1
    BY <1>2 DEF ClearSlot, SlotsAreOwned, Live, TypeOK
  <2>2. s \in Slots \ FreeSlots
    BY <2>1 DEF FreeSlots
  <2>3. (Slots \ FreeSlots)' = (Slots \ FreeSlots) \ {s}
    BY <1>2, <2>1 DEF ClearSlot, FreeSlots, TypeOK
  <2>4. Cardinality((Slots \ FreeSlots) \ {s}) = Cardinality(Slots \ FreeSlots) - 1
    BY <2>2, SlotsFinite, FS_RemoveElement
  <2>5. CountMatches'
    BY <1>2, <2>3, <2>4 DEF ClearSlot, CountMatches
  <2>6. RoomLeft'
    BY <1>2, LimitAssumption DEF ClearSlot, RoomLeft, TypeOK, main
  <2> QED
    BY <2>5, <2>6
<1>3. CASE UNCHANGED <<clients, clientsCount>>
  <2>1. CountMatches'
    BY <1>3 DEF CountMatches, FreeSlots
  <2>2. mpc' = "register" => mpc = "register" \/ Examine
    BY DEF Next, Main, Thread, Client, MainTop, Accept, Refuse, Register, Cleanup, MainExit,
           Sigint, Connect, Send, Leave, ThreadTop, EnterRead, GotSize, ReadBody, ReadEnd,
           StartBroadcast, WriteNothing, WriteSize, WriteBody, BrokenPipe, EndBroadcast,
           CloseSocket, ClearSlot, main
  <2>3. Examine /\ mpc' = "register" => clientsCount < MAX_CLIENTS
    BY LimitAssumption DEF Examine, TypeOK
  <2> QED
    BY <1>3, <2>1, <2>2, <2>3 DEF RoomLeft
<1> QED
  BY <1>1, <1>2, <1>3, RoomMoves

(* What main does under the mutex. *)
LEMMA RegisterStep ==
    ASSUME TypeOK, CountMatches, RoomLeft, MainHolds, Register
    PROVE  /\ mfd \in Fds /\ mfd # -1 /\ table[mfd] \in Clients /\ tpc[table[mfd]] = "none"
           /\ FirstFree \in Slots /\ clients[FirstFree] = -1
           /\ clients' = [clients EXCEPT ![FirstFree] = mfd]
           /\ tslot' = [tslot EXCEPT ![table[mfd]] = FirstFree]
           /\ tpc' = [tpc EXCEPT ![table[mfd]] = "top"]
           /\ table' = table
<1>1. mfd \in Fds /\ mfd # -1
  BY ConnsAssumption DEF Register, MainHolds, HasConnection, Fds
<1>2. FirstFree \in Slots /\ clients[FirstFree] = -1
  BY SlotFound DEF Register
<1> QED
  BY <1>1, <1>2 DEF Register, MainHolds, HasConnection, FirstFree, kernel

(* A slot is cleared by its own thread only. *)
LEMMA SlotsKept ==
    ASSUME TypeOK, CountMatches, RoomLeft, MainHolds, SlotsAreOwned, Next
    PROVE  SlotsAreOwned'
<1>1. CASE Register
  <2>1. PICK c \in Clients : c = table[mfd]
    BY <1>1, RegisterStep
  <2>2. \A d \in Clients \ {c} : (Live(d)' => Live(d)) /\ tslot'[d] = tslot[d]
    BY <1>1, <2>1, RegisterStep DEF Live, TypeOK
  <2>3. \A d \in Clients \ {c} : Live(d) => tslot[d] # FirstFree
    BY <1>1, RegisterStep DEF SlotsAreOwned
  <2>4. tslot'[c] = FirstFree /\ clients'[FirstFree] # -1
    BY <1>1, <2>1, RegisterStep DEF TypeOK
  <2>5. \A d \in Clients \ {c} : Live(d) => clients'[tslot[d]] # -1
    <3> SUFFICES ASSUME NEW d \in Clients \ {c}, Live(d)
                 PROVE  clients'[tslot[d]] # -1
      OBVIOUS
    <3>1. tslot[d] \in Slots /\ tslot[d] # FirstFree /\ clients[tslot[d]] # -1
      BY <2>3 DEF SlotsAreOwned, TypeOK
    <3> QED
      BY <1>1, <3>1, RegisterStep DEF TypeOK
  <2> QED
    BY <2>2, <2>3, <2>4, <2>5 DEF SlotsAreOwned
<1>2. ASSUME NEW c \in Clients, ClearSlot(c)
      PROVE  SlotsAreOwned'
  <2>1. Live(c) /\ ~Live(c)'
    BY <1>2 DEF ClearSlot, Goto, Live, TypeOK
  <2>2. \A d \in Clients : Live(d)' => Live(d) /\ d # c
    <3>1. ~Register
      BY <1>2 DEF ClearSlot, Register, TypeOK
    <3> QED
      BY <2>1, <3>1, ThreadsMove
  <2>3. \A d \in Clients : Live(d) /\ d # c => clients'[tslot[d]] # -1
    BY <1>2, <2>1 DEF ClearSlot, SlotsAreOwned, TypeOK
  <2>4. tslot' = tslot
    BY <1>2 DEF ClearSlot
  <2> QED
    BY <2>2, <2>3, <2>4 DEF SlotsAreOwned
<1>3. CASE UNCHANGED <<clients, clientsCount>> /\ ~Register
  BY <1>3, ThreadsMove DEF SlotsAreOwned
<1> QED
  BY <1>1, <1>2, <1>3, RoomMoves

(* Main's connection is closed by nobody else, and no other step starts its thread. *)
LEMMA MainKept ==
    ASSUME TypeOK, SlotsAreOwned, DescriptorsHold, MainHolds, OnePlace, Next
    PROVE  MainHolds'
<1>1. CASE Accept
  <2>1. PICK c \in Clients : c = Head(backlog)
    BY <1>1, HeadTailProperties DEF Accept, TypeOK
  <2>2. Waits(c)
    BY <1>1, <2>1, HeadTailProperties DEF Accept, TypeOK, Waits
  <2>3. tpc[c] = "none"
    BY <2>2 DEF OnePlace
  <2>4. table'[LowestFree] = c /\ mfd' = LowestFree /\ LowestFree \in Fds
    BY <1>1, <2>1, DescriptorFree DEF Accept, TypeOK
  <2>5. tpc' = tpc
    BY <1>1 DEF Accept, threads
  <2> QED
    BY <2>3, <2>4, <2>5 DEF MainHolds
<1>2. CASE Refuse \/ Register \/ Cleanup \/ MainTop \/ MainExit
  BY <1>2 DEF Refuse, Register, Cleanup, MainTop, MainExit, MainHolds, HasConnection
<1>3. CASE ~(Accept \/ Refuse \/ Register \/ Cleanup \/ MainTop \/ MainExit)
  <2>1. HasConnection' => HasConnection /\ mfd' = mfd
    BY <1>3 DEF Next, Main, Thread, Client, Examine, Sigint, Connect, Send, Leave, ThreadTop,
                EnterRead, GotSize, ReadBody, ReadEnd, StartBroadcast, WriteNothing,
                WriteSize, WriteBody, BrokenPipe, EndBroadcast, CloseSocket, ClearSlot, main,
                HasConnection, TypeOK
  <2>2. ASSUME HasConnection
        PROVE  table'[mfd] = table[mfd]
    <3>1. ASSUME NEW c \in Clients, CloseSocket(c)
          PROVE  table'[mfd] = table[mfd]
      <4>1. Open(c) /\ tpc[c] # "none"
        BY <3>1 DEF CloseSocket, Open
      <4>2. clients[tslot[c]] \in Fds /\ table[clients[tslot[c]]] \in {c, NONE}
        BY <4>1, BehindOwn
      <4>3. mfd \in Fds /\ table[mfd] # c /\ table[mfd] # NONE
        BY <2>2, <4>1 DEF MainHolds, Clients, NONE
      <4> QED
        BY <3>1, <4>2, <4>3 DEF CloseSocket, TypeOK
    <3> QED
      BY <1>3, <3>1, TableMoves
  <2>3. \A c \in Clients : tpc[c] = "none" <=> tpc'[c] = "none"
    BY <1>3, ThreadsMove
  <2> QED
    BY <2>1, <2>2, <2>3 DEF MainHolds
<1> QED
  BY <1>1, <1>2, <1>3

(* Nobody's descriptor is closed or handed out while its thread uses it. *)
LEMMA DescriptorsKept ==
    ASSUME TypeOK, CountMatches, RoomLeft, SlotsAreOwned, DescriptorsHold, MainHolds,
           OnePlace, Next
    PROVE  DescriptorsHold'
<1>1. CASE Register
  <2>1. PICK c \in Clients : c = table[mfd]
    BY <1>1, RegisterStep
  <2>2. tslot'[c] = FirstFree /\ clients'[FirstFree] = mfd /\ table'[mfd] = c
    BY <1>1, <2>1, RegisterStep DEF TypeOK
  <2>3. ASSUME NEW d \in Clients \ {c}, Open(d)'
        PROVE  table'[clients'[tslot'[d]]] = d
    <3>1. Open(d) /\ tslot'[d] = tslot[d]
      BY <1>1, <2>1, <2>3, RegisterStep, ZenonT(60) DEF Open, TypeOK
    <3>2. tslot[d] \in Slots /\ clients[tslot[d]] # -1
      BY <3>1 DEF SlotsAreOwned, Live, Open, TypeOK
    <3>3. clients'[tslot[d]] = clients[tslot[d]]
      BY <1>1, <3>2, RegisterStep DEF TypeOK
    <3>4. table[clients[tslot[d]]] = d
      BY <1>1, <3>1 DEF DescriptorsHold, Register
    <3> QED
      BY <1>1, <3>1, <3>3, <3>4, RegisterStep
  <2> QED
    BY <2>2, <2>3 DEF DescriptorsHold
<1>2. ASSUME ~Register, NEW d \in Clients, Open(d)'
      PROVE  /\ Open(d) /\ tslot'[d] = tslot[d] /\ clients[tslot[d]] \in Fds
             /\ clients'[tslot[d]] = clients[tslot[d]]
  <2>1. Open(d) /\ Live(d)' /\ tslot'[d] = tslot[d]
    BY <1>2, ThreadsMove DEF Open, Live
  <2>2. tslot[d] \in Slots /\ clients[tslot[d]] \in Fds
    BY <2>1, BehindOwn DEF TypeOK
  <2>3. ASSUME NEW c \in Clients, ClearSlot(c)
        PROVE  clients'[tslot[d]] = clients[tslot[d]]
    <3>1. Live(c) /\ ~Open(c) /\ Live(d)
      BY <2>1, <2>3 DEF ClearSlot, Open, Live
    <3>2. tslot[c] # tslot[d]
      BY <2>1, <3>1 DEF SlotsAreOwned
    <3> QED
      BY <2>2, <2>3, <3>2 DEF ClearSlot, TypeOK
  <2> QED
    BY <1>2, <2>1, <2>2, <2>3, RoomMoves
<1>3. mpc \in {"cleanup", "exit"} => mpc' \in {"cleanup", "exit"}
  BY DEF Next, Main, Thread, Client, MainTop, Accept, Examine, Refuse, Register, Cleanup, MainExit,
         Sigint, Connect, Send, Leave, ThreadTop, EnterRead, GotSize, ReadBody, ReadEnd,
         StartBroadcast, WriteNothing, WriteSize, WriteBody, BrokenPipe, EndBroadcast,
         CloseSocket, ClearSlot, main
<1>4. ASSUME ~Register, NEW d \in Clients, Open(d)', table[clients[tslot[d]]] = d
      PROVE  \/ table'[clients[tslot[d]]] = d
             \/ table'[clients[tslot[d]]] = NONE /\ mpc' \in {"cleanup", "exit"}
  <2>1. Open(d) /\ clients[tslot[d]] \in Fds
    BY <1>2, <1>4
  <2>2. d # NONE
    BY DEF Clients, NONE
  <2>3. CASE Accept
    BY <1>4, <2>1, <2>2, <2>3, DescriptorFree DEF Accept, TypeOK
  <2>4. CASE Refuse
    <3>1. mfd # clients[tslot[d]]
      BY <1>4, <2>1, <2>4 DEF Refuse, MainHolds, HasConnection, Open
    <3> QED
      BY <1>4, <2>1, <2>4, <3>1 DEF Refuse, TypeOK
  <2>5. CASE Cleanup
    BY <1>4, <2>1, <2>5 DEF Cleanup, TypeOK
  <2>6. ASSUME NEW c \in Clients, CloseSocket(c)
        PROVE  table'[clients[tslot[d]]] = d
    <3>1. Open(c) /\ ~Open(c)'
      BY <2>6 DEF CloseSocket, Goto, Open, TypeOK
    <3>2. c # d
      BY <1>4, <3>1
    <3>3. clients[tslot[c]] \in Fds /\ table[clients[tslot[c]]] \in {c, NONE}
      BY <3>1, BehindOwn
    <3> QED
      BY <1>4, <2>1, <2>2, <2>6, <3>2, <3>3 DEF CloseSocket, TypeOK
  <2> QED
    BY <1>4, <2>3, <2>4, <2>5, <2>6, TableMoves
<1>5. ASSUME ~Register, NEW d \in Clients, Open(d)', table[clients[tslot[d]]] = NONE
      PROVE  table'[clients[tslot[d]]] = NONE /\ mpc' \in {"cleanup", "exit"}
  <2>1. Open(d) /\ clients[tslot[d]] \in Fds /\ d # NONE
    BY <1>2, <1>5 DEF Clients, NONE
  <2>2. mpc \in {"cleanup", "exit"}
    BY <1>5, <2>1 DEF DescriptorsHold
  <2>3. CASE Cleanup
    BY <1>5, <2>1, <2>2, <2>3 DEF Cleanup, TypeOK
  <2>4. CASE \E c \in Clients : CloseSocket(c)
    BY <1>3, <1>5, <2>1, <2>2, <2>4 DEF CloseSocket, TypeOK
  <2> QED
    BY <1>3, <1>5, <2>2, <2>3, <2>4, TableMoves DEF Accept, Refuse
<1>6. CASE ~Register
  BY <1>2, <1>4, <1>5, <1>6 DEF DescriptorsHold
<1> QED
  BY <1>1, <1>6

(* A table that has lost some connections, and a backlog and stages that are *)
(* the same, still have every connection in one place. *)
LEMMA OnePlaceShrinks ==
    ASSUME OnePlace, backlog' = backlog,
           \A c \in Clients : stage'[c] = "new" => stage[c] = "new",
           \A c \in Clients : tpc[c] = "none" => tpc'[c] = "none",
           \A f \in Fds : table'[f] \in {table[f], NONE}
    PROVE  OnePlace'
<1>1. \A c \in Clients : Waits(c)' <=> Waits(c)
  BY DEF Waits
<1>2. \A c \in Clients : c # NONE
  BY DEF Clients, NONE
<1> QED
  BY <1>1, <1>2 DEF OnePlace

LEMMA OnePlaceKept ==
    ASSUME TypeOK, CountMatches, RoomLeft, SlotsAreOwned, DescriptorsHold, MainHolds,
           OnePlace, Next
    PROVE  OnePlace'
<1>1. ASSUME NEW c \in Clients, Connect(c)
      PROVE  OnePlace'
  <2>1. /\ backlog' \in Seq(Clients)
        /\ DOMAIN backlog = 1 .. Len(backlog) /\ Len(backlog) \in Nat
        /\ DOMAIN backlog' = 1 .. Len(backlog) + 1
        /\ \A i \in DOMAIN backlog : backlog'[i] = backlog[i]
        /\ backlog'[Len(backlog) + 1] = c
    <3>1. backlog' = Append(backlog, c) /\ backlog \in Seq(Clients)
      BY <1>1 DEF Connect, TypeOK
    <3> QED
      BY <3>1, AppendProperties, LenProperties
  <2>2. ~Waits(c) /\ tpc[c] = "none" /\ \A f \in Fds : table[f] # c
    BY <1>1 DEF Connect, OnePlace
  <2>3. \A d \in Clients : Waits(d)' <=> Waits(d) \/ d = c
    BY <2>1 DEF Waits
  <2>4. \A i, j \in DOMAIN backlog' : backlog'[i] = backlog'[j] => i = j
    BY <2>1, <2>2 DEF OnePlace, Waits
  <2>5. /\ tpc' = tpc /\ table' = table
        /\ \A d \in Clients : stage'[d] = "new" => stage[d] = "new" /\ d # c
    BY <1>1 DEF Connect, TypeOK, threads
  <2> QED
    BY <2>2, <2>3, <2>4, <2>5 DEF OnePlace
<1>2. CASE Accept
  <2>1. PICK c \in Clients : c = Head(backlog)
    BY <1>2, HeadTailProperties DEF Accept, TypeOK
  <2>2. /\ DOMAIN backlog = 1 .. Len(backlog) /\ Len(backlog) \in Nat \ {0}
        /\ DOMAIN backlog' = 1 .. Len(backlog) - 1
        /\ \A i \in DOMAIN backlog' : backlog'[i] = backlog[i + 1]
        /\ backlog[1] = c
    BY <1>2, <2>1, HeadTailProperties, LenProperties, EmptySeq DEF Accept, TypeOK
  <2>3. Waits(c)
    BY <2>2 DEF Waits
  <2>4. \A d \in Clients : Waits(d)' => Waits(d) /\ d # c
    BY <2>2 DEF Waits, OnePlace
  <2>5. \A i, j \in DOMAIN backlog' : backlog'[i] = backlog'[j] => i = j
    BY <2>2 DEF OnePlace
  <2>6. /\ tpc' = tpc /\ stage' = stage
        /\ LowestFree \in Fds /\ table' = [table EXCEPT ![LowestFree] = c]
    BY <1>2, <2>1, DescriptorFree DEF Accept, threads, peers
  <2>7. \A f \in Fds : table'[f] = IF f = LowestFree THEN c ELSE table[f]
    BY <2>6 DEF TypeOK
  <2>8. stage[c] # "new" /\ \A f \in Fds : table[f] # c
    BY <2>3 DEF OnePlace
  <2> QED
    BY <2>4, <2>5, <2>6, <2>7, <2>8 DEF OnePlace
<1>3. CASE Register
  <2>1. PICK c \in Clients : c = table[mfd]
    BY <1>3, RegisterStep
  <2>2. ~Waits(c)
    BY <1>3, <2>1, RegisterStep DEF OnePlace
  <2>3. \A d \in Clients : d # c => tpc'[d] = tpc[d] /\ stage'[d] = stage[d]
    BY <1>3, <2>1 DEF Register, TypeOK
  <2>4. stage'[c] # "new" /\ table' = table /\ backlog' = backlog
    BY <1>3, <2>1 DEF Register, TypeOK, kernel
  <2>5. \A d \in Clients : Waits(d)' <=> Waits(d)
    BY <2>4 DEF Waits
  <2> QED
    BY <2>2, <2>3, <2>4, <2>5 DEF OnePlace
<1>4. CASE ~Register /\ ~Accept /\ ~\E c \in Clients : Connect(c)
  <2>1. backlog' = backlog
    BY <1>4 DEF Next, Main, Thread, Client, MainTop, Examine, Refuse, Cleanup, MainExit,
                Sigint, Send, Leave, ThreadTop, EnterRead, GotSize, ReadBody, ReadEnd,
                StartBroadcast, WriteNothing, WriteSize, WriteBody, BrokenPipe, EndBroadcast,
                CloseSocket, ClearSlot, kernel
  <2>2. stage' = stage \/ Refuse
    BY <1>4 DEF Next, Main, Thread, Client, MainTop, Examine, Cleanup, MainExit,
                Sigint, Send, Leave, ThreadTop, EnterRead, GotSize, ReadBody, ReadEnd,
                StartBroadcast, WriteNothing, WriteSize, WriteBody, BrokenPipe, EndBroadcast,
                CloseSocket, ClearSlot, peers
  <2>3. \A c \in Clients : stage'[c] = "new" => stage[c] = "new"
    BY <2>2 DEF Refuse, TypeOK
  <2>4. \A f \in Fds : table'[f] \in {table[f], NONE}
    BY <1>4, TableMoves DEF Refuse, Cleanup, CloseSocket, TypeOK
  <2>5. \A c \in Clients : tpc[c] = "none" => tpc'[c] = "none"
    BY <1>4, ThreadsMove
  <2> QED
    BY <2>1, <2>3, <2>4, <2>5, OnePlaceShrinks
<1> QED
  BY <1>1, <1>2, <1>3, <1>4

(* A broadcast keeps the mutex, and its message the last of the order. *)
LEMMA WriterKept ==
    ASSUME TypeOK, WriterIsLast, Next
    PROVE  WriterIsLast'
<1>1. ASSUME NEW c \in Clients, StartBroadcast(c)
      PROVE  WriterIsLast'
  <2>1. \A d \in Clients : tpc[d] # "write"
    BY <1>1 DEF StartBroadcast, WriterIsLast, Clients, NONE
  <2>2. order' = Append(order, tmsg[c]) /\ order \in Seq(Clients \X Nat) /\ tmsg[c] \in Clients \X Nat
    BY <1>1 DEF StartBroadcast, TypeOK
  <2>3. order' # <<>> /\ order'[Len(order')] = tmsg[c]
    BY <2>2, AppendProperties
  <2>4. \A d \in Clients : tpc'[d] = "write" => d = c
    BY <1>1, <2>1 DEF StartBroadcast, Goto, TypeOK
  <2> QED
    BY <1>1, <2>3, <2>4 DEF StartBroadcast, WriterIsLast
<1>2. ASSUME NEW c \in Clients, EndBroadcast(c)
      PROVE  WriterIsLast'
  <2>1. \A d \in Clients : tpc'[d] # "write"
    BY <1>2 DEF EndBroadcast, Goto, WriterIsLast, TypeOK
  <2> QED
    BY <2>1 DEF WriterIsLast
<1>3. CASE ~\E c \in Clients : StartBroadcast(c) \/ EndBroadcast(c)
  <2>1. mutex' = mutex /\ order' = order
    BY <1>3 DEF Next, Main, Thread, Client, MainTop, Accept, Examine, Refuse, Register, Cleanup, MainExit,
                Sigint, Connect, Send, Leave, ThreadTop, EnterRead, GotSize, ReadBody, ReadEnd,
                WriteNothing, WriteSize, WriteBody, BrokenPipe, CloseSocket, ClearSlot, room, history
  <2>2. ASSUME NEW d \in Clients, tpc'[d] = "write"
        PROVE  tpc[d] = "write" /\ tmsg'[d] = tmsg[d]
    <3>1. CASE UNCHANGED <<tpc, tmsg>>
      BY <2>2, <3>1
    <3>2. CASE Register
      BY <2>2, <3>2 DEF Register, TypeOK
    <3>3. ASSUME NEW c \in Clients,
                 ThreadTop(c) \/ EnterRead(c) \/ GotSize(c) \/ ReadEnd(c) \/ CloseSocket(c) \/ ClearSlot(c)
          PROVE  tpc[d] = "write" /\ tmsg'[d] = tmsg[d]
      BY <2>2, <3>3 DEF ThreadTop, EnterRead, GotSize, ReadEnd, CloseSocket, ClearSlot, Goto, TypeOK
    <3>4. ASSUME NEW c \in Clients, ReadBody(c)
          PROVE  tpc[d] = "write" /\ tmsg'[d] = tmsg[d]
      BY <2>2, <3>4 DEF ReadBody, Goto, TypeOK
    <3> QED
      BY <1>3, <3>1, <3>2, <3>3, <3>4
         DEF Next, Main, Thread, Client, MainTop, Accept, Examine, Refuse, Cleanup, MainExit,
             Sigint, Connect, Send, Leave, WriteNothing, WriteSize, WriteBody, BrokenPipe, threads
  <2> QED
    BY <2>1, <2>2 DEF WriterIsLast
<1> QED
  BY <1>1, <1>2, <1>3

(* The order grows at its end, when a broadcast begins. *)
LEMMA OrderMoves ==
    ASSUME TypeOK, Next
    PROVE  \/ order' = order
           \/ \E c \in Clients : StartBroadcast(c) /\ order' = Append(order, tmsg[c])
BY DEF Next, Main, Thread, Client, MainTop, Accept, Examine, Refuse, Register, Cleanup, MainExit,
       Sigint, Connect, Send, Leave, ThreadTop, EnterRead, GotSize, ReadBody, ReadEnd,
       StartBroadcast, WriteNothing, WriteSize, WriteBody, BrokenPipe, EndBroadcast,
       CloseSocket, ClearSlot, history

(* Every inbox stays in the order of the broadcasts. *)
LEMMA InboxesKept ==
    ASSUME TypeOK, WriterIsLast, InboxesInOrder, Next
    PROVE  InboxesInOrder'
<1>1. ASSUME NEW c \in Clients, StartBroadcast(c)
      PROVE  InboxesInOrder'
  <2>1. order' = Append(order, tmsg[c]) /\ order \in Seq(Clients \X Nat) /\ tmsg[c] \in Clients \X Nat
    BY <1>1 DEF StartBroadcast, TypeOK
  <2>2. \A i \in DOMAIN order : i \in DOMAIN order' /\ order'[i] = order[i]
    BY <2>1, AppendProperties, LenProperties
  <2>3. inbox' = inbox
    BY <1>1 DEF StartBroadcast, peers
  <2> QED
    BY <2>2, <2>3 DEF InboxesInOrder
<1>2. ASSUME NEW c \in Clients, WriteBody(c), inbox' # inbox
      PROVE  InboxesInOrder'
  <2>1. PICK d \in Clients : inbox' = [inbox EXCEPT ![d] = Append(@, tmsg[c])]
    <3>1. inbox' = [inbox EXCEPT ![Behind(tidx[c])] = Append(@, tmsg[c])]
      BY <1>2 DEF WriteBody
    <3>2. tidx[c] \in Slots
      <4>1. tidx[c] \in 0 .. MAX_CLIENTS /\ tidx[c] < MAX_CLIENTS
        BY <1>2 DEF WriteBody, Writing, TypeOK
      <4> QED
        BY <4>1, LimitAssumption DEF Slots
    <3>3. Behind(tidx[c]) \in Clients
      BY <1>2, <3>2 DEF WriteBody, Behind, TypeOK
    <3> QED
      BY <3>1, <3>3
  <2>2. order' = order /\ order # <<>> /\ tmsg[c] = order[Len(order)]
    BY <1>2 DEF WriteBody, Writing, WriterIsLast, history
  <2>3. /\ DOMAIN order = 1 .. Len(order) /\ Len(order) \in DOMAIN order
        /\ \A p \in DOMAIN order : p <= Len(order)
    <3>1. order \in Seq(Clients \X Nat)
      BY DEF TypeOK
    <3> QED
      BY <2>2, <3>1, LenProperties, EmptySeq
  <2>4. /\ inbox'[d] = Append(inbox[d], tmsg[c])
        /\ inbox[d] \in Seq(Clients \X Nat) /\ tmsg[c] \in Clients \X Nat
        /\ \A e \in Clients : e # d => inbox'[e] = inbox[e]
    BY <2>1 DEF TypeOK
  <2>5. /\ DOMAIN inbox[d] = 1 .. Len(inbox[d]) /\ Len(inbox[d]) \in Nat
        /\ DOMAIN inbox'[d] = 1 .. Len(inbox[d]) + 1
        /\ \A i \in DOMAIN inbox[d] : inbox'[d][i] = inbox[d][i]
        /\ inbox'[d][Len(inbox[d]) + 1] = tmsg[c]
    BY <2>4, AppendProperties, LenProperties
  <2>6. ASSUME NEW i \in DOMAIN inbox'[d], NEW j \in DOMAIN inbox'[d], i <= j
        PROVE  \E p, q \in DOMAIN order :
                  p <= q /\ order[p] = inbox'[d][i] /\ order[q] = inbox'[d][j]
    <3>1. CASE j \in DOMAIN inbox[d]
      <4>1. i \in DOMAIN inbox[d]
        BY <2>5, <2>6, <3>1
      <4> QED
        BY <2>5, <2>6, <3>1, <4>1 DEF InboxesInOrder
    <3>2. CASE j = Len(inbox[d]) + 1 /\ i \in DOMAIN inbox[d]
      <4>1. PICK p \in DOMAIN order : order[p] = inbox[d][i]
        BY <2>5, <3>2 DEF InboxesInOrder
      <4> QED
        BY <2>2, <2>3, <2>5, <3>2, <4>1
    <3>3. CASE j = Len(inbox[d]) + 1 /\ i = Len(inbox[d]) + 1
      BY <2>2, <2>3, <2>5, <3>3
    <3> QED
      BY <2>5, <2>6, <3>1, <3>2, <3>3
  <2>7. ASSUME NEW e \in Clients, NEW i \in DOMAIN inbox'[e], NEW j \in DOMAIN inbox'[e], i <= j
        PROVE  \E p, q \in DOMAIN order' :
                  p <= q /\ order'[p] = inbox'[e][i] /\ order'[q] = inbox'[e][j]
    <3>1. CASE e = d
      BY <2>2, <2>6, <2>7, <3>1
    <3>2. CASE e # d
      BY <2>2, <2>4, <2>7, <3>2 DEF InboxesInOrder
    <3> QED
      BY <3>1, <3>2
  <2> QED
    BY <2>7 DEF InboxesInOrder
<1>3. CASE ~\E c \in Clients : StartBroadcast(c) \/ (WriteBody(c) /\ inbox' # inbox)
  <2>1. inbox' = inbox
    BY <1>3 DEF Next, Main, Thread, Client, MainTop, Accept, Examine, Refuse, Register, Cleanup, MainExit,
                Sigint, Connect, Send, Leave, ThreadTop, EnterRead, GotSize, ReadBody, ReadEnd,
                WriteNothing, WriteSize, BrokenPipe, EndBroadcast, CloseSocket, ClearSlot, peers
  <2>2. order' = order
    BY <1>3, OrderMoves
  <2> QED
    BY <2>1, <2>2 DEF InboxesInOrder
<1> QED
  BY <1>1, <1>2, <1>3

(* A thread reads and broadcasts its own client's messages, one by one. *)
LEMMA SendersKept ==
    ASSUME TypeOK, SlotsAreOwned, DescriptorsHold, SendersInOrder, SenderOrder, Next
    PROVE  SendersInOrder' /\ SenderOrder'
<1> DEFINE Msgs == Clients \X Nat
<1>1. /\ order \in Seq(Msgs) /\ DOMAIN order = 1 .. Len(order) /\ Len(order) \in Nat
      /\ \A i \in DOMAIN order : order[i] \in Msgs /\ order[i][1] \in Clients /\ order[i][2] \in Nat
  <2>1. order \in Seq(Msgs)
    BY DEF TypeOK
  <2>2. DOMAIN order = 1 .. Len(order) /\ Len(order) \in Nat /\ order \in [1 .. Len(order) -> Msgs]
    BY <2>1, LenProperties
  <2>3. \A i \in DOMAIN order : order[i] \in Msgs
    BY <2>2
  <2> QED
    BY <2>1, <2>2, <2>3
<1>2. ASSUME NEW c \in Clients, ReadBody(c), Behind(tslot[c]) # NONE
      PROVE  SendersInOrder' /\ SenderOrder'
  <2>1. Behind(tslot[c]) = c
    BY <1>2, BehindOwn DEF ReadBody, Open
  <2>2. /\ tmsg' = [tmsg EXCEPT ![c] = <<c, sent[c] - unread[c] + 1>>]
        /\ unread' = [unread EXCEPT ![c] = unread[c] - 1]
        /\ tpc' = [tpc EXCEPT ![c] = "lock"]
        /\ sent' = sent /\ order' = order /\ tpc[c] = "body"
    BY <1>2, <2>1 DEF ReadBody, Goto, history
  <2>3. sent[c] \in Nat /\ unread[c] \in Nat
    BY DEF TypeOK
  <2>4. /\ tmsg'[c] = <<c, sent[c] - unread[c] + 1>> /\ unread'[c] = unread[c] - 1 /\ tpc'[c] = "lock"
        /\ \A d \in Clients : d # c => tmsg'[d] = tmsg[d] /\ unread'[d] = unread[d] /\ tpc'[d] = tpc[d]
    BY <2>2 DEF TypeOK
  <2>5. ReadOf(c)' = ReadOf(c) + 1 /\ tmsg'[c] = <<c, ReadOf(c)'>>
    BY <2>2, <2>3, <2>4 DEF ReadOf
  <2>6. \A d \in Clients : d # c => ReadOf(d)' = ReadOf(d)
    BY <2>2, <2>4 DEF ReadOf
  <2>7. \A i \in DOMAIN order : order[i][2] <= ReadOf(order[i][1])'
    <3> SUFFICES ASSUME NEW i \in DOMAIN order PROVE order[i][2] <= ReadOf(order[i][1])'
      OBVIOUS
    <3>1. order[i][1] \in Clients /\ order[i][2] \in Nat /\ order[i][2] <= ReadOf(order[i][1])
      BY <1>1 DEF SendersInOrder
    <3>2. ReadOf(c) \in Int
      BY <2>3 DEF ReadOf
    <3> QED
      BY <2>2, <2>5, <2>6, <3>1, <3>2 DEF ReadOf
  <2>8. \A i \in DOMAIN order : tpc'[order[i][1]] = "lock" => order[i][2] < ReadOf(order[i][1])'
    <3> SUFFICES ASSUME NEW i \in DOMAIN order, tpc'[order[i][1]] = "lock"
                 PROVE  order[i][2] < ReadOf(order[i][1])'
      OBVIOUS
    <3>1. order[i][1] \in Clients /\ order[i][2] \in Nat /\ order[i][2] <= ReadOf(order[i][1])
      BY <1>1 DEF SendersInOrder
    <3>2. ReadOf(c) \in Int
      BY <2>3 DEF ReadOf
    <3>3. CASE order[i][1] = c
      BY <2>2, <2>5, <3>1, <3>2, <3>3 DEF ReadOf
    <3>4. CASE order[i][1] # c
      BY <2>2, <2>4, <2>6, <3>1, <3>4 DEF SendersInOrder, ReadOf
    <3> QED
      BY <3>3, <3>4
  <2>9. \A d \in Clients : tpc'[d] = "body" => unread'[d] > 0
    BY <2>4 DEF SendersInOrder
  <2>10. \A d \in Clients : tpc'[d] = "lock" => tmsg'[d] = <<d, ReadOf(d)'>>
    BY <2>4, <2>5, <2>6 DEF SendersInOrder
  <2>11. SendersInOrder'
    BY <2>2, <2>7, <2>8, <2>9, <2>10 DEF SendersInOrder
  <2>12. SenderOrder'
    BY <2>2, <2>4 DEF SenderOrder
  <2> QED
    BY <2>11, <2>12
<1>3. ASSUME NEW c \in Clients, StartBroadcast(c)
      PROVE  SendersInOrder' /\ SenderOrder'
  <2>1. /\ tpc[c] = "lock" /\ order' = Append(order, tmsg[c])
        /\ tpc' = [tpc EXCEPT ![c] = "write"]
        /\ tmsg' = tmsg /\ sent' = sent /\ unread' = unread
    BY <1>3 DEF StartBroadcast, Goto, peers
  <2>2. tmsg[c] \in Msgs /\ tmsg[c] = <<c, ReadOf(c)>> /\ tmsg[c][1] = c /\ tmsg[c][2] = ReadOf(c)
    BY <2>1 DEF SendersInOrder, TypeOK
  <2>3. PICK n \in Nat : n = Len(order) + 1
    BY <1>1
  <2>4. /\ DOMAIN order' = 1 .. n
        /\ \A i \in DOMAIN order : order'[i] = order[i]
        /\ order'[n] = tmsg[c]
    <3>1. Append(order, tmsg[c]) \in Seq(Msgs)
      BY <1>1, <2>2, AppendProperties
    <3> QED
      BY <1>1, <2>1, <2>2, <2>3, <3>1, AppendProperties, LenProperties
  <2>5. \A d \in Clients : ReadOf(d)' = ReadOf(d)
    BY <2>1 DEF ReadOf
  <2>6. /\ tpc'[c] = "write"
        /\ \A d \in Clients : d # c => tpc'[d] = tpc[d]
    BY <2>1 DEF TypeOK
  <2>7. ReadOf(c) \in Int
    BY DEF ReadOf, TypeOK
  <2>8. \A i \in DOMAIN order' : i = n \/ (i \in DOMAIN order /\ i < n)
    BY <1>1, <2>3, <2>4
  <2>9. \A i \in DOMAIN order' : order'[i][2] <= ReadOf(order'[i][1])
    BY <1>1, <2>2, <2>4, <2>5, <2>7, <2>8 DEF SendersInOrder
  <2>10. \A i \in DOMAIN order' :
            tpc'[order'[i][1]] = "lock" => order'[i][2] < ReadOf(order'[i][1])
    BY <1>1, <2>2, <2>4, <2>5, <2>6, <2>8 DEF SendersInOrder
  <2>11. /\ \A d \in Clients : tpc'[d] = "body" => unread'[d] > 0
         /\ \A d \in Clients : tpc'[d] = "lock" => tmsg'[d] = <<d, ReadOf(d)'>>
    BY <2>1, <2>5, <2>6 DEF SendersInOrder
  <2>12. SendersInOrder'
    BY <2>1, <2>9, <2>10, <2>11 DEF SendersInOrder, ReadOf
  <2>13. \A d \in Clients : tpc'[d] \in {"lock", "write"} => tmsg'[d][1] = d
    BY <2>1, <2>2, <2>6 DEF SenderOrder
  <2>14. ASSUME NEW i \in DOMAIN order', NEW j \in DOMAIN order', i < j, order'[i][1] = order'[j][1]
         PROVE  order'[i][2] < order'[j][2]
    <3>1. i \in DOMAIN order
      BY <2>4, <2>8, <2>14
    <3>2. CASE j = n
      BY <2>1, <2>2, <2>4, <2>14, <3>1, <3>2 DEF SendersInOrder
    <3>3. CASE j \in DOMAIN order
      BY <2>4, <2>14, <3>1, <3>3 DEF SenderOrder
    <3> QED
      BY <2>8, <3>2, <3>3
  <2> QED
    BY <2>12, <2>13, <2>14 DEF SenderOrder
<1>4. ASSUME order' = order, tmsg' = tmsg,
             \A d \in Clients : ReadOf(d)' = ReadOf(d),
             \A d \in Clients : tpc'[d] = "body" => unread'[d] > 0,
             \A d \in Clients : tpc'[d] = "lock" => tpc[d] = "lock",
             \A d \in Clients : tpc'[d] = "write" => tpc[d] = "write"
      PROVE  SendersInOrder' /\ SenderOrder'
  <2>1. SendersInOrder'
    BY <1>1, <1>4 DEF SendersInOrder
  <2>2. SenderOrder'
    BY <1>4 DEF SenderOrder
  <2> QED
    BY <2>1, <2>2
<1>5. ASSUME NEW c \in Clients, Send(c)
      PROVE  SendersInOrder' /\ SenderOrder'
  <2>1. order' = order /\ tmsg' = tmsg /\ tpc' = tpc
    BY <1>5 DEF Send, history, threads
  <2>2. /\ \A d \in Clients : sent[d] \in Nat /\ unread[d] \in Nat
        /\ \A d \in Clients : d # c => sent'[d] = sent[d] /\ unread'[d] = unread[d]
        /\ sent'[c] = sent[c] + 1 /\ unread'[c] = unread[c] + 1
    BY <1>5 DEF Send, TypeOK
  <2>3. \A d \in Clients : ReadOf(d)' = ReadOf(d)
    BY <2>2 DEF ReadOf
  <2>4. \A d \in Clients : tpc'[d] = "body" => unread'[d] > 0
    BY <2>1, <2>2 DEF SendersInOrder
  <2> QED
    BY <1>4, <2>1, <2>3, <2>4
<1>6. ASSUME UNCHANGED <<order, tmsg, sent, unread>>,
             \A d \in Clients : tpc'[d] = "body" => tpc[d] = "body" \/ unread[d] > 0,
             \A d \in Clients : tpc'[d] = "lock" => tpc[d] = "lock",
             \A d \in Clients : tpc'[d] = "write" => tpc[d] = "write"
      PROVE  SendersInOrder' /\ SenderOrder'
  <2>1. \A d \in Clients : ReadOf(d)' = ReadOf(d)
    BY <1>6 DEF ReadOf
  <2>2. \A d \in Clients : tpc'[d] = "body" => unread'[d] > 0
    BY <1>6 DEF SendersInOrder
  <2> QED
    BY <1>4, <1>6, <2>1, <2>2
<1>7. ASSUME NEW c \in Clients,
             \/ ThreadTop(c) \/ EnterRead(c) \/ GotSize(c) \/ ReadEnd(c)
             \/ EndBroadcast(c) \/ CloseSocket(c) \/ ClearSlot(c)
             \/ ReadBody(c) /\ Behind(tslot[c]) = NONE
      PROVE  SendersInOrder' /\ SenderOrder'
  <2>1. UNCHANGED <<order, tmsg, sent, unread>>
    BY <1>7 DEF ThreadTop, EnterRead, GotSize, ReadEnd, EndBroadcast, CloseSocket, ClearSlot,
                ReadBody, history, peers
  <2>2. \E place : /\ tpc' = [tpc EXCEPT ![c] = place] /\ place \notin {"lock", "write"}
                   /\ place = "body" => unread[c] > 0
    BY <1>7 DEF ThreadTop, EnterRead, GotSize, ReadEnd, EndBroadcast, CloseSocket, ClearSlot,
                ReadBody, Goto
  <2>3. \A d \in Clients : \/ tpc'[d] = tpc[d]
                           \/ tpc'[d] \notin {"lock", "write"} /\ (tpc'[d] = "body" => unread[d] > 0)
    BY <2>2 DEF TypeOK
  <2> QED
    BY <1>6, <2>1, <2>3
<1>8. CASE Register
  <2>1. UNCHANGED <<order, tmsg, sent, unread>>
    BY <1>8 DEF Register, history
  <2>2. \A d \in Clients : tpc'[d] = tpc[d] \/ tpc'[d] = "top"
    BY <1>8 DEF Register, TypeOK
  <2> QED
    BY <1>6, <2>1, <2>2
<1>9. CASE UNCHANGED <<order, tmsg, sent, unread, tpc>>
  BY <1>6, <1>9
<1> QED
  BY <1>2, <1>3, <1>5, <1>7, <1>8, <1>9
     DEF Next, Main, Thread, Client, MainTop, Accept, Examine, Refuse, Cleanup, MainExit,
         Sigint, Connect, Leave, WriteNothing, WriteSize, WriteBody, BrokenPipe, threads, peers, history

(* The history of audiences, and what has been torn, change at these steps. *)
LEMMA WireMoves ==
    ASSUME Next
    PROVE  /\ audience' = audience \/ \E c \in Clients : StartBroadcast(c)
           /\ torn' = torn \/ \E c \in Clients : WriteBody(c)
BY DEF Next, Main, Thread, Client, MainTop, Accept, Examine, Refuse, Register, Cleanup, MainExit,
       Sigint, Connect, Send, Leave, ThreadTop, EnterRead, GotSize, ReadBody, ReadEnd,
       StartBroadcast, WriteNothing, WriteSize, WriteBody, BrokenPipe, EndBroadcast,
       CloseSocket, ClearSlot, wire, history

(* A connection that has been accepted does not wait again. *)
LEMMA PlacesMove ==
    ASSUME TypeOK, Next, NEW d \in Clients, stage[d] # "new", ~Waits(d)
    PROVE  stage'[d] # "new" /\ ~Waits(d)'
<1>1. ASSUME NEW c \in Clients, Connect(c)
      PROVE  stage'[d] # "new" /\ ~Waits(d)'
  <2>1. /\ DOMAIN backlog' = 1 .. Len(backlog) + 1 /\ DOMAIN backlog = 1 .. Len(backlog)
        /\ Len(backlog) \in Nat
        /\ \A i \in DOMAIN backlog : backlog'[i] = backlog[i]
        /\ backlog'[Len(backlog) + 1] = c
    <3>1. backlog' = Append(backlog, c) /\ backlog \in Seq(Clients)
      BY <1>1 DEF Connect, TypeOK
    <3> QED
      BY <3>1, AppendProperties, LenProperties
  <2>2. c # d /\ stage'[d] = stage[d]
    BY <1>1 DEF Connect, TypeOK
  <2> QED
    BY <2>1, <2>2 DEF Waits
<1>2. CASE Accept
  <2>1. /\ DOMAIN backlog = 1 .. Len(backlog) /\ Len(backlog) \in Nat \ {0}
        /\ DOMAIN backlog' = 1 .. Len(backlog) - 1
        /\ \A i \in DOMAIN backlog' : backlog'[i] = backlog[i + 1]
    BY <1>2, HeadTailProperties, LenProperties, EmptySeq DEF Accept, TypeOK
  <2>2. stage' = stage
    BY <1>2 DEF Accept, peers
  <2> QED
    BY <2>1, <2>2 DEF Waits
<1>3. CASE ~Accept /\ ~\E c \in Clients : Connect(c)
  <2>1. backlog' = backlog
    BY <1>3 DEF Next, Main, Thread, Client, MainTop, Examine, Refuse, Register, Cleanup, MainExit,
                Sigint, Send, Leave, ThreadTop, EnterRead, GotSize, ReadBody, ReadEnd,
                StartBroadcast, WriteNothing, WriteSize, WriteBody, BrokenPipe, EndBroadcast,
                CloseSocket, ClearSlot, kernel
  <2>2. stage' = stage \/ Refuse \/ Register
    BY <1>3 DEF Next, Main, Thread, Client, MainTop, Examine, Cleanup, MainExit,
                Sigint, Send, Leave, ThreadTop, EnterRead, GotSize, ReadBody, ReadEnd,
                StartBroadcast, WriteNothing, WriteSize, WriteBody, BrokenPipe, EndBroadcast,
                CloseSocket, ClearSlot, peers
  <2>3. stage'[d] # "new"
    BY <2>2 DEF Refuse, Register, TypeOK
  <2> QED
    BY <2>1, <2>3 DEF Waits
<1> QED
  BY <1>1, <1>2, <1>3

(* Who is behind a slot has been accepted. *)
LEMMA AudiencesKept ==
    ASSUME TypeOK, OnePlace, AudiencesAccepted, Next
    PROVE  AudiencesAccepted'
<1>1. ASSUME NEW m \in Message, NEW d \in audience'[m]
      PROVE  d \in Clients /\ stage[d] # "new" /\ ~Waits(d)
  <2>1. CASE audience' = audience
    BY <1>1, <2>1 DEF AudiencesAccepted, TypeOK
  <2>2. ASSUME NEW c \in Clients, StartBroadcast(c)
        PROVE  d \in Clients /\ stage[d] # "new" /\ ~Waits(d)
    <3>1. audience'[m] = audience[m] \/ audience'[m] = {Behind(s) : s \in Slots} \ {NONE}
      BY <2>2 DEF StartBroadcast, TypeOK
    <3>2. CASE d \in audience[m]
      BY <3>2 DEF AudiencesAccepted, TypeOK
    <3>3. ASSUME NEW s \in Slots, d = Behind(s), d # NONE
          PROVE  d \in Clients /\ stage[d] # "new" /\ ~Waits(d)
      <4>1. clients[s] \in Fds /\ d = table[clients[s]]
        BY <3>3 DEF Behind, TypeOK
      <4>2. d \in Clients
        BY <3>3, <4>1 DEF TypeOK
      <4> QED
        BY <4>1, <4>2 DEF OnePlace
    <3> QED
      BY <1>1, <3>1, <3>2, <3>3
  <2> QED
    BY <2>1, <2>2, WireMoves
<1>2. ASSUME NEW m \in Message, NEW d \in audience'[m]
      PROVE  stage'[d] # "new" /\ ~Waits(d)'
  BY <1>1, <1>2, PlacesMove
<1> QED
  BY <1>2 DEF AudiencesAccepted

(* Nobody is between two writes while the mutex is free. *)
LEMMA NobodyWrites ==
    ASSUME WriterIsLast, HalfWritten, mutex = NONE
    PROVE  \A d \in Clients : half[d] = NONE
BY DEF WriterIsLast, HalfWritten, Writing, Clients, NONE

(* A thread between its two writes does nothing else. *)
LEMMA HalfStays ==
    ASSUME TypeOK, HalfWritten, Next, ~Register, NEW d \in Clients, half[d] # NONE, half'[d] # NONE
    PROVE  UNCHANGED <<half[d], tpc[d], tidx[d], tmsg[d]>>
<1>1. tpc[d] = "write" /\ tidx[d] # MAX_CLIENTS /\ clients[tidx[d]] # -1
  BY LimitAssumption DEF HalfWritten, Writing, TypeOK
<1>2. CASE UNCHANGED <<half, tpc, tidx, tmsg>>
  BY <1>2
<1>3. ASSUME NEW c \in Clients,
             ThreadTop(c) \/ EnterRead(c) \/ GotSize(c) \/ ReadEnd(c) \/ CloseSocket(c) \/ ClearSlot(c)
             \/ ReadBody(c) \/ EndBroadcast(c)
      PROVE  UNCHANGED <<half[d], tpc[d], tidx[d], tmsg[d]>>
  <2>1. c # d
    BY <1>1, <1>3 DEF ThreadTop, EnterRead, GotSize, ReadEnd, CloseSocket, ClearSlot, ReadBody,
                      EndBroadcast
  <2>2. /\ \E place : tpc' = [tpc EXCEPT ![c] = place]
        /\ \E m : tmsg' = [tmsg EXCEPT ![c] = m]
        /\ UNCHANGED <<half, tidx>>
    <3>1. \E place : tpc' = [tpc EXCEPT ![c] = place]
      BY <1>3 DEF ThreadTop, EnterRead, GotSize, ReadEnd, CloseSocket, ClearSlot, ReadBody,
                  EndBroadcast, Goto
    <3>2. UNCHANGED <<half, tidx>>
      BY <1>3 DEF ThreadTop, EnterRead, GotSize, ReadEnd, CloseSocket, ClearSlot, ReadBody,
                  EndBroadcast, wire
    <3>3. tmsg' = tmsg \/ \E m : tmsg' = [tmsg EXCEPT ![c] = m]
      BY <1>3 DEF ThreadTop, EnterRead, GotSize, ReadEnd, CloseSocket, ClearSlot, ReadBody,
                  EndBroadcast
    <3>4. tmsg = [tmsg EXCEPT ![c] = tmsg[c]]
      BY DEF TypeOK
    <3> QED
      BY <3>1, <3>2, <3>3, <3>4
  <2> QED
    BY <2>1, <2>2 DEF TypeOK
<1>4. ASSUME NEW c \in Clients, StartBroadcast(c)
      PROVE  UNCHANGED <<half[d], tpc[d], tidx[d], tmsg[d]>>
  BY <1>1, <1>4 DEF StartBroadcast, Goto, TypeOK, wire
<1>5. ASSUME NEW c \in Clients, WriteNothing(c)
      PROVE  UNCHANGED <<half[d], tpc[d], tidx[d], tmsg[d]>>
  BY <1>1, <1>5 DEF WriteNothing, SlotWritten, TypeOK, wire
<1>6. ASSUME NEW c \in Clients, WriteSize(c)
      PROVE  UNCHANGED <<half[d], tpc[d], tidx[d], tmsg[d]>>
  BY <1>6 DEF WriteSize, TypeOK, threads
<1>7. ASSUME NEW c \in Clients, WriteBody(c)
      PROVE  UNCHANGED <<half[d], tpc[d], tidx[d], tmsg[d]>>
  <2>1. c # d
    BY <1>7 DEF WriteBody, TypeOK
  <2> QED
    BY <1>7, <2>1 DEF WriteBody, SlotWritten, TypeOK
<1> QED
  BY <1>2, <1>3, <1>4, <1>5, <1>6, <1>7
     DEF Next, Main, Thread, Client, MainTop, Accept, Examine, Refuse, Cleanup, MainExit,
         Sigint, Connect, Send, Leave, BrokenPipe, threads, wire

(* The number behind the slot goes to a newcomer, or to nobody. *)
LEMMA HalfKept ==
    ASSUME TypeOK, CountMatches, RoomLeft, MainHolds, OnePlace, WriterIsLast,
           AudiencesAccepted, MessagesSent, HalfWritten, Next
    PROVE  HalfWritten'
<1>1. CASE \A d \in Clients : half'[d] = NONE
  BY <1>1 DEF HalfWritten
<1>2. CASE Register \/ \E c \in Clients : ClearSlot(c) \/ StartBroadcast(c)
  <2>1. mutex = NONE /\ half' = half
    BY <1>2 DEF Register, ClearSlot, StartBroadcast, wire
  <2> QED
    BY <1>1, <2>1, NobodyWrites
<1>3. CASE ~Register /\ UNCHANGED <<clients, audience>>
  <2> SUFFICES ASSUME NEW d \in Clients, half'[d] # NONE
               PROVE  /\ Writing(d)'
                      /\ clients[tidx'[d]] # -1
                      /\ \/ Behind(tidx[d])' \in {half'[d], NONE}
                         \/ Behind(tidx[d])' \notin audience[tmsg'[d]]
    BY <1>3 DEF HalfWritten
  <2>1. CASE half[d] = NONE
    <3>1. WriteSize(d)
      <4>1. half' = half \/ \E c \in Clients : WriteSize(c) \/ WriteBody(c)
        BY DEF Next, Main, Thread, Client, MainTop, Accept, Examine, Refuse, Register, Cleanup,
               MainExit, Sigint, Connect, Send, Leave, ThreadTop, EnterRead, GotSize, ReadBody,
               ReadEnd, StartBroadcast, WriteNothing, BrokenPipe, EndBroadcast, CloseSocket,
               ClearSlot, wire
      <4>2. PICK c \in Clients : WriteSize(c) \/ WriteBody(c)
        BY <2>1, <4>1
      <4>3. c = d /\ ~WriteBody(c)
        BY <2>1, <4>2 DEF WriteSize, WriteBody, TypeOK
      <4> QED
        BY <4>2, <4>3
    <3>2. UNCHANGED <<table, tpc, tidx, tmsg>> /\ half'[d] = Behind(tidx[d])
      BY <3>1 DEF WriteSize, kernel, threads, TypeOK
    <3>3. Behind(tidx[d])' = Behind(tidx[d])
      BY <1>3, <3>2 DEF Behind
    <3> QED
      BY <1>3, <3>1, <3>2, <3>3 DEF WriteSize, Writing, Behind
  <2>2. CASE half[d] # NONE
    <3>1. half'[d] = half[d] /\ tpc'[d] = tpc[d] /\ tidx'[d] = tidx[d] /\ tmsg'[d] = tmsg[d]
      BY <1>3, <2>2, HalfStays
    <3>2. /\ Writing(d)
          /\ clients[tidx[d]] # -1
          /\ Behind(tidx[d]) \in {half[d], NONE} \/ Behind(tidx[d]) \notin audience[tmsg[d]]
      BY <2>2 DEF HalfWritten
    <3>3. tidx[d] \in Slots
      BY <3>2, LimitAssumption DEF Writing, Slots, TypeOK
    <3>4. PICK f \in Fds : f = clients[tidx[d]]
      BY <3>2, <3>3 DEF TypeOK
    <3>5. Behind(tidx[d]) = table[f] /\ Behind(tidx[d])' = table'[f]
      BY <1>3, <3>1, <3>2, <3>4 DEF Behind
    <3>6. table'[f] \in {table[f], NONE} \/ table'[f] \notin audience[tmsg[d]]
      <4>1. CASE Accept
        <5>1. PICK e \in Clients : e = Head(backlog)
          BY <4>1, HeadTailProperties DEF Accept, TypeOK
        <5>2. Waits(e)
          <6>1. backlog \in Seq(Clients) /\ backlog # <<>>
            BY <4>1 DEF Accept, TypeOK
          <6>2. 1 \in DOMAIN backlog /\ backlog[1] = e
            BY <5>1, <6>1, LenProperties, EmptySeq
          <6> QED
            BY <6>2 DEF Waits
        <5>3. tmsg[d] \in Message
          BY <3>2 DEF Writing, MessagesSent
        <5>4. e \notin audience[tmsg[d]]
          BY <5>2, <5>3 DEF AudiencesAccepted
        <5>5. table'[f] \in {table[f], e}
          BY <4>1, <5>1 DEF Accept, TypeOK
        <5> QED
          BY <5>4, <5>5
      <4>2. CASE ~Accept
        BY <4>2, TableMoves DEF Refuse, Cleanup, CloseSocket, TypeOK
      <4> QED
        BY <4>1, <4>2
    <3>7. Writing(d)'
      BY <3>1, <3>2 DEF Writing
    <3>8. clients[tidx'[d]] # -1
      BY <3>1, <3>2
    <3>9. Behind(tidx[d])' \in {half'[d], NONE} \/ Behind(tidx[d])' \notin audience[tmsg'[d]]
      BY <3>1, <3>2, <3>5, <3>6, Zenon
    <3> QED
      BY <3>7, <3>8, <3>9
  <2> QED
    BY <2>1, <2>2
<1> QED
  BY <1>2, <1>3, RoomMoves, WireMoves

(* A message that reaches the lock is a message, and what is torn is in the order. *)
LEMMA MessagesKept ==
    ASSUME TypeOK, SlotsAreOwned, DescriptorsHold, WriterIsLast, SendersInOrder,
           MessagesSent, Next
    PROVE  MessagesSent'
<1>1. ASSUME NEW d \in Clients, tpc'[d] \in {"lock", "write"}
      PROVE  tmsg'[d] \in Message
  <2>1. CASE UNCHANGED <<tpc, tmsg>>
    BY <1>1, <2>1 DEF MessagesSent
  <2>2. CASE Register
    BY <1>1, <2>2 DEF Register, MessagesSent, TypeOK
  <2>3. ASSUME NEW c \in Clients,
               ThreadTop(c) \/ EnterRead(c) \/ GotSize(c) \/ ReadEnd(c) \/ CloseSocket(c) \/ ClearSlot(c)
               \/ EndBroadcast(c) \/ StartBroadcast(c)
        PROVE  tmsg'[d] \in Message
    <3>1. /\ tmsg' = tmsg
          /\ \E place : /\ tpc' = [tpc EXCEPT ![c] = place]
                        /\ place \notin {"lock", "write"} \/ tpc[c] = "lock"
      BY <2>3 DEF ThreadTop, EnterRead, GotSize, ReadEnd, CloseSocket, ClearSlot, EndBroadcast,
                  StartBroadcast, Goto
    <3>2. tpc[d] \in {"lock", "write"}
      BY <1>1, <3>1 DEF TypeOK
    <3> QED
      BY <3>1, <3>2 DEF MessagesSent
  <2>4. ASSUME NEW c \in Clients, ReadBody(c)
        PROVE  tmsg'[d] \in Message
    <3>1. CASE d # c
      BY <1>1, <2>4, <3>1 DEF ReadBody, Goto, MessagesSent, TypeOK
    <3>2. CASE d = c
      <4>1. Behind(tslot[c]) # NONE
        BY <1>1, <2>4, <3>2 DEF ReadBody, Goto, TypeOK
      <4>2. Behind(tslot[c]) = c
        BY <2>4, <4>1, BehindOwn DEF ReadBody, Open
      <4>3. tmsg'[c] = <<c, sent[c] - unread[c] + 1>>
        BY <2>4, <4>1, <4>2 DEF ReadBody, TypeOK
      <4>4. /\ unread[c] > 0 /\ unread[c] \in Nat /\ sent[c] \in Nat
            /\ unread[c] <= sent[c] /\ sent[c] <= Quota[c] /\ Quota[c] \in Nat
        BY <2>4, LimitAssumption DEF ReadBody, SendersInOrder, TypeOK, Clients
      <4>5. sent[c] - unread[c] + 1 \in 1 .. Quota[c]
        BY <4>4
      <4>6. <<c, sent[c] - unread[c] + 1>> \in Message
        BY <4>5 DEF Message
      <4> QED
        BY <3>2, <4>3, <4>6
    <3> QED
      BY <3>1, <3>2
  <2> QED
    BY <2>1, <2>2, <2>3, <2>4
       DEF Next, Main, Thread, Client, MainTop, Accept, Examine, Refuse, Cleanup, MainExit,
           Sigint, Connect, Send, Leave, WriteNothing, WriteSize, WriteBody, BrokenPipe, threads
<1>2. order \in Seq(Clients \X Nat) /\ DOMAIN order = 1 .. Len(order) /\ Len(order) \in Nat
  BY LenProperties DEF TypeOK
<1>3. ASSUME NEW t \in torn'
      PROVE  \E i \in DOMAIN order : order[i] = t[2]
  <2>1. CASE t \in torn
    BY <2>1 DEF MessagesSent
  <2>2. ASSUME NEW c \in Clients, WriteBody(c), t \notin torn
        PROVE  \E i \in DOMAIN order : order[i] = t[2]
    <3>1. t[2] = tmsg[c]
      BY <1>3, <2>2 DEF WriteBody
    <3>2. order # <<>> /\ tmsg[c] = order[Len(order)]
      BY <2>2 DEF WriteBody, Writing, WriterIsLast
    <3>3. Len(order) \in DOMAIN order
      BY <1>2, <3>2, EmptySeq
    <3> QED
      BY <3>1, <3>2, <3>3
  <2> QED
    BY <1>3, <2>1, <2>2, WireMoves
<1>4. \A i \in DOMAIN order : i \in DOMAIN order' /\ order'[i] = order[i]
  <2>1. ASSUME NEW c \in Clients, order' = Append(order, tmsg[c])
        PROVE  \A i \in DOMAIN order : i \in DOMAIN order' /\ order'[i] = order[i]
    <3>1. tmsg[c] \in Clients \X Nat
      BY DEF TypeOK
    <3> QED
      BY <1>2, <2>1, <3>1, AppendProperties, LenProperties
  <2> QED
    BY <2>1, OrderMoves
<1>5. \A t \in torn' : \E i \in DOMAIN order' : order'[i] = t[2]
  BY <1>3, <1>4
<1> QED
  BY <1>1, <1>5 DEF MessagesSent

(* A body without its size goes to nobody who was there from the beginning. *)
LEMMA TearsKept ==
    ASSUME TypeOK, SendersInOrder, MessagesSent, HalfWritten, NewcomersTorn, Next
    PROVE  NewcomersTorn'
<1>1. ASSUME NEW c \in Clients, WriteBody(c)
      PROVE  NewcomersTorn'
  <2>1. audience' = audience
    BY <1>1 DEF WriteBody, history
  <2>2. ASSUME NEW t \in torn', t \notin torn
        PROVE  t[1] \notin audience[t[2]]
    <3>1. t = <<Behind(tidx[c]), tmsg[c]>> /\ Behind(tidx[c]) \notin {half[c], NONE}
      BY <1>1, <2>2 DEF WriteBody
    <3>2. half[c] # NONE
      BY <1>1 DEF WriteBody
    <3> QED
      BY <3>1, <3>2 DEF HalfWritten
  <2> QED
    BY <2>1, <2>2 DEF NewcomersTorn
<1>2. ASSUME NEW c \in Clients, StartBroadcast(c)
      PROVE  NewcomersTorn'
  <2>1. torn' = torn
    BY <1>2 DEF StartBroadcast, wire
  <2>2. ASSUME NEW t \in torn
        PROVE  audience'[t[2]] = audience[t[2]]
    <3>1. PICK i \in DOMAIN order : order[i] = t[2]
      BY <2>2 DEF MessagesSent
    <3>2. tmsg[c] = <<c, ReadOf(c)>>
      BY <1>2 DEF StartBroadcast, SendersInOrder
    <3>3. order[i][1] = c => order[i][2] < ReadOf(c)
      BY <1>2 DEF StartBroadcast, SendersInOrder
    <3>4. ReadOf(c) \in Int
      BY DEF ReadOf, TypeOK
    <3>5. t[2] # tmsg[c]
      BY <3>1, <3>2, <3>3, <3>4
    <3>6. t[2] \in Message
      BY <2>2 DEF TypeOK
    <3> QED
      BY <1>2, <3>5, <3>6 DEF StartBroadcast, TypeOK
  <2> QED
    BY <2>1, <2>2 DEF NewcomersTorn
<1>3. CASE UNCHANGED <<audience, torn>>
  BY <1>3 DEF NewcomersTorn
<1> QED
  BY <1>1, <1>2, <1>3, WireMoves

-----------------------------------------------------------------------------
LEMMA InitIInv == Init => IInv
<1> SUFFICES ASSUME Init PROVE IInv
  OBVIOUS
<1>1. TypeOK
  <2>1. 0 \in Slots /\ 0 \in 0 .. MAX_CLIENTS /\ \A c \in Clients : Quota[c] \in Nat
    BY LimitAssumption DEF Slots, Clients
  <2>2. /\ tmsg \in [Clients -> Clients \X Nat]
        /\ inbox \in [Clients -> Seq(Clients \X Nat)]
        /\ order \in Seq(Clients \X Nat) /\ backlog \in Seq(Clients)
        /\ half \in [Clients -> Clients \union {NONE}] /\ torn \subseteq Clients \X Message
        /\ audience \in [Message -> SUBSET Clients]
    BY DEF Init
  <2>3. \A c \in Clients : unread[c] <= sent[c] /\ sent[c] <= Quota[c]
    BY <2>1 DEF Init
  <2> QED
    BY <2>1, <2>2, <2>3 DEF Init, TypeOK
<1>2. CountMatches
  <2>1. Slots \ FreeSlots = {}
    BY DEF Init, FreeSlots
  <2> QED
    BY <2>1, FS_EmptySet DEF Init, CountMatches
<1>3. RoomLeft /\ MainHolds
  BY DEF Init, RoomLeft, MainHolds, HasConnection
<1>4. SlotsAreOwned /\ DescriptorsHold /\ WriterIsLast
  BY DEF Init, SlotsAreOwned, DescriptorsHold, WriterIsLast, Live, Open
<1>5. OnePlace
  BY DEF Init, OnePlace, Waits, Clients, NONE
<1>6. InboxesInOrder
  BY DEF Init, InboxesInOrder
<1>7. SendersInOrder /\ SenderOrder
  BY DEF Init, SendersInOrder, SenderOrder
<1>8. AudiencesAccepted /\ MessagesSent /\ HalfWritten /\ NewcomersTorn
  BY DEF Init, AudiencesAccepted, MessagesSent, HalfWritten, NewcomersTorn
<1> QED
  BY <1>1, <1>2, <1>3, <1>4, <1>5, <1>6, <1>7, <1>8 DEF IInv

LEMMA NextIInv == IInv /\ [Next]_vars => IInv'
<1> SUFFICES ASSUME IInv, [Next]_vars PROVE IInv'
  OBVIOUS
<1>1. CASE Next
  <2>1. TypeOK'
    BY <1>1, TypeKept DEF IInv
  <2>2. CountMatches' /\ RoomLeft'
    BY <1>1, CountKept DEF IInv
  <2>3. SlotsAreOwned' /\ MainHolds'
    BY <1>1, SlotsKept, MainKept DEF IInv
  <2>4. DescriptorsHold' /\ OnePlace'
    BY <1>1, DescriptorsKept, OnePlaceKept DEF IInv
  <2>5. WriterIsLast' /\ InboxesInOrder'
    BY <1>1, WriterKept, InboxesKept DEF IInv
  <2>6. SendersInOrder' /\ SenderOrder'
    BY <1>1, SendersKept DEF IInv
  <2>7. AudiencesAccepted' /\ MessagesSent'
    BY <1>1, AudiencesKept, MessagesKept DEF IInv
  <2>8. HalfWritten' /\ NewcomersTorn'
    BY <1>1, HalfKept, TearsKept DEF IInv
  <2> QED
    BY <2>1, <2>2, <2>3, <2>4, <2>5, <2>6, <2>7, <2>8 DEF IInv
<1>2. CASE UNCHANGED vars
  <2> USE <1>2 DEF vars, kernel, room, peers, main, threads, wire, history
  <2>1. TypeOK'
    BY DEF IInv, TypeOK
  <2>2. CountMatches' /\ RoomLeft'
    BY DEF IInv, CountMatches, FreeSlots, RoomLeft
  <2>3. SlotsAreOwned' /\ MainHolds'
    BY DEF IInv, SlotsAreOwned, MainHolds, HasConnection, Live
  <2>4. DescriptorsHold' /\ OnePlace'
    BY DEF IInv, DescriptorsHold, OnePlace, Open, Waits
  <2>5. WriterIsLast' /\ InboxesInOrder'
    BY DEF IInv, WriterIsLast, InboxesInOrder
  <2>6. SendersInOrder' /\ SenderOrder'
    BY DEF IInv, SendersInOrder, SenderOrder, ReadOf
  <2>7. AudiencesAccepted' /\ MessagesSent'
    BY DEF IInv, AudiencesAccepted, MessagesSent, Waits
  <2>8. HalfWritten' /\ NewcomersTorn'
    BY DEF IInv, HalfWritten, NewcomersTorn, Writing, Behind
  <2> QED
    BY <2>1, <2>2, <2>3, <2>4, <2>5, <2>6, <2>7, <2>8 DEF IInv
<1> QED
  BY <1>1, <1>2

(* Every state the server reaches satisfies the inductive invariant. *)
THEOREM Invariance == Spec => []IInv
BY InitIInv, NextIInv, PTL DEF Spec

(* The variables keep their types: no counter, slot or message of the server *)
(* leaves its range, and no client reads more than was sent.               *)
THEOREM TypeCorrect == Spec => []TypeOK
<1>1. IInv => TypeOK
  BY DEF IInv
<1> QED
  BY <1>1, Invariance, PTL

(* clientsCount is the number of slots in use although it is tested without *)
(* the mutex, and main never finds the table full (run_server).            *)
THEOREM TableSound == Spec => []TableIsSound
<1>1. IInv => TableIsSound
  BY SlotFound DEF IInv, TableIsSound, SlotAlwaysFound
<1> QED
  BY <1>1, Invariance, PTL

(* All clients see the broadcasts of write_to_clients in one order, and    *)
(* process_client broadcasts the messages of its own client, once each and *)
(* in their order, although close frees a descriptor before the slot; a    *)
(* body without its size goes to a newcomer only.                          *)
THEOREM OrderSound == Spec => []BroadcastOrder
<1>1. ASSUME IInv PROVE OneOrder
  <2> SUFFICES ASSUME NEW c \in Clients, NEW m \in Message, NEW n \in Message, m # n,
                      Before(inbox[c], m, n)
               PROVE  Before(order, m, n)
    BY DEF OneOrder
  <2>1. PICK i, j \in DOMAIN inbox[c] : i < j /\ inbox[c][i] = m /\ inbox[c][j] = n
    BY DEF Before
  <2>2. i \in Int /\ j \in Int /\ DOMAIN order \subseteq Int
    <3>1. inbox[c] \in Seq(Clients \X Nat) /\ order \in Seq(Clients \X Nat)
      BY <1>1 DEF IInv, TypeOK
    <3> QED
      BY <3>1, LenProperties
  <2>3. PICK p, q \in DOMAIN order : p <= q /\ order[p] = m /\ order[q] = n
    BY <1>1, <2>1, <2>2 DEF IInv, InboxesInOrder
  <2> QED
    BY <2>2, <2>3 DEF Before
<1>2. IInv => BroadcastOrder
  BY <1>1 DEF IInv, BroadcastOrder
<1> QED
  BY <1>2, Invariance, PTL

=============================================================================

--------------------------- MODULE ProgramProofs ---------------------------
(***************************************************************************)
(* Proofs about the smaller programs: semamores, for any threads, calls    *)
(* and limits; the resolver of rpc, for any hosts, caches and clients; the *)
(* chat client, for any lines and messages; the nonstop client, for any    *)
(* command lines, answers, files and buffer; par_reduce and rendezvous,    *)
(* for any list and number of threads; the rounds of cracker2, for any     *)
(* number of workers and any tasks; the scheduler, for any jobs and        *)
(* scheme; and the editor's search, for any document.                      *)
(***************************************************************************)
EXTENDS Semamore, Resolver, ChatClient, NonstopClient, ThreadLabs, Crackers, Scheduler,
        Editor, TLAPS, SequenceTheorems, FiniteSetTheorems

-----------------------------------------------------------------------------
(* Resolver. *)
Misses(c) == asks[c] \notin DOMAIN ClientCache

(* An answer to client c that is right, or a failure that has a reason. *)
Truth(c, known, address) ==
    IF known THEN address = Right(asks[c])
    ELSE Right(asks[c]) = NoAddress \/ fds = MaxFds

(* The call the server works on. *)
ServerHolds ==
    /\ svStep \in {"idle", "waiting", "respond"}
    /\ svStep = "idle" => serving = {}
    /\ svStep # "idle" => \E c \in Resolvers : serving = {c}
    /\ svStep # "waiting" => question = {} /\ verdict = {}
    /\ verdict # {} => question = {}
    /\ \A c \in serving : Misses(c)
    /\ svStep = "waiting" =>
          \A c \in serving :
             /\ asks[c] \notin DOMAIN ServerCache
             /\ question \subseteq {asks[c]}
             /\ verdict \subseteq {IF asks[c] \in DOMAIN Zone THEN Zone[asks[c]] ELSE Unknown}
    /\ svStep = "respond" =>
          \A c \in serving : Truth(c, ipv4_address # NoAddress, ipv4_address)

ResolverInv ==
    /\ rsStep = [c \in Resolvers |-> rsStep[c]]
    /\ rsSays = [c \in Resolvers |-> rsSays[c]]
    /\ calls \subseteq Resolvers
    /\ \A c \in Resolvers : rsStep[c] = "call" \/ c \in calls => Misses(c)
    /\ \A r \in replies : r[1] \in Resolvers /\ r[2] \in BOOLEAN /\ Truth(r[1], r[2], r[3])
    /\ ServerHolds
    /\ ResolverIsRight

LEMMA RightIs ==
    ASSUME NEW h
    PROVE  /\ h \in DOMAIN ClientCache =>
                 Right(h) = ClientCache[h] /\ Lookup(ClientCache, h) = ClientCache[h]
           /\ h \notin DOMAIN ClientCache => Lookup(ClientCache, h) = NoAddress
           /\ h \in DOMAIN ServerCache => Lookup(ServerCache, h) = ServerCache[h]
           /\ h \notin DOMAIN ServerCache => Lookup(ServerCache, h) = NoAddress
           /\ h \notin DOMAIN ClientCache /\ h \in DOMAIN ServerCache => Right(h) = ServerCache[h]
           /\ h \notin DOMAIN ClientCache /\ h \notin DOMAIN ServerCache =>
                 Right(h) = IF h \in DOMAIN Zone THEN Zone[h] ELSE NoAddress
           /\ Right(h) # "failed"
<1>1. /\ h \in DOMAIN ClientCache => ClientCache[h] \notin {NoAddress, Unknown, "failed"}
      /\ h \in DOMAIN ServerCache => ServerCache[h] \notin {NoAddress, Unknown, "failed"}
      /\ h \in DOMAIN Zone => Zone[h] \notin {NoAddress, Unknown, "failed"}
  BY ResolverAssumption
<1>2. CASE h \in DOMAIN ClientCache
  BY <1>1, <1>2 DEF Right, Lookup
<1>3. CASE h \notin DOMAIN ClientCache /\ h \in DOMAIN ServerCache
  BY <1>1, <1>3 DEF Right, Lookup
<1>4. CASE h \notin DOMAIN ClientCache /\ h \notin DOMAIN ServerCache /\ h \in DOMAIN Zone
  BY <1>1, <1>4 DEF Right, Lookup
<1>5. CASE h \notin DOMAIN ClientCache /\ h \notin DOMAIN ServerCache /\ h \notin DOMAIN Zone
  BY <1>5 DEF Right, Lookup, NoAddress
<1> QED
  BY <1>2, <1>3, <1>4, <1>5

LEMMA AddressIsAddress ==
    /\ \A h \in DOMAIN ClientCache : ClientCache[h] # NoAddress
    /\ \A h \in DOMAIN ServerCache : ServerCache[h] # NoAddress
    /\ \A h \in DOMAIN Zone : Zone[h] # Unknown
BY ResolverAssumption

LEMMA ResolverStarts == ResolverInit => ResolverInv
<1> SUFFICES ASSUME ResolverInit PROVE ResolverInv
  OBVIOUS
<1>1. /\ rsStep = [c \in Resolvers |-> rsStep[c]] /\ rsSays = [c \in Resolvers |-> rsSays[c]]
      /\ \A c \in Resolvers : rsStep[c] = "cache" /\ rsSays[c] = NoAddress
  BY DEF ResolverInit
<1>2. ServerHolds
  BY DEF ResolverInit, ServerHolds
<1>3. ResolverIsRight
  BY <1>1 DEF ResolverIsRight, NoAddress
<1> QED
  BY <1>1, <1>2, <1>3 DEF ResolverInv, ResolverInit

(* A client that ends says the truth; the server and the network stay. *)
LEMMA EndKeeps ==
    ASSUME ResolverInv, NEW c \in Resolvers, NEW says, End(c, says), UNCHANGED server,
           UNCHANGED calls, replies' \subseteq replies,
           says \notin {NoAddress, "failed"} => says = Right(asks[c]),
           says = "failed" => Right(asks[c]) = NoAddress \/ fds = MaxFds
    PROVE  ResolverInv'
<1>1. /\ rsStep' = [d \in Resolvers |-> rsStep'[d]] /\ rsSays' = [d \in Resolvers |-> rsSays'[d]]
      /\ rsStep'[c] = "over" /\ rsSays'[c] = says
      /\ \A d \in Resolvers \ {c} : rsStep'[d] = rsStep[d] /\ rsSays'[d] = rsSays[d]
  BY DEF ResolverInv, End
<1>2. fds' = fds /\ calls' = calls
  BY DEF server
<1>3. ServerHolds'
  BY DEF ResolverInv, ServerHolds, server, Truth
<1>4. ResolverIsRight'
  BY <1>1, <1>2 DEF ResolverInv, ResolverIsRight
<1>5. \A d \in Resolvers : rsStep'[d] = "call" \/ d \in calls' => Misses(d)
  BY <1>1, <1>2 DEF ResolverInv
<1>6. \A r \in replies' : r[1] \in Resolvers /\ r[2] \in BOOLEAN /\ Truth(r[1], r[2], r[3])'
  BY <1>2 DEF ResolverInv, Truth
<1> QED
  BY <1>1, <1>2, <1>3, <1>4, <1>5, <1>6 DEF ResolverInv, Misses

(* The server takes a step on a call; what the clients know stays true as  *)
(* sockets are never closed.                                               *)
LEMMA ServerKeeps ==
    ASSUME ResolverInv, UNCHANGED <<rsStep, rsSays>>, calls' \subseteq calls,
           fds = MaxFds => fds' = MaxFds, ServerHolds',
           \A r \in replies' \ replies :
               r[1] \in Resolvers /\ r[2] \in BOOLEAN /\ Truth(r[1], r[2], r[3])
    PROVE  ResolverInv'
<1>1. \A r \in replies' : r[1] \in Resolvers /\ r[2] \in BOOLEAN /\ Truth(r[1], r[2], r[3])
  BY DEF ResolverInv
<1>2. \A r \in replies' : r[1] \in Resolvers /\ r[2] \in BOOLEAN /\ Truth(r[1], r[2], r[3])'
  BY <1>1 DEF Truth
<1>3. ResolverIsRight'
  BY DEF ResolverInv, ResolverIsRight
<1> QED
  BY <1>2, <1>3 DEF ResolverInv, Misses

LEMMA ResolverKeeps == ResolverInv /\ [ResolverSteps \/ NameServer]_rsVars => ResolverInv'
<1> SUFFICES ASSUME ResolverInv, [ResolverSteps \/ NameServer]_rsVars PROVE ResolverInv'
  OBVIOUS
<1>1. CASE UNCHANGED rsVars
  BY <1>1 DEF ResolverInv, ServerHolds, ResolverIsRight, Truth, Misses, rsVars
<1>2. ASSUME NEW c \in Resolvers, resolve_hostname(c) PROVE ResolverInv'
  <2>1. CASE Lookup(ClientCache, asks[c]) # NoAddress /\ End(c, Lookup(ClientCache, asks[c]))
    <3>1. Lookup(ClientCache, asks[c]) = Right(asks[c]) /\ Right(asks[c]) # "failed"
      BY <2>1, RightIs
    <3>2. UNCHANGED server /\ UNCHANGED calls /\ replies' \subseteq replies
      BY <1>2 DEF resolve_hostname
    <3> QED
      BY <2>1, <3>1, <3>2, EndKeeps
  <2>2. CASE /\ Lookup(ClientCache, asks[c]) = NoAddress
             /\ rsStep' = [rsStep EXCEPT ![c] = "call"] /\ UNCHANGED rsSays
    <3>1. Misses(c)
      BY <2>2, RightIs, AddressIsAddress DEF Misses
    <3>2. /\ rsStep' = [d \in Resolvers |-> rsStep'[d]]
          /\ \A d \in Resolvers \ {c} : rsStep'[d] = rsStep[d]
      BY <2>2 DEF ResolverInv
    <3>3. UNCHANGED <<calls, replies, server, rsSays>>
      BY <1>2, <2>2 DEF resolve_hostname
    <3> QED
      BY <3>1, <3>2, <3>3 DEF ResolverInv, ServerHolds, ResolverIsRight, Truth, Misses, server
  <2>3. CASE End(c, NoAddress)
    <3>1. UNCHANGED server /\ UNCHANGED calls /\ replies' \subseteq replies /\ NoAddress # "failed"
      BY <1>2 DEF resolve_hostname, NoAddress
    <3> QED
      BY <2>3, <3>1, EndKeeps
  <2> QED
    BY <1>2, <2>1, <2>2, <2>3 DEF resolve_hostname
<1>3. ASSUME NEW c \in Resolvers, SendCall(c) PROVE ResolverInv'
  <2>1. /\ rsStep[c] = "call" /\ calls' \subseteq calls \union {c}
        /\ UNCHANGED <<rsStep, rsSays, replies, server>>
    BY <1>3 DEF SendCall
  <2>2. Misses(c)
    BY <2>1 DEF ResolverInv
  <2> QED
    BY <2>1, <2>2 DEF ResolverInv, ServerHolds, ResolverIsRight, Truth, Misses, server
<1>4. ASSUME NEW c \in Resolvers, TimeOut(c) PROVE ResolverInv'
  <2>1. /\ UNCHANGED server /\ UNCHANGED calls /\ replies' \subseteq replies /\ NoAddress # "failed"
        /\ End(c, NoAddress)
    BY <1>4 DEF TimeOut, NoAddress
  <2> QED
    BY <2>1, EndKeeps
<1>5. ASSUME NEW c \in Resolvers, send_query(c) PROVE ResolverInv'
  <2>1. PICK r \in replies : r[1] = c /\ replies' = replies \ {r}
                             /\ End(c, IF r[2] THEN r[3] ELSE "failed")
    BY <1>5 DEF send_query
  <2>2. PICK says : says = IF r[2] THEN r[3] ELSE "failed"
    OBVIOUS
  <2>3. r[2] \in BOOLEAN /\ Truth(c, r[2], r[3])
    BY <2>1 DEF ResolverInv
  <2>4. /\ says \notin {NoAddress, "failed"} => says = Right(asks[c])
        /\ says = "failed" => Right(asks[c]) = NoAddress \/ fds = MaxFds
    BY <2>2, <2>3, RightIs DEF Truth
  <2>5. UNCHANGED server /\ UNCHANGED calls /\ replies' \subseteq replies /\ End(c, says)
    BY <1>5, <2>1, <2>2 DEF send_query
  <2> QED
    BY <2>4, <2>5, EndKeeps
<1>6. ASSUME NEW c \in Resolvers, dns_query_1_svc(c) PROVE ResolverInv'
  <2>1. /\ svStep = "idle" /\ c \in calls /\ calls' \subseteq calls /\ serving' = {c}
        /\ ipv4_address' = Lookup(ServerCache, asks[c]) /\ verdict' = {}
        /\ UNCHANGED <<rsStep, rsSays, replies>>
    BY <1>6 DEF dns_query_1_svc
  <2>2. Misses(c) /\ question = {}
    BY <2>1 DEF ResolverInv, ServerHolds
  <2>3. CASE ipv4_address' # NoAddress
    <3>1. svStep' = "respond" /\ fds' = fds /\ question' = question
      BY <1>6, <2>3 DEF dns_query_1_svc
    <3>2. ipv4_address' = Right(asks[c])
      BY <2>1, <2>2, <2>3, RightIs DEF Misses
    <3>3. ServerHolds'
      BY <2>1, <2>2, <2>3, <3>1, <3>2 DEF ServerHolds, Truth, Misses
    <3> QED
      BY <2>1, <3>1, <3>3, ServerKeeps
  <2>4. CASE ipv4_address' = NoAddress
    <3>1. asks[c] \notin DOMAIN ServerCache
      BY <2>1, <2>4, RightIs, AddressIsAddress, ZenonT(60)
    <3>2. CASE fds < MaxFds /\ question' \in {{asks[c]}, {}} /\ svStep' = "waiting"
      <4>1. ServerHolds'
        BY <2>1, <2>2, <3>1, <3>2 DEF ServerHolds, Misses
      <4>2. fds # MaxFds
        BY <3>2, ResolverAssumption
      <4> QED
        BY <2>1, <4>1, <4>2, ServerKeeps
    <3>3. CASE fds = MaxFds /\ svStep' = "respond" /\ UNCHANGED <<fds, question>>
      <4>1. ServerHolds'
        BY <2>1, <2>2, <2>4, <3>3 DEF ServerHolds, Misses, Truth
      <4> QED
        BY <2>1, <3>3, <4>1, ServerKeeps
    <3> QED
      BY <1>6, <2>4, <3>2, <3>3 DEF dns_query_1_svc, AskNameServer
  <2> QED
    BY <2>3, <2>4
<1>7. CASE NameServer
  <2>1. /\ \E h \in question :
             verdict' \in {{IF h \in DOMAIN Zone THEN Zone[h] ELSE Unknown}, {}}
        /\ question' = {}
        /\ UNCHANGED <<rsStep, rsSays, calls, replies, serving, svStep, ipv4_address, fds>>
    BY <1>7 DEF NameServer
  <2>2. ServerHolds'
    BY <2>1 DEF ResolverInv, ServerHolds, Truth, Misses
  <2> QED
    BY <2>1, <2>2, ServerKeeps
<1>8. CASE contact_nameserver
  <2>1. PICK v \in verdict : ipv4_address' = IF v = Unknown THEN NoAddress ELSE v
    BY <1>8 DEF contact_nameserver
  <2>2. /\ svStep = "waiting" /\ verdict' = {} /\ svStep' = "respond"
        /\ UNCHANGED <<rsStep, rsSays, calls, replies, serving, question, fds>>
    BY <1>8 DEF contact_nameserver
  <2>3. PICK c \in Resolvers : serving = {c}
    BY <2>2 DEF ResolverInv, ServerHolds
  <2>4. /\ Misses(c) /\ asks[c] \notin DOMAIN ServerCache
        /\ v = IF asks[c] \in DOMAIN Zone THEN Zone[asks[c]] ELSE Unknown
        /\ question = {}
    BY <2>1, <2>2, <2>3 DEF ResolverInv, ServerHolds
  <2>5. ipv4_address' = Right(asks[c])
    BY <2>1, <2>4, RightIs, AddressIsAddress DEF Misses
  <2>6. Truth(c, ipv4_address # NoAddress, ipv4_address)'
    BY <2>5 DEF Truth
  <2>7. ServerHolds'
    BY <2>2, <2>3, <2>4, <2>6 DEF ServerHolds, Misses
  <2> QED
    BY <2>2, <2>7, ServerKeeps
<1>9. CASE Respond
  <2>1. PICK c \in serving : replies' \in {replies, replies \union {<<c, res'[1], res'[2]>>}}
    BY <1>9 DEF Respond
  <2>2. /\ svStep = "respond" /\ serving' = {} /\ svStep' = "idle"
        /\ UNCHANGED <<rsStep, rsSays, calls, ipv4_address, question, verdict, fds>>
        /\ res' = <<ipv4_address # NoAddress, ipv4_address>>
    BY <1>9 DEF Respond, create_response
  <2>3. Truth(c, ipv4_address # NoAddress, ipv4_address) /\ c \in Resolvers
    BY <2>1, <2>2 DEF ResolverInv, ServerHolds
  <2>4. PICK r : r = <<c, ipv4_address # NoAddress, ipv4_address>>
    OBVIOUS
  <2>5. r[1] = c /\ r[2] = (ipv4_address # NoAddress) /\ r[3] = ipv4_address
    BY <2>4
  <2>6. replies' \subseteq replies \union {r}
    BY <2>1, <2>2, <2>4
  <2>7. ServerHolds'
    BY <2>2 DEF ResolverInv, ServerHolds
  <2>8. \A s \in replies' \ replies :
            s[1] \in Resolvers /\ s[2] \in BOOLEAN /\ Truth(s[1], s[2], s[3])
    BY <2>3, <2>5, <2>6
  <2> QED
    BY <2>2, <2>7, <2>8, ServerKeeps
<1> QED
  BY <1>1, <1>2, <1>3, <1>4, <1>5, <1>6, <1>7, <1>8, <1>9 DEF ResolverSteps

(* However calls, replies and questions are lost, delayed or repeated, a   *)
(* client of resolve_hostname is told the address of its own host, and of  *)
(* a failure only with a reason.                                           *)
THEOREM ResolverTruthful == ResolverSpec => []ResolverIsRight
<1>1. ResolverInit => ResolverInv
  BY ResolverStarts
<1>2. ResolverInv /\ [ResolverSteps \/ NameServer]_rsVars => ResolverInv'
  BY ResolverKeeps
<1>3. ResolverInv => ResolverIsRight
  BY DEF ResolverInv
<1> QED
  BY <1>1, <1>2, <1>3, PTL DEF ResolverSpec

-----------------------------------------------------------------------------
(* ChatClient. *)
Frame(i) == <<IF i % 2 = 1 THEN "size" ELSE "message", create_message(TypedLines[(i + 1) \div 2])>>
FramesTo(k) == [i \in 1..k |-> Frame(i)]
Taken(s, k) == [i \in 1..k |-> s[i]]
Behind(s, n) == [i \in 1..Len(s) - n |-> s[i + n]]

(* The writer has taken n lines and sent them all, but for the line it     *)
(* holds: none of its frames, or the size.                                 *)
WriterHas(n) ==
    /\ n \in 0..Len(TypedLines)
    /\ typed = Behind(TypedLines, n)
    /\ \/ writerAt \in {"none", "prompt"} /\ wire = FramesTo(2 * n)
       \/ /\ writerAt \in {"line", "write size"} /\ n > 0
          /\ wire = FramesTo(2 * n - 2) /\ held["writer"] = create_message(TypedLines[n])
       \/ /\ writerAt = "write message" /\ n > 0
          /\ wire = FramesTo(2 * n - 1) /\ held["writer"] = create_message(TypedLines[n])
       \/ writerAt = "over" /\ \E k \in 0..2 * n : wire = FramesTo(k)

(* The reader has taken m messages and shown them all, but for the one it  *)
(* holds.                                                                  *)
ReaderHas(m) ==
    /\ m \in 0..Len(ServerPosts)
    /\ posted = Behind(ServerPosts, m)
    /\ \/ readerAt \in {"none", "size"} /\ screen = Taken(ServerPosts, m)
       \/ readerAt = "body" /\ m < Len(ServerPosts) /\ screen = Taken(ServerPosts, m)
       \/ /\ readerAt = "show" /\ m > 0
          /\ screen = Taken(ServerPosts, m - 1) /\ held["reader"] = ServerPosts[m]
       \/ readerAt = "over" /\ \E k \in 0..m : screen = Taken(ServerPosts, k)

ChatClientInv ==
    /\ mainAt \in {"connect", "create"} => writerAt = "none" /\ readerAt = "none"
    /\ held = [thread \in {"writer", "reader"} |-> held[thread]]
    /\ \E n \in 0..Len(TypedLines) : WriterHas(n)
    /\ \E m \in 0..Len(ServerPosts) : ReaderHas(m)

(* The frames of line n are the next two. *)
LEMMA FramesGrow ==
    ASSUME NEW n \in Nat, n > 0
    PROVE  /\ Append(FramesTo(2 * n - 2), <<"size", create_message(TypedLines[n])>>) = FramesTo(2 * n - 1)
           /\ Append(FramesTo(2 * n - 1), <<"message", create_message(TypedLines[n])>>) = FramesTo(2 * n)
<1>1. (2 * n - 1) % 2 = 1 /\ ((2 * n - 1) + 1) \div 2 = n
  OBVIOUS
<1>2. (2 * n) % 2 = 0 /\ (2 * n + 1) \div 2 = n
  OBVIOUS
<1>3. ASSUME NEW k \in Nat, NEW e, e = Frame(k + 1)
      PROVE  Append(FramesTo(k), e) = FramesTo(k + 1)
  <2>1. PICK F : F = [i \in 1..k + 1 |-> Frame(i)]
    OBVIOUS
  <2>2. FramesTo(k) = [i \in 1..k |-> F[i]] /\ FramesTo(k + 1) = F /\ F[k + 1] = e
    BY <1>3, <2>1 DEF FramesTo
  <2>3. Append([i \in 1..k |-> F[i]], e) = [i \in 1..k + 1 |-> F[i]]
    BY <2>2
  <2> QED
    BY <2>1, <2>2, <2>3
<1>4. Frame(2 * n - 1) = <<"size", create_message(TypedLines[n])>>
  BY <1>1 DEF Frame
<1>5. Frame(2 * n) = <<"message", create_message(TypedLines[n])>>
  BY <1>2 DEF Frame
<1>6. (2 * n - 2) + 1 = 2 * n - 1 /\ (2 * n - 1) + 1 = 2 * n /\ 2 * n - 2 \in Nat /\ 2 * n - 1 \in Nat
  OBVIOUS
<1> QED
  BY <1>3, <1>4, <1>5, <1>6

LEMMA RestShrinks ==
    ASSUME NEW T, NEW s \in Seq(T), NEW n \in 0..Len(s)
    PROVE  /\ Behind(s, n) = <<>> <=> n = Len(s)
           /\ n < Len(s) => Head(Behind(s, n)) = s[n + 1] /\ Tail(Behind(s, n)) = Behind(s, n + 1)
<1>1. Len(s) \in Nat /\ Behind(s, n) \in Seq(T) /\ Len(Behind(s, n)) = Len(s) - n
  BY DEF Behind
<1>2. \A i \in 1..Len(s) - n : Behind(s, n)[i] = s[i + n]
  BY DEF Behind
<1>3. Behind(s, n) = <<>> <=> n = Len(s)
  BY <1>1
<1>4. ASSUME n < Len(s) PROVE Head(Behind(s, n)) = s[n + 1]
  BY <1>1, <1>2, <1>4
<1>5. ASSUME n < Len(s) PROVE Tail(Behind(s, n)) = Behind(s, n + 1)
  <2>1. Behind(s, n) # <<>>
    BY <1>1, <1>3, <1>5
  <2>2. /\ Tail(Behind(s, n)) \in Seq(T) /\ Len(Tail(Behind(s, n))) = Len(s) - (n + 1)
        /\ \A i \in 1..Len(Tail(Behind(s, n))) : Tail(Behind(s, n))[i] = Behind(s, n)[i + 1]
    BY <1>1, <2>1, HeadTailProperties
  <2>3. \A i \in 1..Len(s) - (n + 1) : Tail(Behind(s, n))[i] = Behind(s, n + 1)[i]
    <3> SUFFICES ASSUME NEW i \in 1..Len(s) - (n + 1)
                 PROVE  Tail(Behind(s, n))[i] = Behind(s, n + 1)[i]
      OBVIOUS
    <3>1. i + 1 \in 1..Len(s) - n /\ (i + 1) + n = i + (n + 1)
      BY <1>1
    <3>2. Tail(Behind(s, n))[i] = s[i + (n + 1)]
      BY <1>2, <2>2, <3>1
    <3>3. Behind(s, n + 1)[i] = s[i + (n + 1)]
      BY DEF Behind
    <3> QED
      BY <3>2, <3>3
  <2>4. Behind(s, n + 1) \in Seq(T) /\ Len(Behind(s, n + 1)) = Len(s) - (n + 1)
    BY <1>1, <1>5 DEF Behind
  <2> QED
    BY <2>2, <2>3, <2>4, SeqEqual
<1> QED
  BY <1>3, <1>4, <1>5

LEMMA TakenGrows ==
    ASSUME NEW s, NEW m \in Nat, m > 0
    PROVE  Append(Taken(s, m - 1), s[m]) = Taken(s, m)
BY DEF Taken

LEMMA ChatClientStarts == ChatClientInit => ChatClientInv
<1> SUFFICES ASSUME ChatClientInit PROVE ChatClientInv
  OBVIOUS
<1>1. /\ Len(TypedLines) \in Nat /\ TypedLines = [i \in 1..Len(TypedLines) |-> TypedLines[i]]
      /\ Len(ServerPosts) \in Nat /\ ServerPosts = [i \in 1..Len(ServerPosts) |-> ServerPosts[i]]
  BY ChatClientAssumption
<1>2. Behind(TypedLines, 0) = TypedLines /\ Behind(ServerPosts, 0) = ServerPosts
  BY <1>1 DEF Behind
<1>3. FramesTo(2 * 0) = <<>> /\ Taken(ServerPosts, 0) = <<>>
  BY DEF FramesTo, Taken
<1>4. WriterHas(0)
  BY <1>1, <1>2, <1>3 DEF WriterHas, ChatClientInit
<1>5. ReaderHas(0)
  BY <1>1, <1>2, <1>3 DEF ReaderHas, ChatClientInit
<1> QED
  BY <1>1, <1>4, <1>5 DEF ChatClientInv, ChatClientInit

(* A step of main, the handler or the server leaves both threads alone. *)
LEMMA ThreadsKept ==
    ASSUME ChatClientInv, UNCHANGED <<writerAt, readerAt, typed, posted, wire, screen, held>>,
           mainAt' \in {"connect", "create"} => mainAt \in {"connect", "create"}
    PROVE  ChatClientInv'
BY DEF ChatClientInv, WriterHas, ReaderHas

(* A step of the writer. *)
LEMMA WriterMoves ==
    ASSUME ChatClientInv, UNCHANGED <<mainAt, readerAt, posted, screen>>, writerAt # "none",
           held' = held \/ \E h : held' = [held EXCEPT !["writer"] = h],
           \E n \in 0..Len(TypedLines) : WriterHas(n)'
    PROVE  ChatClientInv'
<1>1. held' = [thread \in {"writer", "reader"} |-> held'[thread]] /\ held'["reader"] = held["reader"]
  BY DEF ChatClientInv
<1>2. \E m \in 0..Len(ServerPosts) : ReaderHas(m)'
  BY <1>1 DEF ChatClientInv, ReaderHas
<1> QED
  BY <1>1, <1>2 DEF ChatClientInv

LEMMA ReaderMoves ==
    ASSUME ChatClientInv, UNCHANGED <<mainAt, writerAt, typed, wire>>, readerAt # "none",
           held' = held \/ \E h : held' = [held EXCEPT !["reader"] = h],
           \E m \in 0..Len(ServerPosts) : ReaderHas(m)'
    PROVE  ChatClientInv'
<1>1. held' = [thread \in {"writer", "reader"} |-> held'[thread]] /\ held'["writer"] = held["writer"]
  BY DEF ChatClientInv
<1>2. \E n \in 0..Len(TypedLines) : WriterHas(n)'
  BY <1>1 DEF ChatClientInv, WriterHas
<1> QED
  BY <1>1, <1>2 DEF ChatClientInv

LEMMA WriterSent ==
    ASSUME NEW n \in 0..Len(TypedLines), WriterHas(n)
    PROVE  \E k \in 0..2 * n : wire = FramesTo(k)
<1>1. n \in Nat
  BY ChatClientAssumption
<1>2. 2 * n \in 0..2 * n /\ (n > 0 => 2 * n - 2 \in 0..2 * n /\ 2 * n - 1 \in 0..2 * n)
  BY <1>1
<1> QED
  BY <1>2 DEF WriterHas

LEMMA ChatClientKeeps ==
    ChatClientInv /\ [ChatClientSteps \/ ChatClientWorld]_ccVars => ChatClientInv'
<1> SUFFICES ASSUME ChatClientInv, [ChatClientSteps \/ ChatClientWorld]_ccVars PROVE ChatClientInv'
  OBVIOUS
<1>1. PICK n \in 0..Len(TypedLines) : WriterHas(n)
  BY DEF ChatClientInv
<1>2. PICK m \in 0..Len(ServerPosts) : ReaderHas(m)
  BY DEF ChatClientInv
<1>3. Len(TypedLines) \in Nat /\ Len(ServerPosts) \in Nat /\ n \in Nat /\ m \in Nat
  BY ChatClientAssumption
<1>4. CASE UNCHANGED ccVars
  BY <1>4, ThreadsKept DEF ccVars
<1>5. CASE \/ connect_to_server \/ JoinWriter \/ JoinReader \/ Sigint \/ CancelReader
           \/ close_chat \/ close_server_connection \/ ServerCloses
  <2>1. /\ UNCHANGED <<writerAt, readerAt, typed, posted, wire, screen, held>>
        /\ mainAt' \in {"connect", "create"} => mainAt \in {"connect", "create"}
    BY <1>5 DEF connect_to_server, JoinWriter, JoinReader, Sigint, CancelReader, close_chat,
                close_server_connection, ServerCloses
  <2> QED
    BY <2>1, ThreadsKept
<1>6. CASE CreateThreads
  <2>1. /\ mainAt = "create" /\ mainAt' = "join" /\ writerAt' = "prompt" /\ readerAt' = "size"
        /\ UNCHANGED <<typed, posted, wire, screen, held>>
    BY <1>6 DEF CreateThreads
  <2>2. writerAt = "none" /\ readerAt = "none"
    BY <2>1 DEF ChatClientInv
  <2>3. WriterHas(n)' /\ ReaderHas(m)'
    BY <1>1, <1>2, <2>1, <2>2 DEF WriterHas, ReaderHas
  <2> QED
    BY <2>1, <2>3 DEF ChatClientInv
<1>7. CASE CancelWriter
  <2>1. /\ writerAt \in {"prompt", "write size", "write message"} /\ writerAt' = "over"
        /\ held' = [held EXCEPT !["writer"] = <<>>]
        /\ UNCHANGED <<mainAt, readerAt, typed, posted, wire, screen>>
    BY <1>7 DEF CancelWriter, Cancel
  <2>2. \E k \in 0..2 * n : wire = FramesTo(k)
    BY <1>1, WriterSent
  <2>3. WriterHas(n)'
    BY <1>1, <2>1, <2>2 DEF WriterHas
  <2> QED
    BY <2>1, <2>3, WriterMoves
<1>8. CASE CancelReaderThread
  <2>1. /\ readerAt \in {"size", "body", "show"} /\ readerAt' = "over"
        /\ held' = [held EXCEPT !["reader"] = <<>>]
        /\ UNCHANGED <<mainAt, writerAt, typed, posted, wire, screen>>
    BY <1>8 DEF CancelReaderThread, Cancel
  <2>2. \E k \in 0..m : screen = Taken(ServerPosts, k)
    BY <1>2, <1>3, <2>1 DEF ReaderHas
  <2>3. ReaderHas(m)'
    BY <1>2, <2>1, <2>2 DEF ReaderHas
  <2> QED
    BY <2>1, <2>3, ReaderMoves
<1>9. CASE GetLine
  <2>1. writerAt = "prompt" /\ UNCHANGED <<mainAt, readerAt, posted, wire, screen>>
    BY <1>9 DEF GetLine
  <2>2. typed = Behind(TypedLines, n) /\ wire = FramesTo(2 * n)
    BY <1>1, <2>1 DEF WriterHas
  <2>3. CASE typed = <<>>
    <3>1. writerAt' = "over" /\ UNCHANGED <<typed, held>>
      BY <1>9, <2>3 DEF GetLine
    <3>2. WriterHas(n)'
      BY <1>1, <1>3, <2>1, <2>2, <3>1 DEF WriterHas
    <3> QED
      BY <2>1, <3>1, <3>2, WriterMoves
  <2>4. CASE typed # <<>>
    <3>1. /\ writerAt' = "line" /\ typed' = Tail(typed)
          /\ held' = [held EXCEPT !["writer"] = create_message(Head(typed))]
      BY <1>9, <2>4 DEF GetLine
    <3>2. /\ n < Len(TypedLines) /\ Head(typed) = TypedLines[n + 1]
          /\ Tail(typed) = Behind(TypedLines, n + 1)
      BY <1>3, <2>2, <2>4, RestShrinks, ChatClientAssumption
    <3>3. held'["writer"] = create_message(TypedLines[n + 1])
      BY <3>1, <3>2 DEF ChatClientInv
    <3>4. n + 1 \in 0..Len(TypedLines) /\ n + 1 > 0 /\ 2 * (n + 1) - 2 = 2 * n
      BY <1>3, <3>2
    <3>5. WriterHas(n + 1)'
      BY <2>1, <2>2, <3>1, <3>2, <3>3, <3>4 DEF WriterHas
    <3> QED
      BY <2>1, <3>1, <3>4, <3>5, WriterMoves
  <2> QED
    BY <2>3, <2>4
<1>10. CASE TestCloseChat
  <2>1. /\ writerAt = "line" /\ UNCHANGED <<mainAt, readerAt, typed, posted, wire, screen>>
        /\ \/ writerAt' = "over" /\ held' = [held EXCEPT !["writer"] = <<>>]
           \/ writerAt' = "write size" /\ held' = held
    BY <1>10 DEF TestCloseChat
  <2>2. \E k \in 0..2 * n : wire = FramesTo(k)
    BY <1>1, WriterSent
  <2>3. WriterHas(n)'
    BY <1>1, <2>1, <2>2 DEF WriterHas
  <2> QED
    BY <2>1, <2>3, WriterMoves
<1>11. CASE WriteToServer
  <2>1. /\ writerAt \in {"write size", "write message"}
        /\ UNCHANGED <<mainAt, readerAt, typed, posted, screen>>
    BY <1>11 DEF WriteToServer
  <2>2. n > 0 /\ held["writer"] = create_message(TypedLines[n]) /\ typed = Behind(TypedLines, n)
    BY <1>1, <2>1 DEF WriterHas
  <2>3. CASE UNCHANGED <<wire, writerAt, held>>
    BY <1>1, <2>1, <2>3, ThreadsKept
  <2>4. CASE /\ writerAt = "write size" /\ writerAt' = "write message" /\ held' = held
             /\ wire' = Append(wire, <<"size", held["writer"]>>)
    <3>1. wire' = FramesTo(2 * n - 1)
      BY <1>1, <1>3, <2>2, <2>4, FramesGrow DEF WriterHas
    <3>2. WriterHas(n)'
      BY <1>1, <2>1, <2>2, <2>4, <3>1 DEF WriterHas
    <3> QED
      BY <2>1, <2>4, <3>2, WriterMoves
  <2>5. CASE /\ writerAt = "write message" /\ writerAt' = "prompt"
             /\ held' = [held EXCEPT !["writer"] = <<>>]
             /\ wire' = Append(wire, <<"message", held["writer"]>>)
    <3>1. wire' = FramesTo(2 * n)
      BY <1>1, <1>3, <2>2, <2>5, FramesGrow DEF WriterHas
    <3>2. WriterHas(n)'
      BY <1>1, <2>1, <2>2, <2>5, <3>1 DEF WriterHas
    <3> QED
      BY <2>1, <2>5, <3>2, WriterMoves
  <2> QED
    BY <1>11, <2>3, <2>4, <2>5 DEF WriteToServer
<1>12. CASE get_message_size
  <2>1. /\ readerAt = "size" /\ UNCHANGED <<mainAt, writerAt, typed, posted, wire, screen, held>>
        /\ \/ posted # <<>> /\ readerAt' = "body"
           \/ readerAt' = "over"
    BY <1>12 DEF get_message_size
  <2>2. posted = Behind(ServerPosts, m) /\ screen = Taken(ServerPosts, m)
    BY <1>2, <2>1 DEF ReaderHas
  <2>3. posted # <<>> => m < Len(ServerPosts)
    BY <1>3, <2>2, RestShrinks, ChatClientAssumption
  <2>4. ReaderHas(m)'
    BY <1>2, <1>3, <2>1, <2>2, <2>3 DEF ReaderHas
  <2> QED
    BY <2>1, <2>4, ReaderMoves
<1>13. CASE ReadMessage
  <2>1. /\ readerAt = "body" /\ UNCHANGED <<mainAt, writerAt, typed, wire, screen>>
        /\ held' = [held EXCEPT !["reader"] = Head(posted)] /\ posted' = Tail(posted)
        /\ readerAt' = "show"
    BY <1>13 DEF ReadMessage
  <2>2. posted = Behind(ServerPosts, m) /\ m < Len(ServerPosts) /\ screen = Taken(ServerPosts, m)
    BY <1>2, <2>1 DEF ReaderHas
  <2>3. Head(posted) = ServerPosts[m + 1] /\ Tail(posted) = Behind(ServerPosts, m + 1)
    BY <2>2, RestShrinks, ChatClientAssumption
  <2>4. held'["reader"] = ServerPosts[m + 1]
    BY <2>1, <2>3 DEF ChatClientInv
  <2>5. m + 1 \in 0..Len(ServerPosts) /\ m + 1 > 0 /\ (m + 1) - 1 = m
    BY <1>3, <2>2
  <2>6. ReaderHas(m + 1)'
    BY <2>1, <2>2, <2>3, <2>4, <2>5 DEF ReaderHas
  <2> QED
    BY <2>1, <2>5, <2>6, ReaderMoves
<1>14. CASE write_message_to_screen
  <2>1. /\ readerAt = "show" /\ UNCHANGED <<mainAt, writerAt, typed, posted, wire>>
        /\ screen' = Append(screen, held["reader"])
        /\ held' = [held EXCEPT !["reader"] = <<>>] /\ readerAt' = "size"
    BY <1>14 DEF write_message_to_screen
  <2>2. screen' = Taken(ServerPosts, m)
    BY <1>2, <1>3, <2>1, TakenGrows DEF ReaderHas
  <2>3. ReaderHas(m)'
    BY <1>2, <2>1, <2>2 DEF ReaderHas
  <2> QED
    BY <2>1, <2>3, ReaderMoves
<1> QED
  BY <1>4, <1>5, <1>6, <1>7, <1>8, <1>9, <1>10, <1>11, <1>12, <1>13, <1>14
     DEF ChatClientSteps, ChatClientWorld

(* A prefix by its length is a prefix of the frames of all lines. *)
LEMMA PrefixesInOrder == ChatClientInv => ChatClientInOrder
<1> SUFFICES ASSUME ChatClientInv PROVE ChatClientInOrder
  OBVIOUS
<1>1. PICK n \in 0..Len(TypedLines) : WriterHas(n)
  BY DEF ChatClientInv
<1>2. PICK m \in 0..Len(ServerPosts) : ReaderHas(m)
  BY DEF ChatClientInv
<1>3. Len(TypedLines) \in Nat /\ Len(ServerPosts) \in Nat /\ n \in Nat /\ m \in Nat
  BY ChatClientAssumption
<1>4. PICK k \in 0..2 * Len(TypedLines) : wire = FramesTo(k)
  <2>1. PICK k \in 0..2 * n : wire = FramesTo(k)
    BY <1>1, WriterSent
  <2>2. k \in 0..2 * Len(TypedLines)
    BY <1>3
  <2> QED
    BY <2>1, <2>2
<1>5. PICK j \in 0..Len(ServerPosts) : screen = Taken(ServerPosts, j)
  BY <1>2, <1>3 DEF ReaderHas
<1>6. Frames(Len(TypedLines)) = FramesTo(2 * Len(TypedLines))
  BY DEF Frames, FramesTo, Frame
<1>7. SubSeq(FramesTo(2 * Len(TypedLines)), 1, k) = FramesTo(k)
  BY <1>3 DEF FramesTo
<1>8. SubSeq(ServerPosts, 1, j) = Taken(ServerPosts, j)
  BY <1>3, ChatClientAssumption DEF Taken
<1> QED
  BY <1>4, <1>5, <1>6, <1>7, <1>8 DEF ChatClientInOrder

(* However SIGINT, the cancellation of the threads and the end of the      *)
(* connection fall, the server gets a prefix of the frames of the lines    *)
(* typed and the screen shows a prefix of what the server sent.            *)
THEOREM ChatClientOrdered == ChatClientSpec => []ChatClientInOrder
<1>1. ChatClientInit => ChatClientInv
  BY ChatClientStarts
<1>2. ChatClientInv /\ [ChatClientSteps \/ ChatClientWorld]_ccVars => ChatClientInv'
  BY ChatClientKeeps
<1>3. ChatClientInv => ChatClientInOrder
  BY PrefixesInOrder
<1> QED
  BY <1>1, <1>2, <1>3, PTL DEF ChatClientSpec

-----------------------------------------------------------------------------
(* ThreadLabs: par_reduce. *)
HaveWritten == {t \in PrThreads : prPc[t] \in {"reduce", "done"}}

(* thread_part counts no more than the threads that have written it, and   *)
(* neither do the values that are about to be written back.                *)
ParReduceInv ==
    /\ thread_part \in Nat /\ thread_part <= Cardinality(HaveWritten)
    /\ prPc \in [PrThreads -> {"read", "write", "reduce", "done"}]
    /\ tp \in [PrThreads -> Nat]
    /\ \A t \in PrThreads : tp[t] < num_threads
    /\ \A t \in PrThreads : prPc[t] = "write" => tp[t] <= Cardinality(HaveWritten)

LEMMA WrittenFinite ==
    /\ IsFiniteSet(HaveWritten) /\ Cardinality(HaveWritten) \in Nat
    /\ \A t \in PrThreads \ HaveWritten : Cardinality(HaveWritten) < num_threads
<1>1. IsFiniteSet(PrThreads) /\ Cardinality(PrThreads) = num_threads /\ num_threads \in Nat
  BY FS_Interval, ThreadLabsAssumption DEF PrThreads
<1>2. HaveWritten \subseteq PrThreads
  BY DEF HaveWritten
<1>3. IsFiniteSet(HaveWritten) /\ Cardinality(HaveWritten) \in Nat
  BY <1>1, <1>2, FS_Subset, FS_CardinalityType
<1>4. ASSUME NEW t \in PrThreads \ HaveWritten PROVE Cardinality(HaveWritten) < num_threads
  <2>1. HaveWritten # PrThreads
    BY <1>4
  <2>2. Cardinality(HaveWritten) <= num_threads /\ Cardinality(HaveWritten) # num_threads
    BY <1>1, <1>2, <2>1, FS_Subset
  <2> QED
    BY <1>1, <1>3, <2>2
<1> QED
  BY <1>3, <1>4

LEMMA ParReduceStarts == ParReduceInit => ParReduceInv
<1> SUFFICES ASSUME ParReduceInit PROVE ParReduceInv
  OBVIOUS
<1>1. Cardinality(HaveWritten) \in Nat
  BY WrittenFinite
<1>2. thread_part = 0
  BY DEF ParReduceInit
<1>4. 0 < num_threads
  BY ThreadLabsAssumption
<1>3. /\ tp \in [PrThreads -> Nat] /\ prPc \in [PrThreads -> {"read", "write", "reduce", "done"}]
      /\ \A t \in PrThreads : tp[t] = 0 /\ prPc[t] = "read"
  BY DEF ParReduceInit
<1> QED
  BY <1>1, <1>2, <1>3, <1>4 DEF ParReduceInv

LEMMA ParReduceKeeps == ParReduceInv /\ [ParReduceNext]_prVars => ParReduceInv'
<1> SUFFICES ASSUME ParReduceInv, [ParReduceNext]_prVars PROVE ParReduceInv'
  OBVIOUS
<1>0. Cardinality(HaveWritten) \in Nat /\ num_threads \in Nat
  BY WrittenFinite, ThreadLabsAssumption
<1>1. CASE UNCHANGED <<thread_part, prPc, tp>>
  BY <1>1 DEF ParReduceInv, HaveWritten
<1>2. ASSUME NEW t \in PrThreads, ReadPart(t) PROVE ParReduceInv'
  <2>1. /\ tp' = [tp EXCEPT ![t] = thread_part] /\ prPc' = [prPc EXCEPT ![t] = "write"]
        /\ prPc[t] = "read" /\ thread_part' = thread_part
    BY <1>2 DEF ReadPart
  <2>2. HaveWritten' = HaveWritten
    BY <2>1 DEF HaveWritten, ParReduceInv
  <2>3. thread_part < num_threads
    <3>1. t \notin HaveWritten
      BY <2>1 DEF HaveWritten
    <3> QED
      BY <1>0, <3>1, WrittenFinite DEF ParReduceInv
  <2> QED
    BY <2>1, <2>2, <2>3 DEF ParReduceInv
<1>3. ASSUME NEW t \in PrThreads, WritePart(t) PROVE ParReduceInv'
  <2>1. /\ thread_part' = tp[t] + 1 /\ prPc' = [prPc EXCEPT ![t] = "reduce"]
        /\ prPc[t] = "write" /\ tp' = tp
    BY <1>3 DEF WritePart
  <2>2. HaveWritten' = HaveWritten \union {t} /\ t \notin HaveWritten
    BY <2>1 DEF HaveWritten, ParReduceInv
  <2>3. Cardinality(HaveWritten') = Cardinality(HaveWritten) + 1
    BY <2>2, WrittenFinite, FS_AddElement
  <2> QED
    BY <1>0, <2>1, <2>3 DEF ParReduceInv
<1>4. ASSUME NEW t \in PrThreads, ReducePart(t) PROVE ParReduceInv'
  <2>1. /\ prPc' = [prPc EXCEPT ![t] = "done"] /\ prPc[t] = "reduce"
        /\ tp' = tp /\ thread_part' = thread_part
    BY <1>4 DEF ReducePart
  <2>2. HaveWritten' = HaveWritten
    BY <2>1 DEF HaveWritten, ParReduceInv
  <2> QED
    BY <2>1, <2>2 DEF ParReduceInv
<1> QED
  BY <1>1, <1>2, <1>3, <1>4 DEF ParReduceNext, JoinAndReduce, prVars

(* Every part is inside the list: the first ones by their equal lengths,   *)
(* the last one by taking the rest.                                        *)
LEMMA SlicesFit ==
    ASSUME NEW p \in Nat, p < num_threads
    PROVE  p * Skip + SliceLen(p) <= Len(lst)
<1>1. PICK L, n : L = Len(lst) /\ n = num_threads /\ L \in Nat /\ n \in Nat \ {0}
  BY ThreadLabsAssumption
<1>2. PICK q \in Nat : q = Skip /\ n * q <= L
  BY <1>1 DEF Skip
<1>3. CASE p = n - 1
  BY <1>1, <1>2, <1>3 DEF SliceLen
<1>4. CASE p # n - 1
  <2>1. PICK d \in Nat : n = (p + 1) + d
    <3>1. n - (p + 1) \in Nat
      BY <1>1, <1>4
    <3> QED
      BY <1>1, <3>1
  <2>2. n * q = (p * q + q) + d * q /\ d * q \in Nat /\ p * q + q \in Nat
    BY <2>1
  <2> QED
    BY <1>1, <1>2, <1>4, <2>2 DEF SliceLen
<1> QED
  BY <1>3, <1>4

(* The counter of par_reduce is read and written without a lock, and still *)
(* no thread takes a part outside the list, for any list and any number of *)
(* threads.                                                                *)
THEOREM PartsSafe == ParReduceSpec => []PartsStayInList
<1>1. ParReduceInv => PartsStayInList
  BY SlicesFit DEF ParReduceInv, PartsStayInList
<1> QED
  BY <1>1, ParReduceStarts, ParReduceKeeps, PTL DEF ParReduceSpec

-----------------------------------------------------------------------------
(* ThreadLabs: the rendezvous.  A semaphore is positive, and a thread is   *)
(* done, only once the text it stands for is whole.                        *)
RendezvousInv ==
    /\ quote \in [Texts2 -> 0..quoteLen] /\ sem \in [Texts2 -> Nat]
    /\ rvPc \in [Texts2 -> {"modify", "post", "wait", "done"}]
    /\ printed \in [Texts2 -> {<<>>, <<quoteLen>>}]
    /\ \A x \in Texts2 : rvPc[x] # "modify" \/ sem[x] > 0 => quote[x] = quoteLen
    /\ \A x \in Texts2 : sem[x] > 0 => rvPc[x] # "modify"

LEMMA RendezvousKeeps == RendezvousInv /\ [RendezvousNext]_rvVars => RendezvousInv'
<1> SUFFICES ASSUME RendezvousInv, [RendezvousNext]_rvVars PROVE RendezvousInv'
  OBVIOUS
<1>0. quoteLen \in Nat
  BY ThreadLabsAssumption
<1>1. CASE UNCHANGED rvVars
  BY <1>1 DEF RendezvousInv, rvVars
<1>2. ASSUME NEW x \in Texts2, Modify(x) PROVE RendezvousInv'
  <2>1. CASE quote[x] < quoteLen
    <3>1. rvPc[x] = "modify" /\ quote' = [quote EXCEPT ![x] = @ + 1] /\ UNCHANGED <<sem, rvPc, printed>>
      BY <1>2, <2>1 DEF Modify
    <3>2. quote' \in [Texts2 -> 0..quoteLen]
      BY <1>0, <2>1, <3>1 DEF RendezvousInv
    <3>3. \A z \in Texts2 : z # x => quote'[z] = quote[z]
      BY <3>1 DEF RendezvousInv
    <3> QED
      BY <2>1, <3>1, <3>2, <3>3 DEF RendezvousInv
  <2>2. CASE ~(quote[x] < quoteLen)
    <3>1. rvPc[x] = "modify" /\ rvPc' = [rvPc EXCEPT ![x] = "post"] /\ UNCHANGED <<sem, quote, printed>>
      BY <1>2, <2>2 DEF Modify
    <3>2. quote[x] = quoteLen
      BY <1>0, <2>2 DEF RendezvousInv
    <3> QED
      BY <3>1, <3>2 DEF RendezvousInv
  <2> QED
    BY <2>1, <2>2
<1>3. ASSUME NEW x \in Texts2, SemPost(x) PROVE RendezvousInv'
  BY <1>3 DEF SemPost, RendezvousInv
<1>4. ASSUME NEW x \in Texts2, SemWaitAndPrint(x) PROVE RendezvousInv'
  <2>1. PICK y \in Texts2 : y = Other(x)
    BY DEF Other, Texts2
  <2>2. /\ sem[y] > 0 /\ sem' = [sem EXCEPT ![y] = @ - 1] /\ quote' = quote
        /\ printed' = [printed EXCEPT ![y] = <<quote[y]>>]
        /\ rvPc[x] = "wait" /\ rvPc' = [rvPc EXCEPT ![x] = "done"]
    BY <1>4, <2>1 DEF SemWaitAndPrint
  <2>3. quote[y] = quoteLen
    BY <2>2 DEF RendezvousInv
  <2>4. printed' \in [Texts2 -> {<<>>, <<quoteLen>>}]
    BY <2>2, <2>3 DEF RendezvousInv
  <2>5. sem' \in [Texts2 -> Nat]
    BY <2>2 DEF RendezvousInv
  <2>6. rvPc' \in [Texts2 -> {"modify", "post", "wait", "done"}]
    BY <2>2 DEF RendezvousInv
  <2>7. \A z \in Texts2 : /\ sem'[z] > 0 => sem[z] > 0
                          /\ rvPc'[z] = "modify" <=> rvPc[z] = "modify"
    BY <2>2 DEF RendezvousInv
  <2> QED
    BY <2>2, <2>4, <2>5, <2>6, <2>7 DEF RendezvousInv
<1> QED
  BY <1>1, <1>2, <1>3, <1>4 DEF RendezvousNext

(* Neither thread of the rendezvous prints the other's text before it is   *)
(* whole, for texts of any length.                                         *)
THEOREM TextsPrintedWhole == RendezvousSpec => []PrintsWholeTexts
<1>1. RendezvousInit => RendezvousInv
  BY ThreadLabsAssumption DEF RendezvousInit, RendezvousInv
<1>2. RendezvousInv => PrintsWholeTexts
  BY DEF RendezvousInv, PrintsWholeTexts
<1> QED
  BY <1>1, <1>2, RendezvousKeeps, PTL DEF RendezvousSpec

-----------------------------------------------------------------------------
(* Crackers: cracker2. *)
AtBarrier1 == {"to barrier1", "in barrier1"}
AtBarrier2 == {"to barrier2", "in barrier2"}
Searching == {"search", "hash", "found"} \union AtBarrier2

Space == Tasks[c2Line].space
Target == Tasks[c2Line].target

(* Everyone is in the same part of the round as main. *)
Together ==
    /\ c2Main \in AtBarrier1 \union AtBarrier2 \union {"line", "summary", "join", "done"}
    /\ c2Main \in AtBarrier1 \union {"line", "summary"} => \A w \in Workers : c2Pc[w] \in AtBarrier1
    /\ c2Main \in AtBarrier2 => \A w \in Workers : c2Pc[w] \in Searching \union {"released"}
    /\ c2Main \in {"join", "done"} => \A w \in Workers : c2Pc[w] \in {"released", "exit"}
    /\ atBarrier1 = {w \in Workers : c2Pc[w] = "in barrier1"}
                    \union (IF c2Main = "in barrier1" THEN {0} ELSE {})
    /\ atBarrier2 = {w \in Workers : c2Pc[w] = "in barrier2"}
                    \union (IF c2Main = "in barrier2" THEN {0} ELSE {})
    /\ c2Main \in {"line", "summary"} \union AtBarrier2 => ~stop
    /\ c2Main \in {"join", "done"} => stop
    /\ stop \in BOOLEAN

(* What a worker has tried of its part. *)
HasTried(w) ==
    /\ c2I[w] \in 0..PartCount(Space, w)
    /\ \A i \in 0..c2I[w] - 1 : PartStart(Space, w) + i # Target
    /\ c2Pc[w] \in {"hash", "found"} => c2I[w] < PartCount(Space, w)
    /\ c2Pc[w] = "found" => PartStart(Space, w) + c2I[w] = Target
    /\ c2Pc[w] \in AtBarrier2 => find \/ c2I[w] = PartCount(Space, w)

InRound == c2Main \in AtBarrier2 \union {"summary"} \/ (c2Main \in AtBarrier1 /\ ~stop)

RoundHolds ==
    /\ InRound =>
          /\ c2Line <= Len(Tasks)
          /\ \A w \in Workers : start_index[w] = PartStart(Space, w)
          /\ find => Crackable(Tasks[c2Line]) /\ password = <<Target>>
    /\ c2Main \in AtBarrier1 /\ ~stop => ~find
    /\ c2Main \in AtBarrier2 => \A w \in Workers : c2Pc[w] \in Searching => HasTried(w)
    /\ c2Main = "summary" /\ Crackable(Tasks[c2Line]) => find

SummariesHold ==
    /\ c2Line \in Nat /\ c2Line >= 1
    /\ summary = [k \in 1..c2Line - 1 |-> summary[k]]
    /\ find \in BOOLEAN
    /\ \A k \in 1..c2Line - 1 :
          IF Crackable(Tasks[k])
          THEN summary[k].found /\ summary[k].password = <<Tasks[k].target>>
          ELSE ~summary[k].found

Cracker2Inv ==
    /\ c2Pc = [w \in Workers |-> c2Pc[w]] /\ c2I = [w \in Workers |-> c2I[w]]
    /\ Together
    /\ RoundHolds
    /\ SummariesHold

LEMMA CrackersConstants ==
    /\ thread_count \in Nat /\ thread_count > 0 /\ Workers = 1..thread_count /\ 0 \notin Workers
    /\ Len(Tasks) \in Nat
    /\ \A k \in 1..Len(Tasks) : Tasks[k].space \in Nat /\ Tasks[k].target \in Nat
<1>1. thread_count \in Nat /\ thread_count > 0 /\ Workers = 1..thread_count
  BY CrackersAssumption DEF thread_count
<1>2. Len(Tasks) \in Nat /\ \A k \in 1..Len(Tasks) : Tasks[k] \in [space : Nat \ {0}, target : Nat]
  <2>1. PICK T : T = [space : Nat \ {0}, target : Nat]
    OBVIOUS
  <2>2. Tasks \in Seq(T)
    BY <2>1, CrackersAssumption
  <2>3. Len(Tasks) \in Nat /\ \A k \in 1..Len(Tasks) : Tasks[k] \in T
    BY <2>2
  <2> QED
    BY <2>1, <2>3
<1> QED
  BY <1>1, <1>2

(* getSubrange: the parts are inside the space of candidates, and cover it. *)
LEMMA PartsFit ==
    ASSUME NEW s \in Nat, NEW w \in Workers
    PROVE  /\ PartStart(s, w) \in Nat /\ PartCount(s, w) \in Nat
           /\ PartStart(s, w) + PartCount(s, w) <= s
<1>1. PICK n \in Nat : n = thread_count /\ n > 0 /\ w \in 1..n
  BY CrackersConstants
<1>2. PICK q \in Nat : q = s \div n /\ n * q <= s
  BY <1>1
<1>3. PICK v \in Nat : v = w - 1
  BY <1>1
<1>4. PartStart(s, w) = v * q /\ v * q \in Nat
  BY <1>1, <1>2, <1>3 DEF PartStart
<1>5. PICK d \in Nat : n = (v + 1) + d
  <2>1. n - (v + 1) \in Nat
    BY <1>1, <1>3
  <2> QED
    BY <1>1, <2>1
<1>6. n * q = (v * q + q) + d * q /\ d * q \in Nat
  BY <1>5
<1>7. v * q + q <= s
  BY <1>2, <1>4, <1>6
<1>8. PartCount(s, w) = IF w = n THEN s - v * q ELSE q
  BY <1>1, <1>2, <1>4 DEF PartCount
<1> QED
  BY <1>4, <1>7, <1>8

LEMMA PartsCover ==
    ASSUME NEW s \in Nat, NEW x \in Nat, x < s
    PROVE  \E w \in Workers : \E i \in 0..PartCount(s, w) - 1 : PartStart(s, w) + i = x
<1>1. PICK n \in Nat : n = thread_count /\ n > 0 /\ Workers = 1..n
  BY CrackersConstants
<1>2. PICK q \in Nat : q = s \div n
  BY <1>1
<1>3. PICK m \in Nat : m = n - 1
  BY <1>1
<1>4. m * q \in Nat
  OBVIOUS
<1>5. CASE x >= m * q
  <2>1. n \in Workers /\ PartStart(s, n) = m * q /\ PartCount(s, n) = s - m * q
    BY <1>1, <1>2, <1>3 DEF PartStart, PartCount
  <2>2. x - m * q \in 0..PartCount(s, n) - 1 /\ PartStart(s, n) + (x - m * q) = x
    BY <1>4, <1>5, <2>1
  <2> QED
    BY <2>1, <2>2
<1>6. CASE x < m * q
  <2>1. q > 0
    BY <1>6
  <2>2. PICK v \in Nat, r \in Nat : x = v * q + r /\ r < q
    <3>1. x \div q \in Nat /\ x % q \in Nat /\ x % q < q /\ x = (x \div q) * q + (x % q)
      BY <2>1
    <3> QED
      BY <3>1
  <2>3. v < m
    <3>1. SUFFICES ASSUME v >= m PROVE FALSE
      BY <1>3
    <3>2. PICK d \in Nat : v = m + d
      <4>1. v - m \in Nat
        BY <3>1
      <4> QED
        BY <4>1
    <3>3. v * q = m * q + d * q /\ d * q \in Nat
      BY <3>2
    <3> QED
      BY <1>4, <1>6, <2>2, <3>3
  <2>4. v + 1 \in Workers /\ v + 1 # n
    BY <1>1, <1>3, <2>3
  <2>5. PartStart(s, v + 1) = v * q /\ PartCount(s, v + 1) = q
    BY <1>1, <1>2, <2>4 DEF PartStart, PartCount
  <2>6. r \in 0..PartCount(s, v + 1) - 1 /\ PartStart(s, v + 1) + r = x
    BY <2>2, <2>5
  <2> QED
    BY <2>4, <2>6
<1> QED
  BY <1>4, <1>5, <1>6

LEMMA Cracker2Starts == Cracker2Init => Cracker2Inv
<1> SUFFICES ASSUME Cracker2Init PROVE Cracker2Inv
  OBVIOUS
<1>1. Together
  BY DEF Cracker2Init, Together, AtBarrier1, AtBarrier2, Searching
<1>2. RoundHolds
  BY DEF Cracker2Init, RoundHolds, InRound, AtBarrier1, AtBarrier2
<1>3. SummariesHold
  <2>1. summary = <<>> /\ c2Line = 1 /\ find = FALSE
    BY DEF Cracker2Init
  <2>2. 1..c2Line - 1 = {} /\ summary = [k \in 1..c2Line - 1 |-> summary[k]]
    BY <2>1
  <2>3. c2Line \in Nat /\ c2Line >= 1
    BY <2>1
  <2>4. find \in BOOLEAN
    BY <2>1
  <2> QED
    BY <2>2, <2>3, <2>4, Zenon DEF SummariesHold
<1> QED
  BY <1>1, <1>2, <1>3 DEF Cracker2Init, Cracker2Inv

(* A round has a line, and whoever searches is between the barriers. *)
LEMMA RoundHasLine == Cracker2Inv /\ c2Main \in AtBarrier2 \union {"summary"} => c2Line \in 1..Len(Tasks)
<1> SUFFICES ASSUME Cracker2Inv, c2Main \in AtBarrier2 \union {"summary"} PROVE c2Line \in 1..Len(Tasks)
  OBVIOUS
<1>1. c2Line \in Nat /\ c2Line >= 1
  BY DEF Cracker2Inv, SummariesHold
<1>2. c2Line <= Len(Tasks)
  BY DEF Cracker2Inv, RoundHolds, InRound
<1> QED
  BY <1>1, <1>2, CrackersConstants

LEMMA SearchingIsBetween ==
    ASSUME Cracker2Inv, NEW w \in Workers, c2Pc[w] \in Searching
    PROVE  c2Main \in AtBarrier2 /\ HasTried(w)
<1>1. c2Main \in AtBarrier2
  BY DEF Cracker2Inv, Together, AtBarrier1, AtBarrier2, Searching
<1> QED
  BY <1>1 DEF Cracker2Inv, RoundHolds

(* barrier1 opens: all of them go on together. *)
LEMMA Barrier1Opens ==
    ASSUME Cracker2Inv, c2Main \in AtBarrier1,
           \A w \in Workers : c2Pc[w] \in AtBarrier1,
           atBarrier1' = {}, c2Pc' = [w \in Workers |-> "released"],
           c2Main' = IF stop THEN "join" ELSE "to barrier2",
           UNCHANGED <<c2Line, c2I, start_index, find, stop, password, atBarrier2, summary>>
    PROVE  Cracker2Inv'
<1>1. \A w \in Workers : c2Pc'[w] = "released"
  OBVIOUS
<1>2. atBarrier2 = {}
  BY DEF Cracker2Inv, Together, AtBarrier1
<1>3. Together'
  BY <1>1, <1>2 DEF Cracker2Inv, Together, AtBarrier1, AtBarrier2, Searching
<1>4. RoundHolds'
  BY <1>1 DEF Cracker2Inv, RoundHolds, InRound, AtBarrier1, AtBarrier2, Searching, Space, Target
<1>5. SummariesHold'
  BY DEF Cracker2Inv, SummariesHold
<1> QED
  BY <1>3, <1>4, <1>5 DEF Cracker2Inv

(* barrier2 opens: every part has been tried, or the password is found. *)
LEMMA Barrier2Opens ==
    ASSUME Cracker2Inv, c2Main \in AtBarrier2,
           \A w \in Workers : c2Pc[w] \in AtBarrier2,
           atBarrier2' = {}, c2Pc' = [w \in Workers |-> "to barrier1"], c2Main' = "summary",
           UNCHANGED <<c2Line, c2I, start_index, find, stop, password, atBarrier1, summary>>
    PROVE  Cracker2Inv'
<1>1. \A w \in Workers : c2Pc'[w] = "to barrier1"
  OBVIOUS
<1>2. atBarrier1 = {}
  BY DEF Cracker2Inv, Together, AtBarrier1, AtBarrier2, Searching
<1>3. Together'
  BY <1>1, <1>2 DEF Cracker2Inv, Together, AtBarrier1, AtBarrier2, Searching
<1>4. c2Line \in 1..Len(Tasks)
  BY RoundHasLine
<1>5. Crackable(Tasks[c2Line]) => find
  <2> SUFFICES ASSUME Target < Space, ~find PROVE FALSE
    BY DEF Crackable, Target, Space
  <2>1. Space \in Nat /\ Target \in Nat
    BY <1>4, CrackersConstants DEF Space, Target
  <2>2. PICK w \in Workers : \E i \in 0..PartCount(Space, w) - 1 : PartStart(Space, w) + i = Target
    BY <2>1, PartsCover
  <2>3. HasTried(w)
    BY DEF Cracker2Inv, RoundHolds, Searching
  <2> QED
    BY <2>2, <2>3 DEF HasTried
<1>6. RoundHolds'
  BY <1>5 DEF Cracker2Inv, RoundHolds, InRound, AtBarrier1, AtBarrier2, Space, Target
<1>7. SummariesHold'
  BY DEF Cracker2Inv, SummariesHold
<1> QED
  BY <1>3, <1>6, <1>7 DEF Cracker2Inv

(* A step of worker w between the barriers. *)
LEMMA WorkerSearches ==
    ASSUME Cracker2Inv, NEW w \in Workers, NEW p \in Searching, NEW i,
           c2Main \in AtBarrier2,
           c2Pc' = [c2Pc EXCEPT ![w] = p], c2I' = [c2I EXCEPT ![w] = i],
           UNCHANGED <<c2Main, c2Line, start_index, stop, atBarrier1, summary>>,
           c2Pc[w] # "in barrier2",
           atBarrier2' = IF p = "in barrier2" THEN atBarrier2 \union {w} ELSE atBarrier2,
           find' \in BOOLEAN, find => find',
           find' => Crackable(Tasks[c2Line]) /\ password' = <<Target>>,
           HasTried(w)'
    PROVE  Cracker2Inv'
<1>1. /\ c2Pc' = [v \in Workers |-> c2Pc'[v]] /\ c2I' = [v \in Workers |-> c2I'[v]]
      /\ c2Pc'[w] = p /\ c2I'[w] = i
      /\ \A v \in Workers : v # w => c2Pc'[v] = c2Pc[v] /\ c2I'[v] = c2I[v]
  BY DEF Cracker2Inv
<1>2. c2Pc[w] # "in barrier1" /\ p # "in barrier1"
  BY DEF Cracker2Inv, Together, AtBarrier1, AtBarrier2, Searching
<1>3. atBarrier1' = {v \in Workers : c2Pc'[v] = "in barrier1"}
  BY <1>1, <1>2 DEF Cracker2Inv, Together, AtBarrier2
<1>4. {v \in Workers : c2Pc'[v] = "in barrier2"}
        = IF p = "in barrier2" THEN {v \in Workers : c2Pc[v] = "in barrier2"} \union {w}
          ELSE {v \in Workers : c2Pc[v] = "in barrier2"}
  BY <1>1
<1>5. Together'
  <2>1. \A v \in Workers : c2Pc'[v] \in Searching \union {"released"}
    BY <1>1 DEF Cracker2Inv, Together
  <2>2. atBarrier2' = {v \in Workers : c2Pc'[v] = "in barrier2"}
                      \union (IF c2Main = "in barrier2" THEN {0} ELSE {})
    BY <1>4 DEF Cracker2Inv, Together
  <2> QED
    BY <1>3, <2>1, <2>2 DEF Cracker2Inv, Together, AtBarrier1, AtBarrier2
<1>6. RoundHolds'
  <2>1. ASSUME NEW v \in Workers, c2Pc'[v] \in Searching PROVE HasTried(v)'
    <3>1. CASE v = w
      BY <3>1
    <3>2. CASE v # w
      <4>1. HasTried(v)
        BY <1>1, <2>1, <3>2 DEF Cracker2Inv, RoundHolds
      <4> QED
        BY <1>1, <3>2, <4>1 DEF HasTried, Space, Target
    <3> QED
      BY <3>1, <3>2
  <2> QED
    BY <2>1 DEF Cracker2Inv, RoundHolds, InRound, AtBarrier1, AtBarrier2, Space, Target
<1>7. SummariesHold'
  BY DEF Cracker2Inv, SummariesHold
<1> QED
  BY <1>1, <1>5, <1>6, <1>7 DEF Cracker2Inv

LEMMA Cracker2Keeps == Cracker2Inv /\ [Cracker2Next]_c2Vars => Cracker2Inv'
<1> SUFFICES ASSUME Cracker2Inv, [Cracker2Next]_c2Vars PROVE Cracker2Inv'
  OBVIOUS
<1>1. CASE UNCHANGED c2Vars
  <2>1. Together' /\ SummariesHold'
    BY <1>1 DEF Cracker2Inv, Together, SummariesHold, c2Vars
  <2>2. RoundHolds'
    BY <1>1 DEF Cracker2Inv, RoundHolds, InRound, HasTried, Space, Target, c2Vars
  <2> QED
    BY <1>1, <2>1, <2>2 DEF Cracker2Inv, c2Vars
<1>2. CASE SetUpRound
  <2>1. /\ c2Main = "line" /\ c2Main' = "to barrier1"
        /\ UNCHANGED <<c2Line, c2Pc, c2I, atBarrier1, atBarrier2, summary>>
    BY <1>2 DEF SetUpRound
  <2>2. \/ /\ c2Line <= Len(Tasks) /\ find' = FALSE /\ stop' = stop
           /\ start_index' = [w \in Workers |-> PartStart(Space, w)]
        \/ stop' = TRUE /\ find' = find
    BY <1>2 DEF SetUpRound, Space
  <2>3. Together'
    BY <2>1, <2>2 DEF Cracker2Inv, Together, AtBarrier1, AtBarrier2
  <2>4. RoundHolds'
    BY <2>1, <2>2 DEF Cracker2Inv, RoundHolds, InRound, AtBarrier1, AtBarrier2, Space, Target
  <2>5. SummariesHold'
    BY <2>1, <2>2 DEF Cracker2Inv, SummariesHold
  <2> QED
    BY <2>1, <2>3, <2>4, <2>5 DEF Cracker2Inv
<1>3. CASE MainBarrier1
  <2>1. /\ c2Main = "to barrier1"
        /\ UNCHANGED <<c2Line, c2I, start_index, find, stop, password, atBarrier2, summary>>
    BY <1>3 DEF MainBarrier1
  <2>2. CASE atBarrier1 \union {0} = Everyone
    <3>1. /\ atBarrier1' = {} /\ c2Pc' = [w \in Workers |-> "released"]
          /\ c2Main' = IF stop THEN "join" ELSE "to barrier2"
      BY <1>3, <2>2 DEF MainBarrier1
    <3>2. c2Main \in AtBarrier1 /\ \A w \in Workers : c2Pc[w] \in AtBarrier1
      BY <2>1 DEF Cracker2Inv, Together, AtBarrier1
    <3> QED
      BY <2>1, <3>1, <3>2, Barrier1Opens
  <2>3. CASE atBarrier1 \union {0} # Everyone
    <3>1. atBarrier1' = atBarrier1 \union {0} /\ c2Main' = "in barrier1" /\ c2Pc' = c2Pc
      BY <1>3, <2>3 DEF MainBarrier1
    <3>2. Together'
      BY <2>1, <3>1 DEF Cracker2Inv, Together, AtBarrier1, AtBarrier2
    <3>3. RoundHolds'
      BY <2>1, <3>1 DEF Cracker2Inv, RoundHolds, InRound, AtBarrier1, AtBarrier2, Space, Target
    <3>4. SummariesHold'
      BY <2>1 DEF Cracker2Inv, SummariesHold
    <3> QED
      BY <2>1, <3>1, <3>2, <3>3, <3>4 DEF Cracker2Inv
  <2> QED
    BY <2>2, <2>3
<1>4. ASSUME NEW w \in Workers, WorkerBarrier1(w) PROVE Cracker2Inv'
  <2>1. /\ c2Pc[w] = "to barrier1"
        /\ UNCHANGED <<c2Line, c2I, start_index, find, stop, password, atBarrier2, summary>>
    BY <1>4 DEF WorkerBarrier1
  <2>2. CASE atBarrier1 \union {w} = Everyone
    <3>1. /\ atBarrier1' = {} /\ c2Pc' = [v \in Workers |-> "released"]
          /\ c2Main' = IF stop THEN "join" ELSE "to barrier2"
      BY <1>4, <2>2 DEF WorkerBarrier1
    <3>2. 0 \in atBarrier1
      BY <2>2, CrackersConstants DEF Everyone
    <3>3. c2Main \in AtBarrier1
      BY <3>2, CrackersConstants DEF Cracker2Inv, Together, AtBarrier1
    <3>4. \A v \in Workers : c2Pc[v] \in AtBarrier1
      BY <3>3 DEF Cracker2Inv, Together
    <3> QED
      BY <2>1, <3>1, <3>3, <3>4, Barrier1Opens
  <2>3. CASE atBarrier1 \union {w} # Everyone
    <3>1. /\ atBarrier1' = atBarrier1 \union {w} /\ c2Main' = c2Main
          /\ c2Pc' = [c2Pc EXCEPT ![w] = "in barrier1"]
      BY <1>4, <2>3 DEF WorkerBarrier1
    <3>2. /\ c2Pc' = [v \in Workers |-> c2Pc'[v]] /\ c2Pc'[w] = "in barrier1"
          /\ \A v \in Workers : v # w => c2Pc'[v] = c2Pc[v]
      BY <3>1 DEF Cracker2Inv
    <3>3. c2Main \in AtBarrier1 \union {"line", "summary"}
      BY <2>1 DEF Cracker2Inv, Together, AtBarrier1, AtBarrier2, Searching
    <3>4. {v \in Workers : c2Pc'[v] = "in barrier1"} = {v \in Workers : c2Pc[v] = "in barrier1"} \union {w}
      BY <3>2
    <3>5. {v \in Workers : c2Pc'[v] = "in barrier2"} = {v \in Workers : c2Pc[v] = "in barrier2"}
      BY <2>1, <3>2
    <3>6. \A v \in Workers : c2Pc'[v] \in AtBarrier1
      BY <3>2, <3>3 DEF Cracker2Inv, Together, AtBarrier1
    <3>7. Together'
      BY <2>1, <3>1, <3>3, <3>4, <3>5, <3>6 DEF Cracker2Inv, Together, AtBarrier1, AtBarrier2
    <3>8. RoundHolds'
      BY <2>1, <3>1, <3>3 DEF Cracker2Inv, RoundHolds, InRound, AtBarrier1, AtBarrier2, Space, Target
    <3>9. SummariesHold'
      BY <2>1 DEF Cracker2Inv, SummariesHold
    <3> QED
      BY <2>1, <3>2, <3>7, <3>8, <3>9 DEF Cracker2Inv
  <2> QED
    BY <2>2, <2>3
<1>5. ASSUME NEW w \in Workers, CheckStop(w) PROVE Cracker2Inv'
  <2>1. /\ c2Pc[w] = "released" /\ c2I' = [c2I EXCEPT ![w] = 0]
        /\ UNCHANGED <<c2Main, c2Line, start_index, find, stop, password, atBarrier1,
                       atBarrier2, summary>>
    BY <1>5 DEF CheckStop
  <2>2. c2Main \in AtBarrier2 \union {"join", "done"}
    BY <2>1 DEF Cracker2Inv, Together, AtBarrier1
  <2>3. CASE stop
    <3>1. c2Pc' = [c2Pc EXCEPT ![w] = "exit"] /\ c2Main \in {"join", "done"}
      BY <1>5, <2>2, <2>3 DEF CheckStop, Cracker2Inv, Together
    <3>2. /\ c2Pc' = [v \in Workers |-> c2Pc'[v]] /\ c2I' = [v \in Workers |-> c2I'[v]]
          /\ c2Pc'[w] = "exit" /\ \A v \in Workers : v # w => c2Pc'[v] = c2Pc[v]
      BY <2>1, <3>1 DEF Cracker2Inv
    <3>3. \A v \in Workers : c2Pc'[v] \in {"released", "exit"}
      BY <3>1, <3>2 DEF Cracker2Inv, Together
    <3>4. \A v \in Workers : c2Pc[v] \in {"released", "exit"}
      BY <3>1 DEF Cracker2Inv, Together
    <3>5. Together'
      BY <2>1, <3>1, <3>3, <3>4 DEF Cracker2Inv, Together, AtBarrier1, AtBarrier2
    <3>6. RoundHolds'
      BY <2>1, <3>1 DEF RoundHolds, InRound, AtBarrier1, AtBarrier2
    <3>7. SummariesHold'
      BY <2>1 DEF Cracker2Inv, SummariesHold
    <3> QED
      BY <3>2, <3>5, <3>6, <3>7 DEF Cracker2Inv
  <2>4. CASE ~stop
    <3>1. c2Pc' = [c2Pc EXCEPT ![w] = "search"] /\ c2Main \in AtBarrier2
      BY <1>5, <2>2, <2>4 DEF CheckStop, Cracker2Inv, Together
    <3>2. c2Pc'[w] = "search" /\ c2I'[w] = 0
      BY <2>1, <3>1 DEF Cracker2Inv
    <3>3. c2Line \in 1..Len(Tasks)
      BY <3>1, RoundHasLine
    <3>4. Space' = Space /\ Target' = Target /\ Space \in Nat
      BY <2>1, <3>3, CrackersConstants DEF Space, Target
    <3>5. HasTried(w)'
      BY <3>2, <3>4, PartsFit DEF HasTried, AtBarrier2
    <3>6. find' \in BOOLEAN /\ (find => find') /\ "search" \in Searching /\ "search" # "in barrier2"
      BY <2>1 DEF Cracker2Inv, SummariesHold, Searching
    <3>7. find' => Crackable(Tasks[c2Line]) /\ password' = <<Target>>
      BY <2>1, <3>1 DEF Cracker2Inv, RoundHolds, InRound
    <3> QED
      BY <2>1, <3>1, <3>5, <3>6, <3>7, WorkerSearches
  <2> QED
    BY <2>3, <2>4
<1>6. ASSUME NEW w \in Workers, LookAtFind(w) PROVE Cracker2Inv'
  <2>1. /\ c2Pc[w] = "search"
        /\ UNCHANGED <<c2Main, c2Line, c2I, start_index, find, stop, password, atBarrier1,
                       atBarrier2, summary>>
    BY <1>6 DEF LookAtFind
  <2>2. PICK p : p = IF c2I[w] = PartCount(Space, w) \/ find THEN "to barrier2" ELSE "hash"
    OBVIOUS
  <2>3. c2Pc' = [c2Pc EXCEPT ![w] = p] /\ p \in Searching /\ p # "in barrier2"
    BY <1>6, <2>2 DEF LookAtFind, Space, Searching, AtBarrier2
  <2>4. c2Main \in AtBarrier2 /\ HasTried(w)
    BY <2>1, SearchingIsBetween DEF Searching
  <2>5. c2Pc'[w] = p /\ c2I' = [c2I EXCEPT ![w] = c2I[w]]
    BY <2>1, <2>3 DEF Cracker2Inv
  <2>6. c2Line \in 1..Len(Tasks)
    BY <2>4, RoundHasLine
  <2>7. Space' = Space /\ Target' = Target /\ PartCount(Space, w) \in Nat
    BY <2>1, <2>6, CrackersConstants, PartsFit DEF Space, Target
  <2>8. HasTried(w)'
    <3>1. /\ c2I[w] \in 0..PartCount(Space, w)
          /\ \A i \in 0..c2I[w] - 1 : PartStart(Space, w) + i # Target
      BY <2>4 DEF HasTried
    <3>2. CASE c2I[w] = PartCount(Space, w) \/ find
      <4>1. p = "to barrier2"
        BY <2>2, <3>2
      <4> QED
        BY <2>1, <2>5, <2>7, <3>1, <3>2, <4>1 DEF HasTried, AtBarrier2
    <3>3. CASE ~(c2I[w] = PartCount(Space, w) \/ find)
      <4>1. p = "hash" /\ c2I[w] < PartCount(Space, w)
        BY <2>2, <2>7, <3>1, <3>3
      <4> QED
        BY <2>1, <2>5, <2>7, <3>1, <4>1 DEF HasTried, AtBarrier2
    <3> QED
      BY <3>2, <3>3
  <2>9. find' \in BOOLEAN /\ (find => find')
    BY <2>1 DEF Cracker2Inv, SummariesHold
  <2>10. find' => Crackable(Tasks[c2Line]) /\ password' = <<Target>>
    BY <2>1, <2>4 DEF Cracker2Inv, RoundHolds, InRound
  <2> QED
    BY <2>1, <2>3, <2>4, <2>5, <2>8, <2>9, <2>10, WorkerSearches
<1>7. ASSUME NEW w \in Workers, Crypt(w) PROVE Cracker2Inv'
  <2>1. /\ c2Pc[w] = "hash"
        /\ UNCHANGED <<c2Main, c2Line, start_index, find, stop, password, atBarrier1,
                       atBarrier2, summary>>
    BY <1>7 DEF Crypt
  <2>2. c2Main \in AtBarrier2 /\ HasTried(w)
    BY <2>1, SearchingIsBetween DEF Searching
  <2>3. c2Line \in 1..Len(Tasks)
    BY <2>2, RoundHasLine
  <2>4. Space' = Space /\ Target' = Target /\ PartCount(Space, w) \in Nat /\ PartStart(Space, w) \in Nat
    BY <2>1, <2>3, CrackersConstants, PartsFit DEF Space, Target
  <2>5. Candidate(w) = PartStart(Space, w) + c2I[w]
    BY <2>2 DEF Candidate, Cracker2Inv, RoundHolds, InRound
  <2>6. find' \in BOOLEAN /\ (find => find')
    BY <2>1 DEF Cracker2Inv, SummariesHold
  <2>7. find' => Crackable(Tasks[c2Line]) /\ password' = <<Target>>
    BY <2>1, <2>2 DEF Cracker2Inv, RoundHolds, InRound
  <2>8. CASE Candidate(w) = Target
    <3>1. c2Pc' = [c2Pc EXCEPT ![w] = "found"] /\ c2I' = c2I
      BY <1>7, <2>8 DEF Crypt, Target
    <3>2. c2Pc'[w] = "found" /\ c2I' = [c2I EXCEPT ![w] = c2I[w]]
      BY <3>1 DEF Cracker2Inv
    <3>3. HasTried(w)'
      BY <2>1, <2>2, <2>4, <2>5, <2>8, <3>1, <3>2 DEF HasTried, AtBarrier2
    <3>4. "found" \in Searching /\ "found" # "in barrier2"
      BY DEF Searching
    <3> QED
      BY <2>1, <2>2, <2>6, <2>7, <3>1, <3>2, <3>3, <3>4, WorkerSearches
  <2>9. CASE Candidate(w) # Target
    <3>1. c2Pc' = [c2Pc EXCEPT ![w] = "search"] /\ c2I' = [c2I EXCEPT ![w] = c2I[w] + 1]
      BY <1>7, <2>9 DEF Crypt, Target
    <3>2. c2Pc'[w] = "search" /\ c2I'[w] = c2I[w] + 1
      BY <3>1 DEF Cracker2Inv
    <3>3. c2I[w] \in Nat /\ c2I[w] < PartCount(Space, w)
      BY <2>1, <2>2, <2>4 DEF HasTried
    <3>4. \A i \in 0..(c2I[w] + 1) - 1 : PartStart(Space, w) + i # Target
      BY <2>2, <2>5, <2>9, <3>3 DEF HasTried
    <3>5. HasTried(w)'
      BY <2>4, <3>2, <3>3, <3>4 DEF HasTried, AtBarrier2
    <3>6. "search" \in Searching /\ "search" # "in barrier2"
      BY DEF Searching
    <3> QED
      BY <2>1, <2>2, <2>6, <2>7, <3>1, <3>5, <3>6, WorkerSearches
  <2> QED
    BY <2>8, <2>9
<1>8. ASSUME NEW w \in Workers, SetFind(w) PROVE Cracker2Inv'
  <2>1. /\ c2Pc[w] = "found" /\ find' = TRUE /\ password' = <<Candidate(w)>>
        /\ c2Pc' = [c2Pc EXCEPT ![w] = "to barrier2"]
        /\ UNCHANGED <<c2Main, c2Line, c2I, start_index, stop, atBarrier1, atBarrier2, summary>>
    BY <1>8 DEF SetFind
  <2>2. c2Main \in AtBarrier2 /\ HasTried(w)
    BY <2>1, SearchingIsBetween DEF Searching
  <2>3. c2Line \in 1..Len(Tasks)
    BY <2>2, RoundHasLine
  <2>4. /\ Space' = Space /\ Target' = Target /\ Space \in Nat
        /\ PartCount(Space, w) \in Nat /\ PartStart(Space, w) \in Nat
        /\ PartStart(Space, w) + PartCount(Space, w) <= Space
    BY <2>1, <2>3, CrackersConstants, PartsFit DEF Space, Target
  <2>5. Candidate(w) = PartStart(Space, w) + c2I[w]
    BY <2>2 DEF Candidate, Cracker2Inv, RoundHolds, InRound
  <2>6. c2Pc'[w] = "to barrier2" /\ c2I' = [c2I EXCEPT ![w] = c2I[w]]
    BY <2>1 DEF Cracker2Inv
  <2>7. HasTried(w)'
    BY <2>1, <2>2, <2>4, <2>6 DEF HasTried, AtBarrier2
  <2>8. c2I[w] \in Nat /\ c2I[w] < PartCount(Space, w) /\ Candidate(w) = Target
    <3>1. c2I[w] < PartCount(Space, w) /\ PartStart(Space, w) + c2I[w] = Target
      BY <2>1, <2>2 DEF HasTried
    <3>2. c2I[w] \in 0..PartCount(Space, w)
      BY <2>2 DEF HasTried
    <3> QED
      BY <2>4, <2>5, <3>1, <3>2
  <2>9. Crackable(Tasks[c2Line])
    <3>1. Target < Space
      BY <2>4, <2>5, <2>8
    <3> QED
      BY <3>1 DEF Crackable, Target, Space
  <2>10. find' \in BOOLEAN /\ (find => find') /\ "to barrier2" \in Searching /\ "to barrier2" # "in barrier2"
    BY <2>1 DEF Searching, AtBarrier2
  <2>11. find' => Crackable(Tasks[c2Line]) /\ password' = <<Target>>
    BY <2>1, <2>8, <2>9
  <2> QED
    BY <2>1, <2>2, <2>6, <2>7, <2>10, <2>11, WorkerSearches
<1>9. ASSUME NEW w \in Workers, WorkerBarrier2(w) PROVE Cracker2Inv'
  <2>1. /\ c2Pc[w] = "to barrier2"
        /\ UNCHANGED <<c2Line, c2I, start_index, find, stop, password, atBarrier1, summary>>
    BY <1>9 DEF WorkerBarrier2
  <2>2. c2Main \in AtBarrier2 /\ HasTried(w)
    BY <2>1, SearchingIsBetween DEF Searching, AtBarrier2
  <2>3. CASE atBarrier2 \union {w} = Everyone
    <3>1. /\ atBarrier2' = {} /\ c2Pc' = [v \in Workers |-> "to barrier1"] /\ c2Main' = "summary"
      BY <1>9, <2>3 DEF WorkerBarrier2
    <3>2. \A v \in Workers : v # w => v \in atBarrier2
      BY <2>3 DEF Everyone
    <3>3. \A v \in Workers : c2Pc[v] \in AtBarrier2
      BY <2>1, <3>2, CrackersConstants DEF Cracker2Inv, Together, AtBarrier2
    <3> QED
      BY <2>1, <2>2, <3>1, <3>3, Barrier2Opens
  <2>4. CASE atBarrier2 \union {w} # Everyone
    <3>1. /\ atBarrier2' = atBarrier2 \union {w} /\ c2Main' = c2Main
          /\ c2Pc' = [c2Pc EXCEPT ![w] = "in barrier2"]
      BY <1>9, <2>4 DEF WorkerBarrier2
    <3>2. c2Pc'[w] = "in barrier2" /\ c2I' = [c2I EXCEPT ![w] = c2I[w]]
      BY <2>1, <3>1 DEF Cracker2Inv
    <3>3. HasTried(w)'
      BY <2>1, <2>2, <3>2 DEF HasTried, AtBarrier2, Space, Target
    <3>4. find' \in BOOLEAN /\ (find => find') /\ "in barrier2" \in Searching
      BY <2>1 DEF Cracker2Inv, SummariesHold, Searching, AtBarrier2
    <3>5. find' => Crackable(Tasks[c2Line]) /\ password' = <<Target>>
      BY <2>1, <2>2 DEF Cracker2Inv, RoundHolds, InRound
    <3> QED
      BY <2>1, <2>2, <3>1, <3>2, <3>3, <3>4, <3>5, WorkerSearches
  <2> QED
    BY <2>3, <2>4
<1>10. CASE MainBarrier2
  <2>1. /\ c2Main = "to barrier2"
        /\ UNCHANGED <<c2Line, c2I, start_index, find, stop, password, atBarrier1, summary>>
    BY <1>10 DEF MainBarrier2
  <2>2. CASE atBarrier2 \union {0} = Everyone
    <3>1. /\ atBarrier2' = {} /\ c2Pc' = [w \in Workers |-> "to barrier1"] /\ c2Main' = "summary"
      BY <1>10, <2>2 DEF MainBarrier2
    <3>2. \A w \in Workers : w \in atBarrier2 /\ w # 0
      BY <2>2, CrackersConstants DEF Everyone
    <3>3. c2Main \in AtBarrier2 /\ \A w \in Workers : c2Pc[w] \in AtBarrier2
      BY <2>1, <3>2 DEF Cracker2Inv, Together, AtBarrier2
    <3> QED
      BY <2>1, <3>1, <3>3, Barrier2Opens
  <2>3. CASE atBarrier2 \union {0} # Everyone
    <3>1. atBarrier2' = atBarrier2 \union {0} /\ c2Main' = "in barrier2" /\ c2Pc' = c2Pc
      BY <1>10, <2>3 DEF MainBarrier2
    <3>2. Together'
      BY <2>1, <3>1 DEF Cracker2Inv, Together, AtBarrier1, AtBarrier2
    <3>3. RoundHolds'
      BY <2>1, <3>1 DEF Cracker2Inv, RoundHolds, InRound, HasTried, AtBarrier1, AtBarrier2, Space, Target
    <3>4. SummariesHold'
      BY <2>1 DEF Cracker2Inv, SummariesHold
    <3> QED
      BY <2>1, <3>1, <3>2, <3>3, <3>4 DEF Cracker2Inv
  <2> QED
    BY <2>2, <2>3
<1>11. CASE Summarise
  <2>1. PICK r : r = [found |-> find, password |-> password, hashes |-> SumFunction(hash_count)]
    OBVIOUS
  <2>2. /\ c2Main = "summary" /\ c2Main' = "line" /\ c2Line' = c2Line + 1
        /\ summary' = Append(summary, r)
        /\ UNCHANGED <<c2Pc, c2I, find, stop, atBarrier1, atBarrier2>>
    BY <1>11, <2>1 DEF Summarise
  <2>3. r.found = find /\ r.password = password
    BY <2>1
  <2>4. Together'
    BY <2>2 DEF Cracker2Inv, Together, AtBarrier1, AtBarrier2
  <2>5. RoundHolds'
    BY <2>2 DEF RoundHolds, InRound, AtBarrier1, AtBarrier2
  <2>6. SummariesHold'
    <3>1. PICK n \in Nat : c2Line = n + 1
      <4>1. c2Line - 1 \in Nat
        BY DEF Cracker2Inv, SummariesHold
      <4> QED
        BY <4>1 DEF Cracker2Inv, SummariesHold
    <3>2. summary = [k \in 1..n |-> summary[k]]
      BY <3>1 DEF Cracker2Inv, SummariesHold
    <3>3. summary' = [k \in 1..n + 1 |-> IF k = n + 1 THEN r ELSE summary[k]]
      BY <2>2, <3>2
    <3>4. IF Crackable(Tasks[c2Line]) THEN r.found /\ r.password = <<Tasks[c2Line].target>> ELSE ~r.found
      BY <2>2, <2>3 DEF Cracker2Inv, RoundHolds, InRound, Target
    <3>5. \A k \in 1..n : IF Crackable(Tasks[k])
                          THEN summary[k].found /\ summary[k].password = <<Tasks[k].target>>
                          ELSE ~summary[k].found
      BY <3>1 DEF Cracker2Inv, SummariesHold
    <3>6. c2Line' = (n + 1) + 1 /\ c2Line' - 1 = n + 1 /\ c2Line' \in Nat /\ c2Line' >= 1
      BY <2>2, <3>1
    <3>7. \A k \in 1..n + 1 : IF Crackable(Tasks[k])
                              THEN summary'[k].found /\ summary'[k].password = <<Tasks[k].target>>
                              ELSE ~summary'[k].found
      <4> SUFFICES ASSUME NEW k \in 1..n + 1
                   PROVE  IF Crackable(Tasks[k])
                          THEN summary'[k].found /\ summary'[k].password = <<Tasks[k].target>>
                          ELSE ~summary'[k].found
        OBVIOUS
      <4>1. CASE k = n + 1
        BY <3>1, <3>3, <3>4, <4>1
      <4>2. CASE k # n + 1
        <5>1. k \in 1..n /\ summary'[k] = summary[k]
          BY <3>3, <4>2
        <5> QED
          BY <3>5, <5>1
      <4> QED
        BY <4>1, <4>2
    <3>8. summary' = [k \in 1..n + 1 |-> summary'[k]]
      BY <3>3
    <3> QED
      BY <2>2, <3>6, <3>7, <3>8 DEF Cracker2Inv, SummariesHold
  <2> QED
    BY <2>2, <2>4, <2>5, <2>6 DEF Cracker2Inv
<1>12. CASE JoinAll
  <2>1. /\ c2Main = "join" /\ c2Main' = "done"
        /\ UNCHANGED <<c2Line, c2Pc, c2I, start_index, find, stop, password, atBarrier1,
                       atBarrier2, summary>>
    BY <1>12 DEF JoinAll
  <2>2. Together'
    BY <2>1 DEF Cracker2Inv, Together, AtBarrier1, AtBarrier2
  <2>3. RoundHolds'
    BY <2>1 DEF RoundHolds, InRound, AtBarrier1, AtBarrier2
  <2>4. SummariesHold'
    BY <2>1 DEF Cracker2Inv, SummariesHold
  <2> QED
    BY <2>1, <2>2, <2>3, <2>4 DEF Cracker2Inv
<1> QED
  BY <1>1, <1>2, <1>3, <1>4, <1>5, <1>6, <1>7, <1>8, <1>9, <1>10, <1>11, <1>12 DEF Cracker2Next

(* What cracker2's main prints after each round is about that round's      *)
(* password, although it reads find and password without the mutex, for    *)
(* any number of workers, any passwords and any interleaving.              *)
THEOREM RoundsExact == Cracker2Spec => []RoundsBelong
<1>1. Cracker2Inv => RoundsBelong
  BY DEF Cracker2Inv, Together, SummariesHold, RoundsBelong, AtBarrier1
<1> QED
  BY <1>1, Cracker2Starts, Cracker2Keeps, PTL DEF Cracker2Spec

-----------------------------------------------------------------------------
(* Semamore: the value keeps its bounds, and where no post can find the    *)
(* semaphore full, no unit is left to threads that all sleep.              *)

(* The posts on s that are not done yet. *)
PostsLeft(s) == {p \in Posts(s) : p[2] >= at[p[1]]}

(* Where there is room for every post, there is room for those left. *)
RoomForPosts ==
    \A s \in Semamores :
        Ample(s) => value[s] + Cardinality(PostsLeft(s)) <= max_val[s]

(* Then no post ever sleeps, and a signal is never taken by one. *)
NoPostSleeps ==
    \A s \in Semamores : Ample(s) => \A t \in Sleepers(s) : Op(t) = "wait"

(***************************************************************************)
(* UnitsAreClaimed is not inductive: that a signal wakes a wait needs that *)
(* no post sleeps, which needs the room that is left for posts.            *)
(***************************************************************************)
SemamoreInv ==
    /\ TypeOK
    /\ RoomForPosts
    /\ NoPostSleeps
    /\ UnitsAreClaimed

-----------------------------------------------------------------------------
(* The calls of one thread that are posts on s are finitely many. *)
LEMMA PostsFinite ==
    ASSUME NEW s \in Semamores
    PROVE  IsFiniteSet(Posts(s))
<1> DEFINE Of(t)    == {k \in DOMAIN Script[t] : Script[t][k] = <<"post", s>>}
           Calls(t) == {<<t, i>> : i \in Of(t)}
           All      == {Calls(t) : t \in Threads}
<1>1. ASSUME NEW t \in Threads PROVE IsFiniteSet(Calls(t))
  <2>1. Script[t] \in Seq({"post", "wait"} \X Semamores)
    BY ScriptAssumption
  <2>2. DOMAIN Script[t] = 1 .. Len(Script[t]) /\ Len(Script[t]) \in Nat
    BY <2>1, LenProperties
  <2>3. IsFiniteSet(DOMAIN Script[t])
    BY <2>2, FS_Interval
  <2>4. IsFiniteSet(Of(t))
    BY <2>3, FS_Subset
  <2>5. [i \in Of(t) |-> <<t, i>>] \in Surjection(Of(t), Calls(t))
    BY DEF Surjection
  <2> QED
    BY <2>4, <2>5, FS_Surjection
<1>2. [t \in Threads |-> Calls(t)] \in Surjection(Threads, All)
  BY DEF Surjection
<1>3. IsFiniteSet(All)
  BY <1>2, FS_Surjection, ThreadsAssumption
<1>4. \A T \in All : IsFiniteSet(T)
  BY <1>1
<1>5. IsFiniteSet(UNION All)
  BY <1>3, <1>4, FS_UNION
<1> QED
  BY <1>5 DEF Posts

(* A thread inside a call is at an item of its script. *)
LEMMA CallOfScript ==
    ASSUME TypeOK, NEW t \in inside
    PROVE  /\ t \in Threads /\ at[t] \in DOMAIN Script[t] /\ at[t] \in Nat \ {0}
           /\ Op(t) \in {"post", "wait"} /\ Sem(t) \in Semamores
           /\ Script[t][at[t]] = <<Op(t), Sem(t)>>
<1>1. t \in Threads /\ ~Finished(t) /\ at[t] \in Nat \ {0}
  BY DEF TypeOK
<1>2. Script[t] \in Seq({"post", "wait"} \X Semamores)
  BY <1>1, ScriptAssumption
<1>3. DOMAIN Script[t] = 1 .. Len(Script[t]) /\ Len(Script[t]) \in Nat
  BY <1>2, LenProperties
<1>4. at[t] \in 1 .. Len(Script[t])
  BY <1>1, <1>3 DEF Finished
<1>5. Script[t][at[t]] \in {"post", "wait"} \X Semamores
  BY <1>2, <1>4, ElementOfSeq
<1> QED
  BY <1>1, <1>3, <1>4, <1>5 DEF Op, Sem

(* What is a post on s, spelled out. *)
LEMMA PostsAre ==
    ASSUME NEW s \in Semamores
    PROVE  \A p : p \in Posts(s) <=>
              \E t \in Threads : \E i \in DOMAIN Script[t] :
                  p = <<t, i>> /\ Script[t][i] = <<"post", s>>
  BY DEF Posts

(* The posts left are finitely many; a post done is not left any more. *)
LEMMA PostsLeftFinite ==
    ASSUME NEW s \in Semamores
    PROVE  IsFiniteSet(PostsLeft(s)) /\ Cardinality(PostsLeft(s)) \in Nat
<1>1. PostsLeft(s) \subseteq Posts(s)
  BY DEF PostsLeft
<1> QED
  BY <1>1, PostsFinite, FS_Subset, FS_CardinalityType

(* A call that returns takes its post, if it is one, out of those left. *)
LEMMA ReturnTakesPost ==
    ASSUME TypeOK, NEW t \in inside, Return(t), NEW s \in Semamores
    PROVE  PostsLeft(s)' = IF Op(t) = "post" /\ Sem(t) = s
                             THEN PostsLeft(s) \ {<<t, at[t]>>} ELSE PostsLeft(s)
<1>1. /\ t \in Threads /\ at[t] \in Nat \ {0} /\ at[t] \in DOMAIN Script[t]
      /\ Script[t][at[t]] = <<Op(t), Sem(t)>>
  BY CallOfScript
<1>2. at' = [at EXCEPT ![t] = @ + 1] /\ at \in [Threads -> Nat \ {0}]
  BY DEF Return, TypeOK
<1>3. ASSUME NEW u \in Threads, NEW i \in DOMAIN Script[u]
      PROVE  i >= at'[u] <=> i >= at[u] /\ <<u, i>> # <<t, at[t]>>
  <2>1. i \in Nat /\ at[u] \in Nat
    <3>1. Script[u] \in Seq({"post", "wait"} \X Semamores)
      BY ScriptAssumption
    <3>2. i \in 1 .. Len(Script[u]) /\ Len(Script[u]) \in Nat
      BY <3>1, LenProperties
    <3> QED
      BY <1>2, <3>2
  <2> QED
    BY <1>1, <1>2, <2>1
<1>4. \A p \in Posts(s) : p[2] >= at'[p[1]] <=> p[2] >= at[p[1]] /\ p # <<t, at[t]>>
  BY <1>3, PostsAre
<1>5. <<t, at[t]>> \in Posts(s) <=> Op(t) = "post" /\ Sem(t) = s
  BY <1>1, PostsAre
<1>6. PostsLeft(s)' = {p \in Posts(s) : p[2] >= at'[p[1]]}
  BY DEF PostsLeft
<1>7. PostsLeft(s)' = PostsLeft(s) \ {<<t, at[t]>>}
  BY <1>4, <1>6 DEF PostsLeft
<1>8. <<t, at[t]>> \in PostsLeft(s) => Op(t) = "post" /\ Sem(t) = s
  BY <1>5 DEF PostsLeft
<1> QED
  BY <1>7, <1>8

(* While room is left for every post, a post finds the semaphore not full. *)
LEMMA PostHasRoom ==
    ASSUME TypeOK, RoomForPosts, NEW t \in inside, Op(t) = "post", Ample(Sem(t))
    PROVE  /\ <<t, at[t]>> \in PostsLeft(Sem(t))
           /\ value[Sem(t)] < max_val[Sem(t)]
<1>1. /\ t \in Threads /\ at[t] \in Nat \ {0} /\ at[t] \in DOMAIN Script[t]
      /\ Script[t][at[t]] = <<"post", Sem(t)>> /\ Sem(t) \in Semamores
  BY CallOfScript
<1>2. <<t, at[t]>> \in PostsLeft(Sem(t))
  BY <1>1, PostsAre DEF PostsLeft
<1>3. Cardinality(PostsLeft(Sem(t))) \in Nat /\ Cardinality(PostsLeft(Sem(t))) # 0
  BY <1>1, <1>2, PostsLeftFinite, FS_EmptySet
<1>4. value[Sem(t)] \in Nat /\ max_val[Sem(t)] \in Nat
  BY <1>1, MaxValAssumption DEF TypeOK
<1> QED
  BY <1>1, <1>2, <1>3, <1>4 DEF RoomForPosts

(* The threads awake for a semaphore are finitely many. *)
LEMMA AwakeFinite ==
    ASSUME TypeOK, NEW s
    PROVE  IsFiniteSet(AwakeFor(s)) /\ Cardinality(AwakeFor(s)) \in Nat
<1>1. AwakeFor(s) \subseteq Threads
  BY DEF AwakeFor, TypeOK
<1> QED
  BY <1>1, ThreadsAssumption, FS_Subset, FS_CardinalityType

(* Nobody has called yet and all posts are left. *)
LEMMA SemamoreStarts == Init => SemamoreInv
<1> SUFFICES ASSUME Init PROVE SemamoreInv
  OBVIOUS
<1>1. TypeOK
  BY MaxValAssumption, InitialAssumption DEF Init, TypeOK
<1>2. RoomForPosts
  <2>1. ASSUME NEW s \in Semamores PROVE PostsLeft(s) = Posts(s)
    <3>1. ASSUME NEW p \in Posts(s) PROVE p[2] >= at[p[1]]
      <4>1. PICK t \in Threads : \E i \in DOMAIN Script[t] : p = <<t, i>>
        BY PostsAre
      <4>2. Script[t] \in Seq({"post", "wait"} \X Semamores)
        BY ScriptAssumption
      <4>3. PICK i \in 1 .. Len(Script[t]) : p = <<t, i>>
        BY <4>1, <4>2, LenProperties
      <4>4. Len(Script[t]) \in Nat
        BY <4>2, LenProperties
      <4> QED
        BY <4>3, <4>4 DEF Init
    <3> QED
      BY <3>1 DEF PostsLeft
  <2> QED
    BY <2>1 DEF RoomForPosts, Ample, Init
<1> QED
  BY <1>1, <1>2 DEF SemamoreInv, NoPostSleeps, UnitsAreClaimed, Sleepers, Init

(* A waiter that wakes, or a caller, only adds to those that are awake. *)
LEMMA WakeStep ==
    ASSUME SemamoreInv, NEW t \in Threads, Call(t) \/ SpuriousWakeup(t)
    PROVE  SemamoreInv'
<1>1. /\ TypeOK /\ UNCHANGED <<value, at>>
      /\ waiting' \subseteq waiting /\ inside \subseteq inside'
      /\ inside \ waiting \subseteq inside' \ waiting'
  BY DEF SemamoreInv, TypeOK, Call, SpuriousWakeup
<1>2. TypeOK'
  BY <1>1 DEF SemamoreInv, TypeOK, Call, SpuriousWakeup, Finished
<1>3. \A u : Op(u)' = Op(u) /\ Sem(u)' = Sem(u)
  BY <1>1 DEF Op, Sem
<1>4. RoomForPosts'
  BY <1>1 DEF SemamoreInv, RoomForPosts, PostsLeft
<1>5. NoPostSleeps'
  BY <1>1, <1>3 DEF SemamoreInv, NoPostSleeps, Sleepers
<1>6. UnitsAreClaimed'
  <2>1. ASSUME NEW s \in Semamores, Ample(s), NEW u \in Sleepers(s)', Op(u)' = "wait"
        PROVE  value'[s] <= Cardinality(AwakeFor(s)')
    <3>1. u \in Sleepers(s) /\ Op(u) = "wait"
      BY <1>1, <1>3, <2>1 DEF Sleepers
    <3>2. value[s] <= Cardinality(AwakeFor(s)) /\ value[s] \in Nat
      BY <1>1, <2>1, <3>1 DEF SemamoreInv, UnitsAreClaimed, TypeOK
    <3>3. AwakeFor(s) \subseteq AwakeFor(s)'
      BY <1>1, <1>3 DEF AwakeFor
    <3>4. IsFiniteSet(AwakeFor(s)')
      <4>1. AwakeFor(s)' \subseteq Threads
        BY <1>2 DEF AwakeFor, TypeOK
      <4> QED
        BY <4>1, ThreadsAssumption, FS_Subset
    <3>5. Cardinality(AwakeFor(s)) <= Cardinality(AwakeFor(s)')
      BY <3>3, <3>4, FS_Subset
    <3> QED
      BY <1>1, <3>2, <3>4, <3>5, AwakeFinite, FS_CardinalityType
  <2> QED
    BY <2>1 DEF UnitsAreClaimed
<1> QED
  BY <1>2, <1>4, <1>5, <1>6 DEF SemamoreInv

(* A wait blocks only at value 0; a post cannot block where there is room. *)
LEMMA BlockStep ==
    ASSUME SemamoreInv, NEW t \in Threads, WaitBlock(t) \/ PostBlock(t)
    PROVE  SemamoreInv'
<1>1. /\ TypeOK /\ t \in inside /\ t \notin waiting
      /\ UNCHANGED <<value, at, inside>> /\ waiting' = waiting \union {t}
  BY DEF SemamoreInv, WaitBlock, PostBlock, HoldsMutex, Block
<1>2. TypeOK'
  BY <1>1 DEF TypeOK, Finished
<1>3. \A u : Op(u)' = Op(u) /\ Sem(u)' = Sem(u)
  BY <1>1 DEF Op, Sem
<1>4. RoomForPosts'
  BY <1>1 DEF SemamoreInv, RoomForPosts, PostsLeft
<1>5. ASSUME Ample(Sem(t)) PROVE Op(t) = "wait" /\ value[Sem(t)] = 0
  <2>1. Sem(t) \in Semamores /\ value[Sem(t)] \in Nat /\ max_val[Sem(t)] \in Nat
    BY <1>1, CallOfScript, MaxValAssumption DEF TypeOK
  <2>2. ~PostBlock(t)
    <3>1. Op(t) = "post" => value[Sem(t)] < max_val[Sem(t)]
      BY <1>1, <1>5, PostHasRoom DEF SemamoreInv
    <3> QED
      BY <2>1, <3>1 DEF PostBlock, HoldsMutex
  <2> QED
    BY <2>2 DEF WaitBlock, HoldsMutex
<1>6. NoPostSleeps'
  BY <1>1, <1>3, <1>5 DEF SemamoreInv, NoPostSleeps, Sleepers
<1>7. UnitsAreClaimed'
  <2>1. ASSUME NEW s \in Semamores, Ample(s), NEW u \in Sleepers(s)', Op(u)' = "wait"
        PROVE  value'[s] <= Cardinality(AwakeFor(s)')
    <3>1. Cardinality(AwakeFor(s)') \in Nat
      <4>1. AwakeFor(s)' \subseteq Threads
        BY <1>2 DEF AwakeFor, TypeOK
      <4> QED
        BY <4>1, ThreadsAssumption, FS_Subset, FS_CardinalityType
    <3>2. CASE Sem(t) = s
      BY <1>1, <1>5, <2>1, <3>1, <3>2
    <3>3. CASE Sem(t) # s
      <4>1. AwakeFor(s)' = AwakeFor(s)
        BY <1>1, <1>3, <3>3 DEF AwakeFor
      <4>2. u \in Sleepers(s) /\ Op(u) = "wait"
        BY <1>1, <1>3, <2>1, <3>3 DEF Sleepers
      <4> QED
        BY <1>1, <2>1, <4>1, <4>2 DEF SemamoreInv, UnitsAreClaimed
    <3> QED
      BY <3>2, <3>3
  <2> QED
    BY <2>1 DEF UnitsAreClaimed
<1> QED
  BY <1>2, <1>4, <1>6, <1>7 DEF SemamoreInv

(* A wait that returns takes its unit and itself. *)
LEMMA WaitStep ==
    ASSUME SemamoreInv, NEW t \in Threads, Wait(t)
    PROVE  SemamoreInv'
<1>1. /\ TypeOK /\ t \in inside /\ t \notin waiting /\ Op(t) = "wait"
      /\ value[Sem(t)] # 0 /\ value' = [value EXCEPT ![Sem(t)] = @ - 1]
      /\ inside' = inside \ {t} /\ at' = [at EXCEPT ![t] = @ + 1] /\ Return(t)
      /\ waiting' = waiting
  BY DEF SemamoreInv, Wait, HoldsMutex, Return
<1>2. Sem(t) \in Semamores /\ at[t] \in Nat \ {0}
  BY <1>1, CallOfScript
<1>3. \A s \in Semamores : /\ value[s] \in Nat /\ max_val[s] \in Nat /\ value'[s] \in Nat
                           /\ value'[s] = IF s = Sem(t) THEN value[s] - 1 ELSE value[s]
                           /\ value'[s] <= max_val[s]
  <2>1. /\ value \in [Semamores -> Nat] /\ max_val \in [Semamores -> Nat]
        /\ \A s \in Semamores : value[s] <= max_val[s]
    BY <1>1, MaxValAssumption DEF TypeOK
  <2>2. \A s \in Semamores : value'[s] = IF s = Sem(t) THEN value[s] - 1 ELSE value[s]
    BY <1>1, <1>2, <2>1
  <2> QED
    BY <1>1, <1>2, <2>1, <2>2
<1>4. \A u : u # t => Op(u)' = Op(u) /\ Sem(u)' = Sem(u) /\ (Finished(u)' <=> Finished(u))
  BY <1>1 DEF Op, Sem, Finished, TypeOK
<1>5. TypeOK'
  <2>1. value' \in [Semamores -> Nat] /\ \A s \in Semamores : value'[s] <= max_val[s]
    <3>1. value' = [s \in Semamores |-> value'[s]]
      BY <1>1 DEF TypeOK
    <3> QED
      BY <1>3, <3>1
  <2>2. at' \in [Threads -> Nat \ {0}]
    BY <1>1 DEF TypeOK
  <2>3. waiting' \subseteq inside' /\ inside' \subseteq {u \in Threads : ~Finished(u)'}
    BY <1>1, <1>4 DEF TypeOK
  <2> QED
    BY <2>1, <2>2, <2>3 DEF TypeOK
<1>6. RoomForPosts'
  <2>1. ASSUME NEW s \in Semamores, Ample(s)
        PROVE  value'[s] + Cardinality(PostsLeft(s)') <= max_val[s]
    <3>1. PostsLeft(s)' = PostsLeft(s)
      BY <1>1, ReturnTakesPost
    <3> QED
      BY <1>3, <2>1, <3>1, PostsLeftFinite DEF SemamoreInv, RoomForPosts
  <2> QED
    BY <2>1 DEF RoomForPosts
<1>7. \A s : Sleepers(s)' = Sleepers(s)
  BY <1>1, <1>4 DEF Sleepers
<1>8. NoPostSleeps'
  BY <1>1, <1>4, <1>7 DEF SemamoreInv, NoPostSleeps, Sleepers
<1>9. UnitsAreClaimed'
  <2>1. ASSUME NEW s \in Semamores, Ample(s), NEW u \in Sleepers(s)', Op(u)' = "wait"
        PROVE  value'[s] <= Cardinality(AwakeFor(s)')
    <3>1. u \in Sleepers(s) /\ Op(u) = "wait"
      BY <1>1, <1>4, <1>7, <2>1 DEF Sleepers
    <3>2. value[s] <= Cardinality(AwakeFor(s))
      BY <2>1, <3>1 DEF SemamoreInv, UnitsAreClaimed
    <3>3. AwakeFor(s)' = AwakeFor(s) \ {t} /\ (t \in AwakeFor(s) <=> Sem(t) = s)
      BY <1>1, <1>4 DEF AwakeFor
    <3>4. Cardinality(AwakeFor(s)') =
             IF Sem(t) = s THEN Cardinality(AwakeFor(s)) - 1 ELSE Cardinality(AwakeFor(s))
      BY <1>1, <3>3, AwakeFinite, FS_RemoveElement
    <3> QED
      BY <1>1, <1>3, <3>2, <3>4, AwakeFinite
  <2> QED
    BY <2>1 DEF UnitsAreClaimed
<1> QED
  BY <1>5, <1>6, <1>8, <1>9 DEF SemamoreInv

(* A post adds a unit and wakes a thread, which is one that waits for it. *)
LEMMA PostStep ==
    ASSUME SemamoreInv, NEW t \in Threads, Post(t)
    PROVE  SemamoreInv'
<1>1. /\ TypeOK /\ t \in inside /\ t \notin waiting /\ Op(t) = "post"
      /\ value[Sem(t)] # max_val[Sem(t)] /\ value' = [value EXCEPT ![Sem(t)] = @ + 1]
      /\ inside' = inside \ {t} /\ at' = [at EXCEPT ![t] = @ + 1] /\ Return(t)
      /\ Signal(Sem(t))
  BY DEF SemamoreInv, Post, HoldsMutex, Return
<1>2. Sem(t) \in Semamores /\ at[t] \in Nat \ {0}
  BY <1>1, CallOfScript
<1>3. \A s \in Semamores : /\ value[s] \in Nat /\ max_val[s] \in Nat /\ value'[s] \in Nat
                           /\ value'[s] = IF s = Sem(t) THEN value[s] + 1 ELSE value[s]
                           /\ value'[s] <= max_val[s]
  <2>1. /\ value \in [Semamores -> Nat] /\ max_val \in [Semamores -> Nat]
        /\ \A s \in Semamores : value[s] <= max_val[s]
    BY <1>1, MaxValAssumption DEF TypeOK
  <2>2. \A s \in Semamores : value'[s] = IF s = Sem(t) THEN value[s] + 1 ELSE value[s]
    BY <1>1, <1>2, <2>1
  <2> QED
    BY <1>1, <1>2, <2>1, <2>2
<1>4. \A u : u # t => Op(u)' = Op(u) /\ Sem(u)' = Sem(u) /\ (Finished(u)' <=> Finished(u))
  BY <1>1 DEF Op, Sem, Finished, TypeOK
<1>5. /\ waiting' \subseteq waiting
      /\ \A u \in waiting \ waiting' : Sem(u) = Sem(t)
      /\ Sleepers(Sem(t)) # {} => \E u \in Sleepers(Sem(t)) : waiting' = waiting \ {u}
  BY <1>1 DEF Signal, Sleepers
<1>6. TypeOK'
  <2>1. value' \in [Semamores -> Nat] /\ \A s \in Semamores : value'[s] <= max_val[s]
    <3>1. value' = [s \in Semamores |-> value'[s]]
      BY <1>1 DEF TypeOK
    <3> QED
      BY <1>3, <3>1
  <2>2. at' \in [Threads -> Nat \ {0}]
    BY <1>1 DEF TypeOK
  <2>3. waiting' \subseteq inside' /\ inside' \subseteq {u \in Threads : ~Finished(u)'}
    BY <1>1, <1>4, <1>5 DEF TypeOK
  <2> QED
    BY <2>1, <2>2, <2>3 DEF TypeOK
<1>7. RoomForPosts'
  <2>1. ASSUME NEW s \in Semamores, Ample(s)
        PROVE  value'[s] + Cardinality(PostsLeft(s)') <= max_val[s]
    <3>1. CASE Sem(t) = s
      <4>1. PostsLeft(s)' = PostsLeft(s) \ {<<t, at[t]>>}
        BY <1>1, <3>1, ReturnTakesPost
      <4>2. <<t, at[t]>> \in PostsLeft(s)
        BY <1>1, <2>1, <3>1, PostHasRoom DEF SemamoreInv
      <4>3. Cardinality(PostsLeft(s)') = Cardinality(PostsLeft(s)) - 1
        BY <4>1, <4>2, PostsLeftFinite, FS_RemoveElement
      <4>4. value[s] + Cardinality(PostsLeft(s)) <= max_val[s]
        BY <2>1 DEF SemamoreInv, RoomForPosts
      <4> QED
        BY <1>3, <3>1, <4>3, <4>4, PostsLeftFinite
    <3>2. CASE Sem(t) # s
      <4>1. PostsLeft(s)' = PostsLeft(s)
        BY <1>1, <3>2, ReturnTakesPost
      <4> QED
        BY <1>3, <2>1, <3>2, <4>1 DEF SemamoreInv, RoomForPosts
    <3> QED
      BY <3>1, <3>2
  <2> QED
    BY <2>1 DEF RoomForPosts
<1>8. NoPostSleeps'
  BY <1>1, <1>4, <1>5 DEF SemamoreInv, NoPostSleeps, Sleepers
<1>9. UnitsAreClaimed'
  <2>1. ASSUME NEW s \in Semamores, Ample(s), NEW u \in Sleepers(s)', Op(u)' = "wait"
        PROVE  value'[s] <= Cardinality(AwakeFor(s)')
    <3>1. u \in Sleepers(s) /\ Op(u) = "wait" /\ u # t
      BY <1>1, <1>4, <1>5, <2>1 DEF Sleepers
    <3>2. value[s] <= Cardinality(AwakeFor(s))
      BY <2>1, <3>1 DEF SemamoreInv, UnitsAreClaimed
    <3>3. CASE Sem(t) = s
      <4>1. PICK z \in Sleepers(s) : waiting' = waiting \ {z}
        BY <1>5, <3>1, <3>3
      <4>2. Op(z) = "wait" /\ Sem(z) = s /\ z # t /\ z \in inside /\ z \in waiting
        BY <1>1, <2>1, <4>1 DEF SemamoreInv, NoPostSleeps, Sleepers, TypeOK
      <4>3. AwakeFor(s)' = AwakeFor(s) \union {z} /\ z \notin AwakeFor(s)
        BY <1>1, <1>4, <4>1, <4>2 DEF AwakeFor
      <4>4. Cardinality(AwakeFor(s)') = Cardinality(AwakeFor(s)) + 1
        BY <1>1, <4>3, AwakeFinite, FS_AddElement
      <4> QED
        BY <1>1, <1>3, <3>2, <3>3, <4>4, AwakeFinite
    <3>4. CASE Sem(t) # s
      <4>1. AwakeFor(s)' = AwakeFor(s)
        BY <1>1, <1>4, <1>5, <3>4 DEF AwakeFor
      <4> QED
        BY <1>3, <3>2, <3>4, <4>1
    <3> QED
      BY <3>3, <3>4
  <2> QED
    BY <2>1 DEF UnitsAreClaimed
<1> QED
  BY <1>6, <1>7, <1>8, <1>9 DEF SemamoreInv

(* Every step of every thread keeps the invariant. *)
LEMMA SemamoreKeeps == SemamoreInv /\ [Next]_vars => SemamoreInv'
<1> SUFFICES ASSUME SemamoreInv, [Next]_vars PROVE SemamoreInv'
  OBVIOUS
<1>1. ASSUME NEW t \in Threads, Step(t) \/ SpuriousWakeup(t) PROVE SemamoreInv'
  BY <1>1, WakeStep, BlockStep, WaitStep, PostStep DEF Step
<1>2. ASSUME UNCHANGED vars PROVE SemamoreInv'
  <2>1. UNCHANGED <<value, at, inside, waiting>>
    BY <1>2 DEF vars
  <2>2. TypeOK' /\ RoomForPosts'
    BY <2>1 DEF SemamoreInv, TypeOK, Finished, RoomForPosts, PostsLeft
  <2>3. \A s : Sleepers(s)' = Sleepers(s) /\ AwakeFor(s)' = AwakeFor(s)
    BY <2>1 DEF Sleepers, AwakeFor, Op, Sem
  <2>4. NoPostSleeps' /\ UnitsAreClaimed'
    BY <2>1, <2>3 DEF SemamoreInv, NoPostSleeps, UnitsAreClaimed, Op
  <2> QED
    BY <2>2, <2>4 DEF SemamoreInv
<1> QED
  BY <1>1, <1>2 DEF Next, Joined

-----------------------------------------------------------------------------
(***************************************************************************)
(* The invariant holds in every reachable state of the semaphores.         *)
(***************************************************************************)
THEOREM SemamoreInvariance == Spec => []SemamoreInv
  BY SemamoreStarts, SemamoreKeeps, PTL DEF Spec

(* The variables of the semaphores and their threads keep their types. *)
THEOREM SemamoreTypes == Spec => []TypeOK
<1>1. SemamoreInv => TypeOK
  BY DEF SemamoreInv
<1> QED
  BY <1>1, SemamoreInvariance, PTL

(***************************************************************************)
(* For any number of threads and any calls of them, the value stays within *)
(* 0 and max_val, and one signal per semm_post is enough where no post can *)
(* find the semaphore full.                                                *)
(***************************************************************************)
THEOREM SemamoreSound == Spec => []SemamoreIsSound
<1>1. SemamoreInv => SemamoreIsSound
  BY MaxValAssumption DEF SemamoreInv, TypeOK, SemamoreIsSound
<1> QED
  BY <1>1, SemamoreInvariance, PTL

-----------------------------------------------------------------------------
(* NonstopClient. *)

(* b is what is left of the answer a after n bytes. *)
LeftOf(b, a, n) ==
    /\ b \in Seq(Nat) /\ Len(a) = n + Len(b)
    /\ \A i \in 1..Len(b) : b[i] = a[n + i]

(* The part d of the answer has been kept, the size before it read, and b  *)
(* is left.                                                                *)
KeptOf(d, b) ==
    /\ d \in Seq(Nat) /\ LeftOf(b, answer, 4 + Len(d))
    /\ \A i \in 1..Len(d) : answer[4 + i] = d[i]

Answered == Len(answer) >= 2 /\ answer[1] = okWord /\ answer[2] = newline

Unanswered == clStep \in {"args", "connect", "request", "stat", "size", "body", "header"}

ClientTypes ==
    /\ answer \in Seq(Nat) /\ inbox \in Seq(Nat) /\ shown \in Seq(Nat)
    /\ readsz \in Nat /\ writesz \in Nat /\ moved \in Nat
    /\ local \in LocalFiles \union Seq(Nat)

(* What GET and LIST have received so far goes to the file or is shown. *)
Received == IF Request = "GET" THEN local ELSE shown

ReceiverHolds ==
    /\ Unanswered => inbox = answer
    /\ Request # "PUT" /\ (Unanswered \/ clStep = "readsize") => shown = <<>> /\ moved = 0
    /\ Request = "GET" /\ clStep \in {"header", "readsize"} => local = <<>>
    /\ clStep \in {"readsize", "read"} => Answered /\ Request \in {"GET", "LIST"}
    /\ clStep = "readsize" => LeftOf(inbox, answer, 2)
    /\ clStep = "read" => Received \in Seq(Nat)
    /\ clStep = "read" /\ ~SizeCut =>
          /\ KeptOf(Received, inbox) /\ moved = Len(Received)
          /\ readsz = answer[3] + BASE * answer[4]

(* What PUT has sent is the beginning of a file that nobody changed. *)
SenderHolds ==
    /\ clStep \in {"stat", "size", "body"} => Request = "PUT"
    /\ Request = "PUT" =>
        /\ clStep \in {"args", "connect", "request", "stat", "size"} => sentBody = <<>> /\ moved = 0
        /\ clStep \in {"size", "body", "header"} => local \in Seq(Nat)
        /\ clStep \in {"size", "body", "header"} /\ local = wasLocal => writesz = Len(local)
        /\ clStep \in {"body", "header"} /\ local = wasLocal =>
              sentSize = Digits(Len(local)) /\ sentBody = SubSeq(local, 1, moved)
        /\ clStep \in {"body", "header"} /\ local = wasLocal => moved <= Len(local)
        /\ clStep = "header" /\ local = wasLocal => sentBody = local

ClientInv == ClientTypes /\ ReceiverHolds /\ SenderHolds /\ ClientIsTruthful

LEMMA LeastPlace ==
  ASSUME NEW S \in SUBSET Nat, S # {}
  PROVE  \E m \in S : \A n \in S : m <= n
  <1>1. PICK m \in S : \A n \in S : ~(<<n, m>> \in OpToRel(<, Nat))
    BY NatLessThanWellFounded, WFMin, Zenon
  <1>2. \A n \in S : ~(n < m)
    BY <1>1 DEF OpToRel
  <1>3. QED  BY <1>2

(* Taking n bytes from the front of b, and what is left then. *)
LEMMA FrontOf ==
  ASSUME NEW b \in Seq(Nat), NEW n \in 0..Len(b)
  PROVE  /\ SubSeq(b, 1, n) \in Seq(Nat) /\ Len(SubSeq(b, 1, n)) = n
         /\ \A i \in 1..n : SubSeq(b, 1, n)[i] = b[i]
  <1>1. Len(b) \in Nat /\ n \in Nat /\ n <= Len(b)
    BY LenProperties
  <1>2. \A i \in 1..n : i \in 1..Len(b)
    BY <1>1
  <1>3. \A i \in 1..n : b[i] \in Nat
    BY <1>2, ElementOfSeq
  <1>4. 1 \in Int /\ n \in Int /\ n - 1 + 1 = n
    BY <1>1
  <1> DEFINE f == SubSeq(b, 1, n)
  <1>5. /\ f \in Seq(Nat) /\ Len(f) = (IF 1 <= n THEN n ELSE 0)
        /\ \A i \in 1..n : f[i] = b[1 + i - 1]
    BY <1>3, <1>4, SubSeqProperties
  <1> HIDE DEF f
  <1>6. Len(f) = n
    BY <1>1, <1>5
  <1>7. \A i \in 1..n : 1 + i - 1 = i
    BY <1>1
  <1>8. QED  BY <1>5, <1>6, <1>7 DEF f

LEMMA RestOf ==
  ASSUME NEW b \in Seq(Nat), NEW n \in 0..Len(b)
  PROVE  LeftOf(SubSeq(b, n + 1, Len(b)), b, n)
  <1>1. Len(b) \in Nat /\ n \in Nat /\ n <= Len(b)
    BY LenProperties
  <1>2. \A i \in n + 1..Len(b) : i \in 1..Len(b)
    BY <1>1
  <1>3. \A i \in n + 1..Len(b) : b[i] \in Nat
    BY <1>2, ElementOfSeq
  <1>4. n + 1 \in Int /\ Len(b) \in Int /\ Len(b) - (n + 1) + 1 = Len(b) - n
    BY <1>1
  <1> DEFINE f == SubSeq(b, n + 1, Len(b))
  <1>5. /\ f \in Seq(Nat) /\ Len(f) = (IF n + 1 <= Len(b) THEN Len(b) - n ELSE 0)
        /\ \A i \in 1..Len(b) - n : f[i] = b[(n + 1) + i - 1]
    BY <1>3, <1>4, SubSeqProperties
  <1> HIDE DEF f
  <1>6. Len(f) = Len(b) - n
    <2>1. CASE n + 1 <= Len(b)
      BY <1>5, <2>1
    <2>2. CASE ~(n + 1 <= Len(b))
      <3>1. Len(b) - n = 0
        BY <1>1, <2>2
      <3>2. QED  BY <1>5, <2>2, <3>1
    <2>3. QED  BY <2>1, <2>2
  <1>7. \A i \in 1..Len(b) - n : (n + 1) + i - 1 = n + i
    BY <1>1
  <1>8. \A i \in 1..Len(f) : f[i] = b[n + i]
    BY <1>5, <1>6, <1>7
  <1>9. Len(b) = n + Len(f)
    BY <1>1, <1>6
  <1>10. QED  BY <1>5, <1>8, <1>9 DEF LeftOf, f

LEMMA LeftOfLeft ==
  ASSUME NEW a \in Seq(Nat), NEW b, NEW c, NEW n \in Nat, NEW k \in Nat,
         LeftOf(b, a, n), LeftOf(c, b, k)
  PROVE  LeftOf(c, a, n + k)
  <1>1. Len(a) \in Nat /\ Len(b) \in Nat /\ Len(c) \in Nat /\ Len(a) = n + Len(b)
        /\ Len(b) = k + Len(c) /\ c \in Seq(Nat)
    BY LenProperties DEF LeftOf
  <1>2. Len(a) = (n + k) + Len(c)
    BY <1>1
  <1>3. ASSUME NEW i \in 1..Len(c)  PROVE  c[i] = a[(n + k) + i]
    <2>1. k + i \in 1..Len(b) /\ n + (k + i) = (n + k) + i
      BY <1>1
    <2>2. c[i] = b[k + i]
      BY DEF LeftOf
    <2>3. b[k + i] = a[n + (k + i)]
      BY <2>1 DEF LeftOf
    <2>4. QED  BY <2>1, <2>2, <2>3
  <1>4. QED  BY <1>1, <1>2, <1>3 DEF LeftOf

(* read_all gives the front of the input and leaves the rest. *)
LEMMA ReadAll ==
  ASSUME inbox \in Seq(Nat), NEW n \in Nat
  PROVE  /\ Got(n) \in Seq(Nat) /\ Len(Got(n)) = (IF Len(inbox) < n THEN Len(inbox) ELSE n)
         /\ \A i \in 1..Len(Got(n)) : Got(n)[i] = inbox[i]
         /\ LeftOf(Rest(n), inbox, Len(Got(n)))
  <1>1. Len(inbox) \in Nat
    BY LenProperties
  <1>2. CASE Len(inbox) < n
    <2>1. Got(n) = inbox /\ Rest(n) = <<>>
      BY <1>2 DEF Got, Rest
    <2>2. <<>> \in Seq(Nat) /\ Len(<<>>) = 0
      OBVIOUS
    <2>3. LeftOf(Rest(n), inbox, Len(inbox))
      BY <1>1, <2>1, <2>2 DEF LeftOf
    <2>4. QED  BY <1>2, <2>1, <2>3
  <1>3. CASE ~(Len(inbox) < n)
    <2>1. Got(n) = SubSeq(inbox, 1, n) /\ Rest(n) = SubSeq(inbox, n + 1, Len(inbox))
      BY <1>3 DEF Got, Rest
    <2>2. n \in 0..Len(inbox)
      BY <1>1, <1>3
    <2>3. /\ Got(n) \in Seq(Nat) /\ Len(Got(n)) = n
          /\ \A i \in 1..n : Got(n)[i] = inbox[i]
      BY <2>1, <2>2, FrontOf
    <2>4. LeftOf(Rest(n), inbox, n)
      BY <2>1, <2>2, RestOf
    <2>5. QED  BY <1>3, <2>3, <2>4
  <1>4. QED  BY <1>2, <1>3

LEMMA KeptGrows ==
  ASSUME answer \in Seq(Nat), inbox \in Seq(Nat), NEW d, KeptOf(d, inbox), NEW n \in Nat
  PROVE  KeptOf(d \o Got(n), Rest(n)) /\ Len(d \o Got(n)) = Len(d) + Len(Got(n))
  <1> DEFINE g == Got(n)
  <1>1. /\ g \in Seq(Nat) /\ Len(g) \in Nat /\ LeftOf(Rest(n), inbox, Len(g))
        /\ \A i \in 1..Len(g) : g[i] = inbox[i]
    BY ReadAll, LenProperties
  <1>2. d \in Seq(Nat) /\ Len(d) \in Nat /\ LeftOf(inbox, answer, 4 + Len(d))
    BY LenProperties DEF KeptOf
  <1>3. Len(inbox) \in Nat /\ Len(Rest(n)) \in Nat /\ Len(inbox) = Len(g) + Len(Rest(n))
    BY <1>1, LenProperties DEF LeftOf
  <1> HIDE DEF g
  <1>4. /\ d \o g \in Seq(Nat) /\ Len(d \o g) = Len(d) + Len(g)
        /\ \A i \in 1..Len(d) + Len(g) : (d \o g)[i] = IF i <= Len(d) THEN d[i] ELSE g[i - Len(d)]
    BY <1>1, <1>2, ConcatProperties
  <1>5. LeftOf(Rest(n), answer, (4 + Len(d)) + Len(g))
    <2>1. 4 + Len(d) \in Nat
      BY <1>2
    <2>2. QED  BY <1>1, <1>2, <2>1, LeftOfLeft
  <1>6. (4 + Len(d)) + Len(g) = 4 + Len(d \o g)
    BY <1>1, <1>2, <1>4
  <1>7. ASSUME NEW i \in 1..Len(d \o g)  PROVE  answer[4 + i] = (d \o g)[i]
    <2>1. CASE i <= Len(d)
      <3>1. i \in 1..Len(d) /\ (d \o g)[i] = d[i]
        BY <1>1, <1>2, <1>4, <2>1
      <3>2. QED  BY <3>1 DEF KeptOf
    <2>2. CASE ~(i <= Len(d))
      <3>1. i - Len(d) \in 1..Len(g) /\ (d \o g)[i] = g[i - Len(d)]
        BY <1>1, <1>2, <1>4, <2>2
      <3>2. i - Len(d) \in 1..Len(inbox) /\ (4 + Len(d)) + (i - Len(d)) = 4 + i
        BY <1>1, <1>2, <1>3, <3>1
      <3>3. inbox[i - Len(d)] = answer[(4 + Len(d)) + (i - Len(d))]
        BY <1>2, <3>2 DEF LeftOf
      <3>4. QED  BY <1>1, <3>1, <3>2, <3>3
    <2>3. QED  BY <2>1, <2>2
  <1>8. QED  BY <1>4, <1>5, <1>6, <1>7 DEF KeptOf, g

LEMMA ClientStarts == ClientInit => ClientInv
  <1> SUFFICES ASSUME ClientInit PROVE ClientInv
    OBVIOUS
  <1>1. /\ clStep = "args" /\ sentBody = <<>> /\ answer \in Answers /\ inbox = answer
        /\ local \in LocalFiles /\ shown = <<>> /\ readsz = 0 /\ writesz = 0 /\ moved = 0
    BY DEF ClientInit
  <1>2. answer \in Seq(Nat) /\ <<>> \in Seq(Nat)
    BY <1>1, ClientAssumption
  <1>3. ClientTypes
    BY <1>1, <1>2 DEF ClientTypes
  <1>4. ReceiverHolds
    BY <1>1 DEF ReceiverHolds, Unanswered
  <1>5. SenderHolds
    BY <1>1 DEF SenderHolds
  <1>6. ClientIsTruthful
    BY <1>1 DEF ClientIsTruthful
  <1>7. QED  BY <1>3, <1>4, <1>5, <1>6 DEF ClientInv

(* A step that ends the client without success, or gives it up. *)
LEMMA ClientEnds ==
  ASSUME ClientInv, ClientTypes',
         clStep' \in {"exited", "killed", "overrun", "spin", "error"},
         clStep' = "exited" => clExit' # 0
  PROVE  ClientInv'
  <1>1. ReceiverHolds'
    BY DEF ReceiverHolds, Unanswered
  <1>2. SenderHolds'
    BY DEF SenderHolds
  <1>3. ClientIsTruthful'
    BY DEF ClientIsTruthful
  <1>4. QED  BY <1>1, <1>2, <1>3 DEF ClientInv

LEMMA EarlyKeeps == ASSUME ClientInv, check_args \/ ConnectToServer \/ Pipe  PROVE  ClientInv'
  <1>1. /\ UNCHANGED <<command, connection, answer, inbox, ending, local, wasLocal, shown, counters>>
        /\ \/ clStep = "args" /\ clStep' = "connect"
           \/ clStep = "connect" /\ clStep' = "request"
           \/ clStep' = "exited" /\ clExit' = 1
           \/ clStep' = "killed"
    BY DEF check_args, ConnectToServer, Pipe, Go, Leave
  <1>2. UNCHANGED <<command, sentBody, answer, inbox, local, wasLocal, shown, readsz, writesz, moved>>
    BY <1>1 DEF connection, counters
  <1>3. ClientTypes'
    BY <1>2 DEF ClientInv, ClientTypes
  <1>4. CASE clStep' \in {"connect", "request"}
    <2>1. clStep \in {"args", "connect"} /\ Request' = Request
      BY <1>1, <1>2, <1>4 DEF Request
    <2>2. ReceiverHolds'
      BY <1>2, <1>4, <2>1 DEF ClientInv, ReceiverHolds, Unanswered
    <2>3. SenderHolds'
      BY <1>2, <1>4, <2>1 DEF ClientInv, SenderHolds
    <2>4. ClientIsTruthful'
      BY <1>4 DEF ClientIsTruthful
    <2>5. QED  BY <1>3, <2>2, <2>3, <2>4 DEF ClientInv
  <1>5. CASE clStep' \in {"exited", "killed"}
    BY <1>1, <1>3, <1>5, ClientEnds
  <1>6. QED  BY <1>1, <1>4, <1>5

LEMMA RequestKeeps == ASSUME ClientInv, SendRequest  PROVE  ClientInv'
  <1>1. /\ clStep = "request"
        /\ local' = IF Request = "GET" THEN <<>> ELSE local
        /\ clStep' = IF Request = "PUT" THEN "stat" ELSE "header"
        /\ UNCHANGED <<command, sentBody, answer, inbox, wasLocal, shown, readsz, writesz, moved>>
    BY DEF SendRequest, Go, counters
  <1>2. Request' = Request
    BY <1>1 DEF Request
  <1>3. ClientTypes'
    BY <1>1 DEF ClientInv, ClientTypes
  <1>4. ReceiverHolds'
    BY <1>1, <1>2 DEF ClientInv, ReceiverHolds, Unanswered
  <1>5. SenderHolds'
    BY <1>1, <1>2 DEF ClientInv, SenderHolds
  <1>6. ClientIsTruthful'
    BY <1>1 DEF ClientIsTruthful
  <1>7. QED  BY <1>3, <1>4, <1>5, <1>6 DEF ClientInv

LEMMA StatKeeps == ASSUME ClientInv, Request = "PUT", Stat  PROVE  ClientInv'
  <1>1. /\ clStep = "stat"
        /\ UNCHANGED <<command, sentBody, answer, inbox, local, wasLocal, shown, readsz, moved>>
    BY DEF Stat, connection
  <1>2. Request' = Request
    BY <1>1 DEF Request
  <1>3. CASE local = NoFile
    <2>1. clStep' = "exited" /\ clExit' = 1 /\ writesz' = writesz
      BY <1>3 DEF Stat, Leave
    <2>2. ClientTypes'
      BY <1>1, <2>1 DEF ClientInv, ClientTypes
    <2>3. QED  BY <2>1, <2>2, ClientEnds
  <1>4. CASE local # NoFile
    <2>1. clStep' = "size" /\ writesz' = Len(local)
      BY <1>4 DEF Stat, Go
    <2>2. local \in Seq(Nat)
      BY <1>4, ClientAssumption DEF ClientInv, ClientTypes
    <2>3. Len(local) \in Nat
      BY <2>2, LenProperties
    <2>4. ClientTypes'
      BY <1>1, <2>1, <2>3 DEF ClientInv, ClientTypes
    <2>5. ReceiverHolds'
      BY <1>1, <1>2, <2>1 DEF ClientInv, ReceiverHolds, Unanswered
    <2>6. SenderHolds'
      BY <1>1, <1>2, <2>1, <2>2 DEF ClientInv, SenderHolds
    <2>7. ClientIsTruthful'
      BY <2>1 DEF ClientIsTruthful
    <2>8. QED  BY <2>4, <2>5, <2>6, <2>7 DEF ClientInv
  <1>5. QED  BY <1>3, <1>4

LEMMA SizeKeeps == ASSUME ClientInv, Request = "PUT", SendSize  PROVE  ClientInv'
  <1>1. /\ clStep = "size" /\ clStep' = "body" /\ sentSize' = Digits(writesz)
        /\ UNCHANGED <<command, sentBody, answer, inbox, local, wasLocal, shown, readsz, writesz, moved>>
    BY DEF SendSize, Go, counters
  <1>2. Request' = Request
    BY <1>1 DEF Request
  <1>3. ClientTypes'
    BY <1>1 DEF ClientInv, ClientTypes
  <1>4. ReceiverHolds'
    BY <1>1, <1>2 DEF ClientInv, ReceiverHolds, Unanswered
  <1>5. sentBody = <<>> /\ moved = 0 /\ local \in Seq(Nat) /\ (local = wasLocal => writesz = Len(local))
    BY <1>1 DEF ClientInv, SenderHolds
  <1>6. SubSeq(local, 1, 0) = <<>>
    BY SubSeqEmpty
  <1>7. Len(local) \in Nat
    BY <1>5, LenProperties
  <1>8. SenderHolds'
    BY <1>1, <1>2, <1>5, <1>6, <1>7 DEF SenderHolds
  <1>9. ClientIsTruthful'
    BY <1>1 DEF ClientIsTruthful
  <1>10. QED  BY <1>3, <1>4, <1>8, <1>9 DEF ClientInv

LEMMA PiecesMeet ==
  ASSUME NEW f \in Seq(Nat), NEW m \in Nat, NEW n \in Nat, m <= n, n <= Len(f)
  PROVE  /\ SubSeq(f, 1, m) \o SubSeq(f, m + 1, n) = SubSeq(f, 1, n)
         /\ Len(SubSeq(f, m + 1, n)) = n - m
  <1>1. Len(f) \in Nat
    BY LenProperties
  <1> DEFINE a == SubSeq(f, 1, m)
             b == SubSeq(f, m + 1, n)
             c == SubSeq(f, 1, n)
  <1>2. m \in 0..Len(f) /\ n \in 0..Len(f)
    BY <1>1
  <1>3. a \in Seq(Nat) /\ Len(a) = m /\ \A i \in 1..m : a[i] = f[i]
    BY <1>2, FrontOf
  <1>4. c \in Seq(Nat) /\ Len(c) = n /\ \A i \in 1..n : c[i] = f[i]
    BY <1>2, FrontOf
  <1>5. \A i \in m + 1..n : i \in 1..Len(f)
    BY <1>1
  <1>6. \A i \in m + 1..n : f[i] \in Nat
    BY <1>5, ElementOfSeq
  <1>7. m + 1 \in Int /\ n \in Int /\ n - (m + 1) + 1 = n - m
    OBVIOUS
  <1> HIDE DEF a, b, c
  <1>8. /\ b \in Seq(Nat) /\ Len(b) = (IF m + 1 <= n THEN n - m ELSE 0)
        /\ \A i \in 1..n - m : b[i] = f[(m + 1) + i - 1]
    <2>1. /\ b \in Seq(Nat) /\ Len(b) = (IF m + 1 <= n THEN n - (m + 1) + 1 ELSE 0)
          /\ \A i \in 1..n - (m + 1) + 1 : b[i] = f[(m + 1) + i - 1]
      BY <1>6, <1>7, SubSeqProperties DEF b
    <2>2. QED  BY ONLY <1>7, <2>1
  <1>9. Len(b) = n - m
    <2>1. CASE m + 1 <= n
      BY <1>8, <2>1
    <2>2. CASE ~(m + 1 <= n)
      <3>1. n - m = 0
        BY <2>2
      <3>2. QED  BY <1>8, <2>2, <3>1
    <2>3. QED  BY <2>1, <2>2
  <1>10. /\ a \o b \in Seq(Nat) /\ Len(a \o b) = Len(a) + Len(b)
         /\ \A i \in 1..Len(a) + Len(b) : (a \o b)[i] = IF i <= Len(a) THEN a[i] ELSE b[i - Len(a)]
    BY <1>3, <1>8, ConcatProperties
  <1>11. Len(a) + Len(b) = n
    BY <1>3, <1>9
  <1>12. ASSUME NEW i \in 1..n  PROVE  (a \o b)[i] = c[i]
    <2>1. CASE i <= m
      <3>1. i \in 1..m
        BY <2>1
      <3>2. QED  BY <1>3, <1>4, <1>10, <1>11, <2>1, <3>1
    <2>2. CASE ~(i <= m)
      <3>1. i - m \in 1..n - m /\ (m + 1) + (i - m) - 1 = i
        BY <2>2
      <3>2. (a \o b)[i] = b[i - m]
        BY <1>3, <1>10, <1>11, <2>2
      <3>3. QED  BY <1>4, <1>8, <3>1, <3>2
    <2>3. QED  BY <2>1, <2>2
  <1>13. a \o b = c
    BY <1>4, <1>10, <1>11, <1>12, SeqEqual
  <1>14. QED  BY <1>9, <1>13 DEF a, b, c

LEMMA BufferKeeps == ASSUME ClientInv, Request = "PUT", SendBuffer  PROVE  ClientInv'
  <1>1. /\ clStep = "body"
        /\ UNCHANGED <<command, sentSize, answer, inbox, local, wasLocal, shown, readsz, writesz>>
    BY DEF SendBuffer
  <1>2. Request' = Request /\ local \in Seq(Nat) /\ moved \in Nat /\ writesz \in Nat
    BY <1>1 DEF Request, ClientInv, SenderHolds, ClientTypes
  <1>3. Len(local) \in Nat /\ BUFFER \in Nat \ {0}
    BY <1>2, LenProperties, ClientAssumption
  <1>4. local = wasLocal => /\ writesz = Len(local) /\ sentSize = Digits(Len(local))
                            /\ sentBody = SubSeq(local, 1, moved) /\ moved <= Len(local)
    BY <1>1 DEF ClientInv, SenderHolds
  <1>5. CASE moved < writesz
    <2> DEFINE n == IF moved + BUFFER < Len(local) THEN moved + BUFFER ELSE Len(local)
    <2>1. /\ sentBody' = sentBody \o SubSeq(local, moved + 1, n)
          /\ moved' = moved + Len(SubSeq(local, moved + 1, n)) /\ clStep' = "body"
      BY <1>5 DEF SendBuffer, Available, Go
    <2>2. n \in Nat /\ n <= Len(local)
      BY <1>2, <1>3
    <2>3. moved <= Len(local) => moved <= n
      BY <1>2, <1>3
    <2> HIDE DEF n
    <2>4. SubSeq(local, moved + 1, n) \in Seq(Nat)
      <3>1. \A i \in moved + 1..n : i \in 1..Len(local)
        BY <1>2, <1>3, <2>2
      <3>2. \A i \in moved + 1..n : local[i] \in Nat
        BY <1>2, <3>1, ElementOfSeq
      <3>3. moved + 1 \in Int /\ n \in Int
        BY <1>2, <2>2
      <3>4. QED  BY <3>2, <3>3, SubSeqProperties
    <2>5. moved' \in Nat
      BY <1>2, <2>1, <2>4, LenProperties
    <2>6. ClientTypes'
      BY <1>1, <2>5 DEF ClientInv, ClientTypes
    <2>7. ReceiverHolds'
      BY <1>1, <1>2, <2>1 DEF ClientInv, ReceiverHolds, Unanswered
    <2>8. ASSUME local = wasLocal
          PROVE  sentBody' = SubSeq(local, 1, moved') /\ moved' <= Len(local)
      <3>1. moved <= n
        BY <1>4, <2>3, <2>8
      <3>2. /\ SubSeq(local, 1, moved) \o SubSeq(local, moved + 1, n) = SubSeq(local, 1, n)
            /\ Len(SubSeq(local, moved + 1, n)) = n - moved
        BY <1>2, <2>2, <3>1, PiecesMeet
      <3>3. moved' = n
        BY <1>2, <2>1, <2>2, <3>2
      <3>4. QED  BY <1>4, <2>1, <2>2, <2>8, <3>2, <3>3
    <2>9. SenderHolds'
      BY <1>1, <1>2, <1>4, <2>1, <2>8 DEF SenderHolds
    <2>10. ClientIsTruthful'
      BY <2>1 DEF ClientIsTruthful
    <2>11. QED  BY <2>6, <2>7, <2>9, <2>10 DEF ClientInv
  <1>6. CASE ~(moved < writesz)
    <2>1. clStep' = "header" /\ sentBody' = sentBody /\ moved' = moved
      BY <1>6 DEF SendBuffer, Go
    <2>2. ClientTypes'
      BY <1>1, <2>1 DEF ClientInv, ClientTypes
    <2>3. ReceiverHolds'
      BY <1>1, <1>2, <2>1 DEF ClientInv, ReceiverHolds, Unanswered
    <2>4. ASSUME local = wasLocal  PROVE  sentBody = local
      <3>1. moved = Len(local)
        BY <1>2, <1>3, <1>4, <1>6, <2>4
      <3>2. Len(local) \in 0..Len(local)
        BY <1>3
      <3>3. /\ SubSeq(local, 1, Len(local)) \in Seq(Nat) /\ Len(SubSeq(local, 1, Len(local))) = Len(local)
            /\ \A i \in 1..Len(local) : SubSeq(local, 1, Len(local))[i] = local[i]
        BY <1>2, <3>2, FrontOf
      <3>4. SubSeq(local, 1, Len(local)) = local
        BY <1>2, <3>3, SeqEqual
      <3>5. QED  BY <1>4, <2>4, <3>1, <3>4
    <2>5. SenderHolds'
      BY <1>1, <1>2, <1>4, <2>1, <2>4 DEF SenderHolds
    <2>6. ClientIsTruthful'
      BY <2>1 DEF ClientIsTruthful
    <2>7. QED  BY <2>2, <2>3, <2>5, <2>6 DEF ClientInv
  <1>7. QED  BY <1>5, <1>6

LEMMA ChangeKeeps == ASSUME ClientInv, Request = "PUT", Change  PROVE  ClientInv'
  <1>1. /\ clStep \in {"size", "body"} /\ local = wasLocal
        /\ local' \in LocalFiles \ {NoFile} /\ local' # local
        /\ UNCHANGED <<clStep, command, sentBody, answer, inbox, wasLocal, shown, readsz, writesz, moved>>
    BY DEF Change, connection, counters
  <1>2. Request' = Request /\ local' \in Seq(Nat) /\ local' # wasLocal'
    BY <1>1, ClientAssumption DEF Request
  <1>3. ClientTypes'
    BY <1>1, <1>2 DEF ClientInv, ClientTypes
  <1>4. ReceiverHolds'
    BY <1>1, <1>2 DEF ClientInv, ReceiverHolds, Unanswered
  <1>5. SenderHolds'
    BY <1>1, <1>2 DEF ClientInv, SenderHolds
  <1>6. ClientIsTruthful'
    BY <1>1 DEF ClientIsTruthful
  <1>7. QED  BY <1>3, <1>4, <1>5, <1>6 DEF ClientInv

(* get_response_header: a line of OK is the first two bytes. *)
LEMMA FirstLine ==
  ASSUME inbox \in Seq(Nat), LineEnds # {}
  PROVE  /\ FirstEnd \in 1..Len(inbox)
         /\ LeftOf(SubSeq(inbox, FirstEnd + 1, Len(inbox)), inbox, FirstEnd)
         /\ SubSeq(inbox, 1, FirstEnd) = <<okWord, newline>> =>
               FirstEnd = 2 /\ inbox[1] = okWord /\ inbox[2] = newline
  <1>1. Len(inbox) \in Nat
    BY LenProperties
  <1>2. LineEnds \in SUBSET Nat
    BY <1>1 DEF LineEnds
  <1>3. PICK m \in LineEnds : \A j \in LineEnds : m <= j
    BY <1>2, LeastPlace
  <1>4. FirstEnd \in LineEnds
    BY <1>3 DEF FirstEnd
  <1>5. FirstEnd \in 1..Len(inbox) /\ FirstEnd \in 0..Len(inbox)
    BY <1>1, <1>4 DEF LineEnds
  <1>6. LeftOf(SubSeq(inbox, FirstEnd + 1, Len(inbox)), inbox, FirstEnd)
    BY <1>5, RestOf
  <1> DEFINE line == SubSeq(inbox, 1, FirstEnd)
  <1>7. Len(line) = FirstEnd /\ \A i \in 1..FirstEnd : line[i] = inbox[i]
    BY <1>5, FrontOf
  <1> HIDE DEF line
  <1>8. ASSUME line = <<okWord, newline>>
        PROVE  FirstEnd = 2 /\ inbox[1] = okWord /\ inbox[2] = newline
    <2>1. Len(line) = 2 /\ line[1] = okWord /\ line[2] = newline
      BY <1>8
    <2>2. QED  BY <1>7, <2>1
  <1>9. QED  BY <1>5, <1>6, <1>8 DEF line

LEMMA AnsweredOk ==
  ASSUME answer \in Seq(Nat), Answered
  PROVE  SubSeq(answer, 1, 2) = <<okWord, newline>>
  <1>1. Len(answer) \in Nat /\ 2 \in 0..Len(answer)
    BY LenProperties DEF Answered
  <1> DEFINE line == SubSeq(answer, 1, 2)
  <1>2. line \in Seq(Nat) /\ Len(line) = 2 /\ \A i \in 1..2 : line[i] = answer[i]
    BY <1>1, FrontOf
  <1> HIDE DEF line
  <1>3. line[1] = okWord /\ line[2] = newline
    BY <1>2 DEF Answered
  <1>4. okWord \in Nat /\ newline \in Nat
    BY DEF okWord, newline
  <1>5. <<okWord, newline>> \in Seq(Nat) /\ Len(<<okWord, newline>>) = 2
    BY <1>4
  <1>6. \A i \in 1..2 : line[i] = <<okWord, newline>>[i]
    BY <1>3
  <1>7. line = <<okWord, newline>>
    BY <1>2, <1>5, <1>6, SeqEqual
  <1>8. QED  BY <1>7 DEF line

LEMMA HeaderKeeps == ASSUME ClientInv, get_response_header  PROVE  ClientInv'
  <1>1. /\ clStep \in {"header", "error"}
        /\ UNCHANGED <<command, sentSize, sentBody, answer, local, wasLocal, shown, readsz, writesz, moved>>
    BY DEF get_response_header, connection, counters
  <1>2. inbox \in Seq(Nat) /\ answer \in Seq(Nat) /\ Len(inbox) \in Nat /\ Request' = Request
    BY <1>1, LenProperties DEF ClientInv, ClientTypes, Request
  <1>3. CASE LineEnds = {}
    <2>1. /\ inbox' = <<>> /\ clStep' \in {"exited", "spin"}
          /\ clStep' = "exited" => clExit' # 0
      BY <1>3 DEF get_response_header, Leave, Go
    <2>2. ClientTypes'
      BY <1>1, <2>1 DEF ClientInv, ClientTypes
    <2>3. QED  BY <2>1, <2>2, ClientEnds
  <1>4. CASE LineEnds # {}
    <2> DEFINE line == SubSeq(inbox, 1, FirstEnd)
    <2>1. /\ inbox' = SubSeq(inbox, FirstEnd + 1, Len(inbox))
          /\ IF clStep = "error" THEN Leave(10) ELSE AfterResponse(line)
      BY <1>4 DEF get_response_header
    <2>2. /\ FirstEnd \in 1..Len(inbox) /\ LeftOf(inbox', inbox, FirstEnd)
          /\ line = <<okWord, newline>> => FirstEnd = 2 /\ inbox[1] = okWord /\ inbox[2] = newline
      BY <1>2, <1>4, <2>1, FirstLine
    <2> HIDE DEF line
    <2>3. ClientTypes'
      BY <1>1, <2>2 DEF ClientInv, ClientTypes, LeftOf
    <2>4. CASE clStep = "header" /\ line = <<okWord, newline>>
      <3>1. inbox = answer
        BY <2>4 DEF ClientInv, ReceiverHolds, Unanswered
      <3>2. \/ clStep' = "readsize" /\ Request \in {"GET", "LIST"}
            \/ clStep' = "exited" /\ Request \in {"PUT", "DELETE"}
            \/ clStep' = "exited" /\ clExit' # 0
        <4>1. line # <<errorWord, newline>>
          BY <2>4 DEF okWord, errorWord
        <4>2. QED  BY <2>1, <2>4, <4>1 DEF AfterResponse, Go, Leave
      <3>3. Answered /\ Answered'
        BY <1>1, <1>2, <2>2, <2>4, <3>1 DEF Answered
      <3>4. LeftOf(inbox', answer, 2)
        BY <2>2, <2>4, <3>1
      <3>5. CASE clStep' = "readsize" /\ Request \in {"GET", "LIST"}
        <4>1. LeftOf(inbox', answer', 2)
          BY <1>1, <3>4
        <4>2. ReceiverHolds'
          BY <1>1, <1>2, <2>4, <3>3, <3>5, <4>1 DEF ClientInv, ReceiverHolds, Unanswered
        <4>3. SenderHolds'
          BY <1>2, <3>5 DEF SenderHolds
        <4>4. ClientIsTruthful'
          BY <3>5 DEF ClientIsTruthful
        <4>5. QED  BY <2>3, <4>2, <4>3, <4>4 DEF ClientInv
      <3>6. CASE clStep' = "exited" /\ Request \in {"PUT", "DELETE"}
        <4>1. ReceiverHolds'
          BY <3>6 DEF ReceiverHolds, Unanswered
        <4>2. SenderHolds'
          BY <3>6 DEF SenderHolds
        <4>3. SubSeq(answer, 1, 2) = <<okWord, newline>>
          BY <1>2, <3>3, AnsweredOk
        <4>4. Request = "PUT" /\ local = wasLocal => sentSize = Digits(Len(local)) /\ sentBody = local
          BY <2>4 DEF ClientInv, SenderHolds
        <4>5. ClientIsTruthful'
          BY <1>1, <1>2, <3>6, <4>3, <4>4 DEF ClientIsTruthful
        <4>6. QED  BY <2>3, <4>1, <4>2, <4>5 DEF ClientInv
      <3>7. CASE clStep' = "exited" /\ clExit' # 0
        BY <2>3, <3>7, ClientEnds
      <3>8. QED  BY <3>2, <3>5, <3>6, <3>7
    <2>5. CASE ~(clStep = "header" /\ line = <<okWord, newline>>)
      <3>1. clStep' \in {"exited", "error"} /\ (clStep' = "exited" => clExit' # 0)
        BY <1>1, <2>1, <2>5 DEF AfterResponse, Go, Leave
      <3>2. QED  BY <2>3, <3>1, ClientEnds
    <2>6. QED  BY <2>4, <2>5
  <1>5. QED  BY <1>3, <1>4

LEMMA ReadSizeKeeps == ASSUME ClientInv, ReadSize  PROVE  ClientInv'
  <1>1. /\ clStep = "readsize" /\ inbox' = Rest(2)
        /\ UNCHANGED <<command, answer, local, wasLocal, shown, writesz, moved>>
    BY DEF ReadSize
  <1>2. /\ inbox \in Seq(Nat) /\ answer \in Seq(Nat) /\ readsz \in Nat
        /\ LeftOf(inbox, answer, 2) /\ Answered /\ Request \in {"GET", "LIST"}
        /\ shown = <<>> /\ moved = 0 /\ (Request = "GET" => local = <<>>)
    BY <1>1 DEF ClientInv, ClientTypes, ReceiverHolds
  <1>3. Request' = Request /\ Received = <<>> /\ Received' = <<>> /\ Answered'
    BY <1>1, <1>2 DEF Request, Received, Answered
  <1>4. /\ Len(Got(2)) = (IF Len(inbox) < 2 THEN Len(inbox) ELSE 2)
        /\ LeftOf(Rest(2), inbox, Len(Got(2))) /\ Len(Got(2)) \in Nat
    BY <1>2, ReadAll, LenProperties
  <1>5. Len(inbox) \in Nat /\ Len(answer) = 2 + Len(inbox) /\ \A i \in 1..Len(inbox) : inbox[i] = answer[2 + i]
    BY <1>2, LenProperties DEF LeftOf
  <1>6. \A i \in 1..Len(inbox) : inbox[i] \in Nat
    BY <1>2, ElementOfSeq
  <1>7. inbox' \in Seq(Nat)
    BY <1>1, <1>4 DEF LeftOf
  <1>8. CASE ReadFails(2)
    <2>1. /\ readsz' = readsz /\ clStep' \in {"exited", "overrun"}
          /\ clStep' = "exited" => clExit' # 0
      BY <1>8 DEF ReadSize, Leave, Go
    <2>2. ClientTypes'
      BY <1>1, <1>7, <2>1 DEF ClientInv, ClientTypes
    <2>3. QED  BY <2>1, <2>2, ClientEnds
  <1>9. CASE ~ReadFails(2)
    <2>1. /\ clStep' = "read"
          /\ Len(Got(2)) = 0 => readsz' = 0
          /\ Len(Got(2)) = 1 => \E d \in 0..BASE - 1 : readsz' = inbox[1] + BASE * d
          /\ Len(Got(2)) = 2 => readsz' = inbox[1] + BASE * inbox[2]
      <3> DEFINE k == Len(Got(2))
                 Middle == \E d \in 0..BASE - 1 : readsz' = inbox[1] + BASE * d
                 High == readsz' = inbox[1] + BASE * inbox[2]
                 Low == readsz' = 0
      <3>1. /\ clStep' = "read"
            /\ CASE k = 0 -> Low [] k = 1 -> Middle [] OTHER -> High
        BY <1>9 DEF ReadSize, Go
      <3> HIDE DEF k, Middle, Low, High
      <3>2. /\ k = 0 => Low
            /\ k = 1 => Middle
            /\ k = 2 => High
        BY <3>1
      <3>3. QED  BY <3>1, <3>2 DEF k, Middle, Low, High
    <2>2. readsz' \in Nat /\ (Len(inbox) >= 2 => readsz' = inbox[1] + BASE * inbox[2])
      <3>1. CASE Len(inbox) = 0
        BY <1>4, <2>1, <3>1
      <3>2. CASE Len(inbox) = 1
        <4>1. 1 \in 1..Len(inbox) /\ Len(Got(2)) = 1
          BY <1>4, <3>2
        <4>2. inbox[1] \in Nat
          BY <1>6, <4>1
        <4>3. PICK d \in 0..3 : readsz' = inbox[1] + 4 * d
          BY <2>1, <4>1 DEF BASE
        <4>4. QED  BY <3>2, <4>2, <4>3
      <3>3. CASE Len(inbox) >= 2
        <4>1. 1 \in 1..Len(inbox) /\ 2 \in 1..Len(inbox) /\ Len(Got(2)) = 2
          BY <1>4, <1>5, <3>3
        <4>2. inbox[1] \in Nat /\ inbox[2] \in Nat
          BY <1>6, <4>1
        <4>3. readsz' = inbox[1] + BASE * inbox[2]
          BY <2>1, <4>1
        <4>4. QED  BY <4>2, <4>3 DEF BASE
      <3>4. Len(inbox) = 0 \/ Len(inbox) = 1 \/ Len(inbox) >= 2
        <4>1. Len(inbox) \in Nat
          BY <1>5
        <4>2. \A k \in Nat : k = 0 \/ k = 1 \/ k >= 2
          OBVIOUS
        <4>3. QED  BY <4>1, <4>2, Zenon
      <3>5. QED  BY <3>1, <3>2, <3>3, <3>4, Zenon
    <2>3. ClientTypes'
      BY <1>1, <1>7, <2>2 DEF ClientInv, ClientTypes
    <2>4. ASSUME ~SizeCut
          PROVE  KeptOf(<<>>, inbox') /\ readsz' = answer[3] + BASE * answer[4]
      <3>1. Len(inbox) >= 2
        BY <1>5, <2>4 DEF SizeCut
      <3>2. Len(Got(2)) = 2
        BY <1>4, <1>5, <3>1
      <3>3. LeftOf(inbox', answer, 2 + 2)
        BY <1>1, <1>2, <1>4, <3>2, LeftOfLeft
      <3>4. LeftOf(inbox', answer, 4 + Len(<<>>))
        BY <3>3
      <3>5. inbox[1] = answer[3] /\ inbox[2] = answer[4]
        <4>1. 1 \in 1..Len(inbox) /\ 2 \in 1..Len(inbox)
          BY <1>5, <3>1
        <4>2. QED  BY <1>5, <4>1
      <3>6. KeptOf(<<>>, inbox')
        BY <3>4 DEF KeptOf
      <3>7. QED  BY <2>2, <3>1, <3>5, <3>6
    <2>5. SizeCut' = SizeCut
      BY <1>1 DEF SizeCut
    <2>6. ~SizeCut' => KeptOf(Received, inbox)' /\ (moved = Len(Received))' /\ (readsz = answer[3] + BASE * answer[4])'
      BY <1>1, <1>2, <1>3, <2>4, <2>5 DEF KeptOf, LeftOf
    <2>7. ReceiverHolds'
      BY <1>2, <1>3, <2>1, <2>6 DEF ReceiverHolds, Unanswered
    <2>8. SenderHolds'
      BY <1>2, <1>3, <2>1 DEF SenderHolds
    <2>9. ClientIsTruthful'
      BY <2>1 DEF ClientIsTruthful
    <2>10. QED  BY <2>3, <2>7, <2>8, <2>9 DEF ClientInv
  <1>10. QED  BY <1>8, <1>9

LEMMA ReadBodyKeeps == ASSUME ClientInv, ReadBody  PROVE  ClientInv'
  <1>1. /\ clStep = "read" /\ inbox' = Rest(BUFFER)
        /\ UNCHANGED <<command, answer, wasLocal, readsz, writesz>>
    BY DEF ReadBody
  <1>2. /\ inbox \in Seq(Nat) /\ answer \in Seq(Nat) /\ moved \in Nat /\ shown \in Seq(Nat)
        /\ Answered /\ Request \in {"GET", "LIST"} /\ Received \in Seq(Nat) /\ BUFFER \in Nat
        /\ ~SizeCut => /\ KeptOf(Received, inbox) /\ moved = Len(Received)
                       /\ readsz = answer[3] + BASE * answer[4]
    BY <1>1, ClientAssumption DEF ClientInv, ClientTypes, ReceiverHolds
  <1>3. Got(BUFFER) \in Seq(Nat) /\ Len(Got(BUFFER)) \in Nat /\ Rest(BUFFER) \in Seq(Nat)
    BY <1>2, ReadAll, LenProperties DEF LeftOf
  <1>4. CASE ReadFails(BUFFER) \/ Got(BUFFER) = <<>>
    <2>1. /\ clStep' \in {"exited", "overrun"} /\ (clStep' = "exited" => clExit' # 0)
          /\ UNCHANGED <<local, shown, moved>>
      BY <1>4 DEF ReadBody, Leave, Go
    <2>2. ClientTypes'
      BY <1>1, <1>3, <2>1 DEF ClientInv, ClientTypes
    <2>3. QED  BY <2>1, <2>2, ClientEnds
  <1>5. CASE ~ReadFails(BUFFER) /\ Got(BUFFER) # <<>>
    <2>1. /\ clStep' = "read" /\ moved' = moved + Len(Got(BUFFER))
          /\ IF Request = "GET" THEN local' = local \o Got(BUFFER) /\ shown' = shown
                                ELSE shown' = shown \o Got(BUFFER) /\ local' = local
      BY <1>5 DEF ReadBody, Go
    <2>2. Request' = Request /\ Answered' /\ SizeCut' = SizeCut
      BY <1>1, <1>2 DEF Request, Answered, SizeCut
    <2>3. Received' = Received \o Got(BUFFER)
      BY <2>1, <2>2 DEF Received
    <2>4. Received' \in Seq(Nat)
      BY <1>2, <1>3, <2>3, ConcatProperties
    <2>5. ClientTypes'
      <3>1. moved' \in Nat
        BY <1>2, <1>3, <2>1
      <3>2. CASE Request = "GET"
        <4>1. local' \in Seq(Nat) /\ shown' = shown
          BY <2>1, <2>2, <2>4, <3>2 DEF Received
        <4>2. QED  BY <1>1, <1>3, <3>1, <4>1 DEF ClientInv, ClientTypes
      <3>3. CASE Request # "GET"
        <4>1. shown' \in Seq(Nat) /\ local' = local
          BY <2>1, <2>2, <2>4, <3>3 DEF Received
        <4>2. QED  BY <1>1, <1>3, <3>1, <4>1 DEF ClientInv, ClientTypes
      <3>4. QED  BY <3>2, <3>3
    <2>6. ASSUME ~SizeCut  PROVE  KeptOf(Received', inbox') /\ moved' = Len(Received')
      BY <1>1, <1>2, <2>1, <2>3, <2>6, KeptGrows
    <2>7. ~SizeCut' => KeptOf(Received, inbox)' /\ (moved = Len(Received))' /\ (readsz = answer[3] + BASE * answer[4])'
      <3>1. KeptOf(Received', inbox') <=> KeptOf(Received, inbox)'
        BY <1>1 DEF KeptOf, LeftOf
      <3>2. QED  BY <1>1, <1>2, <2>2, <2>6, <3>1
    <2>8. ReceiverHolds'
      BY <1>2, <2>1, <2>2, <2>4, <2>7 DEF ReceiverHolds, Unanswered
    <2>9. SenderHolds'
      BY <1>2, <2>1, <2>2 DEF SenderHolds
    <2>10. ClientIsTruthful'
      BY <2>1 DEF ClientIsTruthful
    <2>11. QED  BY <2>5, <2>8, <2>9, <2>10 DEF ClientInv
  <1>6. QED  BY <1>4, <1>5

LEMMA CheckRestKeeps == ASSUME ClientInv, CheckRest  PROVE  ClientInv'
  <1>1. /\ clStep = "read" /\ moved >= readsz /\ clStep' = "exited"
        /\ inbox' = IF moved > readsz THEN inbox ELSE Rest(BUFFER)
        /\ clExit' = 0 => ~(moved > readsz) /\ (ReadFails(BUFFER) \/ inbox = <<>>)
        /\ UNCHANGED <<command, answer, ending, local, wasLocal, shown, readsz, writesz, moved>>
    BY DEF CheckRest, Leave, counters
  <1>2. /\ inbox \in Seq(Nat) /\ answer \in Seq(Nat) /\ moved \in Nat /\ readsz \in Nat
        /\ Answered /\ Request \in {"GET", "LIST"} /\ BUFFER \in Nat
        /\ ~SizeCut => /\ KeptOf(Received, inbox) /\ moved = Len(Received)
                       /\ readsz = answer[3] + BASE * answer[4]
    BY <1>1, ClientAssumption DEF ClientInv, ClientTypes, ReceiverHolds
  <1>3. ClientTypes'
    <2>1. Rest(BUFFER) \in Seq(Nat)
      BY <1>2, ReadAll DEF LeftOf
    <2>2. inbox' \in Seq(Nat)
      BY <1>1, <1>2, <2>1
    <2>3. QED  BY <1>1, <2>2 DEF ClientInv, ClientTypes
  <1>4. CASE clExit' # 0
    BY <1>1, <1>3, <1>4, ClientEnds
  <1>5. CASE clExit' = 0
    <2>1. moved = readsz /\ (inbox = <<>> \/ ending = "reset")
      BY <1>1, <1>2, <1>5 DEF ReadFails
    <2>2. ASSUME ~SizeCut  PROVE  Whole(Received)
      <3>1. /\ Received \in Seq(Nat) /\ Len(answer) = (4 + Len(Received)) + Len(inbox)
            /\ \A i \in 1..Len(Received) : answer[4 + i] = Received[i]
        BY <1>2, <2>2 DEF KeptOf, LeftOf
      <3>2. Len(Received) \in Nat /\ Len(inbox) \in Nat /\ Len(answer) \in Nat
        BY <1>2, <3>1, LenProperties
      <3>3. answer[3] + BASE * answer[4] = Len(Received)
        BY <1>2, <2>1, <2>2
      <3>4. inbox = <<>> => Len(inbox) = 0
        OBVIOUS
      <3>5. Len(answer) = 4 + Len(Received) \/ (Len(answer) > 4 + Len(Received) /\ ending = "reset")
        BY <2>1, <3>1, <3>2, <3>4
      <3>6. QED  BY <3>1, <3>3, <3>5 DEF Whole
    <2>3. SubSeq(answer, 1, 2) = <<okWord, newline>>
      BY <1>2, AnsweredOk
    <2>4. Request' = Request /\ SizeCut' = SizeCut /\ Whole(local)' = Whole(local) /\ Whole(shown)' = Whole(shown)
      BY <1>1 DEF Request, SizeCut, Whole
    <2>5. ClientIsTruthful'
      BY <1>1, <1>2, <2>2, <2>3, <2>4 DEF ClientIsTruthful, Received
    <2>6. ReceiverHolds'
      BY <1>1 DEF ReceiverHolds, Unanswered
    <2>7. SenderHolds'
      BY <1>1, <1>2, <2>4 DEF SenderHolds
    <2>8. QED  BY <1>3, <2>5, <2>6, <2>7 DEF ClientInv
  <1>6. QED  BY <1>4, <1>5

LEMMA ClientKeeps == ClientInv /\ [ClientSteps \/ Change]_clVars => ClientInv'
  <1> SUFFICES ASSUME ClientInv, [ClientSteps \/ Change]_clVars  PROVE  ClientInv'
    OBVIOUS
  <1>1. clStep \in {"stat", "size", "body"} => Request = "PUT"
    BY DEF ClientInv, SenderHolds
  <1>2. CASE check_args \/ ConnectToServer \/ Pipe
    BY <1>2, EarlyKeeps
  <1>3. CASE SendRequest
    BY <1>3, RequestKeeps
  <1>4. CASE Stat
    <2>1. Request = "PUT"
      BY <1>1, <1>4 DEF Stat
    <2>2. QED  BY <1>4, <2>1, StatKeeps
  <1>5. CASE SendSize
    <2>1. Request = "PUT"
      BY <1>1, <1>5 DEF SendSize
    <2>2. QED  BY <1>5, <2>1, SizeKeeps
  <1>6. CASE SendBuffer
    <2>1. Request = "PUT"
      BY <1>1, <1>6 DEF SendBuffer
    <2>2. QED  BY <1>6, <2>1, BufferKeeps
  <1>7. CASE get_response_header
    BY <1>7, HeaderKeeps
  <1>8. CASE ReadSize
    BY <1>8, ReadSizeKeeps
  <1>9. CASE ReadBody
    BY <1>9, ReadBodyKeeps
  <1>10. CASE CheckRest
    BY <1>10, CheckRestKeeps
  <1>11. CASE Change
    <2>1. Request = "PUT"
      BY <1>1, <1>11 DEF Change
    <2>2. QED  BY <1>11, <2>1, ChangeKeeps
  <1>12. CASE UNCHANGED clVars
    <2>1. /\ UNCHANGED <<clStep, command, sentSize, sentBody, answer, inbox, ending, local,
                         wasLocal, shown, readsz, writesz, moved, clExit>>
      BY <1>12 DEF clVars
    <2>2. Request' = Request /\ Received' = Received /\ (Answered <=> Answered') /\ (SizeCut <=> SizeCut')
      BY <2>1 DEF Request, Received, Answered, SizeCut
    <2>3. ClientTypes'
      BY <2>1 DEF ClientInv, ClientTypes
    <2>4. ReceiverHolds'
      BY <2>1 DEF ClientInv, ReceiverHolds, Unanswered, Request, Received, Answered, SizeCut, KeptOf, LeftOf
    <2>5. SenderHolds'
      BY <2>1, <2>2 DEF ClientInv, SenderHolds
    <2>6. ClientIsTruthful'
      BY <2>1, <2>2 DEF ClientInv, ClientIsTruthful, SizeCut, Whole
    <2>7. QED  BY <2>3, <2>4, <2>5, <2>6 DEF ClientInv
  <1>13. QED
    BY <1>2, <1>3, <1>4, <1>5, <1>6, <1>7, <1>8, <1>9, <1>10, <1>11, <1>12 DEF ClientSteps

(* An exit status 0 of the client is the truth (nonstop_networking/        *)
(* client.c): whatever the server answers and however the connection ends, *)
(* whatever the size of the buffer and whoever rewrites the local file, it *)
(* means that PUT sent the whole file under its size, and that GET and     *)
(* LIST kept the bytes announced after OK, every one and no other.         *)
THEOREM ClientTruthful == ClientSpec => []ClientIsTruthful
  <1>1. ClientSpec => []ClientInv
    BY ClientStarts, ClientKeeps, PTL DEF ClientSpec
  <1>2. ClientInv => ClientIsTruthful
    BY DEF ClientInv
  <1>3. QED  BY <1>1, <1>2, PTL

-----------------------------------------------------------------------------
(* Sums over finite sets.  Sums(g, f, S): g gives the sum of f over every  *)
(* subset of S, whichever element is taken out first.                      *)
Sums(g, f, S) ==
    /\ g \in [SUBSET S -> Int]
    /\ g[{}] = 0
    /\ \A s \in SUBSET S : \A x \in s : g[s] = f[x] + g[s \ {x}]

(* Among sets of parts of a finite set one has the fewest elements. *)
LEMMA SmallestPart ==
  ASSUME NEW S, IsFiniteSet(S), NEW B \in SUBSET (SUBSET S), B # {}
  PROVE  \E s \in B : \A t \in B : ~(t \subseteq s /\ t # s)
  <1> DEFINE sizes == {Cardinality(s) : s \in B}
  <1>1. \A s \in B : IsFiniteSet(s) /\ Cardinality(s) \in Nat
    BY FS_Subset, FS_CardinalityType
  <1>2. PICK m \in sizes : \A n \in sizes : m <= n
    <2>1. sizes \in SUBSET Nat /\ sizes # {}
      BY <1>1
    <2> HIDE DEF sizes
    <2>2. QED  BY <2>1, LeastPlace
  <1>3. PICK s \in B : m = Cardinality(s)
    BY <1>2
  <1>4. ASSUME NEW t \in B, t \subseteq s, t # s  PROVE  FALSE
    <2>1. Cardinality(t) < Cardinality(s)
      BY <1>1, <1>4, FS_Subset
    <2>2. m <= Cardinality(t)
      BY <1>2
    <2>3. QED  BY <1>1, <1>3, <2>1, <2>2
  <1>5. QED  BY <1>4

LEMMA SumsExist ==
  ASSUME NEW S, IsFiniteSet(S), NEW f, \A x \in S : f[x] \in Int
  PROVE  \E g : Sums(g, f, S)
  <1> DEFINE Bad == {s \in SUBSET S : ~\E g : Sums(g, f, s)}
  <1> SUFFICES ASSUME Bad # {}  PROVE  FALSE
    OBVIOUS
  <1>1. PICK T \in Bad : \A t \in Bad : ~(t \subseteq T /\ t # T)
    <2>1. Bad \in SUBSET (SUBSET S)
      OBVIOUS
    <2> HIDE DEF Bad
    <2>2. QED  BY <2>1, SmallestPart
  <1>2. T \in SUBSET S /\ ~\E g : Sums(g, f, T)
    BY <1>1
  <1>3. CASE T = {}
    <2> DEFINE g == [s \in SUBSET {} |-> 0]
    <2>1. Sums(g, f, {})
      BY DEF Sums
    <2>2. QED  BY <1>2, <1>3, <2>1
  <1>4. CASE T # {}
    <2>1. PICK j : j \in T
      BY <1>4
    <2> DEFINE T0 == T \ {j}
    <2>2. T0 \notin Bad
      BY <1>1, <2>1
    <2>3. PICK h : Sums(h, f, T0)
      BY <1>2, <2>2
    <2> DEFINE g == [s \in SUBSET T |-> IF j \in s THEN f[j] + h[s \ {j}] ELSE h[s]]
    <2>4. f[j] \in Int /\ \A x \in T : f[x] \in Int
      BY <1>2, <2>1
    <2>5. \A s \in SUBSET T : s \ {j} \in SUBSET T0 /\ (j \notin s => s \in SUBSET T0)
      OBVIOUS
    <2>6. /\ h \in [SUBSET T0 -> Int] /\ h[{}] = 0
          /\ \A s \in SUBSET T0 : \A x \in s : h[s] = f[x] + h[s \ {x}]
      BY <2>3 DEF Sums
    <2>7. g \in [SUBSET T -> Int] /\ g[{}] = 0
      BY <2>4, <2>5, <2>6
    <2>8. ASSUME NEW s \in SUBSET T, NEW x \in s  PROVE  g[s] = f[x] + g[s \ {x}]
      <3>1. CASE x = j
        BY <3>1
      <3>2. CASE x # j /\ j \in s
        <4>1. (s \ {j}) \ {x} = (s \ {x}) \ {j} /\ x \in s \ {j} /\ j \in s \ {x} /\ s \ {x} \in SUBSET T
          BY <3>2
        <4>2. h[s \ {j}] = f[x] + h[(s \ {x}) \ {j}]
          BY <2>5, <2>6, <4>1, ZenonT(60)
        <4>3. g[s] = f[j] + h[s \ {j}] /\ g[s \ {x}] = f[j] + h[(s \ {x}) \ {j}]
          BY <3>2, <4>1
        <4>4. h[(s \ {x}) \ {j}] \in Int /\ f[x] \in Int
          BY <2>4, <2>5, <2>6, <4>1
        <4> HIDE DEF g
        <4>5. QED  BY <2>4, <4>2, <4>3, <4>4
      <3>3. CASE j \notin s
        <4>1. s \ {x} \in SUBSET T /\ j \notin s \ {x}
          BY <3>3
        <4>2. QED  BY <2>5, <2>6, <3>3, <4>1
      <3>4. QED  BY <3>1, <3>2, <3>3
    <2>9. Sums(g, f, T)
      BY <2>7, <2>8 DEF Sums
    <2>10. QED  BY <1>2, <2>9
  <1>5. QED  BY <1>3, <1>4

(* The library's fold is such a sum. *)
LEMMA SumIs ==
  ASSUME NEW S, IsFiniteSet(S), NEW f, NEW g, Sums(g, f, S)
  PROVE  SumFunctionOnSet(f, S) = g[S]
  <1> DEFINE OneStep(h) == [s \in SUBSET S |->
                           IF s = {} THEN 0
                           ELSE LET x == CHOOSE x \in s : TRUE IN f[x] + h[s \ {x}]]
             iter == CHOOSE h : h = OneStep(h)
  <1>1. SumFunctionOnSet(f, S) = iter[S]
    BY DEF SumFunctionOnSet, FoldFunctionOnSet, MapThenFoldSet
  <1>2. g = OneStep(g)
    <2>1. g \in [SUBSET S -> Int] /\ g[{}] = 0
      BY DEF Sums
    <2>2. ASSUME NEW s \in SUBSET S  PROVE  g[s] = OneStep(g)[s]
      <3>1. CASE s = {}
        BY <2>1, <3>1
      <3>2. CASE s # {}
        <4> DEFINE x == CHOOSE x \in s : TRUE
        <4>1. x \in s
          BY <3>2
        <4>2. g[s] = f[x] + g[s \ {x}]
          BY <4>1 DEF Sums
        <4>3. QED  BY <3>2, <4>2
      <3>3. QED  BY <3>1, <3>2
    <2>3. QED  BY <2>1, <2>2
  <1>3. iter = OneStep(iter)
    <2> HIDE DEF OneStep
    <2>1. QED  BY <1>2, Zenon
  <1> HIDE DEF iter
  <1> DEFINE Bad == {s \in SUBSET S : g[s] # iter[s]}
  <1>4. CASE Bad # {}
    <2>1. PICK s \in Bad : \A t \in Bad : ~(t \subseteq s /\ t # s)
      <3>1. Bad \in SUBSET (SUBSET S)
        OBVIOUS
      <3> HIDE DEF Bad
      <3>2. QED  BY <1>4, <3>1, SmallestPart
    <2>2. g[s] = OneStep(g)[s] /\ iter[s] = OneStep(iter)[s]
      BY <1>2, <1>3
    <2>3. s # {}
      BY <2>1, <2>2
    <2> DEFINE x == CHOOSE x \in s : TRUE
    <2>4. x \in s
      BY <2>3
    <2>5. g[s \ {x}] = iter[s \ {x}]
      BY <2>1, <2>4
    <2>6. g[s] = f[x] + g[s \ {x}] /\ iter[s] = f[x] + iter[s \ {x}]
      BY <2>1, <2>2, <2>3
    <2>7. QED  BY <2>1, <2>5, <2>6
  <1>5. CASE Bad = {}
    BY <1>1, <1>5
  <1>6. QED  BY <1>4, <1>5

(* Sums start at zero, grow by one element at a time and depend on the     *)
(* values of their elements only.                                          *)
LEMMA SumGrows ==
  ASSUME NEW S, IsFiniteSet(S), NEW f, NEW j, j \notin S, \A x \in S \union {j} : f[x] \in Int
  PROVE  /\ SumFunctionOnSet(f, S \union {j}) = SumFunctionOnSet(f, S) + f[j]
         /\ SumFunctionOnSet(f, S) \in Int
  <1> DEFINE T == S \union {j}
  <1>1. IsFiniteSet(T)
    BY FS_AddElement
  <1>2. PICK g : Sums(g, f, T)
    BY <1>1, SumsExist
  <1> DEFINE h == [s \in SUBSET S |-> g[s]]
  <1>3. Sums(h, f, S)
    BY <1>2 DEF Sums
  <1>4. SumFunctionOnSet(f, T) = g[T] /\ SumFunctionOnSet(f, S) = g[S]
    BY <1>1, <1>2, <1>3, SumIs
  <1>5. j \in T /\ T \ {j} = S /\ T \in SUBSET T /\ S \in SUBSET T
    OBVIOUS
  <1>6. g[T] = f[j] + g[S] /\ g[S] \in Int
    BY <1>2, <1>5 DEF Sums
  <1>7. f[j] \in Int
    OBVIOUS
  <1>8. QED  BY <1>4, <1>6, <1>7

LEMMA SumOfNone == ASSUME NEW f  PROVE  SumFunctionOnSet(f, {}) = 0
  <1> DEFINE g == [s \in SUBSET {} |-> 0]
  <1>1. Sums(g, f, {})
    BY DEF Sums
  <1>2. IsFiniteSet({})
    BY FS_EmptySet
  <1>3. QED  BY <1>1, <1>2, SumIs

LEMMA SumOfSame ==
  ASSUME NEW S, IsFiniteSet(S), NEW f, NEW e, \A x \in S : f[x] = e[x] /\ f[x] \in Int
  PROVE  SumFunctionOnSet(e, S) = SumFunctionOnSet(f, S)
  <1>1. PICK g : Sums(g, f, S)
    BY SumsExist
  <1>2. Sums(g, e, S)
    BY <1>1 DEF Sums
  <1>3. QED  BY <1>1, <1>2, SumIs

-----------------------------------------------------------------------------
(* Scheduler. *)
Metadata == [arrival : Nat, start : Nat, rr : Nat, used : Nat]

IsEntry(e) == e = [job |-> e.job, key |-> e.key] /\ e.job \in Jobs

SchedTypes ==
    /\ now \in Nat /\ info \in [Jobs -> Metadata]
    /\ cpu \in [Jobs -> Nat] /\ waited \in [Jobs -> Nat] /\ firstRun \in [Jobs -> Nat]
    /\ running \subseteq Jobs /\ finished \subseteq Jobs
    /\ \A e \in pqueue : IsEntry(e)

(* A job is in one place, has neither run nor waited before it arrives,    *)
(* and keeps its start_time once it has run.                               *)
PlacesHold ==
    /\ \A i, j \in running : i = j
    /\ \A j \in running : j \notin finished /\ info[j].rr <= now
    /\ \A e \in pqueue : e.job \notin running /\ e.job \notin finished
    /\ \A e \in pqueue : cpu[e.job] # 0 => info[e.job].start = firstRun[e.job]
    /\ \A j \in Jobs : j \notin Queued /\ j \notin running /\ j \notin finished =>
                        cpu[j] = 0 /\ waited[j] = 0

SchedInv == SchedTypes /\ PlacesHold /\ BooksAgree

LEMMA SchedStarts == SchedInit => SchedInv
  <1> SUFFICES ASSUME SchedInit  PROVE  SchedInv
    OBVIOUS
  <1>1. SchedTypes
    BY DEF SchedInit, SchedTypes, Metadata
  <1>2. PlacesHold
    BY DEF SchedInit, PlacesHold
  <1>3. BooksAgree
    BY DEF SchedInit, BooksAgree, Queued
  <1>4. QED  BY <1>1, <1>2, <1>3 DEF SchedInv

(* A job's key depends on its own metadata and on the scheme only; outside *)
(* round robin the turn it starts does not change it.                      *)
LEMMA KeyStays ==
  ASSUME UNCHANGED pqueue_scheme, NEW j, NEW m
  PROVE  Key(j, m)' = Key(j, m)
  BY DEF Key

LEMMA KeyOfTurn ==
  ASSUME pqueue_scheme \in {"PPRI", "PSRTF"}, NEW j, NEW m, NEW n,
         m.arrival = n.arrival, m.used = n.used
  PROVE  Key(j, m) = Key(j, n)
  BY DEF Key

LEMMA NewJobKeeps == ASSUME SchedInv, NEW j \in Jobs, scheduler_new_job(j)  PROVE  SchedInv'
  <1> DEFINE m == [arrival |-> now, start |-> 0, rr |-> 0, used |-> 0]
             new == [job |-> j, key |-> Key(j, m)]
  <1>1. /\ j \notin Queued /\ j \notin running /\ j \notin finished
        /\ info' = [info EXCEPT ![j] = m] /\ pqueue' = pqueue \union {new}
        /\ UNCHANGED <<pqueue_scheme, now, running, finished, cpu, waited, firstRun>>
    BY DEF scheduler_new_job, Offer
  <1>2. /\ now \in Nat /\ info \in [Jobs -> Metadata] /\ running \subseteq Jobs /\ finished \subseteq Jobs
        /\ \A e \in pqueue : e.job \in Jobs /\ e.job # j
    BY <1>1 DEF SchedInv, SchedTypes, IsEntry, Queued
  <1>3. m \in Metadata /\ m.used = 0 /\ m.arrival = now
    BY <1>2 DEF Metadata
  <1>4. new.job = j /\ new.key = Key(j, m) /\ IsEntry(new)
    BY DEF IsEntry
  <1> HIDE DEF m, new
  <1>5. info' \in [Jobs -> Metadata] /\ info'[j] = m /\ \A i \in Jobs \ {j} : info'[i] = info[i]
    BY <1>1, <1>2, <1>3
  <1>6. cpu[j] = 0 /\ waited[j] = 0
    BY <1>1 DEF SchedInv, PlacesHold
  <1>7. SchedTypes'
    BY <1>1, <1>4, <1>5 DEF SchedInv, SchedTypes, IsEntry
  <1>8. PlacesHold'
    <2>1. Queued' = Queued \union {j}
      BY <1>1, <1>4 DEF Queued
    <2>2. \A i \in running : info'[i] = info[i]
      BY <1>1, <1>2, <1>5
    <2>3. \A e \in pqueue' : e \in pqueue \/ e.job = j
      BY <1>1, <1>4
    <2>4. ASSUME NEW e \in pqueue', cpu[e.job] # 0  PROVE  info'[e.job].start = firstRun[e.job]
      <3>1. e \in pqueue /\ info'[e.job] = info[e.job]
        BY <1>2, <1>5, <1>6, <2>3, <2>4
      <3>2. QED  BY <2>4, <3>1 DEF SchedInv, PlacesHold
    <2>5. QED  BY <1>1, <2>1, <2>2, <2>3, <2>4 DEF SchedInv, PlacesHold
  <1>9. BooksAgree'
    <2>1. ASSUME NEW e \in pqueue'
          PROVE  e.key = Key(e.job, info'[e.job]) /\ info'[e.job].used = cpu[e.job]
      <3>1. CASE e \in pqueue
        BY <1>2, <1>5, <3>1 DEF SchedInv, BooksAgree
      <3>2. CASE e = new
        BY <1>3, <1>4, <1>5, <1>6, <3>2
      <3>3. QED  BY <1>1, <3>1, <3>2
    <2>2. \A i \in running \union finished : info'[i] = info[i]
      BY <1>1, <1>2, <1>5
    <2>3. ASSUME NEW i \in running, NEW e \in pqueue', pqueue_scheme \in {"PPRI", "PSRTF"},
                 info'[i].rr = now, info'[e.job].arrival < now
          PROVE  ~Less(e.key, Key(i, info'[i]))
      <3>1. e # new
        BY <1>2, <1>3, <1>4, <1>5, <2>3
      <3>2. e \in pqueue
        BY <1>1, <3>1
      <3>3. info'[e.job] = info[e.job] /\ info'[i] = info[i]
        BY <1>2, <1>5, <2>2, <3>2
      <3>4. QED  BY <2>3, <3>2, <3>3 DEF SchedInv, BooksAgree
    <2>4. \A i \in Jobs : Key(i, info[i])' = Key(i, info'[i])
      BY <1>1, KeyStays
    <2>5. \A e \in pqueue' : e.job \in Jobs
      BY <1>2, <1>1, <1>4
    <2>6. ASSUME NEW i \in running \union Queued'  PROVE  now - info'[i].arrival = waited[i] + cpu[i]
      <3>1. CASE i = j
        BY <1>2, <1>3, <1>5, <1>6, <3>1
      <3>2. CASE i # j
        <4>1. i \in running \union Queued
          BY <1>1, <1>4, <3>2 DEF Queued
        <4>2. info'[i] = info[i]
          BY <1>2, <1>5, <3>2, <4>1 DEF Queued
        <4>3. QED  BY <4>1, <4>2 DEF SchedInv, BooksAgree
      <3>3. QED  BY <3>1, <3>2
    <2>7. QED  BY <1>1, <1>2, <2>1, <2>2, <2>3, <2>4, <2>5, <2>6 DEF SchedInv, BooksAgree, Less
  <1>10. QED  BY <1>7, <1>8, <1>9 DEF SchedInv

LEMMA SchedStutters ==
  ASSUME SchedInv, UNCHANGED <<pqueue_scheme, now, info, pqueue, running, finished, cpu, waited, firstRun>>
  PROVE  SchedInv'
  <1>1. SchedTypes'
    BY DEF SchedInv, SchedTypes, IsEntry
  <1>2. PlacesHold'
    BY DEF SchedInv, PlacesHold, Queued
  <1>3. \A j : Key(j, info[j])' = Key(j, info[j])
    BY DEF Key
  <1>4. BooksAgree'
    BY <1>3 DEF SchedInv, BooksAgree, Queued
  <1>5. QED  BY <1>1, <1>2, <1>4 DEF SchedInv

(* What holds of the queue q and the metadata inf when the next job is     *)
(* polled: no job runs.                                                    *)
BetweenTurns(q, inf) ==
    /\ inf \in [Jobs -> Metadata]
    /\ \A e \in q : /\ IsEntry(e) /\ e.job \notin finished
                    /\ e.key = Key(e.job, inf[e.job]) /\ inf[e.job].used = cpu[e.job]
                    /\ now - inf[e.job].arrival = waited[e.job] + cpu[e.job]
                    /\ cpu[e.job] # 0 => inf[e.job].start = firstRun[e.job]
    /\ \A j \in Jobs : j \notin finished /\ (\A e \in q : e.job # j) => cpu[j] = 0 /\ waited[j] = 0
    /\ \A j \in finished : inf[j].used = runtime[j]

Turn(inf, j, s, t) == [inf EXCEPT ![j].start = s, ![j].rr = t]

LEMMA TurnOf ==
  ASSUME NEW inf \in [Jobs -> Metadata], NEW j \in Jobs, NEW s \in Nat, NEW t \in Nat
  PROVE  /\ Turn(inf, j, s, t) \in [Jobs -> Metadata]
         /\ \A i \in Jobs \ {j} : Turn(inf, j, s, t)[i] = inf[i]
         /\ Turn(inf, j, s, t)[j].used = inf[j].used
         /\ Turn(inf, j, s, t)[j].arrival = inf[j].arrival
         /\ Turn(inf, j, s, t)[j].rr = t /\ Turn(inf, j, s, t)[j].start = s
  BY DEF Metadata, Turn

LEMMA DispatchKeeps ==
  ASSUME SchedInv, NEW q, NEW inf, BetweenTurns(q, inf), Dispatch(q, inf),
         UNCHANGED <<pqueue_scheme, now, finished, cpu, waited>>
  PROVE  SchedInv'
  <1>1. /\ now \in Nat /\ cpu \in [Jobs -> Nat] /\ waited \in [Jobs -> Nat] /\ firstRun \in [Jobs -> Nat]
        /\ finished \subseteq Jobs /\ inf \in [Jobs -> Metadata]
    BY DEF SchedInv, SchedTypes, BetweenTurns
  <1>2. CASE q = {} /\ info' = inf /\ pqueue' = q /\ running' = {} /\ firstRun' = firstRun
    <2>1. SchedTypes'
      BY <1>1, <1>2 DEF SchedTypes
    <2>2. PlacesHold'
      BY <1>2 DEF PlacesHold, BetweenTurns, Queued
    <2>3. BooksAgree'
      BY <1>2 DEF BooksAgree, BetweenTurns, Queued
    <2>4. QED  BY <2>1, <2>2, <2>3 DEF SchedInv
  <1>3. ASSUME NEW e \in Least(q),
               info' = [inf EXCEPT ![e.job].start = IF inf[e.job].used = 0 THEN now ELSE @,
                                    ![e.job].rr = now],
               pqueue' = q \ {e}, running' = {e.job},
               firstRun' = IF cpu[e.job] = 0 THEN [firstRun EXCEPT ![e.job] = now] ELSE firstRun
        PROVE  SchedInv'
    <2> DEFINE j == e.job
    <2>1. e \in q /\ \A f \in q : ~Less(f.key, e.key)
      BY DEF Least
    <2>2. /\ IsEntry(e) /\ j \in Jobs /\ j \notin finished /\ e.key = Key(j, inf[j]) /\ inf[j].used = cpu[j]
          /\ now - inf[j].arrival = waited[j] + cpu[j] /\ (cpu[j] # 0 => inf[j].start = firstRun[j])
      BY <2>1 DEF BetweenTurns, IsEntry
    <2>3. PICK s \in Nat : info' = Turn(inf, j, s, now) /\ s = (IF inf[j].used = 0 THEN now ELSE inf[j].start)
      <3>1. inf[j].start \in Nat
        BY <1>1, <2>2 DEF Metadata
      <3>2. (IF inf[j].used = 0 THEN now ELSE inf[j].start) \in Nat
        BY <1>1, <3>1
      <3>3. QED  BY <1>3, <3>2 DEF Turn
    <2> HIDE DEF j
    <2>4. /\ info' \in [Jobs -> Metadata] /\ \A i \in Jobs \ {j} : info'[i] = inf[i]
          /\ info'[j].used = inf[j].used /\ info'[j].arrival = inf[j].arrival /\ info'[j].rr = now
          /\ info'[j].start = s
      <3> DEFINE new == Turn(inf, j, s, now)
      <3>1. /\ new \in [Jobs -> Metadata] /\ \A i \in Jobs \ {j} : new[i] = inf[i]
            /\ new[j].used = inf[j].used /\ new[j].arrival = inf[j].arrival /\ new[j].rr = now
            /\ new[j].start = s
        <4>1. inf \in [Jobs -> Metadata] /\ j \in Jobs /\ s \in Nat /\ now \in Nat
          BY <1>1, <2>2, <2>3
        <4>2. QED  BY <4>1, TurnOf
      <3> HIDE DEF new
      <3>2. QED  BY <2>3, <3>1 DEF new
    <2>5. /\ firstRun' \in [Jobs -> Nat] /\ firstRun'[j] = s
          /\ \A i \in Jobs \ {j} : firstRun'[i] = firstRun[i]
      <3>1. firstRun' = IF cpu[j] = 0 THEN [firstRun EXCEPT ![j] = now] ELSE firstRun
        BY <1>3 DEF j
      <3>2. CASE cpu[j] = 0
        BY <1>1, <2>2, <2>3, <3>1, <3>2
      <3>3. CASE cpu[j] # 0
        BY <1>1, <2>2, <2>3, <3>1, <3>3
      <3>4. QED  BY <3>2, <3>3
    <2>6. ASSUME NEW f \in pqueue'
          PROVE  /\ IsEntry(f) /\ f.job \in Jobs \ {j} /\ f.job \notin finished
                 /\ f.key = Key(f.job, info'[f.job]) /\ info'[f.job].used = cpu[f.job]
                 /\ now - info'[f.job].arrival = waited[f.job] + cpu[f.job]
                 /\ cpu[f.job] # 0 => info'[f.job].start = firstRun'[f.job]
                 /\ ~Less(f.key, e.key)
      <3>1. f \in q /\ f # e
        BY <1>3
      <3>2. IsEntry(f) /\ f.job \in Jobs /\ f.job \notin finished
            /\ f.key = Key(f.job, inf[f.job]) /\ inf[f.job].used = cpu[f.job]
            /\ now - inf[f.job].arrival = waited[f.job] + cpu[f.job]
            /\ (cpu[f.job] # 0 => inf[f.job].start = firstRun[f.job])
        BY <3>1 DEF BetweenTurns, IsEntry
      <3>3. f.job # j
        <4>1. SUFFICES ASSUME f.job = j  PROVE  FALSE
          OBVIOUS
        <4>2. f.key = e.key
          BY <2>2, <3>2, <4>1
        <4>3. f = [job |-> f.job, key |-> f.key] /\ e = [job |-> j, key |-> e.key]
          BY <2>2, <3>2 DEF IsEntry, j
        <4>4. QED  BY <3>1, <4>1, <4>2, <4>3
      <3>4. QED  BY <2>1, <2>4, <2>5, <3>1, <3>2, <3>3
    <2>7. running' = {j}
      BY <1>3 DEF j
    <2>8. SchedTypes'
      BY <1>1, <2>2, <2>4, <2>5, <2>6, <2>7 DEF SchedTypes, IsEntry
    <2>9. PlacesHold'
      <3>1. ASSUME NEW i \in Jobs, i \notin Queued', i # j, i \notin finished  PROVE  cpu[i] = 0 /\ waited[i] = 0
        <4>1. \A f \in q : f.job # i
          BY <1>3, <3>1 DEF Queued, j
        <4>2. QED  BY <3>1, <4>1 DEF BetweenTurns
      <3>2. info'[j].rr <= now
        BY <1>1, <2>4
      <3>3. QED  BY <2>2, <2>6, <2>7, <3>1, <3>2 DEF PlacesHold
    <2>10. BooksAgree'
      <3>1. cpu[j] \in Nat
        BY <1>1, <2>2
      <3>2. /\ info'[j].used + (now - info'[j].rr) = cpu[j] /\ info'[j].start = firstRun'[j]
            /\ now - info'[j].arrival = waited[j] + cpu[j]
        BY <1>1, <2>2, <2>4, <2>5, <3>1
      <3>3. \A i \in finished : info'[i].used = runtime[i]
        BY <1>1, <2>2, <2>4 DEF BetweenTurns
      <3>4. pqueue_scheme \in {"PPRI", "PSRTF"} => Key(j, info'[j]) = e.key
        BY <2>2, <2>4, KeyOfTurn
      <3>5. Key(j, info[j])' = Key(j, info'[j]) /\ \A f \in pqueue' : Key(f.job, info[f.job])' = Key(f.job, info'[f.job])
        BY KeyStays
      <3>6. \A i \in (running \union Queued)' : now - info'[i].arrival = waited[i] + cpu[i]
        BY <2>6, <2>7, <3>2 DEF Queued
      <3>7. QED  BY <2>6, <2>7, <3>2, <3>3, <3>4, <3>5, <3>6 DEF BooksAgree, Less
    <2>11. QED  BY <2>8, <2>9, <2>10 DEF SchedInv
  <1>4. QED  BY <1>2, <1>3 DEF Dispatch

LEMMA EvictedIs ==
  ASSUME SchedInv, NEW j \in running
  PROVE  /\ j \in Jobs /\ j \notin finished /\ Evicted(j) \in [Jobs -> Metadata]
         /\ Evicted(j)[j].used = cpu[j] /\ Evicted(j)[j].arrival = info[j].arrival
         /\ Evicted(j)[j].start = info[j].start /\ \A i \in Jobs \ {j} : Evicted(j)[i] = info[i]
  <1>1. /\ j \in Jobs /\ info \in [Jobs -> Metadata] /\ now \in Nat /\ cpu[j] \in Nat
        /\ info[j].rr <= now /\ info[j].used + (now - info[j].rr) = cpu[j] /\ j \notin finished
    BY DEF SchedInv, SchedTypes, PlacesHold, BooksAgree
  <1>2. info[j].rr \in Nat /\ info[j].used \in Nat
    BY <1>1 DEF Metadata
  <1>3. Evicted(j) = [info EXCEPT ![j].used = cpu[j]]
    BY <1>1 DEF Evicted
  <1>4. QED  BY <1>1, <1>3 DEF Metadata

LEMMA QuantumKeeps == ASSUME SchedInv, scheduler_quantum_expired  PROVE  SchedInv'
  <1>1. UNCHANGED <<pqueue_scheme, now, finished, cpu, waited>>
    BY DEF scheduler_quantum_expired
  <1>2. ASSUME NEW j \in running, Dispatch(Offer(pqueue, j, Evicted(j)[j]), Evicted(j))
        PROVE  SchedInv'
    <2> DEFINE inf == Evicted(j)
               new == [job |-> j, key |-> Key(j, inf[j])]
               q == Offer(pqueue, j, Evicted(j)[j])
    <2>1. /\ j \in Jobs /\ j \notin finished /\ inf \in [Jobs -> Metadata]
          /\ inf[j].used = cpu[j] /\ \A i \in Jobs \ {j} : inf[i] = info[i]
          /\ inf[j].arrival = info[j].arrival /\ inf[j].start = info[j].start
      BY EvictedIs
    <2>2. q = pqueue \union {new} /\ new.job = j /\ new.key = Key(j, inf[j]) /\ IsEntry(new)
      BY <2>1 DEF Offer, IsEntry
    <2>3. Dispatch(q, inf)
      BY <1>2
    <2> HIDE DEF q, new, inf
    <2>4. ASSUME NEW e \in q
          PROVE  /\ IsEntry(e) /\ e.job \notin finished
                 /\ e.key = Key(e.job, inf[e.job]) /\ inf[e.job].used = cpu[e.job]
                 /\ now - inf[e.job].arrival = waited[e.job] + cpu[e.job]
                 /\ cpu[e.job] # 0 => inf[e.job].start = firstRun[e.job]
      <3>1. CASE e = new
        <4>1. now - info[j].arrival = waited[j] + cpu[j] /\ info[j].start = firstRun[j]
          BY DEF SchedInv, BooksAgree
        <4>2. QED  BY <2>1, <2>2, <3>1, <4>1
      <3>2. CASE e \in pqueue
        <4>1. IsEntry(e) /\ e.job \notin finished /\ e.job \in Jobs \ {j}
          BY <3>2 DEF SchedInv, SchedTypes, PlacesHold, IsEntry
        <4>2. inf[e.job] = info[e.job]
          BY <2>1, <4>1
        <4>3. e.job \in Queued
          BY <3>2 DEF Queued
        <4>4. QED  BY <3>2, <4>1, <4>2, <4>3 DEF SchedInv, BooksAgree, PlacesHold
      <3>3. QED  BY <2>2, <3>1, <3>2
    <2>5. ASSUME NEW i \in Jobs, i \notin finished, \A e \in q : e.job # i  PROVE  cpu[i] = 0 /\ waited[i] = 0
      <3>1. i # j /\ i \notin Queued
        BY <2>2, <2>5 DEF Queued
      <3>2. i \notin running
        BY <3>1 DEF SchedInv, PlacesHold
      <3>3. QED  BY <2>5, <3>1, <3>2 DEF SchedInv, PlacesHold
    <2>6. ASSUME NEW i \in finished  PROVE  inf[i].used = runtime[i]
      <3>1. i \in Jobs \ {j} /\ info[i].used = runtime[i]
        BY <2>1 DEF SchedInv, SchedTypes, BooksAgree
      <3>2. QED  BY <2>1, <3>1
    <2>7. BetweenTurns(q, inf)
      BY <2>1, <2>4, <2>5, <2>6 DEF BetweenTurns
    <2>8. QED  BY <1>1, <2>3, <2>7, DispatchKeeps
  <1>3. ASSUME running = {}, Dispatch(pqueue, info)  PROVE  SchedInv'
    <2>1. BetweenTurns(pqueue, info)
      BY <1>3 DEF SchedInv, SchedTypes, PlacesHold, BooksAgree, BetweenTurns, Queued
    <2>2. QED  BY <1>1, <1>3, <2>1, DispatchKeeps
  <1>4. CASE UNCHANGED <<info, pqueue, running, firstRun>>
    BY <1>1, <1>4, SchedStutters
  <1>5. QED  BY <1>2, <1>3, <1>4 DEF scheduler_quantum_expired

LEMMA FinishKeeps == ASSUME SchedInv, NEW j \in Jobs, scheduler_job_finished(j)  PROVE  SchedInv'
  <1>1. /\ j \in running /\ cpu[j] = runtime[j] /\ info' = Evicted(j)
        /\ finished' = finished \union {j} /\ running' = {}
        /\ UNCHANGED <<pqueue_scheme, now, pqueue, cpu, waited, firstRun>>
    BY DEF scheduler_job_finished, Evicted
  <1>2. /\ info' \in [Jobs -> Metadata] /\ info'[j].used = cpu[j] /\ j \notin finished
        /\ \A i \in Jobs \ {j} : info'[i] = info[i]
    BY <1>1, EvictedIs
  <1>3. \A e \in pqueue : e.job \in Jobs \ {j} /\ e.job \notin finished
    BY <1>1 DEF SchedInv, SchedTypes, PlacesHold, IsEntry
  <1>4. finished \subseteq Jobs
    BY DEF SchedInv, SchedTypes
  <1>5. SchedTypes'
    BY <1>1, <1>2, <1>4 DEF SchedInv, SchedTypes, IsEntry
  <1>6. PlacesHold'
    BY <1>1, <1>2, <1>3 DEF SchedInv, PlacesHold, Queued
  <1>7. \A e \in pqueue : Key(e.job, info[e.job])' = Key(e.job, info'[e.job])
    BY <1>1, KeyStays
  <1>8. BooksAgree'
    BY <1>1, <1>2, <1>3, <1>4, <1>7 DEF SchedInv, BooksAgree, Queued
  <1>9. QED  BY <1>5, <1>6, <1>8 DEF SchedInv

LEMMA TickKeeps == ASSUME SchedInv, Tick  PROVE  SchedInv'
  <1>1. /\ now' = now + 1 /\ cpu' = [j \in Jobs |-> IF j \in running THEN cpu[j] + 1 ELSE cpu[j]]
        /\ waited' = [j \in Jobs |-> IF j \in Queued THEN waited[j] + 1 ELSE waited[j]]
        /\ UNCHANGED <<pqueue_scheme, info, pqueue, running, finished, firstRun>>
    BY DEF Tick
  <1>2. /\ now \in Nat /\ info \in [Jobs -> Metadata] /\ cpu \in [Jobs -> Nat] /\ running \subseteq Jobs
        /\ \A e \in pqueue : e.job \in Jobs /\ e.job \notin running
        /\ waited \in [Jobs -> Nat]
    BY DEF SchedInv, SchedTypes, PlacesHold, IsEntry
  <1>3. \A e \in pqueue : cpu'[e.job] = cpu[e.job]
    BY <1>1, <1>2
  <1>4. SchedTypes'
    BY <1>1, <1>2 DEF SchedInv, SchedTypes, IsEntry
  <1>5. \A j \in running : info[j].rr \in Nat /\ info[j].used \in Nat /\ info[j].rr <= now
    BY <1>2 DEF SchedInv, PlacesHold, Metadata
  <1>6. PlacesHold'
    <2>1. Queued' = Queued
      BY <1>1 DEF Queued
    <2>2. \A j \in Jobs : /\ j \notin running => cpu'[j] = cpu[j]
                          /\ j \notin Queued => waited'[j] = waited[j]
      BY <1>1
    <2>3. \A j \in running : info'[j].rr <= now'
      BY <1>1, <1>2, <1>5
    <2>4. QED  BY <1>1, <1>3, <2>1, <2>2, <2>3 DEF SchedInv, PlacesHold
  <1>7. BooksAgree'
    <2>1. ASSUME NEW j \in running  PROVE  info[j].used + ((now + 1) - info[j].rr) = cpu'[j] /\ info[j].rr # now + 1
      <3>1. cpu'[j] = cpu[j] + 1 /\ cpu[j] \in Nat
        BY <1>1, <1>2
      <3>2. info[j].used + (now - info[j].rr) = cpu[j]
        BY DEF SchedInv, BooksAgree
      <3>3. QED  BY <1>2, <1>5, <3>1, <3>2
    <2>2. \A e \in pqueue : Key(e.job, info[e.job])' = Key(e.job, info[e.job])
      BY <1>1, KeyStays
    <2>3. Queued' = Queued /\ Queued \subseteq Jobs /\ \A j \in Queued : j \notin running
      BY <1>1, <1>2 DEF Queued
    <2>4. ASSUME NEW j \in running \union Queued
          PROVE  (now + 1) - info[j].arrival = waited'[j] + cpu'[j]
      <3>1. j \in Jobs /\ info[j].arrival \in Nat /\ waited[j] \in Nat /\ cpu[j] \in Nat
        BY <1>2, <2>3 DEF Metadata
      <3>2. now - info[j].arrival = waited[j] + cpu[j]
        BY DEF SchedInv, BooksAgree
      <3>3. waited'[j] + cpu'[j] = (waited[j] + cpu[j]) + 1
        <4>1. CASE j \in running
          BY <1>1, <2>3, <3>1, <4>1
        <4>2. CASE j \notin running
          BY <1>1, <3>1, <4>2
        <4>3. QED  BY <4>1, <4>2
      <3>4. QED  BY <1>2, <3>1, <3>2, <3>3
    <2>5. QED  BY <1>1, <1>3, <2>1, <2>2, <2>3, <2>4 DEF SchedInv, BooksAgree
  <1>8. QED  BY <1>4, <1>6, <1>7 DEF SchedInv

LEMMA SchedKeeps == SchedInv /\ [SchedNext]_schedVars => SchedInv'
  <1> SUFFICES ASSUME SchedInv, [SchedNext]_schedVars  PROVE  SchedInv'
    OBVIOUS
  <1>1. CASE UNCHANGED schedVars
    BY <1>1, SchedStutters DEF schedVars
  <1>2. QED
    BY <1>1, NewJobKeeps, FinishKeeps, QuantumKeeps, TickKeeps DEF SchedNext

(* A step leaves the totals alone, or finishes a job and adds what this    *)
(* job waited, was there and waited until it first ran.                    *)
TotalsStep ==
    \/ UNCHANGED <<finished, total_wait_time, total_turnaround_time, total_response_time>>
    \/ \E j \in running \ finished :
          /\ finished' = finished \union {j}
          /\ total_wait_time' = total_wait_time + waited[j]
          /\ total_turnaround_time' = total_turnaround_time + (waited[j] + runtime[j])
          /\ total_response_time' = total_response_time + (firstRun[j] - info[j].arrival)

LEMMA SchedCounts == SchedInv /\ [SchedNext]_schedVars => TotalsStep
  <1> SUFFICES ASSUME SchedInv, [SchedNext]_schedVars  PROVE  TotalsStep
    OBVIOUS
  <1>1. ASSUME NEW j \in Jobs, scheduler_job_finished(j)  PROVE  TotalsStep
    <2>1. /\ j \in running /\ cpu[j] = runtime[j] /\ finished' = finished \union {j}
          /\ total_response_time' = total_response_time + (info[j].start - info[j].arrival)
          /\ total_turnaround_time' = total_turnaround_time + (now - info[j].arrival)
          /\ total_wait_time' = total_wait_time + (now - info[j].arrival - runtime[j])
      BY <1>1 DEF scheduler_job_finished
    <2>2. /\ j \notin finished /\ info[j].start = firstRun[j]
          /\ now - info[j].arrival = waited[j] + cpu[j]
      BY <2>1 DEF SchedInv, PlacesHold, BooksAgree
    <2>3. cpu[j] \in Nat /\ waited[j] \in Nat
      BY DEF SchedInv, SchedTypes
    <2>4. now - info[j].arrival - runtime[j] = waited[j]
      BY <2>1, <2>2, <2>3
    <2>5. QED  BY <2>1, <2>2, <2>4 DEF TotalsStep
  <1>2. CASE (\E j \in Jobs : scheduler_new_job(j)) \/ scheduler_quantum_expired \/ Tick \/ UNCHANGED schedVars
    BY <1>2 DEF scheduler_new_job, scheduler_quantum_expired, Tick, schedVars, TotalsStep
  <1>3. QED  BY <1>1, <1>2 DEF SchedNext

(* A step leaves what a job that is done waited, ran first and arrived at. *)
LEMMA DoneStays ==
  ASSUME SchedInv, [SchedNext]_schedVars, NEW j \in finished'
  PROVE  waited'[j] = waited[j] /\ firstRun'[j] = firstRun[j] /\ info'[j].arrival = info[j].arrival
  <1> DEFINE Stays == waited'[j] = waited[j] /\ firstRun'[j] = firstRun[j] /\ info'[j].arrival = info[j].arrival
  <1>1. info \in [Jobs -> Metadata] /\ waited \in [Jobs -> Nat] /\ firstRun \in [Jobs -> Nat] /\ running \subseteq Jobs
    BY DEF SchedInv, SchedTypes
  <1>2. j \in finished => j \in Jobs /\ j \notin running /\ \A e \in pqueue : e.job \in Jobs \ {j}
    BY DEF SchedInv, SchedTypes, PlacesHold, IsEntry
  <1>3. ASSUME NEW k \in Jobs, scheduler_new_job(k)  PROVE  Stays
    <2>1. PICK m : info' = [info EXCEPT ![k] = m]
      BY <1>3 DEF scheduler_new_job
    <2>2. j # k /\ j \in finished /\ UNCHANGED <<waited, firstRun>>
      BY <1>3 DEF scheduler_new_job
    <2>3. QED  BY <1>1, <1>2, <2>1, <2>2
  <1>4. ASSUME NEW k \in Jobs, scheduler_job_finished(k)  PROVE  Stays
    <2>1. info' = [info EXCEPT ![k].used = @ + (now - info[k].rr)] /\ UNCHANGED <<waited, firstRun>>
      BY <1>4 DEF scheduler_job_finished
    <2>2. \A i \in Jobs : info'[i].arrival = info[i].arrival
      BY <1>1, <2>1 DEF Metadata
    <2>3. j \in Jobs
      BY <1>2, <1>4 DEF scheduler_job_finished
    <2>4. QED  BY <2>1, <2>2, <2>3
  <1>5. ASSUME NEW q, NEW inf, Dispatch(q, inf), UNCHANGED <<finished, waited>>,
               inf \in [Jobs -> Metadata], inf[j] = info[j], \A e \in q : e.job \in Jobs \ {j}
        PROVE  Stays
    <2>1. CASE info' = inf /\ UNCHANGED firstRun
      BY <1>5, <2>1
    <2>2. ASSUME NEW e \in Least(q), NEW s, NEW t,
                 info' = [inf EXCEPT ![e.job].start = s, ![e.job].rr = t],
                 firstRun' = IF cpu[e.job] = 0 THEN [firstRun EXCEPT ![e.job] = now] ELSE firstRun
          PROVE  Stays
      <3>1. e.job \in Jobs \ {j} /\ j \in Jobs
        BY <1>2, <1>5 DEF Least
      <3>2. info'[j] = inf[j] /\ firstRun'[j] = firstRun[j]
        BY <1>1, <1>5, <2>2, <3>1
      <3>3. QED  BY <1>5, <3>2
    <2>3. ASSUME NEW e \in Least(q),
                 info' = [inf EXCEPT ![e.job].start = IF inf[e.job].used = 0 THEN now ELSE @,
                                    ![e.job].rr = now],
                 firstRun' = IF cpu[e.job] = 0 THEN [firstRun EXCEPT ![e.job] = now] ELSE firstRun
          PROVE  Stays
      <3>1. PICK s : info' = [inf EXCEPT ![e.job].start = s, ![e.job].rr = now]
        BY <2>3
      <3>2. QED  BY <2>2, <2>3, <3>1, ZenonT(60)
    <2>4. QED  BY <1>5, <2>1, <2>3 DEF Dispatch
  <1>6. CASE scheduler_quantum_expired
    <2>1. UNCHANGED <<finished, waited>> /\ j \in finished
      BY <1>6 DEF scheduler_quantum_expired
    <2>2. ASSUME NEW k \in running, Dispatch(Offer(pqueue, k, Evicted(k)[k]), Evicted(k))  PROVE  Stays
      <3>1. /\ Evicted(k) \in [Jobs -> Metadata] /\ j # k
            /\ \A i \in Jobs \ {k} : Evicted(k)[i] = info[i]
        BY <1>2, <2>1, EvictedIs
      <3>2. \A e \in Offer(pqueue, k, Evicted(k)[k]) : e.job \in Jobs \ {j}
        BY <1>1, <1>2, <2>1, <3>1 DEF Offer
      <3>3. Evicted(k)[j] = info[j]
        BY <1>2, <2>1, <3>1
      <3>4. QED  BY <1>5, <2>1, <2>2, <3>1, <3>2, <3>3
    <2>3. CASE Dispatch(pqueue, info)
      BY <1>1, <1>2, <1>5, <2>1, <2>3
    <2>4. CASE UNCHANGED <<info, firstRun>>
      BY <2>1, <2>4
    <2>5. QED  BY <1>6, <2>2, <2>3, <2>4 DEF scheduler_quantum_expired
  <1>7. CASE Tick
    <2>1. j \in finished /\ UNCHANGED <<info, firstRun>>
          /\ waited' = [i \in Jobs |-> IF i \in Queued THEN waited[i] + 1 ELSE waited[i]]
      BY <1>7 DEF Tick
    <2>2. j \in Jobs /\ j \notin Queued
      BY <1>2, <2>1 DEF Queued
    <2>3. QED  BY <2>1, <2>2
  <1>8. CASE UNCHANGED schedVars
    BY <1>8 DEF schedVars
  <1>9. QED  BY <1>3, <1>4, <1>6, <1>7, <1>8 DEF SchedNext

TotalsInv == SchedInv /\ IsFiniteSet(finished) /\ TotalsAgree

LEMMA TotalsStart == SchedInit => TotalsInv
  <1>1. SchedInit => IsFiniteSet(finished) /\ TotalsAgree
    BY SumOfNone, FS_EmptySet DEF SchedInit, TotalsAgree
  <1>2. QED  BY <1>1, SchedStarts DEF TotalsInv

LEMMA TotalsKeep == TotalsInv /\ [SchedNext]_schedVars => TotalsInv'
  <1> SUFFICES ASSUME TotalsInv, [SchedNext]_schedVars  PROVE  TotalsInv'
    OBVIOUS
  <1>1. SchedInv /\ SchedInv' /\ TotalsStep
    BY SchedKeeps, SchedCounts DEF TotalsInv
  <1> DEFINE Response == [j \in Jobs |-> firstRun[j] - info[j].arrival]
             W == SumFunctionOnSet(waited, finished)
             R == SumFunctionOnSet(runtime, finished)
             P == SumFunctionOnSet(Response, finished)
  <1>2. /\ IsFiniteSet(finished) /\ total_wait_time = W /\ total_turnaround_time = total_wait_time + R
        /\ total_response_time = P
    BY DEF TotalsInv, TotalsAgree
  <1>3. ASSUME NEW j \in Jobs
        PROVE  /\ waited[j] \in Int /\ runtime[j] \in Int /\ Response[j] \in Int
               /\ waited'[j] \in Int /\ Response'[j] \in Int
    BY <1>1, SchedAssumption DEF SchedInv, SchedTypes, Metadata
  <1>4. finished \subseteq Jobs /\ finished' \subseteq Jobs
    BY <1>1 DEF SchedInv, SchedTypes
  <1>5. \A j \in finished' : waited'[j] = waited[j] /\ Response'[j] = Response[j]
    BY <1>1, <1>4, DoneStays
  <1>6. CASE UNCHANGED <<finished, total_wait_time, total_turnaround_time, total_response_time>>
    <2>1. \A j \in finished : /\ waited[j] = waited'[j] /\ waited[j] \in Int
                             /\ Response[j] = Response'[j] /\ Response[j] \in Int
      BY <1>3, <1>4, <1>5, <1>6
    <2>2. SumFunctionOnSet(waited', finished) = W
      BY <1>2, <2>1, SumOfSame
    <2> HIDE DEF Response
    <2>3. SumFunctionOnSet(Response', finished) = P
      BY <1>2, <2>1, SumOfSame
    <2> USE DEF Response
    <2>4. QED  BY <1>1, <1>2, <1>6, <2>2, <2>3 DEF TotalsInv, TotalsAgree
  <1>7. ASSUME NEW j \in running \ finished,
               finished' = finished \union {j},
               total_wait_time' = total_wait_time + waited[j],
               total_turnaround_time' = total_turnaround_time + (waited[j] + runtime[j]),
               total_response_time' = total_response_time + (firstRun[j] - info[j].arrival)
        PROVE  TotalsInv'
    <2>1. IsFiniteSet(finished')
      BY <1>2, <1>7, FS_AddElement
    <2>2. \A i \in finished' : /\ waited[i] = waited'[i] /\ waited[i] \in Int
                              /\ Response[i] = Response'[i] /\ Response[i] \in Int /\ runtime[i] \in Int
      BY <1>3, <1>4, <1>5
    <2>3. j \in Jobs /\ Response[j] = firstRun[j] - info[j].arrival
      BY <1>4, <1>7
    <2> HIDE DEF Response
    <2>4. /\ SumFunctionOnSet(waited', finished') = SumFunctionOnSet(waited, finished')
          /\ SumFunctionOnSet(Response', finished') = SumFunctionOnSet(Response, finished')
      BY <2>1, <2>2, SumOfSame
    <2>5. /\ j \notin finished
          /\ \A i \in finished \union {j} : waited[i] \in Int /\ Response[i] \in Int /\ runtime[i] \in Int
      BY <1>7, <2>2
    <2>6. /\ SumFunctionOnSet(waited, finished \union {j}) = W + waited[j] /\ W \in Int
          /\ SumFunctionOnSet(Response, finished \union {j}) = P + Response[j]
          /\ SumFunctionOnSet(runtime, finished \union {j}) = R + runtime[j] /\ R \in Int
      BY <1>2, <2>5, SumGrows
    <2> HIDE DEF W, R, P
    <2>7. total_wait_time' = SumFunctionOnSet(waited', finished')
      BY <1>2, <1>7, <2>4, <2>6
    <2>8. total_response_time' = SumFunctionOnSet(Response', finished')
      BY <1>2, <1>7, <2>3, <2>4, <2>6
    <2>9. waited[j] \in Int /\ runtime[j] \in Int
      BY <2>5
    <2>10. total_turnaround_time' = total_wait_time' + SumFunctionOnSet(runtime, finished')
      <3>1. W + R + (waited[j] + runtime[j]) = W + waited[j] + (R + runtime[j])
        BY <2>6, <2>9
      <3>2. QED  BY <1>2, <1>7, <2>6, <3>1
    <2> USE DEF Response
    <2>11. QED  BY <1>1, <2>1, <2>7, <2>8, <2>10 DEF TotalsInv, TotalsAgree
  <1>8. QED  BY <1>1, <1>6, <1>7 DEF TotalsStep

(* The accounts of libscheduler.c are those of the time that really        *)
(* passed, for any jobs, any schemes and any order of arrivals and quanta: *)
(* the key a job was queued under stays right, used_time is the time it    *)
(* ran, PPRI and PSRTF run no job that a waiting one precedes, and the     *)
(* totals sum up what every finished job waited, was there and waited      *)
(* until it first ran.                                                     *)
THEOREM AccountsHonest == SchedSpec => []ScheduleAccounts
  <1>1. SchedSpec => []TotalsInv
    BY TotalsStart, TotalsKeep, PTL DEF SchedSpec
  <1>2. TotalsInv => ScheduleAccounts
    BY DEF TotalsInv, SchedInv, ScheduleAccounts
  <1>3. QED  BY <1>1, <1>2, PTL

-----------------------------------------------------------------------------
(* Editor. *)
LEMMA MinIsIn == ASSUME NEW S \in SUBSET Nat, S # {}  PROVE  Min(S) \in S
  <1>1. \E m \in S : \A n \in S : m <= n
    BY LeastPlace
  <1>2. QED  BY <1>1 DEF Min

(* The places where a line matches from some place on are those of all its *)
(* matches that lie there.                                                 *)
LEMMA MatchesFrom ==
  ASSUME NEW t, Len(t) \in Nat, NEW s, NEW from \in Nat
  PROVE  /\ Matches(t, s, from) \in SUBSET Nat
         /\ Matches(t, s, from) = {k \in Matches(t, s, 0) : from <= k}
  <1>1. \A k : k \in from..(Len(t) - 1) <=> k \in 0..(Len(t) - 1) /\ from <= k
    OBVIOUS
  <1>2. Matches(t, s, from) = {k \in Matches(t, s, 0) : from <= k}
    BY <1>1, Zenon DEF Matches
  <1>3. QED  BY <1>2 DEF Matches

(* handle_search_command of text_editor/editor.c on any document of lines: *)
(* what it returns is a match, and it returns none only when every match   *)
(* is in the line it started in, at or before the place it started from.   *)
THEOREM SearchIsExact ==
  ASSUME NEW Chars, document \in Seq(Seq(Chars))
  PROVE  SearchFindsMatches
  <1> DEFINE D == document_size
  <1>1. D \in Nat /\ \A k \in 1..D : Len(document[k]) \in Nat
    BY LenProperties DEF document_size
  <1> HIDE DEF D
  <1> SUFFICES ASSUME NEW n \in 1..D, NEW s \in Searched, NEW idx \in 0..Len(document[n])
               PROVE  LET r == handle_search_command(n, idx, s) IN
                      IF r # NotFound THEN r.idx \in Matches(document[r.line_no], s, 0)
                      ELSE s # <<>> => \A k \in 1..D :
                              \A i \in Matches(document[k], s, 0) : k = n /\ i <= idx
    BY DEF SearchFindsMatches, D
  <1> DEFINE LineAt(i) == IF i > D THEN i - D ELSE i
             From(i) == IF i > n \/ idx >= Len(document[LineAt(i)]) THEN 0 ELSE idx + 1
             hits == {i \in n..(n + D - 1) : Matches(document[LineAt(i)], s, From(i)) # {}}
             best == Min(hits)
             place == Min(Matches(document[LineAt(best)], s, From(best)))
             r == handle_search_command(n, idx, s)
  <1>2. r = IF s = <<>> \/ hits = {} THEN NotFound ELSE [line_no |-> LineAt(best), idx |-> place]
    BY DEF handle_search_command, D
  <1>3. \A k \in 1..D : Len(document[k]) \in Nat
    BY <1>1
  <1>4. idx \in Nat
    BY <1>3
  <1>5. \A i \in n..(n + D - 1) : LineAt(i) \in 1..D /\ From(i) \in Nat
    BY <1>1, <1>4
  <1> HIDE DEF r
  <1>6. CASE s = <<>>
    BY <1>2, <1>6 DEF r
  <1>7. CASE s # <<>> /\ hits = {}
    <2>1. r = NotFound
      BY <1>2, <1>7
    <2>2. ASSUME NEW k \in 1..D, NEW i \in Matches(document[k], s, 0)  PROVE  k = n /\ i <= idx
      <3>1. Len(document[k]) \in Nat /\ i \in 0..(Len(document[k]) - 1)
        BY <1>3 DEF Matches
      <3> DEFINE turn == IF k >= n THEN k ELSE k + D
      <3>2. turn \in n..(n + D - 1) /\ LineAt(turn) = k
        BY <1>1
      <3>3. Matches(document[k], s, From(turn)) = {}
        BY <1>7, <3>2
      <3>4. From(turn) \in Nat
        BY <1>5, <3>2
      <3>5. ~(From(turn) <= i)
        <4> HIDE DEF From, turn
        <4>1. Matches(document[k], s, From(turn)) = {x \in Matches(document[k], s, 0) : From(turn) <= x}
          BY <3>1, <3>4, MatchesFrom
        <4>2. QED  BY <3>3, <4>1
      <3>6. From(turn) # 0
        BY <3>1, <3>5
      <3>7. turn = n /\ From(turn) = idx + 1
        BY <1>1, <3>2, <3>6
      <3>8. k = n
        BY <1>1, <3>7
      <3>9. i <= idx
        BY <1>4, <3>1, <3>5, <3>7
      <3>10. QED  BY <3>8, <3>9
    <2>3. QED  BY <2>1, <2>2 DEF r
  <1>8. CASE s # <<>> /\ hits # {}
    <2>1. hits \in SUBSET Nat
      BY <1>1
    <2>2. best \in hits
      BY <1>8, <2>1, MinIsIn
    <2>3. best \in n..(n + D - 1) /\ Matches(document[LineAt(best)], s, From(best)) # {}
      BY <2>2
    <2> HIDE DEF hits, best
    <2>4. LineAt(best) \in 1..D /\ From(best) \in Nat
      BY <1>5, <2>3
    <2> DEFINE line == LineAt(best)
               from == From(best)
    <2> HIDE DEF LineAt, From
    <2>5. Len(document[line]) \in Nat
      BY <1>3, <2>4
    <2>6. /\ Matches(document[line], s, from) \in SUBSET Nat
          /\ Matches(document[line], s, from) = {x \in Matches(document[line], s, 0) : from <= x}
      BY <2>4, <2>5, MatchesFrom
    <2>7. place \in Matches(document[line], s, from)
      BY <2>3, <2>6, MinIsIn
    <2>8. place \in Matches(document[line], s, 0)
      BY <2>6, <2>7
    <2> HIDE DEF place
    <2>9. r = [line_no |-> line, idx |-> place]
      BY <1>2, <1>8 DEF best, hits, place
    <2>10. r.line_no = line /\ r.idx = place
      BY <2>9
    <2>11. NotFound.line_no = 0
      BY DEF NotFound
    <2>12. r # NotFound
      BY <2>4, <2>10, <2>11
    <2>13. QED  BY <2>8, <2>10, <2>12 DEF r
  <1>9. QED  BY <1>6, <1>7, <1>8

-----------------------------------------------------------------------------
(* Crackers: what cracker2 counts. *)
LEMMA SumBelow ==
  ASSUME NEW S, IsFiniteSet(S), NEW f, NEW e,
         \A x \in S : f[x] \in Int /\ e[x] \in Int /\ f[x] <= e[x]
  PROVE  /\ SumFunctionOnSet(f, S) <= SumFunctionOnSet(e, S)
         /\ SumFunctionOnSet(f, S) \in Int /\ SumFunctionOnSet(e, S) \in Int
  <1>1. PICK g : Sums(g, f, S)
    BY SumsExist
  <1>2. PICK h : Sums(h, e, S)
    BY SumsExist
  <1>3. SumFunctionOnSet(f, S) = g[S] /\ SumFunctionOnSet(e, S) = h[S]
    BY <1>1, <1>2, SumIs
  <1>4. \A s \in SUBSET S : g[s] \in Int /\ h[s] \in Int
    BY <1>1, <1>2 DEF Sums
  <1> DEFINE Bad == {s \in SUBSET S : ~(g[s] <= h[s])}
  <1>5. CASE Bad # {}
    <2>1. PICK s \in Bad : \A t \in Bad : ~(t \subseteq s /\ t # s)
      <3>1. Bad \in SUBSET (SUBSET S)
        OBVIOUS
      <3> HIDE DEF Bad
      <3>2. QED  BY <1>5, <3>1, SmallestPart
    <2>2. s # {}
      <3>1. ~(g[s] <= h[s])
        BY <2>1
      <3>2. s = {} => g[s] = 0 /\ h[s] = 0
        BY <1>1, <1>2 DEF Sums
      <3>3. QED  BY <3>1, <3>2
    <2>3. PICK x : x \in s
      BY <2>2
    <2>4. s \ {x} \in SUBSET S /\ g[s \ {x}] <= h[s \ {x}]
      BY <2>1, <2>3
    <2>5. g[s] = f[x] + g[s \ {x}] /\ h[s] = e[x] + h[s \ {x}]
      BY <1>1, <1>2, <2>3 DEF Sums
    <2>6. f[x] \in Int /\ e[x] \in Int /\ f[x] <= e[x]
      BY <2>3
    <2>7. g[s] <= h[s]
      BY <1>4, <2>4, <2>5, <2>6
    <2>8. QED  BY <2>1, <2>7
  <1>6. CASE Bad = {}
    <2>1. S \in SUBSET S
      OBVIOUS
    <2>2. QED  BY <1>3, <1>4, <1>6, <2>1
  <1>7. QED  BY <1>5, <1>6

LEMMA SumPositive ==
  ASSUME NEW S, IsFiniteSet(S), NEW f, \A x \in S : f[x] \in Nat, NEW y \in S, f[y] # 0
  PROVE  SumFunctionOnSet(f, S) >= 1
  <1> DEFINE T == S \ {y}
             zero == [x \in T |-> 0]
             none == [s \in SUBSET T |-> 0]
  <1>1. IsFiniteSet(T)
    BY FS_Subset
  <1>2. Sums(none, zero, T)
    BY DEF Sums
  <1>3. SumFunctionOnSet(zero, T) = 0
    BY <1>1, <1>2, SumIs
  <1>4. \A x \in T : zero[x] \in Int /\ f[x] \in Int /\ zero[x] <= f[x]
    OBVIOUS
  <1> HIDE DEF zero
  <1>5. SumFunctionOnSet(f, T) \in Int /\ 0 <= SumFunctionOnSet(f, T)
    BY <1>1, <1>3, <1>4, SumBelow
  <1>6. y \notin T /\ T \union {y} = S /\ \A x \in T \union {y} : f[x] \in Int
    OBVIOUS
  <1> HIDE DEF T
  <1>7. SumFunctionOnSet(f, T \union {y}) = SumFunctionOnSet(f, T) + f[y]
    BY <1>1, <1>6, SumGrows
  <1>8. f[y] \in Nat
    OBVIOUS
  <1>9. QED  BY <1>5, <1>6, <1>7, <1>8

(* getSubrange: the parts together have as many candidates as the space. *)
LEMMA PartsSum ==
  ASSUME NEW s \in Nat
  PROVE  SumFunctionOnSet([w \in Workers |-> PartCount(s, w)], Workers) = s
  <1>1. PICK n \in Nat : n = thread_count /\ n > 0 /\ Workers = 1..n
    BY CrackersConstants
  <1>2. PICK q \in Nat : q = s \div n
    BY <1>1
  <1> DEFINE f == [w \in Workers |-> PartCount(s, w)]
  <1>3. \A w \in 1..n : f[w] \in Int /\ (w # n => f[w] = q)
    BY <1>1, <1>2, PartsFit DEF PartCount
  <1>4. f[n] = s - (n - 1) * q
    BY <1>1, <1>2 DEF PartCount, PartStart
  <1> HIDE DEF f
  <1>5. \A m \in Nat : IsFiniteSet(1..m)
    BY FS_Interval
  <1> DEFINE Bad == {m \in 0..n - 1 : SumFunctionOnSet(f, 1..m) # m * q}
  <1>6. Bad = {}
    <2> SUFFICES ASSUME Bad # {}  PROVE  FALSE
      OBVIOUS
    <2>1. PICK m \in Bad : \A k \in Bad : m <= k
      <3>1. Bad \in SUBSET Nat
        OBVIOUS
      <3> HIDE DEF Bad
      <3>2. QED  BY <3>1, LeastPlace
    <2>2. m \in 0..n - 1 /\ SumFunctionOnSet(f, 1..m) # m * q
      BY <2>1
    <2>3. m # 0
      <3>1. 1..0 = {} /\ 0 * q = 0
        OBVIOUS
      <3>2. QED  BY <2>2, <3>1, SumOfNone
    <2>4. PICK k \in Nat : m = k + 1
      <3>1. m - 1 \in Nat
        BY <2>2, <2>3
      <3>2. QED  BY <2>2, <3>1
    <2>5. SumFunctionOnSet(f, 1..k) = k * q
      BY <2>1, <2>2, <2>4
    <2>6. m \notin 1..k /\ (1..k) \union {m} = 1..m /\ IsFiniteSet(1..k)
      BY <1>5, <2>4
    <2>7. \A x \in (1..k) \union {m} : f[x] \in Int
      BY <1>3, <2>2, <2>6
    <2>8. f[m] = q
      BY <1>3, <2>2, <2>3
    <2>9. SumFunctionOnSet(f, (1..k) \union {m}) = SumFunctionOnSet(f, 1..k) + f[m]
      <3> DEFINE I == 1..k
      <3>1. IsFiniteSet(I) /\ m \notin I /\ \A x \in I \union {m} : f[x] \in Int
        BY <2>6, <2>7
      <3> HIDE DEF I
      <3>2. SumFunctionOnSet(f, I \union {m}) = SumFunctionOnSet(f, I) + f[m]
        BY <3>1, SumGrows, ZenonT(60)
      <3>3. QED  BY <3>2 DEF I
    <2>10. k * q + q = m * q
      BY <2>4
    <2>11. QED  BY <2>2, <2>5, <2>6, <2>8, <2>9, <2>10
  <1>7. PICK k \in Nat : n = k + 1
    <2>1. n - 1 \in Nat
      BY <1>1
    <2>2. QED  BY <2>1
  <1>8. SumFunctionOnSet(f, 1..k) = k * q
    BY <1>6, <1>7
  <1>9. n \notin 1..k /\ (1..k) \union {n} = 1..n /\ IsFiniteSet(1..k)
    BY <1>5, <1>7
  <1>10. SumFunctionOnSet(f, (1..k) \union {n}) = SumFunctionOnSet(f, 1..k) + f[n]
    BY <1>3, <1>9, SumGrows
  <1>11. f[n] = s - k * q /\ k * q \in Int
    BY <1>4, <1>7
  <1>12. SumFunctionOnSet(f, Workers) = k * q + (s - k * q)
    BY <1>1, <1>8, <1>9, <1>10, <1>11
  <1>13. SumFunctionOnSet(f, Workers) = s
    BY <1>11, <1>12
  <1>14. QED  BY <1>13 DEF f

(* What worker w has hashed of its part. *)
Hashed(w) ==
    /\ hash_count[w] \in Nat
    /\ c2Pc[w] = "released" => hash_count[w] = 0
    /\ c2Pc[w] \in {"search", "hash"} => hash_count[w] = c2I[w]
    /\ c2Pc[w] = "found" => hash_count[w] = c2I[w] + 1
    /\ c2Pc[w] \in AtBarrier2 => \/ hash_count[w] = c2I[w]
                                 \/ find /\ c2I[w] < PartCount(Space, w) /\ hash_count[w] = c2I[w] + 1

SomeHashed == \E w \in Workers : hash_count[w] # 0

HashesRight(k, hashes) == IF Crackable(Tasks[k]) THEN hashes \in 1..Tasks[k].space
                          ELSE hashes = Tasks[k].space

HashesHold ==
    /\ hash_count = [w \in Workers |-> hash_count[w]]
    /\ c2Main \in AtBarrier1 /\ ~stop => \A w \in Workers : hash_count[w] = 0
    /\ c2Main \in AtBarrier2 => (\A w \in Workers : Hashed(w)) /\ (find => SomeHashed)
    /\ c2Main = "summary" =>
          /\ \A w \in Workers : hash_count[w] \in 0..PartCount(Space, w)
          /\ find => SomeHashed
          /\ ~find => \A w \in Workers : hash_count[w] = PartCount(Space, w)
    /\ \A k \in 1..c2Line - 1 : HashesRight(k, summary[k].hashes)

HashInv == Cracker2Inv /\ HashesHold

LEMMA HashStarts == Cracker2Init => HashInv
  <1> SUFFICES ASSUME Cracker2Init  PROVE  HashInv
    OBVIOUS
  <1>1. c2Main = "line" /\ c2Line = 1 /\ hash_count = [w \in Workers |-> 0]
    BY DEF Cracker2Init
  <1>2. HashesHold
    BY <1>1 DEF HashesHold, AtBarrier1, AtBarrier2
  <1>3. QED  BY <1>2, Cracker2Starts DEF HashInv

(* The round is over: no part was hashed twice, and where nobody found the *)
(* password every part was hashed to its end.                              *)
LEMMA RoundCounted ==
  ASSUME HashInv, c2Main = "summary"
  PROVE  HashesRight(c2Line, SumFunction(hash_count))
  <1> DEFINE parts == [w \in Workers |-> PartCount(Space, w)]
  <1>1. c2Line \in 1..Len(Tasks)
    BY RoundHasLine DEF HashInv
  <1>2. Space \in Nat /\ Space = Tasks[c2Line].space
    BY <1>1, CrackersConstants DEF Space
  <1>3. IsFiniteSet(Workers)
    BY CrackersConstants, FS_Interval
  <1>4. hash_count = [w \in Workers |-> hash_count[w]]
    BY DEF HashInv, HashesHold
  <1>5. SumFunction(hash_count) = SumFunctionOnSet(hash_count, Workers)
    BY <1>4 DEF SumFunction
  <1>6. SumFunctionOnSet(parts, Workers) = Space
    BY <1>2, PartsSum
  <1>7. \A w \in Workers : parts[w] = PartCount(Space, w) /\ parts[w] \in Nat
    BY <1>2, PartsFit
  <1> HIDE DEF parts
  <1>8. \A w \in Workers : hash_count[w] \in Nat /\ hash_count[w] <= parts[w]
    BY <1>7 DEF HashInv, HashesHold
  <1>9. CASE Crackable(Tasks[c2Line])
    <2>1. find
      BY <1>9 DEF HashInv, Cracker2Inv, RoundHolds
    <2>2. PICK w \in Workers : hash_count[w] # 0
      BY <2>1 DEF HashInv, HashesHold, SomeHashed
    <2>3. SumFunctionOnSet(hash_count, Workers) >= 1
      BY <1>3, <1>8, <2>2, SumPositive
    <2>4. \A v \in Workers : hash_count[v] \in Int /\ parts[v] \in Int /\ hash_count[v] <= parts[v]
      BY <1>7, <1>8
    <2>5. /\ SumFunctionOnSet(hash_count, Workers) <= SumFunctionOnSet(parts, Workers)
          /\ SumFunctionOnSet(hash_count, Workers) \in Int
      BY <1>3, <2>4, SumBelow
    <2>6. QED  BY <1>2, <1>5, <1>6, <1>9, <2>3, <2>5 DEF HashesRight
  <1>10. CASE ~Crackable(Tasks[c2Line])
    <2>1. ~find
      BY <1>10 DEF HashInv, Cracker2Inv, RoundHolds, InRound
    <2>2. \A w \in Workers : parts[w] = hash_count[w] /\ parts[w] \in Int
      BY <1>7, <2>1 DEF HashInv, HashesHold
    <2>3. SumFunctionOnSet(hash_count, Workers) = SumFunctionOnSet(parts, Workers)
      BY <1>3, <2>2, SumOfSame
    <2>4. QED  BY <1>2, <1>5, <1>6, <1>10, <2>3 DEF HashesRight
  <1>11. QED  BY <1>9, <1>10

(* barrier2 opens with every part hashed as far as it must be. *)
LEMMA PartsHashed ==
  ASSUME HashInv, c2Main \in AtBarrier2, \A w \in Workers : c2Pc[w] \in AtBarrier2,
         c2Main' = "summary", UNCHANGED <<c2Line, hash_count, find, summary>>
  PROVE  HashesHold'
  <1>1. c2Line \in 1..Len(Tasks)
    BY RoundHasLine DEF HashInv
  <1>2. Space \in Nat /\ Space' = Space
    BY <1>1, CrackersConstants DEF Space
  <1>3. ASSUME NEW w \in Workers
        PROVE  hash_count[w] \in 0..PartCount(Space, w) /\ (~find => hash_count[w] = PartCount(Space, w))
    <2>1. HasTried(w) /\ Hashed(w)
      BY DEF HashInv, Cracker2Inv, RoundHolds, HashesHold, Searching
    <2>2. PartCount(Space, w) \in Nat
      BY <1>2, PartsFit
    <2>3. c2I[w] \in 0..PartCount(Space, w) /\ (find \/ c2I[w] = PartCount(Space, w))
      BY <2>1 DEF HasTried
    <2>4. QED  BY <2>1, <2>2, <2>3 DEF Hashed
  <1>4. find => SomeHashed'
    BY DEF HashInv, HashesHold, SomeHashed
  <1>5. QED  BY <1>2, <1>3, <1>4 DEF HashInv, HashesHold, AtBarrier1, AtBarrier2

(* A step of worker w between the barriers. *)
LEMMA WorkerHashes ==
  ASSUME HashInv, NEW w \in Workers, NEW h, c2Main \in AtBarrier2,
         hash_count' = [hash_count EXCEPT ![w] = h],
         \A v \in Workers \ {w} : c2Pc'[v] = c2Pc[v] /\ c2I'[v] = c2I[v],
         UNCHANGED <<c2Main, c2Line, summary>>, find => find',
         h >= hash_count[w], Hashed(w)', find' => find \/ h # 0
  PROVE  HashesHold'
  <1>1. /\ hash_count' = [v \in Workers |-> hash_count'[v]] /\ hash_count'[w] = h
        /\ \A v \in Workers \ {w} : hash_count'[v] = hash_count[v]
    BY DEF HashInv, HashesHold
  <1>2. ASSUME NEW v \in Workers \ {w}  PROVE  Hashed(v)'
    <2>1. Hashed(v)
      BY DEF HashInv, HashesHold
    <2>2. Space' = Space
      BY DEF Space
    <2>3. QED  BY <1>1, <2>1, <2>2 DEF Hashed
  <1>3. find' => SomeHashed'
    <2>1. CASE h # 0
      BY <1>1, <2>1 DEF SomeHashed
    <2>2. CASE h = 0
      <3>1. hash_count[w] = 0
        BY <2>2 DEF HashInv, HashesHold, Hashed
      <3>2. SomeHashed => SomeHashed'
        BY <1>1, <3>1 DEF SomeHashed
      <3>3. QED  BY <2>2, <3>2 DEF HashInv, HashesHold
    <2>3. QED  BY <2>1, <2>2
  <1>4. c2Main' \notin AtBarrier1 /\ c2Main' # "summary"
    BY DEF AtBarrier1, AtBarrier2
  <1>5. \A v \in Workers : Hashed(v)'
    BY <1>2
  <1>6. \A k \in 1..c2Line' - 1 : HashesRight(k, summary'[k].hashes)
    BY DEF HashInv, HashesHold
  <1>7. QED  BY <1>1, <1>3, <1>4, <1>5, <1>6 DEF HashesHold, HashesRight

LEMMA HashesKeep == HashInv /\ [Cracker2Next]_c2Vars => HashInv'
  <1> SUFFICES ASSUME HashInv, [Cracker2Next]_c2Vars  PROVE  HashesHold'
    BY Cracker2Keeps DEF HashInv
  <1>1. CASE UNCHANGED c2Vars
    BY <1>1 DEF c2Vars, HashInv, HashesHold, Hashed, SomeHashed, Space
  <1>2. CASE SetUpRound
    <2>1. c2Main' = "to barrier1" /\ UNCHANGED <<c2Line, summary>>
      BY <1>2 DEF SetUpRound
    <2>2. hash_count' = [w \in Workers |-> 0] \/ (stop' /\ hash_count' = hash_count)
      BY <1>2 DEF SetUpRound
    <2>3. QED  BY <2>1, <2>2 DEF HashInv, HashesHold, AtBarrier1, AtBarrier2
  <1>3. ASSUME c2Main \in AtBarrier1, c2Pc' = [w \in Workers |-> "released"],
               c2Main' = IF stop THEN "join" ELSE "to barrier2",
               UNCHANGED <<c2Line, hash_count, find, stop, summary>>
        PROVE  HashesHold'
    <2>1. ~stop => ~find
      BY <1>3 DEF HashInv, Cracker2Inv, RoundHolds
    <2>2. ASSUME ~stop, NEW w \in Workers  PROVE  Hashed(w)'
      <3>1. c2Pc'[w] = "released" /\ hash_count'[w] = 0
        BY <1>3, <2>2 DEF HashInv, HashesHold
      <3>2. QED  BY <3>1 DEF Hashed, AtBarrier2
    <2>3. QED  BY <1>3, <2>1, <2>2 DEF HashInv, HashesHold, AtBarrier1, AtBarrier2
  <1>4. ASSUME c2Main' \in AtBarrier1 <=> c2Main \in AtBarrier1,
               c2Main' \notin AtBarrier2 \union {"summary"},
               UNCHANGED <<c2Line, hash_count, stop, summary>>
        PROVE  HashesHold'
    BY <1>4 DEF HashInv, HashesHold
  <1>5. CASE MainBarrier1
    <2>1. c2Main = "to barrier1" /\ UNCHANGED <<c2Line, hash_count, find, stop, summary>>
      BY <1>5 DEF MainBarrier1
    <2>2. \/ c2Pc' = [w \in Workers |-> "released"] /\ c2Main' = IF stop THEN "join" ELSE "to barrier2"
          \/ c2Main' = "in barrier1"
      BY <1>5 DEF MainBarrier1
    <2>3. QED  BY <1>3, <1>4, <2>1, <2>2 DEF AtBarrier1, AtBarrier2
  <1>6. ASSUME NEW w \in Workers, WorkerBarrier1(w)  PROVE  HashesHold'
    <2>1. c2Pc[w] = "to barrier1" /\ UNCHANGED <<c2Line, hash_count, find, stop, summary>>
      BY <1>6 DEF WorkerBarrier1
    <2>2. CASE atBarrier1 \union {w} = Everyone
      <3>1. c2Pc' = [v \in Workers |-> "released"] /\ c2Main' = IF stop THEN "join" ELSE "to barrier2"
        BY <1>6, <2>2 DEF WorkerBarrier1
      <3>2. 0 \in atBarrier1
        BY <2>2, CrackersConstants DEF Everyone
      <3>3. c2Main \in AtBarrier1
        BY <3>2, CrackersConstants DEF HashInv, Cracker2Inv, Together, AtBarrier1
      <3>4. QED  BY <1>3, <2>1, <3>1, <3>3
    <2>3. CASE atBarrier1 \union {w} # Everyone
      <3>1. c2Main' = c2Main
        BY <1>6, <2>3 DEF WorkerBarrier1
      <3>2. c2Main \in AtBarrier1 \union {"line", "summary"}
        BY <2>1 DEF HashInv, Cracker2Inv, Together, AtBarrier1, AtBarrier2, Searching
      <3>3. QED  BY <2>1, <3>1, <3>2 DEF HashInv, HashesHold, SomeHashed, Space, AtBarrier1, AtBarrier2
    <2>4. QED  BY <2>2, <2>3
  <1>7. ASSUME NEW w \in Workers, CheckStop(w)  PROVE  HashesHold'
    <2>1. /\ c2Pc[w] = "released" /\ c2I' = [c2I EXCEPT ![w] = 0]
          /\ c2Pc' = [c2Pc EXCEPT ![w] = IF stop THEN "exit" ELSE "search"]
          /\ UNCHANGED <<c2Main, c2Line, hash_count, find, stop, summary>>
      BY <1>7 DEF CheckStop
    <2>2. c2Main \in AtBarrier2 \union {"join", "done"}
      BY <2>1 DEF HashInv, Cracker2Inv, Together, AtBarrier1
    <2>3. CASE c2Main \in {"join", "done"}
      BY <1>4, <2>1, <2>3 DEF AtBarrier1, AtBarrier2
    <2>4. CASE c2Main \in AtBarrier2
      <3>1. ~stop
        BY <2>4 DEF HashInv, Cracker2Inv, Together
      <3>2. c2Pc = [v \in Workers |-> c2Pc[v]] /\ c2I = [v \in Workers |-> c2I[v]]
            /\ hash_count = [v \in Workers |-> hash_count[v]] /\ Hashed(w)
        BY <2>4 DEF HashInv, Cracker2Inv, HashesHold
      <3>3. /\ c2Pc'[w] = "search" /\ c2I'[w] = 0
            /\ \A v \in Workers \ {w} : c2Pc'[v] = c2Pc[v] /\ c2I'[v] = c2I[v]
        BY <2>1, <3>1, <3>2
      <3>4. hash_count[w] = 0 /\ hash_count' = [hash_count EXCEPT ![w] = 0]
        BY <2>1, <3>2 DEF Hashed
      <3>5. hash_count'[w] = 0 /\ 0 >= hash_count[w]
        BY <2>1, <3>4
      <3>6. Hashed(w)'
        BY <3>3, <3>5 DEF Hashed, AtBarrier2
      <3>7. UNCHANGED <<c2Main, c2Line, summary>> /\ (find => find') /\ (find' => find)
        BY <2>1
      <3>8. QED  BY <2>4, <3>3, <3>4, <3>5, <3>6, <3>7, WorkerHashes
    <2>5. QED  BY <2>2, <2>3, <2>4
  <1>8. ASSUME NEW w \in Workers, c2Pc[w] \in Searching
        PROVE  /\ c2Main \in AtBarrier2 /\ HasTried(w) /\ Hashed(w) /\ PartCount(Space, w) \in Nat
               /\ c2Pc = [v \in Workers |-> c2Pc[v]] /\ c2I = [v \in Workers |-> c2I[v]]
               /\ hash_count = [v \in Workers |-> hash_count[v]] /\ hash_count[w] \in Nat
    <2>1. c2Main \in AtBarrier2 /\ HasTried(w)
      BY <1>8, SearchingIsBetween DEF HashInv
    <2>2. Hashed(w)
      BY <2>1 DEF HashInv, HashesHold
    <2>3. c2Line \in 1..Len(Tasks)
      BY <2>1, RoundHasLine DEF HashInv
    <2>4. PartCount(Space, w) \in Nat
      BY <2>3, CrackersConstants, PartsFit DEF Space
    <2>5. QED  BY <2>1, <2>2, <2>4 DEF HashInv, Cracker2Inv, HashesHold, Hashed
  (* A step that hashes nothing. *)
  <1>9. ASSUME NEW w \in Workers, c2Pc[w] \in Searching, NEW p,
               c2Pc' = [c2Pc EXCEPT ![w] = p],
               UNCHANGED <<c2Main, c2Line, c2I, hash_count, summary>>, find => find',
               find' => find \/ hash_count[w] # 0,
               (c2Pc[w] = "search" /\ p \in {"hash"} \union AtBarrier2)
                  \/ (c2Pc[w] = "found" /\ p \in AtBarrier2 /\ find')
                  \/ (c2Pc[w] \in AtBarrier2 /\ p \in AtBarrier2)
        PROVE  HashesHold'
    <2>1. /\ c2Pc'[w] = p /\ hash_count' = [hash_count EXCEPT ![w] = hash_count[w]]
          /\ \A v \in Workers \ {w} : c2Pc'[v] = c2Pc[v] /\ c2I'[v] = c2I[v]
      BY <1>8, <1>9
    <2>2. Space' = Space
      BY <1>9 DEF Space
    <2>3. c2Pc[w] = "found" => c2I[w] < PartCount(Space, w)
      BY <1>8, <1>9 DEF HasTried
    <2>4. Hashed(w)'
      <3>1. Hashed(w)
        BY <1>8, <1>9
      <3>2. hash_count'[w] = hash_count[w] /\ c2I'[w] = c2I[w]
        BY <1>9
      <3>3. QED  BY <1>9, <2>1, <2>2, <2>3, <3>1, <3>2 DEF Hashed, AtBarrier2
    <2>5. hash_count[w] >= hash_count[w] /\ c2Main \in AtBarrier2
      BY <1>8, <1>9
    <2>6. QED  BY <1>9, <2>1, <2>4, <2>5, WorkerHashes
  <1>10. ASSUME NEW w \in Workers, LookAtFind(w)  PROVE  HashesHold'
    <2>1. PICK p : p \in {"hash", "to barrier2"} /\ c2Pc' = [c2Pc EXCEPT ![w] = p]
      BY <1>10 DEF LookAtFind
    <2>2. c2Pc[w] = "search" /\ UNCHANGED <<c2Main, c2Line, c2I, hash_count, find, summary>>
      BY <1>10 DEF LookAtFind
    <2>3. c2Pc[w] \in Searching /\ p \in {"hash"} \union AtBarrier2
      BY <2>1, <2>2 DEF Searching, AtBarrier2
    <2>4. QED  BY <1>9, <2>1, <2>2, <2>3
  <1>11. ASSUME NEW w \in Workers, Crypt(w)  PROVE  HashesHold'
    <2>1. /\ c2Pc[w] = "hash" /\ hash_count' = [hash_count EXCEPT ![w] = hash_count[w] + 1]
          /\ UNCHANGED <<c2Main, c2Line, find, summary>>
      BY <1>11 DEF Crypt
    <2>2. \/ c2Pc' = [c2Pc EXCEPT ![w] = "found"] /\ c2I' = c2I
          \/ c2Pc' = [c2Pc EXCEPT ![w] = "search"] /\ c2I' = [c2I EXCEPT ![w] = c2I[w] + 1]
      BY <1>11 DEF Crypt
    <2>3. c2Pc[w] \in Searching
      BY <2>1 DEF Searching
    <2>4. /\ \A v \in Workers \ {w} : c2Pc'[v] = c2Pc[v] /\ c2I'[v] = c2I[v]
          /\ \/ c2Pc'[w] = "found" /\ c2I'[w] = c2I[w]
             \/ c2Pc'[w] = "search" /\ c2I'[w] = c2I[w] + 1
          /\ hash_count'[w] = hash_count[w] + 1
      BY <1>8, <2>1, <2>2, <2>3
    <2>5. hash_count[w] = c2I[w] /\ hash_count[w] \in Nat /\ c2Main \in AtBarrier2
      BY <1>8, <2>1, <2>3 DEF Hashed
    <2>6. Hashed(w)'
      <3>1. hash_count'[w] = c2I[w] + 1 /\ hash_count'[w] \in Nat
        BY <2>4, <2>5
      <3>2. c2Pc'[w] \notin AtBarrier2
        BY <2>4 DEF AtBarrier2
      <3>3. QED  BY <2>4, <3>1, <3>2 DEF Hashed
    <2>7. hash_count[w] + 1 >= hash_count[w] /\ hash_count[w] + 1 # 0
      BY <2>5
    <2>8. QED  BY <2>1, <2>4, <2>5, <2>6, <2>7, WorkerHashes
  <1>12. ASSUME NEW w \in Workers, SetFind(w)  PROVE  HashesHold'
    <2>1. /\ c2Pc[w] = "found" /\ find' /\ c2Pc' = [c2Pc EXCEPT ![w] = "to barrier2"]
          /\ UNCHANGED <<c2Main, c2Line, c2I, hash_count, summary>>
      BY <1>12 DEF SetFind
    <2>2. c2Pc[w] \in Searching /\ "to barrier2" \in AtBarrier2
      BY <2>1 DEF Searching, AtBarrier2
    <2>3. hash_count[w] # 0
      <3>1. Hashed(w) /\ HasTried(w) /\ PartCount(Space, w) \in Nat
        BY <1>8, <2>2
      <3>2. hash_count[w] = c2I[w] + 1
        BY <2>1, <3>1 DEF Hashed
      <3>3. c2I[w] \in 0..PartCount(Space, w)
        BY <3>1 DEF HasTried
      <3>4. QED  BY <3>1, <3>2, <3>3
    <2>4. QED  BY <1>9, <2>1, <2>2, <2>3
  <1>13. ASSUME NEW w \in Workers, WorkerBarrier2(w)  PROVE  HashesHold'
    <2>1. c2Pc[w] = "to barrier2" /\ UNCHANGED <<c2Line, c2I, hash_count, find, summary>>
      BY <1>13 DEF WorkerBarrier2
    <2>2. c2Pc[w] \in Searching /\ c2Pc[w] \in AtBarrier2
      BY <2>1 DEF Searching, AtBarrier2
    <2>3. CASE atBarrier2 \union {w} = Everyone
      <3>1. c2Main' = "summary"
        BY <1>13, <2>3 DEF WorkerBarrier2
      <3>2. \A v \in Workers : v # w => v \in atBarrier2
        BY <2>3 DEF Everyone
      <3>3. \A v \in Workers : c2Pc[v] \in AtBarrier2
        BY <2>1, <3>2, CrackersConstants DEF HashInv, Cracker2Inv, Together, AtBarrier2
      <3>4. c2Main \in AtBarrier2
        BY <1>8, <2>2
      <3>5. QED  BY <2>1, <3>1, <3>3, <3>4, PartsHashed
    <2>4. CASE atBarrier2 \union {w} # Everyone
      <3>1. c2Main' = c2Main /\ c2Pc' = [c2Pc EXCEPT ![w] = "in barrier2"]
        BY <1>13, <2>4 DEF WorkerBarrier2
      <3>2. "in barrier2" \in AtBarrier2
        BY DEF AtBarrier2
      <3>3. QED  BY <1>9, <2>1, <2>2, <3>1, <3>2
    <2>5. QED  BY <2>3, <2>4
  <1>14. CASE MainBarrier2
    <2>1. c2Main = "to barrier2" /\ UNCHANGED <<c2Line, c2I, hash_count, find, summary>>
      BY <1>14 DEF MainBarrier2
    <2>2. CASE atBarrier2 \union {0} = Everyone
      <3>1. c2Main' = "summary"
        BY <1>14, <2>2 DEF MainBarrier2
      <3>2. \A w \in Workers : w \in atBarrier2 /\ w # 0
        BY <2>2, CrackersConstants DEF Everyone
      <3>3. c2Main \in AtBarrier2 /\ \A w \in Workers : c2Pc[w] \in AtBarrier2
        BY <2>1, <3>2 DEF HashInv, Cracker2Inv, Together, AtBarrier2
      <3>4. QED  BY <2>1, <3>1, <3>3, PartsHashed
    <2>3. CASE atBarrier2 \union {0} # Everyone
      <3>1. c2Main' = "in barrier2" /\ c2Pc' = c2Pc
        BY <1>14, <2>3 DEF MainBarrier2
      <3>2. \A w \in Workers : Hashed(w)'
        BY <2>1, <3>1 DEF HashInv, HashesHold, Hashed, Space, AtBarrier2
      <3>3. QED  BY <2>1, <3>1, <3>2 DEF HashInv, HashesHold, SomeHashed, AtBarrier1, AtBarrier2
    <2>4. QED  BY <2>2, <2>3
  <1>15. CASE Summarise
    <2>1. PICK r : r = [found |-> find, password |-> password, hashes |-> SumFunction(hash_count)]
      OBVIOUS
    <2>2. /\ c2Main = "summary" /\ c2Main' = "line" /\ c2Line' = c2Line + 1
          /\ summary' = Append(summary, r) /\ hash_count' = hash_count
      BY <1>15, <2>1 DEF Summarise
    <2>3. HashesRight(c2Line, r.hashes)
      BY <2>1, <2>2, RoundCounted
    <2>4. PICK n \in Nat : c2Line = n + 1
      <3>1. c2Line - 1 \in Nat /\ c2Line \in Nat
        BY DEF HashInv, Cracker2Inv, SummariesHold
      <3>2. QED  BY <3>1
    <2>5. summary = [k \in 1..n |-> summary[k]]
      BY <2>4 DEF HashInv, Cracker2Inv, SummariesHold
    <2>6. summary' = [k \in 1..n + 1 |-> IF k = n + 1 THEN r ELSE summary[k]]
      BY <2>2, <2>5
    <2>7. ASSUME NEW k \in 1..n + 1  PROVE  HashesRight(k, summary'[k].hashes)
      <3>1. CASE k = n + 1
        <4>1. summary'[k] = r /\ k = c2Line
          BY <2>4, <2>6, <3>1
        <4>2. QED  BY <2>3, <4>1
      <3>2. CASE k # n + 1
        <4>1. k \in 1..n /\ summary'[k] = summary[k]
          BY <2>6, <3>2
        <4>2. k \in 1..c2Line - 1
          BY <2>4, <4>1
        <4>3. HashesRight(k, summary[k].hashes)
          BY <4>2 DEF HashInv, HashesHold
        <4>4. QED  BY <4>1, <4>3
      <3>3. QED  BY <3>1, <3>2
    <2>8. c2Line' - 1 = n + 1
      BY <2>2, <2>4
    <2>9. \A k \in 1..c2Line' - 1 : HashesRight(k, summary'[k].hashes)
      BY <2>7, <2>8
    <2>10. QED  BY <2>2, <2>9 DEF HashInv, HashesHold, AtBarrier1, AtBarrier2
  <1>16. CASE JoinAll
    <2>1. c2Main = "join" /\ c2Main' = "done" /\ UNCHANGED <<c2Line, hash_count, stop, summary>>
      BY <1>16 DEF JoinAll
    <2>2. QED  BY <1>4, <2>1 DEF AtBarrier1, AtBarrier2
  <1>17. QED
    BY <1>1, <1>2, <1>5, <1>6, <1>7, <1>10, <1>11, <1>12, <1>13, <1>14, <1>15, <1>16 DEF Cracker2Next

(* The number of hashes in every summary of cracker2 is exact: the workers  *)
(* hash every candidate of a password that none matches, and no candidate   *)
(* twice, although main adds the counts up without the mutex.               *)
THEOREM HashesExact == Cracker2Spec => []HashesAreExact
<1>1. HashInv => HashesAreExact
  <2> SUFFICES ASSUME HashInv, NEW k \in DOMAIN summary  PROVE  HashesRight(k, summary[k].hashes)
    BY DEF HashesAreExact, HashesRight
  <2>1. summary = [i \in 1..c2Line - 1 |-> summary[i]]
    BY DEF HashInv, Cracker2Inv, SummariesHold
  <2>2. k \in 1..c2Line - 1
    BY <2>1
  <2>3. QED  BY <2>2 DEF HashInv, HashesHold
<1> QED
  BY <1>1, HashStarts, HashesKeep, PTL DEF Cracker2Spec

-----------------------------------------------------------------------------
(* Crackers: cracker1. *)
Lines1 == Len(Tasks)

(* What main puts into the queue: every line, and the pill behind them. *)
TaskAt(i) == IF i <= Lines1 THEN Tasks[i] ELSE Pill
HasPut == IF c1Main.at = "read" THEN c1Main.k - 1 ELSE Lines1 + 1

(* The queue when t of r elements that were put into it are taken. *)
Ahead(t, r) == [i \in 1..r - t |-> TaskAt(t + i)]

Outcomes == {"success", "fail"}
Outcome(task) == IF Crackable(task) THEN "success" ELSE "fail"
Score(o) == IF o = "success" THEN success ELSE fail
Pulled(t, o) == {k \in 1..Lines1 : k <= t /\ Outcome(Tasks[k]) = o}
Hashing(o) == {w \in Workers : c1Pc[w] = "hash" /\ Outcome(c1Task[w]) = o}

Cracker1Types ==
    /\ c1Pc \in [Workers -> {"pull", "hash", "hand on", "exit"}]
    /\ c1Task = [w \in Workers |-> c1Task[w]] /\ c1Raw = [w \in Workers |-> c1Raw[w]]
    /\ success \in [Workers -> Nat] /\ fail \in [Workers -> Nat]
    /\ c1Main = [at |-> c1Main.at, k |-> c1Main.k]
    /\ c1Main.at \in {"read", "join", "done"} /\ c1Main.k \in Nat
    /\ c1Main.at = "read" => c1Main.k >= 1 /\ c1Main.k <= Lines1 + 1
    /\ c1Main.at = "join" => c1Main.k \in Workers

(* A worker has tried every candidate before c1Raw. *)
HashingHolds ==
    \A w \in Workers : c1Pc[w] = "hash" =>
        /\ c1Task[w].space \in Nat /\ c1Task[w].target \in Nat /\ c1Raw[w] \in Nat
        /\ c1Raw[w] < c1Task[w].space /\ c1Raw[w] <= c1Task[w].target

(* The one pill is in the queue or with the worker that hands it on. *)
QueueHolds(t) ==
    /\ t \in Nat /\ t <= HasPut /\ work = Ahead(t, HasPut)
    /\ \A w \in Workers : c1Pc[w] = "exit" => t >= Lines1 /\ c1Main.at # "read"
    /\ \A w \in Workers : c1Pc[w] = "hand on" => t = Lines1 + 1
    /\ \A v, w \in Workers : c1Pc[v] = "hand on" /\ c1Pc[w] = "hand on" => v = w
    /\ t = Lines1 + 1 => \E w \in Workers : c1Pc[w] = "hand on"

(* Every line taken is counted, or being hashed. *)
CountsHold(t) ==
    \A o \in Outcomes :
        SumFunctionOnSet(Score(o), Workers) + Cardinality(Hashing(o)) = Cardinality(Pulled(t, o))

(* Main has added up the counts of the workers it has joined. *)
JoinedSoFar == CASE c1Main.at = "read" -> {}
            [] c1Main.at = "join" -> 1..c1Main.k - 1
            [] c1Main.at = "done" -> Workers
JoinHolds ==
    /\ \A w \in JoinedSoFar : c1Pc[w] = "exit"
    /\ num_success = SumFunctionOnSet(success, JoinedSoFar)
    /\ num_fail = SumFunctionOnSet(fail, JoinedSoFar)

Cracker1Inv ==
    /\ Cracker1Types /\ HashingHolds /\ JoinHolds
    /\ \E t : QueueHolds(t) /\ CountsHold(t)

LEMMA Cracker1Constants ==
  /\ Lines1 \in Nat /\ IsFiniteSet(Workers) /\ Workers # {} /\ Pill.space = 0
  /\ \A i \in 1..Lines1 : TaskAt(i) = Tasks[i] /\ Tasks[i].space \in Nat \ {0} /\ Tasks[i].target \in Nat
  /\ TaskAt(Lines1 + 1) = Pill
  <1>1. Lines1 \in Nat /\ Workers = 1..thread_count /\ thread_count \in Nat /\ thread_count > 0
    BY CrackersConstants DEF Lines1
  <1>2. IsFiniteSet(Workers) /\ Workers # {}
    <2>1. IsFiniteSet(1..thread_count) /\ 1 \in 1..thread_count
      BY <1>1, FS_Interval
    <2>2. QED  BY <1>1, <2>1
  <1>3. \A i \in 1..Lines1 : Tasks[i].space \in Nat \ {0} /\ Tasks[i].target \in Nat
    <2>1. PICK T : T = [space : Nat \ {0}, target : Nat]
      OBVIOUS
    <2>2. Tasks \in Seq(T)
      BY <2>1, CrackersAssumption
    <2>3. \A i \in 1..Lines1 : Tasks[i] \in T
      BY <2>2 DEF Lines1
    <2>4. QED  BY <2>1, <2>3
  <1>4. QED  BY <1>1, <1>2, <1>3 DEF TaskAt, Pill

LEMMA QueueMoves ==
  ASSUME NEW t \in Nat, NEW r \in Nat, t <= r
  PROVE  /\ Ahead(t, r) = <<>> <=> t = r
         /\ t < r => Head(Ahead(t, r)) = TaskAt(t + 1) /\ Tail(Ahead(t, r)) = Ahead(t + 1, r)
         /\ Append(Ahead(t, r), TaskAt(r + 1)) = Ahead(t, r + 1)
  <1> DEFINE q == Ahead(t, r)
             n == r - t
  <1>1. n \in Nat /\ q = [i \in 1..n |-> TaskAt(t + i)]
    BY DEF Ahead
  <1>2. Len(q) = n
    BY <1>1
  <1>3. q = <<>> <=> t = r
    BY <1>1, <1>2
  <1>4. ASSUME t < r  PROVE  Head(q) = TaskAt(t + 1) /\ Tail(q) = Ahead(t + 1, r)
    <2>1. 1 \in 1..n /\ Head(q) = q[1]
      BY <1>1, <1>2, <1>4
    <2>2. Tail(q) = [i \in 1..n - 1 |-> q[i + 1]]
      BY <1>1, <1>2, <1>4
    <2>3. \A i \in 1..n - 1 : q[i + 1] = TaskAt((t + 1) + i)
      <3>1. \A i \in 1..n - 1 : i + 1 \in 1..n /\ t + (i + 1) = (t + 1) + i
        BY <1>1
      <3>2. QED  BY <1>1, <3>1
    <2>4. n - 1 = r - (t + 1)
      OBVIOUS
    <2>5. Tail(q) = [i \in 1..n - 1 |-> TaskAt((t + 1) + i)]
      BY <2>2, <2>3
    <2>6. QED  BY <1>1, <2>1, <2>4, <2>5 DEF Ahead
  <1>5. Append(q, TaskAt(r + 1)) = Ahead(t, r + 1)
    <2>1. Append(q, TaskAt(r + 1)) = [i \in 1..n + 1 |-> IF i = n + 1 THEN TaskAt(r + 1) ELSE q[i]]
      BY <1>1, <1>2
    <2>2. n + 1 = (r + 1) - t /\ t + (n + 1) = r + 1
      OBVIOUS
    <2>3. \A i \in 1..n + 1 : i # n + 1 => i \in 1..n
      BY <1>1
    <2>4. \A i \in 1..n + 1 : (IF i = n + 1 THEN TaskAt(r + 1) ELSE q[i]) = TaskAt(t + i)
      BY <1>1, <2>2, <2>3
    <2> HIDE DEF q, n
    <2>5. Append(q, TaskAt(r + 1)) = [i \in 1..n + 1 |-> TaskAt(t + i)]
      BY <2>1, <2>4
    <2>6. QED  BY <2>2, <2>5 DEF Ahead
  <1>6. QED  BY <1>3, <1>4, <1>5

(* The sets that are counted are finite, and a line taken adds to one. *)
LEMMA CountedFinite ==
  ASSUME NEW t \in Nat, NEW o
  PROVE  IsFiniteSet(Pulled(t, o)) /\ IsFiniteSet(Hashing(o))
         /\ Cardinality(Pulled(t, o)) \in Nat /\ Cardinality(Hashing(o)) \in Nat
  <1>1. IsFiniteSet(1..Lines1) /\ IsFiniteSet(Workers)
    BY Cracker1Constants, FS_Interval
  <1>2. Pulled(t, o) \subseteq 1..Lines1 /\ Hashing(o) \subseteq Workers
    BY DEF Pulled, Hashing
  <1>3. IsFiniteSet(Pulled(t, o)) /\ IsFiniteSet(Hashing(o))
    BY <1>1, <1>2, FS_Subset
  <1>4. QED  BY <1>3, FS_CardinalityType

LEMMA TakenOne ==
  ASSUME NEW t \in Nat, t + 1 <= Lines1, NEW o
  PROVE  Cardinality(Pulled(t + 1, o)) =
            Cardinality(Pulled(t, o)) + (IF Outcome(Tasks[t + 1]) = o THEN 1 ELSE 0)
  <1>1. IsFiniteSet(Pulled(t, o)) /\ t + 1 \notin Pulled(t, o)
    <2>1. ~(t + 1 <= t)
      OBVIOUS
    <2>2. t + 1 \notin Pulled(t, o)
      BY <2>1 DEF Pulled
    <2>3. QED  BY <2>2, CountedFinite
  <1>2. \A k \in 1..Lines1 : k <= t + 1 <=> k <= t \/ k = t + 1
    BY Cracker1Constants
  <1>3. t + 1 \in 1..Lines1
    BY Cracker1Constants
  <1>4. CASE Outcome(Tasks[t + 1]) = o
    <2>1. Pulled(t + 1, o) = Pulled(t, o) \union {t + 1}
      BY <1>2, <1>3, <1>4 DEF Pulled
    <2>2. QED  BY <1>1, <1>4, <2>1, FS_AddElement
  <1>5. CASE Outcome(Tasks[t + 1]) # o
    <2>1. Pulled(t + 1, o) = Pulled(t, o)
      BY <1>2, <1>3, <1>5 DEF Pulled
    <2>2. Cardinality(Pulled(t, o)) \in Nat
      BY CountedFinite
    <2>3. QED  BY <1>5, <2>1, <2>2
  <1>6. QED  BY <1>4, <1>5

LEMMA TakenAll ==
  ASSUME NEW t \in Nat, t >= Lines1, NEW o
  PROVE  Pulled(t, o) = Pulled(Lines1, o)
  <1>1. \A k \in 1..Lines1 : k <= t /\ k <= Lines1
    BY Cracker1Constants
  <1>2. QED  BY <1>1 DEF Pulled

(* One more for worker w is one more in the sum. *)
LEMMA SumPlusOne ==
  ASSUME NEW S, IsFiniteSet(S), NEW f \in [S -> Nat], NEW w \in S
  PROVE  /\ SumFunctionOnSet([f EXCEPT ![w] = f[w] + 1], S) = SumFunctionOnSet(f, S) + 1
         /\ SumFunctionOnSet(f, S) \in Int
  <1> DEFINE T == S \ {w}
             g == [f EXCEPT ![w] = f[w] + 1]
  <1>1. IsFiniteSet(T) /\ w \notin T /\ T \union {w} = S
    BY FS_Subset
  <1>2. \A x \in S : f[x] \in Nat /\ g[x] \in Nat
    OBVIOUS
  <1>3. g[w] = f[w] + 1 /\ \A x \in T : f[x] = g[x]
    OBVIOUS
  <1> HIDE DEF g, T
  <1>4. \A x \in T \union {w} : f[x] \in Int /\ g[x] \in Int
    BY <1>1, <1>2
  <1>5. /\ SumFunctionOnSet(f, T \union {w}) = SumFunctionOnSet(f, T) + f[w]
        /\ SumFunctionOnSet(g, T \union {w}) = SumFunctionOnSet(g, T) + g[w]
        /\ SumFunctionOnSet(f, T) \in Int
    BY <1>1, <1>4, SumGrows
  <1>6. \A x \in T : f[x] = g[x] /\ f[x] \in Int
    BY <1>3, <1>4
  <1>7. SumFunctionOnSet(g, T) = SumFunctionOnSet(f, T)
    BY <1>1, <1>6, SumOfSame
  <1>8. f[w] \in Int
    BY <1>2
  <1>9. SumFunctionOnSet(g, S) = SumFunctionOnSet(f, S) + 1 /\ SumFunctionOnSet(f, S) \in Int
    BY <1>1, <1>3, <1>5, <1>7, <1>8
  <1>10. QED  BY <1>9 DEF g

LEMMA Cracker1Starts == Cracker1Init => Cracker1Inv
  <1> SUFFICES ASSUME Cracker1Init  PROVE  Cracker1Inv
    OBVIOUS
  <1>1. /\ work = <<>> /\ c1Main = [at |-> "read", k |-> 1] /\ c1Pc = [w \in Workers |-> "pull"]
        /\ c1Task = [w \in Workers |-> Pill] /\ c1Raw = [w \in Workers |-> 0]
        /\ success = [w \in Workers |-> 0] /\ fail = [w \in Workers |-> 0]
        /\ num_success = 0 /\ num_fail = 0
    BY DEF Cracker1Init
  <1>2. Cracker1Types
    BY <1>1, Cracker1Constants DEF Cracker1Types
  <1>3. HashingHolds
    BY <1>1 DEF HashingHolds
  <1>4. JoinHolds
    <2>1. JoinedSoFar = {}
      BY <1>1 DEF JoinedSoFar
    <2>2. QED  BY <1>1, <2>1, SumOfNone DEF JoinHolds
  <1>5. HasPut = 0
    BY <1>1 DEF HasPut
  <1>6. QueueHolds(0)
    <2>1. Ahead(0, 0) = <<>>
      BY QueueMoves
    <2>2. 0 # Lines1 + 1
      BY Cracker1Constants
    <2>3. QED  BY <1>1, <1>5, <2>1, <2>2 DEF QueueHolds
  <1>7. CountsHold(0)
    <2> SUFFICES ASSUME NEW o \in Outcomes
                 PROVE  SumFunctionOnSet(Score(o), Workers) + Cardinality(Hashing(o)) = Cardinality(Pulled(0, o))
      BY DEF CountsHold
    <2>1. Hashing(o) = {} /\ Pulled(0, o) = {}
      BY <1>1 DEF Hashing, Pulled
    <2>2. Score(o) = [w \in Workers |-> 0]
      BY <1>1 DEF Score
    <2>3. Sums([s \in SUBSET Workers |-> 0], [w \in Workers |-> 0], Workers)
      BY DEF Sums
    <2>4. SumFunctionOnSet(Score(o), Workers) = 0
      BY <2>2, <2>3, Cracker1Constants, SumIs
    <2>5. Cardinality({}) = 0
      BY FS_EmptySet
    <2>6. QED  BY <2>1, <2>4, <2>5
  <1>8. QED  BY <1>2, <1>3, <1>4, <1>6, <1>7 DEF Cracker1Inv

LEMMA PutBounds ==
  ASSUME Cracker1Inv
  PROVE  /\ HasPut \in Nat /\ HasPut <= Lines1 + 1
         /\ c1Main.at = "read" => HasPut = c1Main.k - 1 /\ HasPut <= Lines1
         /\ c1Main.at # "read" => HasPut = Lines1 + 1
  <1>1. Lines1 \in Nat
    BY Cracker1Constants
  <1>2. CASE c1Main.at = "read"
    <2>1. PICK k \in Nat : k = c1Main.k /\ k >= 1 /\ k <= Lines1 + 1
      BY <1>2 DEF Cracker1Inv, Cracker1Types
    <2>2. HasPut = k - 1
      BY <1>2, <2>1 DEF HasPut
    <2>3. QED  BY <1>1, <1>2, <2>1, <2>2
  <1>3. CASE c1Main.at # "read"
    <2>1. HasPut = Lines1 + 1
      BY <1>3 DEF HasPut
    <2>2. QED  BY <1>1, <1>3, <2>1
  <1>4. QED  BY <1>2, <1>3

(* What is counted of a worker that is in no round of hashing. *)
LEMMA JoinedStay ==
  ASSUME Cracker1Inv, UNCHANGED <<c1Main, num_success, num_fail>>,
         \A w \in Workers : c1Pc[w] = "exit" =>
            c1Pc'[w] = "exit" /\ success'[w] = success[w] /\ fail'[w] = fail[w]
  PROVE  JoinHolds'
  <1>1. JoinedSoFar' = JoinedSoFar /\ JoinedSoFar \subseteq Workers
    <2>1. c1Main.at \in {"read", "join", "done"} /\ (c1Main.at = "join" => c1Main.k \in Workers)
      BY DEF Cracker1Inv, Cracker1Types
    <2>2. c1Main.at = "join" => 1..c1Main.k - 1 \subseteq Workers
      BY <2>1, CrackersConstants
    <2>3. QED  BY <2>1, <2>2 DEF JoinedSoFar
  <1>2. IsFiniteSet(JoinedSoFar)
    BY <1>1, Cracker1Constants, FS_Subset
  <1>3. \A w \in JoinedSoFar : c1Pc[w] = "exit"
    BY DEF Cracker1Inv, JoinHolds
  <1>4. \A w \in JoinedSoFar : /\ c1Pc'[w] = "exit" /\ success[w] = success'[w] /\ fail[w] = fail'[w]
                               /\ success[w] \in Int /\ fail[w] \in Int
    <2>1. success \in [Workers -> Nat] /\ fail \in [Workers -> Nat]
      BY DEF Cracker1Inv, Cracker1Types
    <2>2. \A w \in Workers : success[w] \in Int /\ fail[w] \in Int
      BY <2>1
    <2>3. QED  BY <1>1, <1>3, <2>2
  <1>5. /\ SumFunctionOnSet(success', JoinedSoFar) = SumFunctionOnSet(success, JoinedSoFar)
        /\ SumFunctionOnSet(fail', JoinedSoFar) = SumFunctionOnSet(fail, JoinedSoFar)
    BY <1>2, <1>4, SumOfSame
  <1>6. QED  BY <1>1, <1>4, <1>5 DEF Cracker1Inv, JoinHolds

LEMMA PullKeeps == ASSUME Cracker1Inv, NEW w \in Workers, queue_pull(w)  PROVE  Cracker1Inv'
  <1>1. PICK t : QueueHolds(t) /\ CountsHold(t)
    BY DEF Cracker1Inv
  <1>2. /\ c1Pc[w] = "pull" /\ work # <<>> /\ work' = Tail(work)
        /\ c1Task' = [c1Task EXCEPT ![w] = Head(work)] /\ c1Raw' = [c1Raw EXCEPT ![w] = 0]
        /\ c1Pc' = [c1Pc EXCEPT ![w] = IF Head(work) = Pill THEN "hand on" ELSE "hash"]
        /\ UNCHANGED <<c1Main, success, fail, num_success, num_fail>>
    BY DEF queue_pull
  <1> DEFINE N == Lines1
             p == IF Head(work) = Pill THEN "hand on" ELSE "hash"
  <1>3. /\ t \in Nat /\ N \in Nat /\ HasPut \in Nat /\ HasPut <= N + 1 /\ t <= HasPut /\ HasPut' = HasPut
        /\ c1Main.at = "read" => HasPut <= N
    <2>1. t \in Nat /\ t <= HasPut
      BY <1>1 DEF QueueHolds
    <2>2. HasPut' = HasPut
      BY <1>2 DEF HasPut
    <2>3. QED  BY <2>1, <2>2, Cracker1Constants, PutBounds
  <1>4. t < HasPut /\ Head(work) = TaskAt(t + 1) /\ Tail(work) = Ahead(t + 1, HasPut)
    <2>1. work = Ahead(t, HasPut)
      BY <1>1 DEF QueueHolds
    <2>2. Ahead(t, HasPut) # <<>>
      BY <1>2, <2>1
    <2>3. t \in Nat /\ HasPut \in Nat /\ t <= HasPut
      BY <1>3
    <2>4. t # HasPut
      BY <2>2, <2>3, QueueMoves
    <2>5. t < HasPut
      BY <2>3, <2>4
    <2>6. QED  BY <2>1, <2>3, <2>5, QueueMoves
  <1>5. /\ c1Pc \in [Workers -> {"pull", "hash", "hand on", "exit"}]
        /\ c1Task = [v \in Workers |-> c1Task[v]] /\ c1Raw = [v \in Workers |-> c1Raw[v]]
    BY DEF Cracker1Inv, Cracker1Types
  <1>6. /\ c1Pc'[w] = p /\ c1Task'[w] = Head(work) /\ c1Raw'[w] = 0
        /\ \A v \in Workers \ {w} : c1Pc'[v] = c1Pc[v] /\ c1Task'[v] = c1Task[v] /\ c1Raw'[v] = c1Raw[v]
        /\ c1Pc' \in [Workers -> {"pull", "hash", "hand on", "exit"}]
        /\ c1Task' = [v \in Workers |-> c1Task'[v]] /\ c1Raw' = [v \in Workers |-> c1Raw'[v]]
    BY <1>2, <1>5
  <1>7. Cracker1Types'
    BY <1>2, <1>6 DEF Cracker1Inv, Cracker1Types
  <1>8. JoinHolds'
    <2>1. \A v \in Workers : c1Pc[v] = "exit" =>
             c1Pc'[v] = "exit" /\ success'[v] = success[v] /\ fail'[v] = fail[v]
      BY <1>2, <1>6
    <2>2. QED  BY <1>2, <2>1, JoinedStay
  <1>9. \A v \in Workers : c1Pc[v] # "hand on"
    <2>1. t # N + 1
      BY <1>3, <1>4
    <2>2. QED  BY <1>1, <2>1 DEF QueueHolds
  <1>10. \A v \in Workers : c1Pc[v] = "exit" => t >= N /\ c1Main.at # "read"
    BY <1>1 DEF QueueHolds
  <1>11. CASE t + 1 <= N
    <2>1. /\ Head(work) = Tasks[t + 1] /\ Tasks[t + 1].space \in Nat \ {0} /\ Tasks[t + 1].target \in Nat
      BY <1>3, <1>4, <1>11, Cracker1Constants
    <2>2. Head(work) # Pill
      BY <2>1, Cracker1Constants
    <2>3. c1Pc'[w] = "hash" /\ c1Task'[w] = Tasks[t + 1]
      BY <1>6, <2>1, <2>2
    <2>4. HashingHolds'
      <3>1. ASSUME NEW v \in Workers, c1Pc'[v] = "hash"
            PROVE  /\ c1Task'[v].space \in Nat /\ c1Task'[v].target \in Nat /\ c1Raw'[v] \in Nat
                   /\ c1Raw'[v] < c1Task'[v].space /\ c1Raw'[v] <= c1Task'[v].target
        <4>1. CASE v = w
          <5>1. c1Task'[v] = Tasks[t + 1] /\ c1Raw'[v] = 0
            BY <1>6, <2>3, <4>1
          <5>2. 0 < Tasks[t + 1].space /\ 0 <= Tasks[t + 1].target
            BY <2>1
          <5>3. QED  BY <2>1, <5>1, <5>2
        <4>2. CASE v # w
          BY <1>6, <3>1, <4>2 DEF Cracker1Inv, HashingHolds
        <4>3. QED  BY <4>1, <4>2
      <3>2. QED  BY <3>1 DEF HashingHolds
    <2>5. QueueHolds(t + 1)'
      <3>1. t + 1 \in Nat /\ t + 1 <= HasPut' /\ t + 1 # N + 1 /\ work' = Ahead(t + 1, HasPut')
        <4>1. t + 1 \in Nat /\ t + 1 <= HasPut /\ t + 1 # N + 1
          BY <1>3, <1>4, <1>11
        <4>2. work' = Ahead(t + 1, HasPut)
          BY <1>2, <1>4
        <4>3. QED  BY <1>3, <4>1, <4>2
      <3>2. \A v \in Workers : c1Pc'[v] # "hand on"
        BY <1>6, <1>9, <2>3
      <3>3. \A v \in Workers : c1Pc'[v] = "exit" => t + 1 >= N /\ c1Main'.at # "read"
        <4>1. \A v \in Workers : c1Pc'[v] = "exit" => c1Pc[v] = "exit"
          BY <1>6, <2>3
        <4>2. t >= N => t + 1 >= N
          BY <1>3
        <4>3. QED  BY <1>2, <1>10, <4>1, <4>2
      <3>4. QED  BY <3>1, <3>2, <3>3 DEF QueueHolds
    <2>6. CountsHold(t + 1)'
      <3> SUFFICES ASSUME NEW o \in Outcomes
                   PROVE  SumFunctionOnSet(Score(o)', Workers) + Cardinality(Hashing(o)') = Cardinality(Pulled(t + 1, o))
        BY DEF CountsHold, Pulled
      <3>1. Score(o)' = Score(o)
        BY <1>2 DEF Score
      <3>2. SumFunctionOnSet(Score(o), Workers) + Cardinality(Hashing(o)) = Cardinality(Pulled(t, o))
        BY <1>1 DEF CountsHold
      <3>3. IsFiniteSet(Hashing(o)) /\ Cardinality(Hashing(o)) \in Nat /\ w \notin Hashing(o)
        BY <1>2, <1>3, CountedFinite DEF Hashing
      <3>4. SumFunctionOnSet(Score(o), Workers) \in Int
        <4>1. Score(o) \in [Workers -> Nat]
          BY DEF Score, Cracker1Inv, Cracker1Types
        <4>2. QED  BY <4>1, Cracker1Constants, SumPlusOne
      <3>5. Cardinality(Pulled(t + 1, o)) = Cardinality(Pulled(t, o)) + (IF Outcome(Tasks[t + 1]) = o THEN 1 ELSE 0)
        BY <1>3, <1>11, TakenOne
      <3>6. CASE Outcome(Tasks[t + 1]) = o
        <4>1. Hashing(o)' = Hashing(o) \union {w}
          BY <1>6, <2>3, <3>6 DEF Hashing, Outcome
        <4>2. Cardinality(Hashing(o) \union {w}) = Cardinality(Hashing(o)) + 1
          BY <3>3, FS_AddElement
        <4>3. QED  BY <3>1, <3>2, <3>3, <3>4, <3>5, <3>6, <4>1, <4>2
      <3>7. CASE Outcome(Tasks[t + 1]) # o
        <4>1. Hashing(o)' = Hashing(o)
          BY <1>2, <1>6, <2>3, <3>7 DEF Hashing, Outcome
        <4>2. QED  BY <3>1, <3>2, <3>3, <3>4, <3>5, <3>7, <4>1
      <3>8. QED  BY <3>6, <3>7
    <2>7. QED  BY <1>7, <1>8, <2>4, <2>5, <2>6 DEF Cracker1Inv
  <1>12. CASE ~(t + 1 <= N)
    <2>1. t = N /\ HasPut = N + 1 /\ c1Main.at # "read" /\ Head(work) = Pill
      <3>1. t = N /\ HasPut = N + 1
        BY <1>3, <1>4, <1>12
      <3>2. QED  BY <1>3, <1>4, <3>1, Cracker1Constants
    <2>2. c1Pc'[w] = "hand on"
      BY <1>6, <2>1
    <2>3. HashingHolds'
      BY <1>6, <2>2 DEF Cracker1Inv, HashingHolds
    <2>4. QueueHolds(N + 1)'
      <3>1. N + 1 \in Nat /\ N + 1 <= HasPut' /\ work' = Ahead(N + 1, HasPut') /\ N + 1 >= N
        BY <1>2, <1>3, <1>4, <2>1
      <3>2. \A v \in Workers : c1Pc'[v] = "hand on" => v = w
        BY <1>6, <1>9
      <3>3. c1Main'.at # "read"
        BY <1>2, <2>1
      <3>4. QED  BY <2>2, <3>1, <3>2, <3>3 DEF QueueHolds
    <2>5. CountsHold(N + 1)'
      <3> SUFFICES ASSUME NEW o \in Outcomes
                   PROVE  SumFunctionOnSet(Score(o)', Workers) + Cardinality(Hashing(o)') = Cardinality(Pulled(N + 1, o))
        BY DEF CountsHold, Pulled
      <3>1. Score(o)' = Score(o)
        BY <1>2 DEF Score
      <3>2. Hashing(o)' = Hashing(o)
        BY <1>2, <1>6, <2>2 DEF Hashing, Outcome
      <3>3. Pulled(N + 1, o) = Pulled(N, o)
        BY <1>3, TakenAll
      <3>4. QED  BY <1>1, <2>1, <3>1, <3>2, <3>3 DEF CountsHold
    <2>6. QED  BY <1>7, <1>8, <2>3, <2>4, <2>5 DEF Cracker1Inv
  <1>13. QED  BY <1>11, <1>12

(* A worker is done with its line, and has counted it. *)
LEMMA LineCounted ==
  ASSUME Cracker1Inv, NEW t \in Nat, CountsHold(t), NEW w \in Workers, c1Pc[w] = "hash",
         c1Pc' = [c1Pc EXCEPT ![w] = "pull"], c1Task' = c1Task,
         NEW done \in Outcomes, Outcome(c1Task[w]) = done,
         \A o \in Outcomes : Score(o)' = IF o = done THEN [Score(o) EXCEPT ![w] = Score(o)[w] + 1] ELSE Score(o)
  PROVE  CountsHold(t)'
  <1> SUFFICES ASSUME NEW o \in Outcomes
               PROVE  SumFunctionOnSet(Score(o)', Workers) + Cardinality(Hashing(o)') = Cardinality(Pulled(t, o))
    BY DEF CountsHold, Pulled
  <1>1. c1Pc'[w] = "pull" /\ \A v \in Workers \ {w} : c1Pc'[v] = c1Pc[v]
    BY DEF Cracker1Inv, Cracker1Types
  <1>2. SumFunctionOnSet(Score(o), Workers) + Cardinality(Hashing(o)) = Cardinality(Pulled(t, o))
    BY DEF CountsHold
  <1>3. IsFiniteSet(Hashing(o)) /\ Cardinality(Hashing(o)) \in Nat
    BY CountedFinite
  <1>4. Score(o) \in [Workers -> Nat]
    BY DEF Score, Cracker1Inv, Cracker1Types
  <1>5. CASE o = done
    <2>1. Hashing(o)' = Hashing(o) \ {w} /\ w \in Hashing(o)
      BY <1>1, <1>5 DEF Hashing, Outcome
    <2>2. Cardinality(Hashing(o) \ {w}) = Cardinality(Hashing(o)) - 1
      BY <1>3, <2>1, FS_RemoveElement
    <2> DEFINE more == [Score(o) EXCEPT ![w] = Score(o)[w] + 1]
    <2>3. /\ SumFunctionOnSet(more, Workers) = SumFunctionOnSet(Score(o), Workers) + 1
          /\ SumFunctionOnSet(Score(o), Workers) \in Int
      BY <1>4, Cracker1Constants, SumPlusOne
    <2>4. Score(o)' = more
      BY <1>5
    <2> HIDE DEF more
    <2>5. QED  BY <1>2, <1>3, <2>1, <2>2, <2>3, <2>4
  <1>6. CASE o # done
    <2>1. Hashing(o)' = Hashing(o)
      BY <1>1, <1>6 DEF Hashing, Outcome
    <2>2. QED  BY <1>2, <1>6, <2>1
  <1>7. QED  BY <1>5, <1>6

LEMMA HashKeeps == ASSUME Cracker1Inv, NEW w \in Workers, Hash(w)  PROVE  Cracker1Inv'
  <1>1. PICK t : QueueHolds(t) /\ CountsHold(t)
    BY DEF Cracker1Inv
  <1>2. c1Pc[w] = "hash" /\ UNCHANGED <<work, c1Main, c1Task, num_success, num_fail>>
    BY DEF Hash
  <1>3. /\ c1Task[w].space \in Nat /\ c1Task[w].target \in Nat /\ c1Raw[w] \in Nat
        /\ c1Raw[w] < c1Task[w].space /\ c1Raw[w] <= c1Task[w].target
    BY <1>2 DEF Cracker1Inv, HashingHolds
  <1>4. /\ c1Pc \in [Workers -> {"pull", "hash", "hand on", "exit"}] /\ c1Raw = [v \in Workers |-> c1Raw[v]]
        /\ success \in [Workers -> Nat] /\ fail \in [Workers -> Nat] /\ t \in Nat
    BY <1>1 DEF Cracker1Inv, Cracker1Types, QueueHolds
  <1>5. ASSUME NEW p \in {"pull", "hash"}, c1Pc' = [c1Pc EXCEPT ![w] = p], NEW x, c1Raw' = [c1Raw EXCEPT ![w] = x],
               success' \in [Workers -> Nat], fail' \in [Workers -> Nat],
               \A v \in Workers \ {w} : success'[v] = success[v] /\ fail'[v] = fail[v],
               p = "hash" => x \in Nat /\ x < c1Task[w].space /\ x <= c1Task[w].target,
               CountsHold(t)'
        PROVE  Cracker1Inv'
    <2>1. /\ c1Pc'[w] = p /\ c1Raw'[w] = x /\ c1Raw' = [v \in Workers |-> c1Raw'[v]]
          /\ c1Pc' \in [Workers -> {"pull", "hash", "hand on", "exit"}]
          /\ \A v \in Workers \ {w} : c1Pc'[v] = c1Pc[v] /\ c1Raw'[v] = c1Raw[v]
      BY <1>4, <1>5
    <2>2. Cracker1Types'
      BY <1>2, <1>5, <2>1 DEF Cracker1Inv, Cracker1Types
    <2>3. HashingHolds'
      BY <1>2, <1>3, <1>5, <2>1 DEF Cracker1Inv, HashingHolds
    <2>4. JoinHolds'
      <3>1. \A v \in Workers : c1Pc[v] = "exit" =>
               c1Pc'[v] = "exit" /\ success'[v] = success[v] /\ fail'[v] = fail[v]
        BY <1>2, <1>5, <2>1
      <3>2. QED  BY <1>2, <3>1, JoinedStay
    <2>5. QueueHolds(t)'
      <3>1. \A v \in Workers : /\ c1Pc'[v] = "exit" <=> c1Pc[v] = "exit"
                               /\ c1Pc'[v] = "hand on" <=> c1Pc[v] = "hand on"
        BY <1>2, <1>5, <2>1
      <3>2. HasPut' = HasPut /\ work' = work
        BY <1>2 DEF HasPut
      <3>3. Ahead(t, HasPut)' = Ahead(t, HasPut)
        BY <3>2 DEF Ahead, TaskAt
      <3>4. QED  BY <1>1, <1>2, <3>1, <3>2, <3>3 DEF QueueHolds
    <2>6. QED  BY <1>5, <2>2, <2>3, <2>4, <2>5 DEF Cracker1Inv
  <1>6. c1Raw' = c1Raw => c1Raw' = [c1Raw EXCEPT ![w] = c1Raw[w]]
    BY <1>4
  <1>7. CASE /\ c1Raw[w] = c1Task[w].target /\ success' = [success EXCEPT ![w] = @ + 1]
             /\ c1Pc' = [c1Pc EXCEPT ![w] = "pull"] /\ UNCHANGED <<c1Raw, fail>>
    <2>1. Outcome(c1Task[w]) = "success"
      BY <1>3, <1>7 DEF Outcome, Crackable
    <2>2. \A o \in Outcomes : Score(o)' = IF o = "success" THEN [Score(o) EXCEPT ![w] = Score(o)[w] + 1] ELSE Score(o)
      BY <1>7 DEF Score
    <2>3. CountsHold(t)'
      <3>1. "success" \in Outcomes /\ t \in Nat /\ c1Task' = c1Task
        BY <1>2, <1>4 DEF Outcomes
      <3>2. QED  BY <1>1, <1>2, <1>7, <2>1, <2>2, <3>1, LineCounted
    <2>4. success' \in [Workers -> Nat] /\ \A v \in Workers \ {w} : success'[v] = success[v]
      <3>1. success[w] + 1 \in Nat /\ success' = [success EXCEPT ![w] = success[w] + 1]
        <4>1. success[w] + 1 \in Nat
          <5>1. success \in [Workers -> Nat]
            BY <1>4
          <5>2. success[w] \in Nat
            BY <5>1
          <5>3. QED  BY <5>2
        <4>2. success' = [success EXCEPT ![w] = success[w] + 1]
          BY <1>7
        <4>3. QED  BY <4>1, <4>2
      <3>2. QED  BY <1>4, <3>1
    <2>5. QED  BY <1>4, <1>5, <1>6, <1>7, <2>3, <2>4
  <1>8. CASE /\ c1Raw[w] # c1Task[w].target /\ c1Raw[w] = c1Task[w].space - 1
             /\ fail' = [fail EXCEPT ![w] = @ + 1]
             /\ c1Pc' = [c1Pc EXCEPT ![w] = "pull"] /\ UNCHANGED <<c1Raw, success>>
    <2>1. Outcome(c1Task[w]) = "fail"
      BY <1>3, <1>8 DEF Outcome, Crackable
    <2>2. \A o \in Outcomes : Score(o)' = IF o = "fail" THEN [Score(o) EXCEPT ![w] = Score(o)[w] + 1] ELSE Score(o)
      BY <1>8 DEF Score, Outcomes
    <2>3. CountsHold(t)'
      <3>1. "fail" \in Outcomes /\ t \in Nat /\ c1Task' = c1Task
        BY <1>2, <1>4 DEF Outcomes
      <3>2. QED  BY <1>1, <1>2, <1>8, <2>1, <2>2, <3>1, LineCounted
    <2>4. fail' \in [Workers -> Nat] /\ \A v \in Workers \ {w} : fail'[v] = fail[v]
      <3>1. fail[w] + 1 \in Nat /\ fail' = [fail EXCEPT ![w] = fail[w] + 1]
        <4>1. fail[w] + 1 \in Nat
          <5>1. fail \in [Workers -> Nat]
            BY <1>4
          <5>2. fail[w] \in Nat
            BY <5>1
          <5>3. QED  BY <5>2
        <4>2. fail' = [fail EXCEPT ![w] = fail[w] + 1]
          BY <1>8
        <4>3. QED  BY <4>1, <4>2
      <3>2. QED  BY <1>4, <3>1
    <2>5. QED  BY <1>4, <1>5, <1>6, <1>8, <2>3, <2>4
  <1>9. CASE /\ c1Raw[w] # c1Task[w].target /\ c1Raw[w] # c1Task[w].space - 1
             /\ c1Raw' = [c1Raw EXCEPT ![w] = @ + 1] /\ UNCHANGED <<c1Pc, success, fail>>
    <2>1. c1Raw[w] + 1 \in Nat /\ c1Raw[w] + 1 < c1Task[w].space /\ c1Raw[w] + 1 <= c1Task[w].target
      BY <1>3, <1>9
    <2>2. c1Pc' = [c1Pc EXCEPT ![w] = "hash"] /\ c1Raw' = [c1Raw EXCEPT ![w] = c1Raw[w] + 1]
      BY <1>2, <1>4, <1>9
    <2>3. CountsHold(t)'
      BY <1>1, <1>2, <1>9 DEF CountsHold, Score, Hashing, Pulled
    <2>4. QED  BY <1>4, <1>5, <1>9, <2>1, <2>2, <2>3
  <1>10. QED  BY <1>7, <1>8, <1>9 DEF Hash

LEMMA HandOnKeeps == ASSUME Cracker1Inv, NEW w \in Workers, HandPillOn(w)  PROVE  Cracker1Inv'
  <1>1. PICK t : QueueHolds(t) /\ CountsHold(t)
    BY DEF Cracker1Inv
  <1>2. /\ c1Pc[w] = "hand on" /\ work' = Append(work, Pill) /\ c1Pc' = [c1Pc EXCEPT ![w] = "exit"]
        /\ UNCHANGED <<c1Main, c1Task, c1Raw, success, fail, num_success, num_fail>>
    BY DEF HandPillOn
  <1> DEFINE N == Lines1
  <1>3. c1Pc'[w] = "exit" /\ \A v \in Workers \ {w} : c1Pc'[v] = c1Pc[v]
        /\ c1Pc' \in [Workers -> {"pull", "hash", "hand on", "exit"}]
    BY <1>2 DEF Cracker1Inv, Cracker1Types
  <1>4. N \in Nat /\ t = N + 1 /\ HasPut = N + 1 /\ c1Main.at # "read"
    <2>1. N \in Nat /\ t = N + 1 /\ t <= HasPut
      BY <1>1, <1>2, Cracker1Constants DEF QueueHolds
    <2>2. HasPut \in Nat /\ (c1Main.at = "read" => HasPut <= N) /\ (c1Main.at # "read" => HasPut = N + 1)
      BY PutBounds
    <2>3. c1Main.at # "read"
      BY <2>1, <2>2
    <2>4. QED  BY <2>1, <2>2, <2>3
  <1>5. work' = Ahead(N, N + 1)
    <2>1. work = Ahead(N + 1, N + 1) /\ Ahead(N + 1, N + 1) = <<>> /\ Ahead(N, N) = <<>>
      <3>1. N \in Nat /\ N + 1 \in Nat /\ N <= N /\ N + 1 <= N + 1
        BY <1>4
      <3>2. Ahead(N + 1, N + 1) = <<>> /\ Ahead(N, N) = <<>>
        BY <3>1, QueueMoves
      <3>3. QED  BY <1>1, <1>4, <3>2 DEF QueueHolds
    <2>2. Append(Ahead(N, N), TaskAt(N + 1)) = Ahead(N, N + 1)
      <3>1. N \in Nat /\ N <= N
        BY <1>4
      <3>2. QED  BY <3>1, QueueMoves
    <2>3. QED  BY <1>2, <2>1, <2>2, Cracker1Constants
  <1>6. Cracker1Types' /\ HashingHolds'
    BY <1>2, <1>3 DEF Cracker1Inv, Cracker1Types, HashingHolds
  <1>7. JoinHolds'
    <2>1. \A v \in Workers : c1Pc[v] = "exit" =>
             c1Pc'[v] = "exit" /\ success'[v] = success[v] /\ fail'[v] = fail[v]
      BY <1>2, <1>3
    <2>2. QED  BY <1>2, <2>1, JoinedStay
  <1>8. QueueHolds(N)'
    <2>1. \A v \in Workers : c1Pc'[v] # "hand on"
      BY <1>1, <1>2, <1>3 DEF QueueHolds
    <2>2. HasPut' = N + 1 /\ c1Main'.at # "read"
      BY <1>2, <1>4 DEF HasPut
    <2>3. N \in Nat /\ N <= N + 1 /\ N >= N /\ N # N + 1
      BY <1>4
    <2>4. QED  BY <1>5, <2>1, <2>2, <2>3 DEF QueueHolds
  <1>9. CountsHold(N)'
    <2> SUFFICES ASSUME NEW o \in Outcomes
                 PROVE  SumFunctionOnSet(Score(o)', Workers) + Cardinality(Hashing(o)') = Cardinality(Pulled(N, o))
      BY DEF CountsHold, Pulled
    <2>1. Score(o)' = Score(o) /\ Hashing(o)' = Hashing(o)
      BY <1>2, <1>3 DEF Score, Hashing
    <2>2. t \in Nat /\ t >= N
      BY <1>4
    <2>3. Pulled(t, o) = Pulled(N, o)
      BY <2>2, TakenAll
    <2>4. QED  BY <1>1, <2>1, <2>3 DEF CountsHold
  <1>10. QED  BY <1>6, <1>7, <1>8, <1>9 DEF Cracker1Inv

LEMMA ReadKeeps == ASSUME Cracker1Inv, ReadTasks  PROVE  Cracker1Inv'
  <1>1. PICK t : QueueHolds(t) /\ CountsHold(t)
    BY DEF Cracker1Inv
  <1> DEFINE N == Lines1
             k == c1Main.k
  <1>2. /\ c1Main.at = "read"
        /\ UNCHANGED <<c1Pc, c1Task, c1Raw, success, fail, num_success, num_fail>>
        /\ \/ k <= N /\ work' = Append(work, Tasks[k]) /\ c1Main' = [c1Main EXCEPT !.k = k + 1]
           \/ ~(k <= N) /\ work' = Append(work, Pill) /\ c1Main' = [at |-> "join", k |-> 1]
    BY DEF ReadTasks, Lines1
  <1>3. N \in Nat /\ k \in Nat /\ k >= 1 /\ k <= N + 1 /\ HasPut = k - 1 /\ k - 1 \in Nat
    <2>1. N \in Nat /\ HasPut = k - 1
      BY <1>2, Cracker1Constants, PutBounds
    <2>2. k \in Nat /\ k >= 1 /\ k <= N + 1
      BY <1>2 DEF Cracker1Inv, Cracker1Types
    <2> HIDE DEF k
    <2>3. QED  BY <2>1, <2>2
  <1>5. k <= N => c1Main' = [at |-> "read", k |-> k + 1]
    <2>1. c1Main = [at |-> c1Main.at, k |-> c1Main.k]
      BY DEF Cracker1Inv, Cracker1Types
    <2>2. QED  BY <1>2, <2>1
  <1> HIDE DEF k
  <1>6. work' = Append(work, TaskAt(k))
    <2>1. k <= N => TaskAt(k) = Tasks[k]
      BY <1>3, Cracker1Constants
    <2>2. ~(k <= N) => TaskAt(k) = Pill
      BY <1>3, Cracker1Constants DEF TaskAt
    <2>3. QED  BY <1>2, <2>1, <2>2
  <1>7. HasPut' = k
    <2>1. CASE k <= N
      <3>1. c1Main'.at = "read" /\ c1Main'.k = k + 1
        BY <1>5, <2>1
      <3>2. HasPut' = (k + 1) - 1
        BY <3>1 DEF HasPut
      <3>3. QED  BY <1>3, <3>2
    <2>2. CASE ~(k <= N)
      <3>1. c1Main'.at = "join" /\ k = N + 1
        BY <1>2, <1>3, <2>2
      <3>2. QED  BY <3>1 DEF HasPut
    <2>3. QED  BY <2>1, <2>2
  <1>8. /\ c1Main' = [at |-> c1Main'.at, k |-> c1Main'.k] /\ c1Main'.k \in Nat
        /\ \/ c1Main'.at = "read" /\ c1Main'.k >= 1 /\ c1Main'.k <= N + 1
           \/ c1Main'.at = "join" /\ c1Main'.k = 1
    <2>1. CASE k <= N
      <3>1. c1Main'.at = "read" /\ c1Main'.k = k + 1 /\ c1Main' = [at |-> c1Main'.at, k |-> c1Main'.k]
        BY <1>5, <2>1
      <3>2. k + 1 \in Nat /\ k + 1 >= 1 /\ k + 1 <= N + 1
        BY <1>3, <2>1
      <3>3. QED  BY <3>1, <3>2
    <2>2. CASE ~(k <= N)
      BY <1>2, <2>2
    <2>3. QED  BY <2>1, <2>2
  <1>9. 1 \in Workers
    BY CrackersConstants
  <1>10. Cracker1Types' /\ HashingHolds'
    BY <1>2, <1>8, <1>9 DEF Cracker1Inv, Cracker1Types, HashingHolds
  <1>11. JoinHolds'
    <2>1. JoinedSoFar = {}
      BY <1>2 DEF JoinedSoFar
    <2>2. JoinedSoFar' = {}
      <3>1. 1..1 - 1 = {}
        OBVIOUS
      <3>2. QED  BY <1>8, <3>1 DEF JoinedSoFar
    <2>3. QED  BY <1>2, <2>1, <2>2 DEF Cracker1Inv, JoinHolds
  <1>12. t \in Nat /\ t <= k - 1 /\ work = Ahead(t, k - 1) /\ t # N + 1
    <2>1. t \in Nat /\ t <= k - 1 /\ work = Ahead(t, k - 1)
      BY <1>1, <1>3 DEF QueueHolds
    <2>2. QED  BY <1>3, <2>1
  <1>13. work' = Ahead(t, k) /\ t <= k
    <2>1. PICK r \in Nat : r = k - 1 /\ r + 1 = k
      BY <1>3
    <2>2. t <= r /\ work = Ahead(t, r)
      BY <1>12, <2>1
    <2>3. Append(Ahead(t, r), TaskAt(r + 1)) = Ahead(t, r + 1)
      BY <1>12, <2>2, QueueMoves
    <2>4. t <= k
      BY <1>12, <2>1, <2>2
    <2>5. QED  BY <1>6, <2>1, <2>2, <2>3, <2>4
  <1>14. QueueHolds(t)'
    <2>1. \A w \in Workers : c1Pc'[w] # "exit" /\ c1Pc'[w] # "hand on"
      BY <1>1, <1>2, <1>12 DEF QueueHolds
    <2>2. QED  BY <1>7, <1>12, <1>13, <2>1 DEF QueueHolds
  <1>15. CountsHold(t)'
    BY <1>1, <1>2 DEF CountsHold, Score, Hashing, Pulled
  <1>16. QED  BY <1>10, <1>11, <1>14, <1>15 DEF Cracker1Inv

LEMMA JoinKeeps == ASSUME Cracker1Inv, JoinWorkers  PROVE  Cracker1Inv'
  <1>1. PICK t : QueueHolds(t) /\ CountsHold(t)
    BY DEF Cracker1Inv
  <1> DEFINE k == c1Main.k
  <1>2. /\ c1Main.at = "join" /\ c1Pc[k] = "exit"
        /\ num_success' = num_success + success[k] /\ num_fail' = num_fail + fail[k]
        /\ UNCHANGED <<work, c1Pc, c1Task, c1Raw, success, fail>>
    BY DEF JoinWorkers
  <1>3. /\ k = thread_count => c1Main' = [at |-> "done", k |-> 0]
        /\ k # thread_count => c1Main' = [at |-> "join", k |-> k + 1]
    <2>1. c1Main = [at |-> c1Main.at, k |-> c1Main.k]
      BY DEF Cracker1Inv, Cracker1Types
    <2>2. QED  BY <1>2, <2>1 DEF JoinWorkers, thread_count
  <1>4. k \in Workers
    BY <1>2 DEF Cracker1Inv, Cracker1Types
  <1> HIDE DEF k
  <1>5. PICK n \in Nat : n = thread_count /\ n > 0 /\ Workers = 1..n
    BY CrackersConstants
  <1>6. k \in Nat /\ k >= 1 /\ k <= n
    BY <1>4, <1>5
  <1> DEFINE I == 1..k - 1
  <1>7. JoinedSoFar = I /\ IsFiniteSet(I) /\ k \notin I /\ I \union {k} \subseteq Workers
    <2>1. JoinedSoFar = I
      BY <1>2 DEF JoinedSoFar, k
    <2>2. I \union {k} \subseteq Workers /\ k \notin I
      BY <1>5, <1>6
    <2>3. IsFiniteSet(I)
      BY <2>2, Cracker1Constants, FS_Subset
    <2>4. QED  BY <2>1, <2>2, <2>3
  <1>8. JoinedSoFar' = I \union {k}
    <2>1. CASE k = thread_count
      <3>1. c1Main'.at = "done"
        BY <1>3, <2>1
      <3>2. I \union {k} = Workers
        BY <1>5, <1>6, <2>1
      <3>3. QED  BY <3>1, <3>2 DEF JoinedSoFar
    <2>2. CASE k # thread_count
      <3>1. c1Main'.at = "join" /\ c1Main'.k = k + 1
        BY <1>3, <2>2
      <3>2. I \union {k} = 1..(k + 1) - 1
        BY <1>6
      <3>3. JoinedSoFar' = 1..(k + 1) - 1
        BY <3>1 DEF JoinedSoFar
      <3>4. QED  BY <3>2, <3>3
    <2>3. QED  BY <2>1, <2>2
  <1> HIDE DEF I
  <1>9. JoinHolds'
    <2>1. success \in [Workers -> Nat] /\ fail \in [Workers -> Nat]
      BY DEF Cracker1Inv, Cracker1Types
    <2>2. \A w \in Workers : success[w] \in Int /\ fail[w] \in Int
      BY <2>1
    <2>3. \A w \in I \union {k} : success[w] \in Int /\ fail[w] \in Int
      BY <1>7, <2>2
    <2>4. /\ SumFunctionOnSet(success, I \union {k}) = SumFunctionOnSet(success, I) + success[k]
          /\ SumFunctionOnSet(fail, I \union {k}) = SumFunctionOnSet(fail, I) + fail[k]
      BY <1>7, <2>3, SumGrows
    <2>5. /\ \A w \in I : c1Pc[w] = "exit"
          /\ num_success = SumFunctionOnSet(success, I) /\ num_fail = SumFunctionOnSet(fail, I)
      BY <1>7 DEF Cracker1Inv, JoinHolds
    <2>6. QED  BY <1>2, <1>8, <2>4, <2>5 DEF JoinHolds
  <1>10. /\ c1Main' = [at |-> c1Main'.at, k |-> c1Main'.k] /\ c1Main'.k \in Nat
         /\ c1Main'.at \in {"join", "done"} /\ (c1Main'.at = "join" => c1Main'.k \in Workers)
    <2>1. CASE k = thread_count
      BY <1>3, <2>1
    <2>2. CASE k # thread_count
      <3>1. c1Main'.at = "join" /\ c1Main'.k = k + 1 /\ c1Main' = [at |-> c1Main'.at, k |-> c1Main'.k]
        BY <1>3, <2>2
      <3>2. k + 1 \in 1..n /\ k + 1 \in Nat
        BY <1>5, <1>6, <2>2
      <3>3. QED  BY <1>5, <3>1, <3>2
    <2>3. QED  BY <2>1, <2>2
  <1>11. Cracker1Types' /\ HashingHolds'
    BY <1>2, <1>10 DEF Cracker1Inv, Cracker1Types, HashingHolds
  <1>12. QueueHolds(t)'
    <2>1. HasPut' = HasPut /\ c1Main'.at # "read" /\ c1Main.at # "read"
      BY <1>2, <1>10 DEF HasPut
    <2>2. QED  BY <1>1, <1>2, <2>1 DEF QueueHolds
  <1>13. CountsHold(t)'
    BY <1>1, <1>2 DEF CountsHold, Score, Hashing, Pulled
  <1>14. QED  BY <1>9, <1>11, <1>12, <1>13 DEF Cracker1Inv

LEMMA Cracker1Keeps == Cracker1Inv /\ [Cracker1Next]_c1Vars => Cracker1Inv'
  <1> SUFFICES ASSUME Cracker1Inv, [Cracker1Next]_c1Vars  PROVE  Cracker1Inv'
    OBVIOUS
  <1>1. CASE UNCHANGED c1Vars
    <2>1. PICK t : QueueHolds(t) /\ CountsHold(t)
      BY DEF Cracker1Inv
    <2>2. QueueHolds(t)'
      BY <1>1, <2>1 DEF c1Vars, QueueHolds, HasPut
    <2>3. CountsHold(t)'
      BY <1>1, <2>1 DEF c1Vars, CountsHold, Score, Hashing, Pulled
    <2>4. Cracker1Types' /\ HashingHolds' /\ JoinHolds'
      BY <1>1 DEF c1Vars, Cracker1Inv, Cracker1Types, HashingHolds, JoinHolds, JoinedSoFar
    <2>5. QED  BY <2>2, <2>3, <2>4 DEF Cracker1Inv
  <1>2. CASE Cracker1Next
    BY <1>2, ReadKeeps, JoinKeeps, PullKeeps, HashKeeps, HandOnKeeps DEF Cracker1Next
  <1>3. QED  BY <1>1, <1>2

(* When main is done every worker has seen the pill behind the last line. *)
LEMMA Cracker1Exact == Cracker1Inv => SummaryIsExact
  <1> SUFFICES ASSUME Cracker1Inv, c1Main.at = "done"
               PROVE  /\ num_success = Cardinality({k \in DOMAIN Tasks : Crackable(Tasks[k])})
                      /\ num_fail = Len(Tasks) - num_success
                      /\ work = <<Pill>>
    BY DEF SummaryIsExact
  <1>1. PICK t : QueueHolds(t) /\ CountsHold(t)
    BY DEF Cracker1Inv
  <1> DEFINE N == Lines1
  <1>2. JoinedSoFar = Workers
    BY DEF JoinedSoFar
  <1>3. /\ \A w \in Workers : c1Pc[w] = "exit"
        /\ num_success = SumFunctionOnSet(success, Workers) /\ num_fail = SumFunctionOnSet(fail, Workers)
    BY <1>2 DEF Cracker1Inv, JoinHolds
  <1>4. N \in Nat /\ HasPut = N + 1
    BY Cracker1Constants, PutBounds
  <1>5. t = N
    <2>1. t \in Nat /\ t <= N + 1
      BY <1>1, <1>4 DEF QueueHolds
    <2>2. t >= N
      BY <1>1, <1>3, Cracker1Constants DEF QueueHolds
    <2>3. t # N + 1
      BY <1>1, <1>3 DEF QueueHolds
    <2>4. QED  BY <1>4, <2>1, <2>2, <2>3
  <1>6. work = <<Pill>>
    <2>1. work = Ahead(N, N + 1)
      BY <1>1, <1>4, <1>5 DEF QueueHolds
    <2>2. N \in Nat /\ N <= N
      BY <1>4
    <2>3. Ahead(N, N) = <<>> /\ Append(Ahead(N, N), TaskAt(N + 1)) = Ahead(N, N + 1)
      BY <2>2, QueueMoves
    <2>4. Ahead(N, N + 1) = Append(<<>>, Pill)
      BY <2>3, Cracker1Constants
    <2>5. QED  BY <2>1, <2>4
  <1>7. ASSUME NEW o \in Outcomes
        PROVE  SumFunctionOnSet(Score(o), Workers) = Cardinality(Pulled(N, o)) /\ IsFiniteSet(Pulled(N, o))
               /\ Cardinality(Pulled(N, o)) \in Nat
    <2>1. Hashing(o) = {}
      BY <1>3 DEF Hashing
    <2>2. SumFunctionOnSet(Score(o), Workers) \in Int
      <3>1. Score(o) \in [Workers -> Nat]
        BY DEF Score, Cracker1Inv, Cracker1Types
      <3>2. QED  BY <3>1, Cracker1Constants, SumPlusOne
    <2>3. Cardinality({}) = 0
      BY FS_EmptySet
    <2>4. SumFunctionOnSet(Score(o), Workers) + Cardinality(Hashing(o)) = Cardinality(Pulled(N, o))
      BY <1>1, <1>5 DEF CountsHold
    <2>5. N \in Nat
      BY <1>4
    <2>6. QED  BY <2>1, <2>2, <2>3, <2>4, <2>5, CountedFinite
  <1> DEFINE hits == Pulled(N, "success")
             misses == Pulled(N, "fail")
             all == 1..N
  <1>8. /\ num_success = Cardinality(hits) /\ num_fail = Cardinality(misses)
        /\ IsFiniteSet(hits) /\ IsFiniteSet(misses) /\ Cardinality(hits) \in Nat /\ Cardinality(misses) \in Nat
    <2>1. "success" \in Outcomes /\ "fail" \in Outcomes /\ Score("success") = success /\ Score("fail") = fail
      BY DEF Outcomes, Score
    <2>2. QED  BY <1>3, <1>7, <2>1
  <1>9. hits = {k \in DOMAIN Tasks : Crackable(Tasks[k])}
    <2>1. DOMAIN Tasks = 1..N
      BY CrackersAssumption DEF Lines1
    <2>2. \A k \in 1..N : k <= N
      BY <1>4
    <2>3. \A k \in 1..N : Outcome(Tasks[k]) = "success" <=> Crackable(Tasks[k])
      BY DEF Outcome
    <2>4. QED  BY <2>1, <2>2, <2>3 DEF Pulled
  <1>10. hits \union misses = all /\ hits \intersect misses = {}
    <2>1. \A k \in 1..N : k <= N
      BY <1>4
    <2>2. QED  BY <2>1 DEF Pulled, Outcome
  <1>11. Cardinality(all) = N
    BY <1>4, FS_Interval
  <1> HIDE DEF hits, misses, all
  <1>12. Cardinality(hits \union misses) = Cardinality(hits) + Cardinality(misses) - Cardinality(hits \intersect misses)
    BY <1>8, FS_Union
  <1>13. Cardinality({}) = 0
    BY FS_EmptySet
  <1>14. N = Cardinality(hits) + Cardinality(misses)
    <2>1. PICK a \in Nat : a = Cardinality(hits)
      BY <1>8
    <2>2. PICK b \in Nat : b = Cardinality(misses)
      BY <1>8
    <2>3. N = a + b - 0
      BY <1>10, <1>11, <1>12, <1>13, <2>1, <2>2
    <2>4. QED  BY <2>1, <2>2, <2>3
  <1>15. num_fail = Len(Tasks) - num_success
    BY <1>4, <1>8, <1>14 DEF Lines1
  <1>16. QED  BY <1>6, <1>8, <1>9, <1>15

(* Both crackers: cracker1's totals count every line once, as cracked or    *)
(* not, with any number of workers, and leave only the pill in the queue;   *)
(* cracker2's summaries belong to their passwords, hash counts included.    *)
THEOREM CrackersExact == Cracker1Spec /\ Cracker2Spec => []CrackersAreExact
<1>1. Cracker1Spec => []SummaryIsExact
  BY Cracker1Starts, Cracker1Keeps, Cracker1Exact, PTL DEF Cracker1Spec
<1>2. SummaryIsExact /\ RoundsBelong /\ HashesAreExact => CrackersAreExact
  BY DEF CrackersAreExact
<1> QED
  BY <1>1, <1>2, RoundsExact, HashesExact, PTL

-----------------------------------------------------------------------------
(* ThreadLabs: the sum that par_reduce returns. *)

LEMMA SumIsInt ==
  ASSUME NEW S, IsFiniteSet(S), NEW f, \A x \in S : f[x] \in Int
  PROVE  SumFunctionOnSet(f, S) \in Int
  <1>1. PICK g : Sums(g, f, S)
    BY SumsExist
  <1>2. SumFunctionOnSet(f, S) = g[S]
    BY <1>1, SumIs
  <1>3. g \in [SUBSET S -> Int] /\ S \in SUBSET S
    BY <1>1 DEF Sums
  <1>4. g[S] \in Int
    BY <1>3
  <1>5. QED  BY <1>2, <1>4

(* The sum over two disjoint sets, and over a family of them. *)
LEMMA SumOfTwo ==
  ASSUME NEW A, NEW B, IsFiniteSet(A), IsFiniteSet(B), A \intersect B = {},
         NEW f, \A x \in A \union B : f[x] \in Int
  PROVE  /\ SumFunctionOnSet(f, A \union B) = SumFunctionOnSet(f, A) + SumFunctionOnSet(f, B)
         /\ SumFunctionOnSet(f, A) \in Int
  <1> DEFINE Total(s) == SumFunctionOnSet(f, s)
             Bad == {s \in SUBSET B : Total(A \union s) # Total(A) + Total(s)}
  <1>1. \A s : IsFiniteSet(s) /\ (\A x \in s : f[x] \in Int) => Total(s) \in Int
    BY SumIsInt
  <1>2. \A s \in SUBSET B : IsFiniteSet(s) /\ IsFiniteSet(A \union s)
    BY FS_Subset, FS_Union
  <1>3. \A s \in SUBSET B : Total(s) \in Int /\ Total(A) \in Int
    BY <1>1, <1>2
  <1>4. ASSUME NEW S, IsFiniteSet(S), NEW j, j \notin S, \A x \in S \union {j} : f[x] \in Int
        PROVE  Total(S \union {j}) = Total(S) + f[j]
    BY <1>4, SumGrows
  <1>5. Total({}) = 0
    BY SumOfNone
  <1> HIDE DEF Total
  <1>6. Bad = {}
    <2> SUFFICES ASSUME Bad # {}  PROVE  FALSE
      OBVIOUS
    <2>1. PICK s \in Bad : \A t \in Bad : ~(t \subseteq s /\ t # s)
      <3>1. Bad \in SUBSET (SUBSET B)
        OBVIOUS
      <3> HIDE DEF Bad
      <3>2. QED  BY <3>1, SmallestPart
    <2>2. s \in SUBSET B /\ Total(A \union s) # Total(A) + Total(s)
      BY <2>1
    <2>3. s # {}
      <3>1. A \union {} = A /\ Total(A) \in Int
        BY <1>3, <2>2
      <3>2. Total(A \union {}) = Total(A) + Total({})
        BY <1>5, <3>1
      <3>3. QED  BY <2>2, <3>2
    <2>4. PICK j : j \in s
      BY <2>3
    <2> DEFINE r == s \ {j}
    <2>5. /\ r \in SUBSET B /\ r \subseteq s /\ r # s /\ r \union {j} = s /\ j \notin r /\ j \notin A \union r
          /\ (A \union r) \union {j} = A \union s /\ f[j] \in Int
      BY <2>2, <2>4
    <2>6. Total(A \union r) = Total(A) + Total(r)
      BY <2>1, <2>5
    <2>7. IsFiniteSet(r) /\ IsFiniteSet(A \union r)
      BY <1>2, <2>5
    <2>8. (\A x \in r \union {j} : f[x] \in Int) /\ \A x \in (A \union r) \union {j} : f[x] \in Int
      BY <2>2, <2>5
    <2>9. Total(r) \in Int /\ Total(A) \in Int
      BY <1>3, <2>5
    <2> HIDE DEF r
    <2>10. Total(s) = Total(r) + f[j] /\ Total(A \union s) = Total(A \union r) + f[j]
      <3>1. Total(r \union {j}) = Total(r) + f[j]
        BY <1>4, <2>5, <2>7, <2>8
      <3>2. Total((A \union r) \union {j}) = Total(A \union r) + f[j]
        BY <1>4, <2>5, <2>7, <2>8
      <3>3. QED  BY <2>5, <3>1, <3>2
    <2>11. QED  BY <2>2, <2>5, <2>6, <2>9, <2>10
  <1>7. Total(A \union B) = Total(A) + Total(B) /\ Total(A) \in Int
    BY <1>3, <1>6
  <1>8. QED  BY <1>7 DEF Total

LEMMA SumOfMany ==
  ASSUME NEW T, IsFiniteSet(T), NEW P, NEW f, NEW g,
         \A t \in T : IsFiniteSet(P[t]) /\ (\A x \in P[t] : f[x] \in Int)
                      /\ g[t] = SumFunctionOnSet(f, P[t]),
         \A s, t \in T : s # t => P[s] \intersect P[t] = {}
  PROVE  SumFunctionOnSet(g, T) = SumFunctionOnSet(f, UNION {P[t] : t \in T})
  <1> DEFINE U(s) == UNION {P[t] : t \in s}
             Bad == {s \in SUBSET T : SumFunctionOnSet(g, s) # SumFunctionOnSet(f, U(s))}
  <1>1. \A s \in SUBSET T : IsFiniteSet(s) /\ IsFiniteSet(U(s))
    <2> SUFFICES ASSUME NEW s \in SUBSET T  PROVE  IsFiniteSet(s) /\ IsFiniteSet(U(s))
      OBVIOUS
    <2>1. IsFiniteSet(s)
      BY FS_Subset
    <2>2. IsFiniteSet({P[t] : t \in s})
      <3> DEFINE F == [t \in s |-> P[t]]
                 V == {P[t] : t \in s}
      <3>1. F \in Surjection(s, V)
        BY DEF Surjection
      <3> HIDE DEF F, V
      <3>2. IsFiniteSet(V)
        BY <2>1, <3>1, FS_Surjection
      <3>3. QED  BY <3>2 DEF V
    <2>3. \A p \in {P[t] : t \in s} : IsFiniteSet(p)
      OBVIOUS
    <2>4. QED  BY <2>1, <2>2, <2>3, FS_UNION
  <1>2. ASSUME NEW S, IsFiniteSet(S), \A x \in S : f[x] \in Int  PROVE  SumFunctionOnSet(f, S) \in Int
    BY <1>2, SumIsInt
  <1>3. \A t \in T : g[t] \in Int
    BY <1>2
  <1>4. Bad = {}
    <2> SUFFICES ASSUME Bad # {}  PROVE  FALSE
      OBVIOUS
    <2>1. PICK s \in Bad : \A t \in Bad : ~(t \subseteq s /\ t # s)
      <3>1. Bad \in SUBSET (SUBSET T)
        OBVIOUS
      <3> HIDE DEF Bad
      <3>2. QED  BY <3>1, SmallestPart
    <2>2. s \in SUBSET T /\ SumFunctionOnSet(g, s) # SumFunctionOnSet(f, U(s))
      BY <2>1
    <2>3. s # {}
      <3>1. s = {} => U(s) = {}
        OBVIOUS
      <3>2. SumFunctionOnSet(g, {}) = 0 /\ SumFunctionOnSet(f, {}) = 0
        BY SumOfNone
      <3>3. QED  BY <2>2, <3>1, <3>2
    <2>4. PICK j : j \in s
      BY <2>3
    <2> DEFINE r == s \ {j}
    <2>5. /\ r \in SUBSET T /\ r \subseteq s /\ r # s /\ r \union {j} = s /\ j \notin r /\ j \in T
      BY <2>2, <2>4
    <2>6. U(s) = U(r) \union P[j] /\ U(r) \intersect P[j] = {}
      <3>1. \A t \in r : t # j /\ t \in T
        BY <2>5
      <3>2. \A t \in r : P[t] \intersect P[j] = {}
        BY <2>5, <3>1
      <3>3. \A t : t \in s <=> t \in r \/ t = j
        BY <2>4
      <3> HIDE DEF r
      <3>4. QED  BY <3>2, <3>3
    <2>7. SumFunctionOnSet(g, r) = SumFunctionOnSet(f, U(r))
      BY <2>1, <2>5
    <2>8. IsFiniteSet(r) /\ IsFiniteSet(U(r)) /\ IsFiniteSet(P[j])
      BY <1>1, <2>5
    <2>9. \A x \in U(r) \union P[j] : f[x] \in Int
      BY <2>5
    <2>10. \A t \in r \union {j} : g[t] \in Int
      BY <1>3, <2>2, <2>5
    <2> HIDE DEF r, U
    <2>11. SumFunctionOnSet(f, U(r) \union P[j]) = SumFunctionOnSet(f, U(r)) + SumFunctionOnSet(f, P[j])
      BY <2>6, <2>8, <2>9, SumOfTwo
    <2>12. SumFunctionOnSet(g, r \union {j}) = SumFunctionOnSet(g, r) + g[j]
      <3>1. IsFiniteSet(r) /\ j \notin r
        BY <2>5, <2>8
      <3>2. QED  BY <2>10, <3>1, SumGrows, SMTT(60)
    <2>13. g[j] = SumFunctionOnSet(f, P[j])
      BY <2>5
    <2>14. QED  BY <2>2, <2>5, <2>6, <2>7, <2>11, <2>12, <2>13
  <1>5. T \in SUBSET T
    OBVIOUS
  <1>6. QED  BY <1>4, <1>5

(* A fold over a sequence with + is the sum over its indices. *)
LEMMA FoldIsSum ==
  ASSUME NEW n \in Nat, NEW s, s = [i \in 1..n |-> s[i]], \A i \in 1..n : s[i] \in Int
  PROVE  FoldLeft(+, 0, s) = SumFunctionOnSet(s, 1..n)
  <1> DEFINE S == 1..n
  <1>1. IsFiniteSet(S) /\ DOMAIN s = S /\ S \in SUBSET Nat
    <2>1. IsFiniteSet(S)
      <3>1. 1 \in Int /\ n \in Int
        OBVIOUS
      <3>2. QED  BY <3>1, FS_Interval
    <2>2. DOMAIN s = S
      OBVIOUS
    <2>3. QED  BY <2>1, <2>2
  <1>2. \A c \in SUBSET S : c # {} => Max(c) \in c
    <2> SUFFICES ASSUME NEW c \in SUBSET S, c # {}  PROVE  Max(c) \in c
      OBVIOUS
    <2> DEFINE D == {n - i : i \in c}
    <2>1. D \in SUBSET Nat /\ D # {}
      OBVIOUS
    <2>2. PICK d \in D : \A e \in D : d <= e
      <3> HIDE DEF D
      <3>1. QED  BY <2>1, LeastPlace
    <2>3. PICK x \in c : d = n - x
      BY <2>2
    <2>4. \A y \in c : x \in Int /\ y \in Int /\ n - x <= n - y
      BY <2>2, <2>3
    <2>5. \A y \in c : x >= y
      BY <2>4
    <2>6. QED  BY <2>5 DEF Max
  <1>3. PICK g : Sums(g, s, S)
    BY <1>1, SumsExist
  <1>4. SumFunctionOnSet(s, S) = g[S]
    BY <1>1, <1>3, SumIs
  <1> HIDE DEF S
  <1> DEFINE OneStep(h) == [c \in SUBSET S |->
                           IF c = {} THEN 0
                           ELSE LET x == Max(c) IN h[c \ {x}] + s[x]]
             iter == CHOOSE h : h = OneStep(h)
  <1>5. FoldLeft(+, 0, s) = iter[S]
    BY <1>1 DEF FoldLeft, MapThenFoldSet
  <1>6. /\ g \in [SUBSET S -> Int] /\ g[{}] = 0 /\ \A i \in S : s[i] \in Int
        /\ \A c \in SUBSET S : \A x \in c : g[c] = s[x] + g[c \ {x}]
    BY <1>3 DEF Sums, S
  <1>7. ASSUME NEW c \in SUBSET S, c # {}
        PROVE  g[c] = g[c \ {Max(c)}] + s[Max(c)] /\ Max(c) \in c
    <2>1. Max(c) \in c /\ c \ {Max(c)} \in SUBSET S
      BY <1>2, <1>7
    <2>2. g[c \ {Max(c)}] \in Int /\ s[Max(c)] \in Int
      BY <1>6, <2>1
    <2>3. g[c] = s[Max(c)] + g[c \ {Max(c)}]
      BY <1>6, <2>1
    <2>4. QED  BY <2>1, <2>2, <2>3
  <1>8. g = OneStep(g)
    <2>1. ASSUME NEW c \in SUBSET S  PROVE  g[c] = OneStep(g)[c]
      BY <1>6, <1>7
    <2>2. QED  BY <1>6, <2>1
  <1>9. iter = OneStep(iter)
    <2> HIDE DEF OneStep
    <2>1. QED  BY <1>8, Zenon
  <1> HIDE DEF iter
  <1> DEFINE Bad == {c \in SUBSET S : g[c] # iter[c]}
  <1>10. Bad = {}
    <2> SUFFICES ASSUME Bad # {}  PROVE  FALSE
      OBVIOUS
    <2>1. PICK c \in Bad : \A t \in Bad : ~(t \subseteq c /\ t # c)
      <3>1. Bad \in SUBSET (SUBSET S)
        OBVIOUS
      <3> HIDE DEF Bad
      <3>2. QED  BY <1>1, <3>1, SmallestPart
    <2>2. iter[c] = OneStep(iter)[c] /\ c \in SUBSET S /\ g[c] # iter[c]
      BY <1>9, <2>1
    <2>3. c # {}
      BY <1>6, <2>2
    <2>4. Max(c) \in c /\ g[c] = g[c \ {Max(c)}] + s[Max(c)]
      BY <1>7, <2>2, <2>3
    <2>5. g[c \ {Max(c)}] = iter[c \ {Max(c)}]
      BY <2>1, <2>4
    <2>6. iter[c] = iter[c \ {Max(c)}] + s[Max(c)]
      BY <2>2, <2>3
    <2>7. QED  BY <2>2, <2>4, <2>5, <2>6
  <1>11. S \in SUBSET S
    OBVIOUS
  <1>12. QED  BY <1>4, <1>5, <1>10, <1>11 DEF S

(* The sum of a slice is the sum over its place in the list. *)
LEMMA SumShifted ==
  ASSUME NEW from \in Nat, NEW n \in Nat, NEW l, NEW s,
         \A i \in 1..n : s[i] = l[from + i] /\ s[i] \in Int
  PROVE  SumFunctionOnSet(s, 1..n) = SumFunctionOnSet(l, from + 1..from + n)
  <1> DEFINE I(m) == 1..m
             J(m) == from + 1..from + m
             Bad == {m \in 0..n : SumFunctionOnSet(s, I(m)) # SumFunctionOnSet(l, J(m))}
  <1>1. Bad = {}
    <2> SUFFICES ASSUME Bad # {}  PROVE  FALSE
      OBVIOUS
    <2>1. PICK m \in Bad : \A k \in Bad : m <= k
      <3>1. Bad \in SUBSET Nat
        OBVIOUS
      <3> HIDE DEF Bad
      <3>2. QED  BY <3>1, LeastPlace
    <2>2. m \in 0..n /\ SumFunctionOnSet(s, I(m)) # SumFunctionOnSet(l, J(m))
      BY <2>1
    <2>3. m # 0
      <3>1. I(0) = {} /\ J(0) = {}
        OBVIOUS
      <3>2. QED  BY <2>2, <3>1, SumOfNone
    <2>4. PICK k \in Nat : m = k + 1
      <3>1. m - 1 \in Nat
        BY <2>2, <2>3
      <3>2. QED  BY <2>2, <3>1
    <2>5. k \in 0..n /\ ~(m <= k)
      BY <2>2, <2>4
    <2>6. SumFunctionOnSet(s, I(k)) = SumFunctionOnSet(l, J(k))
      BY <2>1, <2>5
    <2>7. /\ I(m) = I(k) \union {m} /\ m \notin I(k) /\ IsFiniteSet(I(k))
          /\ \A x \in I(k) \union {m} : s[x] \in Int
      <3>1. IsFiniteSet(I(k))
        BY FS_Interval
      <3>2. \A x \in I(k) \union {m} : x \in 1..n
        BY <2>2, <2>4
      <3>3. I(m) = I(k) \union {m} /\ m \notin I(k)
        BY <2>4
      <3>4. QED  BY <3>1, <3>2, <3>3
    <2>8. /\ J(m) = J(k) \union {from + m} /\ from + m \notin J(k) /\ IsFiniteSet(J(k))
          /\ \A x \in J(k) \union {from + m} : l[x] \in Int
      <3>1. IsFiniteSet(J(k))
        <4>1. from + 1 \in Int /\ from + k \in Int
          OBVIOUS
        <4>2. QED  BY <4>1, FS_Interval
      <3>2. ASSUME NEW x \in J(k) \union {from + m}  PROVE  l[x] \in Int
        <4>1. x - from \in 1..n /\ from + (x - from) = x
          BY <2>2, <2>4
        <4>2. QED  BY <4>1
      <3>3. J(m) = J(k) \union {from + m} /\ from + m \notin J(k)
        BY <2>4
      <3>4. QED  BY <3>1, <3>2, <3>3
    <2>9. m \in 1..n
      BY <2>2, <2>3
    <2>10. s[m] = l[from + m]
      BY <2>9
    <2> HIDE DEF I, J
    <2>11. SumFunctionOnSet(s, I(k) \union {m}) = SumFunctionOnSet(s, I(k)) + s[m]
      <3> DEFINE X == I(k)
      <3>1. IsFiniteSet(X) /\ m \notin X /\ \A x \in X \union {m} : s[x] \in Int
        BY <2>7
      <3> HIDE DEF X
      <3>2. SumFunctionOnSet(s, X \union {m}) = SumFunctionOnSet(s, X) + s[m]
        BY <3>1, SumGrows, SMTT(60)
      <3>3. QED  BY <3>2 DEF X
    <2>12. SumFunctionOnSet(l, J(k) \union {from + m}) = SumFunctionOnSet(l, J(k)) + l[from + m]
      <3> DEFINE X == J(k)
                 y == from + m
      <3>1. IsFiniteSet(X) /\ y \notin X /\ \A x \in X \union {y} : l[x] \in Int
        BY <2>8
      <3> HIDE DEF X, y
      <3>2. SumFunctionOnSet(l, X \union {y}) = SumFunctionOnSet(l, X) + l[y]
        BY <3>1, SumGrows, SMTT(60)
      <3>3. QED  BY <3>2 DEF X, y
    <2>13. QED  BY <2>2, <2>6, <2>7, <2>8, <2>10, <2>11, <2>12
  <1>2. n \in 0..n
    OBVIOUS
  <1>3. QED  BY <1>1, <1>2

(* The places of lst that part p covers. *)
PartOf(p) == p * Skip + 1..p * Skip + SliceLen(p)

(* The parts of a list that is longer than there are threads lie side by    *)
(* side and cover it.                                                      *)
LiesInParts(L, n) ==
    /\ \A i \in 1..L : \E p \in 0..n - 1 : i \in PartOf(p)
    /\ \A p \in 0..n - 1 : PartOf(p) \subseteq 1..L
    /\ \A p, r \in 0..n - 1 : p # r => PartOf(p) \intersect PartOf(r) = {}

LEMMA SlicesCover ==
  ASSUME NEW L \in Nat, L = Len(lst), NEW n \in Nat \ {0}, n = num_threads, L > n
  PROVE  LiesInParts(L, n)
  <1>1. L = Len(lst) /\ n = num_threads /\ L \in Nat /\ n \in Nat \ {0} /\ L > n
    OBVIOUS
  <1>2. PICK q \in Nat : q = Skip /\ n * q <= L /\ L < n * q + n
    BY <1>1, SMTT(60) DEF Skip
  <1>3. q # 0
    BY <1>1, <1>2
  <1>4. \A p \in 0..n - 1 : SliceLen(p) = IF p = n - 1 THEN L - q * (n - 1) ELSE q
    BY <1>1, <1>2 DEF SliceLen
  <1>5. PICK m \in Nat : n = m + 1
    <2>1. n - 1 \in Nat
      BY <1>1
    <2>2. QED  BY <1>1, <2>1
  <1>6. m * q \in Nat /\ m * q <= L
    <2>1. n * q = m * q + q /\ m * q \in Nat
      BY <1>5
    <2>2. QED  BY <1>1, <1>2, <2>1
  <1>7. \A p \in Nat : /\ p = m => PartOf(p) = m * q + 1..L
                       /\ p < m => PartOf(p) = p * q + 1..p * q + q
    <2> SUFFICES ASSUME NEW p \in Nat  PROVE  /\ p = m => PartOf(p) = m * q + 1..L
                                              /\ p < m => PartOf(p) = p * q + 1..p * q + q
      OBVIOUS
    <2>1. CASE p = m
      <3>1. p \in 0..n - 1 /\ p = n - 1
        BY <1>5, <2>1
      <3>2. SliceLen(p) = L - q * m
        BY <1>4, <1>5, <3>1
      <3>3. m * q + (L - q * m) = L
        BY <1>1
      <3>4. QED  BY <1>2, <2>1, <3>2, <3>3 DEF PartOf
    <2>2. CASE p < m
      <3>1. p \in 0..n - 1 /\ p # n - 1
        BY <1>5, <2>2
      <3>2. SliceLen(p) = q
        BY <1>4, <3>1
      <3>3. QED  BY <1>2, <2>2, <3>2 DEF PartOf
    <2>3. QED  BY <2>1, <2>2
  <1>8. ASSUME NEW p \in Nat, NEW r \in Nat, p < r
        PROVE  p * q + q <= r * q /\ p * q \in Nat /\ r * q \in Nat
    <2>1. PICK d \in Nat : r = (p + 1) + d
      <3>1. r - (p + 1) \in Nat
        BY <1>8
      <3>2. QED  BY <3>1
    <2>2. r * q = (p * q + q) + d * q /\ d * q \in Nat /\ p * q \in Nat
      BY <2>1
    <2>3. QED  BY <2>2
  <1>9. ASSUME NEW p \in 0..m  PROVE  PartOf(p) \subseteq 1..L
    <2>1. CASE p = m
      BY <1>1, <1>6, <1>7, <2>1
    <2>2. CASE p # m
      <3>1. p \in Nat /\ p < m
        BY <2>2
      <3>2. p * q + q <= L /\ p * q \in Nat
        BY <1>1, <1>6, <1>8, <3>1
      <3>3. PartOf(p) = p * q + 1..p * q + q
        BY <1>7, <3>1
      <3>4. QED  BY <1>1, <3>2, <3>3
    <2>3. QED  BY <2>1, <2>2
  <1>10. ASSUME NEW p \in 0..m, NEW r \in 0..m, p < r  PROVE  PartOf(p) \intersect PartOf(r) = {}
    <2>1. p \in Nat /\ r \in Nat /\ p < m /\ (r = m \/ r < m)
      BY <1>10
    <2>2. p * q + q <= r * q /\ p * q \in Nat /\ r * q \in Nat
      BY <1>8, <1>10, <2>1
    <2>3. PartOf(p) = p * q + 1..p * q + q
      BY <1>7, <2>1
    <2>4. PICK z \in Int : PartOf(r) = r * q + 1..z
      <3>1. r = m => PartOf(r) = r * q + 1..L
        BY <1>7, <2>1
      <3>2. r < m => PartOf(r) = r * q + 1..r * q + q
        BY <1>7, <2>1
      <3>3. L \in Int /\ r * q + q \in Int
        BY <1>1, <2>2
      <3>4. QED  BY <2>1, <3>1, <3>2, <3>3
    <2>5. QED  BY <2>2, <2>3, <2>4
  <1>11. ASSUME NEW i \in 1..L  PROVE  \E p \in 0..m : i \in PartOf(p)
    <2>1. PICK d \in Nat : d * q <= i - 1 /\ i - 1 < d * q + q
      <3>1. i - 1 \in Nat /\ q \in Nat \ {0}
        BY <1>1, <1>3
      <3> DEFINE d == (i - 1) \div q
      <3>2. d \in Nat /\ d * q <= i - 1 /\ i - 1 < d * q + q
        BY <3>1
      <3>3. QED  BY <3>2
    <2>2. CASE d < m
      <3>1. i \in d * q + 1..d * q + q
        BY <1>1, <2>1
      <3>2. d \in 0..m
        BY <2>2
      <3>3. QED  BY <1>7, <2>2, <3>1, <3>2
    <2>3. CASE ~(d < m)
      <3>1. m * q <= d * q
        <4>1. CASE d = m
          BY <1>6, <4>1
        <4>2. CASE d # m
          <5>1. m < d
            BY <2>3, <4>2
          <5>2. m * q + q <= d * q /\ m * q \in Nat /\ d * q \in Nat
            BY <1>8, <5>1
          <5>3. QED  BY <5>2
        <4>3. QED  BY <4>1, <4>2
      <3>2. d * q \in Nat
        OBVIOUS
      <3>3. i \in m * q + 1..L
        BY <1>1, <1>6, <2>1, <3>1, <3>2
      <3>4. m \in 0..m
        OBVIOUS
      <3>5. QED  BY <1>7, <3>3, <3>4
    <2>4. QED  BY <2>2, <2>3
  <1>12. 0..n - 1 = 0..m
    BY <1>5
  <1>13. \A p, r \in 0..m : p # r => PartOf(p) \intersect PartOf(r) = {}
    <2> SUFFICES ASSUME NEW p \in 0..m, NEW r \in 0..m, p # r  PROVE  PartOf(p) \intersect PartOf(r) = {}
      OBVIOUS
    <2>1. p < r \/ r < p
      OBVIOUS
    <2>2. r < p => PartOf(r) \intersect PartOf(p) = {}
      BY <1>10
    <2>3. QED  BY <1>10, <2>1, <2>2
  <1>14. QED
    <2> DEFINE M == 0..m
               N == 0..n - 1
    <2>1. \A i \in 1..L : \E p \in M : i \in PartOf(p)
      BY <1>11
    <2>2. \A p \in M : PartOf(p) \subseteq 1..L
      BY <1>9
    <2>3. \A p, r \in M : p # r => PartOf(p) \intersect PartOf(r) = {}
      BY <1>13
    <2>4. N = M
      BY <1>12
    <2> HIDE DEF M
    <2>5. QED  BY <2>1, <2>2, <2>3, <2>4 DEF LiesInParts

Reduced(s) == FoldLeft(+, 0, s)

(* A thread that is done has the sum of its part; the result is the sum of  *)
(* what the threads returned.                                              *)
ReducedHolds ==
    /\ partial = [t \in PrThreads |-> partial[t]]
    /\ \A t \in PrThreads : prPc[t] = "done" =>
          partial[t] = SumFunctionOnSet(lst, PartOf(tp[t]))
    /\ Len(lst) <= num_threads => retval = <<Reduced(lst)>>
    /\ ~(Len(lst) <= num_threads) /\ retval # <<>> =>
          (\A t \in PrThreads : prPc[t] = "done") /\ retval = <<Reduced(partial)>>

ReduceInv == ParReduceInv /\ ReducedHolds

(* What is computed of one part. *)
LEMMA PartReduced ==
  ASSUME NEW p \in Nat, p < num_threads
  PROVE  FoldLeft(+, 0, SubSeq(lst, p * Skip + 1, p * Skip + SliceLen(p))) = SumFunctionOnSet(lst, PartOf(p))
  <1>1. PICK L, n : L = Len(lst) /\ n = num_threads /\ L \in Nat /\ n \in Nat \ {0}
    BY ThreadLabsAssumption
  <1>2. PICK q \in Nat : q = Skip /\ n * q <= L
    BY <1>1 DEF Skip
  <1>3. PICK from \in Nat : from = p * Skip
    BY <1>2
  <1>4. SliceLen(p) \in Nat
    <2>1. CASE p # n - 1
      BY <1>1, <1>2, <2>1 DEF SliceLen
    <2>2. CASE p = n - 1
      <3>1. PICK m \in Nat : n = m + 1
        BY <2>2, <1>1
      <3>2. n * q = q * (n - 1) + q /\ q * (n - 1) \in Nat
        BY <3>1
      <3>3. QED  BY <1>1, <1>2, <2>2, <3>2 DEF SliceLen
    <2>3. QED  BY <2>1, <2>2
  <1>5. PICK k \in Nat : k = SliceLen(p)
    BY <1>4
  <1>6. from + k <= L
    BY <1>1, <1>3, <1>5, SlicesFit
  <1> DEFINE s == SubSeq(lst, from + 1, from + k)
  <1>7. s = [i \in 1..k |-> lst[from + i]]
    <2>1. s = [i \in 1..(from + k) - (from + 1) + 1 |-> lst[from + 1 + i - 1]]
      BY <1>1, <1>6, ThreadLabsAssumption
    <2>2. (from + k) - (from + 1) + 1 = k
      OBVIOUS
    <2>3. \A i \in 1..k : from + 1 + i - 1 = from + i
      OBVIOUS
    <2> HIDE DEF s
    <2>4. QED  BY <2>1, <2>2, <2>3
  <1>8. \A i \in 1..k : lst[from + i] \in Nat
    <2>1. \A i \in 1..k : from + i \in 1..L
      BY <1>1, <1>6
    <2>2. \A i \in 1..L : lst[i] \in Nat
      BY <1>1, ThreadLabsAssumption
    <2>3. QED  BY <2>1, <2>2
  <1> HIDE DEF s
  <1>9. s = [i \in 1..k |-> s[i]] /\ \A i \in 1..k : s[i] = lst[from + i] /\ s[i] \in Int
    BY <1>7, <1>8
  <1>10. FoldLeft(+, 0, s) = SumFunctionOnSet(s, 1..k)
    BY <1>9, FoldIsSum
  <1>11. SumFunctionOnSet(s, 1..k) = SumFunctionOnSet(lst, from + 1..from + k)
    BY <1>9, SumShifted, ZenonT(60)
  <1>12. QED  BY <1>3, <1>5, <1>10, <1>11 DEF s, PartOf

LEMMA ReduceStarts == ParReduceInit => ReduceInv
  <1> SUFFICES ASSUME ParReduceInit  PROVE  ReducedHolds
    BY ParReduceStarts DEF ReduceInv
  <1>1. /\ partial = [t \in PrThreads |-> 0] /\ \A t \in PrThreads : prPc[t] = "read"
        /\ Len(lst) <= num_threads => retval = <<Reduced(lst)>>
        /\ ~(Len(lst) <= num_threads) => retval = <<>>
    BY DEF ParReduceInit, Reduced
  <1>2. QED  BY <1>1 DEF ReducedHolds

LEMMA ReduceKeeps == ReduceInv /\ [ParReduceNext]_prVars => ReduceInv'
  <1> SUFFICES ASSUME ReduceInv, [ParReduceNext]_prVars  PROVE  ReducedHolds'
    BY ParReduceKeeps DEF ReduceInv
  <1>1. CASE UNCHANGED prVars
    BY <1>1 DEF prVars, ReduceInv, ReducedHolds
  <1>2. ASSUME NEW t \in PrThreads, ReadPart(t) \/ WritePart(t)  PROVE  ReducedHolds'
    <2>1. /\ prPc[t] \in {"read", "write"} /\ partial' = partial /\ retval' = retval
          /\ prPc' = [prPc EXCEPT ![t] = "write"] \/ prPc' = [prPc EXCEPT ![t] = "reduce"]
      BY <1>2 DEF ReadPart, WritePart
    <2>2. \A u \in PrThreads : u # t => prPc'[u] = prPc[u] /\ tp'[u] = tp[u]
      BY <1>2, <2>1 DEF ReadPart, WritePart, ReduceInv, ParReduceInv
    <2>3. prPc'[t] # "done" /\ prPc[t] # "done"
      BY <2>1 DEF ReduceInv, ParReduceInv
    <2>4. QED  BY <2>1, <2>2, <2>3 DEF ReduceInv, ReducedHolds
  <1>3. ASSUME NEW t \in PrThreads, ReducePart(t)  PROVE  ReducedHolds'
    <2> DEFINE sum == FoldLeft(+, 0, SubSeq(lst, tp[t] * Skip + 1, tp[t] * Skip + SliceLen(tp[t])))
    <2>1. /\ prPc[t] = "reduce" /\ partial' = [partial EXCEPT ![t] = sum]
          /\ prPc' = [prPc EXCEPT ![t] = "done"] /\ tp' = tp /\ retval' = retval
      BY <1>3 DEF ReducePart
    <2>2. sum = SumFunctionOnSet(lst, PartOf(tp[t]))
      BY PartReduced DEF ReduceInv, ParReduceInv
    <2> HIDE DEF sum
    <2>3. partial'[t] = sum /\ \A u \in PrThreads : u # t => prPc'[u] = prPc[u] /\ partial'[u] = partial[u]
      BY <2>1 DEF ReduceInv, ParReduceInv, ReducedHolds
    <2>4. partial' = [u \in PrThreads |-> partial'[u]]
      BY <2>1 DEF ReduceInv, ReducedHolds
    <2>5. QED  BY <2>1, <2>2, <2>3, <2>4 DEF ReduceInv, ReducedHolds
  <1>4. CASE JoinAndReduce
    <2>1. /\ \A t \in PrThreads : prPc[t] = "done"
          /\ retval = <<>> /\ retval' = <<Reduced(partial)>>
          /\ UNCHANGED <<prPc, tp, partial>>
      BY <1>4 DEF JoinAndReduce, Reduced
    <2>2. ~(Len(lst) <= num_threads)
      BY <2>1 DEF ReduceInv, ReducedHolds
    <2>3. QED  BY <2>1, <2>2 DEF ReduceInv, ReducedHolds
  <1>5. QED  BY <1>1, <1>2, <1>3, <1>4 DEF ParReduceNext

(* The parts taken are all the parts if no two threads took the same. *)
LEMMA ReducedAll == ReduceInv => ReducesWholeList
  <1> SUFFICES ASSUME ReduceInv, retval # <<>>, ~(Len(lst) <= num_threads),
                      \A s, t \in PrThreads : tp[s] = tp[t] => s = t
               PROVE  retval = <<Reduced(lst)>>
    BY DEF ReducesWholeList, ReduceInv, ReducedHolds, Reduced
  <1>1. PICK L, n : L = Len(lst) /\ n = num_threads /\ L \in Nat /\ n \in Nat \ {0}
    BY ThreadLabsAssumption
  <1>2. /\ \A i \in 1..L : \E p \in 0..n - 1 : i \in PartOf(p)
        /\ \A p \in 0..n - 1 : PartOf(p) \subseteq 1..L
        /\ \A p, r \in 0..n - 1 : p # r => PartOf(p) \intersect PartOf(r) = {}
    <2>1. L > n
      BY <1>1
    <2>2. LiesInParts(L, n)
      BY <1>1, <2>1, SlicesCover
    <2>3. QED  BY <2>2 DEF LiesInParts
  <1>3. PrThreads = 1..n
    BY <1>1 DEF PrThreads
  <1>4. lst = [i \in 1..L |-> lst[i]] /\ \A i \in 1..L : lst[i] \in Int
    BY <1>1, ThreadLabsAssumption
  <1>5. tp \in [1..n -> 0..n - 1]
    BY <1>1, <1>3 DEF ReduceInv, ParReduceInv
  <1>6. \A p \in 0..n - 1 : \E t \in 1..n : tp[t] = p
    <2> DEFINE T == 0..n - 1
               S == 1..n
    <2>1. IsFiniteSet(T) /\ Cardinality(T) = n /\ Cardinality(S) = n
      <3>1. 0 \in Int /\ n - 1 \in Int /\ 1 \in Int /\ n \in Int /\ ~(0 > n - 1) /\ ~(1 > n)
        BY <1>1
      <3>2. IsFiniteSet(T) /\ Cardinality(T) = (n - 1) - 0 + 1 /\ Cardinality(S) = n - 1 + 1
        BY <3>1, FS_Interval
      <3>3. QED  BY <1>1, <3>2
    <2>2. tp \in Injection(S, T)
      BY <1>3, <1>5 DEF Injection, IsInjective
    <2> HIDE DEF S, T
    <2>3. tp \in Surjection(S, T)
      BY <2>1, <2>2, FS_Injection
    <2>4. QED  BY <2>3 DEF Surjection, S, T
  <1> DEFINE P == [t \in 1..n |-> PartOf(tp[t])]
  <1>7. UNION {P[t] : t \in 1..n} = 1..L
    <2>1. \A t \in 1..n : P[t] \subseteq 1..L
      BY <1>2, <1>5
    <2>2. ASSUME NEW i \in 1..L  PROVE  \E t \in 1..n : i \in P[t]
      <3>1. PICK p \in 0..n - 1 : i \in PartOf(p)
        BY <1>2
      <3>2. PICK t \in 1..n : tp[t] = p
        BY <1>6
      <3>3. QED  BY <3>1, <3>2
    <2> HIDE DEF P
    <2>3. QED  BY <2>1, <2>2
  <1>8. \A s, t \in 1..n : s # t => P[s] \intersect P[t] = {}
    BY <1>2, <1>3, <1>5
  <1>9. \A t \in 1..n : IsFiniteSet(P[t]) /\ \A x \in P[t] : lst[x] \in Int
    <2> SUFFICES ASSUME NEW t \in 1..n  PROVE  IsFiniteSet(P[t]) /\ \A x \in P[t] : lst[x] \in Int
      OBVIOUS
    <2>1. P[t] \subseteq 1..L
      BY <1>2, <1>5
    <2>2. IsFiniteSet(1..L)
      BY <1>1, FS_Interval
    <2>3. IsFiniteSet(P[t])
      BY <2>1, <2>2, FS_Subset
    <2>4. QED  BY <1>4, <2>1, <2>3
  <1>10. \A t \in 1..n : partial[t] = SumFunctionOnSet(lst, P[t])
    BY <1>3 DEF ReduceInv, ReducedHolds
  <1>11. partial = [t \in 1..n |-> partial[t]] /\ retval = <<FoldLeft(+, 0, partial)>>
    BY <1>3 DEF ReduceInv, ReducedHolds, Reduced
  <1> HIDE DEF P
  <1>12. \A t \in 1..n : partial[t] \in Int
    <2> SUFFICES ASSUME NEW t \in 1..n  PROVE  partial[t] \in Int
      OBVIOUS
    <2>1. IsFiniteSet(P[t]) /\ \A x \in P[t] : lst[x] \in Int
      BY <1>9
    <2>2. SumFunctionOnSet(lst, P[t]) \in Int
      BY <2>1, SumIsInt
    <2>3. QED  BY <1>10, <2>2
  <1>13. FoldLeft(+, 0, partial) = SumFunctionOnSet(partial, 1..n)
    BY <1>1, <1>11, <1>12, FoldIsSum
  <1>14. SumFunctionOnSet(partial, 1..n) = SumFunctionOnSet(lst, UNION {P[t] : t \in 1..n})
    <2> DEFINE S == 1..n
    <2>1. IsFiniteSet(S)
      BY <1>1, FS_Interval
    <2>2. \A t \in S : IsFiniteSet(P[t]) /\ (\A x \in P[t] : lst[x] \in Int)
                       /\ partial[t] = SumFunctionOnSet(lst, P[t])
      BY <1>9, <1>10
    <2>3. \A s, t \in S : s # t => P[s] \intersect P[t] = {}
      BY <1>8
    <2> HIDE DEF S
    <2>4. SumFunctionOnSet(partial, S) = SumFunctionOnSet(lst, UNION {P[t] : t \in S})
      BY <2>1, <2>2, <2>3, SumOfMany, SMTT(60)
    <2>5. QED  BY <2>4 DEF S
  <1>15. FoldLeft(+, 0, lst) = SumFunctionOnSet(lst, 1..L)
    BY <1>1, <1>4, FoldIsSum
  <1>16. QED  BY <1>7, <1>11, <1>13, <1>14, <1>15 DEF Reduced

(* Both programs for any list and any number of threads: the parts that    *)
(* the threads of par_reduce take stay in the list, its result is the      *)
(* reduction of the whole list unless two threads took the same part, and  *)
(* the texts of the rendezvous are printed whole.                          *)
THEOREM ThreadLabsSafe == ParReduceSpec /\ RendezvousSpec => []ThreadLabsAreSafe
<1>1. ParReduceSpec => []ReducesWholeList
  BY ReduceStarts, ReduceKeeps, ReducedAll, PTL DEF ParReduceSpec
<1>2. PartsStayInList /\ ReducesWholeList /\ PrintsWholeTexts => ThreadLabsAreSafe
  BY DEF ThreadLabsAreSafe
<1> QED
  BY <1>1, <1>2, PartsSafe, TextsPrintedWhole, PTL

=============================================================================

------------------------------ MODULE Resolver ------------------------------
(* rpc: resolve_hostname of the client (dns_query_clnt_impl.c) and the     *)
(* procedure of the server (dns_query_svc_impl.c), over datagrams that may *)
(* be lost, to an authoritative name server.  The stubs are generated: a   *)
(* call is sent again while it is not answered and given up after a time.  *)
EXTENDS Naturals, FiniteSets

CONSTANTS
    Resolvers,      \* client programs
    asks,           \* the host each one resolves
    ClientCache, ServerCache, Zone,     \* host |-> address
    MaxSends,       \* how often a stub sends a call
    MaxFds          \* descriptors the server may open

NoAddress == "none"
Unknown == "-1.-1.-1.-1"    \* what the name server says of a host without address

ASSUME ResolverAssumption ==
    /\ MaxFds \in Nat
    /\ \A cache \in {ClientCache, ServerCache, Zone} :
          \A host \in DOMAIN cache : cache[host] \notin {NoAddress, Unknown, "failed"}

Lookup(cache, host) == IF host \in DOMAIN cache THEN cache[host] ELSE NoAddress

VARIABLES
    rsStep,         \* "cache", "call", "over" of each client
    rsSends,        \* calls sent by each client
    rsSays,         \* what it printed: an address, or "failed"; "none" so far
    calls,          \* datagrams on their way to the server: a set of clients
    replies,        \* datagrams on their way back: <<client, success, address>>
    serving,        \* the call the server works on, a set of at most one client
    svStep,         \* "idle", "waiting" for the name server, "respond"
    ipv4_address,   \* what it has found
    question,       \* the datagram to the name server: hosts
    verdict,        \* the datagram from it: <<address>> or the code for unknown
    res,            \* the static response
    fds             \* sockets opened and never closed

rsVars == <<rsStep, rsSends, rsSays, calls, replies, serving, svStep, ipv4_address,
            question, verdict, res, fds>>

ResolverInit ==
    /\ rsStep = [c \in Resolvers |-> "cache"]
    /\ rsSends = [c \in Resolvers |-> 0]
    /\ rsSays = [c \in Resolvers |-> NoAddress]
    /\ calls = {} /\ replies = {}
    /\ serving = {} /\ svStep = "idle" /\ ipv4_address = NoAddress
    /\ question = {} /\ verdict = {}
    /\ res = <<FALSE, NoAddress>>
    /\ fds = 0

server == <<serving, svStep, ipv4_address, question, verdict, res, fds>>

End(c, says) ==
    /\ rsStep' = [rsStep EXCEPT ![c] = "over"]
    /\ rsSays' = [rsSays EXCEPT ![c] = says]

-----------------------------------------------------------------------------
(* resolve_hostname: a host in the cache is not asked for; without a       *)
(* server there is no stub.                                                *)
resolve_hostname(c) ==
    /\ rsStep[c] = "cache"
    /\ \/ /\ Lookup(ClientCache, asks[c]) # NoAddress
          /\ End(c, Lookup(ClientCache, asks[c]))
       \/ /\ Lookup(ClientCache, asks[c]) = NoAddress
          /\ rsStep' = [rsStep EXCEPT ![c] = "call"]
          /\ UNCHANGED rsSays
       \/ /\ Lookup(ClientCache, asks[c]) = NoAddress
          /\ End(c, NoAddress)
    /\ UNCHANGED <<rsSends, calls, replies, server>>

(* The stub of send_query sends the call, and again until it is answered. *)
SendCall(c) ==
    /\ rsStep[c] = "call" /\ rsSends[c] < MaxSends
    /\ rsSends' = [rsSends EXCEPT ![c] = @ + 1]
    /\ calls' \in {calls, calls \union {c}}
    /\ UNCHANGED <<rsStep, rsSays, replies, server>>

TimeOut(c) ==
    /\ rsStep[c] = "call" /\ rsSends[c] = MaxSends
    /\ End(c, NoAddress)
    /\ UNCHANGED <<rsSends, calls, replies, server>>

send_query(c) ==
    /\ rsStep[c] = "call"
    /\ \E r \in replies :
          /\ r[1] = c
          /\ replies' = replies \ {r}
          /\ End(c, IF r[2] THEN r[3] ELSE "failed")
    /\ UNCHANGED <<rsSends, calls, server>>

-----------------------------------------------------------------------------
(* contact_nameserver up to the send: it opens a socket that is never      *)
(* closed; with none left sendto fails.  The datagram may be lost.         *)
AskNameServer(c) ==
    \/ /\ fds < MaxFds
       /\ fds' = fds + 1
       /\ question' \in {{asks[c]}, {}}
       /\ svStep' = "waiting"
    \/ /\ fds = MaxFds
       /\ svStep' = "respond"
       /\ UNCHANGED <<fds, question>>

(* dns_query_1_svc: its cache first, then the name server. *)
dns_query_1_svc(c) ==
    /\ svStep = "idle" /\ c \in calls
    /\ calls' = calls \ {c}
    /\ serving' = {c}
    /\ ipv4_address' = Lookup(ServerCache, asks[c])
    /\ IF ipv4_address' = NoAddress THEN AskNameServer(c)
       ELSE svStep' = "respond" /\ UNCHANGED <<fds, question>>
    /\ verdict' = {}
    /\ UNCHANGED <<rsStep, rsSends, rsSays, replies, res>>

(* The name server, or the network that loses its answer. *)
NameServer ==
    /\ \E h \in question :
          verdict' \in {{IF h \in DOMAIN Zone THEN Zone[h] ELSE Unknown}, {}}
    /\ question' = {}
    /\ UNCHANGED <<rsStep, rsSends, rsSays, calls, replies, serving, svStep, ipv4_address, res, fds>>

(* contact_nameserver, after the send: it polls until an answer comes, and *)
(* for ever if none does.                                                  *)
contact_nameserver ==
    /\ svStep = "waiting"
    /\ \E v \in verdict : ipv4_address' = IF v = Unknown THEN NoAddress ELSE v
    /\ verdict' = {}
    /\ svStep' = "respond"
    /\ UNCHANGED <<rsStep, rsSends, rsSays, calls, replies, serving, question, res, fds>>

(* Mutant: create_response that leaves an earlier answer where it found none. *)
ResponseKept == <<TRUE, IF ipv4_address = NoAddress THEN res[2] ELSE ipv4_address>>

create_response == <<ipv4_address # NoAddress, ipv4_address>>

(* The reply is sent, and may be lost. *)
Respond ==
    /\ svStep = "respond"
    /\ res' = create_response
    /\ \E c \in serving :
          replies' \in {replies, replies \union {<<c, res'[1], res'[2]>>}}
    /\ serving' = {} /\ svStep' = "idle"
    /\ UNCHANGED <<rsStep, rsSends, rsSays, calls, ipv4_address, question, verdict, fds>>

(* The steps of clients and server; the name server need not answer. *)
ResolverSteps ==
    \/ \E c \in Resolvers :
          resolve_hostname(c) \/ SendCall(c) \/ TimeOut(c) \/ send_query(c) \/ dns_query_1_svc(c)
    \/ contact_nameserver \/ Respond

ResolverSpec == ResolverInit /\ [][ResolverSteps \/ NameServer]_rsVars

-----------------------------------------------------------------------------
(* What a client may be told: the address in the nearest of the two caches *)
(* and the zone that has one.                                              *)
Right(host) ==
    CASE host \in DOMAIN ClientCache -> ClientCache[host]
      [] host \in DOMAIN ServerCache \ DOMAIN ClientCache -> ServerCache[host]
      [] host \in DOMAIN Zone \ (DOMAIN ServerCache \union DOMAIN ClientCache) -> Zone[host]
      [] OTHER -> NoAddress

(* However calls and replies are lost or repeated, a client is told the    *)
(* address of the host it asked for, never that of another query the       *)
(* server answered from its one static response, and is told of a failure  *)
(* only if nobody knows the host or the server has used up its sockets.    *)
ResolverIsRight ==
    \A c \in Resolvers :
        /\ rsSays[c] \notin {NoAddress, "failed"} => rsSays[c] = Right(asks[c])
        /\ rsSays[c] = "failed" => Right(asks[c]) = NoAddress \/ fds = MaxFds

ResolversOver == \A c \in Resolvers : rsStep[c] = "over"
=============================================================================

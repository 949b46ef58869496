------------------------ MODULE NonstopServerProofs ------------------------
(***************************************************************************)
(* Proofs about NonstopServer, for any clients, requests, buffer sizes and *)
(* order of events: a PUT that is answered has stored its units, and a GET *)
(* that is closed has delivered the file it opened.                        *)
(***************************************************************************)
EXTENDS NonstopServer, TLAPS, SequenceTheorems, FiniteSetTheorems

Unit == (Clients \union {0}) \X Nat

(* Variables that are kept per client. *)
Shape ==
    /\ arrived = [c \in Clients |-> arrived[c]] /\ room = [c \in Clients |-> room[c]]
    /\ state = [c \in Clients |-> state[c]] /\ request = [c \in Clients |-> request[c]]
    /\ taken = [c \in Clients |-> taken[c]] /\ readsz = [c \in Clients |-> readsz[c]]
    /\ datasz = [c \in Clients |-> datasz[c]] /\ filesize = [c \in Clients |-> filesize[c]]
    /\ writesz = [c \in Clients |-> writesz[c]] /\ buf = [c \in Clients |-> buf[c]]
    /\ filefd = [c \in Clients |-> filefd[c]] /\ offset = [c \in Clients |-> offset[c]]
    /\ status = [c \in Clients |-> status[c]] /\ got = [c \in Clients |-> got[c]]
    /\ opened = [c \in Clients |-> opened[c]]
    /\ asked \in [Clients -> Request] /\ current \in Clients \union {NONE}

FilesHold ==
    /\ dir \in [Names -> Inodes \union {NONE}] /\ content \in [Inodes -> Seq(Unit)]
    /\ file_list \in Seq(Names)
    /\ \A m, n \in Names : dir[m] # NONE /\ dir[m] = dir[n] => m = n

(* Nothing has been stored or sent. *)
Untouched(c) == datasz[c] = 0 /\ writesz[c] = 0 /\ offset[c] = 0 /\ got[c] = <<>>

Job(c) ==
    /\ arrived[c] \in Nat /\ taken[c] \in Nat /\ taken[c] <= arrived[c]
    /\ readsz[c] \in 0..CHUNK
    /\ state[c] \in {"none", "READ_HEADER", "READ_SIZE", "SERVING"} \/ request[c] = "DELETE"
          => Untouched(c)
    /\ state[c] \in {"WRITE_SIZE", "WRITE_DATA"} => request[c] \in {"LIST", "GET"}
    /\ state[c] \notin {"WRITE_SIZE", "WRITE_DATA", "DONE"} => room[c] = WINDOW

HasUnits(c, n) == dir[Of(c)] # NONE /\ content[dir[Of(c)]] = Units(c, 1, n)

(* A PUT nobody has disturbed has stored the units it counts; it answers   *)
(* at once unless its client is gone.                                      *)
PutJob(c) ==
    request[c] = "PUT" =>
        /\ datasz[c] \in Nat
        /\ state[c] = "READ_DATA" /\ c \notin disturbed /\ ~stopped => HasUnits(c, datasz[c])
        /\ state[c] = "WRITE_RESPONSE" /\ current # c => c \in gone
        /\ state[c] = "WRITE_RESPONSE" /\ current = c /\ c \notin disturbed \union gone =>
              HasUnits(c, filesize[c]) /\ \E i \in DOMAIN file_list : file_list[i] = Of(c)

(* The file of a GET, not empty, is as it was opened, and no other name    *)
(* leads to it.                                                            *)
FileKept(c) ==
    /\ filefd[c] \in Inodes /\ content[filefd[c]] = opened[c]
    /\ \A n \in Names : dir[n] = filefd[c] => n = Of(c)

(* What a GET of the units o has sent: all of the buffers before this one  *)
(* and done units of it; or a buffer was skipped, and the count can never  *)
(* reach the size.                                                         *)
Sent(o, count, done, off, sent, b) ==
    /\ count \in Nat /\ done \in Nat /\ off \in 0..Len(o)
    /\ IF done = 0
       THEN off > count \/ (off = count /\ sent = SubSeq(o, 1, count))
       ELSE /\ Len(b) \in Nat /\ done < Len(b)
            /\ \/ off > count + Len(b)
               \/ /\ off = count + Len(b)
                  /\ b = SubSeq(o, count + 1, off)
                  /\ sent = SubSeq(o, 1, count + done)

Delivered(c) == Sent(opened[c], datasz[c], writesz[c], offset[c], got[c], buf[c])

GetJob(c) ==
    request[c] = "GET" /\ c \notin disturbed =>
        /\ state[c] \in {"WRITE_RESPONSE", "WRITE_SIZE", "WRITE_DATA"} =>
              /\ opened[c] \in Seq(Unit) /\ filesize[c] = Len(opened[c]) /\ room[c] \in Nat
              /\ filesize[c] # 0 => FileKept(c)
        /\ state[c] \in {"WRITE_RESPONSE", "WRITE_SIZE"} => Untouched(c)
        /\ state[c] = "WRITE_DATA" => filesize[c] # 0 /\ Delivered(c)
        /\ state[c] = "DONE" /\ status[c] = "OK" => got[c] = opened[c]

JobHolds(c) == Job(c) /\ PutJob(c) /\ GetJob(c)

IInv == Shape /\ FilesHold /\ \A c \in Clients : JobHolds(c)

-----------------------------------------------------------------------------
(* Numbers and sequences. *)
LEMMA Widths ==
    /\ CHUNK \in Nat /\ CHUNK > 0 /\ HEADER \in Nat /\ HEADER > 0 /\ WINDOW \in Nat /\ WINDOW > 0
    /\ 1 \in Inodes /\ NONE \notin Inodes /\ NONE \notin Clients
<1>1. CHUNK \in Nat /\ CHUNK > 0 /\ HEADER \in Nat /\ HEADER > 0 /\ WINDOW \in Nat /\ WINDOW > 0
  BY WidthAssumption
<1>2. PICK n \in Nat : n = Cardinality(Clients) /\ n > 0
  <2>1. Cardinality(Clients) \in Nat /\ Cardinality(Clients) # 0
    BY ClientsAssumption, FS_CardinalityType, FS_EmptySet
  <2> QED
    BY <2>1
<1>3. 2 * n * CHUNK \in Nat /\ 2 * n * CHUNK >= 1
  BY <1>1, <1>2
<1> QED
  BY <1>1, <1>2, <1>3, ClientsAssumption DEF Inodes, NONE

LEMMA MinOfTwo ==
    ASSUME NEW a \in Int, NEW b \in Int
    PROVE  Min({a, b}) = IF a <= b THEN a ELSE b
<1>1. PICK m : m = IF a <= b THEN a ELSE b
  OBVIOUS
<1>2. m \in {a, b} /\ \A y \in {a, b} : m <= y
  BY <1>1
<1>3. ASSUME NEW x \in {a, b}, \A y \in {a, b} : x <= y PROVE x = m
  BY <1>1, <1>3
<1> QED
  BY <1>1, <1>2, <1>3 DEF Min

LEMMA UnitsJoin ==
    ASSUME NEW c \in Clients, NEW m \in Nat, NEW n \in Nat
    PROVE  /\ Units(c, 1, m) \in Seq(Unit)
           /\ Units(c, m + 1, m + n) \in Seq(Unit)
           /\ Units(c, 1, m) \o Units(c, m + 1, m + n) = Units(c, 1, m + n)
           /\ Units(c, 0 + 1, 0 + n) = Units(c, 1, n)
<1>1. /\ Units(c, 1, m) = [k \in 1..m |-> <<c, k>>]
      /\ Units(c, m + 1, m + n) = [k \in 1..n |-> <<c, m + k>>]
      /\ Units(c, 1, m + n) = [k \in 1..m + n |-> <<c, k>>]
  BY DEF Units
<1>2. \A k \in Nat : <<c, k>> \in Unit
  BY DEF Unit
<1>3. /\ Units(c, 1, m) \in Seq(Unit) /\ Len(Units(c, 1, m)) = m
      /\ Units(c, m + 1, m + n) \in Seq(Unit) /\ Len(Units(c, m + 1, m + n)) = n
      /\ Units(c, 1, m + n) \in Seq(Unit) /\ Len(Units(c, 1, m + n)) = m + n
  BY <1>1, <1>2
<1>4. PICK a \in Seq(Unit), b \in Seq(Unit) : a = Units(c, 1, m) /\ b = Units(c, m + 1, m + n)
  BY <1>3
<1>5. /\ a \o b \in Seq(Unit) /\ Len(a \o b) = m + n
      /\ \A i \in 1..m + n : (a \o b)[i] = IF i <= m THEN a[i] ELSE b[i - m]
  <2>1. Len(a) = m /\ Len(b) = n
    BY <1>3, <1>4
  <2> QED
    BY <2>1, ConcatProperties
<1>6. \A i \in 1..m + n : (a \o b)[i] = Units(c, 1, m + n)[i]
  <2> SUFFICES ASSUME NEW i \in 1..m + n PROVE (a \o b)[i] = Units(c, 1, m + n)[i]
    OBVIOUS
  <2>1. Units(c, 1, m + n)[i] = <<c, i>>
    BY <1>1
  <2>2. CASE i <= m
    <3>1. a[i] = <<c, i>>
      BY <1>1, <1>4, <2>2
    <3> QED
      BY <1>5, <2>1, <2>2, <3>1
  <2>3. CASE ~(i <= m)
    <3>1. i - m \in 1..n /\ m + (i - m) = i
      BY <2>3
    <3>2. b[i - m] = <<c, i>>
      BY <1>1, <1>4, <3>1
    <3> QED
      BY <1>5, <2>1, <2>3, <3>2
  <2> QED
    BY <2>2, <2>3
<1>7. a \o b = Units(c, 1, m + n)
  BY <1>3, <1>5, <1>6, SeqEqual
<1> QED
  BY <1>3, <1>4, <1>7

(* A piece of a file, and the next piece. *)
LEMMA PieceOf ==
    ASSUME NEW o \in Seq(Unit), NEW m \in Nat, NEW n \in Nat, m <= n, n <= Len(o)
    PROVE  /\ SubSeq(o, m + 1, n) \in Seq(Unit) /\ Len(SubSeq(o, m + 1, n)) = n - m
           /\ \A i \in 1..n - m : SubSeq(o, m + 1, n)[i] = o[m + i]
<1>1. \A i \in m + 1..n : o[i] \in Unit
  BY ElementOfSeq
<1>2. /\ SubSeq(o, m + 1, n) \in Seq(Unit)
      /\ Len(SubSeq(o, m + 1, n)) = IF m + 1 <= n THEN n - (m + 1) + 1 ELSE 0
      /\ \A i \in 1..n - (m + 1) + 1 : SubSeq(o, m + 1, n)[i] = o[(m + 1) + i - 1]
  BY <1>1, SubSeqProperties, SMTT(60)
<1>3. n - (m + 1) + 1 = n - m /\ \A i \in 1..n - m : (m + 1) + i - 1 = m + i
  OBVIOUS
<1> QED
  BY <1>2, <1>3

LEMMA PiecesJoin ==
    ASSUME NEW o \in Seq(Unit), NEW m \in Nat, NEW n \in Nat, m <= n, n <= Len(o)
    PROVE  SubSeq(o, 1, m) \o SubSeq(o, m + 1, n) = SubSeq(o, 1, n)
<1>1. PICK a \in Seq(Unit) : a = SubSeq(o, 1, m) /\ Len(a) = m /\ \A i \in 1..m : a[i] = o[i]
  <2>1. 0 + 1 = 1 /\ m - 0 = m /\ 0 <= m /\ m <= Len(o) /\ \A i \in 1..m : 0 + i = i
    OBVIOUS
  <2>2. /\ SubSeq(o, 0 + 1, m) \in Seq(Unit) /\ Len(SubSeq(o, 0 + 1, m)) = m - 0
        /\ \A i \in 1..m - 0 : SubSeq(o, 0 + 1, m)[i] = o[0 + i]
    BY <2>1, PieceOf
  <2> QED
    BY <2>1, <2>2
<1>2. PICK b \in Seq(Unit) : b = SubSeq(o, m + 1, n) /\ Len(b) = n - m /\ \A i \in 1..n - m : b[i] = o[m + i]
  BY PieceOf
<1>3. PICK e \in Seq(Unit) : e = SubSeq(o, 1, n) /\ Len(e) = n /\ \A i \in 1..n : e[i] = o[i]
  <2>1. 0 + 1 = 1 /\ n - 0 = n /\ 0 <= n /\ \A i \in 1..n : 0 + i = i
    OBVIOUS
  <2>2. /\ SubSeq(o, 0 + 1, n) \in Seq(Unit) /\ Len(SubSeq(o, 0 + 1, n)) = n - 0
        /\ \A i \in 1..n - 0 : SubSeq(o, 0 + 1, n)[i] = o[0 + i]
    BY <2>1, PieceOf
  <2> QED
    BY <2>1, <2>2
<1>4. /\ a \o b \in Seq(Unit) /\ Len(a \o b) = n
      /\ \A i \in 1..n : (a \o b)[i] = IF i <= m THEN a[i] ELSE b[i - m]
  BY <1>1, <1>2, ConcatProperties
<1>5. \A i \in 1..n : (a \o b)[i] = e[i]
  <2> SUFFICES ASSUME NEW i \in 1..n PROVE (a \o b)[i] = e[i]
    OBVIOUS
  <2>1. CASE i <= m
    BY <1>1, <1>3, <1>4, <2>1
  <2>2. CASE ~(i <= m)
    <3>1. i - m \in 1..n - m /\ m + (i - m) = i
      BY <2>2
    <3> QED
      BY <1>2, <1>3, <1>4, <2>2, <3>1
  <2> QED
    BY <2>1, <2>2
<1> QED
  BY <1>1, <1>2, <1>3, <1>4, <1>5, SeqEqual

LEMMA PieceOfPiece ==
    ASSUME NEW o \in Seq(Unit), NEW m \in Nat, NEW e \in Nat, m <= e, e <= Len(o),
           NEW v \in Nat, NEW n \in Nat, v + n <= e - m
    PROVE  SubSeq(SubSeq(o, m + 1, e), v + 1, v + n) = SubSeq(o, (m + v) + 1, m + (v + n))
<1>1. PICK b \in Seq(Unit) : b = SubSeq(o, m + 1, e) /\ Len(b) = e - m /\ \A i \in 1..e - m : b[i] = o[m + i]
  BY PieceOf
<1>2. /\ SubSeq(b, v + 1, v + n) \in Seq(Unit) /\ Len(SubSeq(b, v + 1, v + n)) = n
      /\ \A i \in 1..n : SubSeq(b, v + 1, v + n)[i] = b[v + i]
  <2>1. v <= v + n /\ v + n <= Len(b) /\ (v + n) - v = n /\ v + n \in Nat
    BY <1>1
  <2> QED
    BY <2>1, PieceOf
<1>3. /\ SubSeq(o, (m + v) + 1, m + (v + n)) \in Seq(Unit)
      /\ Len(SubSeq(o, (m + v) + 1, m + (v + n))) = n
      /\ \A i \in 1..n : SubSeq(o, (m + v) + 1, m + (v + n))[i] = o[(m + v) + i]
  <2>1. m + v \in Nat /\ m + (v + n) \in Nat /\ m + v <= m + (v + n) /\ m + (v + n) <= Len(o)
        /\ (m + (v + n)) - (m + v) = n
    OBVIOUS
  <2> QED
    BY <2>1, PieceOf
<1>4. \A i \in 1..n : SubSeq(b, v + 1, v + n)[i] = SubSeq(o, (m + v) + 1, m + (v + n))[i]
  <2> SUFFICES ASSUME NEW i \in 1..n PROVE b[v + i] = o[(m + v) + i]
    BY <1>2, <1>3
  <2>1. v + i \in 1..e - m /\ m + (v + i) = (m + v) + i
    OBVIOUS
  <2> QED
    BY <1>1, <2>1
<1> QED
  BY <1>1, <1>2, <1>3, <1>4, SeqEqual

-----------------------------------------------------------------------------
(* The jobs that a step leaves alone. *)

(* A step that is not job d's own: it may bring units or room to d. *)
Kept(d) ==
    /\ arrived'[d] \in Nat /\ arrived'[d] >= arrived[d] /\ room'[d] \in {room[d], WINDOW}
    /\ state'[d] = state[d] /\ request'[d] = request[d] /\ taken'[d] = taken[d]
    /\ readsz'[d] = readsz[d] /\ datasz'[d] = datasz[d] /\ filesize'[d] = filesize[d]
    /\ writesz'[d] = writesz[d] /\ buf'[d] = buf[d] /\ filefd'[d] = filefd[d]
    /\ offset'[d] = offset[d] /\ status'[d] = status[d] /\ got'[d] = got[d]
    /\ opened'[d] = opened[d] /\ asked' = asked
    /\ gone \subseteq gone' /\ (d \in disturbed => d \in disturbed') /\ (stopped => stopped')
    /\ (current' = current /\ file_list' = file_list) \/ (current # d /\ current' # d)

(* It leaves the file of d alone, or d is disturbed. *)
FileLeft(d) ==
    /\ request[d] = "PUT" /\ state[d] = "READ_DATA" /\ d \notin disturbed' /\ ~stopped'
          => \A n \in Nat : HasUnits(d, n) => HasUnits(d, n)'
    /\ current' # d \/ (dir' = dir /\ content' = content)
    /\ request[d] = "GET" /\ d \notin disturbed' /\ Len(opened[d]) # 0 /\ FileKept(d)
          => FileKept(d)'

LEMMA JobKept ==
    ASSUME IInv, NEW d \in Clients, Kept(d), FileLeft(d)
    PROVE  JobHolds(d)'
<1>1. Job(d) /\ PutJob(d) /\ GetJob(d)
  BY DEF IInv, JobHolds
<1>2. Job(d)'
  BY <1>1, Widths DEF Job, Untouched, Kept
<1>3. PutJob(d)'
  <2> SUFFICES ASSUME request[d] = "PUT" PROVE PutJob(d)'
    BY DEF PutJob, Kept
  <2>1. datasz'[d] \in Nat
    BY <1>1 DEF PutJob, Kept
  <2>2. ASSUME state'[d] = "READ_DATA", d \notin disturbed', ~stopped'
        PROVE  HasUnits(d, datasz[d])'
    <3>1. HasUnits(d, datasz[d]) /\ datasz[d] \in Nat
      BY <1>1, <2>2 DEF PutJob, Kept
    <3>2. PICK n \in Nat : n = datasz[d]
      BY <3>1
    <3>3. HasUnits(d, n)'
      BY <2>2, <3>1, <3>2 DEF FileLeft, Kept
    <3> QED
      BY <3>2, <3>3 DEF Kept, HasUnits
  <2>3. state'[d] = "WRITE_RESPONSE" /\ current' # d => d \in gone'
    <3>1. current' # d => current # d
      BY DEF Kept
    <3> QED
      BY <1>1, <3>1 DEF PutJob, Kept
  <2>4. ASSUME state'[d] = "WRITE_RESPONSE", current' = d, d \notin disturbed' \union gone'
        PROVE  HasUnits(d, filesize[d])' /\ \E i \in DOMAIN file_list' : file_list'[i] = Of(d)'
    <3>1. current = d /\ file_list' = file_list /\ dir' = dir /\ content' = content
      BY <2>4 DEF Kept, FileLeft
    <3>2. HasUnits(d, filesize[d]) /\ \E i \in DOMAIN file_list : file_list[i] = Of(d)
      BY <1>1, <2>4, <3>1 DEF PutJob, Kept
    <3> QED
      BY <3>1, <3>2 DEF HasUnits, Of, Kept
  <2> QED
    BY <2>1, <2>2, <2>3, <2>4 DEF PutJob
<1>4. GetJob(d)'
  <2> SUFFICES ASSUME request[d] = "GET", d \notin disturbed' PROVE GetJob(d)'
    BY DEF GetJob, Kept
  <2>1. d \notin disturbed
    BY DEF Kept
  <2>2. Delivered(d) => Delivered(d)'
    BY DEF Delivered, Kept
  <2>3. Untouched(d) => Untouched(d)'
    BY DEF Untouched, Kept
  <2>4. filesize[d] # 0 /\ filesize[d] = Len(opened[d]) /\ FileKept(d) => FileKept(d)'
    BY DEF FileLeft
  <2>5. room[d] \in Nat => room'[d] \in Nat
    BY Widths DEF Kept
  <2> QED
    BY <1>1, <2>1, <2>2, <2>3, <2>4, <2>5 DEF GetJob, Kept
<1> QED
  BY <1>2, <1>3, <1>4 DEF JobHolds

LEMMA SameFiles ==
    ASSUME NEW d \in Clients, Kept(d), dir' = dir, content' = content
    PROVE  FileLeft(d)
  BY DEF Kept, FileLeft, HasUnits, FileKept, Of

-----------------------------------------------------------------------------
(* A step of job c changes its own entries only. *)
Only(f, g, c) == g = [d \in Clients |-> IF d = c THEN g[c] ELSE f[d]]

LEMMA OnlyOne ==
    ASSUME NEW f, f = [d \in Clients |-> f[d]], NEW c \in Clients
    PROVE  /\ Only(f, f, c)
           /\ \A v : Only(f, [f EXCEPT ![c] = v], c)
  BY DEF Only

LEMMA OnlyMaybe ==
    ASSUME NEW f, NEW g, f = [d \in Clients |-> f[d]], NEW c \in Clients,
           g = f \/ \E v : g = [f EXCEPT ![c] = v]
    PROVE  Only(f, g, c)
  BY OnlyOne

OnlyJob(c) ==
    /\ Only(arrived, arrived', c) /\ Only(room, room', c)
    /\ Only(state, state', c) /\ Only(request, request', c) /\ Only(taken, taken', c)
    /\ Only(readsz, readsz', c) /\ Only(datasz, datasz', c)
    /\ Only(filesize, filesize', c) /\ Only(writesz, writesz', c) /\ Only(buf, buf', c)
    /\ Only(filefd, filefd', c) /\ Only(offset, offset', c) /\ Only(status, status', c)
    /\ Only(got, got', c) /\ Only(opened, opened', c)

LEMMA OnlyMeans ==
    ASSUME NEW f, NEW g, NEW c \in Clients, Only(f, g, c)
    PROVE  g = [d \in Clients |-> g[d]] /\ \A d \in Clients \ {c} : g[d] = f[d]
  BY DEF Only

LEMMA JobStep ==
    ASSUME IInv, NEW c \in Clients, OnlyJob(c), JobHolds(c)',
           asked' = asked, gone' = gone, stopped' = stopped,
           \A d \in Clients \ {c} : d \in disturbed => d \in disturbed',
           \/ current' = current /\ file_list' = file_list
           \/ current \in {NONE, c} /\ current' \in {NONE, c},
           FilesHold',
           \A d \in Clients \ {c} : Kept(d) => FileLeft(d)
    PROVE  IInv'
<1>1. Shape /\ \A d \in Clients : JobHolds(d)
  BY DEF IInv
<1>2. Shape'
  <2>1. asked' \in [Clients -> Request] /\ current' \in Clients \union {NONE}
    BY <1>1 DEF Shape
  <2> QED
    BY <2>1, OnlyMeans DEF Shape, OnlyJob
<1>3. ASSUME NEW d \in Clients \ {c} PROVE Kept(d)
  <2>1. /\ arrived'[d] = arrived[d] /\ room'[d] = room[d]
        /\ state'[d] = state[d] /\ request'[d] = request[d] /\ taken'[d] = taken[d]
        /\ readsz'[d] = readsz[d] /\ datasz'[d] = datasz[d] /\ filesize'[d] = filesize[d]
        /\ writesz'[d] = writesz[d] /\ buf'[d] = buf[d] /\ filefd'[d] = filefd[d]
        /\ offset'[d] = offset[d] /\ status'[d] = status[d] /\ got'[d] = got[d]
        /\ opened'[d] = opened[d]
    BY OnlyMeans DEF OnlyJob
  <2>2. arrived[d] \in Nat
    BY <1>1 DEF JobHolds, Job
  <2>3. (current' = current /\ file_list' = file_list) \/ (current # d /\ current' # d)
    BY Widths
  <2> QED
    BY <2>1, <2>2, <2>3 DEF Kept
<1>4. \A d \in Clients \ {c} : JobHolds(d)'
  BY <1>3, JobKept
<1> QED
  BY <1>2, <1>4 DEF IInv

(* The same where the files are not touched. *)
LEMMA QuietStep ==
    ASSUME IInv, NEW c \in Clients, OnlyJob(c), JobHolds(c)',
           asked' = asked, gone' = gone, stopped' = stopped, disturbed' = disturbed,
           \/ current' = current /\ file_list' = file_list
           \/ current \in {NONE, c} /\ current' \in {NONE, c},
           dir' = dir, content' = content, file_list' \in Seq(Names)
    PROVE  IInv'
<1>1. FilesHold'
  BY DEF IInv, FilesHold
<1>2. \A d \in Clients \ {c} : Kept(d) => FileLeft(d)
  BY SameFiles
<1> QED
  BY <1>1, <1>2, JobStep

(* What the other side of a connection does. *)
LEMMA ClientStep ==
    ASSUME IInv, NEW c \in Clients, Client(c)
    PROVE  IInv'
<1>1. Shape /\ FilesHold /\ \A d \in Clients : JobHolds(d)
  BY DEF IInv
<1>2. /\ UNCHANGED <<asked, current, files, state, reading, writing, disturbed, stopped>>
      /\ gone \subseteq gone'
      /\ \/ UNCHANGED arrived
         \/ \E n \in arrived[c] + 1 .. Total(c) : arrived' = [arrived EXCEPT ![c] = n]
      /\ UNCHANGED room \/ room' = [room EXCEPT ![c] = WINDOW]
  BY DEF Client, Arrive, ShutDown, Vanish, Reset, Drain
<1>3. /\ UNCHANGED <<asked, current, dir, content, file_list, state, disturbed, stopped>>
      /\ UNCHANGED <<request, taken, readsz, datasz, filesize>>
      /\ UNCHANGED <<writesz, buf, filefd, offset, status, got, opened>>
  BY <1>2 DEF files, reading, writing
<1>4. /\ arrived' = [d \in Clients |-> arrived'[d]]
      /\ \A d \in Clients : arrived'[d] \in Nat /\ arrived'[d] >= arrived[d]
  <2>1. arrived = [d \in Clients |-> arrived[d]] /\ \A d \in Clients : arrived[d] \in Nat
    BY <1>1 DEF Shape, JobHolds, Job
  <2>2. ASSUME NEW n \in arrived[c] + 1 .. Total(c), arrived' = [arrived EXCEPT ![c] = n]
        PROVE  /\ arrived' = [d \in Clients |-> arrived'[d]]
               /\ \A d \in Clients : arrived'[d] \in Nat /\ arrived'[d] >= arrived[d]
    <3>1. n \in Nat /\ n >= arrived[c]
      BY <2>1
    <3> QED
      BY <2>1, <2>2, <3>1
  <2> QED
    BY <1>2, <2>1, <2>2
<1>5. room' = [d \in Clients |-> room'[d]] /\ \A d \in Clients : room'[d] \in {room[d], WINDOW}
  BY <1>1, <1>2 DEF Shape
<1>6. Shape'
  BY <1>1, <1>3, <1>4, <1>5 DEF Shape
<1>7. FilesHold'
  BY <1>1, <1>3 DEF FilesHold
<1>8. \A d \in Clients : Kept(d)
  BY <1>2, <1>3, <1>4, <1>5 DEF Kept
<1>9. \A d \in Clients : JobHolds(d)'
  BY <1>3, <1>8, SameFiles, JobKept
<1> QED
  BY <1>6, <1>7, <1>9 DEF IInv

-----------------------------------------------------------------------------
(* A step that changes nothing the invariant speaks of. *)
LEMMA NothingStep ==
    ASSUME IInv,
           UNCHANGED <<asked, arrived, room, gone, current, dir, content, file_list, state>>,
           UNCHANGED <<request, taken, readsz, datasz, filesize, disturbed, stopped>>,
           UNCHANGED <<writesz, buf, filefd, offset, status, got, opened>>
    PROVE  IInv'
<1>1. Shape' /\ FilesHold'
  BY DEF IInv, Shape, FilesHold
<1>2. \A d \in Clients : Kept(d)
  BY DEF IInv, JobHolds, Job, Kept
<1>3. \A d \in Clients : JobHolds(d)'
  BY <1>2, SameFiles, JobKept
<1> QED
  BY <1>1, <1>3 DEF IInv

(* The steps of the server that leave the directory alone. *)
LEMMA AcceptStep ==
    ASSUME IInv, NEW c \in Clients, Accept(c)
    PROVE  IInv'
<1>1. /\ current = NONE /\ state[c] = "none" /\ state' = [state EXCEPT ![c] = "READ_HEADER"]
      /\ UNCHANGED <<asked, arrived, fin, gone, room, current, dir, content, file_list>>
      /\ UNCHANGED <<request, taken, readsz, datasz, filesize, disturbed, stopped>>
      /\ UNCHANGED <<writesz, buf, filefd, offset, status, got, opened>>
  BY DEF Accept, sockets, files, reading, writing
<1>2. Shape /\ FilesHold /\ JobHolds(c)
  BY DEF IInv
<1>3. OnlyJob(c) /\ state'[c] = "READ_HEADER"
  BY <1>1, <1>2, OnlyOne DEF OnlyJob, Shape
<1>4. JobHolds(c)'
  BY <1>1, <1>2, <1>3 DEF JobHolds, Job, PutJob, GetJob, Untouched
<1> QED
  BY <1>1, <1>2, <1>3, <1>4, QuietStep DEF FilesHold

LEMMA DispatchStep ==
    ASSUME IInv, NEW c \in Clients, Dispatch(c)
    PROVE  IInv'
<1>1. /\ current = NONE /\ current' = c
      /\ UNCHANGED <<asked, arrived, fin, gone, room, dir, content>>
      /\ UNCHANGED <<request, taken, readsz, datasz, filesize, disturbed, stopped>>
      /\ UNCHANGED <<writesz, buf, filefd, offset, status, got, opened>>
      /\ \/ UNCHANGED state
         \/ /\ state[c] = "WRITE_RESPONSE" /\ request[c] = "DELETE"
            /\ state' = [state EXCEPT ![c] = "SERVING"]
      /\ UNCHANGED file_list \/ ListName(c)
  BY DEF Dispatch, sockets, reading, writing
<1>2. Shape /\ FilesHold /\ JobHolds(c)
  BY DEF IInv
<1>3. /\ OnlyJob(c)
      /\ state'[c] # state[c] => state'[c] = "SERVING" /\ request[c] = "DELETE" /\ state[c] = "WRITE_RESPONSE"
  <2>1. state = [d \in Clients |-> state[d]]
    BY <1>2 DEF Shape
  <2>2. Only(state, state', c)
    BY <1>1, <2>1, OnlyMaybe
  <2>3. state'[c] # state[c] => state'[c] = "SERVING" /\ request[c] = "DELETE" /\ state[c] = "WRITE_RESPONSE"
    BY <1>1, <2>1
  <2> QED
    BY <1>1, <1>2, <2>2, <2>3, OnlyOne DEF OnlyJob, Shape
<1>4. current # c
  BY <1>1, Widths
<1>5. Job(c)'
  BY <1>1, <1>2, <1>3 DEF JobHolds, Job, Untouched
<1>6. PutJob(c)'
  <2>1. request[c] = "PUT" => state'[c] = state[c]
    BY <1>3
  <2>2. request[c] = "PUT" /\ state[c] = "WRITE_RESPONSE" => c \in gone
    BY <1>2, <1>4 DEF JobHolds, PutJob
  <2> QED
    BY <1>1, <1>2, <2>1, <2>2 DEF JobHolds, PutJob, HasUnits, Of
<1>7. GetJob(c)'
  <2>1. request[c] = "GET" => state'[c] = state[c]
    BY <1>3
  <2> QED
    BY <1>1, <1>2, <2>1 DEF JobHolds, GetJob, Untouched, FileKept, Delivered, Of
<1>8. file_list' \in Seq(Names)
  <2>1. file_list \in Seq(Names) /\ Of(c) \in Names
    BY <1>2 DEF FilesHold, Shape, Of, Request
  <2> QED
    BY <1>1, <2>1, AppendProperties DEF ListName, Lists
<1> QED
  BY <1>1, <1>3, <1>5, <1>6, <1>7, <1>8, QuietStep DEF JobHolds

LEMMA ReadHeaderStep ==
    ASSUME IInv, NEW c \in Clients, ReadHeader(c)
    PROVE  IInv'
<1>1. /\ current = c /\ state[c] = "READ_HEADER" /\ current' \in {NONE, c}
      /\ taken' = [taken EXCEPT ![c] = Min({HEADER, arrived[c]})]
      /\ UNCHANGED <<asked, arrived, fin, gone, room, dir, content, file_list>>
      /\ UNCHANGED <<readsz, datasz, filesize, disturbed, stopped>>
      /\ UNCHANGED <<writesz, buf, filefd, offset, status, got, opened>>
  BY DEF ReadHeader, Handling, AfterHeader, BackToLoop, Continue, sockets, files, writing
<1>2. Shape /\ FilesHold /\ JobHolds(c)
  BY DEF IInv
<1>3. /\ request' = [request EXCEPT ![c] = asked[c].verb] \/ UNCHANGED request
      /\ \/ UNCHANGED state
         \/ \E s \in {"READ_SIZE", "ERROR", "SERVING"} : state' = [state EXCEPT ![c] = s]
      /\ \E s \in {"READ_SIZE", "ERROR", "SERVING", "READ_HEADER"} : Only(state, state', c) /\ state'[c] = s
  <2>1. request' = [request EXCEPT ![c] = asked[c].verb] \/ UNCHANGED request
    BY DEF ReadHeader, AfterHeader
  <2>2. \/ UNCHANGED state
        \/ \E s \in {"READ_SIZE", "ERROR", "SERVING"} : state' = [state EXCEPT ![c] = s]
    BY DEF ReadHeader, AfterHeader, Move
  <2>3. \E s \in {"READ_SIZE", "ERROR", "SERVING", "READ_HEADER"} :
            Only(state, state', c) /\ state'[c] = s
    <3>1. state = [d \in Clients |-> state[d]]
      BY <1>2 DEF Shape
    <3>2. Only(state, state', c)
      BY <2>2, <3>1, OnlyMaybe
    <3>3. state'[c] \in {"READ_SIZE", "ERROR", "SERVING", "READ_HEADER"}
      BY <1>1, <2>2, <3>1
    <3> QED
      BY <3>2, <3>3
  <2> QED
    BY <2>1, <2>2, <2>3
<1>4. OnlyJob(c)
  <2>1. Only(request, request', c) /\ Only(taken, taken', c)
    <3>1. request = [d \in Clients |-> request[d]] /\ taken = [d \in Clients |-> taken[d]]
      BY <1>2 DEF Shape
    <3>2. Only(request, request', c)
      BY <1>3, <3>1, OnlyMaybe
    <3>3. Only(taken, taken', c)
      BY <1>1, <3>1, OnlyMaybe
    <3> QED
      BY <3>2, <3>3
  <2> QED
    BY <1>1, <1>2, <1>3, <2>1, OnlyOne DEF OnlyJob, Shape
<1>5. taken'[c] \in Nat /\ taken'[c] <= arrived[c]
  <2>1. arrived[c] \in Nat /\ taken'[c] = Min({HEADER, arrived[c]})
    BY <1>1, <1>2 DEF Shape, JobHolds, Job
  <2> QED
    BY <2>1, Widths, MinOfTwo
<1>6. Untouched(c) /\ Untouched(c)'
  BY <1>1, <1>2 DEF JobHolds, Job, Untouched
<1>7. JobHolds(c)'
  BY <1>1, <1>2, <1>3, <1>5, <1>6 DEF JobHolds, Job, PutJob, GetJob, Untouched
<1> QED
  BY <1>1, <1>2, <1>4, <1>7, QuietStep DEF FilesHold

LEMMA PutReadSizeStep ==
    ASSUME IInv, NEW c \in Clients, PutReadSize(c)
    PROVE  IInv'
<1>1. /\ current = c /\ state[c] = "READ_SIZE" /\ current' \in {NONE, c}
      /\ UNCHANGED <<asked, arrived, fin, gone, room, dir, content, file_list>>
      /\ UNCHANGED <<request, readsz, datasz, disturbed, stopped>>
      /\ UNCHANGED <<writesz, buf, filefd, offset, status, got, opened>>
      /\ UNCHANGED state \/ state' = [state EXCEPT ![c] = "SERVING"]
      /\ UNCHANGED filesize \/ filesize' = [filesize EXCEPT ![c] = asked[c].size]
      /\ UNCHANGED taken \/ (arrived[c] > taken[c] /\ taken' = [taken EXCEPT ![c] = taken[c] + 1])
  BY DEF PutReadSize, Handling, BackToLoop, Continue, Move, sockets, files, writing
<1>2. Shape /\ FilesHold /\ JobHolds(c)
  BY DEF IInv
<1>3. /\ Only(state, state', c) /\ Only(filesize, filesize', c) /\ Only(taken, taken', c)
      /\ state'[c] \in {"READ_SIZE", "SERVING"}
      /\ taken'[c] = taken[c] \/ (arrived[c] > taken[c] /\ taken'[c] = taken[c] + 1)
  <2>1. /\ state = [d \in Clients |-> state[d]] /\ filesize = [d \in Clients |-> filesize[d]]
        /\ taken = [d \in Clients |-> taken[d]]
    BY <1>2 DEF Shape
  <2>2. Only(state, state', c)
    BY <1>1, <2>1, OnlyMaybe
  <2>3. Only(filesize, filesize', c)
    BY <1>1, <2>1, OnlyMaybe
  <2>4. Only(taken, taken', c)
    BY <1>1, <2>1, OnlyMaybe
  <2>5. /\ state'[c] \in {"READ_SIZE", "SERVING"}
        /\ taken'[c] = taken[c] \/ (arrived[c] > taken[c] /\ taken'[c] = taken[c] + 1)
    BY <1>1, <2>1
  <2> QED
    BY <2>2, <2>3, <2>4, <2>5
<1>4. OnlyJob(c)
  BY <1>1, <1>2, <1>3, OnlyOne DEF OnlyJob, Shape
<1>5. taken'[c] \in Nat /\ taken'[c] <= arrived[c]
  BY <1>2, <1>3 DEF JobHolds, Job
<1>6. JobHolds(c)'
  BY <1>1, <1>2, <1>3, <1>5 DEF JobHolds, Job, PutJob, GetJob, Untouched
<1> QED
  BY <1>1, <1>2, <1>4, <1>6, QuietStep DEF FilesHold

(* What put reads into its buffer fits there and has arrived. *)
LEMMA ReadableFits ==
    ASSUME NEW c \in Clients, Job(c)
    PROVE  /\ Readable(c) \in Nat /\ Filled(c) \in Nat
           /\ taken[c] + Readable(c) \in Nat /\ taken[c] + Readable(c) <= arrived[c]
           /\ Filled(c) \in 0..CHUNK
<1>1. /\ arrived[c] \in Nat /\ taken[c] \in Nat /\ taken[c] <= arrived[c]
      /\ readsz[c] \in Nat /\ readsz[c] <= CHUNK /\ CHUNK \in Nat
  BY Widths DEF Job
<1>2. Readable(c) = IF CHUNK - readsz[c] <= arrived[c] - taken[c]
                      THEN CHUNK - readsz[c] ELSE arrived[c] - taken[c]
  BY <1>1, MinOfTwo DEF Readable
<1> QED
  BY <1>1, <1>2 DEF Filled

LEMMA PutWaitStep ==
    ASSUME IInv, NEW c \in Clients, PutWait(c)
    PROVE  IInv'
<1>1. /\ current = c /\ state[c] \in {"SERVING", "READ_DATA"} /\ current' = NONE /\ request[c] = "PUT"
      /\ UNCHANGED <<asked, arrived, fin, gone, room, dir, content, file_list>>
      /\ UNCHANGED <<state, request, datasz, filesize, disturbed, stopped>>
      /\ UNCHANGED <<writesz, buf, filefd, offset, status, got, opened>>
      /\ taken' = [taken EXCEPT ![c] = taken[c] + Readable(c)]
      /\ readsz' = [readsz EXCEPT ![c] = Filled(c)]
  BY DEF PutWait, Putting, Handling, BackToLoop, sockets, files, writing
<1>2. Shape /\ FilesHold /\ JobHolds(c)
  BY DEF IInv
<1>3. /\ Only(readsz, readsz', c) /\ Only(taken, taken', c)
      /\ readsz'[c] = Filled(c) /\ taken'[c] = taken[c] + Readable(c)
  BY <1>1, <1>2, OnlyOne DEF Shape
<1>4. OnlyJob(c)
  BY <1>1, <1>2, <1>3, OnlyOne DEF OnlyJob, Shape
<1>5. taken'[c] \in Nat /\ taken'[c] <= arrived[c] /\ readsz'[c] \in 0..CHUNK
  BY <1>2, <1>3, ReadableFits DEF JobHolds
<1>6. Job(c)'
  BY <1>1, <1>2, <1>5 DEF JobHolds, Job, Untouched
<1>7. PutJob(c)' /\ GetJob(c)'
  BY <1>1, <1>2 DEF JobHolds, PutJob, GetJob, HasUnits, Of
<1> QED
  BY <1>1, <1>2, <1>4, <1>6, <1>7, QuietStep DEF FilesHold, JobHolds

LEMMA ListServeStep ==
    ASSUME IInv, NEW c \in Clients, ListServe(c)
    PROVE  IInv'
<1>1. /\ current = c /\ state[c] = "SERVING" /\ current' = current /\ request[c] = "LIST"
      /\ UNCHANGED <<asked, arrived, fin, gone, room, dir, content, file_list>>
      /\ UNCHANGED <<request, taken, readsz, datasz, disturbed, stopped>>
      /\ UNCHANGED <<writesz, filefd, offset, status, got, opened>>
      /\ state' = [state EXCEPT ![c] = "WRITE_RESPONSE"]
      /\ \E n : filesize' = [filesize EXCEPT ![c] = n]
      /\ \E b : buf' = [buf EXCEPT ![c] = b]
  BY DEF ListServe, Serving, Handling, Continue, Move, sockets, files
<1>2. Shape /\ FilesHold /\ JobHolds(c)
  BY DEF IInv
<1>3. /\ Only(state, state', c) /\ Only(filesize, filesize', c) /\ Only(buf, buf', c)
      /\ state'[c] = "WRITE_RESPONSE"
  <2>1. /\ state = [d \in Clients |-> state[d]] /\ filesize = [d \in Clients |-> filesize[d]]
        /\ buf = [d \in Clients |-> buf[d]]
    BY <1>2 DEF Shape
  <2>2. Only(state, state', c) /\ state'[c] = "WRITE_RESPONSE"
    BY <1>1, <2>1, OnlyOne
  <2>3. Only(filesize, filesize', c)
    BY <1>1, <2>1, OnlyMaybe
  <2>4. Only(buf, buf', c)
    BY <1>1, <2>1, OnlyMaybe
  <2> QED
    BY <2>2, <2>3, <2>4
<1>4. OnlyJob(c)
  BY <1>1, <1>2, <1>3, OnlyOne DEF OnlyJob, Shape
<1>5. JobHolds(c)'
  BY <1>1, <1>2, <1>3 DEF JobHolds, Job, PutJob, GetJob, Untouched
<1> QED
  BY <1>1, <1>2, <1>4, <1>5, QuietStep DEF FilesHold

LEMMA NoSuchFileStep ==
    ASSUME IInv, NEW c \in Clients, NoSuchFile(c)
    PROVE  IInv'
<1>1. /\ current = c /\ state[c] = "SERVING" /\ current' = current /\ request[c] \in {"GET", "DELETE"}
      /\ UNCHANGED <<asked, arrived, fin, gone, room, dir, content, file_list>>
      /\ UNCHANGED <<request, taken, readsz, datasz, filesize, disturbed, stopped>>
      /\ UNCHANGED <<writesz, buf, filefd, offset, status, got, opened>>
      /\ state' = [state EXCEPT ![c] = "ERROR"]
  BY DEF NoSuchFile, Serving, Handling, Continue, Move, sockets, files, reading, writing
<1>2. Shape /\ FilesHold /\ JobHolds(c)
  BY DEF IInv
<1>3. OnlyJob(c) /\ state'[c] = "ERROR"
  BY <1>1, <1>2, OnlyOne DEF OnlyJob, Shape
<1>4. JobHolds(c)'
  BY <1>1, <1>2, <1>3 DEF JobHolds, Job, PutJob, GetJob, Untouched
<1> QED
  BY <1>1, <1>2, <1>3, <1>4, QuietStep DEF FilesHold

(* The file a GET opens is known by its own name only. *)
LEMMA GetServeStep ==
    ASSUME IInv, NEW c \in Clients, GetServe(c)
    PROVE  IInv'
<1>1. /\ current = c /\ state[c] = "SERVING" /\ current' = current /\ request[c] = "GET"
      /\ dir[Of(c)] # NONE
      /\ UNCHANGED <<asked, arrived, fin, gone, room, dir, content, file_list>>
      /\ UNCHANGED <<request, taken, readsz, datasz, disturbed, stopped>>
      /\ UNCHANGED <<writesz, buf, offset, status, got>>
      /\ state' = [state EXCEPT ![c] = "WRITE_RESPONSE"]
      /\ filefd' = [filefd EXCEPT ![c] = dir[Of(c)]]
      /\ filesize' = [filesize EXCEPT ![c] = Len(content[dir[Of(c)]])]
      /\ opened' = [opened EXCEPT ![c] = content[dir[Of(c)]]]
  BY DEF GetServe, Serving, Handling, Continue, Move, sockets, files
<1>2. Shape /\ FilesHold /\ JobHolds(c)
  BY DEF IInv
<1>3. /\ Only(state, state', c) /\ Only(filesize, filesize', c) /\ Only(filefd, filefd', c)
      /\ Only(opened, opened', c) /\ state'[c] = "WRITE_RESPONSE"
      /\ filefd'[c] = dir[Of(c)] /\ opened'[c] = content[dir[Of(c)]]
      /\ filesize'[c] = Len(opened'[c])
  BY <1>1, <1>2, OnlyOne DEF Shape
<1>4. OnlyJob(c)
  BY <1>1, <1>2, <1>3, OnlyOne DEF OnlyJob, Shape
<1>5. /\ Of(c) \in Names /\ dir[Of(c)] \in Inodes /\ opened'[c] \in Seq(Unit)
      /\ \A n \in Names : dir[n] = dir[Of(c)] => n = Of(c)
  BY <1>1, <1>2, <1>3 DEF FilesHold, Shape, Of, Request
<1>6. FileKept(c)'
  BY <1>1, <1>3, <1>5 DEF FileKept, Of
<1>7. Job(c)' /\ PutJob(c)' /\ Untouched(c)'
  BY <1>1, <1>2, <1>3 DEF JobHolds, Job, PutJob, Untouched
<1>8. GetJob(c)'
  <2>1. room'[c] \in Nat
    BY <1>1, <1>2, Widths DEF JobHolds, Job
  <2> QED
    BY <1>1, <1>3, <1>5, <1>6, <1>7, <2>1 DEF GetJob
<1> QED
  BY <1>1, <1>2, <1>4, <1>7, <1>8, QuietStep DEF FilesHold, JobHolds

-----------------------------------------------------------------------------
(* The steps that answer. *)

(* Only list loses its text, and only a client that is gone keeps a PUT    *)
(* from its answer.                                                        *)
LEMMA CannotWriteStep ==
    ASSUME IInv, NEW c \in Clients, CannotWrite(c)
    PROVE  IInv'
<1>1. /\ current = c /\ current' = NONE
      /\ state[c] \in {"WRITE_RESPONSE", "WRITE_SIZE", "ERROR"}
      /\ c \in gone \/ ~(room[c] > 0)
      /\ UNCHANGED <<asked, arrived, fin, gone, room, dir, content, file_list>>
      /\ UNCHANGED <<state, request, taken, readsz, datasz, filesize, disturbed, stopped>>
      /\ UNCHANGED <<writesz, filefd, offset, status, got, opened>>
      /\ buf' = buf \/ \E b : buf' = [buf EXCEPT ![c] = b]
  BY DEF CannotWrite, CanWrite, Handling, BackToLoop, sockets, files, reading
<1>2. Shape /\ FilesHold /\ JobHolds(c)
  BY DEF IInv
<1>3. Only(buf, buf', c)
  <2>1. buf = [d \in Clients |-> buf[d]]
    BY <1>2 DEF Shape
  <2> QED
    BY <1>1, <2>1, OnlyMaybe
<1>4. OnlyJob(c)
  BY <1>1, <1>2, <1>3, OnlyOne DEF OnlyJob, Shape
<1>5. Job(c)'
  BY <1>1, <1>2 DEF JobHolds, Job, Untouched
<1>6. PutJob(c)'
  <2>1. state[c] = "WRITE_RESPONSE" => room[c] = WINDOW
    BY <1>2 DEF JobHolds, Job
  <2>2. state[c] = "WRITE_RESPONSE" => c \in gone
    BY <1>1, <2>1, Widths
  <2>3. current' # c
    BY <1>1, Widths
  <2> QED
    BY <1>1, <1>2, <2>2, <2>3 DEF JobHolds, PutJob
<1>7. GetJob(c)'
  BY <1>1, <1>2 DEF JobHolds, GetJob, Untouched, FileKept, Of
<1> QED
  BY <1>1, <1>2, <1>4, <1>5, <1>6, <1>7, QuietStep DEF FilesHold, JobHolds

LEMMA write_responseStep ==
    ASSUME IInv, NEW c \in Clients, write_response(c)
    PROVE  IInv'
<1>1. /\ current = c /\ current' \in {NONE, c} /\ state[c] = "WRITE_RESPONSE" /\ room[c] > 0
      /\ room' = [room EXCEPT ![c] = room[c] - 1]
      /\ status' = [status EXCEPT ![c] = "OK"]
      /\ IF request[c] \in {"LIST", "GET"} THEN state' = [state EXCEPT ![c] = "WRITE_SIZE"]
         ELSE state' = [state EXCEPT ![c] = "DONE"]
      /\ UNCHANGED <<asked, arrived, fin, gone, dir, content, file_list>>
      /\ UNCHANGED <<request, taken, readsz, datasz, filesize, disturbed, stopped>>
      /\ UNCHANGED <<writesz, buf, filefd, offset, got, opened>>
  BY DEF write_response, CanWrite, Handling, Spend, Say, Move, Continue, Finish, BackToLoop,
         files, reading
<1>2. Shape /\ FilesHold /\ JobHolds(c)
  BY DEF IInv
<1>3. /\ Only(room, room', c) /\ Only(status, status', c) /\ Only(state, state', c)
      /\ room'[c] = room[c] - 1
      /\ state'[c] = IF request[c] \in {"LIST", "GET"} THEN "WRITE_SIZE" ELSE "DONE"
  <2>1. /\ state = [d \in Clients |-> state[d]] /\ room = [d \in Clients |-> room[d]]
        /\ status = [d \in Clients |-> status[d]]
    BY <1>2 DEF Shape
  <2>2. Only(state, state', c)
    BY <1>1, <2>1, OnlyMaybe
  <2>3. Only(room, room', c) /\ Only(status, status', c) /\ room'[c] = room[c] - 1
    BY <1>1, <2>1, OnlyOne
  <2>4. state'[c] = IF request[c] \in {"LIST", "GET"} THEN "WRITE_SIZE" ELSE "DONE"
    BY <1>1, <2>1
  <2> QED
    BY <2>2, <2>3, <2>4
<1>4. OnlyJob(c)
  BY <1>1, <1>2, <1>3, OnlyOne DEF OnlyJob, Shape
<1>5. Job(c)' /\ PutJob(c)'
  BY <1>1, <1>2, <1>3 DEF JobHolds, Job, PutJob, Untouched
<1>6. GetJob(c)'
  <2>1. room[c] \in Nat => room'[c] \in Nat
    BY <1>1, <1>3
  <2> QED
    BY <1>1, <1>2, <1>3, <2>1 DEF JobHolds, GetJob, Untouched, FileKept, Of
<1> QED
  BY <1>1, <1>2, <1>4, <1>5, <1>6, QuietStep DEF FilesHold, JobHolds

LEMMA write_errStep ==
    ASSUME IInv, NEW c \in Clients, write_err(c)
    PROVE  IInv'
<1>1. /\ current = c /\ current' \in {NONE, c} /\ state[c] = "ERROR"
      /\ room' = [room EXCEPT ![c] = room[c] - 1]
      /\ status' = [status EXCEPT ![c] = "ERROR"]
      /\ state' = [state EXCEPT ![c] = "DONE"]
      /\ UNCHANGED <<asked, arrived, fin, gone, dir, content, file_list>>
      /\ UNCHANGED <<request, taken, readsz, datasz, filesize, disturbed, stopped>>
      /\ UNCHANGED <<writesz, buf, filefd, offset, got, opened>>
  BY DEF write_err, Handling, Spend, Say, Move, Finish, BackToLoop, files, reading
<1>2. Shape /\ FilesHold /\ JobHolds(c)
  BY DEF IInv
<1>3. /\ Only(room, room', c) /\ Only(status, status', c) /\ Only(state, state', c)
      /\ status'[c] = "ERROR" /\ state'[c] = "DONE"
  BY <1>1, <1>2, OnlyOne DEF Shape
<1>4. OnlyJob(c)
  BY <1>1, <1>2, <1>3, OnlyOne DEF OnlyJob, Shape
<1>5. JobHolds(c)'
  BY <1>1, <1>2, <1>3 DEF JobHolds, Job, PutJob, GetJob, Untouched
<1> QED
  BY <1>1, <1>2, <1>4, <1>5, QuietStep DEF FilesHold

LEMMA write_sizeStep ==
    ASSUME IInv, NEW c \in Clients, write_size(c)
    PROVE  IInv'
<1>1. /\ current = c /\ current' \in {NONE, c} /\ state[c] = "WRITE_SIZE" /\ room[c] > 0
      /\ room' = [room EXCEPT ![c] = room[c] - 1]
      /\ IF filesize[c] = 0 THEN state' = [state EXCEPT ![c] = "DONE"]
         ELSE state' = [state EXCEPT ![c] = "WRITE_DATA"]
      /\ UNCHANGED <<asked, arrived, fin, gone, dir, content, file_list>>
      /\ UNCHANGED <<request, taken, readsz, datasz, filesize, disturbed, stopped>>
      /\ UNCHANGED <<writesz, buf, filefd, offset, status, got, opened>>
  BY DEF write_size, CanWrite, Handling, Spend, Move, Continue, Finish, BackToLoop,
         files, reading, writing
<1>2. Shape /\ FilesHold /\ JobHolds(c)
  BY DEF IInv
<1>3. /\ Only(room, room', c) /\ Only(state, state', c) /\ room'[c] = room[c] - 1
      /\ state'[c] = IF filesize[c] = 0 THEN "DONE" ELSE "WRITE_DATA"
  <2>1. state = [d \in Clients |-> state[d]] /\ room = [d \in Clients |-> room[d]]
    BY <1>2 DEF Shape
  <2>2. Only(state, state', c)
    BY <1>1, <2>1, OnlyMaybe
  <2>3. Only(room, room', c) /\ room'[c] = room[c] - 1
    BY <1>1, <2>1, OnlyOne
  <2>4. state'[c] = IF filesize[c] = 0 THEN "DONE" ELSE "WRITE_DATA"
    BY <1>1, <2>1
  <2> QED
    BY <2>2, <2>3, <2>4
<1>4. OnlyJob(c)
  BY <1>1, <1>2, <1>3, OnlyOne DEF OnlyJob, Shape
<1>5. Job(c)' /\ PutJob(c)'
  BY <1>1, <1>2, <1>3 DEF JobHolds, Job, PutJob, Untouched
<1>6. GetJob(c)'
  <2> SUFFICES ASSUME request[c] = "GET", c \notin disturbed PROVE GetJob(c)'
    BY <1>1 DEF GetJob
  <2>1. /\ opened[c] \in Seq(Unit) /\ filesize[c] = Len(opened[c]) /\ room[c] \in Nat
        /\ filesize[c] # 0 => FileKept(c)
        /\ datasz[c] = 0 /\ writesz[c] = 0 /\ offset[c] = 0 /\ got[c] = <<>>
    BY <1>1, <1>2 DEF JobHolds, GetJob, Untouched
  <2>2. room'[c] \in Nat
    BY <1>1, <1>3, <2>1
  <2>3. FileKept(c) => FileKept(c)'
    BY <1>1 DEF FileKept, Of
  <2>4. Delivered(c)'
    <3>1. 0 \in 0..Len(opened[c]) /\ SubSeq(opened[c], 1, 0) = <<>>
      BY <2>1
    <3> QED
      BY <1>1, <2>1, <3>1 DEF Delivered, Sent
  <2>5. filesize[c] = 0 => got[c] = opened[c]
    BY <2>1, EmptySeq
  <2> QED
    BY <1>1, <1>3, <2>1, <2>2, <2>3, <2>4, <2>5 DEF GetJob
<1> QED
  BY <1>1, <1>2, <1>4, <1>5, <1>6, QuietStep DEF FilesHold, JobHolds

-----------------------------------------------------------------------------
(* One round of the loop that sends a file. *)

(* A new buffer b with the units after off, of which n are sent. *)
LEMMA FreshRound ==
    ASSUME NEW o \in Seq(Unit), NEW count, NEW off, NEW sent, NEW old,
           Sent(o, count, 0, off, sent, old),
           NEW e \in Nat, off <= e, e <= Len(o),
           NEW b, b = SubSeq(o, off + 1, e),
           NEW n \in Nat, n <= Len(b)
    PROVE  /\ Len(b) \in Nat
           /\ n < Len(b) => Sent(o, count, n, e, sent \o SubSeq(b, 1, n), b)
           /\ n = Len(b) => Sent(o, count + Len(b), 0, e, sent \o SubSeq(b, 1, n), b)
<1>1. /\ count \in Nat /\ off \in Nat /\ Len(o) \in Nat /\ off >= count
      /\ off > count \/ (off = count /\ sent = SubSeq(o, 1, count))
  BY LenProperties DEF Sent
<1>2. Len(b) = e - off /\ e - off \in Nat
  BY <1>1, PieceOf
<1>3. CASE off > count
  <2>1. e > count + Len(b) /\ (n < Len(b) /\ n = 0 => e > count)
    BY <1>1, <1>2, <1>3
  <2> QED
    BY <1>1, <1>2, <2>1 DEF Sent
<1>4. CASE off = count
  <2>1. SubSeq(b, 1, n) = SubSeq(o, count + 1, count + n)
    <3>1. SubSeq(b, 0 + 1, 0 + n) = SubSeq(o, (count + 0) + 1, count + (0 + n))
      BY <1>1, <1>2, <1>4, PieceOfPiece
    <3>2. 0 + 1 = 1 /\ 0 + n = n /\ (count + 0) + 1 = count + 1 /\ count + (0 + n) = count + n
      BY <1>1
    <3> QED
      BY <3>1, <3>2
  <2>2. sent \o SubSeq(b, 1, n) = SubSeq(o, 1, count + n)
    <3>1. count + n \in Nat /\ count <= count + n /\ count + n <= Len(o)
      BY <1>1, <1>2, <1>4
    <3>2. sent = SubSeq(o, 1, count)
      BY <1>1, <1>4
    <3> QED
      BY <1>1, <2>1, <3>1, <3>2, PiecesJoin, ZenonT(60)
  <2>3. n < Len(b) => Sent(o, count, n, e, sent \o SubSeq(b, 1, n), b)
    <3>1. e = count + Len(b) /\ b = SubSeq(o, count + 1, e)
      BY <1>1, <1>2, <1>4
    <3>2. n < Len(b) /\ n = 0 => e > count
      BY <1>1, <1>2, <1>4
    <3>3. e \in 0..Len(o)
      BY <1>1
    <3>4. CASE n = 0
      BY <1>1, <3>2, <3>3, <3>4 DEF Sent
    <3>5. CASE n # 0
      BY <1>1, <1>2, <2>2, <3>1, <3>3, <3>5 DEF Sent
    <3> QED
      BY <3>4, <3>5
  <2>4. n = Len(b) => Sent(o, count + Len(b), 0, e, sent \o SubSeq(b, 1, n), b)
    <3>1. e = count + Len(b) /\ count + Len(b) \in Nat /\ e \in 0..Len(o)
      BY <1>1, <1>2, <1>4
    <3> QED
      BY <1>1, <1>2, <2>2, <3>1 DEF Sent
  <2> QED
    BY <1>2, <2>3, <2>4
<1> QED
  BY <1>1, <1>3, <1>4

(* A buffer of which some units are sent already, and now n more. *)
LEMMA NextRound ==
    ASSUME NEW o \in Seq(Unit), NEW count, NEW done, NEW off, NEW sent, NEW b,
           Sent(o, count, done, off, sent, b), done # 0,
           NEW n \in Nat, n <= Len(b) - done
    PROVE  /\ Len(b) - done \in Nat
           /\ n < Len(b) - done =>
                Sent(o, count, done + n, off, sent \o SubSeq(b, done + 1, done + n), b)
           /\ n = Len(b) - done =>
                Sent(o, count + Len(b), 0, off, sent \o SubSeq(b, done + 1, done + n), b)
<1>1. /\ count \in Nat /\ done \in Nat /\ off \in Nat /\ off <= Len(o) /\ Len(o) \in Nat
      /\ Len(b) \in Nat /\ done < Len(b)
      /\ \/ off > count + Len(b)
         \/ /\ off = count + Len(b) /\ b = SubSeq(o, count + 1, off)
            /\ sent = SubSeq(o, 1, count + done)
  BY LenProperties DEF Sent
<1>2. CASE off > count + Len(b)
  <2>1. done + n \in Nat /\ done + n # 0 /\ count + Len(b) \in Nat /\ off \in 0..Len(o)
    BY <1>1
  <2>2. n < Len(b) - done => done + n < Len(b)
    BY <1>1
  <2> QED
    BY <1>1, <1>2, <2>1, <2>2 DEF Sent
<1>3. CASE /\ off = count + Len(b) /\ b = SubSeq(o, count + 1, off)
           /\ sent = SubSeq(o, 1, count + done)
  <2>1. SubSeq(b, done + 1, done + n) = SubSeq(o, (count + done) + 1, count + (done + n))
    <3>1. count <= off /\ done + n <= off - count
      BY <1>1, <1>3
    <3> QED
      BY <1>1, <1>3, <3>1, PieceOfPiece
  <2>2. sent \o SubSeq(b, done + 1, done + n) = SubSeq(o, 1, count + (done + n))
    <3>1. /\ count + done \in Nat /\ count + (done + n) \in Nat
          /\ count + done <= count + (done + n) /\ count + (done + n) <= Len(o)
      BY <1>1, <1>3
    <3> QED
      BY <1>3, <2>1, <3>1, PiecesJoin
  <2>3. done + n \in Nat /\ done + n # 0 /\ count + Len(b) \in Nat /\ off \in 0..Len(o)
    BY <1>1
  <2>4. n < Len(b) - done =>
          Sent(o, count, done + n, off, sent \o SubSeq(b, done + 1, done + n), b)
    <3>1. n < Len(b) - done => done + n < Len(b)
      BY <1>1
    <3> QED
      BY <1>1, <1>3, <2>2, <2>3, <3>1 DEF Sent
  <2>5. n = Len(b) - done =>
          Sent(o, count + Len(b), 0, off, sent \o SubSeq(b, done + 1, done + n), b)
    <3>1. n = Len(b) - done => count + (done + n) = count + Len(b)
      BY <1>1
    <3> QED
      BY <1>1, <1>3, <2>2, <2>3, <3>1 DEF Sent
  <2> QED
    BY <1>1, <2>4, <2>5
<1> QED
  BY <1>1, <1>2, <1>3

(* When all units are counted, all were sent. *)
LEMMA AllSent ==
    ASSUME NEW o \in Seq(Unit), NEW count, NEW off, NEW sent, NEW b,
           Sent(o, count, 0, off, sent, b), count >= Len(o)
    PROVE  sent = o
<1>1. /\ count \in Nat /\ off \in Nat /\ off <= Len(o) /\ Len(o) \in Nat
      /\ off > count \/ (off = count /\ sent = SubSeq(o, 1, count))
  BY LenProperties DEF Sent
<1>2. count = Len(o) /\ sent = SubSeq(o, 1, Len(o))
  BY <1>1
<1>3. SubSeq(o, 1, Len(o)) \in Seq(Unit) /\ Len(SubSeq(o, 1, Len(o))) = Len(o)
      /\ \A i \in 1..Len(o) : SubSeq(o, 1, Len(o))[i] = o[i]
  <2>1. 0 + 1 = 1 /\ Len(o) - 0 = Len(o) /\ 0 <= Len(o) /\ \A i \in 1..Len(o) : 0 + i = i
    BY <1>1
  <2>2. /\ SubSeq(o, 0 + 1, Len(o)) \in Seq(Unit) /\ Len(SubSeq(o, 0 + 1, Len(o))) = Len(o) - 0
        /\ \A i \in 1..Len(o) - 0 : SubSeq(o, 0 + 1, Len(o))[i] = o[0 + i]
    BY <1>1, PieceOf
  <2> QED
    BY <2>1, <2>2
<1> QED
  BY <1>2, <1>3, SeqEqual

(* What WriteData does to its job: b is its buffer, of which n are sent.   *)
Round(c, b, n) ==
    /\ n = IF c \in gone THEN 0 ELSE Min({room[c], Len(b) - writesz[c]})
    /\ room' = [room EXCEPT ![c] = room[c] - n]
    /\ got' = [got EXCEPT ![c] = got[c] \o SubSeq(b, writesz[c] + 1, writesz[c] + n)]
    /\ offset' = [offset EXCEPT ![c] =
                     IF request[c] = "GET" /\ writesz[c] = 0 THEN offset[c] + Len(b) ELSE offset[c]]
    /\ \/ /\ n < Len(b) - writesz[c]
          /\ writesz' = [writesz EXCEPT ![c] = writesz[c] + n]
          /\ buf' = [buf EXCEPT ![c] = IF request[c] = "LIST" THEN Lost ELSE b]
          /\ current' = NONE /\ UNCHANGED <<state, datasz>>
       \/ /\ ~(n < Len(b) - writesz[c])
          /\ datasz' = [datasz EXCEPT ![c] = datasz[c] + Len(b)]
          /\ writesz' = [writesz EXCEPT ![c] = 0]
          /\ buf' = [buf EXCEPT ![c] = b]
          /\ \/ /\ datasz'[c] >= filesize[c]
                /\ state' = [state EXCEPT ![c] = "DONE"] /\ current' = NONE
             \/ ~(datasz'[c] >= filesize[c]) /\ UNCHANGED <<state, current>>

LEMMA WriteDataIs ==
    ASSUME NEW c \in Clients, WriteData(c)
    PROVE  /\ current = c /\ state[c] = "WRITE_DATA"
           /\ \E n : Round(c, Refill(c), n)
           /\ UNCHANGED <<asked, arrived, fin, gone, dir, content, file_list>>
           /\ UNCHANGED <<request, taken, readsz, filesize, disturbed, stopped>>
           /\ UNCHANGED <<filefd, status, opened>>
<1>1. PICK b, n : /\ b = Refill(c)
                  /\ n = IF c \in gone THEN 0 ELSE Min({room[c], Len(b) - writesz[c]})
  OBVIOUS
<1>2. Round(c, b, n)
  BY <1>1 DEF WriteData, Round, Spend, Finish, Move, BackToLoop, Continue
<1> QED
  BY <1>1, <1>2 DEF WriteData, Handling, files

LEMMA WriteDataStep ==
    ASSUME IInv, NEW c \in Clients, WriteData(c)
    PROVE  IInv'
<1>1. /\ current = c /\ state[c] = "WRITE_DATA"
      /\ UNCHANGED <<asked, arrived, fin, gone, dir, content, file_list>>
      /\ UNCHANGED <<request, taken, readsz, filesize, disturbed, stopped>>
      /\ UNCHANGED <<filefd, status, opened>>
  BY WriteDataIs
<1>2. PICK b, n : b = Refill(c) /\ Round(c, b, n)
  BY WriteDataIs
<1>3. Shape /\ FilesHold /\ JobHolds(c)
  BY DEF IInv
<1>4. /\ state = [d \in Clients |-> state[d]] /\ datasz = [d \in Clients |-> datasz[d]]
      /\ writesz = [d \in Clients |-> writesz[d]] /\ buf = [d \in Clients |-> buf[d]]
      /\ offset = [d \in Clients |-> offset[d]] /\ room = [d \in Clients |-> room[d]]
      /\ got = [d \in Clients |-> got[d]]
  BY <1>3 DEF Shape
<1>5. OnlyJob(c)
  <2>1. Only(state, state', c)
    BY <1>2, <1>4, OnlyMaybe DEF Round
  <2>2. Only(datasz, datasz', c)
    BY <1>2, <1>4, OnlyMaybe DEF Round
  <2>3. Only(writesz, writesz', c)
    BY <1>2, <1>4, OnlyMaybe DEF Round
  <2>4. Only(buf, buf', c)
    BY <1>2, <1>4, OnlyMaybe DEF Round
  <2>5. Only(offset, offset', c)
    BY <1>2, <1>4, OnlyMaybe DEF Round
  <2>6. Only(room, room', c)
    BY <1>2, <1>4, OnlyMaybe DEF Round
  <2>7. Only(got, got', c)
    BY <1>2, <1>4, OnlyMaybe DEF Round
  <2> QED
    BY <1>1, <1>3, <2>1, <2>2, <2>3, <2>4, <2>5, <2>6, <2>7, OnlyOne DEF OnlyJob, Shape
<1>6. state'[c] \in {"WRITE_DATA", "DONE"} /\ current' \in {NONE, c}
  BY <1>1, <1>2, <1>4 DEF Round
<1>7. request[c] \in {"LIST", "GET"}
  BY <1>1, <1>3 DEF JobHolds, Job
<1>8. Job(c)' /\ PutJob(c)'
  BY <1>1, <1>3, <1>6, <1>7 DEF JobHolds, Job, PutJob
<1>9. GetJob(c)'
  <2> SUFFICES ASSUME request[c] = "GET", c \notin disturbed PROVE GetJob(c)'
    BY <1>1 DEF GetJob
  <2>1. /\ opened[c] \in Seq(Unit) /\ filesize[c] = Len(opened[c]) /\ room[c] \in Nat
        /\ filesize[c] # 0 /\ FileKept(c) /\ Delivered(c)
    BY <1>1, <1>3 DEF JobHolds, GetJob
  <2>2. FileKept(c)'
    BY <1>1, <2>1 DEF FileKept, Of
  <2>3. PICK o, r, count, done, off, sent, old :
          /\ o \in Seq(Unit) /\ r \in Nat /\ o = opened[c] /\ count = datasz[c] /\ done = writesz[c] /\ off = offset[c]
          /\ sent = got[c] /\ old = buf[c] /\ r = room[c]
    BY <2>1
  <2>4. Sent(o, count, done, off, sent, old) /\ content[filefd[c]] = o
    BY <2>1, <2>3 DEF Delivered, FileKept
  <2>5. /\ count \in Nat /\ done \in Nat /\ off \in Nat /\ off <= Len(o) /\ Len(o) \in Nat
    BY <2>3, <2>4, LenProperties DEF Sent
  <2>6. ASSUME NEW left \in Nat, left = Len(b) - done
        PROVE  n \in Nat /\ n <= left /\ n <= r
    <3>1. n = IF c \in gone THEN 0 ELSE Min({r, left})
      BY <1>2, <2>3, <2>6 DEF Round
    <3>2. n = 0 \/ n = Min({r, left})
      BY <3>1
    <3>3. r \in Nat
      BY <2>3
    <3>4. Min({r, left}) = IF r <= left THEN r ELSE left
      BY <3>3, <2>6, MinOfTwo
    <3>5. Min({r, left}) \in Nat /\ Min({r, left}) <= left /\ Min({r, left}) <= r
      BY <3>3, <3>4, <2>6
    <3>6. 0 <= left /\ 0 <= r
      BY <3>3, <2>6
    <3>7. CASE n = 0
      BY <3>6, <3>7
    <3>8. CASE n = Min({r, left})
      BY <3>5, <3>8
    <3> QED
      BY <3>2, <3>7, <3>8
  <2>7. /\ n < Len(b) - done \/ ~(n < Len(b) - done)
        /\ room'[c] = r - n
        /\ got'[c] = sent \o SubSeq(b, done + 1, done + n)
        /\ offset'[c] = IF done = 0 THEN off + Len(b) ELSE off
    BY <1>2, <1>4, <2>3 DEF Round
  <2>8. CASE n < Len(b) - done
    <3>1. state'[c] = "WRITE_DATA" /\ datasz'[c] = count /\ writesz'[c] = done + n /\ buf'[c] = b
      BY <1>1, <1>2, <1>4, <2>3, <2>8 DEF Round
    <3>2. room'[c] \in Nat /\ Sent(o, count, done + n, offset'[c], got'[c], b)
      <4>1. CASE done = 0
        <5>1. PICK e \in Nat : e = Min({off + CHUNK, Len(o)}) /\ off <= e /\ e <= Len(o)
          <6>1. off + CHUNK \in Nat /\ off <= off + CHUNK
            BY <2>5, Widths
          <6>2. Min({off + CHUNK, Len(o)}) = IF off + CHUNK <= Len(o) THEN off + CHUNK ELSE Len(o)
            BY <2>5, <6>1, MinOfTwo
          <6> QED
            BY <2>5, <6>1, <6>2
        <5>2. b = SubSeq(o, off + 1, e)
          BY <1>2, <2>3, <2>4, <4>1, <5>1 DEF Refill
        <5>3. Len(b) = e - off
          BY <2>3, <2>5, <5>1, <5>2, PieceOf
        <5>4. n \in Nat /\ n <= Len(b) /\ n <= r
          <6>1. Len(b) \in Nat /\ Len(b) = Len(b) - done
            BY <2>5, <4>1, <5>1, <5>3
          <6> QED
            BY <2>6, <6>1
        <5>5. Sent(o, count, n, e, sent \o SubSeq(b, 1, n), b)
          <6>1. n < Len(b)
            BY <2>8, <4>1, <5>3, <5>4
          <6>2. Sent(o, count, 0, off, sent, old)
            BY <2>4, <4>1
          <6> QED
            BY <2>3, <5>1, <5>2, <5>4, <6>1, <6>2, FreshRound
        <5>6. 0 + 1 = 1 /\ 0 + n = n /\ off + Len(b) = e
          BY <2>5, <5>1, <5>3, <5>4
        <5>7. offset'[c] = e /\ got'[c] = sent \o SubSeq(b, 1, n) /\ done + n = n
          BY <2>7, <4>1, <5>6
        <5>8. room'[c] \in Nat
          BY <2>3, <2>7, <5>4
        <5> QED
          BY <5>5, <5>7, <5>8
      <4>2. CASE done # 0
        <5>1. b = old
          BY <1>2, <2>3, <4>2 DEF Refill
        <5>2. Len(b) - done \in Nat
          BY <2>4, <2>5, <4>2, <5>1 DEF Sent
        <5>3. n \in Nat /\ n <= Len(b) - done /\ n <= r
          BY <2>6, <5>2
        <5>4. Sent(o, count, done + n, off, sent \o SubSeq(b, done + 1, done + n), b)
          BY <2>3, <2>4, <2>8, <4>2, <5>1, <5>3, NextRound
        <5>5. offset'[c] = off
          BY <2>7, <4>2
        <5> QED
          BY <2>3, <2>7, <5>3, <5>4, <5>5, SMTT(60)
      <4> QED
        BY <4>1, <4>2
    <3>3. Delivered(c)'
      BY <1>1, <2>3, <3>1, <3>2 DEF Delivered
    <3> QED
      BY <1>1, <2>1, <2>2, <3>1, <3>2, <3>3 DEF GetJob
  <2>9. CASE ~(n < Len(b) - done)
    <3>1. /\ datasz'[c] = count + Len(b) /\ writesz'[c] = 0 /\ buf'[c] = b
          /\ IF datasz'[c] >= filesize[c] THEN state'[c] = "DONE" ELSE state'[c] = "WRITE_DATA"
      BY <1>1, <1>2, <1>4, <2>3, <2>9 DEF Round
    <3>2. room'[c] \in Nat /\ Sent(o, count + Len(b), 0, offset'[c], got'[c], b)
      <4>1. CASE done = 0
        <5>1. PICK e \in Nat : e = Min({off + CHUNK, Len(o)}) /\ off <= e /\ e <= Len(o)
          <6>1. off + CHUNK \in Nat /\ off <= off + CHUNK
            BY <2>5, Widths
          <6>2. Min({off + CHUNK, Len(o)}) = IF off + CHUNK <= Len(o) THEN off + CHUNK ELSE Len(o)
            BY <2>5, <6>1, MinOfTwo
          <6> QED
            BY <2>5, <6>1, <6>2
        <5>2. b = SubSeq(o, off + 1, e)
          BY <1>2, <2>3, <2>4, <4>1, <5>1 DEF Refill
        <5>3. Len(b) = e - off
          BY <2>3, <2>5, <5>1, <5>2, PieceOf
        <5>4. n \in Nat /\ n <= Len(b) /\ n <= r
          <6>1. Len(b) \in Nat /\ Len(b) = Len(b) - done
            BY <2>5, <4>1, <5>1, <5>3
          <6> QED
            BY <2>6, <6>1
        <5>5. Sent(o, count + Len(b), 0, e, sent \o SubSeq(b, 1, n), b)
          <6>1. n = Len(b)
            BY <2>5, <2>9, <4>1, <5>1, <5>3, <5>4
          <6>2. Sent(o, count, 0, off, sent, old)
            BY <2>4, <4>1
          <6> QED
            BY <2>3, <5>1, <5>2, <5>4, <6>1, <6>2, FreshRound, ZenonT(60)
        <5>6. 0 + 1 = 1 /\ 0 + n = n /\ off + Len(b) = e
          BY <2>5, <5>1, <5>3, <5>4
        <5>7. offset'[c] = e /\ got'[c] = sent \o SubSeq(b, 1, n)
          BY <2>7, <4>1, <5>6
        <5>8. room'[c] \in Nat
          BY <2>3, <2>7, <5>4
        <5> QED
          BY <5>5, <5>7, <5>8
      <4>2. CASE done # 0
        <5>1. b = old
          BY <1>2, <2>3, <4>2 DEF Refill
        <5>2. Len(b) - done \in Nat
          BY <2>4, <2>5, <4>2, <5>1 DEF Sent
        <5>3. n \in Nat /\ n <= Len(b) - done /\ n <= r
          BY <2>6, <5>2
        <5>4. Sent(o, count + Len(b), 0, off, sent \o SubSeq(b, done + 1, done + n), b)
          <6>1. n = Len(b) - done
            BY <2>9, <5>2, <5>3
          <6> QED
            BY <2>3, <2>4, <4>2, <5>1, <5>3, <6>1, NextRound
        <5>5. offset'[c] = off
          BY <2>7, <4>2
        <5> QED
          BY <2>3, <2>7, <5>3, <5>4, <5>5
      <4> QED
        BY <4>1, <4>2
    <3>3. Delivered(c)'
      BY <1>1, <2>3, <3>1, <3>2 DEF Delivered
    <3>4. datasz'[c] >= filesize[c] => got'[c] = opened'[c]
      BY <1>1, <2>1, <2>3, <3>1, <3>2, AllSent
    <3> QED
      BY <1>1, <2>1, <2>2, <3>1, <3>2, <3>3, <3>4 DEF GetJob
  <2> QED
    BY <2>8, <2>9
<1> QED
  BY <1>1, <1>3, <1>5, <1>6, <1>8, <1>9, QuietStep DEF FilesHold, JobHolds

-----------------------------------------------------------------------------
(* The steps that change the directory. *)

(* After the loop no PUT goes on, and open files stay what they are. *)
LEMMA CleanupStep ==
    ASSUME IInv, Cleanup
    PROVE  IInv'
<1>1. /\ current = NONE /\ stopped' = TRUE /\ dir' = [n \in Names |-> NONE] /\ file_list' = <<>>
      /\ UNCHANGED <<asked, arrived, fin, gone, room, ready, current, content, state, disturbed>>
      /\ UNCHANGED <<request, taken, readsz, datasz, filesize>>
      /\ UNCHANGED <<writesz, buf, filefd, offset, status, got, opened>>
  BY DEF Cleanup, sockets, loop, reading, writing
<1>2. Shape /\ FilesHold /\ \A d \in Clients : JobHolds(d)
  BY DEF IInv
<1>3. Shape'
  BY <1>1, <1>2 DEF Shape
<1>4. FilesHold'
  <2>1. content' \in [Inodes -> Seq(Unit)] /\ file_list' \in Seq(Names)
    BY <1>1, <1>2, EmptySeq DEF FilesHold
  <2> QED
    BY <1>1, <2>1 DEF FilesHold
<1>5. ASSUME NEW d \in Clients PROVE JobHolds(d)'
  <2>1. arrived[d] \in Nat /\ current # d
    BY <1>1, <1>2, Widths DEF JobHolds, Job
  <2>2. Kept(d)
    BY <1>1, <2>1 DEF Kept
  <2>3. FileKept(d) => FileKept(d)'
    <3>1. \A n \in Names : dir'[n] \notin Inodes
      BY <1>1, Widths
    <3> QED
      BY <1>1, <3>1 DEF FileKept, Of
  <2>4. FileLeft(d)
    BY <1>1, <2>1, <2>3 DEF FileLeft
  <2> QED
    BY <2>2, <2>4, JobKept
<1> QED
  BY <1>3, <1>4, <1>5 DEF IInv

LEMMA DeleteServeStep ==
    ASSUME IInv, NEW c \in Clients, DeleteServe(c)
    PROVE  IInv'
<1>1. /\ current = c /\ state[c] = "SERVING" /\ request[c] = "DELETE" /\ current' = current
      /\ dir' = [dir EXCEPT ![Of(c)] = NONE] /\ state' = [state EXCEPT ![c] = "WRITE_RESPONSE"]
      /\ disturbed' = disturbed \union {d \in Users(c, Of(c)) : request[d] = "PUT"}
      /\ UNCHANGED <<asked, arrived, fin, gone, room, content, stopped>>
      /\ UNCHANGED <<request, taken, readsz, datasz, filesize>>
      /\ UNCHANGED <<writesz, buf, filefd, offset, status, got, opened>>
      /\ \/ \E i \in DOMAIN file_list : file_list' = RemoveAt(file_list, i)
         \/ UNCHANGED file_list
  BY DEF DeleteServe, Serving, Handling, Move, Continue, sockets, reading, writing
<1>2. Shape /\ FilesHold /\ JobHolds(c) /\ Of(c) \in Names
  BY DEF IInv, Shape, Of, Request
<1>3. OnlyJob(c) /\ state'[c] = "WRITE_RESPONSE"
  BY <1>1, <1>2, OnlyOne DEF OnlyJob, Shape
<1>4. JobHolds(c)'
  BY <1>1, <1>2, <1>3 DEF JobHolds, Job, PutJob, GetJob, Untouched
<1>5. \A n \in Names : dir'[n] = IF n = Of(c) THEN NONE ELSE dir[n]
  BY <1>1, <1>2 DEF FilesHold
<1>6. FilesHold'
  <2>1. dir' \in [Names -> Inodes \union {NONE}]
    BY <1>1, <1>2 DEF FilesHold
  <2>2. \A m, n \in Names : dir'[m] # NONE /\ dir'[m] = dir'[n] => m = n
    BY <1>2, <1>5 DEF FilesHold
  <2>3. file_list' \in Seq(Names)
    <3>1. PICK f \in Seq(Names) : f = file_list
      BY <1>2 DEF FilesHold
    <3>2. ASSUME NEW i \in DOMAIN f PROVE RemoveAt(f, i) \in Seq(Names)
      <4>1. i \in 1..Len(f) /\ Len(f) \in Nat /\ \A j \in 1..Len(f) : f[j] \in Names
        BY <3>2, LenProperties, ElementOfSeq
      <4>2. SubSeq(f, 1, i - 1) \in Seq(Names) /\ SubSeq(f, i + 1, Len(f)) \in Seq(Names)
        BY <4>1, SubSeqProperties
      <4> QED
        BY <4>2, ConcatProperties DEF RemoveAt
    <3> QED
      BY <1>1, <3>1, <3>2
  <2> QED
    BY <1>1, <1>2, <2>1, <2>2, <2>3 DEF FilesHold
<1>7. ASSUME NEW d \in Clients \ {c}, Kept(d) PROVE FileLeft(d)
  <2>1. Of(d) \in Names
    BY <1>2 DEF Shape, Of, Request
  <2>2. ASSUME request[d] = "PUT", state[d] = "READ_DATA", d \notin disturbed'
        PROVE  Of(d) # Of(c)
    BY <1>1, <2>2 DEF Users
  <2>3. ASSUME request[d] = "PUT", state[d] = "READ_DATA", d \notin disturbed', NEW n \in Nat,
               HasUnits(d, n)
        PROVE  HasUnits(d, n)'
    <3>1. dir'[Of(d)] = dir[Of(d)] /\ Of(d)' = Of(d)
      BY <1>1, <1>5, <2>1, <2>2, <2>3 DEF Of
    <3> QED
      BY <1>1, <2>3, <3>1 DEF HasUnits
  <2>4. FileKept(d) => FileKept(d)'
    <3>1. \A n \in Names : dir'[n] \in Inodes => dir'[n] = dir[n]
      BY <1>5, Widths
    <3> QED
      BY <1>1, <3>1 DEF FileKept, Of
  <2> QED
    BY <1>1, <2>3, <2>4 DEF FileLeft
<1> QED
  BY <1>1, <1>3, <1>4, <1>6, <1>7, JobStep

(* The inode a PUT writes to has no other name; if it is new, it is empty. *)
LEMMA InodeIsOwn ==
    ASSUME FilesHold, NEW c \in Clients, Of(c) \in Names, dir[Of(c)] # NONE \/ FreeInodes # {}
    PROVE  /\ Inode(c) \in Inodes
           /\ \A n \in Names : dir[n] = Inode(c) => n = Of(c)
           /\ dir[Of(c)] # NONE => Inode(c) = dir[Of(c)]
           /\ dir[Of(c)] = NONE => content[Inode(c)] = <<>>
<1>1. CASE dir[Of(c)] # NONE
  BY <1>1 DEF Inode, FilesHold
<1>2. CASE dir[Of(c)] = NONE
  <2>1. Inode(c) \in FreeInodes
    BY <1>2 DEF Inode
  <2> QED
    BY <1>2, <2>1 DEF FreeInodes
<1> QED
  BY <1>1, <1>2

(* A chunk goes to the file of its own name: whoever else has that file in *)
(* use is disturbed, all other files stay.                                 *)
LEMMA PutChunkStep ==
    ASSUME IInv, ~stopped, NEW c \in Clients, PutChunk(c)
    PROVE  IInv'
<1>1. /\ current = c /\ current' = current /\ request[c] = "PUT"
      /\ state[c] \in {"SERVING", "READ_DATA"}
      /\ dir[Of(c)] # NONE \/ FreeInodes # {}
      /\ taken' = [taken EXCEPT ![c] = taken[c] + Readable(c)]
      /\ datasz' = [datasz EXCEPT ![c] = datasz[c] + Filled(c)]
      /\ readsz' = [readsz EXCEPT ![c] = 0]
      /\ disturbed' = (disturbed \ (IF state[c] = "SERVING" THEN {c} ELSE {})) \union Users(c, Of(c))
      /\ UNCHANGED <<asked, arrived, fin, gone, room, request, filesize, stopped>>
      /\ UNCHANGED <<writesz, buf, filefd, offset, status, got, opened>>
  BY DEF PutChunk, Putting, Handling, Continue, sockets, writing
<1>2. \/ /\ dir' = [dir EXCEPT ![Of(c)] = NONE]
         /\ content' = content \/ content' = Written(c, NewUnits(c))
         /\ state' = [state EXCEPT ![c] = "ERROR"] /\ UNCHANGED file_list
      \/ /\ dir' = [dir EXCEPT ![Of(c)] = Inode(c)] /\ content' = Written(c, NewUnits(c))
         /\ \/ /\ datasz'[c] = filesize[c] /\ ListName(c)
               /\ state' = [state EXCEPT ![c] = "WRITE_RESPONSE"]
            \/ state' = [state EXCEPT ![c] = "READ_DATA"] /\ UNCHANGED file_list
  BY DEF PutChunk, Move
<1>3. Shape /\ FilesHold /\ JobHolds(c) /\ Of(c) \in Names
  BY DEF IInv, Shape, Of, Request
<1>4. PICK i \in Inodes :
          /\ i = Inode(c) /\ \A n \in Names : dir[n] = i => n = Of(c)
          /\ dir[Of(c)] # NONE => i = dir[Of(c)]
          /\ dir[Of(c)] = NONE => content[i] = <<>>
  BY <1>1, <1>3, InodeIsOwn
<1>5. PICK k \in Nat, m \in Nat, u \in Seq(Unit) :
          /\ k = datasz[c] /\ m = Filled(c) /\ u = NewUnits(c) /\ u = Units(c, k + 1, k + m)
          /\ taken[c] + Readable(c) \in Nat /\ taken[c] + Readable(c) <= arrived[c]
  <2>1. datasz[c] \in Nat /\ Job(c)
    BY <1>1, <1>3 DEF JobHolds, PutJob
  <2>2. Filled(c) \in Nat /\ taken[c] + Readable(c) \in Nat /\ taken[c] + Readable(c) <= arrived[c]
    BY <2>1, ReadableFits
  <2>3. Units(c, datasz[c] + 1, datasz[c] + Filled(c)) \in Seq(Unit)
    BY <2>1, <2>2, UnitsJoin
  <2> QED
    BY <2>1, <2>2, <2>3 DEF NewUnits
<1>6. PICK w \in Seq(Unit) :
          /\ w = IF state[c] = "SERVING" THEN u ELSE content[i] \o u
          /\ Written(c, NewUnits(c)) = [content EXCEPT ![i] = w]
  <2>1. content[i] \in Seq(Unit)
    BY <1>3 DEF FilesHold
  <2>2. content[i] \o u \in Seq(Unit)
    BY <2>1, ConcatProperties
  <2> QED
    BY <1>4, <1>5, <2>2 DEF Written
<1>7. /\ content' \in [Inodes -> Seq(Unit)]
      /\ \A j \in Inodes : j # i => content'[j] = content[j]
      /\ content' = content \/ content'[i] = w
  <2>1. content' = content \/ content' = [content EXCEPT ![i] = w]
    BY <1>2, <1>6
  <2>2. content \in [Inodes -> Seq(Unit)]
    BY <1>3 DEF FilesHold
  <2> QED
    BY <2>1, <2>2
<1>8. /\ dir' \in [Names -> Inodes \union {NONE}]
      /\ \A n \in Names : n # Of(c) => dir'[n] = dir[n]
      /\ dir'[Of(c)] \in {NONE, i}
  BY <1>2, <1>3, <1>4 DEF FilesHold
<1>9. FilesHold'
  <2>1. \A a, b \in Names : dir'[a] # NONE /\ dir'[a] = dir'[b] => a = b
    BY <1>3, <1>4, <1>8 DEF FilesHold
  <2>2. file_list' \in Seq(Names)
    <3>1. file_list \in Seq(Names) /\ Append(file_list, Of(c)) \in Seq(Names)
      BY <1>3, AppendProperties DEF FilesHold
    <3>2. ListName(c) \/ file_list' = file_list
      BY <1>2
    <3> QED
      BY <3>1, <3>2 DEF ListName, Lists
  <2> QED
    BY <1>7, <1>8, <2>1, <2>2 DEF FilesHold
<1>10. /\ OnlyJob(c) /\ taken'[c] = taken[c] + Readable(c) /\ datasz'[c] = k + m /\ readsz'[c] = 0
       /\ state'[c] \in {"ERROR", "WRITE_RESPONSE", "READ_DATA"}
  <2>1. /\ state = [d \in Clients |-> state[d]] /\ taken = [d \in Clients |-> taken[d]]
        /\ datasz = [d \in Clients |-> datasz[d]] /\ readsz = [d \in Clients |-> readsz[d]]
    BY <1>3 DEF Shape
  <2>2. Only(state, state', c)
    BY <1>2, <2>1, OnlyMaybe
  <2>3. state'[c] \in {"ERROR", "WRITE_RESPONSE", "READ_DATA"}
    BY <1>2, <2>1
  <2>4. /\ Only(taken, taken', c) /\ Only(datasz, datasz', c) /\ Only(readsz, readsz', c)
        /\ taken'[c] = taken[c] + Readable(c) /\ datasz'[c] = k + m /\ readsz'[c] = 0
    BY <1>1, <1>5, <2>1, OnlyOne
  <2> QED
    BY <1>1, <1>3, <2>2, <2>3, <2>4, OnlyOne DEF OnlyJob, Shape
<1>11. Job(c)' /\ GetJob(c)'
  <2>1. room[c] = WINDOW /\ arrived[c] \in Nat
    BY <1>1, <1>3 DEF JobHolds, Job
  <2>2. /\ taken'[c] \in Nat /\ taken'[c] <= arrived[c] /\ readsz'[c] \in 0..CHUNK
    BY <1>5, <1>10, Widths
  <2> QED
    BY <1>1, <1>10, <2>1, <2>2 DEF Job, GetJob
<1>12. PutJob(c)'
  <2>1. ASSUME state'[c] # "ERROR", c \notin disturbed'
        PROVE  HasUnits(c, k + m)'
    <3>1. dir'[Of(c)] = i /\ content'[i] = w
      <4>1. dir' = [dir EXCEPT ![Of(c)] = i] /\ content' = [content EXCEPT ![i] = w]
        BY <1>2, <1>3, <1>4, <1>6, <2>1 DEF Shape
      <4> QED
        BY <1>3, <4>1 DEF FilesHold
    <3>2. w = Units(c, 1, k + m)
      <4>1. CASE state[c] = "SERVING"
        <5>1. k = 0
          BY <1>3, <1>5, <4>1 DEF JobHolds, Job, Untouched
        <5> QED
          BY <1>5, <1>6, <4>1, <5>1, UnitsJoin
      <4>2. CASE state[c] = "READ_DATA"
        <5>1. c \notin disturbed
          BY <1>1, <2>1, <4>2
        <5>2. dir[Of(c)] # NONE /\ content[dir[Of(c)]] = Units(c, 1, k)
          BY <1>1, <1>3, <1>5, <4>2, <5>1 DEF JobHolds, PutJob, HasUnits
        <5>3. w = Units(c, 1, k) \o Units(c, k + 1, k + m)
          BY <1>4, <1>5, <1>6, <4>2, <5>2
        <5> QED
          BY <5>3, UnitsJoin
      <4> QED
        BY <1>1, <4>1, <4>2
    <3>3. i # NONE /\ Of(c)' = Of(c)
      BY <1>1, Widths DEF Of
    <3> QED
      BY <3>1, <3>2, <3>3 DEF HasUnits
  <2>2. state'[c] = "WRITE_RESPONSE" => k + m = filesize'[c] /\ \E j \in DOMAIN file_list' : file_list'[j] = Of(c)
    <3>1. state'[c] = "WRITE_RESPONSE" => datasz'[c] = filesize[c] /\ ListName(c)
      BY <1>2, <1>3 DEF Shape
    <3>2. ListName(c) => \E j \in DOMAIN file_list' : file_list'[j] = Of(c)
      <4>1. PICK f \in Seq(Names), z \in Names : f = file_list /\ z = Of(c)
        BY <1>3 DEF FilesHold
      <4>2. Len(f) + 1 \in DOMAIN Append(f, z) /\ Append(f, z)[Len(f) + 1] = z
        BY AppendProperties, LenProperties
      <4> QED
        BY <4>1, <4>2 DEF ListName, Lists
    <3> QED
      BY <1>1, <1>10, <3>1, <3>2
  <2>3. Of(c)' = Of(c) /\ datasz'[c] \in Nat
    BY <1>1, <1>10 DEF Of
  <2> QED
    BY <1>1, <1>10, <2>1, <2>2, <2>3 DEF PutJob
<1>13. ASSUME NEW d \in Clients \ {c}, Kept(d) PROVE FileLeft(d)
  <2>1. Of(d) \in Names /\ Of(d)' = Of(d)
    BY <1>1, <1>3 DEF Shape, Of, Request
  <2>2. ASSUME request[d] = "PUT", state[d] = "READ_DATA", d \notin disturbed', NEW n \in Nat,
               HasUnits(d, n)
        PROVE  HasUnits(d, n)'
    <3>1. Of(d) # Of(c)
      BY <1>1, <2>2 DEF Users
    <3>2. dir[Of(d)] \in Inodes /\ dir[Of(d)] # i /\ dir'[Of(d)] = dir[Of(d)]
      BY <1>3, <1>4, <1>8, <2>1, <2>2, <3>1 DEF HasUnits, FilesHold
    <3> QED
      BY <1>7, <2>1, <2>2, <3>2 DEF HasUnits
  <2>3. ASSUME request[d] = "GET", d \notin disturbed', Len(opened[d]) # 0, FileKept(d)
        PROVE  FileKept(d)'
    <3>1. filefd[d] \in Inodes /\ content[filefd[d]] = opened[d] /\ filefd[d] # NONE
      BY <2>3, Widths DEF FileKept
    <3>2. filefd[d] # i
      <4>1. CASE dir[Of(c)] = NONE
        BY <1>4, <2>3, <3>1, <4>1
      <4>2. CASE dir[Of(c)] # NONE
        <5>1. d \notin Users(c, Of(c))
          BY <1>1, <2>3
        <5>2. filefd[d] = i => Of(c) = Of(d)
          BY <1>3, <1>4, <2>3, <4>2 DEF FileKept
        <5> QED
          BY <1>4, <3>1, <4>2, <5>1, <5>2 DEF Users
      <4> QED
        BY <4>1, <4>2
    <3>3. content'[filefd[d]] = opened[d]
      BY <1>7, <3>1, <3>2
    <3>4. \A n \in Names : dir'[n] = filefd[d] => n = Of(d)
      BY <1>8, <2>3, <3>1, <3>2 DEF FileKept
    <3> QED
      BY <1>1, <2>1, <3>1, <3>3, <3>4 DEF FileKept
  <2>4. current' # d
    BY <1>1
  <2> QED
    BY <2>2, <2>3, <2>4 DEF FileLeft
<1>14. \A d \in Clients \ {c} : d \in disturbed => d \in disturbed'
  BY <1>1
<1> QED
  BY <1>1, <1>9, <1>10, <1>11, <1>12, <1>13, <1>14, JobStep DEF JobHolds

-----------------------------------------------------------------------------
(* Nobody has asked for anything; at most one file is there. *)
LEMMA InitIInv == Init => IInv
<1> SUFFICES ASSUME Init PROVE IInv
  OBVIOUS
<1>1. PICK stored \in Earlier :
         /\ dir = [n \in Names |-> IF n \in DOMAIN stored THEN 1 ELSE NONE]
         /\ content = [i \in Inodes |-> IF i = 1 THEN EarlierUnits(stored) ELSE <<>>]
         /\ file_list \in {<<>>} \union {<<n>> : n \in DOMAIN stored}
  BY DEF Init
<1>2. /\ DOMAIN stored \subseteq Names
      /\ \A m, n \in DOMAIN stored : m = n /\ stored[n] \in Nat
  BY EarlierAssumption
<1>3. EarlierUnits(stored) \in Seq(Unit)
  <2>1. CASE DOMAIN stored = {}
    BY <2>1, EmptySeq DEF EarlierUnits
  <2>2. CASE DOMAIN stored # {}
    <3>1. PICK k \in Nat : k = stored[CHOOSE n \in DOMAIN stored : TRUE]
      BY <1>2, <2>2
    <3>2. EarlierUnits(stored) = [j \in 1..k |-> <<0, j>>]
      BY <2>2, <3>1 DEF EarlierUnits
    <3>3. \A j \in 1..k : <<0, j>> \in Unit
      BY DEF Unit
    <3> QED
      BY <3>2, <3>3
  <2> QED
    BY <2>1, <2>2
<1>4. FilesHold
  <2>1. content \in [Inodes -> Seq(Unit)]
    BY <1>1, <1>3, EmptySeq
  <2>2. file_list \in Seq(Names)
    <3>1. ASSUME NEW n \in Names PROVE <<n>> \in Seq(Names)
      OBVIOUS
    <3> QED
      BY <1>1, <1>2, <3>1, EmptySeq
  <2>3. dir \in [Names -> Inodes \union {NONE}]
    BY <1>1, Widths
  <2>4. \A m, n \in Names : dir[m] # NONE /\ dir[m] = dir[n] => m = n
    BY <1>1, <1>2, Widths
  <2> QED
    BY <2>1, <2>2, <2>3, <2>4 DEF FilesHold
<1>5. Shape
  BY ScriptAssumption DEF Init, Shape
<1>6. \A c \in Clients : JobHolds(c)
  BY Widths DEF Init, JobHolds, Job, PutJob, GetJob, Untouched
<1> QED
  BY <1>4, <1>5, <1>6 DEF IInv

LEMMA NextIInv == IInv /\ [Next]_vars => IInv'
<1> SUFFICES ASSUME IInv, [Next]_vars PROVE IInv'
  OBVIOUS
<1>1. ASSUME NEW c \in Clients, ~stopped, Server(c), ~UseFreedName(c) PROVE IInv'
  BY <1>1, AcceptStep, DispatchStep, ReadHeaderStep, PutReadSizeStep, PutWaitStep, PutChunkStep,
     ListServeStep, DeleteServeStep, GetServeStep, NoSuchFileStep, CannotWriteStep,
     write_responseStep, write_sizeStep, write_errStep, WriteDataStep DEF Server
<1>2. ASSUME UNCHANGED vars PROVE IInv'
  <2>1. /\ UNCHANGED <<asked, arrived, room, gone, current, dir, content, file_list, state>>
        /\ UNCHANGED <<request, taken, readsz, datasz, filesize, disturbed, stopped>>
        /\ UNCHANGED <<writesz, buf, filefd, offset, status, got, opened>>
    BY <1>2 DEF vars, sockets, loop, files, reading, writing
  <2> QED
    BY <2>1, NothingStep
<1>3. ASSUME NEW c \in Clients, UseFreedName(c) PROVE IInv'
  <2>1. /\ UNCHANGED <<asked, arrived, room, gone, current, dir, content, file_list, state>>
        /\ UNCHANGED <<request, taken, readsz, datasz, filesize, disturbed, stopped>>
        /\ UNCHANGED <<writesz, buf, filefd, offset, status, got, opened>>
    BY <1>3 DEF UseFreedName, sockets, loop, files, reading, writing
  <2> QED
    BY <2>1, NothingStep
<1> QED
  BY <1>1, <1>2, <1>3, ClientStep, CleanupStep DEF Next, Running

(***************************************************************************)
(* The invariant holds in every reachable state of the server.             *)
(***************************************************************************)
THEOREM Invariance == Spec => []IInv
  BY InitIInv, NextIInv, PTL DEF Spec

(***************************************************************************)
(* For any clients, requests, buffer sizes and order of events: a PUT that *)
(* is answered OK has stored the announced units in order, and a GET that  *)
(* was closed after OK has delivered what its file held when it was        *)
(* opened, unless another job wrote to or removed that file meanwhile.     *)
(* (Until a freed name has been used: what then happens is undefined.)     *)
(***************************************************************************)
THEOREM FilesFaithful == Spec => []FilesAreFaithful
<1>1. IInv => FilesAreFaithful
  BY DEF IInv, JobHolds, PutJob, GetJob, HasUnits, FilesAreFaithful, PutIsFaithful, GetIsFaithful
<1> QED
  BY <1>1, Invariance, PTL

=============================================================================

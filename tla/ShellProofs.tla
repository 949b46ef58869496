---------------------------- MODULE ShellProofs -----------------------------
(***************************************************************************)
(* Proofs about Shell, for any sessions, history files and pids: which     *)
(* children the list of background processes holds, whom the exit leaves   *)
(* alive, and what the history is at each prompt.                          *)
(*                                                                         *)
(* The children and the history are independent of each other, so there    *)
(* are two inductive invariants, ChildInv and HistoryInv.                  *)
(***************************************************************************)
EXTENDS Shell, TLAPS, SequenceTheorems, FiniteSetTheorems


Kids  == [st : {"none", "gone"} \union Exists, execed : BOOLEAN, bg : BOOLEAN,
          code : 0 .. 2, term : BOOLEAN]
Slots == [pid : Pids \union {MainPid, NoPid}, status : {Running, Stopped}, freed : BOOLEAN]

Entering == pc \in {"setpgid", "push", "storing"}
Waiting  == pc \in {"waitpid", "blocked"}
Erasing  == pc \in {"erasing", "moving"}
Removing == pc = "freeing" \/ Erasing
Setting  == pc \in {"getting", "changing"}
InKill   == pc = "looking" \/ Removing \/ (pc = "getting" /\ cur.kind = "kill")

ListTypes ==
    /\ child \in [Pids -> Kids]
    /\ bkgd \in Seq(Slots) /\ Len(bkgd) >= 1 /\ bkgd[1].pid = MainPid
    /\ idx \in Nat /\ len \in Nat /\ erased \in Nat /\ mixed \in Nat

(* What holds where: in particular, a command that was sent a signal is    *)
(* about a child in the state that the signal brings it to.                *)
Places ==
    /\ Entering \/ Waiting => new \in Pids
    /\ Setting \/ InKill => cur.n \in Pids
    /\ InKill => child[cur.n].term
    /\ pc = "getting" => cur.kind \in {"kill", "stop"}
    /\ pc = "changing" => cur.kind \in {"stop", "cont"}
    /\ Setting /\ cur.kind = "stop" => child[cur.n].st \in {"stopped", "zombie", "gone"}
    /\ pc = "changing" /\ cur.kind = "cont" =>
          child[cur.n].st \in {"forked", "running", "zombie", "gone"}
    /\ pc \in {"looking", "changing"} => idx >= 1
    /\ Removing \/ pc = "killing" => idx >= 2
    /\ pc = "moving" => idx <= len
    /\ pc \in {"moving", "storing"} => Len(bkgd) <= len

(* The children that none of the slots from k on has. *)
Unseen(k) == {p \in Pids : Due(p) /\ \A i \in k .. Len(bkgd) : bkgd[i].pid = p => bkgd[i].freed}

(* A removal that may take the wrong entry has been paid for: the slot at  *)
(* idx is the one the shell has looked at, or the handler came between.    *)
CountInv ==
    /\ pc \notin Ended => Cardinality(Lost) <= mixed
    /\ pc = "freeing" => \/ idx <= Len(bkgd) /\ bkgd[idx].pid = cur.n
                         \/ Cardinality(Lost) + 1 <= mixed
    /\ Erasing => \/ idx <= Len(bkgd) /\ bkgd[idx].freed
                  \/ Cardinality(Lost) + 1 <= mixed
    /\ pc = "killing" => Cardinality(Unseen(idx)) <= erased + mixed
    /\ pc = "exited" => Cardinality(Unsignalled) <= erased + mixed

(* The list l starts with the shell itself and has each pid once; the      *)
(* others have been forked.                                                *)
ListHolds(l, c) ==
    /\ l \in Seq(Slots) /\ Len(l) >= 1 /\ l[1].pid = MainPid
    /\ \A i, j \in 1 .. Len(l) : l[i].pid = l[j].pid => i = j
    /\ \A i \in 2 .. Len(l) : l[i].pid \in Pids /\ c[l[i].pid].st # "none"

StatusHolds(e, c) == c[e.pid].st \in Alive => (e.status = Stopped <=> c[e.pid].st = "stopped")
Unset(p, i) == p = cur.n /\ (pc = "getting" \/ (pc = "changing" /\ i >= idx))
Entered(p) == \E i \in 2 .. Len(bkgd) : bkgd[i].pid = p /\ (StatusHolds(bkgd[i], child) \/ Unset(p, i))

(* What holds as long as the handler has kept out of the changes. *)
Unmixed ==
    /\ ListHolds(bkgd, child)
    /\ \A i \in 1 .. Len(bkgd) : bkgd[i].freed => Erasing /\ i = idx
    /\ Removing => idx <= Len(bkgd) /\ bkgd[idx].pid = cur.n
    /\ pc \in {"moving", "storing"} => len = Len(bkgd)
    /\ Entering => child[new].st \notin {"none", "stopped"}
                   /\ \A i \in 1 .. Len(bkgd) : bkgd[i].pid # new
    /\ \A p \in Pids : Due(p) => Entered(p)

Exact == pc \notin Ended /\ mixed = 0 => Unmixed

ChildInv == ListTypes /\ Places /\ CountInv /\ Exact

-----------------------------------------------------------------------------
(* What the command that exec_cmd is about to run adds to the history. *)
Coming == IF pc = "exec" /\ ~logic THEN Expansion(hist, Simple(cur)) ELSE <<>>

Frames == [do : {"then", "return0"}, op : {"none", "&&", "||", ";"}, cmd : Commands]

LineTypes ==
    /\ hist \in Seq(Entries) /\ before \in Seq(Entries)
    /\ input \in Seq(Lines) /\ typed \in Lines
    /\ cur \in Commands /\ logic \in BOOLEAN /\ stack \in Seq(Frames)

Plain == Clean(typed) /\ \A i \in DOMAIN before : Clean(before[i])

(* In a line without history commands inside logical lines, such a command *)
(* is the whole line, and runs on the history the line was typed at.       *)
HistoryHolds ==
    Plain /\ pc \notin Ended \union {"killing"} =>
        /\ hist \o Coming = before \o Expansion(before, typed)
        /\ \A i \in DOMAIN stack : ~IsHistoryCommand(stack[i].cmd)
        /\ pc = "exec" /\ IsHistoryCommand(cur) => ~logic /\ hist = before

HistoryInv == LineTypes /\ HistoryHolds

-----------------------------------------------------------------------------
(* Pids, counting, the list and the children. *)

LEMMA PidFacts ==
  /\ MainPid \notin Pids /\ NoPid \notin Pids /\ Pids \subseteq Nat /\ IsFiniteSet(Pids)
  BY PidsAssumption DEF MainPid, NoPid

LEMMA FewerCount ==
  ASSUME NEW A, NEW B, A \subseteq B, B \subseteq Pids, NEW n \in Nat, Cardinality(B) <= n
  PROVE  Cardinality(A) \in Nat /\ Cardinality(A) <= n
  <1>1. IsFiniteSet(B)
    BY PidFacts, FS_Subset
  <1>2. IsFiniteSet(A) /\ Cardinality(A) <= Cardinality(B)
    BY <1>1, FS_Subset
  <1>3. Cardinality(A) \in Nat /\ Cardinality(B) \in Nat
    BY <1>1, <1>2, FS_CardinalityType
  <1>4. Cardinality(A) <= n
    BY <1>2, <1>3
  <1>5. QED  BY <1>3, <1>4

LEMMA OneMore ==
  ASSUME NEW A, NEW x, A \subseteq Pids
  PROVE  /\ Cardinality(A) \in Nat
         /\ \A B : B \subseteq A \union {x} =>
               Cardinality(B) \in Nat /\ Cardinality(B) <= Cardinality(A) + 1
  <1>1. IsFiniteSet(A) /\ Cardinality(A) \in Nat
    BY PidFacts, FS_Subset, FS_CardinalityType
  <1> DEFINE C == A \union {x}
  <1>2. /\ IsFiniteSet(C)
        /\ Cardinality(C) = Cardinality(A) \/ Cardinality(C) = Cardinality(A) + 1
    BY <1>1, FS_AddElement
  <1> HIDE DEF C
  <1>3. ASSUME NEW B, B \subseteq C  PROVE  Cardinality(B) \in Nat /\ Cardinality(B) <= Cardinality(A) + 1
    <2>1. IsFiniteSet(B) /\ Cardinality(B) <= Cardinality(C)
      BY <1>2, <1>3, FS_Subset
    <2>2. Cardinality(B) \in Nat /\ Cardinality(C) \in Nat
      BY <1>2, <2>1, FS_CardinalityType
    <2>3. QED  BY <1>1, <1>2, <2>1, <2>2
  <1>4. QED  BY <1>1, <1>3 DEF C

LEMMA LostFacts ==
  /\ Lost \subseteq Pids /\ Cardinality(Lost) \in Nat
  /\ \A k : Unseen(k) \subseteq Pids /\ Cardinality(Unseen(k)) \in Nat
  <1>1. Lost \subseteq Pids /\ \A k : Unseen(k) \subseteq Pids
    BY DEF Lost, Unseen
  <1>2. QED  BY <1>1, PidFacts, FS_Subset, FS_CardinalityType

LEMMA ListFacts ==
  ASSUME ListTypes
  PROVE  /\ Len(bkgd) \in Nat /\ DOMAIN bkgd = 1 .. Len(bkgd)
         /\ \A i \in 1 .. Len(bkgd) : bkgd[i] \in Slots
  BY LenProperties, ElementOfSeq DEF ListTypes

LEMMA NullIsSlot ==
  /\ Null \in Slots /\ Null.freed = TRUE /\ Null.pid = NoPid
  /\ \A e \in Slots : ~e.freed => e # Null /\ PidRead(e) = {e.pid}
  BY DEF Null, Slots, Running, Stopped, PidRead

LEMMA EntrySet ==
  ASSUME NEW l \in Seq(Slots), NEW k \in 1 .. Len(l), NEW e \in Slots,
         NEW m, m = [l EXCEPT ![k] = e]
  PROVE  /\ m \in Seq(Slots) /\ Len(m) = Len(l)
         /\ \A i \in 1 .. Len(l) : m[i] = IF i = k THEN e ELSE l[i]
  <1>1. m \in Seq(Slots) /\ Len(m) = Len(l)
    BY ExceptSeq
  <1>2. QED  BY <1>1, LenProperties

(* l without its k-th entry. *)
Without(l, k, m) ==
    /\ m \in Seq(Slots) /\ Len(m) = Len(l) - 1
    /\ \A i \in 1 .. Len(m) : m[i] = IF i < k THEN l[i] ELSE l[i + 1]

LEMMA RemoveAtIs ==
  ASSUME NEW l \in Seq(Slots), NEW k \in 1 .. Len(l)
  PROVE  Without(l, k, RemoveAt(l, k))
  <1>1. DOMAIN l = 1 .. Len(l) /\ Len(l) \in Nat
    BY LenProperties
  <1> DEFINE a == SubSeq(l, 1, k - 1)
             b == SubSeq(l, k + 1, Len(l))
  <1>2. a \in Seq(Slots) /\ Len(a) = k - 1 /\ \A i \in 1 .. k - 1 : a[i] = l[i]
    <2>1. \A i \in 1 .. k - 1 : i \in 1 .. Len(l)
      BY <1>1
    <2>2. \A i \in 1 .. k - 1 : l[i] \in Slots
      BY <2>1, <1>1, ElementOfSeq
    <2>3. k - 1 \in Int /\ (k - 1) - 1 + 1 = k - 1
      BY <1>1
    <2>4. /\ a \in Seq(Slots) /\ Len(a) = IF 1 <= k - 1 THEN (k - 1) - 1 + 1 ELSE 0
          /\ \A i \in 1 .. (k - 1) - 1 + 1 : a[i] = l[1 + i - 1]
      BY <2>2, <2>3, SubSeqProperties
    <2> HIDE DEF a
    <2>5. QED  BY <1>1, <2>3, <2>4
  <1>3. b \in Seq(Slots) /\ Len(b) = Len(l) - k
        /\ \A i \in 1 .. Len(l) - k : b[i] = l[k + i]
    <2>1. \A i \in k + 1 .. Len(l) : i \in 1 .. Len(l)
      BY <1>1
    <2>2. \A i \in k + 1 .. Len(l) : l[i] \in Slots
      BY <2>1, <1>1, ElementOfSeq
    <2>3. k + 1 \in Int /\ Len(l) \in Int /\ Len(l) - (k + 1) + 1 = Len(l) - k
      BY <1>1
    <2>4. /\ b \in Seq(Slots) /\ Len(b) = IF k + 1 <= Len(l) THEN Len(l) - k ELSE 0
          /\ \A i \in 1 .. Len(l) - k : b[i] = l[(k + 1) + i - 1]
      BY <2>2, <2>3, SubSeqProperties
    <2> HIDE DEF b
    <2>5. Len(b) = Len(l) - k
      <3>1. CASE k + 1 <= Len(l)
        BY <2>4, <3>1
      <3>2. CASE ~(k + 1 <= Len(l))
        <4>1. k \in Nat /\ k <= Len(l) /\ Len(l) \in Nat
          BY <1>1
        <4>2. Len(l) - k = 0
          BY <3>2, <4>1
        <4>3. QED  BY <2>4, <3>2, <4>2
      <3>3. QED  BY <3>1, <3>2
    <2>6. \A i \in 1 .. Len(l) - k : (k + 1) + i - 1 = k + i
      BY <1>1
    <2>7. QED  BY <2>4, <2>5, <2>6
  <1>4. RemoveAt(l, k) = a \o b
    BY DEF RemoveAt
  <1> HIDE DEF a, b
  <1>5. a \o b \in Seq(Slots) /\ Len(a \o b) = Len(l) - 1
    <2>1. a \o b \in Seq(Slots) /\ Len(a \o b) = Len(a) + Len(b)
      BY <1>2, <1>3, ConcatProperties
    <2>2. QED  BY <1>1, <1>2, <1>3, <2>1
  <1>6. ASSUME NEW i \in 1 .. Len(l) - 1
        PROVE  (a \o b)[i] = IF i < k THEN l[i] ELSE l[i + 1]
    <2>1. CASE i < k
      BY <1>1, <1>2, <1>3, <2>1, ConcatProperties
    <2>2. CASE ~(i < k)
      <3>1. i > Len(a) /\ i \in 1 .. Len(a) + Len(b) /\ i - Len(a) \in 1 .. Len(l) - k
        BY <1>1, <1>2, <1>3, <2>2
      <3>2. (a \o b)[i] = b[i - Len(a)]
        BY <1>2, <1>3, <3>1, ConcatProperties
      <3>3. k + (i - Len(a)) = i + 1
        BY <1>1, <1>2
      <3>4. QED  BY <1>3, <2>2, <3>1, <3>2, <3>3
    <2>3. QED  BY <2>1, <2>2
  <1>7. QED  BY <1>4, <1>5, <1>6 DEF Without

(* Every other entry is in what is left, at its place or one before. *)
LEMMA WithoutHas ==
  ASSUME NEW l \in Seq(Slots), NEW k \in 1 .. Len(l), NEW m, Without(l, k, m)
  PROVE  /\ Len(l) \in Nat /\ Len(m) = Len(l) - 1
         /\ \A i \in 1 .. Len(l) : i < k => i \in 1 .. Len(m) /\ m[i] = l[i]
         /\ \A i \in 1 .. Len(l) : i > k => i - 1 \in 1 .. Len(m) /\ m[i - 1] = l[i]
         /\ \A i \in 1 .. Len(m) : \/ i < k /\ i \in 1 .. Len(l) /\ m[i] = l[i]
                                   \/ i >= k /\ i + 1 \in 1 .. Len(l) /\ m[i] = l[i + 1]
  <1>1. Len(l) \in Nat /\ Len(m) = Len(l) - 1 /\ k >= 1 /\ k <= Len(l) /\ k \in Nat
    BY LenProperties DEF Without
  <1>2. ASSUME NEW i \in 1 .. Len(l), i > k  PROVE  i - 1 \in 1 .. Len(m) /\ m[i - 1] = l[i]
    <2>1. i - 1 \in 1 .. Len(m) /\ ~(i - 1 < k) /\ (i - 1) + 1 = i
      BY <1>1, <1>2
    <2>2. QED  BY <2>1 DEF Without
  <1>3. ASSUME NEW i \in 1 .. Len(l), i < k  PROVE  i \in 1 .. Len(m) /\ m[i] = l[i]
    <2>1. i \in 1 .. Len(m)
      BY <1>1, <1>3
    <2>2. QED  BY <1>3, <2>1 DEF Without
  <1>4. ASSUME NEW i \in 1 .. Len(m)
        PROVE  \/ i < k /\ i \in 1 .. Len(l) /\ m[i] = l[i]
               \/ i >= k /\ i + 1 \in 1 .. Len(l) /\ m[i] = l[i + 1]
    <2>1. i \in 1 .. Len(l) /\ i + 1 \in 1 .. Len(l) /\ (i < k \/ i >= k) /\ ~(i < k /\ i >= k)
      BY <1>1
    <2>2. QED  BY <2>1 DEF Without
  <1>5. QED  BY <1>1, <1>2, <1>3, <1>4

LEMMA WithoutKeeps ==
  ASSUME NEW c, NEW l, ListHolds(l, c), NEW k \in 2 .. Len(l), NEW m, Without(l, k, m)
  PROVE  ListHolds(m, c)
  <1>1. l \in Seq(Slots) /\ Len(l) \in Nat /\ m \in Seq(Slots) /\ k \in 1 .. Len(l)
    BY LenProperties DEF ListHolds, Without
  <1>2. Len(m) \in Nat /\ Len(m) = Len(l) - 1 /\ k >= 2 /\ k <= Len(l) /\ k \in Nat
    BY <1>1 DEF Without
  <1> DEFINE o(i) == IF i < k THEN i ELSE i + 1
  <1>3. \A i \in 1 .. Len(m) : o(i) \in 1 .. Len(l) /\ m[i] = l[o(i)] /\ (i >= 2 => o(i) >= 2)
    BY <1>1, <1>2 DEF Without
  <1>4. \A i, j \in 1 .. Len(m) : o(i) = o(j) => i = j
    BY <1>1, <1>2
  <1>5. Len(m) >= 1 /\ o(1) = 1
    BY <1>1, <1>2
  <1> HIDE DEF o
  <1>6. m[1].pid = MainPid
    BY <1>2, <1>3, <1>5 DEF ListHolds
  <1>7. \A i, j \in 1 .. Len(m) : m[i].pid = m[j].pid => i = j
    BY <1>3, <1>4 DEF ListHolds
  <1>8. \A i \in 2 .. Len(m) : m[i].pid \in Pids /\ c[m[i].pid].st # "none"
    <2> TAKE i \in 2 .. Len(m)
    <2>1. i \in 1 .. Len(m) /\ o(i) \in 2 .. Len(l)
      BY <1>1, <1>2, <1>3
    <2>2. QED  BY <1>3, <2>1 DEF ListHolds
  <1>9. QED  BY <1>1, <1>5, <1>6, <1>7, <1>8 DEF ListHolds

LEMMA ListKept ==
  ASSUME NEW c, NEW d, NEW l, ListHolds(l, c),
         \A q \in Pids : c[q].st # "none" => d[q].st # "none"
  PROVE  ListHolds(l, d)
  BY DEF ListHolds

OnlyKid(c, d, p) == d \in [Pids -> Kids] /\ \A q \in Pids : q # p => d[q] = c[q]

SetSt(c, p, x) == [c EXCEPT ![p].st = x]
SetTerm(c, p)  == [c EXCEPT ![p].term = TRUE]

LEMMA KidSet ==
  ASSUME NEW c \in [Pids -> Kids], NEW p \in Pids, NEW x \in {"none", "gone"} \union Exists,
         NEW d, d = SetSt(c, p, x)
  PROVE  OnlyKid(c, d, p) /\ d[p].st = x /\ d[p].bg = c[p].bg /\ d[p].term = c[p].term
  BY DEF OnlyKid, Kids, SetSt

LEMMA KidTerm ==
  ASSUME NEW c \in [Pids -> Kids], NEW p \in Pids, NEW d, d = SetTerm(c, p)
  PROVE  OnlyKid(c, d, p) /\ d[p].st = c[p].st /\ d[p].bg = c[p].bg /\ d[p].term = TRUE
  BY DEF OnlyKid, Kids, SetTerm

LEMMA KidEnd ==
  ASSUME NEW c \in [Pids -> Kids], NEW p \in Pids, NEW d, NEW code \in 0 .. 2,
         d = [c EXCEPT ![p].st = "zombie", ![p].code = code]
  PROVE  OnlyKid(c, d, p) /\ d[p].st = "zombie" /\ d[p].bg = c[p].bg /\ d[p].term = c[p].term
  BY ZenonT(60) DEF OnlyKid, Kids, Exists, Alive

LEMMA KidFork ==
  ASSUME NEW c \in [Pids -> Kids], NEW p \in Pids, NEW d, NEW b \in BOOLEAN,
         d = [c EXCEPT ![p].st = "forked", ![p].bg = b]
  PROVE  OnlyKid(c, d, p) /\ d[p].st = "forked" /\ d[p].bg = b /\ d[p].term = c[p].term
  BY DEF OnlyKid, Kids, Exists, Alive

(* No child comes to life, and none is stopped or continued. *)
NoWorse(c, d) ==
    /\ d \in [Pids -> Kids]
    /\ \A q \in Pids :
          /\ c[q].st # "none" => d[q].st # "none"
          /\ c[q].term => d[q].term
          /\ d[q].bg = c[q].bg
          /\ d[q].st \in Exists => c[q].st \in Exists
          /\ d[q].st \in Alive => /\ c[q].st \in Alive
                                  /\ d[q].st = "stopped" <=> c[q].st = "stopped"
          /\ c[q].st \in {"stopped", "zombie", "gone"} =>
                d[q].st \in {"stopped", "zombie", "gone"}
          /\ c[q].st \in {"forked", "running", "zombie", "gone"} =>
                d[q].st \in {"forked", "running", "zombie", "gone"}

LEMMA NoWorseSame ==
  ASSUME NEW c \in [Pids -> Kids]
  PROVE  NoWorse(c, c)
  BY DEF NoWorse

-----------------------------------------------------------------------------
(* Steps that leave the list alone. *)

(* Places of which the invariant says nothing. *)
Bare == {"prompt", "exec", "return", "listing", "crashed", "failed"}

MovesOn ==
    \/ pc' \in Bare /\ (pc' \notin Ended =>
                          ~Entering /\ ~Erasing /\ ~Setting /\ pc \notin Ended)
    \/ Entering /\ pc' \in {"setpgid", "push"}
    \/ Waiting /\ Waiting'
    \/ pc' = pc /\ cur' = cur

LEMMA DueKept ==
  ASSUME NoWorse(child, child'), new' = new, Entering => Entering', NEW q \in Pids, Due(q)'
  PROVE  Due(q)
  BY DEF NoWorse, Due, Entering

LEMMA UnseenKept ==
  ASSUME NoWorse(child, child'), UNCHANGED <<new, bkgd>>, Entering => Entering'
  PROVE  Lost' \subseteq Lost /\ \A k : Unseen(k)' \subseteq Unseen(k)
  <1>1. \A q \in Pids : Due(q)' => Due(q)
    BY DueKept
  <1>2. Lost' \subseteq Lost
    BY <1>1 DEF Lost, Found
  <1>3. ASSUME NEW k  PROVE  Unseen(k)' \subseteq Unseen(k)
    BY <1>1 DEF Unseen
  <1>4. QED  BY <1>2, <1>3

LEMMA UnsignalledKept ==
  ASSUME NoWorse(child, child')
  PROVE  Unsignalled' \subseteq Unsignalled /\ Unsignalled \subseteq Pids
  BY DEF NoWorse, Unsignalled

LEMMA EnteredKept ==
  ASSUME NoWorse(child, child'), bkgd' = bkgd, NEW q \in Pids, Entered(q),
         \A i : Unset(q, i) => Unset(q, i)'
  PROVE  Entered(q)'
  <1>1. PICK i \in 2 .. Len(bkgd) : bkgd[i].pid = q /\ (StatusHolds(bkgd[i], child) \/ Unset(q, i))
    BY DEF Entered
  <1>2. StatusHolds(bkgd[i], child) => StatusHolds(bkgd[i], child')
    BY <1>1 DEF StatusHolds, NoWorse
  <1>3. QED  BY <1>1, <1>2 DEF Entered

LEMMA Advance ==
  ASSUME ChildInv, NoWorse(child, child'), UNCHANGED <<bkgd, new, idx, len, erased, mixed>>,
         MovesOn
  PROVE  ChildInv'
  <1>1. ListTypes'
    BY DEF ChildInv, ListTypes, NoWorse
  <1>2. Places'
    <2>1. CASE pc' \in Bare
      BY <2>1 DEF Places, Entering, Waiting, Setting, InKill, Removing, Erasing, Bare
    <2>2. CASE Entering /\ pc' \in {"setpgid", "push"}
      BY <2>2 DEF ChildInv, Places, Entering, Waiting, Setting, InKill, Removing, Erasing
    <2>3. CASE Waiting /\ Waiting'
      BY <2>3 DEF ChildInv, Places, Entering, Waiting, Setting, InKill, Removing, Erasing
    <2>4. CASE pc' = pc /\ cur' = cur
      <3>1. /\ Entering' = Entering /\ Waiting' = Waiting /\ Setting' = Setting
            /\ InKill' = InKill /\ Removing' = Removing
        BY <2>4 DEF Entering, Waiting, Setting, InKill, Removing, Erasing
      <3>2. Places
        BY DEF ChildInv
      <3>3. Setting \/ InKill => cur.n \in Pids
        BY <3>2 DEF Places
      <3>4. /\ InKill => child'[cur.n].term
            /\ Setting /\ cur.kind = "stop" => child'[cur.n].st \in {"stopped", "zombie", "gone"}
            /\ pc = "changing" /\ cur.kind = "cont" =>
                  child'[cur.n].st \in {"forked", "running", "zombie", "gone"}
        BY <3>2, <3>3 DEF Places, NoWorse, Setting
      <3>5. QED  BY <2>4, <3>1, <3>2, <3>4 DEF Places
    <2>5. QED  BY <2>1, <2>2, <2>3, <2>4 DEF MovesOn
  <1>3. pc' \notin Ended => pc \notin Ended /\ (Entering => Entering')
    BY DEF MovesOn, Entering, Waiting, Ended, Bare
  <1>4. CountInv'
    <2>1. CASE pc' \notin Ended
      <3>1. Lost' \subseteq Lost /\ \A k : Unseen(k)' \subseteq Unseen(k)
        BY <1>3, <2>1, UnseenKept
      <3>2. Cardinality(Lost') <= Cardinality(Lost) /\ Cardinality(Lost') \in Nat
        BY <3>1, FewerCount, LostFacts
      <3>3. /\ Cardinality(Lost) <= mixed /\ mixed \in Nat /\ erased \in Nat
            /\ Cardinality(Lost) \in Nat
        BY <1>3, <2>1, LostFacts DEF ChildInv, CountInv, ListTypes
      <3>4. \/ ~(Removing \/ pc = "killing")' /\ pc' # "freeing" /\ ~Erasing'
            \/ pc' = pc /\ cur' = cur
        BY <2>1 DEF MovesOn, Removing, Erasing, Entering, Waiting, Bare
      <3>5. pc' # "exited"
        BY <2>1 DEF Ended
      <3>6. CASE ~(Removing \/ pc = "killing")' /\ pc' # "freeing" /\ ~Erasing'
        BY <3>2, <3>3, <3>5, <3>6 DEF CountInv
      <3>7. CASE pc' = pc /\ cur' = cur
        <4>1. Erasing' = Erasing
          BY <3>7 DEF Erasing
        <4>2. ASSUME pc = "killing"  PROVE  Cardinality(Unseen(idx)') <= erased + mixed
          <5>1. Cardinality(Unseen(idx)) <= erased + mixed
            BY <4>2 DEF ChildInv, CountInv
          <5>2. \A q \in Pids : Due(q)' => Due(q)
            BY <1>3, <2>1, DueKept
          <5>3. Unseen(idx)' \subseteq Unseen(idx)
            BY <5>2 DEF Unseen
          <5>4. erased + mixed \in Nat
            BY <3>3
          <5>5. QED  BY <5>1, <5>3, <5>4, LostFacts, FewerCount
        <4>3. pc = "freeing" => \/ idx <= Len(bkgd) /\ bkgd[idx].pid = cur.n
                                \/ Cardinality(Lost') + 1 <= mixed
          BY <3>2, <3>3 DEF ChildInv, CountInv
        <4>4. Erasing => \/ idx <= Len(bkgd) /\ bkgd[idx].freed
                         \/ Cardinality(Lost') + 1 <= mixed
          BY <3>2, <3>3 DEF ChildInv, CountInv
        <4>5. Cardinality(Lost') <= mixed
          BY <3>2, <3>3
        <4>6. QED  BY <3>5, <3>7, <4>1, <4>2, <4>3, <4>4, <4>5 DEF CountInv
      <3>8. QED  BY <3>4, <3>6, <3>7
    <2>2. CASE pc' \in Ended
      <3>1. pc' \notin {"freeing", "erasing", "moving", "killing"}
        BY <2>2 DEF Ended
      <3>2. ASSUME pc' = "exited"  PROVE  Cardinality(Unsignalled') <= erased + mixed
        <4>1. pc = "exited"
          BY <3>2 DEF MovesOn, Bare, Waiting
        <4>2. Cardinality(Unsignalled) <= erased + mixed /\ erased + mixed \in Nat
          BY <4>1 DEF ChildInv, CountInv, ListTypes
        <4>3. QED  BY <4>2, UnsignalledKept, FewerCount
      <3>3. QED  BY <2>2, <3>1, <3>2 DEF CountInv, Erasing
    <2>3. QED  BY <2>1, <2>2
  <1>5. Exact'
    <2> SUFFICES ASSUME pc' \notin Ended, mixed' = 0  PROVE  Unmixed'
      BY DEF Exact
    <2>1. Unmixed /\ pc \notin Ended /\ (Entering => Entering')
      BY <1>3 DEF ChildInv, Exact
    <2>2. ListHolds(bkgd', child')
      BY <2>1, ListKept DEF Unmixed, NoWorse
    <2>3. ASSUME Erasing \/ Setting \/ Removing' \/ pc' \in {"moving", "storing"}
          PROVE  pc' = pc /\ cur' = cur
      BY <2>1, <2>3 DEF MovesOn, Bare, Entering, Waiting, Erasing, Setting, Removing
    <2>4. \A i \in 1 .. Len(bkgd) : bkgd[i].freed => Erasing' /\ i = idx
      BY <2>1, <2>3 DEF Unmixed, Erasing
    <2>5. Removing' => idx <= Len(bkgd) /\ bkgd[idx].pid = cur'.n
      BY <2>1, <2>3 DEF Unmixed, Removing, Erasing
    <2>6. pc' \in {"moving", "storing"} => len = Len(bkgd)
      BY <2>1, <2>3 DEF Unmixed
    <2>7. Entering' => child'[new].st \notin {"none", "stopped"}
                       /\ \A i \in 1 .. Len(bkgd) : bkgd[i].pid # new
      <3> HAVE Entering'
      <3>1. Entering
        BY DEF MovesOn, Entering, Waiting, Bare
      <3>2. new \in Pids
        BY <3>1 DEF ChildInv, Places
      <3>3. child[new].st \notin {"none", "stopped"}
            /\ \A i \in 1 .. Len(bkgd) : bkgd[i].pid # new
        BY <2>1, <3>1 DEF Unmixed
      <3>4. QED  BY <3>2, <3>3 DEF NoWorse, Alive
    <2>8. ASSUME NEW q \in Pids, Due(q)'  PROVE  Entered(q)'
      <3>1. Entered(q)
        BY <2>1, <2>8, DueKept DEF Unmixed
      <3>2. \A i : Unset(q, i) => Unset(q, i)'
        BY <2>3 DEF Unset, Setting
      <3>3. QED  BY <3>1, <3>2, EnteredKept
    <2>9. QED  BY <2>2, <2>4, <2>5, <2>6, <2>7, <2>8 DEF Unmixed
  <1>6. QED  BY <1>1, <1>2, <1>4, <1>5 DEF ChildInv
-----------------------------------------------------------------------------
(* What a step does to the three parts of the invariant. *)

LEMMA Faulted ==
  ASSUME ListTypes', pc' = "crashed"
  PROVE  ChildInv'
  BY DEF ChildInv, Places, CountInv, Exact, Ended, Entering, Waiting, Setting, InKill,
         Removing, Erasing

LEMMA CountNext ==
  ASSUME ChildInv, pc \notin Ended, pc' \notin Ended \union {"killing"},
         Lost' \subseteq Lost, mixed' = mixed,
         pc' = "freeing" => \/ idx' <= Len(bkgd') /\ bkgd'[idx'].pid = cur'.n
                            \/ Cardinality(Lost) + 1 <= mixed,
         Erasing' => \/ idx' <= Len(bkgd') /\ bkgd'[idx'].freed
                     \/ Cardinality(Lost) + 1 <= mixed
  PROVE  CountInv'
  <1>1. Cardinality(Lost) \in Nat /\ mixed \in Nat /\ Cardinality(Lost) <= mixed
    BY LostFacts DEF ChildInv, ListTypes, CountInv
  <1>2. Cardinality(Lost') \in Nat /\ Cardinality(Lost') <= Cardinality(Lost)
    BY <1>1, FewerCount, LostFacts
  <1>3. Cardinality(Lost') <= mixed
        /\ (Cardinality(Lost) + 1 <= mixed => Cardinality(Lost') + 1 <= mixed)
    BY <1>1, <1>2
  <1>4. pc' # "killing" /\ pc' # "exited"
    BY DEF Ended
  <1>5. QED  BY <1>3, <1>4 DEF CountInv

(* A list of the same entries, but for what their status is. *)
SameEntries ==
    /\ Len(bkgd') = Len(bkgd)
    /\ \A i \in 1 .. Len(bkgd) : bkgd'[i].pid = bkgd[i].pid /\ bkgd'[i].freed = bkgd[i].freed

LEMMA SameLost ==
  ASSUME ListTypes, SameEntries, UNCHANGED <<child, new>>, Entering => Entering'
  PROVE  Lost' \subseteq Lost
  <1>1. \A q \in Pids : Due(q)' => Due(q)
    BY DEF Due, Entering
  <1>2. Len(bkgd) \in Nat
    BY ListFacts
  <1>3. \A i \in 2 .. Len(bkgd) : i \in 1 .. Len(bkgd)
    BY <1>2
  <1>4. ASSUME NEW q \in Pids, Found(q)  PROVE  Found(q)'
    BY <1>3, <1>4 DEF Found, SameEntries
  <1>5. QED  BY <1>1, <1>4 DEF Lost

LEMMA InitChild == Init => ChildInv
  <1> SUFFICES ASSUME Init PROVE ChildInv
    OBVIOUS
  <1>1. /\ bkgd = <<Entry(MainPid)>>
        /\ child = [p \in Pids |-> [st |-> "none", execed |-> FALSE, bg |-> FALSE,
                                    code |-> 0, term |-> FALSE]]
        /\ pc = "prompt" /\ idx = 0 /\ len = 0 /\ erased = 0 /\ mixed = 0
    BY DEF Init
  <1>2. child \in [Pids -> Kids]
    BY <1>1 DEF Kids
  <1>3. /\ bkgd \in Seq(Slots) /\ Len(bkgd) = 1 /\ bkgd[1].pid = MainPid
        /\ bkgd[1].freed = FALSE
    <2>1. Entry(MainPid) \in Slots /\ Entry(MainPid).pid = MainPid /\ Entry(MainPid).freed = FALSE
      BY DEF Slots, Entry
    <2>2. QED  BY <1>1, <2>1
  <1>4. ListTypes
    BY <1>1, <1>2, <1>3 DEF ListTypes
  <1>5. Places
    BY <1>1 DEF Places, Entering, Waiting, Setting, InKill, Removing, Erasing
  <1>6. \A p \in Pids : ~Due(p)
    BY <1>1 DEF Due, Exists, Alive
  <1>7. CountInv
    <2>1. Lost = {}
      BY <1>6 DEF Lost
    <2>2. Cardinality(Lost) = 0
      BY <2>1, FS_EmptySet
    <2>3. QED  BY <1>1, <2>2 DEF CountInv, Erasing
  <1>8. Exact
    <2>1. ListHolds(bkgd, child)
      BY <1>3 DEF ListHolds
    <2>2. QED  BY <1>1, <1>3, <1>6, <2>1 DEF Exact, Unmixed, Entering, Removing, Erasing
  <1>9. QED  BY <1>4, <1>5, <1>7, <1>8 DEF ChildInv

(* kill, stop and cont have sent their signal. *)
LEMMA Sent ==
  ASSUME ChildInv, pc = "exec", pc' \in {"getting", "changing"}, cur' = cur, cur.n \in Pids,
         UNCHANGED <<bkgd, new, len, erased, mixed>>,
         idx' \in Nat, pc' = "changing" => idx' = 1,
         OnlyKid(child, child', cur.n),
         child[cur.n].st \in Exists, child'[cur.n].st \in Exists,
         child'[cur.n].bg = child[cur.n].bg, child[cur.n].term => child'[cur.n].term,
         pc' = "getting" => \/ cur.kind = "stop" /\ child'[cur.n].st \in {"stopped", "zombie"}
                            \/ cur.kind = "kill" /\ child'[cur.n].term,
         pc' = "changing" => /\ cur.kind = "cont"
                             /\ child'[cur.n].st \in {"forked", "running", "zombie"}
  PROVE  ChildInv'
  <1>1. ListTypes'
    BY DEF ChildInv, ListTypes, OnlyKid
  <1>2. Places'
    BY DEF Places, Entering, Waiting, Setting, InKill, Removing, Erasing
  <1>3. \A q \in Pids : Due(q)' => Due(q)
    BY DEF Due, OnlyKid
  <1>4. CountInv'
    <2>1. Lost' \subseteq Lost
      BY <1>3 DEF Lost, Found
    <2>2. pc \notin Ended /\ pc' \notin Ended \union {"killing"} /\ pc' # "freeing" /\ ~Erasing'
      BY DEF Ended, Erasing
    <2>3. QED  BY <2>1, <2>2, CountNext
  <1>5. Exact'
    <2> SUFFICES ASSUME mixed' = 0  PROVE  Unmixed'
      BY DEF Exact
    <2>1. Unmixed
      BY DEF ChildInv, Exact, Ended
    <2>2. ListHolds(bkgd', child')
      <3>1. \A q \in Pids : child[q].st # "none" => child'[q].st # "none"
        BY DEF OnlyKid, Exists, Alive
      <3>2. QED  BY <2>1, <3>1, ListKept DEF Unmixed
    <2>3. ASSUME NEW q \in Pids, Due(q)'  PROVE  Entered(q)'
      <3>1. PICK i \in 2 .. Len(bkgd) :
               bkgd[i].pid = q /\ (StatusHolds(bkgd[i], child) \/ Unset(q, i))
        BY <1>3, <2>1, <2>3 DEF Unmixed, Entered
      <3>2. StatusHolds(bkgd[i], child)
        BY <3>1 DEF Unset
      <3>3. CASE q = cur.n
        <4>1. i >= 1 /\ i \in Nat
          BY <3>1, ListFacts DEF ChildInv
        <4>2. Unset(q, i)'
          BY <3>3, <4>1 DEF Unset
        <4>3. QED  BY <3>1, <4>2 DEF Entered
      <3>4. CASE q # cur.n
        <4>1. child'[q] = child[q]
          BY <3>4 DEF OnlyKid
        <4>2. StatusHolds(bkgd[i], child')
          BY <3>1, <3>2, <4>1 DEF StatusHolds
        <4>3. QED  BY <3>1, <4>2 DEF Entered
      <3>5. QED  BY <3>3, <3>4
    <2>4. QED  BY <2>1, <2>2, <2>3 DEF Unmixed, Entering, Removing, Erasing
  <1>6. QED  BY <1>1, <1>2, <1>4, <1>5 DEF ChildInv

LEMMA KillChild == ASSUME ChildInv, kill_ PROVE ChildInv'
  <1> DEFINE p == cur.n
  <1>1. /\ pc = "exec" /\ pc' = "getting" /\ cur' = cur /\ cur.kind = "kill"
        /\ p \in Pids /\ child[p].st \in Exists
        /\ child' = SetTerm(child, p)
        /\ UNCHANGED <<bkgd, new, idx, len, erased, mixed>>
    BY DEF kill_, Exec, At, NoProcess, GoTo, callVars, SetTerm
  <1>2. child \in [Pids -> Kids] /\ idx \in Nat
    BY DEF ChildInv, ListTypes
  <1> HIDE DEF p
  <1>3. /\ OnlyKid(child, child', p) /\ child'[p].st = child[p].st
        /\ child'[p].bg = child[p].bg /\ child'[p].term = TRUE
    BY <1>1, <1>2, KidTerm
  <1>4. QED  BY <1>1, <1>2, <1>3, Sent DEF p

LEMMA StopChild == ASSUME ChildInv, stop PROVE ChildInv'
  <1> DEFINE p == cur.n
  <1>1. /\ pc = "exec" /\ pc' = "getting" /\ cur' = cur /\ cur.kind = "stop"
        /\ p \in Pids /\ child[p].st \in Exists
        /\ IF child[p].st = "zombie" THEN child' = child
           ELSE child' = SetSt(child, p, "stopped")
        /\ UNCHANGED <<bkgd, new, idx, len, erased, mixed>>
    BY DEF stop, Exec, At, NoProcess, GoTo, callVars, SetSt
  <1>2. child \in [Pids -> Kids] /\ idx \in Nat /\ "stopped" \in Exists /\ "zombie" \in Exists
    BY DEF ChildInv, ListTypes, Exists, Alive
  <1> HIDE DEF p
  <1>3. /\ OnlyKid(child, child', p) /\ child'[p].st \in {"stopped", "zombie"}
        /\ child'[p].bg = child[p].bg /\ child'[p].term = child[p].term
    <2>1. CASE child[p].st = "zombie"
      BY <1>1, <1>2, <2>1 DEF OnlyKid
    <2>2. CASE child[p].st # "zombie"
      <3>1. "stopped" \in {"none", "gone"} \union Exists
        BY <1>2
      <3>2. child' = SetSt(child, p, "stopped") /\ p \in Pids
        BY <1>1, <2>2
      <3>3. /\ OnlyKid(child, child', p) /\ child'[p].st = "stopped"
            /\ child'[p].bg = child[p].bg /\ child'[p].term = child[p].term
        BY <1>2, <3>1, <3>2, KidSet
      <3>4. QED  BY <3>3
    <2>3. QED  BY <2>1, <2>2
  <1>4. child'[p].st \in Exists
    BY <1>2, <1>3
  <1>5. QED  BY <1>1, <1>2, <1>3, <1>4, Sent DEF p

LEMMA ContChild == ASSUME ChildInv, cont PROVE ChildInv'
  <1> DEFINE p == cur.n
             x == IF child[p].execed THEN "running" ELSE "forked"
  <1>1. /\ pc = "exec" /\ pc' = "changing" /\ cur' = cur /\ cur.kind = "cont" /\ idx' = 1
        /\ p \in Pids /\ child[p].st \in Exists
        /\ IF child[p].st # "stopped" THEN child' = child
           ELSE child' = SetSt(child, p, x)
        /\ UNCHANGED <<bkgd, new, len, erased, mixed>>
    BY DEF cont, Exec, At, NoProcess, GoTo, callVars, SetSt
  <1>2. x \in {"running", "forked"}
    OBVIOUS
  <1> HIDE DEF p, x
  <1>3. child \in [Pids -> Kids] /\ x \in Exists
    BY <1>2 DEF ChildInv, ListTypes, Exists, Alive
  <1>4. /\ OnlyKid(child, child', p) /\ child'[p].st \in {"forked", "running", "zombie"}
        /\ child'[p].bg = child[p].bg /\ child'[p].term = child[p].term
    <2>1. CASE child[p].st # "stopped"
      BY <1>1, <1>3, <2>1 DEF OnlyKid, Exists, Alive
    <2>2. CASE child[p].st = "stopped"
      <3>1. x \in {"none", "gone"} \union Exists
        BY <1>3
      <3>2. child' = SetSt(child, p, x) /\ p \in Pids
        BY <1>1, <2>2
      <3>3. /\ OnlyKid(child, child', p) /\ child'[p].st = x
            /\ child'[p].bg = child[p].bg /\ child'[p].term = child[p].term
        BY <1>3, <3>1, <3>2, KidSet
      <3>4. QED  BY <1>2, <3>3
    <2>3. QED  BY <2>1, <2>2
  <1>5. child'[p].st \in Exists
    BY <1>4 DEF Exists, Alive
  <1>6. QED  BY <1>1, <1>4, <1>5, Sent DEF p

LEMMA GetChild == ASSUME ChildInv, get_process PROVE ChildInv'
  <1>1. pc = "getting" /\ idx' = 1 /\ UNCHANGED <<child, new, bkgd, len, erased, mixed>>
    BY DEF get_process, At, ListStep
  <1>2. ListTypes'
    BY <1>1 DEF ChildInv, ListTypes
  <1>3. CASE pc' = "crashed"
    BY <1>2, <1>3, Faulted
  <1>4. CASE pc' = IF cur.kind = "kill" THEN "looking" ELSE "changing"
    <2>1. cur' = cur
      BY <1>4 DEF get_process, GoTo, Fault, callVars
    <2>2. Places /\ cur.n \in Pids /\ cur.kind \in {"kill", "stop"}
      BY <1>1 DEF ChildInv, Places, Setting
    <2>3. Places'
      BY <1>1, <1>4, <2>1, <2>2 DEF Places, Entering, Waiting, Setting, InKill, Removing, Erasing
    <2>4. CountInv'
      <3>1. SameEntries /\ ~Entering
        BY <1>1 DEF SameEntries, Entering
      <3>2. Lost' \subseteq Lost
        BY <1>1, <3>1, SameLost DEF ChildInv
      <3>3. pc \notin Ended /\ pc' \notin Ended \union {"killing"} /\ pc' # "freeing" /\ ~Erasing'
        BY <1>1, <1>4 DEF Ended, Erasing
      <3>4. QED  BY <1>1, <3>2, <3>3, CountNext
    <2>5. Exact'
      <3> SUFFICES ASSUME mixed' = 0  PROVE  Unmixed'
        BY DEF Exact
      <3>1. Unmixed
        BY <1>1 DEF ChildInv, Exact, Ended
      <3>2. ASSUME NEW q \in Pids, Due(q)'  PROVE  Entered(q)'
        <4>1. Due(q)
          BY <1>1, <3>2 DEF Due
        <4>2. PICK i \in 2 .. Len(bkgd) :
                 bkgd[i].pid = q /\ (StatusHolds(bkgd[i], child) \/ Unset(q, i))
          BY <3>1, <4>1 DEF Unmixed, Entered
        <4>3. i >= 1
          BY <4>2, ListFacts DEF ChildInv
        <4>4. CASE StatusHolds(bkgd[i], child)
          BY <1>1, <4>2, <4>4 DEF Entered
        <4>5. CASE Unset(q, i)
          <5>1. q = cur.n
            BY <4>5 DEF Unset
          <5>2. cur.kind # "kill"
            BY <1>1, <2>2, <4>1, <5>1 DEF Places, InKill, Due
          <5>3. Unset(q, i)'
            BY <1>1, <1>4, <2>1, <4>3, <5>1, <5>2 DEF Unset
          <5>4. QED  BY <1>1, <4>2, <5>3 DEF Entered
        <4>6. QED  BY <4>2, <4>4, <4>5
      <3>3. ~Erasing /\ ~Entering' /\ ~Removing' /\ pc' \notin {"moving", "storing"}
        BY <1>1, <1>4 DEF Erasing, Entering, Removing
      <3>4. QED  BY <1>1, <3>1, <3>2, <3>3 DEF Unmixed
    <2>6. QED  BY <1>2, <2>3, <2>4, <2>5 DEF ChildInv
  <1>5. QED  BY <1>3, <1>4 DEF get_process, GoTo, Fault

(* In the loop of ch_process the entries before idx have their status. *)
LEMMA ChChild == ASSUME ChildInv, ch_process PROVE ChildInv'
  <1>1. pc = "changing" /\ UNCHANGED <<child, new, len, erased, mixed>>
    BY DEF ch_process, At, ListStep
  <1>2. idx \in Nat /\ idx >= 1 /\ Places /\ cur.n \in Pids /\ cur.kind \in {"stop", "cont"}
        /\ bkgd \in Seq(Slots) /\ Len(bkgd) \in Nat
        /\ \A i \in 1 .. Len(bkgd) : bkgd[i] \in Slots
    BY <1>1, ListFacts DEF ChildInv, Places, ListTypes, Setting
  <1>3. CASE bkgd' = bkgd /\ idx' = idx /\ pc' = "crashed"
    <2>1. ListTypes'
      BY <1>1, <1>3 DEF ChildInv, ListTypes
    <2>2. QED  BY <1>3, <2>1, Faulted
  <1>4. ASSUME cur' = cur, SameEntries, bkgd' \in Seq(Slots),
               \/ pc' = "return" /\ idx > Len(bkgd) /\ idx' = idx
               \/ pc' = pc /\ idx' = idx + 1,
               mixed = 0 => \A i \in 1 .. Len(bkgd) :
                  \/ bkgd'[i] = bkgd[i] /\ (pc' = pc /\ i = idx => bkgd[i].pid # cur.n)
                  \/ i = idx /\ bkgd'[i].pid = cur.n /\
                        bkgd'[i].status = IF cur.kind = "stop" THEN Stopped ELSE Running
        PROVE  ChildInv'
    <2>1. ListTypes'
      BY <1>1, <1>2, <1>4 DEF ChildInv, ListTypes, SameEntries
    <2>2. Places'
      <3>1. CASE pc' = "return"
        BY <3>1 DEF Places, Entering, Waiting, Setting, InKill, Removing, Erasing
      <3>2. CASE pc' = pc /\ idx' = idx + 1
        BY <1>1, <1>2, <1>4, <3>2 DEF Places, Entering, Waiting, Setting, InKill, Removing, Erasing
      <3>3. QED  BY <1>4, <3>1, <3>2
    <2>3. CountInv'
      <3>1. Lost' \subseteq Lost
        BY <1>1, <1>4, SameLost DEF ChildInv, Entering
      <3>2. pc \notin Ended /\ pc' \notin Ended \union {"killing"} /\ pc' # "freeing" /\ ~Erasing'
        BY <1>1, <1>4 DEF Ended, Erasing
      <3>3. QED  BY <1>1, <3>1, <3>2, CountNext
    <2>4. Exact'
      <3> SUFFICES ASSUME mixed' = 0  PROVE  Unmixed'
        BY DEF Exact
      <3>1. Unmixed /\ mixed = 0
        BY <1>1 DEF ChildInv, Exact, Ended
      <3>2. ListHolds(bkgd', child')
        BY <1>1, <1>2, <1>4, <3>1 DEF Unmixed, ListHolds, SameEntries
      <3>3. /\ ~Erasing /\ ~Entering' /\ ~Removing' /\ pc' \notin {"moving", "storing"}
            /\ \A i \in 1 .. Len(bkgd') : ~bkgd'[i].freed
        BY <1>1, <1>4, <3>1 DEF Unmixed, SameEntries, Erasing, Entering, Removing
      <3>4. ASSUME NEW q \in Pids, Due(q)'  PROVE  Entered(q)'
        <4>1. Due(q)
          BY <1>1, <3>4 DEF Due
        <4>2. PICK i \in 2 .. Len(bkgd) :
                 bkgd[i].pid = q /\ (StatusHolds(bkgd[i], child) \/ Unset(q, i))
          BY <3>1, <4>1 DEF Unmixed, Entered
        <4>3. i \in 2 .. Len(bkgd') /\ i \in 1 .. Len(bkgd) /\ bkgd'[i].pid = q
          BY <1>2, <1>4, <4>2 DEF SameEntries
        <4>4. CASE bkgd'[i] = bkgd[i] /\ (pc' = pc /\ i = idx => bkgd[i].pid # cur.n)
          <5>1. CASE StatusHolds(bkgd[i], child)
            BY <1>1, <4>3, <4>4, <5>1 DEF Entered
          <5>2. CASE Unset(q, i)
            <6>1. q = cur.n /\ i >= idx
              BY <1>1, <5>2 DEF Unset
            <6>2. i # idx /\ pc' = pc /\ idx' = idx + 1
              BY <1>2, <1>4, <4>2, <4>4, <6>1
            <6>3. i >= idx'
              BY <1>2, <6>1, <6>2
            <6>4. Unset(q, i)'
              BY <1>1, <1>4, <6>1, <6>2, <6>3 DEF Unset
            <6>5. QED  BY <4>3, <6>4 DEF Entered
          <5>3. QED  BY <4>2, <5>1, <5>2
        <4>5. CASE bkgd'[i].pid = cur.n /\
                   bkgd'[i].status = IF cur.kind = "stop" THEN Stopped ELSE Running
          <5>1. q = cur.n
            BY <4>3, <4>5
          <5>2. StatusHolds(bkgd'[i], child)
            BY <1>1, <1>2, <4>5 DEF StatusHolds, Places, Setting, Alive, Stopped, Running
          <5>3. QED  BY <1>1, <4>3, <5>2 DEF Entered
        <4>6. QED  BY <1>4, <3>1, <4>3, <4>4, <4>5
      <3>5. QED  BY <3>2, <3>3, <3>4 DEF Unmixed
    <2>5. QED  BY <2>1, <2>2, <2>3, <2>4 DEF ChildInv
  <1>5. CASE idx > Len(bkgd) /\ Return(0) /\ UNCHANGED <<bkgd, idx>>
    <2>1. cur' = cur /\ pc' = "return" /\ pc' # pc /\ SameEntries
      BY <1>1, <1>5 DEF Return, SameEntries
    <2>2. QED  BY <1>2, <1>4, <1>5, <2>1
  <1>6. ASSUME idx <= Len(bkgd), NEW pid \in PidRead(bkgd[idx]),
               bkgd' = IF pid # cur.n THEN bkgd
                       ELSE [bkgd EXCEPT ![idx].status =
                                IF cur.kind = "stop" THEN Stopped ELSE Running],
               idx' = idx + 1, UNCHANGED <<pc, hfile, callVars>>
        PROVE  ChildInv'
    <2> DEFINE x == IF cur.kind = "stop" THEN Stopped ELSE Running
    <2>1. cur' = cur /\ pc' = pc /\ x \in {Running, Stopped} /\ idx \in 1 .. Len(bkgd)
      BY <1>2, <1>6 DEF callVars
    <2>2. mixed = 0 => pid = bkgd[idx].pid
      <3> HAVE mixed = 0
      <3>1. ~bkgd[idx].freed
        BY <1>1, <2>1 DEF ChildInv, Exact, Unmixed, Ended, Erasing
      <3>2. QED  BY <1>2, <1>6, <2>1, <3>1, NullIsSlot
    <2>3. CASE pid # cur.n
      <3>1. bkgd' = bkgd /\ SameEntries
        BY <1>6, <2>3 DEF SameEntries
      <3>2. QED  BY <1>2, <1>4, <1>6, <2>1, <2>2, <2>3, <3>1
    <2>4. CASE pid = cur.n
      <3>1. bkgd' = [bkgd EXCEPT ![idx].status = x]
        BY <1>6, <2>4
      <3> HIDE DEF x
      <3> DEFINE e == [bkgd[idx] EXCEPT !.status = x]
      <3>2. e \in Slots /\ e.pid = bkgd[idx].pid /\ e.freed = bkgd[idx].freed /\ e.status = x
        BY <1>2, <2>1 DEF Slots
      <3>3. bkgd' = [bkgd EXCEPT ![idx] = e]
        BY <3>1
      <3> HIDE DEF e
      <3>4. /\ bkgd' \in Seq(Slots) /\ Len(bkgd') = Len(bkgd)
            /\ \A i \in 1 .. Len(bkgd) : bkgd'[i] = IF i = idx THEN e ELSE bkgd[i]
        BY <1>2, <2>1, <3>2, <3>3, EntrySet
      <3>5. SameEntries
        BY <3>2, <3>4 DEF SameEntries
      <3>6. mixed = 0 => \A i \in 1 .. Len(bkgd) :
                  \/ bkgd'[i] = bkgd[i] /\ (pc' = pc /\ i = idx => bkgd[i].pid # cur.n)
                  \/ i = idx /\ bkgd'[i].pid = cur.n /\ bkgd'[i].status = x
        BY <2>2, <2>4, <3>2, <3>4
      <3>7. QED  BY <1>4, <1>6, <2>1, <3>4, <3>5, <3>6 DEF x
    <2>5. QED  BY <2>3, <2>4
  <1>7. QED  BY <1>3, <1>5, <1>6 DEF ch_process, Fault

(* rm_process before it has found an entry. *)
LEMMA RmChild == ASSUME ChildInv, rm_process PROVE ChildInv'
  <1>1. pc = "looking" /\ UNCHANGED <<bkgd, child, new, len, erased, mixed>>
    BY DEF rm_process, At, ListStep
  <1>2. idx \in Nat /\ idx >= 1 /\ Places /\ cur.n \in Pids
        /\ child \in [Pids -> Kids] /\ Len(bkgd) \in Nat
        /\ (\A i \in 1 .. Len(bkgd) : bkgd[i] \in Slots) /\ bkgd[1].pid = MainPid
    BY <1>1, ListFacts DEF ChildInv, Places, ListTypes, InKill
  <1>3. CASE pc' \in {"return", "crashed"} /\ idx' = idx
    <2>1. MovesOn
      BY <1>1, <1>3 DEF MovesOn, Bare, Ended, Entering, Erasing, Setting
    <2>2. QED  BY <1>1, <1>2, <1>3, <2>1, NoWorseSame, Advance
  <1>4. ASSUME cur' = cur, idx <= Len(bkgd),
               \/ pc' = pc /\ idx' = idx + 1
               \/ pc' = "freeing" /\ idx' = idx /\ bkgd[idx].pid = cur.n
        PROVE  ChildInv'
    <2>1. ListTypes'
      BY <1>1, <1>2, <1>4 DEF ChildInv, ListTypes
    <2>2. Places'
      <3>1. CASE pc' = pc /\ idx' = idx + 1
        BY <1>1, <1>2, <1>4, <3>1 DEF Places, Entering, Waiting, Setting, InKill, Removing, Erasing
      <3>2. CASE pc' = "freeing" /\ idx' = idx /\ bkgd[idx].pid = cur.n
        <4>1. idx # 1
          BY <1>2, <3>2, PidFacts
        <4>2. idx' >= 2
          BY <1>2, <3>2, <4>1
        <4>3. QED  BY <1>1, <1>2, <1>4, <3>2, <4>2
                   DEF Places, Entering, Waiting, Setting, InKill, Removing, Erasing
      <3>3. QED  BY <1>4, <3>1, <3>2
    <2>3. CountInv'
      <3>1. Lost' \subseteq Lost
        BY <1>1, SameLost DEF ChildInv, Entering, SameEntries
      <3>2. pc \notin Ended /\ pc' \notin Ended \union {"killing"} /\ ~Erasing'
        BY <1>1, <1>4 DEF Ended, Erasing
      <3>3. pc' = "freeing" => idx' <= Len(bkgd') /\ bkgd'[idx'].pid = cur'.n
        BY <1>1, <1>4
      <3>4. QED  BY <1>1, <3>1, <3>2, <3>3, CountNext
    <2>4. Exact'
      <3> SUFFICES ASSUME mixed' = 0  PROVE  Unmixed'
        BY DEF Exact
      <3>1. Unmixed
        BY <1>1 DEF ChildInv, Exact, Ended
      <3>2. ASSUME NEW q \in Pids, Due(q)'  PROVE  Entered(q)'
        <4>1. Due(q)
          BY <1>1, <3>2 DEF Due
        <4>2. PICK i \in 2 .. Len(bkgd) :
                 bkgd[i].pid = q /\ (StatusHolds(bkgd[i], child) \/ Unset(q, i))
          BY <3>1, <4>1 DEF Unmixed, Entered
        <4>3. QED  BY <1>1, <4>2 DEF Entered, Unset
      <3>3. Removing' => idx' <= Len(bkgd) /\ bkgd[idx'].pid = cur'.n
        BY <1>1, <1>4 DEF Removing, Erasing
      <3>4. ~Erasing /\ ~Entering' /\ pc' \notin {"moving", "storing"}
        BY <1>1, <1>4 DEF Erasing, Entering
      <3>5. QED  BY <1>1, <3>1, <3>2, <3>3, <3>4 DEF Unmixed
    <2>5. QED  BY <2>1, <2>2, <2>3, <2>4 DEF ChildInv
  <1>5. ASSUME idx <= Len(bkgd), NEW pid \in PidRead(bkgd[idx]), pid = cur.n
        PROVE  bkgd[idx].pid = cur.n
    BY <1>2, <1>5, PidFacts DEF PidRead
  <1>6. QED  BY <1>3, <1>4, <1>5 DEF rm_process, Return, Fault, GoTo, callVars

(* free: the entry of the killed child, or of another one after the        *)
(* handler came between.                                                   *)
LEMMA FreeChild == ASSUME ChildInv, free_process PROVE ChildInv'
  <1>1. pc = "freeing" /\ UNCHANGED <<child, new, idx, len, erased, mixed>>
    BY DEF free_process, At, ListStep
  <1>2. idx \in Nat /\ idx >= 2 /\ Places /\ cur.n \in Pids /\ child[cur.n].term
        /\ bkgd \in Seq(Slots) /\ Len(bkgd) \in Nat /\ mixed \in Nat
        /\ \A i \in 1 .. Len(bkgd) : bkgd[i] \in Slots
    BY <1>1, ListFacts DEF ChildInv, Places, ListTypes, InKill, Removing
  <1>3. ASSUME pc' = "erasing", cur' = cur, ListTypes'  PROVE  Places'
    BY <1>1, <1>2, <1>3 DEF Places, Entering, Waiting, Setting, InKill, Removing, Erasing
  <1>4. CASE Fault /\ UNCHANGED bkgd
    <2>1. ListTypes' /\ pc' = "crashed"
      BY <1>1, <1>4 DEF ChildInv, ListTypes, Fault
    <2>2. QED  BY <2>1, Faulted
  <1>5. CASE idx <= Len(bkgd) + 1 /\ Slot(idx) = Null /\ GoTo("erasing") /\ UNCHANGED bkgd
    <2>1. pc' = "erasing" /\ cur' = cur /\ bkgd' = bkgd
      BY <1>5 DEF GoTo, callVars
    <2>2. ListTypes'
      BY <1>1, <2>1 DEF ChildInv, ListTypes
    <2>3. idx <= Len(bkgd) => bkgd[idx].freed /\ bkgd[idx].pid # cur.n
      <3> HAVE idx <= Len(bkgd)
      <3>1. bkgd[idx] = Null
        BY <1>5 DEF Slot
      <3>2. QED  BY <1>2, <3>1, NullIsSlot, PidFacts
    <2>4. CountInv'
      <3>1. Lost' \subseteq Lost
        BY <1>1, <2>1, SameLost DEF ChildInv, Entering, SameEntries
      <3>2. pc \notin Ended /\ pc' \notin Ended \union {"killing", "freeing"}
        BY <1>1, <2>1 DEF Ended
      <3>3. \/ idx' <= Len(bkgd') /\ bkgd'[idx'].freed
            \/ Cardinality(Lost) + 1 <= mixed
        BY <1>1, <2>1, <2>3 DEF ChildInv, CountInv
      <3>4. QED  BY <1>1, <3>1, <3>2, <3>3, CountNext
    <2>5. Exact'
      <3>1. mixed # 0
        BY <1>1, <2>3 DEF ChildInv, Exact, Unmixed, Ended, Removing
      <3>2. QED  BY <1>1, <3>1 DEF Exact
    <2>6. QED  BY <1>3, <2>1, <2>2, <2>4, <2>5 DEF ChildInv
  <1>6. CASE idx <= Len(bkgd) /\ GoTo("erasing") /\ bkgd' = [bkgd EXCEPT ![idx].freed = TRUE]
    <2> DEFINE e == [bkgd[idx] EXCEPT !.freed = TRUE]
               x == bkgd[idx].pid
    <2>1. pc' = "erasing" /\ cur' = cur /\ idx \in 1 .. Len(bkgd)
      BY <1>2, <1>6 DEF GoTo, callVars
    <2>2. e \in Slots /\ e.pid = bkgd[idx].pid /\ e.freed
      BY <1>2, <2>1 DEF Slots
    <2>3. bkgd' = [bkgd EXCEPT ![idx] = e]
      BY <1>6
    <2> HIDE DEF e
    <2>4. /\ bkgd' \in Seq(Slots) /\ Len(bkgd') = Len(bkgd)
          /\ \A i \in 1 .. Len(bkgd) : bkgd'[i] = IF i = idx THEN e ELSE bkgd[i]
      BY <1>2, <2>1, <2>2, <2>3, EntrySet
    <2>5. \A i \in 1 .. Len(bkgd) : bkgd'[i].pid = bkgd[i].pid
      BY <2>2, <2>4
    <2>6. ListTypes'
      <3>1. 1 \in 1 .. Len(bkgd)
        BY <1>2, <2>1
      <3>2. QED  BY <1>1, <2>4, <2>5, <3>1 DEF ChildInv, ListTypes
    <2>7. \A q \in Pids : Due(q)' => Due(q) /\ q # cur.n
      BY <1>1, <1>2 DEF Due
    <2>8. \A q \in Pids : q # x /\ Found(q) => Found(q)'
      <3> SUFFICES ASSUME NEW q \in Pids, q # x, Found(q)  PROVE  Found(q)'
        OBVIOUS
      <3>1. PICK i \in 2 .. Len(bkgd) : bkgd[i].pid = q /\ ~bkgd[i].freed
        BY DEF Found
      <3>2. i # idx /\ i \in 1 .. Len(bkgd) /\ i \in 2 .. Len(bkgd')
        BY <1>2, <2>4, <3>1
      <3>3. QED  BY <2>4, <3>1, <3>2 DEF Found
    <2>9. CountInv'
      <3>1. pc \notin Ended /\ pc' \notin Ended \union {"killing", "freeing"}
        BY <1>1, <2>1 DEF Ended
      <3>2. idx' <= Len(bkgd') /\ bkgd'[idx'].freed
        BY <1>1, <1>6, <2>1, <2>2, <2>4
      <3>3. CASE x = cur.n
        <4>1. Lost' \subseteq Lost
          BY <2>7, <2>8, <3>3 DEF Lost
        <4>2. QED  BY <1>1, <3>1, <3>2, <4>1, CountNext
      <3>4. CASE x # cur.n
        <4>1. Cardinality(Lost) + 1 <= mixed
          BY <1>1, <3>4 DEF ChildInv, CountInv
        <4>2. Lost' \subseteq Lost \union {x}
          BY <2>7, <2>8 DEF Lost
        <4> HIDE DEF x
        <4>3. /\ Cardinality(Lost) \in Nat /\ Cardinality(Lost') \in Nat
              /\ Cardinality(Lost') <= Cardinality(Lost) + 1
          BY <4>2, LostFacts, OneMore
        <4>4. Cardinality(Lost') <= mixed'
          BY <1>1, <1>2, <4>1, <4>3
        <4>5. pc' # "exited"
          BY <2>1
        <4>6. QED  BY <2>1, <3>2, <4>4, <4>5 DEF CountInv
      <3>5. QED  BY <3>3, <3>4
    <2>10. Exact'
      <3> SUFFICES ASSUME mixed' = 0  PROVE  Unmixed'
        BY DEF Exact
      <3>1. Unmixed
        BY <1>1 DEF ChildInv, Exact, Ended
      <3>2. x = cur.n
        BY <1>1, <3>1 DEF Unmixed, Removing
      <3>3. ListHolds(bkgd', child')
        <4>1. 1 \in 1 .. Len(bkgd) /\ \A i \in 2 .. Len(bkgd) : i \in 1 .. Len(bkgd)
          BY <1>2, <2>1
        <4>2. QED  BY <1>1, <2>4, <2>5, <3>1, <4>1 DEF Unmixed, ListHolds
      <3>4. ASSUME NEW i \in 1 .. Len(bkgd'), bkgd'[i].freed  PROVE  Erasing' /\ i = idx'
        <4>1. i \in 1 .. Len(bkgd) /\ ~Erasing
          BY <1>1, <2>4 DEF Erasing
        <4>2. i = idx
          BY <2>4, <3>1, <3>4, <4>1 DEF Unmixed
        <4>3. QED  BY <1>1, <2>1, <4>2 DEF Erasing
      <3>5. idx' <= Len(bkgd') /\ bkgd'[idx'].pid = cur'.n
        BY <1>1, <1>6, <2>1, <2>4, <2>5, <3>2
      <3>6. ASSUME NEW q \in Pids, Due(q)'  PROVE  Entered(q)'
        <4>1. Due(q) /\ q # cur.n
          BY <2>7, <3>6
        <4>2. PICK i \in 2 .. Len(bkgd) :
                 bkgd[i].pid = q /\ (StatusHolds(bkgd[i], child) \/ Unset(q, i))
          BY <3>1, <4>1 DEF Unmixed, Entered
        <4>3. i # idx /\ i \in 1 .. Len(bkgd) /\ i \in 2 .. Len(bkgd')
          BY <1>2, <2>4, <3>2, <4>1, <4>2
        <4>4. bkgd'[i] = bkgd[i]
          BY <2>4, <4>3
        <4>5. QED  BY <1>1, <4>2, <4>3, <4>4 DEF Entered, Unset
      <3>7. ~Entering' /\ pc' \notin {"moving", "storing"}
        BY <2>1 DEF Entering
      <3>8. QED  BY <3>3, <3>4, <3>5, <3>6, <3>7 DEF Unmixed
    <2>11. QED  BY <1>3, <2>1, <2>6, <2>9, <2>10 DEF ChildInv
  <1>7. QED  BY <1>4, <1>5, <1>6 DEF free_process

(* Steps that only read the size of the list. *)
LEMMA ReadSize ==
  ASSUME ChildInv, UNCHANGED <<bkgd, idx, child, new, erased, mixed>>, cur' = cur,
         len' = Len(bkgd),
         \/ pc = "erasing" /\ pc' = "moving" /\ idx <= Len(bkgd)
         \/ pc = "push" /\ pc' = "storing"
  PROVE  ChildInv'
  <1>1. Len(bkgd) \in Nat
    BY ListFacts DEF ChildInv
  <1>2. ListTypes'
    BY <1>1 DEF ChildInv, ListTypes
  <1>3. Places'
    BY <1>1 DEF ChildInv, Places, Entering, Waiting, Setting, InKill, Removing, Erasing
  <1>4. CountInv'
    <2>1. Lost' \subseteq Lost
      BY SameLost DEF ChildInv, Entering, SameEntries
    <2>2. pc \notin Ended /\ pc' \notin Ended \union {"killing", "freeing"}
      BY DEF Ended
    <2>3. Erasing' => \/ idx' <= Len(bkgd') /\ bkgd'[idx'].freed
                      \/ Cardinality(Lost) + 1 <= mixed
      BY DEF ChildInv, CountInv, Erasing
    <2>4. QED  BY <2>1, <2>2, <2>3, CountNext
  <1>5. Exact'
    <2> SUFFICES ASSUME mixed' = 0  PROVE  Unmixed'
      BY DEF Exact
    <2>1. Unmixed
      BY DEF ChildInv, Exact, Ended
    <2>2. Entering' = Entering /\ Removing' = Removing /\ Erasing' = Erasing
      BY DEF Entering, Removing, Erasing
    <2>3. ASSUME NEW q \in Pids, Due(q)'  PROVE  Entered(q)'
      <3>1. Due(q)
        BY <2>3 DEF Due
      <3>2. PICK i \in 2 .. Len(bkgd) :
               bkgd[i].pid = q /\ (StatusHolds(bkgd[i], child) \/ Unset(q, i))
        BY <2>1, <3>1 DEF Unmixed, Entered
      <3>3. QED  BY <3>2 DEF Entered, Unset
    <2>4. QED  BY <2>1, <2>2, <2>3 DEF Unmixed
  <1>6. QED  BY <1>2, <1>3, <1>4, <1>5 DEF ChildInv

LEMMA EraseChild == ASSUME ChildInv, vector_erase PROVE ChildInv'
  <1>1. pc = "erasing" /\ UNCHANGED <<bkgd, idx, child, new, erased, mixed>> /\ len' = Len(bkgd)
    BY DEF vector_erase, At, ListStep
  <1>2. CASE idx <= Len(bkgd)
    <2>1. pc' = "moving" /\ cur' = cur
      BY <1>2 DEF vector_erase, GoTo, callVars
    <2>2. QED  BY <1>1, <1>2, <2>1, ReadSize
  <1>3. CASE ~(idx <= Len(bkgd))
    <2>1. pc' = "crashed"
      BY <1>3 DEF vector_erase, Fault
    <2>2. ListTypes'
      BY <1>1, ListFacts DEF ChildInv, ListTypes
    <2>3. QED  BY <2>1, <2>2, Faulted
  <1>4. QED  BY <1>2, <1>3

LEMMA PushChild == ASSUME ChildInv, push_bkgd PROVE ChildInv'
  <1>1. /\ pc = "push" /\ pc' = "storing" /\ cur' = cur /\ len' = Len(bkgd)
        /\ UNCHANGED <<bkgd, idx, child, new, erased, mixed>>
    BY DEF push_bkgd, At, ListStep, GoTo, callVars
  <1>2. QED  BY <1>1, ReadSize

LEMMA SlotFacts ==
  ASSUME ListTypes
  PROVE  /\ \A k \in Nat : k >= 1 => Slot(k) \in Slots
         /\ \A k \in 1 .. Len(bkgd) : Slot(k) = bkgd[k]
  BY ListFacts, NullIsSlot DEF Slot

LEMMA BuiltSeq ==
  ASSUME NEW n \in Nat, NEW m \in [1 .. n -> Slots]
  PROVE  m \in Seq(Slots) /\ Len(m) = n
  OBVIOUS

(* What the slots from idx on lose by the erase is the one at idx.         *)
LEMMA MovesChild == ASSUME ChildInv, vector_erase_moves PROVE ChildInv'
  <1>1. /\ pc = "moving" /\ pc' = "looking" /\ cur' = cur /\ idx' = idx + 1
        /\ bkgd' = [k \in 1 .. len - 1 |-> IF k < idx THEN Slot(k) ELSE Slot(k + 1)]
        /\ UNCHANGED <<child, new, len, erased, mixed>>
    BY DEF vector_erase_moves, At, ListStep, GoTo, callVars
  <1>2. /\ idx \in Nat /\ idx >= 2 /\ len \in Nat /\ idx <= len /\ Len(bkgd) <= len
        /\ Places /\ cur.n \in Pids /\ child[cur.n].term /\ mixed \in Nat
        /\ bkgd \in Seq(Slots) /\ Len(bkgd) \in Nat /\ Len(bkgd) >= 1 /\ bkgd[1].pid = MainPid
        /\ \A i \in 1 .. Len(bkgd) : bkgd[i] \in Slots
    BY <1>1, ListFacts DEF ChildInv, Places, ListTypes, InKill, Removing, Erasing
  <1>3. /\ \A k \in Nat : k >= 1 => Slot(k) \in Slots
        /\ \A k \in 1 .. Len(bkgd) : Slot(k) = bkgd[k]
    BY SlotFacts DEF ChildInv
  <1>4. bkgd' \in Seq(Slots) /\ Len(bkgd') = len - 1
    <2>1. len - 1 \in Nat
      BY <1>2
    <2>2. \A k \in 1 .. len - 1 : Slot(k) \in Slots /\ Slot(k + 1) \in Slots
      BY <1>2, <1>3
    <2>3. bkgd' \in [1 .. len - 1 -> Slots]
      BY <1>1, <2>2
    <2>4. QED  BY <2>1, <2>3, BuiltSeq
  <1>5. \A k \in 1 .. len - 1 : bkgd'[k] = IF k < idx THEN Slot(k) ELSE Slot(k + 1)
    BY <1>1
  <1>6. \A i \in 1 .. Len(bkgd) :
           /\ i < idx => i \in 1 .. Len(bkgd') /\ bkgd'[i] = bkgd[i]
           /\ i > idx => i - 1 \in 1 .. Len(bkgd') /\ bkgd'[i - 1] = bkgd[i]
    <2> TAKE i \in 1 .. Len(bkgd)
    <2>1. CASE i < idx
      <3>1. i \in 1 .. len - 1
        BY <1>2, <2>1
      <3>2. QED  BY <1>2, <1>3, <1>4, <1>5, <2>1, <3>1
    <2>2. CASE i > idx
      <3>1. i - 1 \in 1 .. len - 1 /\ ~(i - 1 < idx) /\ (i - 1) + 1 = i
        BY <1>2, <2>2
      <3>2. bkgd'[i - 1] = Slot(i)
        BY <1>5, <3>1
      <3>3. i - 1 \in 1 .. Len(bkgd') /\ bkgd'[i - 1] = bkgd[i]
        BY <1>3, <1>4, <3>1, <3>2
      <3>4. ~(i < idx)
        BY <1>2, <2>2
      <3>5. QED  BY <3>3, <3>4
    <2>3. QED  BY <1>2, <2>1, <2>2
  <1>7. ListTypes'
    <2>1. 1 \in 1 .. Len(bkgd) /\ 1 < idx
      BY <1>2
    <2>2. bkgd'[1].pid = MainPid /\ Len(bkgd') >= 1
      BY <1>2, <1>4, <1>6, <2>1
    <2>3. QED  BY <1>1, <1>2, <1>4, <2>2 DEF ChildInv, ListTypes
  <1>8. Places'
    BY <1>1, <1>2 DEF Places, Entering, Waiting, Setting, InKill, Removing, Erasing
  <1>9. \A q \in Pids : Due(q)' => Due(q) /\ q # cur.n
    BY <1>1, <1>2 DEF Due
  <1>10. \A q \in Pids : Found(q) /\ (idx <= Len(bkgd) /\ ~bkgd[idx].freed => bkgd[idx].pid # q)
            => Found(q)'
    <2> SUFFICES ASSUME NEW q \in Pids, Found(q),
                        idx <= Len(bkgd) /\ ~bkgd[idx].freed => bkgd[idx].pid # q
                 PROVE  Found(q)'
      OBVIOUS
    <2>1. PICK i \in 2 .. Len(bkgd) : bkgd[i].pid = q /\ ~bkgd[i].freed
      BY DEF Found
    <2>2. i # idx /\ i \in 1 .. Len(bkgd)
      BY <1>2, <2>1
    <2>3. CASE i < idx
      <3>1. i \in 1 .. Len(bkgd') /\ bkgd'[i] = bkgd[i] /\ Len(bkgd') \in Nat
        BY <1>2, <1>4, <1>6, <2>2, <2>3
      <3>2. i \in 2 .. Len(bkgd')
        BY <2>1, <3>1
      <3>3. QED  BY <2>1, <3>1, <3>2 DEF Found
    <2>4. CASE i > idx
      <3>1. i - 1 \in 1 .. Len(bkgd') /\ bkgd'[i - 1] = bkgd[i]
        BY <1>6, <2>2, <2>4
      <3>2. i - 1 \in 2 .. Len(bkgd')
        <4>1. Len(bkgd') \in Nat
          BY <1>2, <1>4
        <4>2. QED  BY <1>2, <2>1, <2>4, <3>1, <4>1
      <3>3. QED  BY <2>1, <3>1, <3>2 DEF Found
    <2>5. QED  BY <1>2, <2>2, <2>3, <2>4
  <1>11. CountInv'
    <2>1. pc \notin Ended /\ pc' \notin Ended \union {"killing", "freeing"} /\ ~Erasing'
      BY <1>1 DEF Ended, Erasing
    <2>2. CASE idx <= Len(bkgd) /\ bkgd[idx].freed
      <3>1. Lost' \subseteq Lost
        BY <1>9, <1>10, <2>2 DEF Lost
      <3>2. QED  BY <1>1, <2>1, <3>1, CountNext
    <2>3. CASE ~(idx <= Len(bkgd) /\ bkgd[idx].freed)
      <3> DEFINE x == bkgd[idx].pid
      <3>1. Cardinality(Lost) + 1 <= mixed
        BY <1>1, <2>3 DEF ChildInv, CountInv, Erasing
      <3>2. Lost' \subseteq Lost \union {x}
        BY <1>9, <1>10 DEF Lost
      <3> HIDE DEF x
      <3>3. /\ Cardinality(Lost) \in Nat /\ Cardinality(Lost') \in Nat
            /\ Cardinality(Lost') <= Cardinality(Lost) + 1
        BY <3>2, LostFacts, OneMore
      <3>4. Cardinality(Lost') <= mixed'
        BY <1>1, <1>2, <3>1, <3>3
      <3>5. QED  BY <1>1, <2>1, <3>4 DEF CountInv
    <2>4. QED  BY <2>2, <2>3
  <1>12. Exact'
    <2> SUFFICES ASSUME mixed' = 0  PROVE  Unmixed'
      BY DEF Exact
    <2>1. Unmixed
      BY <1>1 DEF ChildInv, Exact, Ended
    <2>2. idx <= Len(bkgd) /\ bkgd[idx].pid = cur.n /\ len = Len(bkgd)
      BY <1>1, <2>1 DEF Unmixed, Removing, Erasing
    <2>3. idx \in 2 .. Len(bkgd) /\ idx \in 1 .. Len(bkgd)
      BY <1>2, <2>2
    <2>4. Without(bkgd, idx, bkgd')
      <3>1. ASSUME NEW i \in 1 .. Len(bkgd')
            PROVE  bkgd'[i] = IF i < idx THEN bkgd[i] ELSE bkgd[i + 1]
        <4>1. i \in 1 .. len - 1 /\ i \in 1 .. Len(bkgd) /\ i + 1 \in 1 .. Len(bkgd)
          BY <1>2, <1>4, <2>2
        <4>2. QED  BY <1>3, <1>5, <4>1
      <3>2. QED  BY <1>4, <2>2, <3>1 DEF Without
    <2>5. ListHolds(bkgd', child')
      BY <1>1, <2>1, <2>3, <2>4, WithoutKeeps DEF Unmixed
    <2>6. ASSUME NEW i \in 1 .. Len(bkgd')  PROVE  ~bkgd'[i].freed
      <3>1. PICK j \in 1 .. Len(bkgd) : bkgd'[i] = bkgd[j] /\ j # idx
        <4>1. CASE i < idx /\ i \in 1 .. Len(bkgd) /\ bkgd'[i] = bkgd[i]
          BY <1>2, <4>1
        <4>2. CASE i >= idx /\ i + 1 \in 1 .. Len(bkgd) /\ bkgd'[i] = bkgd[i + 1]
          BY <1>2, <4>2
        <4>3. QED  BY <1>2, <2>3, <2>4, <4>1, <4>2, WithoutHas
      <3>2. QED  BY <2>1, <3>1 DEF Unmixed
    <2>7. ASSUME NEW q \in Pids, Due(q)'  PROVE  Entered(q)'
      <3>1. Due(q) /\ q # cur.n
        BY <1>9, <2>7
      <3>2. PICK i \in 2 .. Len(bkgd) :
               bkgd[i].pid = q /\ (StatusHolds(bkgd[i], child) \/ Unset(q, i))
        BY <2>1, <3>1 DEF Unmixed, Entered
      <3>3. StatusHolds(bkgd[i], child')
        BY <1>1, <3>2 DEF Unset
      <3>4. i \in 1 .. Len(bkgd) /\ i # idx
        BY <1>2, <2>2, <3>1, <3>2
      <3>5. CASE i < idx
        <4>1. i \in 1 .. Len(bkgd') /\ bkgd'[i] = bkgd[i] /\ Len(bkgd') \in Nat
          BY <1>2, <1>4, <1>6, <3>4, <3>5
        <4>2. i \in 2 .. Len(bkgd')
          BY <3>2, <4>1
        <4>3. QED  BY <3>2, <3>3, <4>1, <4>2 DEF Entered
      <3>6. CASE i > idx
        <4>1. i - 1 \in 1 .. Len(bkgd') /\ bkgd'[i - 1] = bkgd[i] /\ Len(bkgd') \in Nat
          BY <1>2, <1>4, <1>6, <3>4, <3>6
        <4>2. i - 1 \in 2 .. Len(bkgd')
          BY <1>2, <3>2, <3>6, <4>1
        <4>3. QED  BY <3>2, <3>3, <4>1, <4>2 DEF Entered
      <3>7. QED  BY <1>2, <3>4, <3>5, <3>6
    <2>8. ~Entering' /\ ~Removing' /\ pc' \notin {"moving", "storing"}
      BY <1>1 DEF Entering, Removing, Erasing
    <2>9. QED  BY <2>5, <2>6, <2>7, <2>8 DEF Unmixed
  <1>13. QED  BY <1>7, <1>8, <1>11, <1>12 DEF ChildInv

LEMMA ForkChild == ASSUME ChildInv, NEW p \in Pids, fork(p) PROVE ChildInv'
  <1> DEFINE b == cur.kind = "bg"
  <1>1. /\ pc = "exec" /\ child[p].st = "none"
        /\ child' = [child EXCEPT ![p].st = "forked", ![p].bg = b]
        /\ new' = p
        /\ pc' = IF b THEN "setpgid" ELSE "waitpid"
        /\ UNCHANGED <<bkgd, idx, len, erased, mixed>>
    BY DEF fork, External, At
  <1>2. b \in BOOLEAN
    OBVIOUS
  <1> HIDE DEF b
  <1>3. child \in [Pids -> Kids]
    BY DEF ChildInv, ListTypes
  <1>4. OnlyKid(child, child', p) /\ child'[p].st = "forked" /\ child'[p].bg = b
    <2>1. child' = [child EXCEPT ![p].st = "forked", ![p].bg = b]
      BY <1>1
    <2>2. QED  BY <1>2, <1>3, <2>1, KidFork, ZenonT(60)
  <1>5. child' \in [Pids -> Kids] /\ \A q \in Pids : q # p => child'[q] = child[q]
    BY <1>4 DEF OnlyKid
  <1>6. ListTypes'
    BY <1>1, <1>5 DEF ChildInv, ListTypes
  <1>7. Places'
    BY <1>1 DEF Places, Entering, Waiting, Setting, InKill, Removing, Erasing
  <1>8. \A q \in Pids : Due(q)' => q # p /\ Due(q)
    <2> SUFFICES ASSUME NEW q \in Pids, Due(q)'  PROVE  q # p /\ Due(q)
      OBVIOUS
    <2>1. q # p
      BY <1>1, <1>4 DEF Due
    <2>2. child'[q] = child[q]
      BY <1>5, <2>1
    <2>3. QED  BY <1>1, <2>1, <2>2 DEF Due
  <1>9. CountInv'
    <2>1. Lost' \subseteq Lost
      BY <1>1, <1>8 DEF Lost, Found
    <2>2. pc \notin Ended /\ pc' \notin Ended \union {"killing", "freeing"} /\ ~Erasing'
      BY <1>1 DEF Ended, Erasing
    <2>3. QED  BY <1>1, <2>1, <2>2, CountNext
  <1>10. Exact'
    <2> SUFFICES ASSUME mixed' = 0  PROVE  Unmixed'
      BY DEF Exact
    <2>1. Unmixed
      BY <1>1 DEF ChildInv, Exact, Ended
    <2>2. ListHolds(bkgd', child')
      <3>1. \A q \in Pids : child[q].st # "none" => child'[q].st # "none"
        BY <1>4, <1>5
      <3>2. ListHolds(bkgd, child) /\ bkgd' = bkgd
        BY <1>1, <2>1 DEF Unmixed
      <3>3. QED  BY <3>1, <3>2, ListKept
    <2>3. \A i \in 1 .. Len(bkgd) : bkgd[i].pid # p
      <3> TAKE i \in 1 .. Len(bkgd)
      <3>1. CASE i = 1
        BY <3>1, PidFacts DEF ChildInv, ListTypes
      <3>2. CASE i # 1
        <4>1. i \in 2 .. Len(bkgd)
          BY <3>2, ListFacts DEF ChildInv
        <4>2. child[bkgd[i].pid].st # "none"
          BY <2>1, <4>1 DEF Unmixed, ListHolds
        <4>3. QED  BY <1>1, <4>2
      <3>3. QED  BY <3>1, <3>2
    <2>4. Entering' => child'[new'].st \notin {"none", "stopped"}
                       /\ \A i \in 1 .. Len(bkgd') : bkgd'[i].pid # new'
      BY <1>1, <1>4, <2>3
    <2>5. ASSUME NEW q \in Pids, Due(q)'  PROVE  Entered(q)'
      <3>1. Due(q) /\ child'[q] = child[q]
        BY <1>5, <1>8, <2>5
      <3>2. PICK i \in 2 .. Len(bkgd) :
               bkgd[i].pid = q /\ (StatusHolds(bkgd[i], child) \/ Unset(q, i))
        BY <2>1, <3>1 DEF Unmixed, Entered
      <3>3. StatusHolds(bkgd[i], child')
        BY <1>1, <3>1, <3>2 DEF Unset, StatusHolds
      <3>4. QED  BY <1>1, <3>2, <3>3 DEF Entered
    <2>6. ~Erasing /\ ~Removing' /\ pc' \notin {"moving", "storing"}
      BY <1>1 DEF Removing, Erasing
    <2>7. QED  BY <1>1, <2>1, <2>2, <2>4, <2>5, <2>6 DEF Unmixed
  <1>11. QED  BY <1>6, <1>7, <1>9, <1>10 DEF ChildInv

(* The new child comes behind the slots there were when the size was read. *)
LEMMA StoreChild == ASSUME ChildInv, vector_push_back PROVE ChildInv'
  <1>1. pc = "storing" /\ UNCHANGED <<child, new, idx, len, erased, mixed>>
    BY DEF vector_push_back, At, ListStep
  <1>2. /\ len \in Nat /\ Len(bkgd) <= len /\ new \in Pids
        /\ bkgd \in Seq(Slots) /\ Len(bkgd) \in Nat /\ Len(bkgd) >= 1 /\ bkgd[1].pid = MainPid
    BY <1>1, ListFacts DEF ChildInv, Places, ListTypes, Entering
  <1>3. CASE Fault /\ UNCHANGED bkgd
    <2>1. ListTypes' /\ pc' = "crashed"
      BY <1>1, <1>3 DEF ChildInv, ListTypes, Fault
    <2>2. QED  BY <2>1, Faulted
  <1>4. CASE /\ bkgd' = [k \in 1 .. len + 1 |-> IF k <= len THEN Slot(k) ELSE Entry(new)]
             /\ Return(0)
    <2>1. pc' = "return"
      BY <1>4 DEF Return
    <2>2. /\ \A k \in Nat : k >= 1 => Slot(k) \in Slots
          /\ \A k \in 1 .. Len(bkgd) : Slot(k) = bkgd[k]
      BY SlotFacts DEF ChildInv
    <2>3. Entry(new) \in Slots /\ Entry(new).pid = new /\ ~Entry(new).freed
          /\ Entry(new).status = Running
      BY <1>2 DEF Entry, Slots
    <2>4. bkgd' \in Seq(Slots) /\ Len(bkgd') = len + 1
      <3>1. \A k \in 1 .. len + 1 : Slot(k) \in Slots
        BY <1>2, <2>2
      <3>2. bkgd' \in [1 .. len + 1 -> Slots] /\ len + 1 \in Nat
        BY <1>2, <1>4, <2>3, <3>1
      <3>3. QED  BY <3>2, BuiltSeq
    <2>5. \A k \in 1 .. len + 1 : bkgd'[k] = IF k <= len THEN Slot(k) ELSE Entry(new)
      BY <1>4
    <2>6. /\ \A k \in 1 .. Len(bkgd) : k \in 1 .. Len(bkgd') /\ bkgd'[k] = bkgd[k]
          /\ len + 1 \in 2 .. Len(bkgd') /\ bkgd'[len + 1] = Entry(new)
      <3>1. \A k \in 1 .. Len(bkgd) : k \in 1 .. len + 1 /\ k <= len
        BY <1>2
      <3>2. len + 1 \in 1 .. len + 1 /\ ~(len + 1 <= len) /\ len + 1 \in 2 .. len + 1
        BY <1>2
      <3>3. QED  BY <2>2, <2>4, <2>5, <3>1, <3>2
    <2>7. ListTypes'
      <3>1. 1 \in 1 .. Len(bkgd)
        BY <1>2
      <3>2. bkgd'[1].pid = MainPid /\ Len(bkgd') >= 1
        BY <1>2, <2>4, <2>6, <3>1
      <3>3. QED  BY <1>1, <2>4, <3>2 DEF ChildInv, ListTypes
    <2>8. Places'
      BY <2>1 DEF Places, Entering, Waiting, Setting, InKill, Removing, Erasing
    <2>9. \A q \in Pids : Due(q)' => q = new \/ Due(q)
      BY <1>1 DEF Due
    <2>10. CountInv'
      <3>1. ASSUME NEW q \in Pids, Found(q)  PROVE  Found(q)'
        <4>1. PICK i \in 2 .. Len(bkgd) : bkgd[i].pid = q /\ ~bkgd[i].freed
          BY <3>1 DEF Found
        <4>2. i \in 1 .. Len(bkgd) /\ i \in 2 .. Len(bkgd') /\ bkgd'[i] = bkgd[i]
          BY <1>2, <2>4, <2>6, <4>1
        <4>3. QED  BY <4>1, <4>2 DEF Found
      <3>2. Found(new)'
        BY <1>1, <2>3, <2>6 DEF Found
      <3>3. Lost' \subseteq Lost
        <4> SUFFICES ASSUME NEW q \in Pids, Due(q)', ~Found(q)'  PROVE  Due(q) /\ ~Found(q)
          BY DEF Lost
        <4>1. q # new
          BY <1>1, <3>2
        <4>2. QED  BY <2>9, <3>1, <4>1
      <3>4. pc \notin Ended /\ pc' \notin Ended \union {"killing", "freeing"} /\ ~Erasing'
        BY <1>1, <2>1 DEF Ended, Erasing
      <3>5. QED  BY <1>1, <3>3, <3>4, CountNext
    <2>11. Exact'
      <3> SUFFICES ASSUME mixed' = 0  PROVE  Unmixed'
        BY DEF Exact
      <3>1. Unmixed
        BY <1>1 DEF ChildInv, Exact, Ended
      <3>2. len = Len(bkgd) /\ child[new].st \notin {"none", "stopped"}
            /\ (\A i \in 1 .. Len(bkgd) : bkgd[i].pid # new)
            /\ (\A i \in 1 .. Len(bkgd) : ~bkgd[i].freed)
        BY <1>1, <3>1 DEF Unmixed, Entering, Erasing
      <3>3. \A i \in 1 .. Len(bkgd') : i \in 1 .. Len(bkgd) \/ i = len + 1
        BY <1>2, <2>4, <3>2
      <3>4. ListHolds(bkgd', child')
        <4>1. \A i, j \in 1 .. Len(bkgd') : bkgd'[i].pid = bkgd'[j].pid => i = j
          BY <2>3, <2>6, <3>1, <3>2, <3>3 DEF Unmixed, ListHolds
        <4>2. ASSUME NEW i \in 2 .. Len(bkgd')
              PROVE  bkgd'[i].pid \in Pids /\ child[bkgd'[i].pid].st # "none"
          <5>1. i \in 1 .. Len(bkgd') /\ (i \in 1 .. Len(bkgd) => i \in 2 .. Len(bkgd))
            BY <1>2, <2>4
          <5>2. CASE i \in 1 .. Len(bkgd)
            <6>1. bkgd'[i] = bkgd[i] /\ i \in 2 .. Len(bkgd)
              BY <2>6, <5>1, <5>2
            <6>2. QED  BY <3>1, <6>1 DEF Unmixed, ListHolds
          <5>3. CASE i = len + 1
            BY <1>2, <2>3, <2>6, <3>2, <5>3
          <5>4. QED  BY <3>3, <5>1, <5>2, <5>3
        <4>3. QED  BY <1>1, <2>7, <4>1, <4>2 DEF ListHolds, ListTypes
      <3>5. \A i \in 1 .. Len(bkgd') : ~bkgd'[i].freed
        BY <2>3, <2>6, <3>2, <3>3
      <3>6. ASSUME NEW q \in Pids, Due(q)'  PROVE  Entered(q)'
        <4>1. CASE q = new
          <5>1. StatusHolds(bkgd'[len + 1], child)
            BY <2>3, <2>6, <3>2, <4>1 DEF StatusHolds, Running, Stopped
          <5>2. QED  BY <1>1, <2>3, <2>6, <4>1, <5>1 DEF Entered
        <4>2. CASE q # new
          <5>1. PICK i \in 2 .. Len(bkgd) :
                   bkgd[i].pid = q /\ (StatusHolds(bkgd[i], child) \/ Unset(q, i))
            BY <2>9, <3>1, <3>6, <4>2 DEF Unmixed, Entered
          <5>2. StatusHolds(bkgd[i], child)
            BY <1>1, <5>1 DEF Unset
          <5>3. i \in 1 .. Len(bkgd) /\ i \in 2 .. Len(bkgd')
            BY <1>2, <2>4, <2>6, <5>1
          <5>4. bkgd'[i] = bkgd[i]
            BY <2>6, <5>3
          <5>5. QED  BY <1>1, <5>1, <5>2, <5>3, <5>4 DEF Entered
        <4>3. QED  BY <4>1, <4>2
      <3>7. ~Entering' /\ ~Removing' /\ pc' \notin {"moving", "storing"}
        BY <2>1 DEF Entering, Removing, Erasing
      <3>8. QED  BY <3>4, <3>5, <3>6, <3>7 DEF Unmixed
    <2>12. QED  BY <2>7, <2>8, <2>10, <2>11 DEF ChildInv
  <1>5. QED  BY <1>3, <1>4 DEF vector_push_back

LEMMA WaitChild == ASSUME ChildInv, waitpid_returns PROVE ChildInv'
  <1>1. /\ Waiting /\ pc' = "return" /\ child[new].st = "zombie"
        /\ child' = SetSt(child, new, "gone")
        /\ UNCHANGED <<bkgd, new, idx, len, erased, mixed>>
    BY DEF waitpid_returns, At, Return, Waiting, SetSt
  <1>2. child \in [Pids -> Kids] /\ new \in Pids
    BY <1>1 DEF ChildInv, ListTypes, Places
  <1>3. "gone" \in {"none", "gone"} \union Exists
    OBVIOUS
  <1>4. /\ OnlyKid(child, child', new) /\ child'[new].st = "gone"
        /\ child'[new].bg = child[new].bg /\ child'[new].term = child[new].term
    BY <1>1, <1>2, <1>3, KidSet
  <1>5. NoWorse(child, child')
    BY <1>1, <1>2, <1>4 DEF NoWorse, OnlyKid, Exists, Alive
  <1>6. MovesOn
    BY <1>1 DEF MovesOn, Waiting, Entering, Erasing, Setting, Ended, Bare
  <1>7. QED  BY <1>1, <1>5, <1>6, Advance

LEMMA ExecChild == ASSUME ChildInv, NEW p \in Pids, ChildExec(p) PROVE ChildInv'
  <1>1. /\ child[p].st = "forked"
        /\ child' = [child EXCEPT ![p].st = "running", ![p].execed = TRUE]
        /\ UNCHANGED <<pc, cur, bkgd, new, idx, len, erased, mixed>>
    BY DEF ChildExec, callVars
  <1>2. child \in [Pids -> Kids]
    BY DEF ChildInv, ListTypes
  <1>3. /\ OnlyKid(child, child', p) /\ child'[p].st = "running"
        /\ child'[p].bg = child[p].bg /\ child'[p].term = child[p].term
    BY <1>1, <1>2, ZenonT(60) DEF OnlyKid, Kids, Exists, Alive
  <1>4. NoWorse(child, child')
    BY <1>1, <1>2, <1>3 DEF NoWorse, OnlyKid, Exists, Alive
  <1>5. MovesOn
    BY <1>1 DEF MovesOn
  <1>6. QED  BY <1>1, <1>4, <1>5, Advance

LEMMA EndChild ==
  ASSUME ChildInv, NEW p \in Pids, NEW code \in 0 .. 2, ChildEnds(p, code) PROVE ChildInv'
  <1>1. /\ child[p].st \in {"forked", "running"}
        /\ child' = [child EXCEPT ![p].st = "zombie", ![p].code = code]
        /\ UNCHANGED <<pc, cur, bkgd, new, idx, len, erased, mixed>>
    BY DEF ChildEnds, callVars
  <1>2. child \in [Pids -> Kids]
    BY DEF ChildInv, ListTypes
  <1>3. /\ OnlyKid(child, child', p) /\ child'[p].st = "zombie"
        /\ child'[p].bg = child[p].bg /\ child'[p].term = child[p].term
    BY <1>1, <1>2, KidEnd, ZenonT(60)
  <1>4. NoWorse(child, child')
    BY <1>1, <1>2, <1>3 DEF NoWorse, OnlyKid, Exists, Alive
  <1>5. MovesOn
    BY <1>1 DEF MovesOn
  <1>6. QED  BY <1>1, <1>4, <1>5, Advance

(* The exit starts at the second entry: it has not yet gone past anybody,  *)
(* and will not see those that are lost.                                   *)
LEMMA ExitBegins ==
  ASSUME ChildInv, pc \in {"prompt", "exec"}, pc' = "killing", idx' = 2,
         UNCHANGED <<new, bkgd, len, child, erased, mixed>>
  PROVE  ChildInv'
  <1>1. ListTypes'
    BY DEF ChildInv, ListTypes
  <1>2. Places'
    BY DEF Places, Entering, Waiting, Setting, InKill, Removing, Erasing
  <1>3. \A q \in Pids : Due(q)' => Due(q)
    BY DEF Due
  <1>4. CountInv'
    <2>1. Lost' \subseteq Lost /\ Unseen(2)' \subseteq Lost
      BY <1>3 DEF Lost, Found, Unseen
    <2>2. Unseen(idx)' = Unseen(2)'
      BY DEF Unseen
    <2>3. /\ Cardinality(Lost) <= mixed /\ Lost \subseteq Pids
          /\ mixed \in Nat /\ erased \in Nat /\ Cardinality(Lost) \in Nat
      BY LostFacts DEF ChildInv, ListTypes, CountInv, Ended
    <2>4. Cardinality(Lost') <= mixed
      BY <2>1, <2>3, FewerCount
    <2>5. Cardinality(Unseen(idx)') <= erased + mixed
      <3>1. erased + mixed \in Nat /\ Cardinality(Lost) <= erased + mixed
        BY <2>3
      <3>2. Unseen(idx)' \subseteq Lost
        BY <2>1, <2>2
      <3>3. QED  BY <2>3, <3>1, <3>2, FewerCount
    <2>6. QED  BY <2>4, <2>5 DEF CountInv, Erasing
  <1>5. Exact'
    <2> SUFFICES ASSUME mixed' = 0  PROVE  Unmixed'
      BY DEF Exact
    <2>1. Unmixed
      BY DEF ChildInv, Exact, Ended
    <2>2. ASSUME NEW q \in Pids, Due(q)'  PROVE  Entered(q)'
      <3>1. PICK i \in 2 .. Len(bkgd) :
               bkgd[i].pid = q /\ (StatusHolds(bkgd[i], child) \/ Unset(q, i))
        BY <1>3, <2>1, <2>2 DEF Unmixed, Entered
      <3>2. QED  BY <3>1 DEF Entered, Unset
    <2>3. QED  BY <2>1, <2>2 DEF Unmixed, Entering, Removing, Erasing
  <1>6. QED  BY <1>1, <1>2, <1>4, <1>5 DEF ChildInv

(* One round: whoever has the slot at idx is signalled before idx goes on. *)
LEMMA ZombiesChild == ASSUME ChildInv, kill_zombies PROVE ChildInv'
  <1>1. pc = "killing" /\ cur' = cur /\ UNCHANGED <<new, bkgd, len, erased, mixed>>
    BY DEF kill_zombies, At, callVars
  <1>2. /\ idx \in Nat /\ idx >= 2 /\ erased \in Nat /\ mixed \in Nat
        /\ Cardinality(Unseen(idx)) <= erased + mixed /\ Cardinality(Unseen(idx)) \in Nat
        /\ Cardinality(Lost) <= mixed /\ Cardinality(Lost) \in Nat
        /\ child \in [Pids -> Kids] /\ Len(bkgd) \in Nat
        /\ \A i \in 1 .. Len(bkgd) : bkgd[i] \in Slots
    BY <1>1, ListFacts, LostFacts DEF ChildInv, Places, ListTypes, CountInv, Ended
  <1>3. erased + mixed \in Nat
    BY <1>2
  <1>4. CASE pc' = "crashed" /\ UNCHANGED <<child, idx>>
    <2>1. ListTypes'
      BY <1>1, <1>4 DEF ChildInv, ListTypes
    <2>2. QED  BY <1>4, <2>1, Faulted
  <1>5. CASE idx > Len(bkgd) /\ pc' = "exited" /\ UNCHANGED <<child, idx>>
    <2>1. ListTypes'
      BY <1>1, <1>5 DEF ChildInv, ListTypes
    <2>2. Places'
      BY <1>5 DEF Places, Entering, Waiting, Setting, InKill, Removing, Erasing
    <2>3. Unsignalled' \subseteq Unseen(idx)
      <3>1. \A i \in idx .. Len(bkgd) : FALSE
        BY <1>2, <1>5
      <3>2. QED  BY <1>1, <1>5, <3>1 DEF Unsignalled, Unseen, Due, Exists
    <2>4. Cardinality(Unsignalled') <= erased + mixed
      BY <1>2, <1>3, <2>3, LostFacts, FewerCount
    <2>5. CountInv'
      BY <1>1, <1>5, <2>4 DEF CountInv, Ended, Erasing
    <2>6. Exact'
      BY <1>5 DEF Exact, Ended
    <2>7. QED  BY <2>1, <2>2, <2>5, <2>6 DEF ChildInv
  <1>6. ASSUME idx <= Len(bkgd), NEW pid \in PidRead(bkgd[idx]), child' = Signalled(pid),
               idx' = idx + 1, pc' = pc
        PROVE  ChildInv'
    <2>1. idx \in 1 .. Len(bkgd) /\ idx \in Nat
      BY <1>2, <1>6
    <2>2. NoWorse(child, child') /\ (pid \in Pids => ~Due(pid)')
      <3>1. CASE pid \in Pids /\ child[pid].st \in Exists
        <4>1. child' = SetTerm(child, pid)
          BY <1>6, <3>1 DEF Signalled, SetTerm
        <4>2. OnlyKid(child, child', pid) /\ child'[pid].st = child[pid].st
              /\ child'[pid].bg = child[pid].bg /\ child'[pid].term = TRUE
          BY <1>2, <3>1, <4>1, KidTerm
        <4>3. NoWorse(child, child')
          BY <3>1, <4>2 DEF NoWorse, OnlyKid
        <4>4. QED  BY <4>2, <4>3 DEF Due
      <3>2. CASE ~(pid \in Pids /\ child[pid].st \in Exists)
        <4>1. child' = child
          BY <1>6, <3>2 DEF Signalled
        <4>2. QED  BY <1>2, <3>2, <4>1, NoWorseSame DEF Due
      <3>3. QED  BY <3>1, <3>2
    <2>3. Lost' \subseteq Lost
      BY <1>1, <1>6, <2>2, UnseenKept DEF Entering
    <2>4. Unseen(idx)' \subseteq Unseen(idx)
      <3>0. \A q \in Pids : Due(q)' => Due(q)
        BY <1>1, <1>6, <2>2, DueKept DEF Entering
      <3> SUFFICES ASSUME NEW q \in Pids, Due(q)', NEW i \in idx .. Len(bkgd),
                          \A j \in idx + 1 .. Len(bkgd) : bkgd[j].pid = q => bkgd[j].freed,
                          bkgd[i].pid = q
                   PROVE  bkgd[i].freed
        BY <1>1, <1>6, <3>0 DEF Unseen
      <3>1. CASE i = idx
        <4> SUFFICES ASSUME ~bkgd[idx].freed  PROVE  FALSE
          BY <3>1
        <4>1. pid = bkgd[idx].pid
          BY <1>2, <1>6, <2>1, NullIsSlot
        <4>2. QED  BY <2>2, <3>1, <4>1
      <3>2. CASE i # idx
        <4>1. i \in idx + 1 .. Len(bkgd)
          BY <1>2, <3>2
        <4>2. QED  BY <4>1
      <3>3. QED  BY <3>1, <3>2
    <2>5. ListTypes'
      BY <1>1, <1>2, <1>6, <2>2 DEF ChildInv, ListTypes, NoWorse
    <2>6. Places'
      <3>1. idx' >= 2
        BY <1>2, <1>6
      <3>2. QED  BY <1>1, <1>6, <3>1 DEF Places, Entering, Waiting, Setting, InKill, Removing, Erasing
    <2>7. CountInv'
      <3>1. Cardinality(Lost') <= mixed
        BY <1>2, <2>3, LostFacts, FewerCount
      <3>2. Cardinality(Unseen(idx)') <= erased + mixed
        BY <1>2, <1>3, <2>4, LostFacts, FewerCount
      <3>3. QED  BY <1>1, <1>6, <3>1, <3>2 DEF CountInv, Erasing
    <2>8. Exact'
      <3> SUFFICES ASSUME mixed' = 0  PROVE  Unmixed'
        BY DEF Exact
      <3>1. Unmixed
        BY <1>1 DEF ChildInv, Exact, Ended
      <3>2. ListHolds(bkgd', child')
        <4>1. ListHolds(bkgd, child) /\ bkgd' = bkgd
          BY <1>1, <3>1 DEF Unmixed
        <4>2. QED  BY <2>2, <4>1, ListKept DEF NoWorse
      <3>3. ASSUME NEW q \in Pids, Due(q)'  PROVE  Entered(q)'
        <4>1. Due(q)
          BY <1>1, <1>6, <2>2, <3>3, DueKept DEF Entering
        <4>2. Entered(q)
          BY <3>1, <4>1 DEF Unmixed
        <4>3. \A i : ~Unset(q, i)
          BY <1>1 DEF Unset
        <4>4. QED  BY <1>1, <2>2, <4>2, <4>3, EnteredKept
      <3>4. ~Erasing /\ ~Entering' /\ ~Removing' /\ pc' \notin {"moving", "storing"}
        BY <1>1, <1>6 DEF Erasing, Entering, Removing
      <3>5. QED  BY <1>1, <3>1, <3>2, <3>3, <3>4 DEF Unmixed
    <2>9. QED  BY <2>5, <2>6, <2>7, <2>8 DEF ChildInv
  <1>7. QED  BY <1>4, <1>5, <1>6 DEF kill_zombies

(* The handler takes away the entry of the child it reaps.  The commands   *)
(* of the shell that it comes into the middle of may miss one more child   *)
(* for that: each kind of them is counted.                                 *)
LEMMA HandlerChild == ASSUME ChildInv, sigchld_handler PROVE ChildInv'
  <1>1. cur' = cur /\ UNCHANGED <<new, idx, len>>
    BY DEF sigchld_handler, callVars
  <1>2. /\ child \in [Pids -> Kids] /\ Len(bkgd) \in Nat /\ DOMAIN bkgd = 1 .. Len(bkgd)
        /\ bkgd \in Seq(Slots) /\ erased \in Nat /\ mixed \in Nat /\ idx \in Nat
        /\ Len(bkgd) >= 1 /\ bkgd[1].pid = MainPid
    BY ListFacts DEF ChildInv, ListTypes
  <1>3. ASSUME NoWorse(child, child'), handler_finds_none \/ handler_faults
        PROVE  ChildInv'
    <2>1. CASE handler_finds_none
      <3>1. MovesOn
        BY <1>1, <2>1 DEF MovesOn, handler_finds_none
      <3>2. QED  BY <1>1, <1>3, <2>1, <3>1, Advance DEF handler_finds_none
    <2>2. CASE handler_faults
      <3>1. ListTypes'
        BY <1>1, <1>3, <2>2 DEF ChildInv, ListTypes, NoWorse, handler_faults
      <3>2. QED  BY <2>2, <3>1, Faulted DEF handler_faults
    <2>3. QED  BY <1>3, <2>1, <2>2
  <1>4. ASSUME NEW p \in Zombies, child' = SetSt(child, p, "gone")
        PROVE  NoWorse(child, child') /\ child'[p].st = "gone"
    <2>1. p \in Pids /\ child[p].st = "zombie"
      BY DEF Zombies
    <2>2. "gone" \in {"none", "gone"} \union Exists
      OBVIOUS
    <2>3. /\ OnlyKid(child, child', p) /\ child'[p].st = "gone"
          /\ child'[p].bg = child[p].bg /\ child'[p].term = child[p].term
      BY <1>2, <1>4, <2>1, <2>2, KidSet
    <2>4. NoWorse(child, child')
      BY <1>2, <2>1, <2>3 DEF NoWorse, OnlyKid, Exists, Alive
    <2>5. QED  BY <2>3, <2>4
  <1>5. ASSUME NEW p \in Zombies, child' = SetSt(child, p, "gone"),
               NEW k \in DOMAIN bkgd, bkgd[k].pid = p, handler_removes(k)
        PROVE  ChildInv'
    <2>1. /\ p \in Pids /\ NoWorse(child, child') /\ child'[p].st = "gone"
          /\ child' \in [Pids -> Kids]
      BY <1>4, <1>5 DEF Zombies, NoWorse
    <2>2. k \in 1 .. Len(bkgd) /\ k \in 2 .. Len(bkgd) /\ k \in Nat /\ k >= 2 /\ k <= Len(bkgd)
      <3>1. k # 1
        BY <1>2, <1>5, <2>1, PidFacts
      <3>2. QED  BY <1>2, <3>1
    <2>3. Without(bkgd, k, bkgd')
      BY <1>2, <1>5, <2>2, RemoveAtIs DEF handler_removes
    <2>4. /\ bkgd' \in Seq(Slots) /\ Len(bkgd') = Len(bkgd) - 1
          /\ \A i \in 1 .. Len(bkgd) : i < k => i \in 1 .. Len(bkgd') /\ bkgd'[i] = bkgd[i]
          /\ \A i \in 1 .. Len(bkgd) : i > k => i - 1 \in 1 .. Len(bkgd') /\ bkgd'[i - 1] = bkgd[i]
          /\ \A i \in 1 .. Len(bkgd') : \E j \in 1 .. Len(bkgd) : bkgd'[i] = bkgd[j]
      <3>1. bkgd' \in Seq(Slots)
        BY <2>3 DEF Without
      <3>2. /\ Len(bkgd') = Len(bkgd) - 1
            /\ \A i \in 1 .. Len(bkgd) : i < k => i \in 1 .. Len(bkgd') /\ bkgd'[i] = bkgd[i]
            /\ \A i \in 1 .. Len(bkgd) : i > k => i - 1 \in 1 .. Len(bkgd') /\ bkgd'[i - 1] = bkgd[i]
            /\ \A i \in 1 .. Len(bkgd') : \/ i < k /\ i \in 1 .. Len(bkgd) /\ bkgd'[i] = bkgd[i]
                                          \/ i >= k /\ i + 1 \in 1 .. Len(bkgd) /\ bkgd'[i] = bkgd[i + 1]
        <4>1. bkgd \in Seq(Slots) /\ k \in 1 .. Len(bkgd)
          BY <1>2, <2>2
        <4>2. QED  BY <2>3, <4>1, WithoutHas
      <3>3. \A i \in 1 .. Len(bkgd') : \E j \in 1 .. Len(bkgd) : bkgd'[i] = bkgd[j]
        BY <3>2
      <3>4. QED  BY <3>1, <3>2, <3>3
    <2>5. /\ erased' = IF pc = "killing" THEN erased + 1 ELSE erased
          /\ mixed' = IF Changing THEN mixed + 1 ELSE mixed
          /\ pc' = pc \/ pc' = "crashed"
      BY <1>5 DEF handler_removes
    <2>6. ListTypes'
      <3>1. 1 \in 1 .. Len(bkgd) /\ 1 < k
        BY <1>2, <2>2
      <3>2. bkgd'[1].pid = MainPid /\ Len(bkgd') >= 1
        BY <1>2, <2>2, <2>4, <3>1
      <3>3. erased' \in Nat /\ mixed' \in Nat
        BY <1>2, <2>5
      <3>4. QED  BY <1>1, <2>1, <2>4, <3>2, <3>3 DEF ChildInv, ListTypes
    <2>7. CASE pc' = "crashed"
      BY <2>6, <2>7, Faulted
    <2>8. CASE pc' = pc
      <3>1. /\ Entering' = Entering /\ Waiting' = Waiting /\ Setting' = Setting
            /\ InKill' = InKill /\ Removing' = Removing /\ Erasing' = Erasing
        BY <1>1, <2>8 DEF Entering, Waiting, Setting, InKill, Removing, Erasing
      <3>2. Places'
        <4>1. Places
          BY DEF ChildInv
        <4>2. Setting \/ InKill => cur.n \in Pids
          BY <4>1 DEF Places
        <4>3. /\ InKill => child'[cur.n].term
              /\ Setting /\ cur.kind = "stop" => child'[cur.n].st \in {"stopped", "zombie", "gone"}
              /\ pc = "changing" /\ cur.kind = "cont" =>
                    child'[cur.n].st \in {"forked", "running", "zombie", "gone"}
          BY <2>1, <4>1, <4>2 DEF Places, NoWorse, Setting
        <4>4. pc \in {"moving", "storing"} => Len(bkgd') <= len
          <5> HAVE pc \in {"moving", "storing"}
          <5>1. Len(bkgd) <= len /\ len \in Nat
            BY <4>1 DEF Places, ChildInv, ListTypes
          <5>2. QED  BY <1>2, <2>4, <5>1
        <4>5. QED  BY <1>1, <2>8, <3>1, <4>1, <4>3, <4>4 DEF Places
      <3>3. \A q \in Pids : Due(q)' => Due(q) /\ q # p
        <4> SUFFICES ASSUME NEW q \in Pids, Due(q)'  PROVE  Due(q) /\ q # p
          OBVIOUS
        <4>1. Due(q)
          BY <1>1, <2>1, <3>1, DueKept
        <4>2. q # p
          BY <2>1 DEF Due, Exists, Alive
        <4>3. QED  BY <4>1, <4>2
      <3>4. \A q \in Pids : q # p /\ Found(q) => Found(q)'
        <4> SUFFICES ASSUME NEW q \in Pids, q # p, Found(q)  PROVE  Found(q)'
          OBVIOUS
        <4>1. PICK i \in 2 .. Len(bkgd) : bkgd[i].pid = q /\ ~bkgd[i].freed
          BY DEF Found
        <4>2. i # k /\ i \in 1 .. Len(bkgd)
          BY <1>2, <1>5, <4>1
        <4>3. CASE i < k
          <5>1. i \in 1 .. Len(bkgd') /\ bkgd'[i] = bkgd[i]
            BY <2>4, <4>2, <4>3
          <5>2. i \in 2 .. Len(bkgd')
            BY <1>2, <2>4, <4>1, <5>1
          <5>3. QED  BY <4>1, <5>1, <5>2 DEF Found
        <4>4. CASE i > k
          <5>1. i - 1 \in 1 .. Len(bkgd') /\ bkgd'[i - 1] = bkgd[i]
            BY <2>4, <4>2, <4>4
          <5>2. i - 1 \in 2 .. Len(bkgd')
            BY <1>2, <2>2, <2>4, <4>1, <4>4, <5>1
          <5>3. QED  BY <4>1, <5>1, <5>2 DEF Found
        <4>5. QED  BY <1>2, <2>2, <4>2, <4>3, <4>4
      <3>5. CountInv'
        <4>1. Lost' \subseteq Lost
          BY <3>3, <3>4 DEF Lost
        <4>2. pc \notin Ended => /\ Cardinality(Lost) <= mixed /\ Cardinality(Lost) \in Nat
                                 /\ Cardinality(Lost') <= Cardinality(Lost)
                                 /\ Cardinality(Lost') \in Nat
          BY <4>1, LostFacts, FewerCount DEF ChildInv, CountInv
        <4>3. pc' \notin Ended => Cardinality(Lost') <= mixed'
          BY <1>2, <2>5, <2>8, <4>2
        <4>4. pc' = "freeing" \/ Erasing' => Cardinality(Lost') + 1 <= mixed'
          <5> HAVE pc' = "freeing" \/ Erasing'
          <5>1. Changing /\ pc \notin Ended
            BY <2>8 DEF Changing, Erasing, Ended
          <5>2. QED  BY <1>2, <2>5, <4>2, <5>1
        <4>5. pc' = "killing" => Cardinality(Unseen(idx)') <= erased' + mixed'
          <5> HAVE pc' = "killing"
          <5> DEFINE x == bkgd[idx].pid
                     A == Unseen(idx)
          <5>1. Unseen(idx)' \subseteq A \union {x}
            <6> SUFFICES ASSUME NEW q \in Pids, Due(q)', q # x,
                                \A i \in idx .. Len(bkgd') : bkgd'[i].pid = q => bkgd'[i].freed,
                                NEW i \in idx .. Len(bkgd), bkgd[i].pid = q
                         PROVE  bkgd[i].freed
              BY <1>1, <3>3 DEF Unseen
            <6>1. i # idx /\ i # k
              BY <1>5, <3>3
            <6>2. idx >= 2
              BY <2>8 DEF ChildInv, Places
            <6>3. i \in 1 .. Len(bkgd) /\ i > idx
              BY <1>2, <6>1, <6>2
            <6>4. CASE i < k
              <7>1. i \in 1 .. Len(bkgd') /\ bkgd'[i] = bkgd[i]
                BY <2>4, <6>3, <6>4
              <7>2. i \in idx .. Len(bkgd')
                BY <1>2, <2>4, <6>3, <7>1
              <7>3. QED  BY <7>1, <7>2
            <6>5. CASE i > k
              <7>1. i - 1 \in 1 .. Len(bkgd') /\ bkgd'[i - 1] = bkgd[i]
                BY <2>4, <6>3, <6>5
              <7>2. i - 1 \in idx .. Len(bkgd')
                BY <1>2, <2>4, <6>3, <7>1
              <7>3. QED  BY <7>1, <7>2
            <6>6. QED  BY <2>2, <6>1, <6>3, <6>4, <6>5
          <5>2. A \subseteq Pids /\ Cardinality(A) <= erased + mixed
            BY <2>8, LostFacts DEF ChildInv, CountInv
          <5>3. erased' = erased + 1 /\ mixed' = mixed
            BY <2>5, <2>8 DEF Changing
          <5> HIDE DEF x, A
          <5>4. /\ Cardinality(A) \in Nat /\ Cardinality(Unseen(idx)') \in Nat
                /\ Cardinality(Unseen(idx)') <= Cardinality(A) + 1
            BY <5>1, <5>2, OneMore
          <5>5. QED  BY <1>2, <5>2, <5>3, <5>4
        <4>6. pc' = "exited" => Cardinality(Unsignalled') <= erased' + mixed'
          <5> HAVE pc' = "exited"
          <5>1. Cardinality(Unsignalled) <= erased + mixed
            BY <2>8 DEF ChildInv, CountInv
          <5>2. erased' = erased /\ mixed' = mixed /\ erased + mixed \in Nat
            BY <1>2, <2>5, <2>8 DEF Changing
          <5>3. QED  BY <2>1, <5>1, <5>2, UnsignalledKept, FewerCount
        <4>7. QED  BY <4>3, <4>4, <4>5, <4>6 DEF CountInv
      <3>6. Exact'
        <4> SUFFICES ASSUME pc' \notin Ended, mixed' = 0  PROVE  Unmixed'
          BY DEF Exact
        <4>1. ~Changing /\ mixed = 0
          BY <1>2, <2>5
        <4>2. Unmixed
          BY <2>8, <4>1 DEF ChildInv, Exact
        <4>3. ~Erasing /\ ~Removing /\ pc \notin {"moving", "storing", "changing"}
          BY <4>1 DEF Changing, Erasing, Removing
        <4>4. ListHolds(bkgd', child')
          <5>1. ListHolds(bkgd', child)
            BY <2>2, <2>3, <4>2, WithoutKeeps DEF Unmixed
          <5>2. QED  BY <2>1, <5>1, ListKept DEF NoWorse
        <4>5. \A i \in 1 .. Len(bkgd') : ~bkgd'[i].freed
          BY <2>4, <4>2, <4>3 DEF Unmixed
        <4>6. Entering' => child'[new'].st \notin {"none", "stopped"}
                           /\ \A i \in 1 .. Len(bkgd') : bkgd'[i].pid # new'
          <5> HAVE Entering'
          <5>1. new \in Pids /\ Entering
            BY <3>1 DEF ChildInv, Places
          <5>2. child[new].st \notin {"none", "stopped"}
                /\ \A i \in 1 .. Len(bkgd) : bkgd[i].pid # new
            BY <4>2, <5>1 DEF Unmixed
          <5>3. child'[new].st \notin {"none", "stopped"}
            BY <2>1, <5>1, <5>2 DEF NoWorse, Alive
          <5>4. QED  BY <1>1, <2>4, <5>2, <5>3
        <4>7. ASSUME NEW q \in Pids, Due(q)'  PROVE  Entered(q)'
          <5>1. Due(q) /\ q # p
            BY <3>3, <4>7
          <5>2. PICK i \in 2 .. Len(bkgd) :
                   bkgd[i].pid = q /\ (StatusHolds(bkgd[i], child) \/ Unset(q, i))
            BY <4>2, <5>1 DEF Unmixed, Entered
          <5>3. StatusHolds(bkgd[i], child) => StatusHolds(bkgd[i], child')
            BY <2>1, <5>2 DEF StatusHolds, NoWorse
          <5>4. \A j : Unset(q, i) => Unset(q, j)'
            BY <1>1, <2>8, <4>3 DEF Unset
          <5>5. i # k /\ i \in 1 .. Len(bkgd)
            BY <1>2, <1>5, <5>1, <5>2
          <5>6. CASE i < k
            <6>1. i \in 1 .. Len(bkgd') /\ bkgd'[i] = bkgd[i]
              BY <2>4, <5>5, <5>6
            <6>2. i \in 2 .. Len(bkgd')
              BY <1>2, <2>4, <5>2, <6>1
            <6>3. QED  BY <5>2, <5>3, <5>4, <6>1, <6>2 DEF Entered
          <5>7. CASE i > k
            <6>1. i - 1 \in 1 .. Len(bkgd') /\ bkgd'[i - 1] = bkgd[i]
              BY <2>4, <5>5, <5>7
            <6>2. i - 1 \in 2 .. Len(bkgd')
              BY <1>2, <2>2, <2>4, <5>2, <5>7, <6>1
            <6>3. QED  BY <5>2, <5>3, <5>4, <6>1, <6>2 DEF Entered
          <5>8. QED  BY <1>2, <2>2, <5>5, <5>6, <5>7
        <4>8. QED  BY <2>8, <3>1, <4>3, <4>4, <4>5, <4>6, <4>7 DEF Unmixed
      <3>7. QED  BY <2>6, <3>2, <3>5, <3>6 DEF ChildInv
    <2>9. QED  BY <2>5, <2>7, <2>8
  <1>6. CASE child' = child /\ (handler_finds_none \/ handler_faults)
    BY <1>2, <1>3, <1>6, NoWorseSame
  <1>7. QED  BY <1>3, <1>4, <1>5, <1>6 DEF sigchld_handler, SetSt

(* The steps that leave the children and the list alone. *)
LEMMA QuietSteps ==
  ASSUME \/ ReadLine \/ \E line \in Garbage : ReadEof(line)
         \/ ReturnStep \/ ExecEmpty
         \/ \E r \in {0, 1} : cd(r)
         \/ ps \/ ps_prints \/ history \/ replay_index \/ replay_prefix
         \/ kill_fails \/ fork_fails \/ setpgid \/ waitpid_blocks \/ waitpid_fails
  PROVE  UNCHANGED procVars /\ MovesOn
  <1>1. ASSUME pc \in {"prompt", "exec", "return", "listing"}, pc' \in Bare, UNCHANGED procVars
        PROVE  UNCHANGED procVars /\ MovesOn
    BY <1>1 DEF MovesOn, Entering, Erasing, Setting, Ended
  <1>2. CASE ReadLine
    <2>1. pc = "prompt" /\ pc' = "exec" /\ UNCHANGED procVars
      BY <1>2 DEF ReadLine, At, logic_exec
    <2>2. QED  BY <1>1, <2>1 DEF Bare
  <1>3. ASSUME NEW line \in Garbage, ReadEof(line)  PROVE  UNCHANGED procVars /\ MovesOn
    <2>1. pc = "prompt" /\ pc' = "exec" /\ UNCHANGED procVars
      BY <1>3 DEF ReadEof, At, logic_exec
    <2>2. QED  BY <1>1, <2>1 DEF Bare
  <1>4. CASE ReturnStep
    <2>1. pc = "return" /\ pc' \in {"prompt", "return", "exec"} /\ UNCHANGED procVars
      BY <1>4 DEF ReturnStep, At
    <2>2. QED  BY <1>1, <2>1 DEF Bare
  <1>5. CASE ExecEmpty
    <2>1. pc = "exec" /\ pc' = "return" /\ UNCHANGED procVars
      BY <1>5 DEF ExecEmpty, At, Return
    <2>2. QED  BY <1>1, <2>1 DEF Bare
  <1>6. ASSUME NEW r \in {0, 1}, cd(r)  PROVE  UNCHANGED procVars /\ MovesOn
    <2>1. pc = "exec" /\ pc' = "return" /\ UNCHANGED procVars
      BY <1>6 DEF cd, Exec, At, Return
    <2>2. QED  BY <1>1, <2>1 DEF Bare
  <1>7. CASE ps
    <2>1. pc = "exec" /\ pc' = "listing" /\ UNCHANGED procVars
      BY <1>7 DEF ps, Exec, At
    <2>2. QED  BY <1>1, <2>1 DEF Bare
  <1>8. CASE ps_prints
    <2>1. pc = "listing" /\ pc' \in {"return", "crashed"} /\ UNCHANGED procVars
      BY <1>8 DEF ps_prints, At, Return, Fault
    <2>2. QED  BY <1>1, <2>1 DEF Bare
  <1>9. CASE history
    <2>1. pc = "exec" /\ pc' \in {"return", "crashed"} /\ UNCHANGED procVars
      BY <1>9 DEF history, Exec, At, Return, Crash, Fault
    <2>2. QED  BY <1>1, <2>1 DEF Bare
  <1>10. CASE replay_index
    <2>1. pc = "exec" /\ pc' \in {"return", "exec", "crashed"} /\ UNCHANGED procVars
      BY <1>10 DEF replay_index, Replay, logic_exec, Exec, At, Return, Crash, Fault
    <2>2. QED  BY <1>1, <2>1 DEF Bare
  <1>11. CASE replay_prefix
    <2>1. pc = "exec" /\ pc' \in {"return", "exec", "crashed"} /\ UNCHANGED procVars
      BY <1>11 DEF replay_prefix, Replay, logic_exec, Exec, At, Return, Crash, Fault
    <2>2. QED  BY <1>1, <2>1 DEF Bare
  <1>12. CASE kill_fails
    <2>1. pc = "exec" /\ pc' = "return" /\ UNCHANGED procVars
      BY <1>12 DEF kill_fails, Exec, At, Return
    <2>2. QED  BY <1>1, <2>1 DEF Bare
  <1>13. CASE fork_fails
    <2>1. pc = "exec" /\ pc' = "failed" /\ UNCHANGED procVars
      BY <1>13 DEF fork_fails, External, At
    <2>2. QED  BY <1>1, <2>1 DEF Bare
  <1>14. CASE setpgid
    <2>1. pc = "setpgid" /\ pc' \in {"push", "failed"} /\ UNCHANGED procVars
      BY <1>14 DEF setpgid, At
    <2>2. QED  BY <2>1 DEF MovesOn, Entering, Ended, Bare
  <1>15. CASE waitpid_blocks
    <2>1. pc = "waitpid" /\ pc' = "blocked" /\ UNCHANGED procVars
      BY <1>15 DEF waitpid_blocks, At
    <2>2. QED  BY <2>1 DEF MovesOn, Waiting
  <1>16. CASE waitpid_fails
    <2>1. pc = "waitpid" /\ pc' = "failed" /\ UNCHANGED procVars
      BY <1>16 DEF waitpid_fails, At
    <2>2. QED  BY <2>1 DEF MovesOn, Ended, Bare
  <1>17. QED  BY <1>2, <1>3, <1>4, <1>5, <1>6, <1>7, <1>8, <1>9, <1>10, <1>11, <1>12,
                 <1>13, <1>14, <1>15, <1>16

LEMMA Quiet ==
  ASSUME ChildInv, UNCHANGED procVars, MovesOn
  PROVE  ChildInv'
  <1>1. NoWorse(child, child')
    BY NoWorseSame DEF ChildInv, ListTypes, procVars
  <1>2. QED  BY <1>1, Advance DEF procVars

LEMMA NextChild == ChildInv /\ [Next]_vars => ChildInv'
  <1> SUFFICES ASSUME ChildInv, [Next]_vars  PROVE  ChildInv'
    OBVIOUS
  <1>1. CASE \/ ReadLine \/ \E line \in Garbage : ReadEof(line)
             \/ ReturnStep \/ ExecEmpty
             \/ \E r \in {0, 1} : cd(r)
             \/ ps \/ ps_prints \/ history \/ replay_index \/ replay_prefix
             \/ kill_fails \/ fork_fails \/ setpgid \/ waitpid_blocks \/ waitpid_fails
    BY <1>1, QuietSteps, Quiet
  <1>2. CASE EndOfScript
    BY <1>2, ExitBegins DEF EndOfScript, At
  <1>3. CASE ExecExit
    BY <1>3, ExitBegins DEF ExecExit, At
  <1>4. CASE kill_ \/ stop \/ cont
    BY <1>4, KillChild, StopChild, ContChild
  <1>5. CASE get_process \/ ch_process
    BY <1>5, GetChild, ChChild
  <1>6. CASE rm_process \/ free_process \/ vector_erase \/ vector_erase_moves
    BY <1>6, RmChild, FreeChild, EraseChild, MovesChild
  <1>7. CASE \E p \in Pids : fork(p)
    BY <1>7, ForkChild
  <1>8. CASE push_bkgd \/ vector_push_back
    BY <1>8, PushChild, StoreChild
  <1>9. CASE waitpid_returns
    BY <1>9, WaitChild
  <1>10. CASE kill_zombies
    BY <1>10, ZombiesChild
  <1>11. CASE deliver_sigchld
    <2>1. /\ UNCHANGED <<cur, bkgd, new, idx, len, erased, mixed, child>>
          /\ pc' = IF pc = "blocked" THEN "waitpid" ELSE pc
      BY <1>11 DEF deliver_sigchld, callVars
    <2>2. MovesOn
      BY <2>1 DEF MovesOn, Waiting
    <2>3. NoWorse(child, child')
      BY <2>1, NoWorseSame DEF ChildInv, ListTypes
    <2>4. QED  BY <2>1, <2>2, <2>3, Advance
  <1>12. CASE sigchld_handler
    BY <1>12, HandlerChild
  <1>13. CASE \E p \in Pids : ChildExec(p) \/ \E code \in 0 .. 2 : ChildEnds(p, code)
    BY <1>13, ExecChild, EndChild
  <1>14. CASE UNCHANGED vars
    <2>1. UNCHANGED procVars /\ pc' = pc /\ cur' = cur
      BY <1>14 DEF vars, callVars
    <2>2. MovesOn
      BY <2>1 DEF MovesOn
    <2>3. QED  BY <2>1, <2>2, Quiet
  <1>15. QED  BY <1>1, <1>2, <1>3, <1>4, <1>5, <1>6, <1>7, <1>8, <1>9, <1>10, <1>11,
                 <1>12, <1>13, <1>14 DEF Next, ShellStep, Over

(* ChildInv holds in every reachable state, whichever steps of the shell   *)
(* the handler interrupts.                                                 *)
THEOREM ChildInvariance == Spec => []ChildInv
  <1>1. Init => ChildInv
    BY InitChild
  <1>2. ChildInv /\ [Next]_vars => ChildInv'
    BY NextChild
  <1>3. QED  BY <1>1, <1>2, PTL DEF Spec

LEMMA ChildInvListed == ChildInv => BackgroundListed
  <1> SUFFICES ASSUME ChildInv, pc \notin Ended
               PROVE  /\ Cardinality(Lost) <= mixed
                      /\ mixed = 0 =>
                           \A p \in Pids : Due(p) =>
                             \E i \in 2 .. Len(bkgd) :
                               /\ bkgd[i].pid = p
                               /\ \A j \in 1 .. Len(bkgd) : bkgd[j].pid = p => j = i
                               /\ child[p].st \in Alive
                                  /\ ~(pc \in {"getting", "changing"} /\ p = cur.n) =>
                                      (bkgd[i].status = Stopped <=> child[p].st = "stopped")
    BY DEF BackgroundListed
  <1>1. Cardinality(Lost) <= mixed
    BY DEF ChildInv, CountInv
  <1>2. ASSUME mixed = 0, NEW p \in Pids, Due(p)
        PROVE  \E i \in 2 .. Len(bkgd) :
                 /\ bkgd[i].pid = p
                 /\ \A j \in 1 .. Len(bkgd) : bkgd[j].pid = p => j = i
                 /\ child[p].st \in Alive
                    /\ ~(pc \in {"getting", "changing"} /\ p = cur.n) =>
                        (bkgd[i].status = Stopped <=> child[p].st = "stopped")
    <2>1. Unmixed
      BY <1>2 DEF ChildInv, Exact
    <2>2. PICK i \in 2 .. Len(bkgd) :
             bkgd[i].pid = p /\ (StatusHolds(bkgd[i], child) \/ Unset(p, i))
      BY <1>2, <2>1 DEF Unmixed, Entered
    <2>3. i \in 1 .. Len(bkgd)
      BY <2>2, ListFacts DEF ChildInv
    <2>4. \A j \in 1 .. Len(bkgd) : bkgd[j].pid = p => j = i
      BY <2>1, <2>2, <2>3 DEF Unmixed, ListHolds
    <2>5. child[p].st \in Alive /\ ~(pc \in {"getting", "changing"} /\ p = cur.n) =>
             (bkgd[i].status = Stopped <=> child[p].st = "stopped")
      BY <2>2 DEF StatusHolds, Unset
    <2>6. QED  BY <2>2, <2>4, <2>5
  <1>3. QED  BY <1>1, <1>2

(* BackgroundListed for any sessions and pids: the list of background      *)
(* processes misses no more children than the handler took entries away    *)
(* while the shell was changing it, and until then has every child that is *)
(* due in it once, with its status, whichever steps the handler            *)
(* interrupts.                                                             *)
THEOREM ListComplete == Spec => []BackgroundListed
  <1>1. ChildInv => BackgroundListed
    BY ChildInvListed
  <1>2. QED  BY <1>1, ChildInvariance, PTL

(* ExitSkipsOnlyErased for any number of children: kill_zombies leaves no  *)
(* more children without SIGTERM than the handler took entries away while  *)
(* it ran, or while a command before it was changing the list.             *)
THEOREM ExitLeavesFew == Spec => []ExitSkipsOnlyErased
  <1>1. ChildInv => ExitSkipsOnlyErased
    BY DEF ChildInv, CountInv, ExitSkipsOnlyErased
  <1>2. QED  BY <1>1, ChildInvariance, PTL

-----------------------------------------------------------------------------
(* The history. *)

LEMMA LineFacts ==
  ASSUME NEW l \in Lines
  PROVE  /\ l.first \in Commands /\ l.second \in Commands
         /\ l.op \in {"none", "&&", "||", ";"}
         /\ l.op = "none" => l = Simple(l.first)
  BY DEF Lines, Simple

LEMMA SimpleFacts ==
  ASSUME NEW c \in Commands
  PROVE  Simple(c) \in Lines /\ Simple(c).op = "none" /\ Simple(c).first = c
  <1>1. Nothing \in Commands
    BY DEF Nothing, Command, Commands, Kinds
  <1>2. QED  BY <1>1 DEF Lines, Simple

LEMMA EntryFacts ==
  /\ Entries \subseteq Lines
  /\ \A l \in Lines : l.op # "none" => l \in Entries
  /\ \A c \in Commands : c.kind # "empty" /\ ~IsHistoryCommand(c) => Simple(c) \in Entries
  /\ \A l \in Entries : l.op = "none" => l.first.kind # "empty" /\ ~IsHistoryCommand(l.first)
  BY SimpleFacts DEF Entries

LEMMA FrameFacts ==
  /\ ReturnZero \in Frames /\ ~IsHistoryCommand(ReturnZero.cmd)
  /\ \A l \in Lines : Then(l.op, l.second) \in Frames /\ Then(l.op, l.second).cmd = l.second
  <1>1. Nothing \in Commands /\ ~IsHistoryCommand(Nothing)
    BY DEF Nothing, Command, Commands, Kinds, IsHistoryCommand
  <1>2. ReturnZero \in Frames /\ ReturnZero.cmd = Nothing
    BY <1>1 DEF ReturnZero, Frames
  <1>3. ASSUME NEW l \in Lines
        PROVE  Then(l.op, l.second) \in Frames /\ Then(l.op, l.second).cmd = l.second
    BY LineFacts DEF Then, Frames
  <1>4. QED  BY <1>1, <1>2, <1>3

(* The last entry, and the entries before it. *)
LEMMA FrontKeeps ==
  ASSUME NEW S, NEW h \in Seq(S), h # <<>>
  PROVE  Front(h) \in Seq(S)
  <1>1. Len(h) \in Nat /\ \A i \in 1 .. Len(h) - 1 : i \in 1 .. Len(h)
    BY LenProperties
  <1>2. \A i \in 1 .. Len(h) - 1 : h[i] \in S
    BY <1>1, ElementOfSeq
  <1>3. 1 \in Int /\ Len(h) - 1 \in Int
    BY <1>1
  <1>4. SubSeq(h, 1, Len(h) - 1) \in Seq(S)
    BY <1>2, <1>3, SubSeqProperties
  <1>5. QED  BY <1>4 DEF Front

LEMMA FrontAppend ==
  ASSUME NEW S, NEW h \in Seq(S), NEW x \in S
  PROVE  Append(h, x) # <<>> /\ Front(Append(h, x)) = h
  <1> DEFINE a == Append(h, x)
             n == Len(h)
  <1>1. /\ n \in Nat /\ a \in Seq(S) /\ Len(a) = n + 1
        /\ \A i \in 1 .. n : a[i] = h[i]
    BY AppendProperties, LenProperties
  <1> HIDE DEF a
  <1>2. a # <<>>
    BY <1>1
  <1>3. \A i \in 1 .. n : i \in 1 .. Len(a)
    BY <1>1
  <1>4. \A i \in 1 .. n : a[i] \in S
    BY <1>1, <1>3, ElementOfSeq
  <1>5. 1 \in Int /\ n \in Int /\ Len(a) - 1 = n /\ n - 1 + 1 = n
    BY <1>1
  <1> DEFINE b == SubSeq(a, 1, n)
  <1>6. b \in Seq(S) /\ Len(b) = (IF 1 <= n THEN n ELSE 0) /\ \A i \in 1 .. n : b[i] = a[1 + i - 1]
    BY <1>4, <1>5, SubSeqProperties
  <1> HIDE DEF b
  <1>7. Len(b) = n
    BY <1>1, <1>6
  <1>8. \A i \in 1 .. n : b[i] = h[i]
    <2> TAKE i \in 1 .. n
    <2>1. 1 + i - 1 = i
      BY <1>1
    <2>2. QED  BY <1>1, <1>6, <2>1
  <1>9. b = h
    BY <1>6, <1>7, <1>8, SeqEqual
  <1>10. Front(a) = SubSeq(a, 1, Len(a) - 1)
    BY DEF Front
  <1>11. QED  BY <1>2, <1>5, <1>9, <1>10 DEF a, b

LEMMA LeastNumber ==
  ASSUME NEW S \in SUBSET Nat, S # {}
  PROVE  \E m \in S : \A n \in S : m <= n
  <1>1. PICK m \in S : \A n \in S : ~(<<n, m>> \in OpToRel(<, Nat))
    BY NatLessThanWellFounded, WFMin, Zenon
  <1>2. \A n \in S : ~(n < m)
    BY <1>1 DEF OpToRel
  <1>3. QED  BY <1>2

(* What "!word" finds is an entry of the history. *)
LEMMA LastIsEntry ==
  ASSUME NEW h \in Seq(Entries), NEW n
  PROVE  LastStarting(h, n) \in 0 .. Len(h)
  <1> DEFINE I == {i \in 1 .. Len(h) : StartsWith(h[i], n)}
  <1>1. LastStarting(h, n) = IF I # {} THEN Max(I) ELSE 0
    BY DEF LastStarting, SelectLastInSeq
  <1>2. Len(h) \in Nat
    BY LenProperties
  <1>3. I \subseteq 1 .. Len(h)
    OBVIOUS
  <1> HIDE DEF I
  <1>4. CASE I = {}
    BY <1>1, <1>2, <1>4
  <1>5. CASE I # {}
    <2> DEFINE J == {Len(h) - i : i \in I}
    <2>1. J \subseteq Nat /\ J # {}
      <3>1. \A i \in I : Len(h) - i \in Nat
        BY <1>2, <1>3
      <3>2. PICK i \in I : TRUE
        BY <1>5
      <3>3. Len(h) - i \in J
        BY <3>2
      <3>4. QED  BY <3>1, <3>3
    <2>2. PICK j \in J : \A k \in J : j <= k
      BY <2>1, LeastNumber
    <2>3. PICK x \in I : j = Len(h) - x
      BY <2>2
    <2>4. \A y \in I : x >= y
      <3> TAKE y \in I
      <3>1. Len(h) - y \in J
        OBVIOUS
      <3>2. Len(h) - x <= Len(h) - y
        BY <2>2, <2>3, <3>1
      <3>3. QED  BY <1>2, <1>3, <3>2
    <2>5. Max(I) \in I
      BY <2>3, <2>4 DEF Max
    <2>6. LastStarting(h, n) \in I
      BY <1>1, <1>5, <2>5
    <2>7. LastStarting(h, n) \in 1 .. Len(h)
      BY <1>3, <2>6
    <2>8. QED  BY <1>2, <2>7
  <1>6. QED  BY <1>4, <1>5

(* What each kind of line stands for. *)
LEMMA ExpansionIs ==
  ASSUME NEW h \in Seq(Entries), NEW c \in Commands
  PROVE  LET e == Expansion(h, Simple(c))
         IN  /\ c.kind \in {"empty", "history"} => e = <<>>
             /\ c.kind = "index" => e = IF c.n < Len(h) THEN <<h[c.n + 1]>> ELSE <<>>
             /\ c.kind = "prefix" => e = IF LastStarting(h, c.n) > 0
                                           THEN <<h[LastStarting(h, c.n)]>> ELSE <<>>
             /\ c.kind # "empty" /\ ~IsHistoryCommand(c) => e = <<Simple(c)>>
  BY SimpleFacts DEF Expansion, IsHistoryCommand

LEMMA LogicalIsItself ==
  ASSUME NEW h, NEW l \in Lines, l.op # "none"
  PROVE  Expansion(h, l) = <<l>>
  BY DEF Expansion

LEMMA InitHistory == Init => HistoryInv
  <1> SUFFICES ASSUME Init PROVE HistoryInv
    OBVIOUS
  <1>1. /\ hfile \in Histories /\ hist = hfile /\ before = hfile
        /\ pc = "prompt" /\ input \in Sessions /\ cur = Nothing /\ logic = FALSE
        /\ stack = <<>> /\ typed = Simple(Nothing)
    BY DEF Init, read_commands_from_history
  <1>2. Nothing \in Commands /\ Nothing.kind = "empty"
    BY DEF Nothing, Command, Commands, Kinds
  <1>3. hist \in Seq(Entries) /\ before \in Seq(Entries) /\ input \in Seq(Lines) /\ typed \in Lines
    BY <1>1, <1>2, InputAssumption, SimpleFacts
  <1>4. stack \in Seq(Frames) /\ Len(stack) = 0
    BY <1>1
  <1>5. LineTypes
    BY <1>1, <1>2, <1>3, <1>4 DEF LineTypes
  <1>6. Coming = <<>> /\ Expansion(before, typed) = <<>>
    BY <1>1, <1>2, <1>3, ExpansionIs DEF Coming
  <1>7. HistoryHolds
    BY <1>1, <1>6 DEF HistoryHolds
  <1>8. QED  BY <1>5, <1>7 DEF HistoryInv

(* What a call of logic_exec leaves. *)
LEMMA LogicExec ==
  ASSUME NEW h \in Seq(Entries), NEW l \in Lines, NEW s \in Seq(Frames), logic_exec(h, l, s)
  PROVE  /\ pc' = "exec" /\ cur' = l.first /\ cur' \in Commands
         /\ hist' \in Seq(Entries) /\ logic' \in BOOLEAN /\ stack' \in Seq(Frames)
         /\ l.op = "none" => hist' = h /\ logic' = FALSE /\ stack' = s
         /\ l.op # "none" => /\ hist' = h \o <<l>> /\ logic' = TRUE
                             /\ \A i \in DOMAIN stack' :
                                   stack'[i].cmd = l.second \/ \E j \in DOMAIN s : stack'[i] = s[j]
  <1>1. pc' = "exec" /\ cur' = l.first /\ cur' \in Commands
    BY LineFacts DEF logic_exec
  <1>2. CASE l.op = "none"
    BY <1>1, <1>2 DEF logic_exec
  <1>3. CASE l.op # "none"
    <2> DEFINE f == Then(l.op, l.second)
    <2>1. hist' = Append(h, l) /\ logic' = TRUE /\ stack' = <<f>> \o s
      BY <1>3 DEF logic_exec
    <2>2. f \in Frames /\ f.cmd = l.second
      BY FrameFacts
    <2> HIDE DEF f
    <2>3. l \in Entries
      BY <1>3, EntryFacts
    <2>4. hist' = h \o <<l>> /\ hist' \in Seq(Entries)
      BY <2>1, <2>3, AppendIsConcat, AppendProperties
    <2>5. <<f>> \in Seq(Frames) /\ Len(<<f>>) = 1 /\ <<f>>[1] = f
      BY <2>2
    <2> DEFINE t == <<f>>
    <2>6. t \in Seq(Frames) /\ Len(t) = 1 /\ t[1] = f /\ stack' = t \o s
      BY <2>1, <2>5
    <2> HIDE DEF t
    <2>7. /\ stack' \in Seq(Frames) /\ Len(stack') = 1 + Len(s) /\ Len(s) \in Nat
          /\ \A i \in 1 .. 1 + Len(s) : stack'[i] = IF i <= 1 THEN t[i] ELSE s[i - 1]
      <3>1. Len(s) \in Nat
        BY LenProperties
      <3>2. /\ t \o s \in Seq(Frames) /\ Len(t \o s) = Len(t) + Len(s)
            /\ \A i \in 1 .. Len(t) + Len(s) :
                  (t \o s)[i] = IF i <= Len(t) THEN t[i] ELSE s[i - Len(t)]
        BY <2>6, ConcatProperties
      <3>3. QED  BY <2>6, <3>1, <3>2
    <2>8. ASSUME NEW i \in DOMAIN stack'
          PROVE  stack'[i].cmd = l.second \/ \E j \in DOMAIN s : stack'[i] = s[j]
      <3>1. i \in 1 .. 1 + Len(s)
        BY <2>7, <2>8, LenProperties
      <3>2. CASE i = 1
        BY <2>2, <2>6, <2>7, <3>1, <3>2
      <3>3. CASE i # 1
        <4>1. i - 1 \in 1 .. Len(s) /\ ~(i <= 1)
          BY <2>7, <3>1, <3>3
        <4>2. stack'[i] = s[i - 1] /\ i - 1 \in DOMAIN s
          BY <2>7, <3>1, <4>1, LenProperties
        <4>3. QED  BY <4>2
      <3>4. QED  BY <3>2, <3>3
    <2>9. QED  BY <1>1, <1>3, <2>1, <2>4, <2>7, <2>8
  <1>4. QED  BY <1>2, <1>3

(* A line that was typed is run on the history it was typed at. *)
LEMMA ReadHistory ==
  ASSUME HistoryInv, NEW l \in Lines, logic_exec(hist, l, <<>>),
         typed' = l, before' = hist, input' \in Seq(Lines)
  PROVE  HistoryInv'
  <1>1. hist \in Seq(Entries) /\ hist \in Seq(Lines)
    BY EntryFacts DEF HistoryInv, LineTypes
  <1>2. <<>> \in Seq(Frames) /\ DOMAIN <<>> = {}
    OBVIOUS
  <1> DEFINE s == <<>>
  <1>3. s \in Seq(Frames) /\ DOMAIN s = {} /\ logic_exec(hist, l, s)
    BY <1>2
  <1> HIDE DEF s
  <1>4. /\ pc' = "exec" /\ cur' = l.first /\ cur' \in Commands
        /\ hist' \in Seq(Entries) /\ logic' \in BOOLEAN /\ stack' \in Seq(Frames)
        /\ l.op = "none" => hist' = hist /\ logic' = FALSE /\ stack' = s
        /\ l.op # "none" => /\ hist' = hist \o <<l>> /\ logic' = TRUE
                            /\ \A i \in DOMAIN stack' :
                                  stack'[i].cmd = l.second \/ \E j \in DOMAIN s : stack'[i] = s[j]
    BY <1>1, <1>3, LogicExec
  <1>5. LineTypes'
    BY <1>1, <1>4 DEF LineTypes
  <1>6. HistoryHolds'
    <2> SUFFICES ASSUME Plain'
                 PROVE  /\ hist' \o Coming' = before' \o Expansion(before', typed')
                        /\ \A i \in DOMAIN stack' : ~IsHistoryCommand(stack'[i].cmd)
                        /\ IsHistoryCommand(cur') => ~logic' /\ hist' = before'
      BY <1>4 DEF HistoryHolds
    <2>1. CASE l.op = "none"
      <3>1. l = Simple(cur')
        BY <1>4, <2>1, LineFacts
      <3>2. Coming' = Expansion(hist', Simple(cur'))
        BY <1>4, <2>1 DEF Coming
      <3>3. hist' \o Coming' = before' \o Expansion(before', typed')
        BY <1>4, <2>1, <3>1, <3>2
      <3>4. QED  BY <1>3, <1>4, <2>1, <3>3
    <2>2. CASE l.op # "none"
      <3>1. ~IsHistoryCommand(l.first) /\ ~IsHistoryCommand(l.second)
        BY <2>2 DEF Plain, Clean
      <3>2. Coming' = <<>>
        BY <1>4, <2>2 DEF Coming
      <3>3. hist' \o Coming' = hist'
        BY <1>4, <3>2, ConcatEmptySeq
      <3>4. hist' = before' \o Expansion(before', typed')
        BY <1>4, <2>2, LogicalIsItself
      <3>5. QED  BY <1>3, <1>4, <2>2, <3>1, <3>3, <3>4
    <2>3. QED  BY <2>1, <2>2
  <1>7. QED  BY <1>5, <1>6 DEF HistoryInv

(* The steps that change neither the history nor what is being run. *)
Untouched == UNCHANGED <<hist, before, input, typed, cur, logic, stack>>

LEMMA HistoryKept ==
  ASSUME HistoryInv, Untouched,
         \/ pc' = pc
         \/ pc' \in Ended \union {"killing"}
         \/ /\ pc # "exec" /\ pc' # "exec" /\ pc \notin Ended \union {"killing"}
         \/ /\ pc = "exec" /\ pc' = "return" /\ cur.kind = "empty"
  PROVE  HistoryInv'
  <1>1. LineTypes'
    BY DEF HistoryInv, LineTypes, Untouched
  <1>2. HistoryHolds'
    <2> SUFFICES ASSUME Plain', pc' \notin Ended \union {"killing"}
                 PROVE  /\ hist' \o Coming' = before' \o Expansion(before', typed')
                        /\ \A i \in DOMAIN stack' : ~IsHistoryCommand(stack'[i].cmd)
                        /\ pc' = "exec" /\ IsHistoryCommand(cur') => ~logic' /\ hist' = before'
      BY DEF HistoryHolds
    <2>1. Plain
      BY DEF Plain, Untouched
    <2>2. pc \notin Ended \union {"killing"}
      BY DEF Ended
    <2>3. /\ hist \o Coming = before \o Expansion(before, typed)
          /\ \A i \in DOMAIN stack : ~IsHistoryCommand(stack[i].cmd)
          /\ pc = "exec" /\ IsHistoryCommand(cur) => ~logic /\ hist = before
      BY <2>1, <2>2 DEF HistoryInv, HistoryHolds
    <2>4. Coming' = Coming
      <3>1. CASE pc' = pc
        BY <3>1 DEF Coming, Untouched
      <3>2. CASE pc # "exec" /\ pc' # "exec"
        BY <3>2 DEF Coming
      <3>3. CASE pc = "exec" /\ pc' = "return" /\ cur.kind = "empty"
        <4>1. Expansion(hist, Simple(cur)) = <<>>
          BY <3>3, ExpansionIs DEF HistoryInv, LineTypes
        <4>2. QED  BY <3>3, <4>1 DEF Coming
      <3>4. QED  BY <3>1, <3>2, <3>3
    <2>5. pc' = "exec" => pc = "exec"
      OBVIOUS
    <2>6. QED  BY <2>3, <2>4, <2>5 DEF Untouched
  <1>3. QED  BY <1>1, <1>2 DEF HistoryInv

(* An ordinary command is recorded, once. *)
LEMMA Ordinary ==
  ASSUME HistoryInv, pc = "exec", cur.kind # "empty", ~IsHistoryCommand(cur),
         hist' = Recorded, pc' # "exec",
         UNCHANGED <<before, input, typed, cur, logic, stack>>
  PROVE  HistoryInv'
  <1>1. cur \in Commands /\ hist \in Seq(Entries) /\ logic \in BOOLEAN
    BY DEF HistoryInv, LineTypes
  <1>2. Simple(cur) \in Entries /\ Expansion(hist, Simple(cur)) = <<Simple(cur)>>
    BY <1>1, EntryFacts, ExpansionIs
  <1>3. hist' \in Seq(Entries) /\ hist' = hist \o Coming
    <2>1. CASE logic
      <3>1. Coming = <<>> /\ hist' = hist
        BY <2>1 DEF Coming, Recorded
      <3>2. QED  BY <1>1, <3>1, ConcatEmptySeq
    <2>2. CASE ~logic
      <3>1. Coming = <<Simple(cur)>> /\ hist' = Append(hist, Simple(cur))
        BY <1>2, <2>2 DEF Coming, Recorded
      <3>2. QED  BY <1>1, <1>2, <3>1, AppendIsConcat, AppendProperties
    <2>3. QED  BY <2>1, <2>2
  <1>4. LineTypes'
    BY <1>3 DEF HistoryInv, LineTypes
  <1>5. hist' \o Coming' = hist'
    <2>1. Coming' = <<>>
      BY DEF Coming
    <2>2. QED  BY <1>3, <2>1, ConcatEmptySeq
  <1>6. HistoryHolds'
    <2> SUFFICES ASSUME Plain'
                 PROVE  /\ hist' \o Coming' = before' \o Expansion(before', typed')
                        /\ \A i \in DOMAIN stack' : ~IsHistoryCommand(stack'[i].cmd)
      BY DEF HistoryHolds
    <2>1. Plain /\ pc \notin Ended \union {"killing"}
      BY DEF Plain, Ended
    <2>2. /\ hist \o Coming = before \o Expansion(before, typed)
          /\ \A i \in DOMAIN stack : ~IsHistoryCommand(stack[i].cmd)
      BY <2>1 DEF HistoryInv, HistoryHolds
    <2>3. QED  BY <1>3, <1>5, <2>2
  <1>7. QED  BY <1>4, <1>6 DEF HistoryInv

(* A history command, not part of a logical line, is popped again. *)
LEMMA PoppedIs ==
  ASSUME LineTypes, Recorded # <<>>
  PROVE  Front(Recorded) \in Seq(Entries) /\ (~logic => Front(Recorded) = hist)
  <1>1. cur \in Commands /\ hist \in Seq(Entries) /\ logic \in BOOLEAN
    BY DEF LineTypes
  <1>2. CASE logic
    BY <1>1, <1>2, FrontKeeps DEF Recorded
  <1>3. CASE ~logic
    <2>1. Simple(cur) \in Lines /\ hist \in Seq(Lines)
      BY <1>1, SimpleFacts, EntryFacts
    <2>2. Recorded = Append(hist, Simple(cur))
      BY <1>3 DEF Recorded
    <2>3. Front(Recorded) = hist
      BY <2>1, <2>2, FrontAppend
    <2>4. QED  BY <1>1, <2>3
  <1>4. QED  BY <1>2, <1>3

(* A history command that runs nothing leaves the history as it was. *)
LEMMA PoppedHistory ==
  ASSUME HistoryInv, pc = "exec", IsHistoryCommand(cur), Recorded # <<>>,
         ~logic => Expansion(hist, Simple(cur)) = <<>>,
         hist' = Front(Recorded), pc' = "return",
         UNCHANGED <<before, input, typed, cur, logic, stack>>
  PROVE  HistoryInv'
  <1>1. hist' \in Seq(Entries) /\ (~logic => hist' = hist) /\ logic \in BOOLEAN
    BY PoppedIs DEF HistoryInv, LineTypes
  <1>2. LineTypes'
    BY <1>1 DEF HistoryInv, LineTypes
  <1>3. HistoryHolds'
    <2> SUFFICES ASSUME Plain'
                 PROVE  /\ hist' \o Coming' = before' \o Expansion(before', typed')
                        /\ \A i \in DOMAIN stack' : ~IsHistoryCommand(stack'[i].cmd)
      BY DEF HistoryHolds
    <2>1. Plain /\ pc \notin Ended \union {"killing"}
      BY DEF Plain, Ended
    <2>2. /\ hist \o Coming = before \o Expansion(before, typed)
          /\ \A i \in DOMAIN stack : ~IsHistoryCommand(stack[i].cmd)
          /\ ~logic
      BY <2>1 DEF HistoryInv, HistoryHolds
    <2>3. Coming = <<>> /\ Coming' = <<>> /\ hist' = hist
      BY <1>1, <2>2 DEF Coming
    <2>4. QED  BY <2>2, <2>3
  <1>4. QED  BY <1>2, <1>3 DEF HistoryInv

(* A history command that replays an entry leaves that entry to come. *)
LEMMA ReplayHistory ==
  ASSUME HistoryInv, pc = "exec", IsHistoryCommand(cur), Recorded # <<>>,
         NEW k, k \in 1 .. Len(Front(Recorded)),
         ~logic => Expansion(hist, Simple(cur)) = <<Front(Recorded)[k]>>,
         Replay(Front(Recorded), Front(Recorded)[k]), pc' # "crashed",
         UNCHANGED <<before, input, typed>>
  PROVE  HistoryInv'
  <1> DEFINE h == Front(Recorded)
             l == h[k]
             s == <<ReturnZero>> \o stack
             t == <<ReturnZero>>
  <1>1. LineTypes /\ stack \in Seq(Frames) /\ logic \in BOOLEAN
    BY DEF HistoryInv, LineTypes
  <1>2. h \in Seq(Entries) /\ (~logic => h = hist)
    BY <1>1, PoppedIs
  <1>3. l \in Entries /\ l \in Lines
    BY <1>2, ElementOfSeq, EntryFacts
  <1>4. logic_exec(h, l, s)
    BY DEF Replay, Crash, Fault
  <1>5. ~logic => Expansion(hist, Simple(cur)) = <<l>>
    OBVIOUS
  <1>6. t \in Seq(Frames) /\ Len(t) = 1 /\ t[1] = ReturnZero /\ s = t \o stack
    BY FrameFacts
  <1>7. k \in 1 .. Len(h)
    OBVIOUS
  <1>8. l = h[k]
    OBVIOUS
  <1> HIDE DEF h, l, s, t
  <1>9. /\ s \in Seq(Frames) /\ Len(s) = 1 + Len(stack) /\ Len(stack) \in Nat
        /\ \A i \in 1 .. 1 + Len(stack) : s[i] = IF i <= 1 THEN t[i] ELSE stack[i - 1]
    <2>1. Len(stack) \in Nat
      BY <1>1, LenProperties
    <2>2. /\ t \o stack \in Seq(Frames) /\ Len(t \o stack) = Len(t) + Len(stack)
          /\ \A i \in 1 .. Len(t) + Len(stack) :
                (t \o stack)[i] = IF i <= Len(t) THEN t[i] ELSE stack[i - Len(t)]
      BY <1>1, <1>6, ConcatProperties
    <2>3. QED  BY <1>6, <2>1, <2>2
  <1>10. /\ pc' = "exec" /\ cur' = l.first /\ cur' \in Commands
         /\ hist' \in Seq(Entries) /\ logic' \in BOOLEAN /\ stack' \in Seq(Frames)
         /\ l.op = "none" => hist' = h /\ logic' = FALSE /\ stack' = s
         /\ l.op # "none" => /\ hist' = h \o <<l>> /\ logic' = TRUE
                             /\ \A i \in DOMAIN stack' :
                                   stack'[i].cmd = l.second \/ \E j \in DOMAIN s : stack'[i] = s[j]
    BY <1>2, <1>3, <1>4, <1>9, LogicExec
  <1>11. LineTypes'
    BY <1>1, <1>10 DEF LineTypes
  <1>12. HistoryHolds'
    <2> SUFFICES ASSUME Plain'
                 PROVE  /\ hist' \o Coming' = before' \o Expansion(before', typed')
                        /\ \A i \in DOMAIN stack' : ~IsHistoryCommand(stack'[i].cmd)
                        /\ ~IsHistoryCommand(cur')
      BY DEF HistoryHolds
    <2>1. Plain /\ pc \notin Ended \union {"killing"}
      BY DEF Plain, Ended
    <2>2. /\ hist \o Coming = before \o Expansion(before, typed)
          /\ \A i \in DOMAIN stack : ~IsHistoryCommand(stack[i].cmd)
          /\ ~logic /\ hist = before
      BY <2>1 DEF HistoryInv, HistoryHolds
    <2>3. Coming = <<l>> /\ h = hist
      BY <1>2, <1>5, <2>2 DEF Coming
    <2>4. Clean(l)
      <3>1. k \in DOMAIN before
        BY <1>2, <1>7, <2>2, LenProperties
      <3>2. QED  BY <1>8, <2>1, <2>2, <2>3, <3>1 DEF Plain
    <2>5. \A j \in DOMAIN s : ~IsHistoryCommand(s[j].cmd)
      <3> TAKE j \in DOMAIN s
      <3>1. j \in 1 .. 1 + Len(stack)
        BY <1>9, LenProperties
      <3>2. CASE j = 1
        BY <1>6, <1>9, <3>1, <3>2, FrameFacts
      <3>3. CASE j # 1
        <4>1. j - 1 \in 1 .. Len(stack) /\ ~(j <= 1)
          BY <1>9, <3>1, <3>3
        <4>2. s[j] = stack[j - 1] /\ j - 1 \in DOMAIN stack
          BY <1>1, <1>9, <3>1, <4>1, LenProperties
        <4>3. QED  BY <2>2, <4>2
      <3>4. QED  BY <3>2, <3>3
    <2>6. CASE l.op = "none"
      <3>1. cur'.kind # "empty" /\ ~IsHistoryCommand(cur') /\ l = Simple(cur')
        BY <1>3, <1>10, <2>6, EntryFacts, LineFacts
      <3>2. Coming' = <<l>>
        BY <1>10, <2>6, <3>1, ExpansionIs DEF Coming
      <3>3. hist' \o Coming' = hist \o <<l>>
        BY <1>10, <2>3, <2>6, <3>2
      <3>4. QED  BY <1>10, <2>2, <2>3, <2>5, <2>6, <3>1, <3>3
    <2>7. CASE l.op # "none"
      <3>1. ~IsHistoryCommand(l.first) /\ ~IsHistoryCommand(l.second)
        BY <2>4, <2>7 DEF Clean
      <3>2. Coming' = <<>>
        BY <1>10, <2>7 DEF Coming
      <3>3. hist' \o Coming' = hist \o <<l>>
        BY <1>10, <2>3, <2>7, <3>2, ConcatEmptySeq
      <3>4. \A i \in DOMAIN stack' : ~IsHistoryCommand(stack'[i].cmd)
        BY <1>10, <2>5, <2>7, <3>1
      <3>5. QED  BY <1>10, <2>2, <2>3, <3>1, <3>3, <3>4
    <2>8. QED  BY <2>6, <2>7
  <1>13. QED  BY <1>11, <1>12 DEF HistoryInv

LEMMA IndexHistory == ASSUME HistoryInv, replay_index PROVE HistoryInv'
  <1>1. /\ pc = "exec" /\ cur.kind = "index" /\ UNCHANGED <<before, input, typed>>
        /\ IF Recorded = <<>> THEN Crash
           ELSE IF cur.n >= Len(Front(Recorded)) THEN hist' = Front(Recorded) /\ Return(0)
                ELSE Replay(Front(Recorded), Front(Recorded)[cur.n + 1])
    BY DEF replay_index, Exec, At, Unlisted
  <1>2. /\ LineTypes /\ cur \in Commands /\ cur.n \in Nat /\ hist \in Seq(Entries)
        /\ IsHistoryCommand(cur)
    BY <1>1 DEF HistoryInv, LineTypes, Commands, IsHistoryCommand
  <1>3. CASE pc' = "crashed" /\ Crash
    BY <1>1, <1>3, HistoryKept DEF Crash, Fault, Untouched, Ended
  <1>4. ASSUME Recorded # <<>>, cur.n >= Len(Front(Recorded)), hist' = Front(Recorded), Return(0)
        PROVE  HistoryInv'
    <2>1. pc' = "return" /\ UNCHANGED <<cur, logic, stack>>
      BY <1>4 DEF Return
    <2>2. ~logic => Front(Recorded) = hist
      BY <1>2, <1>4, PoppedIs
    <2>3. Len(hist) \in Nat
      BY <1>2, LenProperties
    <2>4. ~logic => ~(cur.n < Len(hist))
      BY <1>2, <1>4, <2>2, <2>3
    <2>5. ~logic => Expansion(hist, Simple(cur)) = <<>>
      BY <1>1, <1>2, <2>4, ExpansionIs
    <2>6. QED  BY <1>1, <1>2, <1>4, <2>1, <2>5, PoppedHistory
  <1>5. ASSUME Recorded # <<>>, ~(cur.n >= Len(Front(Recorded))), pc' # "crashed",
               Replay(Front(Recorded), Front(Recorded)[cur.n + 1])
        PROVE  HistoryInv'
    <2>1. Front(Recorded) \in Seq(Entries) /\ (~logic => Front(Recorded) = hist)
      BY <1>2, <1>5, PoppedIs
    <2>2. Len(Front(Recorded)) \in Nat
      BY <2>1, LenProperties
    <2>3. cur.n + 1 \in 1 .. Len(Front(Recorded)) /\ cur.n < Len(Front(Recorded))
      BY <1>2, <1>5, <2>2
    <2>4. ~logic => Expansion(hist, Simple(cur)) = <<Front(Recorded)[cur.n + 1]>>
      BY <1>1, <1>2, <2>1, <2>3, ExpansionIs
    <2>5. QED  BY <1>1, <1>2, <1>5, <2>3, <2>4, ReplayHistory
  <1>6. (Replay(Front(Recorded), Front(Recorded)[cur.n + 1]) /\ pc' = "crashed") => Crash
    BY DEF Replay, logic_exec
  <1>7. Crash => pc' = "crashed"
    BY DEF Crash, Fault
  <1>8. QED  BY <1>1, <1>3, <1>4, <1>5, <1>6, <1>7

LEMMA PrefixHistory == ASSUME HistoryInv, replay_prefix PROVE HistoryInv'
  <1> DEFINE last == LastStarting(Front(Recorded), cur.n)
  <1>1. /\ pc = "exec" /\ cur.kind = "prefix" /\ UNCHANGED <<before, input, typed>>
        /\ IF Recorded = <<>> THEN Crash
           ELSE IF last = 0 THEN hist' = Front(Recorded) /\ Return(0)
                ELSE Replay(Front(Recorded), Front(Recorded)[last])
    BY DEF replay_prefix, Exec, At, Unlisted
  <1>2. LineTypes /\ cur \in Commands /\ hist \in Seq(Entries) /\ IsHistoryCommand(cur)
    BY <1>1 DEF HistoryInv, LineTypes, IsHistoryCommand
  <1>3. CASE pc' = "crashed" /\ Crash
    BY <1>1, <1>3, HistoryKept DEF Crash, Fault, Untouched, Ended
  <1>4. ASSUME Recorded # <<>>, last = 0, hist' = Front(Recorded), Return(0)
        PROVE  HistoryInv'
    <2>1. pc' = "return" /\ UNCHANGED <<cur, logic, stack>>
      BY <1>4 DEF Return
    <2>2. ~logic => LastStarting(hist, cur.n) = 0
      BY <1>2, <1>4, PoppedIs
    <2>3. ~logic => Expansion(hist, Simple(cur)) = <<>>
      BY <1>1, <1>2, <2>2, ExpansionIs
    <2>4. QED  BY <1>1, <1>2, <1>4, <2>1, <2>3, PoppedHistory
  <1>5. ASSUME Recorded # <<>>, last # 0, pc' # "crashed",
               Replay(Front(Recorded), Front(Recorded)[last])
        PROVE  HistoryInv'
    <2>1. Front(Recorded) \in Seq(Entries) /\ (~logic => Front(Recorded) = hist)
      BY <1>2, <1>5, PoppedIs
    <2>2. last \in 0 .. Len(Front(Recorded)) /\ Len(Front(Recorded)) \in Nat
      BY <2>1, LastIsEntry, LenProperties
    <2>3. ~logic => LastStarting(hist, cur.n) = last
      BY <2>1
    <2> HIDE DEF last
    <2>4. last \in 1 .. Len(Front(Recorded)) /\ last > 0
      BY <1>5, <2>2
    <2>5. ~logic => Expansion(hist, Simple(cur)) = <<Front(Recorded)[last]>>
      BY <1>1, <1>2, <2>1, <2>3, <2>4, ExpansionIs
    <2>6. QED  BY <1>1, <1>2, <1>5, <2>4, <2>5, ReplayHistory
  <1> HIDE DEF last
  <1>6. (Replay(Front(Recorded), Front(Recorded)[last]) /\ pc' = "crashed") => Crash
    BY DEF Replay, logic_exec
  <1>7. Crash => pc' = "crashed"
    BY DEF Crash, Fault
  <1>8. QED  BY <1>1, <1>3, <1>4, <1>5, <1>6, <1>7

LEMMA ListHistory == ASSUME HistoryInv, history PROVE HistoryInv'
  <1>1. /\ pc = "exec" /\ cur.kind = "history" /\ UNCHANGED <<before, input, typed>>
        /\ IF Recorded = <<>> THEN Crash ELSE hist' = Front(Recorded) /\ Return(0)
    BY DEF history, Exec, At, Unlisted
  <1>2. LineTypes /\ cur \in Commands /\ hist \in Seq(Entries) /\ IsHistoryCommand(cur)
    BY <1>1 DEF HistoryInv, LineTypes, IsHistoryCommand
  <1>3. CASE Recorded = <<>>
    BY <1>1, <1>3, HistoryKept DEF Crash, Fault, Untouched, Ended
  <1>4. CASE Recorded # <<>>
    <2>1. hist' = Front(Recorded) /\ pc' = "return" /\ UNCHANGED <<cur, logic, stack>>
      BY <1>1, <1>4 DEF Return
    <2>2. Expansion(hist, Simple(cur)) = <<>>
      BY <1>1, <1>2, ExpansionIs
    <2>3. QED  BY <1>1, <1>2, <1>4, <2>1, <2>2, PoppedHistory
  <1>5. QED  BY <1>3, <1>4

LEMMA ReturnHistory == ASSUME HistoryInv, ReturnStep PROVE HistoryInv'
  <1>1. pc = "return" /\ UNCHANGED <<hist, before, input, typed>>
    BY DEF ReturnStep, At, lineVars
  <1>2. stack \in Seq(Frames) /\ LineTypes /\ hist \in Seq(Entries)
    BY DEF HistoryInv, LineTypes
  <1>3. CASE stack = <<>> /\ pc' = "prompt" /\ UNCHANGED callVars
    BY <1>1, <1>3, HistoryKept DEF callVars, Untouched, Ended
  <1>4. ASSUME stack # <<>>, stack' = Tail(stack),
               \/ pc' = "return" /\ UNCHANGED <<cur, logic>>
               \/ pc' = "exec" /\ cur' = Head(stack).cmd /\ logic' = TRUE
        PROVE  HistoryInv'
    <2>1. /\ Head(stack) \in Frames /\ Tail(stack) \in Seq(Frames)
          /\ Len(Tail(stack)) = Len(stack) - 1
          /\ \A i \in 1 .. Len(Tail(stack)) : Tail(stack)[i] = stack[i + 1]
      BY <1>2, <1>4, HeadTailProperties
    <2>2. Len(stack) \in Nat /\ Len(stack) >= 1 /\ Head(stack) = stack[1]
      BY <1>2, <1>4, EmptySeq, LenProperties
    <2>3. LineTypes'
      BY <1>1, <1>2, <1>4, <2>1 DEF LineTypes, Frames
    <2>4. Coming = <<>> /\ Coming' = <<>>
      BY <1>1, <1>4 DEF Coming
    <2>5. HistoryHolds'
      <3> SUFFICES ASSUME Plain'
                   PROVE  /\ hist' \o Coming' = before' \o Expansion(before', typed')
                          /\ \A i \in DOMAIN stack' : ~IsHistoryCommand(stack'[i].cmd)
                          /\ pc' = "exec" => ~IsHistoryCommand(cur')
        BY DEF HistoryHolds
      <3>1. Plain /\ pc \notin Ended \union {"killing"}
        BY <1>1 DEF Plain, Ended
      <3>2. /\ hist \o Coming = before \o Expansion(before, typed)
            /\ \A i \in DOMAIN stack : ~IsHistoryCommand(stack[i].cmd)
        BY <3>1 DEF HistoryInv, HistoryHolds
      <3>3. \A i \in 1 .. Len(stack) : ~IsHistoryCommand(stack[i].cmd)
        BY <1>2, <3>2, LenProperties
      <3>4. ASSUME NEW i \in DOMAIN stack'  PROVE  ~IsHistoryCommand(stack'[i].cmd)
        <4>1. i \in 1 .. Len(Tail(stack))
          BY <1>4, <2>1, <3>4, LenProperties
        <4>2. i + 1 \in 1 .. Len(stack)
          BY <2>1, <2>2, <4>1
        <4>3. stack'[i] = stack[i + 1]
          BY <1>4, <2>1, <4>1
        <4>4. QED  BY <3>3, <4>2, <4>3
      <3>5. ~IsHistoryCommand(Head(stack).cmd)
        <4>1. 1 \in 1 .. Len(stack)
          BY <2>2
        <4>2. QED  BY <2>2, <3>3, <4>1
      <3>6. QED  BY <1>1, <1>4, <2>4, <3>2, <3>4, <3>5
    <2>6. QED  BY <2>3, <2>5 DEF HistoryInv
  <1>5. CASE stack # <<>> /\ Head(stack).do = "return0" /\ stack' = Tail(stack)
             /\ UNCHANGED <<pc, cur, logic>>
    BY <1>1, <1>4, <1>5
  <1>6. CASE /\ stack # <<>> /\ stack' = Tail(stack)
             /\ IF GoOn(Head(stack).op, ret)
                  THEN cur' = Head(stack).cmd /\ logic' = TRUE /\ pc' = "exec"
                  ELSE UNCHANGED <<pc, cur, logic>>
    BY <1>1, <1>4, <1>6
  <1>7. QED  BY <1>3, <1>5, <1>6 DEF ReturnStep

(* The steps that run an ordinary command. *)
LEMMA OrdinarySteps ==
  ASSUME HistoryInv,
         \/ \E r \in {0, 1} : cd(r)
         \/ ps \/ kill_fails \/ kill_ \/ stop \/ cont
         \/ \E p \in Pids : fork(p)
         \/ fork_fails
  PROVE  HistoryInv'
  <1>1. ASSUME pc = "exec", cur.kind \in {"cd", "ps", "kill", "stop", "cont", "fg", "bg"},
               hist' = Recorded, pc' # "exec",
               UNCHANGED <<before, input, typed, cur, logic, stack>>
        PROVE  HistoryInv'
    BY <1>1, Ordinary DEF IsHistoryCommand
  <1>2. ASSUME NEW r \in {0, 1}, cd(r)  PROVE  HistoryInv'
    BY <1>1, <1>2 DEF cd, Exec, At, Return, Unlisted
  <1>3. CASE ps
    BY <1>1, <1>3 DEF ps, Exec, At, callVars, Unlisted
  <1>4. CASE kill_fails
    BY <1>1, <1>4 DEF kill_fails, Exec, At, Return, Unlisted
  <1>5. CASE kill_
    BY <1>1, <1>5 DEF kill_, Exec, At, GoTo, callVars, Unlisted
  <1>6. CASE stop
    BY <1>1, <1>6 DEF stop, Exec, At, GoTo, callVars, Unlisted
  <1>7. CASE cont
    BY <1>1, <1>7 DEF cont, Exec, At, GoTo, callVars, Unlisted
  <1>8. ASSUME NEW p \in Pids, fork(p)  PROVE  HistoryInv'
    <2>1. /\ pc = "exec" /\ cur.kind \in {"fg", "bg"} /\ hist' = Recorded
          /\ pc' \in {"setpgid", "waitpid"}
          /\ UNCHANGED <<before, input, typed, cur, logic, stack>>
      BY <1>8 DEF fork, External, At, Unlisted, callVars
    <2>2. QED  BY <1>1, <2>1
  <1>9. CASE fork_fails
    <2>1. /\ pc = "exec" /\ cur.kind \in {"fg", "bg"} /\ hist' = Recorded /\ pc' = "failed"
          /\ UNCHANGED <<before, input, typed, cur, logic, stack>>
      BY <1>9 DEF fork_fails, External, At, Unlisted, callVars
    <2>2. QED  BY <1>1, <2>1
  <1>10. QED  BY <1>2, <1>3, <1>4, <1>5, <1>6, <1>7, <1>8, <1>9

(* The steps that run nothing. *)
LEMMA OtherSteps ==
  ASSUME HistoryInv,
         \/ EndOfScript \/ ExecEmpty \/ ExecExit \/ setpgid
         \/ ps_prints \/ get_process \/ ch_process \/ rm_process
         \/ free_process \/ vector_erase \/ vector_erase_moves
         \/ push_bkgd \/ vector_push_back
         \/ waitpid_blocks \/ waitpid_returns \/ waitpid_fails
         \/ kill_zombies \/ deliver_sigchld \/ sigchld_handler
         \/ \E p \in Pids : ChildExec(p) \/ \E code \in 0 .. 2 : ChildEnds(p, code)
         \/ UNCHANGED vars
  PROVE  HistoryInv'
  <1>1. ASSUME Untouched, pc' = pc  PROVE  HistoryInv'
    BY <1>1, HistoryKept
  <1>2. ASSUME Untouched, pc' \in Ended \union {"killing"}  PROVE  HistoryInv'
    BY <1>2, HistoryKept
  <1>3. ASSUME Untouched, pc' \notin {"exec"},
               pc \notin {"exec", "killing"} \union Ended
        PROVE  HistoryInv'
    BY <1>3, HistoryKept
  <1>4. CASE EndOfScript
    BY <1>2, <1>4 DEF EndOfScript, callVars, Untouched
  <1>5. CASE ExecEmpty
    BY <1>5, HistoryKept DEF ExecEmpty, At, Return, Untouched
  <1>6. CASE ExecExit
    BY <1>2, <1>6 DEF ExecExit, callVars, Untouched
  <1>7. CASE setpgid
    BY <1>3, <1>7 DEF setpgid, At, lineVars, callVars, Untouched, Ended
  <1>8. CASE \/ ps_prints \/ get_process \/ ch_process \/ rm_process
             \/ free_process \/ vector_erase \/ vector_erase_moves
             \/ push_bkgd \/ vector_push_back
    <2>1. ASSUME NEW p \in {"listing", "getting", "changing", "looking", "freeing",
                            "erasing", "moving", "push", "storing"},
                 At(p), pc' # "exec", Untouched
          PROVE  HistoryInv'
      BY <1>3, <2>1 DEF At, Ended
    <2>2. CASE ps_prints
      BY <2>1, <2>2 DEF ps_prints, Return, Fault, Untouched
    <2>3. CASE get_process
      BY <2>1, <2>3 DEF get_process, ListStep, GoTo, Fault, lineVars, callVars, Untouched
    <2>4. CASE ch_process
      <3>1. At("changing") /\ pc' # "exec"
        BY <2>4 DEF ch_process, Return, Fault, At
      <3>2. Untouched
        BY <2>4 DEF ch_process, ListStep, Return, Fault, lineVars, callVars, Untouched
      <3>3. QED  BY <2>1, <3>1, <3>2
    <2>5. CASE rm_process
      <3>1. At("looking") /\ pc' # "exec"
        BY <2>5 DEF rm_process, Return, Fault, GoTo, At
      <3>2. Untouched
        BY <2>5 DEF rm_process, ListStep, Return, Fault, GoTo, lineVars, callVars, Untouched
      <3>3. QED  BY <2>1, <3>1, <3>2
    <2>6. CASE free_process
      BY <2>1, <2>6 DEF free_process, ListStep, GoTo, Fault, lineVars, callVars, Untouched
    <2>7. CASE vector_erase
      BY <2>1, <2>7 DEF vector_erase, ListStep, GoTo, Fault, lineVars, callVars, Untouched
    <2>8. CASE vector_erase_moves
      BY <2>1, <2>8 DEF vector_erase_moves, ListStep, GoTo, lineVars, callVars, Untouched
    <2>9. CASE push_bkgd
      BY <2>1, <2>9 DEF push_bkgd, ListStep, GoTo, lineVars, callVars, Untouched
    <2>10. CASE vector_push_back
      BY <2>1, <2>10 DEF vector_push_back, ListStep, Return, Fault, lineVars, callVars, Untouched
    <2>11. QED  BY <1>8, <2>2, <2>3, <2>4, <2>5, <2>6, <2>7, <2>8, <2>9, <2>10
  <1>9. CASE waitpid_blocks
    BY <1>3, <1>9 DEF waitpid_blocks, At, lineVars, callVars, Untouched, Ended
  <1>10. CASE waitpid_returns
    BY <1>3, <1>10 DEF waitpid_returns, At, Return, Untouched, Ended
  <1>11. CASE waitpid_fails
    BY <1>3, <1>11 DEF waitpid_fails, At, lineVars, callVars, Untouched, Ended
  <1>12. CASE kill_zombies
    <2>1. Untouched /\ (pc' = pc \/ pc' = "exited" \/ pc' = "crashed")
      BY <1>12 DEF kill_zombies, lineVars, callVars, Untouched
    <2>2. QED  BY <1>1, <1>2, <2>1 DEF Ended
  <1>13. CASE deliver_sigchld
    <2>1. Untouched
      BY <1>13 DEF deliver_sigchld, lineVars, callVars, Untouched
    <2>2. pc' = IF pc = "blocked" THEN "waitpid" ELSE pc
      BY <1>13 DEF deliver_sigchld
    <2>3. CASE pc = "blocked"
      BY <1>3, <2>1, <2>2, <2>3 DEF Ended
    <2>4. CASE pc # "blocked"
      BY <1>1, <2>1, <2>2, <2>4
    <2>5. QED  BY <2>3, <2>4
  <1>14. CASE sigchld_handler
    <2>1. Untouched /\ (pc' = pc \/ pc' = "crashed")
      BY <1>14 DEF sigchld_handler, handler_faults, handler_finds_none, handler_removes,
                   lineVars, callVars, Untouched
    <2>2. QED  BY <1>1, <1>2, <2>1 DEF Ended
  <1>15. ASSUME NEW p \in Pids, ChildExec(p) \/ \E code \in 0 .. 2 : ChildEnds(p, code)
         PROVE  HistoryInv'
    BY <1>1, <1>15 DEF ChildExec, ChildEnds, lineVars, callVars, Untouched
  <1>16. CASE UNCHANGED vars
    BY <1>1, <1>16 DEF vars, lineVars, callVars, Untouched
  <1>17. QED  BY <1>4, <1>5, <1>6, <1>7, <1>8, <1>9, <1>10, <1>11, <1>12, <1>13, <1>14,
                 <1>15, <1>16

LEMMA NextHistory == HistoryInv /\ [Next]_vars => HistoryInv'
  <1> SUFFICES ASSUME HistoryInv, [Next]_vars  PROVE  HistoryInv'
    OBVIOUS
  <1>1. CASE ReadLine
    <2>1. input \in Seq(Lines) /\ input # <<>>
      BY <1>1 DEF ReadLine, HistoryInv, LineTypes
    <2>2. Head(input) \in Lines /\ Tail(input) \in Seq(Lines)
      BY <2>1, HeadTailProperties
    <2>3. /\ logic_exec(hist, Head(input), <<>>) /\ typed' = Head(input)
          /\ before' = hist /\ input' = Tail(input)
      BY <1>1 DEF ReadLine
    <2>4. QED  BY <2>2, <2>3, ReadHistory
  <1>2. ASSUME NEW line \in Garbage, ReadEof(line)  PROVE  HistoryInv'
    <2>1. line \in Lines
      BY InputAssumption
    <2>2. logic_exec(hist, line, <<>>) /\ typed' = line /\ before' = hist /\ input' = input
      BY <1>2 DEF ReadEof
    <2>3. input' \in Seq(Lines)
      BY <2>2 DEF HistoryInv, LineTypes
    <2>4. QED  BY <2>1, <2>2, <2>3, ReadHistory
  <1>3. CASE \/ \E r \in {0, 1} : cd(r)
             \/ ps \/ kill_fails \/ kill_ \/ stop \/ cont
             \/ \E p \in Pids : fork(p)
             \/ fork_fails
    BY <1>3, OrdinarySteps
  <1>4. CASE \/ EndOfScript \/ ExecEmpty \/ ExecExit \/ setpgid
             \/ ps_prints \/ get_process \/ ch_process \/ rm_process
             \/ free_process \/ vector_erase \/ vector_erase_moves
             \/ push_bkgd \/ vector_push_back
             \/ waitpid_blocks \/ waitpid_returns \/ waitpid_fails
             \/ kill_zombies \/ deliver_sigchld \/ sigchld_handler
             \/ \E p \in Pids : ChildExec(p) \/ \E code \in 0 .. 2 : ChildEnds(p, code)
             \/ UNCHANGED vars
    BY <1>4, OtherSteps
  <1>5. CASE ReturnStep
    BY <1>5, ReturnHistory
  <1>6. CASE history
    BY <1>6, ListHistory
  <1>7. CASE replay_index
    BY <1>7, IndexHistory
  <1>8. CASE replay_prefix
    BY <1>8, PrefixHistory
  <1>9. QED  BY <1>1, <1>2, <1>3, <1>4, <1>5, <1>6, <1>7, <1>8 DEF Next, ShellStep, Over

(* HistoryInv holds in every reachable state. *)
THEOREM HistoryInvariance == Spec => []HistoryInv
  <1>1. Init => HistoryInv
    BY InitHistory
  <1>2. HistoryInv /\ [Next]_vars => HistoryInv'
    BY NextHistory
  <1>3. QED  BY <1>1, <1>2, PTL DEF Spec

(* HistoryIsExpansion for any sessions and any history a shell has left:   *)
(* at the prompt the history has grown by what the last line stands for,   *)
(* through any replays, operators and interruptions.                       *)
THEOREM HistoryExact == Spec => []HistoryIsExpansion
  <1>1. HistoryInv => HistoryIsExpansion
    <2> SUFFICES ASSUME HistoryInv, pc = "prompt", Plain
                 PROVE  hist = before \o Expansion(before, typed)
      BY DEF HistoryIsExpansion, Plain
    <2>1. hist \o Coming = before \o Expansion(before, typed) /\ hist \in Seq(Entries)
      BY DEF HistoryInv, HistoryHolds, LineTypes, Ended
    <2>2. Coming = <<>>
      BY DEF Coming
    <2>3. QED  BY <2>1, <2>2, ConcatEmptySeq
  <1>2. QED  BY <1>1, HistoryInvariance, PTL

=============================================================================

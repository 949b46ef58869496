-------------------------------- MODULE Mmu --------------------------------
(***************************************************************************)
(* ideal_indirection/mmu.c: virtual memory of several processes with one   *)
(* TLB.  A page directory entry is the frame of its page table (NoFrame    *)
(* while not present); a page table entry is identified, as the pointers   *)
(* in the TLB do, by the frame of its table and its page, and its base     *)
(* address counts only while it is present.                                *)
(*                                                                         *)
(* A page holds one datum: the code copies to and from the first bytes of  *)
(* the frame, whatever the offset in the virtual address.  The counters of *)
(* faults and misses and the bytes a read copies out are left out.         *)
(***************************************************************************)
EXTENDS Naturals, FiniteSets, FiniteSetsExt

CONSTANTS Pids,        \* process ids, without the one a new mmu starts with
          Pages,       \* virtual pages in use
          VPN0,        \* VPN0[p]: the directory entry of page p
          TestPage1, TestPage2,    \* the pages mmu_add_process maps
          Segment,     \* Segment[p]: permissions of p's segment, {} outside
          NumFrames,   \* physical frames
          TlbSize,     \* entries of the TLB
          Data,        \* what processes write
          MaxAdds      \* bound: calls of mmu_add_process

ASSUME MmuAssumption ==
    /\ NumFrames \in Nat /\ MaxAdds \in Nat /\ TlbSize \in Nat \ {0}
    /\ TestPage1 \in Pages /\ TestPage2 \in Pages \ {TestPage1}
    /\ VPN0[TestPage1] = VPN0[TestPage2]
    /\ 0 \notin Data

VARIABLES curr_pid,            \* the process the TLB belongs to
          page_directories,    \* page_directories[pid]: frame or NoFrame
          pde,                 \* pde[pid][d]: frame of the table or NoFrame
          pte,                 \* pte[t][p]: entry for page p in table frame t
          tlb,                 \* the pages cached, with a pointer to their entry
          freeFrames,          \* frames the kernel may hand out
          mem,                 \* the datum in a frame
          swap,                \* swap[ptr]: the datum in an entry's swap file
          added,               \* calls of mmu_add_process so far
          crashed,             \* a NULL pointer was followed
          lastWritten          \* ghost: the last datum written, per page

mmuVars == <<curr_pid, page_directories, pde, pte, tlb, freeFrames, mem, swap,
             added, crashed, lastWritten>>

NoFrame  == 0
Frames   == 1..NumFrames
Dirs     == {VPN0[p] : p \in Pages}
Pointers == Frames \X Pages
Absent   == [present |-> FALSE, base |-> NoFrame, rw |-> FALSE]
NoTable  == [d \in Dirs |-> NoFrame]

MmuInit ==
    /\ curr_pid = 0
    /\ page_directories = [q \in Pids |-> NoFrame]
    /\ pde = [q \in Pids |-> NoTable]
    /\ pte = [t \in Frames |-> [p \in Pages |-> Absent]]
    /\ tlb = {}
    /\ freeFrames = Frames
    /\ mem = [f \in Frames |-> 0]
    /\ swap = [x \in Pointers |-> 0]
    /\ added = 0
    /\ crashed = FALSE
    /\ lastWritten = [q \in Pids |-> [p \in Pages |-> 0]]

(* The memory a handler works on, threaded through its calls of the kernel. *)
Memory == [pte |-> pte, free |-> freeFrames, mem |-> mem, swap |-> swap]

SetMemory(m) ==
    /\ pte' = m.pte /\ freeFrames' = m.free /\ mem' = m.mem /\ swap' = m.swap

(* ask_kernel_for_frame: a free frame, or the frame of some page that is   *)
(* then written to its swap file; tables and directories stay in memory.   *)
(* The callers rely on a cleared frame: return_frame_to_kernel clears it.  *)
Resident(m) == {x \in Pointers : m.pte[x[1]][x[2]].present}

AskKernel(m) ==
    IF m.free # {}
    THEN {[f |-> Min(m.free),
           m |-> [m EXCEPT !.free = @ \ {Min(m.free)}]]}
    ELSE {LET f == m.pte[x[1]][x[2]].base IN
          [f |-> f,
           m |-> [m EXCEPT !.swap[x] = m.mem[f], !.mem[f] = 0,
                           !.pte[x[1]][x[2]] = Absent]] : x \in Resident(m)}

(* The page fault on an entry: a frame, the page from disk if it was swapped *)
(* out, and the permissions of the segment.                                 *)
FaultIn(m, x, rw) ==
    {[a.m EXCEPT !.pte[x[1]][x[2]] = [present |-> TRUE, base |-> a.f, rw |-> rw],
                 !.mem[a.f] = a.m.swap[x]] : a \in AskKernel(m)}

Writable(p) == "write" \in Segment[p]

(* tlb_get_pte and tlb_add_pte; a full TLB loses one of its entries. *)
TlbHits(t, p)   == {e \in t : e.page = p}
TlbAdd(t, p, x) ==
    LET others == {e \in t : e.page # p}
        kept   == IF Cardinality(others) < TlbSize THEN {others}
                  ELSE {others \ {e} : e \in others}
    IN  {k \cup {[page |-> p, ptr |-> x]} : k \in kept}

SwitchToKeepsTlb(pid) == tlb    \* mutant: no flush

(* The TLB as the access begins: flushed when another process comes in. *)
SwitchTo(pid) == IF curr_pid # pid THEN {} ELSE tlb

-----------------------------------------------------------------------------
(* A read leaves memory m and TLB t; the bytes it copies out are no state. *)
Fetch(m, t) ==
    /\ SetMemory(m)
    /\ tlb' = t
    /\ UNCHANGED <<page_directories, pde, added, crashed, lastWritten>>

ReadHit(p, t) ==
    \E e \in TlbHits(t, p) :
        LET x == e.ptr IN
        IF pte[x[1]][x[2]].present THEN Fetch(Memory, t)
        ELSE \E m \in FaultIn(Memory, x, Writable(p)) : Fetch(m, t)

(* On a miss the entry is used as it is found, present or not.  If the     *)
(* directory entry is not present its fields are prepared through myentry, *)
(* which is NULL here.                                                     *)
ReadMiss(pid, p, t) ==
    /\ TlbHits(t, p) = {}
    /\ LET d == pde[pid][VPN0[p]] IN
       IF d = NoFrame
       THEN /\ crashed' = TRUE
            /\ tlb' = t
            /\ UNCHANGED <<page_directories, pde, pte, freeFrames, mem, swap,
                           added, lastWritten>>
       ELSE \E u \in TlbAdd(t, p, <<d, p>>) : Fetch(Memory, u)

SegmentationFault(t) ==
    /\ tlb' = t
    /\ UNCHANGED <<page_directories, pde, pte, freeFrames, mem, swap,
                   added, crashed, lastWritten>>

mmu_read_from_virtual_address(pid, p) ==
    /\ ~crashed
    /\ page_directories[pid] # NoFrame
    /\ curr_pid' = pid
    /\ IF Segment[p] = {} THEN SegmentationFault(SwitchTo(pid))
       ELSE ReadHit(p, SwitchTo(pid)) \/ ReadMiss(pid, p, SwitchTo(pid))

(* The table of page p for a write: its frame and the memory afterwards. *)
TableFor(pid, p) ==
    LET d == pde[pid][VPN0[p]] IN
    IF d # NoFrame THEN {[f |-> d, m |-> Memory]} ELSE AskKernel(Memory)

(* The rest of a write once the entry x is known. *)
Store(m, x, pid, p, v) ==
    \E n \in IF m.pte[x[1]][x[2]].present THEN {m} ELSE FaultIn(m, x, Writable(p)) :
        LET e == n.pte[x[1]][x[2]] IN
        IF e.rw THEN /\ SetMemory([n EXCEPT !.mem[e.base] = v])
                     /\ lastWritten' = [lastWritten EXCEPT ![pid][p] = v]
        ELSE SetMemory(n) /\ UNCHANGED lastWritten

mmu_write_to_virtual_address(pid, p, v) ==
    /\ ~crashed
    /\ page_directories[pid] # NoFrame
    /\ curr_pid' = pid
    /\ UNCHANGED <<page_directories, added, crashed>>
    /\ LET t == SwitchTo(pid) IN
       \/ /\ Segment[p] = {}
          /\ tlb' = t
          /\ UNCHANGED <<pde, pte, freeFrames, mem, swap, lastWritten>>
       \/ /\ Segment[p] # {}
          /\ \E e \in TlbHits(t, p) : Store(Memory, e.ptr, pid, p, v)
          /\ tlb' = t
          /\ UNCHANGED pde
       \/ /\ Segment[p] # {} /\ TlbHits(t, p) = {}
          /\ \E a \in TableFor(pid, p) :
                /\ pde' = [pde EXCEPT ![pid][VPN0[p]] = a.f]
                /\ tlb' \in TlbAdd(t, p, <<a.f, p>>)
                /\ Store(a.m, <<a.f, p>>, pid, p, v)

(* A directory, the first page table and the two test pages. *)
mmu_add_process(pid) ==
    /\ ~crashed
    /\ added < MaxAdds
    /\ added' = added + 1
    /\ page_directories[pid] = NoFrame
    /\ \E a \in AskKernel(Memory) : \E b \in AskKernel(a.m) :
          /\ page_directories' = [page_directories EXCEPT ![pid] = a.f]
          /\ pde' = [pde EXCEPT ![pid][VPN0[TestPage1]] = b.f]
          /\ \E m \in FaultIn(b.m, <<b.f, TestPage1>>, TRUE) :
             \E n \in FaultIn(m, <<b.f, TestPage2>>, TRUE) : SetMemory(n)
    /\ UNCHANGED <<curr_pid, tlb, crashed, lastWritten>>

(* Every frame of the process goes back to the kernel. *)
TablesOf(pid) == {pde[pid][d] : d \in Dirs} \ {NoFrame}
FramesOf(pid) ==
    {page_directories[pid]} \cup TablesOf(pid) \cup
    {pte[x[1]][x[2]].base : x \in {y \in TablesOf(pid) \X Pages : pte[y[1]][y[2]].present}}

mmu_remove_process(pid) ==
    /\ ~crashed
    /\ page_directories[pid] # NoFrame
    /\ freeFrames' = freeFrames \cup FramesOf(pid)
    /\ pte' = [t \in Frames |-> IF t \in TablesOf(pid) THEN [p \in Pages |-> Absent] ELSE pte[t]]
    /\ swap' = [x \in Pointers |-> IF x[1] \in TablesOf(pid) THEN 0 ELSE swap[x]]
    /\ page_directories' = [page_directories EXCEPT ![pid] = NoFrame]
    /\ pde' = [pde EXCEPT ![pid] = NoTable]
    /\ mem' = [f \in Frames |-> IF f \in FramesOf(pid) THEN 0 ELSE mem[f]]
    /\ tlb' = IF curr_pid = pid THEN {} ELSE tlb
    /\ lastWritten' = [lastWritten EXCEPT ![pid] = [p \in Pages |-> 0]]
    /\ UNCHANGED <<curr_pid, added, crashed>>

MmuNext ==
    \/ \E pid \in Pids : mmu_add_process(pid) \/ mmu_remove_process(pid)
    \/ \E pid \in Pids, p \in Pages : mmu_read_from_virtual_address(pid, p)
    \/ \E pid \in Pids, p \in Pages, v \in Data : mmu_write_to_virtual_address(pid, p, v)

MmuSpec == MmuInit /\ [][MmuNext]_mmuVars

-----------------------------------------------------------------------------
Live(pid)  == page_directories[pid] # NoFrame
Entry(x)   == pte[x[1]][x[2]]
Datum(x)   == IF Entry(x).present THEN mem[Entry(x).base] ELSE swap[x]

(* Whatever evictions, switches and removals came before, each page of a   *)
(* process holds what that process wrote last: in its own frame while      *)
(* present, in its swap file otherwise (ask_kernel_for_frame and           *)
(* read_page_from_disk at every fault, one frame per entry), and the TLB   *)
(* only points at entries of the current process, so no access goes        *)
(* through the tables of another.                                          *)
PagesKeepTheirData ==
    /\ \A e \in tlb : e.ptr[2] = e.page /\ Live(curr_pid)
                      /\ pde[curr_pid][VPN0[e.page]] = e.ptr[1]
    /\ \A pid \in Pids, p \in Pages :
          Live(pid) /\ pde[pid][VPN0[p]] # NoFrame =>
              Datum(<<pde[pid][VPN0[p]], p>>) = lastWritten[pid][p]
    /\ \A pid \in Pids : Live(pid) => FramesOf(pid) \cap freeFrames = {}
    /\ \A a, b \in Pids : a # b /\ Live(a) /\ Live(b) => FramesOf(a) \cap FramesOf(b) = {}
=============================================================================

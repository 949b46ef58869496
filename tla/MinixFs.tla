------------------------------ MODULE MinixFs -------------------------------
(***************************************************************************)
(* finding_filesystems/minixfs.c: files in blocks, the first NUM_DIRECT of *)
(* an inode named by the inode, the others by its indirect block, in one   *)
(* directory.  A block holds BlockSize bytes of a file, or DirentsPerBlock *)
(* directory entries.  Reads are operators on the state.  The helpers of   *)
(* minixfs_utils (get_inode, minixfs_min_blockcount, the block allocators) *)
(* are external; time stamps are left out.                                 *)
(***************************************************************************)
EXTENDS Naturals, Sequences, SequencesExt, FiniteSets, FiniteSetsExt

CONSTANTS Names,             \* file names
          NumBlocks,         \* data blocks of the disk
          BlockSize, DirentsPerBlock,
          NUM_DIRECT, NUM_INDIRECT,
          WriteCounts,       \* byte counts passed to minixfs_write
          Seeds,             \* choices of the bytes written
          Permissions,       \* permissions passed to minixfs_chmod
          Owners,            \* users and groups passed to minixfs_chown
          Chowned            \* bound: the files passed to it

ASSUME FsAssumption ==
    BlockSize \in Nat \ {0} /\ DirentsPerBlock \in Nat \ {0} /\ Permissions \subseteq Nat

VARIABLES inode,       \* inode[n]: the inode of the file, or NoInode
          dirSize, dirBlocks,     \* the directory: entries, direct blocks
          entries,     \* entries[k]: the name in the directory's k-th entry
          data,        \* data[b]: the bytes of block b
          fsBroken,    \* a directory entry was written outside every block
          written      \* ghost: written[n][o], the byte last written at o

fsVars == <<inode, dirSize, dirBlocks, entries, data, fsBroken, written>>

Blocks    == 1..NumBlocks
NoBlock   == 0
Garbage   == 3         \* what lies behind the caller's buffer
Hole      == 4         \* ghost: never written
MaxBytes  == BlockSize * (NUM_DIRECT + NUM_INDIRECT)
RWX       == 512
RegularFile == 8
EmptyInode == [size |-> 0, direct |-> <<>>, table |-> NoBlock, indirect |-> <<>>,
               mode |-> RegularFile * RWX, uid |-> 0, gid |-> 0]
NoInode   == [EmptyInode EXCEPT !.mode = 0]
Exists(n) == inode[n].mode # 0

FsInit ==
    /\ inode = [n \in Names |-> NoInode]
    /\ dirSize = 0 /\ dirBlocks = <<>> /\ entries = <<>>
    /\ data = [b \in Blocks |-> [k \in 1..BlockSize |-> 0]]
    /\ fsBroken = FALSE
    /\ written = [n \in Names |-> [o \in 0..(MaxBytes - 1) |-> Hole]]

(* The data map: a block is in use when an inode or the directory holds it. *)
HeldBy(i) == Range(i.direct) \cup Range(i.indirect) \cup ({i.table} \ {NoBlock})
Used == UNION {HeldBy(inode[n]) : n \in Names} \cup Range(dirBlocks)
DiskFree(ns) == Blocks \ (UNION {HeldBy(ns[n]) : n \in Names} \cup Range(dirBlocks))

(* minixfs_min_blockcount: blocks are added one by one, the indirect block *)
(* with the first block it names; those added stay when the disk is full.  *)
BlockCount(i) == Len(i.direct) + Len(i.indirect)
AddBlock(i, free) ==
    CASE BlockCount(i) < NUM_DIRECT -> [i EXCEPT !.direct = Append(@, Min(free))]
      [] i.table # NoBlock          -> [i EXCEPT !.indirect = Append(@, Min(free))]
      [] OTHER                      -> [i EXCEPT !.table = Min(free)]

MinBlockcount(n, need) ==
    LET grow[k \in Nat] ==
            IF k = 0 THEN inode
            ELSE LET g == grow[k - 1] IN
                 IF BlockCount(g[n]) >= need \/ DiskFree(g) = {} THEN g
                 ELSE [g EXCEPT ![n] = AddBlock(g[n], DiskFree(g))]
    IN  grow[need + 1]

-----------------------------------------------------------------------------
(* The entry goes where the directory ends.  A directory whose blocks are  *)
(* exactly full has room for an entry in a block it does not have.         *)
minixfs_create_inode_for_path(n) ==
    /\ ~fsBroken
    /\ ~Exists(n)
    /\ LET bnum == dirSize \div DirentsPerBlock IN
       \/ /\ dirSize = 0 /\ DiskFree(inode) # {}
          /\ dirBlocks' = Append(dirBlocks, Min(DiskFree(inode)))
          /\ UNCHANGED fsBroken
       \/ /\ dirSize # 0
          /\ fsBroken' = (bnum >= Len(dirBlocks))
          /\ UNCHANGED dirBlocks
    /\ inode' = [inode EXCEPT ![n] = EmptyInode]
    /\ entries' = Append(entries, n)
    /\ dirSize' = dirSize + 1
    /\ UNCHANGED <<data, written>>

(* The bytes of a write at off: they tell positions and seeds apart. *)
Buffer(off, count, seed) == [k \in 1..count |-> (off + k + seed) % 3]

(* memcpy of bytes to place at of block b. *)
Copy(d, b, at, bytes) ==
    [d EXCEPT ![b] = [k \in 1..BlockSize |->
        IF k > at /\ k <= at + Len(bytes) THEN bytes[k - at] ELSE @[k]]]

(* Block k of a file, through direct or through the indirect block. *)
BlockAt(i, k) == IF k < NUM_DIRECT THEN i.direct[k + 1] ELSE i.indirect[k - NUM_DIRECT + 1]

(* The copies a write makes: the rest of the first block, whole blocks and *)
(* the last part, for which a write that starts in a direct block and ends *)
(* behind them copies a whole block, reading past the caller's buffer.     *)
Stored(d, i, off, buf) ==
    LET num    == off \div BlockSize
        offset == off % BlockSize
        remain == BlockSize - offset
        count  == Len(buf)
        newoff == (off + count) % BlockSize
        block  == (count - remain) \div BlockSize
        piece(from, m) == [k \in 1..m |-> IF from + k <= count THEN buf[from + k] ELSE Garbage]
        first  == Copy(d, BlockAt(i, num), offset, piece(0, remain))
        whole[k \in 0..block] ==
            IF k = 0 THEN first
            ELSE Copy(whole[k - 1], BlockAt(i, num + k), 0, piece(remain + (k - 1) * BlockSize, BlockSize))
        tail   == remain + block * BlockSize
    IN  IF count <= remain THEN Copy(d, BlockAt(i, num), offset, buf)
        ELSE IF newoff = 0 THEN whole[block]
        ELSE Copy(whole[block], BlockAt(i, num + block + 1), 0,
                  piece(tail, IF num < NUM_DIRECT /\ num + block + 1 >= NUM_DIRECT
                              THEN BlockSize ELSE newoff))

(* size becomes the end of the write, also when the file was longer. *)
minixfs_write(n, off, count, seed) ==
    /\ ~fsBroken
    /\ Exists(n)
    /\ off + count <= MaxBytes
    /\ LET need  == (off + count + BlockSize - 1) \div BlockSize
           nodes == MinBlockcount(n, need)
           buf   == Buffer(off, count, seed)
       IN  IF BlockCount(nodes[n]) < need      \* ENOSPC
           THEN inode' = nodes /\ UNCHANGED <<data, written>>
           ELSE /\ data' = Stored(data, nodes[n], off, buf)
                /\ inode' = [nodes EXCEPT ![n].size = off + count]
                /\ written' = [written EXCEPT ![n] = [o \in DOMAIN @ |->
                                 CASE o < off         -> @[o]
                                   [] o >= off + count -> Hole
                                   [] OTHER           -> buf[o - off + 1]]]
    /\ UNCHANGED <<dirSize, dirBlocks, entries, fsBroken>>

minixfs_chmod(n, new_permissions) ==
    /\ ~fsBroken
    /\ Exists(n)
    /\ inode' = [inode EXCEPT ![n].mode = (@ \div RWX) * RWX + (new_permissions % RWX)]
    /\ UNCHANGED <<dirSize, dirBlocks, entries, data, fsBroken, written>>

(* KEEP stands for -1: that field stays. *)
KEEP == 0
minixfs_chown(n, owner, group) ==
    /\ ~fsBroken
    /\ Exists(n)
    /\ inode' = [inode EXCEPT ![n].uid = IF owner = KEEP THEN @ ELSE owner,
                              ![n].gid = IF group = KEEP THEN @ ELSE group]
    /\ UNCHANGED <<dirSize, dirBlocks, entries, data, fsBroken, written>>

FsNext ==
    \/ \E n \in Names : minixfs_create_inode_for_path(n)
    \/ \E n \in Names, count \in WriteCounts, seed \in Seeds :
          \E off \in 0..inode[n].size : minixfs_write(n, off, count, seed)
    \/ \E n \in Names, p \in Permissions : minixfs_chmod(n, p)
    \/ \E n \in Chowned, o, g \in Owners \cup {KEEP} : minixfs_chown(n, o, g)

-----------------------------------------------------------------------------
From(b, at, m) == SubSeq(data[b], at + 1, at + m)

(* minixfs_read: what is copied into buf. *)
ReadSkipsBlock(n, off, count) ==    \* mutant: indirect blocks counted from 1
    LET i      == inode[n]
        num    == off \div BlockSize
        offset == off % BlockSize
        remain == BlockSize - offset
        c      == IF off + count >= i.size THEN i.size - off ELSE count
        whole  == (c - remain) \div BlockSize
        newoff == (c - remain) % BlockSize
        Blk(k) == IF num < NUM_DIRECT /\ k > NUM_DIRECT THEN BlockAt(i, k - 1) ELSE BlockAt(i, k)
        middle == FlattenSeq([k \in 1..whole |-> From(Blk(num + k), 0, BlockSize)])
    IN  IF off >= i.size THEN <<>>
        ELSE IF c <= remain THEN From(BlockAt(i, num), offset, c)
        ELSE From(BlockAt(i, num), offset, remain) \o middle
             \o (IF newoff = 0 THEN <<>> ELSE From(Blk(num + whole + 1), 0, newoff))

minixfs_read(n, off, count) ==
    LET i      == inode[n]
        num    == off \div BlockSize
        offset == off % BlockSize
        remain == BlockSize - offset
        c      == IF off + count >= i.size THEN i.size - off ELSE count
        whole  == (c - remain) \div BlockSize
        newoff == (c - remain) % BlockSize
        \* the blocks after the first: all indirect, all direct, or direct
        \* to the end of the inode's own and then the indirect ones from 0
        behind == num + whole + 1 - NUM_DIRECT
        middle ==
            IF num >= NUM_DIRECT
            THEN [k \in 1..whole |-> i.indirect[num - NUM_DIRECT + k + 1]]
            ELSE IF num + whole + 1 < NUM_DIRECT
            THEN [k \in 1..whole |-> i.direct[num + k + 1]]
            ELSE SubSeq(i.direct, num + 2, NUM_DIRECT) \o SubSeq(i.indirect, 1, behind)
        last   ==
            IF num >= NUM_DIRECT THEN i.indirect[num - NUM_DIRECT + whole + 2]
            ELSE IF num + whole + 1 < NUM_DIRECT THEN i.direct[num + whole + 2]
            ELSE i.indirect[behind + 1]
    IN  IF off >= i.size THEN <<>>
        ELSE IF c <= remain THEN From(BlockAt(i, num), offset, c)
        ELSE From(BlockAt(i, num), offset, remain)
             \o FlattenSeq([k \in DOMAIN middle |-> From(middle[k], 0, BlockSize)])
             \o (IF newoff = 0 THEN <<>> ELSE From(last, 0, newoff))

(* minixfs_virtual_read: the text is the numbers of free and used blocks. *)
InfoText == <<NumBlocks - Cardinality(Used), Cardinality(Used)>>
minixfs_virtual_read(off, count) ==
    IF off >= Len(InfoText) THEN <<>>
    ELSE SubSeq(InfoText, off + 1, IF off + count > Len(InfoText) THEN Len(InfoText) ELSE off + count)

(* Every read of every range of a file returns the bytes written there     *)
(* last, across the end of a block and from direct to indirect blocks,     *)
(* whatever writes, of this file or another one, of truncating or failing  *)
(* with a full disk, came before; the bytes written past the caller's      *)
(* buffer never lie inside the file; a file stays a regular file.          *)
FilesHoldWhatWasWritten ==
    ~fsBroken => \A n \in Names : Exists(n) =>
        /\ inode[n].mode \div RWX = RegularFile
        /\ \A off \in 0..inode[n].size, count \in 1..MaxBytes :
              LET r == minixfs_read(n, off, count) IN
              /\ Len(r) = Min({count, inode[n].size - off})
              /\ \A k \in DOMAIN r : written[n][off + k - 1] \in {r[k], Hole}

(* No block belongs to two files or twice to one, so the numbers the       *)
(* virtual file info reports add up, and each existing file has one entry  *)
(* within the directory's blocks.                                          *)
BlocksAreOwnedOnce ==
    ~fsBroken =>
        /\ Cardinality(Used) = Len(dirBlocks) + MapThenSumSet(
              LAMBDA n : BlockCount(inode[n]) + (IF inode[n].table = NoBlock THEN 0 ELSE 1), Names)
        /\ minixfs_virtual_read(0, 2)[1] = Cardinality(DiskFree(inode))
        /\ Len(entries) <= DirentsPerBlock * Len(dirBlocks)
        /\ Range(entries) = {n \in Names : Exists(n)} /\ IsInjective(entries)

(* Files hold what was written to them, whatever happened to the blocks of *)
(* the others, because every block has one owner.                          *)
FileSystemIsSound == FilesHoldWhatWasWritten /\ BlocksAreOwnedOnce

=============================================================================

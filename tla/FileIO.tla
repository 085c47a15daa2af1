-------------------------------- MODULE FileIO ------------------------------
(***************************************************************************)
(* The content of files: the block map of an inode and its blocks (fs.c),  *)
(* reading and writing through an open file (file.c), and the image mkfs.c *)
(* starts from.                                                            *)
(*                                                                         *)
(* A disk is a record: whether mkfs is still at work, the bitmap as the    *)
(* set of used blocks, addrs and size of each inode, the data of each      *)
(* block, and the blocks passed to log_write().  A block holds BSIZE bytes *)
(* or as many block numbers.  The lock of an inode is held during each     *)
(* step, which reads or writes one inode; a long write() is several steps, *)
(* one for each of its transactions.                                       *)
(***************************************************************************)
EXTENDS Integers, Sequences, FiniteSetsExt, SequencesExt

CONSTANTS
    Procs,              \* processes, as positive numbers
    NBlocks,            \* data blocks
    BSIZE, NDIRECT,     \* bytes in a block; direct blocks of an inode
    MAXOPBLOCKS,        \* blocks an operation may write
    Sizes,              \* sizes of requests
    MaxCalls,           \* bound: system calls made
    MkfsSizes           \* MkfsSizes[i]: bytes mkfs puts in inode i

FileIOAssumption ==
    /\ Procs \subseteq Nat \ {0} /\ NBlocks \in Nat /\ BSIZE \in Nat \ {0}
    /\ NDIRECT \in Nat \ {0} /\ MAXOPBLOCKS \in Nat /\ Sizes \subseteq Nat

Blocks == 1..NBlocks
Inodes == DOMAIN MkfsSizes
NINDIRECT == BSIZE
MAXFILE == NDIRECT + NINDIRECT
ROOT == 1
BITMAP == 0
INODES == NBlocks + 1        \* the block of the inodes

VARIABLES
    disk,
    off,                \* off[i]: the offset of the open file of inode i
    write,              \* write[p]: a filewrite() in progress, or << >>
    panicked,
    calls,              \* system calls made
    contents, moved     \* history: bytes of the files; bytes moved since open

vars == <<disk, off, write, panicked, calls, contents, moved>>

Bytes(b) == [k \in 0..(BSIZE - 1) |-> b]

(* main() of mkfs: a disk of zeroes, all inodes empty.                     *)
Init ==
    /\ disk = [mkfs |-> TRUE, used |-> {}, log |-> {}, full |-> FALSE,
               addrs |-> [i \in Inodes |-> [k \in 0..NDIRECT |-> 0]],
               size |-> [i \in Inodes |-> 0],
               data |-> [b \in Blocks |-> Bytes(0)]]
    /\ off = [i \in Inodes |-> 0]
    /\ write = [p \in Procs |-> << >>]
    /\ panicked = FALSE
    /\ calls = 0
    /\ contents = [i \in Inodes |-> << >>]
    /\ moved = [i \in Inodes |-> 0]

-----------------------------------------------------------------------------
(* bzero()                                                                 *)
Bzero(d, b) == [d.data EXCEPT ![b] = Bytes(0)]

(* balloc(): the first free block, marked and zeroed; panics when there is *)
(* none.                                                                   *)
FirstFree(d) == Min(Blocks \ d.used)
Balloc(d) ==
    IF Blocks \subseteq d.used THEN [d EXCEPT !.full = TRUE]
    ELSE [d EXCEPT !.used = @ \cup {FirstFree(d)},
                   !.log = @ \cup {BITMAP, FirstFree(d)},
                   !.data = Bzero(d, FirstFree(d))]

(* mkfs: freeblock++, on a disk of zeroes.                                 *)
FreeBlock(d) == 1 + Cardinality(d.used)
MkfsBalloc(d) == [d EXCEPT !.used = @ \cup {FreeBlock(d)}]

Alloc(d) == IF d.mkfs THEN MkfsBalloc(d) ELSE Balloc(d)
NewBlock(d) == IF d.mkfs THEN FreeBlock(d) ELSE FirstFree(d)

(* bfree(): panic("freeing free block") is full here.                      *)
Bfree(d, b) == [d EXCEPT !.used = @ \ {b}, !.log = @ \cup {BITMAP},
                         !.full = @ \/ b \notin d.used]

(* bmap() without its allocation: the address of block bn of inode i.      *)
BlockOf(d, i, bn) ==
    IF bn < NDIRECT THEN d.addrs[i][bn]
    ELSE IF d.addrs[i][NDIRECT] = 0 THEN 0
    ELSE d.data[d.addrs[i][NDIRECT]][bn - NDIRECT]

(* Entry k of addrs, which is zero, gets a block.                          *)
Addressed(d, i, k) ==
    IF Alloc(d).full THEN Alloc(d)
    ELSE [Alloc(d) EXCEPT !.addrs[i][k] = NewBlock(d)]

(* bmap(): allocate the block, and the indirect block before it, if they   *)
(* are not there.                                                          *)
Bmap(d, i, bn) ==
    IF d.full \/ BlockOf(d, i, bn) # 0 THEN d
    ELSE IF bn < NDIRECT THEN Addressed(d, i, bn)
    ELSE LET ind == IF d.addrs[i][NDIRECT] # 0 THEN d ELSE Addressed(d, i, NDIRECT)
             a == ind.addrs[i][NDIRECT] IN
         IF ind.full \/ Alloc(ind).full THEN Alloc(ind)
         ELSE [Alloc(ind) EXCEPT !.data[a][bn - NDIRECT] = NewBlock(ind),
                                 !.log = @ \cup {a}]

(* itrunc() and iupdate()                                                  *)
BlocksOf(d, i) == {BlockOf(d, i, bn) : bn \in 0..(MAXFILE - 1)} \ {0}
Itrunc(d, i) ==
    LET all == BlocksOf(d, i) \cup ({d.addrs[i][NDIRECT]} \ {0})
    IN  [FoldSet(LAMBDA b, e : Bfree(e, b), d, all) EXCEPT
           !.addrs[i] = [k \in 0..NDIRECT |-> 0], !.size[i] = 0,
           !.log = @ \cup {INODES}]

-----------------------------------------------------------------------------
(* The blocks of the bytes from o on, n of them, all of them mapped.       *)
Mapped(d, i, o, n) ==
    FoldLeft(LAMBDA e, k : Bmap(e, i, (o \div BSIZE) + k - 1), d,
        [k \in 1..(IF n = 0 THEN 0
                   ELSE ((o + n - 1) \div BSIZE) - (o \div BSIZE) + 1) |-> k])

(* The data after n bytes v are copied to offset o, block by block.        *)
Copied(d, i, o, n, v) ==
    [b \in Blocks |-> [k \in 0..(BSIZE - 1) |->
        IF \E bn \in 0..(MAXFILE - 1) : BlockOf(d, i, bn) = b /\
             bn * BSIZE + k \in o..(o + n - 1)
        THEN v ELSE d.data[b][k]]]

(* readi(): the number of bytes, -1 for an offset beyond the end.          *)
ReadiLen(d, i, o, n) ==
    IF o > d.size[i] THEN -1 ELSE Min({n, d.size[i] - o})

(* readi(): the bytes.                                                     *)
ReadiBytes(d, i, o, n) ==
    [k \in 1..n |-> d.data[BlockOf(d, i, (o + k - 1) \div BSIZE)]
                          [(o + k - 1) % BSIZE]]

(* writei(): the number of bytes, -1 if the file would be too long.        *)
WriteiLen(d, i, o, n) ==
    IF o > d.size[i] \/ o + n > MAXFILE * BSIZE THEN -1 ELSE n

(* writei(): the disk afterwards.                                          *)
Writei(d, i, o, n, v) ==
    LET m == Mapped(d, i, o, n)
        blocks == {BlockOf(m, i, bn) : bn \in (o \div BSIZE)..((o + n - 1) \div BSIZE)}
        longer == o + n > d.size[i] IN
    IF m.full THEN m
    ELSE [m EXCEPT !.data = Copied(m, i, o, n, v),
                   !.size[i] = IF longer THEN o + n ELSE @,
                   !.log = @ \cup blocks \cup (IF longer THEN {INODES} ELSE {})]

(* The same on a sequence of bytes.                                        *)
Overwrite(s, o, n, v) ==
    [k \in 1..Max({Len(s), o + n}) |-> IF k \in (o + 1)..(o + n) THEN v ELSE s[k]]

-----------------------------------------------------------------------------
(* mkfs: iappend() of the content of an inode; rounds the size of the root *)
(* directory up to a full block; writes the bitmap.                        *)
Mkfs(i) ==
    /\ disk.mkfs /\ disk.size[i] = 0 /\ MkfsSizes[i] > 0
    /\ \A j \in Inodes : j < i => disk.size[j] > 0 \/ MkfsSizes[j] = 0
    /\ LET n == MkfsSizes[i]
           m == Mapped(disk, i, 0, n)
           size == IF i = ROOT THEN ((n \div BSIZE) + 1) * BSIZE ELSE n IN
        /\ disk' = [m EXCEPT !.size[i] = size, !.data = Copied(m, i, 0, n, i)]
        /\ contents' = [contents EXCEPT ![i] =
                          [k \in 1..size |-> IF k <= n THEN i ELSE 0]]
    /\ UNCHANGED <<off, write, panicked, calls, moved>>

Boot ==
    /\ disk.mkfs /\ \A i \in Inodes : disk.size[i] > 0 \/ MkfsSizes[i] = 0
    /\ disk' = [disk EXCEPT !.mkfs = FALSE]
    /\ UNCHANGED <<off, write, panicked, calls, contents, moved>>

Running == ~disk.mkfs /\ ~panicked
Called == calls < MaxCalls /\ calls' = calls + 1

(* sys_read(), fileread(): the blocks of the part that is read are mapped, *)
(* and the offset moves, with the inode locked.  A read is in no           *)
(* transaction: a block it has to add is written to the log of whoever is  *)
(* in one, or log_write() panics.                                          *)
Fileread(p, i, n) ==
    /\ Running /\ write[p] = << >> /\ Called
    /\ LET r == ReadiLen(disk, i, off[i], n)
           m == Mapped([disk EXCEPT !.log = {}], i, off[i], Max({r, 0})) IN
        /\ disk' = m /\ panicked' \in {m.full, m.full \/ m.log # {}}
        /\ off' = [off EXCEPT ![i] = @ + Max({r, 0})]
        /\ moved' = [moved EXCEPT ![i] = @ + Max({r, 0})]
    /\ UNCHANGED <<write, contents>>

(* sys_write(), filewrite(): the call begins.                              *)
Filewrite(p, i, n) ==
    /\ Running /\ write[p] = << >> /\ n > 0 /\ Called
    /\ write' = [write EXCEPT ![p] = [ip |-> i, left |-> n, start |-> off[i]]]
    /\ UNCHANGED <<disk, off, panicked, contents, moved>>

(* filewrite(): the bytes one transaction writes at most.                  *)
MaxChunk == ((MAXOPBLOCKS - 1 - 1 - 2) \div 2) * BSIZE

(* Mutant of Advance: the offset is the one from before the inode was      *)
(* locked.                                                                 *)
AdvanceStale(p, n) == [off EXCEPT ![write[p].ip] = write[p].start + n]

(* filewrite(): f->off += r, with the inode locked.                        *)
Advance(p, n) == [off EXCEPT ![write[p].ip] = @ + n]

(* filewrite(): one round of its loop, a transaction of its own.           *)
FilewriteChunk(p) ==
    /\ Running /\ write[p] # << >>
    /\ LET i == write[p].ip
           n1 == Min({write[p].left, MaxChunk})
           r == WriteiLen(disk, i, off[i], n1)
           w == Writei([disk EXCEPT !.log = {}], i, off[i], n1, p)
           over == r < 0 \/ n1 = write[p].left IN
        /\ IF r < 0 THEN UNCHANGED <<disk, off, panicked, contents, moved>>
           ELSE /\ disk' = w /\ panicked' = w.full
                /\ off' = Advance(p, r)
                /\ moved' = [moved EXCEPT ![i] = @ + r]
                /\ contents' = [contents EXCEPT ![i] =
                                  Overwrite(@, off[i], r, p)]
        /\ write' = [write EXCEPT ![p] = IF over THEN << >>
             ELSE [@ EXCEPT !.left = @ - n1, !.start = off[i] + r]]
    /\ UNCHANGED calls

InWrite(i) == \E p \in Procs : write[p] # << >> /\ write[p].ip = i

(* The file is closed and opened again.                                    *)
Reopen(i) ==
    /\ Running /\ ~InWrite(i) /\ off[i] # 0 /\ Called
    /\ off' = [off EXCEPT ![i] = 0]
    /\ moved' = [moved EXCEPT ![i] = 0]
    /\ UNCHANGED <<disk, write, panicked, contents>>

(* The file is closed and removed: iput() truncates the inode, which is    *)
(* then used for a new file.                                               *)
Unlink(i) ==
    /\ Running /\ ~InWrite(i) /\ i # ROOT /\ disk.size[i] > 0 /\ Called
    /\ LET t == Itrunc([disk EXCEPT !.log = {}], i) IN
        disk' = t /\ panicked' = t.full
    /\ contents' = [contents EXCEPT ![i] = << >>]
    /\ off' = [off EXCEPT ![i] = 0]
    /\ moved' = [moved EXCEPT ![i] = 0]
    /\ UNCHANGED write

Next ==
    \/ \E i \in Inodes : Mkfs(i) \/ Reopen(i) \/ Unlink(i)
    \/ Boot
    \/ \E p \in Procs :
        \/ \E i \in Inodes, n \in Sizes : Fileread(p, i, n) \/ Filewrite(p, i, n)
        \/ FilewriteChunk(p)

Spec == Init /\ [][Next]_vars

-----------------------------------------------------------------------------
(* What read() returns is what was written: the block map, direct and      *)
(* indirect, shows the file as a sequence of bytes, and no write to one    *)
(* file shows in another, whatever blocks they had before.                 *)
ContentsMatch ==
    ~panicked => \A i \in Inodes :
        LET n == disk.size[i]
            d == Mapped(disk, i, 0, n) IN
        d.full \/ ReadiBytes(d, i, 0, n) = contents[i]

(* A block that is marked in the bitmap has one owner, a block that is not *)
(* marked has none: nothing is lost by bmap(), itrunc() and mkfs, nothing  *)
(* is shared.                                                              *)
BlocksOwnedOnce ==
    LET owners(b) ==
          {<<i, k>> \in Inodes \X (0..NDIRECT) : disk.addrs[i][k] = b} \cup
          {<<i, NDIRECT + 1 + k>> : <<i, k>> \in {<<j, n>> \in
             Inodes \X (0..(NINDIRECT - 1)) : disk.addrs[j][NDIRECT] # 0 /\
               disk.data[disk.addrs[j][NDIRECT]][n] = b}}
    IN  ~panicked => \A b \in Blocks :
            Cardinality(owners(b)) = (IF b \in disk.used THEN 1 ELSE 0)

(* Processes that share an open file share its offset: every byte read or  *)
(* written moves it, none is written over by the other process, also when  *)
(* a long write() is interrupted between its transactions.                 *)
SharedOffset == off = moved

(* A transaction of filewrite() or iput() stays within what begin_op()     *)
(* reserves for it ("write a few blocks at a time to avoid exceeding the   *)
(* maximum log transaction size").                                         *)
OpFitsLog == ~disk.mkfs => Cardinality(disk.log) <= MAXOPBLOCKS
=============================================================================

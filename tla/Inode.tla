-------------------------------- MODULE Inode -------------------------------
(***************************************************************************)
(* Inodes, directories and path names (fs.c).                              *)
(*                                                                         *)
(* What a process still has to do inside the kernel is a stack, todo[p]:   *)
(* its head is the next section between two points at which the process    *)
(* can block or be overtaken, and a call pushes the sections of the        *)
(* callee.  A system call (FileTable) is a sequence of such sections.      *)
(*                                                                         *)
(* The disk is what the operations see through the log and the buffer      *)
(* cache (AtomicDisk, Bcache): dinode.  A section under icache.lock is one *)
(* step; the sleep lock of an inode is its owner, NoProc if free.     The  *)
(* blocks of an inode are the subject of FileIO: here a directory is the   *)
(* sequence of its entries, and a file has no content.                     *)
(***************************************************************************)
EXTENDS Integers, Sequences, FiniteSetsExt, SequencesExt

CONSTANTS
    Procs, NoProc,   \* processes; nobody
    NINodes,         \* inodes on the disk, number 0 apart (sb.ninodes - 1)
    NINODE           \* entries of the inode cache

ASSUME InodeAssumption ==
    /\ NoProc \notin Procs /\ IsFiniteSet(Procs)
    /\ NINodes \in Nat \ {0} /\ NINODE \in Nat \ {0}

Inums == 1..NINodes
ROOTINO == 1

VARIABLES
    dinode,     \* dinode[i]: type, nlink and entries of inode i on the disk
    icache,     \* icache[s]: entry s of the inode cache
    cwd,        \* cwd[p]: cache entry of the current directory, 0 if none
    todo, reg,  \* what p has to do, and its local variables
    txn,        \* processes between begin_op() and end_op()
    panicked    \* "no", "state" or "full"

inodeVars == <<dinode, icache, cwd, todo, reg, txn, panicked>>

NoRegs == [r |-> 0, ip |-> 0, dp |-> 0, name |-> "", ok |-> TRUE]

(* iinit() and mkfs: an empty root directory, and p in it.                 *)
InodeInit(p) ==
    /\ dinode = [i \in Inums |-> IF i = ROOTINO
         THEN [type |-> "dir", nlink |-> 1,
               ents |-> <<[name |-> ".", inum |-> ROOTINO],
                          [name |-> "..", inum |-> ROOTINO]>>]
         ELSE [type |-> "none", nlink |-> 0, ents |-> << >>]]
    /\ icache = [s \in 1..NINODE |->
         [inum |-> IF s = 1 THEN ROOTINO ELSE 0,
          ref |-> IF s = 1 THEN 1 ELSE 0,
          owner |-> NoProc, valid |-> FALSE, type |-> "none", nlink |-> 0]]
    /\ cwd = [q \in Procs |-> IF q = p THEN 1 ELSE 0]
    /\ todo = [q \in Procs |-> << >>]
    /\ reg = [q \in Procs |-> NoRegs]
    /\ txn = {}
    /\ panicked = "no"

-----------------------------------------------------------------------------
At(p, op) == todo[p] # << >> /\ Head(todo[p])[1] = op /\ panicked = "no"
Arg(p, k) == Head(todo[p])[k + 1]

(* The section is over: go on with ops, then with what was there before.   *)
Then(p, ops) == todo' = [todo EXCEPT ![p] = ops \o Tail(@)]
Return(p, ops, s) == /\ Then(p, ops)
                     /\ reg' = [reg EXCEPT ![p].r = s]

(* panic() because of the state the kernel is in, or because a table is    *)
(* full.                                                                   *)
PanicIf(wrong) == panicked' = IF wrong THEN "state" ELSE "no"
FullIf(full) == panicked' = IF full THEN "full" ELSE "no"

Inum(s) == icache[s].inum

(* begin_op() and end_op(): see Log.  The local variables are not used     *)
(* any more after end_op().                                                *)
BeginOp(p) ==
    /\ At(p, "begin_op")
    /\ txn' = txn \cup {p}
    /\ Then(p, << >>)
    /\ UNCHANGED <<dinode, icache, cwd, reg, panicked>>

EndOp(p) ==
    /\ At(p, "end_op")
    /\ txn' = txn \ {p}
    /\ Then(p, << >>)
    /\ reg' = [reg EXCEPT ![p] = NoRegs]
    /\ UNCHANGED <<dinode, icache, cwd, panicked>>

-----------------------------------------------------------------------------
Referenced(i) == {s \in DOMAIN icache : icache[s].ref > 0 /\ Inum(s) = i}
Unused == {s \in DOMAIN icache : icache[s].ref = 0}

(* iget(): the entry for inode i, 0 where the code panics for want of one. *)
IgetSlot(i) == IF Referenced(i) # {} THEN Min(Referenced(i))
               ELSE IF Unused # {} THEN Min(Unused) ELSE 0

(* iget(): the cache after the call.                                       *)
Iget(i) ==
    LET s == IgetSlot(i) IN
    IF s = 0 THEN icache
    ELSE IF s \in Referenced(i) THEN [icache EXCEPT ![s].ref = @ + 1]
    ELSE [icache EXCEPT ![s].inum = i, ![s].ref = 1, ![s].valid = FALSE]

Idup(s) == [icache EXCEPT ![s].ref = @ + 1]

(* ilock(): wait for the lock, read the inode unless it is valid, and      *)
(* panic("ilock: no type") if nothing is there.                            *)
Ilock(p) ==
    /\ At(p, "ilock")
    /\ LET s == Arg(p, 1)
           d == dinode[Inum(s)] IN
        /\ icache[s].owner = NoProc
        /\ icache' = [icache EXCEPT ![s] =
             IF @.valid THEN [@ EXCEPT !.owner = p]
             ELSE [@ EXCEPT !.owner = p, !.valid = TRUE, !.type = d.type,
                            !.nlink = d.nlink]]
        /\ PanicIf(icache[s].ref < 1 \/ (~icache[s].valid /\ d.type = "none"))
    /\ Then(p, << >>)
    /\ UNCHANGED <<dinode, cwd, reg, txn>>

(* iunlock()                                                               *)
Iunlock(p) ==
    /\ At(p, "iunlock")
    /\ LET s == Arg(p, 1) IN
        /\ icache' = [icache EXCEPT ![s].owner = NoProc]
        /\ PanicIf(icache[s].owner # p \/ icache[s].ref < 1)
    /\ Then(p, << >>)
    /\ UNCHANGED <<dinode, cwd, reg, txn>>

(* Mutant of LastLink: whoever drops a reference frees an unlinked inode.  *)
AnyReference(s) == icache[s].valid /\ icache[s].nlink = 0

(* iput(): this is the last reference to an inode without links.           *)
LastLink(s) == icache[s].valid /\ icache[s].nlink = 0 /\ icache[s].ref = 1

(* iput(): take the sleep lock, look at ref under icache.lock, and give the *)
(* lock up again unless the inode is to be freed.                          *)
IputLock(p) ==
    /\ At(p, "iput")
    /\ LET s == Arg(p, 1) IN
        /\ icache[s].owner = NoProc
        /\ IF LastLink(s)
           THEN /\ icache' = [icache EXCEPT ![s].owner = p]
                /\ Then(p, << <<"ifree", s>>, <<"idrop", s>> >>)
           ELSE /\ Then(p, << <<"idrop", s>> >>)
                /\ UNCHANGED icache
    /\ UNCHANGED <<dinode, cwd, reg, txn, panicked>>

(* iput(): itrunc() and iupdate() with type 0; then releasesleep().        *)
IputFree(p) ==
    /\ At(p, "ifree")
    /\ LET s == Arg(p, 1) IN
        /\ dinode' = [dinode EXCEPT ![Inum(s)] =
                        [@ EXCEPT !.type = "none", !.ents = << >>]]
        /\ icache' = [icache EXCEPT ![s].type = "none", ![s].valid = FALSE,
                                    ![s].owner = NoProc]
    /\ Then(p, << >>)
    /\ UNCHANGED <<cwd, reg, txn, panicked>>

(* iput(): drop the reference, under icache.lock.                          *)
IputDrop(p) ==
    /\ At(p, "idrop")
    /\ icache' = [icache EXCEPT ![Arg(p, 1)].ref = @ - 1]
    /\ Then(p, << >>)
    /\ UNCHANGED <<dinode, cwd, reg, txn, panicked>>

Iunlockput(s) == << <<"iunlock", s>>, <<"iput", s>> >>

(* ialloc(): the first free inode, marked on the disk; 0 where the code    *)
(* panics because there is none.                                           *)
FreeInum == LET free == {i \in Inums : dinode[i].type = "none"}
            IN  IF free = {} THEN 0 ELSE Min(free)
Ialloc(i, type) == [dinode EXCEPT ![i] =
                      [type |-> type, nlink |-> 0, ents |-> << >>]]

(* A change of nlink in memory, and iupdate().                             *)
AddLink(disk, s, d) == [disk EXCEPT ![Inum(s)].nlink = @ + d]
AddLinkMem(cache, s, d) == [cache EXCEPT ![s].nlink = @ + d]

-----------------------------------------------------------------------------
(* dirlookup(): the index of the entry with this name, 0 if there is none. *)
Dirlookup(d, name) ==
    SelectInSeq(d.ents, LAMBDA e : e.inum # 0 /\ e.name = name)

(* dirlink(): the directory with the new entry, in the first free place.   *)
WithEntry(d, name, i) ==
    LET k == SelectInSeq(d.ents, LAMBDA e : e.inum = 0)
        e == [name |-> name, inum |-> i]
    IN  [d EXCEPT !.ents = IF k = 0 THEN Append(@, e)
                           ELSE [@ EXCEPT ![k] = e]]

(* dirlink(dp, name, inum) with dp locked: fails if the name is there, and *)
(* then puts the inode dirlookup() returned.  ok is its result.            *)
Dirlink(p) ==
    /\ At(p, "dirlink")
    /\ LET dp == Arg(p, 1)
           name == Arg(p, 2)
           k == Dirlookup(dinode[Inum(dp)], name)
           i == dinode[Inum(dp)].ents[k].inum IN
        IF k = 0
        THEN /\ dinode' = [dinode EXCEPT ![Inum(dp)] =
                             WithEntry(@, name, Arg(p, 3))]
             /\ reg' = [reg EXCEPT ![p].ok = TRUE]
             /\ Then(p, << >>)
             /\ UNCHANGED <<icache, panicked>>
        ELSE /\ icache' = Iget(i) /\ FullIf(IgetSlot(i) = 0)
             /\ reg' = [reg EXCEPT ![p].ok = FALSE]
             /\ Then(p, << <<"iput", IgetSlot(i)>> >>)
             /\ UNCHANGED dinode
    /\ UNCHANGED <<cwd, txn>>

-----------------------------------------------------------------------------
(* A path is the sequence of the elements skipelem() finds, with "/" in    *)
(* front if it is absolute.  namei() and nameiparent() leave the inode in  *)
(* reg[p].r (0: none) and the last element in reg[p].name.                 *)
Namex(p) ==
    /\ At(p, "namex")
    /\ LET path == Arg(p, 1) IN
        IF path # << >> /\ path[1] = "/"
        THEN /\ icache' = Iget(ROOTINO) /\ FullIf(IgetSlot(ROOTINO) = 0)
             /\ Then(p, << <<"walk", IgetSlot(ROOTINO), Tail(path), Arg(p, 2)>> >>)
        ELSE /\ icache' = Idup(cwd[p]) /\ UNCHANGED panicked
             /\ Then(p, << <<"walk", cwd[p], path, Arg(p, 2)>> >>)
    /\ UNCHANGED <<dinode, cwd, reg, txn>>

(* namex(): the head of its loop.                                          *)
Walk(p) ==
    /\ At(p, "walk")
    /\ LET ip == Arg(p, 1)
           path == Arg(p, 2)
           parent == Arg(p, 3) IN
        IF path # << >>
        THEN Then(p, << <<"ilock", ip>>, <<"step", ip, path, parent>> >>)
             /\ UNCHANGED reg
        ELSE IF parent THEN Return(p, << <<"iput", ip>> >>, 0)
        ELSE Return(p, << >>, ip)
    /\ UNCHANGED <<dinode, icache, cwd, txn, panicked>>

(* namex(): the body of its loop, with ip locked.                          *)
Step(p) ==
    /\ At(p, "step")
    /\ LET ip == Arg(p, 1)
           path == Arg(p, 2)
           parent == Arg(p, 3)
           k == Dirlookup(dinode[Inum(ip)], path[1])
           i == dinode[Inum(ip)].ents[k].inum IN
        IF icache[ip].type # "dir"
        THEN Return(p, Iunlockput(ip), 0) /\ UNCHANGED <<icache, panicked>>
        ELSE IF parent /\ Len(path) = 1
        THEN /\ reg' = [reg EXCEPT ![p].r = ip, ![p].name = path[1]]
             /\ Then(p, << <<"iunlock", ip>> >>)
             /\ UNCHANGED <<icache, panicked>>
        ELSE IF k = 0
        THEN Return(p, Iunlockput(ip), 0) /\ UNCHANGED <<icache, panicked>>
        ELSE /\ icache' = Iget(i) /\ FullIf(IgetSlot(i) = 0)
             /\ Then(p, Iunlockput(ip) \o
                        << <<"walk", IgetSlot(i), Tail(path), parent>> >>)
             /\ UNCHANGED reg
    /\ UNCHANGED <<dinode, cwd, txn>>

InodeNext(p) ==
    \/ BeginOp(p) \/ EndOp(p)
    \/ Ilock(p) \/ Iunlock(p) \/ IputLock(p) \/ IputFree(p) \/ IputDrop(p)
    \/ Dirlink(p) \/ Namex(p) \/ Walk(p) \/ Step(p)
=============================================================================

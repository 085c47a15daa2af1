------------------------------- MODULE Bcache ------------------------------
(***************************************************************************)
(* The buffer cache (bio.c) on top of the IDE driver (ide.c).              *)
(*                                                                         *)
(* A buffer is a number in 1..NBUF.  A section under bcache.lock or under  *)
(* idelock is one step.  The sleep lock of a buffer is its owner, taken in *)
(* one step: what acquiresleep() and releasesleep() do in between is the   *)
(* subject of SleepLock.  A process is inside one bread() ... brelse() at  *)
(* a time.  The disk executes one command at a time, in `cmd', and raises  *)
(* an interrupt when it is done.                                           *)
(*                                                                         *)
(* view is a history variable: what a reader of the block must find.  bad  *)
(* is one too: the disk reported an error for the read of the buffer,      *)
(* which ideintr() passes over in silence.                                 *)
(***************************************************************************)
EXTENDS Naturals, Sequences, FiniteSetsExt, SequencesExt

CONSTANTS
    Procs, NoProc,    \* processes; nobody
    Blocks, NoBlock,  \* block numbers; the number of a buffer never used
    Vals,             \* block contents
    NBUF,             \* number of buffers
    MaxDirty          \* blocks in the log that are not yet committed

NoneAssumption == NoProc \notin Procs /\ NoBlock \notin Blocks /\ IsFiniteSet(Procs)
SizeAssumption == NBUF \in Nat \ {0} /\ MaxDirty \in Nat

Bufs == 1..NBUF

VARIABLES
    blockno, valid, dirty, refcnt, owner, data,   \* struct buf, per buffer
    mru,          \* the list bcache.head, most recently used first
    idequeue,     \* the driver's queue of buffers
    cmd,          \* the command the disk works on, << >> when it is idle
    disk,         \* disk[k]: block k on the disk
    pc, want, b,  \* per process: where it is, blockno and b of bread()
    panicked,
    view, bad

bufVars == <<blockno, valid, dirty, refcnt, owner, data, mru>>
ideVars == <<idequeue, cmd, disk>>
vars == <<blockno, valid, dirty, refcnt, owner, data, mru, idequeue, cmd,
          disk, pc, want, b, panicked, view, bad>>

-----------------------------------------------------------------------------
(* binit() and ideinit(): binit() pushes the buffers one by one.           *)
Init ==
    /\ blockno = [i \in Bufs |-> NoBlock]
    /\ valid = [i \in Bufs |-> FALSE] /\ dirty = [i \in Bufs |-> FALSE]
    /\ refcnt = [i \in Bufs |-> 0]
    /\ owner = [i \in Bufs |-> NoProc]
    /\ \E v \in Vals : data = [i \in Bufs |-> v]
    /\ mru = [i \in Bufs |-> NBUF + 1 - i]
    /\ idequeue = << >>
    /\ cmd = << >>
    /\ disk \in [Blocks -> Vals] /\ view = disk
    /\ pc = [p \in Procs |-> "out"]
    /\ want = [p \in Procs |-> NoBlock]
    /\ b = [p \in Procs |-> 1]
    /\ panicked = FALSE
    /\ bad = [i \in Bufs |-> FALSE]

Goto(p, l) == pc' = [pc EXCEPT ![p] = l]

-----------------------------------------------------------------------------
Cached(k) == {i \in Bufs : blockno[i] = k}

(* Mutant of Free: a dirty buffer that nobody holds is recycled.           *)
FreeOrDirty == {i \in Bufs : refcnt[i] = 0}

(* bget(): the buffers that may be recycled.                               *)
Free == {i \in Bufs : refcnt[i] = 0 /\ ~dirty[i]}

(* bget(): the block is cached; the first one from the head of the list.   *)
BgetHit(p, k) ==
    /\ ~panicked /\ pc[p] = "out" /\ Cached(k) # {}
    /\ LET i == mru[SelectInSeq(mru, LAMBDA j : j \in Cached(k))] IN
        /\ refcnt' = [refcnt EXCEPT ![i] = @ + 1]
        /\ b' = [b EXCEPT ![p] = i]
    /\ want' = [want EXCEPT ![p] = k]
    /\ Goto(p, "lock")
    /\ UNCHANGED <<blockno, valid, dirty, owner, data, mru, ideVars, panicked,
                   view, bad>>

(* bget(): recycle the least recently used free buffer, or                 *)
(* panic("bget: no buffers").                                              *)
BgetMiss(p, k) ==
    /\ ~panicked /\ pc[p] = "out" /\ Cached(k) = {}
    /\ IF Free = {}
       THEN /\ panicked' = TRUE
            /\ UNCHANGED <<blockno, valid, dirty, refcnt, bad, pc, want, b>>
       ELSE LET i == mru[SelectLastInSeq(mru, LAMBDA j : j \in Free)] IN
            /\ blockno' = [blockno EXCEPT ![i] = k]
            /\ valid' = [valid EXCEPT ![i] = FALSE]
            /\ dirty' = [dirty EXCEPT ![i] = FALSE]
            /\ refcnt' = [refcnt EXCEPT ![i] = 1]
            /\ bad' = [bad EXCEPT ![i] = FALSE]
            /\ b' = [b EXCEPT ![p] = i]
            /\ want' = [want EXCEPT ![p] = k]
            /\ Goto(p, "lock")
            /\ UNCHANGED panicked
    /\ UNCHANGED <<owner, data, mru, ideVars, view>>

(* bget(): acquiresleep(&b->lock), outside bcache.lock.                    *)
AcquireSleep(p) ==
    /\ ~panicked /\ pc[p] = "lock" /\ owner[b[p]] = NoProc
    /\ owner' = [owner EXCEPT ![b[p]] = p]
    /\ Goto(p, "locked")
    /\ UNCHANGED <<blockno, valid, dirty, refcnt, data, mru, ideVars, want, b,
                   panicked, view, bad>>

(* bread(): B_VALID is set, nothing to read.                               *)
BreadDone(p) ==
    /\ ~panicked /\ pc[p] = "locked" /\ valid[b[p]]
    /\ Goto(p, "held")
    /\ UNCHANGED <<bufVars, ideVars, want, b, panicked, view, bad>>

-----------------------------------------------------------------------------
(* idestart(): program the disk for buffer i, with flags and data as they  *)
(* are now.                                                                *)
Command(i, isDirty, contents) ==
    <<[op |-> IF isDirty THEN "write" ELSE "read", blk |-> blockno[i],
       val |-> contents]>>

(* iderw(): append the buffer, start the disk if the queue was empty, and  *)
(* sleep until it is VALID and not DIRTY.                                  *)
Iderw(p, isDirty, contents) ==
    /\ idequeue' = Append(idequeue, b[p])
    /\ cmd' = IF idequeue = << >> THEN Command(b[p], isDirty, contents) ELSE cmd
    /\ Goto(p, "asleep")

(* bread(): iderw() reads the block.                                       *)
BreadRead(p) ==
    /\ ~panicked /\ pc[p] = "locked" /\ ~valid[b[p]]
    /\ Iderw(p, dirty[b[p]], data[b[p]])
    /\ UNCHANGED <<bufVars, disk, want, b, panicked, view, bad>>

(* The holder changes the buffer and calls bwrite().                       *)
Bwrite(p, v) ==
    /\ ~panicked /\ pc[p] = "held"
    /\ data' = [data EXCEPT ![b[p]] = v]
    /\ dirty' = [dirty EXCEPT ![b[p]] = TRUE]
    /\ view' = [view EXCEPT ![want[p]] = v]
    /\ bad' = [bad EXCEPT ![b[p]] = FALSE]
    /\ Iderw(p, TRUE, v)
    /\ UNCHANGED <<blockno, valid, refcnt, owner, mru, disk, want, b, panicked>>

(* The holder changes the buffer and calls log_write(), which pins it with *)
(* B_DIRTY; the log accepts MaxDirty blocks.                               *)
LogWrite(p, v) ==
    /\ ~panicked /\ pc[p] = "held"
    /\ Cardinality({i \in Bufs : dirty[i]} \cup {b[p]}) <= MaxDirty
    /\ data' = [data EXCEPT ![b[p]] = v]
    /\ dirty' = [dirty EXCEPT ![b[p]] = TRUE]
    /\ view' = [view EXCEPT ![want[p]] = v]
    /\ bad' = [bad EXCEPT ![b[p]] = FALSE]
    /\ UNCHANGED <<blockno, valid, refcnt, owner, mru, ideVars, pc, want, b,
                   panicked>>

(* ideintr(): the command is done.  Take the first buffer off the queue;   *)
(* read the data unless the disk reports an error; set B_VALID in either   *)
(* case; wake the waiting process; start the next request.                 *)
Ideintr ==
    /\ ~panicked /\ cmd # << >> /\ idequeue # << >>
    /\ LET i == Head(idequeue)
           rest == Tail(idequeue)
       IN  \E error \in IF dirty[i] THEN {FALSE} ELSE BOOLEAN :
        /\ disk' = IF cmd[1].op = "write" THEN [disk EXCEPT ![cmd[1].blk] = cmd[1].val]
                   ELSE disk
        /\ data' = IF dirty[i] \/ error THEN data
                   ELSE [data EXCEPT ![i] = disk[cmd[1].blk]]
        /\ bad' = [bad EXCEPT ![i] = error]
        /\ valid' = [valid EXCEPT ![i] = TRUE]
        /\ dirty' = [dirty EXCEPT ![i] = FALSE]
        /\ pc' = [p \in Procs |-> IF pc[p] = "asleep" /\ b[p] = i THEN "woken"
                                  ELSE pc[p]]
        /\ idequeue' = rest
        /\ cmd' = IF rest = << >> THEN << >>
                  ELSE Command(Head(rest), dirty[Head(rest)], data[Head(rest)])
    /\ UNCHANGED <<blockno, refcnt, owner, mru, want, b, panicked, view>>

(* Mutant of Woken: any wakeup ends the wait in iderw().                   *)
WokenReturns(p) ==
    /\ ~panicked /\ pc[p] = "woken"
    /\ Goto(p, "held")
    /\ UNCHANGED <<bufVars, ideVars, want, b, panicked, view, bad>>

(* iderw(): awake, test the flags again under idelock.                     *)
Woken(p) ==
    /\ ~panicked /\ pc[p] = "woken"
    /\ Goto(p, IF valid[b[p]] /\ ~dirty[b[p]] THEN "held" ELSE "asleep")
    /\ UNCHANGED <<bufVars, ideVars, want, b, panicked, view, bad>>

(* kill(): wakes a process from any sleep.                                 *)
Kill(p) ==
    /\ ~panicked /\ pc[p] = "asleep"
    /\ Goto(p, "woken")
    /\ UNCHANGED <<bufVars, ideVars, want, b, panicked, view, bad>>

-----------------------------------------------------------------------------
(* brelse(): releasesleep(&b->lock).                                       *)
ReleaseSleep(p) ==
    /\ ~panicked /\ pc[p] = "held"
    /\ owner' = [owner EXCEPT ![b[p]] = NoProc]
    /\ Goto(p, "unlocked")
    /\ UNCHANGED <<blockno, valid, dirty, refcnt, data, mru, ideVars, want, b,
                   panicked, view, bad>>

(* The list mru without buffer i: b->next->prev = b->prev, and so on.      *)
Unlinked(i) == RemoveAt(mru, SelectInSeq(mru, LAMBDA j : j = i))

(* brelse(): under bcache.lock, drop the reference; an unreferenced buffer *)
(* becomes the most recently used one.                                     *)
Brelse(p) ==
    /\ ~panicked /\ pc[p] = "unlocked"
    /\ refcnt' = [refcnt EXCEPT ![b[p]] = @ - 1]
    /\ mru' = IF refcnt[b[p]] = 1
              THEN <<b[p]>> \o Unlinked(b[p])
              ELSE mru
    /\ want' = [want EXCEPT ![p] = NoBlock]
    /\ Goto(p, "out")
    /\ UNCHANGED <<blockno, valid, dirty, owner, data, ideVars, b, panicked,
                   view, bad>>

Next ==
    \/ Ideintr
    \/ \E p \in Procs :
        \/ \E k \in Blocks : BgetHit(p, k) \/ BgetMiss(p, k)
        \/ AcquireSleep(p) \/ BreadDone(p) \/ BreadRead(p) \/ Woken(p)
        \/ \E v \in Vals : Bwrite(p, v) \/ LogWrite(p, v)
        \/ ReleaseSleep(p) \/ Brelse(p) \/ Kill(p)

Spec == Init /\ [][Next]_vars

-----------------------------------------------------------------------------
(* The processes between bget() and the end of brelse() of buffer i.       *)
Users(i) == {p \in Procs : pc[p] # "out" /\ b[p] = i}

(* The types; refcnt counts the users; the list holds every buffer once.   *)
TypeOK ==
    /\ blockno \in [Bufs -> Blocks \cup {NoBlock}]
    /\ valid \in [Bufs -> BOOLEAN] /\ dirty \in [Bufs -> BOOLEAN]
    /\ bad \in [Bufs -> BOOLEAN] /\ panicked \in BOOLEAN
    /\ \A i \in Bufs : refcnt[i] = Cardinality(Users(i))
    /\ owner \in [Bufs -> Procs \cup {NoProc}]
    /\ data \in [Bufs -> Vals]
    /\ disk \in [Blocks -> Vals] /\ view \in [Blocks -> Vals]
    /\ Len(mru) = NBUF /\ ToSet(mru) = Bufs
    /\ idequeue \in Seq(Bufs)
    /\ cmd \in Seq([op : {"read", "write"}, blk : Blocks, val : Vals])
    /\ pc \in [Procs -> {"out", "lock", "locked", "asleep", "woken", "held",
                         "unlocked"}]
    /\ want \in [Procs -> Blocks \cup {NoBlock}] /\ b \in [Procs -> Bufs]

(* bio.c: "Only one process at a time can use a buffer", and no block is   *)
(* in two buffers: two processes that call bread() for one block get one   *)
(* buffer, one after the other, and it is still that block's.              *)
OneBufferPerBlock ==
    /\ \A i, j \in Bufs : blockno[i] = blockno[j] /\ i # j =>
        blockno[i] = NoBlock
    /\ \A p \in Procs : pc[p] # "out" => blockno[b[p]] = want[p]

(* bread(): "Return a locked buf with the contents of the indicated block":*)
(* the holder finds what was written last, through whichever buffer and    *)
(* however long ago, unless the disk failed to read it.                    *)
ReadsLastWrite ==
    \A p \in Procs : pc[p] = "held" =>
        /\ owner[b[p]] = p /\ valid[b[p]]
        /\ bad[b[p]] \/ data[b[p]] = view[want[p]]

(* bget(): "B_DIRTY indicates a buffer is in use because log.c has         *)
(* modified it but not yet committed it": a write that is not on the disk  *)
(* is still in a dirty buffer.                                             *)
NothingLost ==
    \A k \in Blocks : disk[k] # view[k] =>
        \E i \in Cached(k) : dirty[i] /\ data[i] = view[k]

(* ideintr(): "First queued buffer is the active request": the disk works  *)
(* on the first buffer of the queue whenever there is one, and who sleeps  *)
(* in iderw() is in the queue, or is done and about to be woken.           *)
HeadIsActive ==
    /\ cmd = << >> <=> idequeue = << >>
    /\ idequeue # << >> => cmd[1].blk = blockno[Head(idequeue)]
                           /\ (cmd[1].op = "write") = dirty[Head(idequeue)]
    /\ \A p \in Procs : pc[p] = "asleep" => Contains(idequeue, b[p])

(* bget() panics only when it must: with MaxDirty blocks in the log and as *)
(* many processes inside bread() ... brelse() as there are now, NBUF       *)
(* buffers are too few.  No reference is leaked, however long it runs.     *)
BuffersSuffice ==
    panicked => NBUF <= MaxDirty + Cardinality({p \in Procs : pc[p] # "out"})

(* A block is in one buffer, its holder finds what was written last in it, *)
(* the disk works on the first buffer of the queue, and bget() panics only *)
(* when there are too few buffers for those in use.                        *)
BufferCacheSound ==
    TypeOK /\ OneBufferPerBlock /\ ReadsLastWrite /\ HeadIsActive /\ BuffersSuffice
=============================================================================

-------------------------------- MODULE Log --------------------------------
(***************************************************************************)
(* The write-ahead log of the file system (log.c), with crashes at every   *)
(* disk write and the recovery that follows.                               *)
(*                                                                         *)
(* Disk: home[b] is block b at its place in the file system, logblk[i] the *)
(* i-th data block of the log, hdr the block numbers of the header block   *)
(* (its length is hdr.n).  One block is written atomically (IDE sector).   *)
(* Memory: lh is log.lh, cache[b] the newest contents of block b.          *)
(* A section under log.lock is one step.  commit() runs outside the lock,  *)
(* one step per block it writes, in `phase' and `tail'; recovery after a   *)
(* crash runs through the same install_trans() and write_head().           *)
(***************************************************************************)
EXTENDS Naturals, Sequences, FiniteSets

CONSTANTS
    Ops,           \* processes that make file-system calls
    Blocks,        \* block numbers of the file system
    Vals,          \* block contents
    NoBlock,       \* not a block number
    MAXOPBLOCKS,   \* what begin_op() reserves for one operation
    LOGSIZE,       \* capacity of struct logheader
    LogSize,       \* log.size = sb.nlog: blocks of the on-disk log
    OpBlocks       \* distinct blocks an operation writes at most

SizesAssumption ==
    /\ MAXOPBLOCKS \in Nat \ {0} /\ LOGSIZE \in Nat /\ LOGSIZE >= MAXOPBLOCKS
    /\ LogSize \in Nat \ {0} /\ OpBlocks \in Nat /\ OpBlocks <= MAXOPBLOCKS
    /\ IsFiniteSet(Ops)
NoBlockAssumption == NoBlock \notin Blocks

VARIABLES
    op,            \* op[p]: where p is in begin_op() .. end_op()
    pend,          \* pend[p]: the block p is passing to log_write()
    wrote,         \* wrote[p]: blocks p has written in this operation
    outstanding, committing, lh,          \* struct log
    cache,         \* buffer cache
    home, logblk, hdr,                    \* the disk
    phase, tail,   \* progress of commit() or of recover_from_log()
    panicked       \* panic() was called

disk == <<home, logblk, hdr>>
vars == <<op, pend, wrote, outstanding, committing, lh, cache, home, logblk,
          hdr, phase, tail, panicked>>

RangeOf(s) == {s[i] : i \in 1..Len(s)}

-----------------------------------------------------------------------------
(* initlog() has run on a clean disk.                                      *)
Init ==
    /\ op = [p \in Ops |-> "idle"]
    /\ pend = [p \in Ops |-> NoBlock]
    /\ wrote = [p \in Ops |-> {}]
    /\ outstanding = 0 /\ committing = FALSE /\ lh = << >>
    /\ home \in [Blocks -> Vals]
    /\ cache = home
    /\ \E v \in Vals : logblk = [i \in 1..LOGSIZE |-> v]
    /\ hdr = << >>
    /\ phase = "none" /\ tail = 1
    /\ panicked = FALSE

(* No operation runs between a crash and the end of initlog().             *)
Recovering == phase # "none" /\ ~committing
Serving == ~panicked /\ ~Recovering

-----------------------------------------------------------------------------

(* Mutant of NoRoom: the operation that begins is not counted.             *)
RoomForOthers == Len(lh) + outstanding * MAXOPBLOCKS > LOGSIZE

(* begin_op(): "this op might exhaust log space".                          *)
NoRoom == Len(lh) + (outstanding + 1) * MAXOPBLOCKS > LOGSIZE

(* begin_op(): sleep(&log, &log.lock).                                     *)
BeginWait(p) ==
    /\ Serving /\ op[p] \in {"idle", "woken"}
    /\ committing \/ NoRoom
    /\ op' = [op EXCEPT ![p] = "asleep"]
    /\ UNCHANGED <<pend, wrote, outstanding, committing, lh, cache, disk,
                   phase, tail, panicked>>

(* begin_op(): log.outstanding += 1.                                       *)
BeginOp(p) ==
    /\ Serving /\ op[p] \in {"idle", "woken"}
    /\ ~committing /\ ~NoRoom
    /\ outstanding' = outstanding + 1
    /\ op' = [op EXCEPT ![p] = "in"]
    /\ UNCHANGED <<pend, wrote, committing, lh, cache, disk, phase, tail,
                   panicked>>

(* log_write(): the tests before log.lock is taken.  The caller has locked *)
(* and modified the buffer of block b.                                     *)
LogWriteCheck(p, b, v) ==
    /\ Serving /\ op[p] = "in" /\ pend[p] = NoBlock
    /\ \A q \in Ops : pend[q] # b
    /\ Cardinality(wrote[p] \cup {b}) <= OpBlocks
    /\ IF Len(lh) >= LOGSIZE \/ Len(lh) >= LogSize - 1 \/ outstanding < 1
       THEN /\ panicked' = TRUE
            /\ UNCHANGED <<pend, wrote, cache>>
       ELSE /\ pend' = [pend EXCEPT ![p] = b]
            /\ wrote' = [wrote EXCEPT ![p] = @ \cup {b}]
            /\ cache' = [cache EXCEPT ![b] = v]
            /\ UNCHANGED panicked
    /\ UNCHANGED <<op, outstanding, committing, lh, disk, phase, tail>>

(* log_write(): record the block number, once.                             *)
LogWriteAppend(p) ==
    /\ Serving /\ pend[p] # NoBlock
    /\ lh' = IF pend[p] \in RangeOf(lh) THEN lh ELSE Append(lh, pend[p])
    /\ pend' = [pend EXCEPT ![p] = NoBlock]
    /\ UNCHANGED <<op, wrote, outstanding, committing, cache, disk, phase,
                   tail, panicked>>

(* wakeup(&log): everybody asleep in begin_op() tries again.               *)
WakeAll(o) == [p \in Ops |-> IF o[p] = "asleep" THEN "woken" ELSE o[p]]

(* end_op(): the last operation starts commit(), any other wakes the       *)
(* sleepers because it gives up reserved space.                            *)
EndOp(p) ==
    /\ Serving /\ op[p] = "in" /\ pend[p] = NoBlock
    /\ outstanding' = outstanding - 1
    /\ wrote' = [wrote EXCEPT ![p] = {}]
    /\ panicked' = committing
    /\ IF outstanding = 1
       THEN /\ committing' = TRUE
            /\ op' = [op EXCEPT ![p] = "commit"]
            /\ phase' = IF lh = << >> THEN "finish" ELSE "log"
            /\ tail' = 1
       ELSE /\ op' = WakeAll([op EXCEPT ![p] = "idle"])
            /\ UNCHANGED <<committing, phase, tail>>
    /\ UNCHANGED <<pend, lh, cache, disk>>

-----------------------------------------------------------------------------
Memory == <<op, pend, wrote, outstanding, committing, panicked>>

(* A loop over log.lh: one more block, then `next'.                        *)
Advance(this, next) ==
    IF tail = Len(lh) THEN phase' = next /\ tail' = 1
    ELSE phase' = this /\ tail' = tail + 1

(* write_log(): copy one block from the cache to the log.                  *)
WriteLog ==
    /\ ~panicked /\ phase = "log"
    /\ logblk' = [logblk EXCEPT ![tail] = cache[lh[tail]]]
    /\ Advance("log", "head")
    /\ UNCHANGED <<Memory, lh, cache, home, hdr>>

(* Mutant of WriteHead: the header is cleared before the blocks are home.  *)
HeadClearedEarly ==
    /\ ~panicked /\ phase = "head"
    /\ hdr' = << >>
    /\ phase' = "install"
    /\ UNCHANGED <<Memory, lh, cache, home, logblk, tail>>

(* write_head(): "the true point at which the current transaction          *)
(* commits".                                                               *)
WriteHead ==
    /\ ~panicked /\ phase = "head"
    /\ hdr' = lh
    /\ phase' = "install"
    /\ UNCHANGED <<Memory, lh, cache, home, logblk, tail>>

(* install_trans(): copy one block from the log to its home.               *)
InstallTrans ==
    /\ ~panicked /\ phase = "install"
    /\ home' = [home EXCEPT ![lh[tail]] = logblk[tail]]
    /\ cache' = [cache EXCEPT ![lh[tail]] = logblk[tail]]
    /\ Advance("install", "clear")
    /\ UNCHANGED <<Memory, lh, logblk, hdr>>

(* log.lh.n = 0; write_head(): the transaction is erased from the log.     *)
ClearHead ==
    /\ ~panicked /\ phase = "clear"
    /\ lh' = << >> /\ hdr' = << >>
    /\ phase' = IF committing THEN "finish" ELSE "none"
    /\ UNCHANGED <<Memory, cache, home, logblk, tail>>

(* Mutant of CommitDone: sleepers in begin_op() are not woken.             *)
CommitDoneSilent ==
    /\ ~panicked /\ phase = "finish"
    /\ committing' = FALSE
    /\ op' = [p \in Ops |-> IF op[p] = "commit" THEN "idle" ELSE op[p]]
    /\ phase' = "none"
    /\ UNCHANGED <<pend, wrote, outstanding, lh, cache, disk, tail, panicked>>

(* end_op() after commit(): log.committing = 0; wakeup(&log).              *)
CommitDone ==
    /\ ~panicked /\ phase = "finish"
    /\ committing' = FALSE
    /\ op' = WakeAll([p \in Ops |-> IF op[p] = "commit" THEN "idle"
                                    ELSE op[p]])
    /\ phase' = "none"
    /\ UNCHANGED <<pend, wrote, outstanding, lh, cache, disk, tail, panicked>>

(* Power failure or reset at any moment: memory is gone.  The buffer cache *)
(* starts from what the disk holds.                                        *)
Crash ==
    /\ op' = [p \in Ops |-> "idle"]
    /\ pend' = [p \in Ops |-> NoBlock]
    /\ wrote' = [p \in Ops |-> {}]
    /\ outstanding' = 0 /\ committing' = FALSE /\ lh' = << >>
    /\ cache' = home
    /\ phase' = "read" /\ tail' = 1
    /\ panicked' = FALSE
    /\ UNCHANGED disk

(* recover_from_log(): read_head().                                        *)
ReadHead ==
    /\ phase = "read"
    /\ lh' = hdr
    /\ phase' = IF hdr = << >> THEN "clear" ELSE "install"
    /\ UNCHANGED <<Memory, cache, disk, tail>>

OpStep(p) ==
    \/ BeginWait(p) \/ BeginOp(p) \/ LogWriteAppend(p) \/ EndOp(p)
    \/ \E b \in Blocks, v \in Vals : LogWriteCheck(p, b, v)

LogStep ==
    \/ WriteLog \/ WriteHead \/ InstallTrans \/ ClearHead \/ CommitDone
    \/ ReadHead

Next == (\E p \in Ops : OpStep(p)) \/ LogStep \/ Crash

Spec == Init /\ [][Next]_vars

(* Every operation ends, and commit and recovery run to their end.         *)
FairSpec ==
    /\ Spec /\ WF_vars(LogStep)
    /\ \A p \in Ops : WF_vars(LogWriteAppend(p)) /\ SF_vars(EndOp(p))

-----------------------------------------------------------------------------
(* The refinement mapping.  Blocks named in the header come from the log,  *)
(* the others from their home.                                             *)
Durable ==
    [b \in Blocks |-> IF b \in RangeOf(hdr)
                      THEN logblk[CHOOSE i \in 1..Len(hdr) : hdr[i] = b]
                      ELSE home[b]]
View == IF Recovering THEN Durable ELSE cache
Active == {p \in Ops : op[p] = "in"}

AD == INSTANCE AtomicDisk WITH disk <- Durable, view <- View, active <- Active

-----------------------------------------------------------------------------
(* The types; outstanding counts the operations between begin_op() and     *)
(* end_op(); log.lh lists no block twice.                                  *)
TypeOK ==
    /\ op \in [Ops -> {"idle", "asleep", "woken", "in", "commit"}]
    /\ pend \in [Ops -> Blocks \cup {NoBlock}]
    /\ wrote \in [Ops -> SUBSET Blocks]
    /\ outstanding = Cardinality(Active)
    /\ committing \in BOOLEAN /\ panicked \in BOOLEAN
    /\ lh \in Seq(Blocks) /\ hdr \in Seq(Blocks)
    /\ \A i, j \in 1..Len(lh) : lh[i] = lh[j] => i = j
    /\ cache \in [Blocks -> Vals] /\ home \in [Blocks -> Vals]
    /\ logblk \in [1..LOGSIZE -> Vals]
    /\ phase \in {"none", "read", "log", "head", "install", "clear", "finish"}
    /\ tail \in 1..(Len(lh) + 1)

(* log.c: "The logging system only commits when there are no FS system     *)
(* calls active".  A crash at any point leaves every operation done        *)
(* completely or not at all, and the view of running operations is what    *)
(* they wrote.                                                             *)
CrashAtomic == AD!Spec

(* With no operation running and no commit in progress, all that was       *)
(* written is safe on the disk.                                            *)
QuietIsDurable ==
    phase = "none" /\ Active = {} => cache = Durable /\ lh = << >>

(* The reservations of begin_op() suffice: no panic of log.c is reached,   *)
(* "too big a transaction", "log_write outside of trans", "log.committing".*)
NoPanic == ~panicked

(* The log stays inside its blocks on the disk, although log_write() tests *)
(* that before it takes log.lock: the header and one block per entry.      *)
LogFits == Len(lh) <= LogSize - 1

(* What holds of the log at every moment.                                  *)
LogSound == TypeOK /\ QuietIsDurable /\ NoPanic /\ LogFits

(* A process asleep in begin_op() is woken.                                *)
BeginWoken == \A p \in Ops : op[p] = "asleep" ~> op[p] # "asleep"
=============================================================================

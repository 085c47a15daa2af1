-------------------------------- MODULE Pipe -------------------------------
(***************************************************************************)
(* One pipe (pipe.c) with any number of processes on either end.           *)
(*                                                                         *)
(* nread and nwrite are unsigned words and wrap around at WORD (2^32 in    *)
(* the kernel).  pipewrite() and piperead() hold p->lock while they copy,  *)
(* one step per byte; sleep() gives the lock up.  Between the test of      *)
(* killed and the sleep() that follows only p->lock is held, so kill(),    *)
(* which works under ptable.lock, may come in between.  A process closes   *)
(* its descriptor outside read and write; the last close of an end calls   *)
(* pipeclose().                                                            *)
(***************************************************************************)
EXTENDS Naturals, Sequences

CONSTANTS
    Readers, Writers,   \* processes with the read / the write end open
    NoProc,             \* nobody
    Bytes,
    PIPESIZE,
    WORD,               \* number of values of uint
    Sizes,              \* bound: the n of the read and write calls
    Killable            \* the processes that are passed to kill()

ProcAssumption ==
    /\ Readers \cap Writers = {} /\ NoProc \notin Readers \cup Writers
    /\ Killable \subseteq Readers \cup Writers
SizeAssumption ==
    /\ PIPESIZE \in Nat \ {0} /\ WORD \in Nat /\ Sizes \subseteq Nat \ {0}
    /\ Sizes # {}
    /\ WORD > PIPESIZE /\ WORD % PIPESIZE = 0

Procs == Readers \cup Writers

VARIABLES
    data, nread, nwrite, readopen, writeopen,   \* struct pipe
    lock,      \* who holds p->lock
    pc,        \* pc[p]: where p is in piperead() or pipewrite()
    left,      \* left[p]: n - i, bytes still to copy
    killed,    \* killed[p]
    open,      \* processes whose descriptor is open
    frees,     \* how often pipeclose() freed the pipe
    got        \* the byte piperead() copied last

vars == <<data, nread, nwrite, readopen, writeopen, lock, pc, left, killed,
          open, frees, got>>
ring == <<data, nread, nwrite>>
ends == <<readopen, writeopen, open, frees>>

(* Mutant of Full: the comparison is done in a wider type than uint.       *)
FullWide == nwrite = nread + PIPESIZE

(* The loop conditions; nread + PIPESIZE wraps around.                     *)
Full == nwrite = (nread + PIPESIZE) % WORD
Empty == nread = nwrite

-----------------------------------------------------------------------------
(* pipealloc(), and the descriptors are passed on by fork().               *)
Init ==
    /\ \E b \in Bytes : data = [i \in 0..(PIPESIZE - 1) |-> b] /\ got = b
    /\ nread = 0 /\ nwrite = 0
    /\ readopen = TRUE /\ writeopen = TRUE
    /\ lock = NoProc
    /\ pc = [p \in Procs |-> "out"]
    /\ left = [p \in Procs |-> 0]
    /\ killed = [p \in Procs |-> FALSE]
    /\ open = Procs
    /\ frees = 0

Goto(p, l) == pc' = [pc EXCEPT ![p] = l]

(* wakeup(): processes asleep at one of the places in C become RUNNABLE.   *)
Wakeup(C, f) == [q \in Procs |-> IF f[q] \in C THEN "ready" ELSE f[q]]

-----------------------------------------------------------------------------
(* Entry of piperead() and pipewrite(): acquire(&p->lock).                 *)
Call(p) ==
    /\ pc[p] = "out" /\ p \in open /\ ~killed[p] /\ lock = NoProc
    /\ lock' = p
    /\ \E n \in Sizes : left' = [left EXCEPT ![p] = n]
    /\ Goto(p, "loop")
    /\ UNCHANGED <<ring, ends, killed, got>>

(* pipewrite(): the buffer has room: store a byte.                         *)
WriteByte(p, b) ==
    /\ p \in Writers /\ pc[p] = "loop" /\ left[p] > 0 /\ ~Full
    /\ data' = [data EXCEPT ![nwrite % PIPESIZE] = b]
    /\ nwrite' = (nwrite + 1) % WORD
    /\ left' = [left EXCEPT ![p] = @ - 1]
    /\ UNCHANGED <<nread, ends, lock, pc, killed, got>>

(* Mutant of WriteFull: pipewrite() sleeps without waking the readers.     *)
WriteFullSilent(p) ==
    /\ p \in Writers /\ pc[p] = "loop" /\ left[p] > 0 /\ Full
    /\ IF ~readopen \/ killed[p]
       THEN /\ lock' = NoProc /\ left' = [left EXCEPT ![p] = 0]
            /\ Goto(p, "out")
       ELSE Goto(p, "wsleep") /\ UNCHANGED <<lock, left>>
    /\ UNCHANGED <<ring, ends, killed, got>>

(* Mutant of WriteFull: the test whether anybody will read is missing.     *)
WriteFullUnread(p) ==
    /\ p \in Writers /\ pc[p] = "loop" /\ left[p] > 0 /\ Full
    /\ IF killed[p]
       THEN /\ lock' = NoProc /\ left' = [left EXCEPT ![p] = 0]
            /\ Goto(p, "out")
       ELSE /\ pc' = Wakeup({"rasleep"}, [pc EXCEPT ![p] = "wsleep"])
            /\ UNCHANGED <<lock, left>>
    /\ UNCHANGED <<ring, ends, killed, got>>

(* pipewrite(): full.  Return -1 if nobody will read or the writer is      *)
(* killed, else wake the readers and go to sleep.                          *)
WriteFull(p) ==
    /\ p \in Writers /\ pc[p] = "loop" /\ left[p] > 0 /\ Full
    /\ IF ~readopen \/ killed[p]
       THEN /\ lock' = NoProc /\ left' = [left EXCEPT ![p] = 0]
            /\ Goto(p, "out")
       ELSE /\ pc' = Wakeup({"rasleep"}, [pc EXCEPT ![p] = "wsleep"])
            /\ UNCHANGED <<lock, left>>
    /\ UNCHANGED <<ring, ends, killed, got>>

(* pipewrite(): all n bytes are stored; wake the readers and return n.     *)
WriteDone(p) ==
    /\ p \in Writers /\ pc[p] = "loop" /\ left[p] = 0
    /\ pc' = Wakeup({"rasleep"}, [pc EXCEPT ![p] = "out"])
    /\ lock' = NoProc
    /\ UNCHANGED <<ring, ends, left, killed, got>>

-----------------------------------------------------------------------------
(* piperead(): empty and a writer is left: return -1 if killed, else go to *)
(* sleep.                                                                  *)
ReadEmpty(p) ==
    /\ p \in Readers /\ pc[p] = "loop" /\ Empty /\ writeopen
    /\ IF killed[p]
       THEN /\ lock' = NoProc /\ left' = [left EXCEPT ![p] = 0]
            /\ Goto(p, "out")
       ELSE Goto(p, "rsleep") /\ UNCHANGED <<lock, left>>
    /\ UNCHANGED <<ring, ends, killed, got>>

(* piperead(): there is data, or nobody will write any more.               *)
ReadStart(p) ==
    /\ p \in Readers /\ pc[p] = "loop" /\ ~(Empty /\ writeopen)
    /\ Goto(p, "copy")
    /\ UNCHANGED <<ring, ends, lock, left, killed, got>>

(* Mutant of ReadByte: the index is not reduced modulo PIPESIZE until the  *)
(* counter is incremented.                                                 *)
ReadNextByte(p) ==
    /\ pc[p] = "copy" /\ left[p] > 0 /\ ~Empty
    /\ nread' = (nread + 1) % WORD
    /\ got' = data[nread' % PIPESIZE]
    /\ left' = [left EXCEPT ![p] = @ - 1]
    /\ UNCHANGED <<data, nwrite, ends, lock, pc, killed>>

(* piperead(): copy a byte.                                                *)
ReadByte(p) ==
    /\ pc[p] = "copy" /\ left[p] > 0 /\ ~Empty
    /\ got' = data[nread % PIPESIZE]
    /\ nread' = (nread + 1) % WORD
    /\ left' = [left EXCEPT ![p] = @ - 1]
    /\ UNCHANGED <<data, nwrite, ends, lock, pc, killed>>

(* Mutant of ReadDone: the writers are not woken.                          *)
ReadDoneSilent(p) ==
    /\ pc[p] = "copy" /\ (left[p] = 0 \/ Empty)
    /\ Goto(p, "out")
    /\ left' = [left EXCEPT ![p] = 0]
    /\ lock' = NoProc
    /\ UNCHANGED <<ring, ends, killed, got>>

(* piperead(): n bytes copied, or the buffer is empty; wake the writers    *)
(* and return the count.                                                   *)
ReadDone(p) ==
    /\ pc[p] = "copy" /\ (left[p] = 0 \/ Empty)
    /\ pc' = Wakeup({"wasleep"}, [pc EXCEPT ![p] = "out"])
    /\ left' = [left EXCEPT ![p] = 0]
    /\ lock' = NoProc
    /\ UNCHANGED <<ring, ends, killed, got>>

-----------------------------------------------------------------------------
(* sleep(chan, &p->lock): SLEEPING and release, under ptable.lock.         *)
Sleep(p) ==
    /\ pc[p] \in {"rsleep", "wsleep"}
    /\ Goto(p, IF pc[p] = "rsleep" THEN "rasleep" ELSE "wasleep")
    /\ lock' = NoProc
    /\ UNCHANGED <<ring, ends, left, killed, got>>

(* sleep(), awake: acquire(&p->lock) and test the loop condition again.    *)
Relock(p) ==
    /\ pc[p] = "ready" /\ lock = NoProc
    /\ lock' = p
    /\ Goto(p, "loop")
    /\ UNCHANGED <<ring, ends, left, killed, got>>

(* kill(): set killed and wake the process from sleep.                     *)
Kill(p) ==
    /\ p \in Killable /\ ~killed[p]
    /\ killed' = [killed EXCEPT ![p] = TRUE]
    /\ pc' = [pc EXCEPT ![p] = IF @ \in {"rasleep", "wasleep"} THEN "ready"
                               ELSE @]
    /\ UNCHANGED <<ring, ends, lock, left, got>>

(* fileclose() of the descriptor; the last one of an end runs pipeclose(): *)
(* mark the end closed, wake the other end, free the pipe if both are.     *)
Close(p) ==
    /\ pc[p] = "out" /\ p \in open /\ lock = NoProc
    /\ open' = open \ {p}
    /\ readopen' = (open' \cap Readers # {})
    /\ writeopen' = (open' \cap Writers # {})
    /\ pc' = Wakeup((IF writeopen /\ ~writeopen' THEN {"rasleep"} ELSE {})
                    \cup (IF readopen /\ ~readopen' THEN {"wasleep"} ELSE {}),
                    pc)
    /\ frees' = IF ~readopen' /\ ~writeopen' THEN frees + 1 ELSE frees
    /\ UNCHANGED <<ring, lock, left, killed, got>>

(* The steps of a call that has been entered.                              *)
InCall(p) ==
    \/ \E b \in Bytes : WriteByte(p, b)
    \/ WriteFull(p) \/ WriteDone(p)
    \/ ReadEmpty(p) \/ ReadStart(p) \/ ReadByte(p) \/ ReadDone(p)
    \/ Sleep(p) \/ Relock(p)

Next == \E p \in Procs : Call(p) \/ InCall(p) \/ Kill(p) \/ Close(p)

Spec == Init /\ [][Next]_vars

(* A process inside a call goes on.  Strong fairness for the lock: it is   *)
(* held for a bounded time and the contenders take turns.  A killed        *)
(* process returns to user space and exits, which closes its descriptors.  *)
FairSpec ==
    /\ Spec /\ \A p \in Procs : SF_vars(InCall(p))
    /\ \A p \in Killable : SF_vars(killed[p] /\ Close(p))

-----------------------------------------------------------------------------
Count == (nwrite + WORD - nread) % WORD

(* The refinement mapping: the bytes between nread and nwrite.             *)
Queue == [k \in 1..Count |-> data[((nread + k - 1) % WORD) % PIPESIZE]]

BC == INSTANCE ByteChannel WITH queue <- Queue

(* The types; the ring never holds more than PIPESIZE bytes, also when the *)
(* counters have wrapped around; the pipe is freed when and only when both *)
(* ends are closed, once.                                                  *)
TypeOK ==
    /\ data \in [0..(PIPESIZE - 1) -> Bytes] /\ got \in Bytes
    /\ nread \in 0..(WORD - 1) /\ nwrite \in 0..(WORD - 1)
    /\ Count <= PIPESIZE
    /\ lock \in Procs \cup {NoProc}
    /\ pc \in [Procs -> {"out", "loop", "copy", "rsleep", "wsleep", "rasleep",
                         "wasleep", "ready"}]
    /\ \A p \in Procs : \E n \in Sizes : left[p] \in 0..n
    /\ killed \in [Procs -> BOOLEAN]
    /\ readopen \in BOOLEAN /\ writeopen \in BOOLEAN
    /\ frees = IF readopen \/ writeopen THEN 0 ELSE 1

(* Bytes come out in the order they went in, none lost, none twice.        *)
Fifo == BC!Spec

(* A reader sleeps only while the pipe is empty and can still be written,  *)
(* a writer only while it is full and can still be read; or the process    *)
(* that changes this has the lock and its wakeup() is to come.             *)
NoMissedWakeup ==
    \A p \in Procs :
        /\ pc[p] = "rasleep" => \/ Empty /\ writeopen
                                \/ \E w \in Writers : pc[w] = "loop"
        /\ pc[p] = "wasleep" => \/ Full /\ readopen
                                \/ \E r \in Readers : pc[r] = "copy"

(* End of file: a process inside piperead() when the last writer closes    *)
(* its end comes out of the call, wherever in it it is, and a process      *)
(* inside pipewrite() when the last reader does.                           *)
EndOfFile ==
    /\ \A r \in Readers : pc[r] # "out" /\ ~writeopen ~> pc[r] = "out"
    /\ \A w \in Writers : pc[w] # "out" /\ ~readopen ~> pc[w] = "out"

(* Some reader takes the bytes that are in the pipe, as long as a reader   *)
(* is inside piperead().                                                   *)
DataDelivered ==
    \A p \in Readers : pc[p] \in {"rasleep", "ready"} /\ ~Empty ~>
        (Empty \/ pc[p] = "out")
=============================================================================

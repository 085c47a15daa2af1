----------------------------- MODULE SleepLock -----------------------------
(***************************************************************************)
(* One sleep lock of the kernel (sleeplock.c) and the sleep/wakeup pair it *)
(* is built from (proc.c), with every spin-lock operation a step of its    *)
(* own: the lock lk->lk that protects the sleep lock, and ptable.lock that *)
(* protects the process states.  The order in which sleep() takes the one  *)
(* and drops the other is what this module is about.                       *)
(*                                                                         *)
(* A spin lock is the process whose CPU holds it, or NoProc.  pc[p] names  *)
(* the next statement of p; the CPU a process runs on and the scheduler's  *)
(* table scan belong to module ProcTable.                                  *)
(***************************************************************************)
EXTENDS Naturals

CONSTANTS Procs,    \* the processes that use the lock
          NoProc,   \* "nobody": a null pointer, or a free spin lock
          MaxKills  \* bound: how often a sleeper is woken by kill()

ASSUME NoProcAssumption == NoProc \notin Procs
ASSUME MaxKillsAssumption == MaxKills \in Nat

VARIABLES
    pc,       \* pc[p]: next statement of process p
    state,    \* state[p]: p->state, the three values that matter here
    onchan,   \* onchan[p]: p->chan is the address of the sleep lock
    lk,       \* holder of lk->lk
    ptlock,   \* holder of ptable.lock
    locked,   \* lk->locked
    pid,      \* lk->pid, as the process itself
    kills     \* sleepers woken by kill() so far

vars == <<pc, state, onchan, lk, ptlock, locked, pid, kills>>

PCs == {"out", "test", "sleep1", "sleep2", "sleep3", "sched", "slept",
        "woken", "relock", "in", "rel1", "rel2", "rel3"}
States == {"RUNNING", "RUNNABLE", "SLEEPING"}

-----------------------------------------------------------------------------
(* initsleeplock(): unlocked, no owner; every process is running elsewhere. *)
Init ==
    /\ pc = [p \in Procs |-> "out"]
    /\ state = [p \in Procs |-> "RUNNING"]
    /\ onchan = [p \in Procs |-> FALSE]
    /\ lk = NoProc
    /\ ptlock = NoProc
    /\ locked = FALSE
    /\ pid = NoProc
    /\ kills = 0

Goto(p, l) == pc' = [pc EXCEPT ![p] = l]

(* acquire(&lk->lk): on entry of acquiresleep() and of releasesleep(), and *)
(* at the end of sleep().                                                  *)
AcquireLk(p) ==
    /\ lk = NoProc
    /\ \/ pc[p] \in {"out", "relock"} /\ Goto(p, "test")
       \/ pc[p] = "in" /\ Goto(p, "rel1")
    /\ lk' = p
    /\ UNCHANGED <<state, onchan, ptlock, locked, pid, kills>>

(* The loop test of acquiresleep(): the lock is free and is taken ...      *)
TakeLock(p) ==
    /\ pc[p] = "test" /\ ~locked
    /\ locked' = TRUE /\ pid' = p
    /\ lk' = NoProc
    /\ Goto(p, "in")
    /\ UNCHANGED <<state, onchan, ptlock, kills>>

(* Mutant of MustSleep: sleep() drops lk->lk before it holds ptable.lock.  *)
SleepReleasesTooEarly(p) ==
    /\ pc[p] = "test" /\ locked
    /\ lk' = NoProc
    /\ Goto(p, "sleep1")
    /\ UNCHANGED <<state, onchan, ptlock, locked, pid, kills>>

(* ... or it is held, and the process calls sleep(lk, &lk->lk).            *)
MustSleep(p) ==
    /\ pc[p] = "test" /\ locked
    /\ Goto(p, "sleep1")
    /\ UNCHANGED <<state, onchan, lk, ptlock, locked, pid, kills>>

(* sleep(): acquire(&ptable.lock) while lk->lk is still held.              *)
SleepAcquirePt(p) ==
    /\ pc[p] = "sleep1" /\ ptlock = NoProc
    /\ ptlock' = p
    /\ Goto(p, "sleep2")
    /\ UNCHANGED <<state, onchan, lk, locked, pid, kills>>

(* sleep(): release(lk).                                                   *)
SleepReleaseLk(p) ==
    /\ pc[p] = "sleep2"
    /\ lk' = NoProc
    /\ Goto(p, "sleep3")
    /\ UNCHANGED <<state, onchan, ptlock, locked, pid, kills>>

(* sleep(): p->chan = chan; p->state = SLEEPING.                           *)
SleepMark(p) ==
    /\ pc[p] = "sleep3"
    /\ onchan' = [onchan EXCEPT ![p] = TRUE]
    /\ state' = [state EXCEPT ![p] = "SLEEPING"]
    /\ Goto(p, "sched")
    /\ UNCHANGED <<lk, ptlock, locked, pid, kills>>

(* sched() switches to the scheduler, which drops ptable.lock in the end.  *)
SwitchOut(p) ==
    /\ pc[p] = "sched"
    /\ ptlock' = NoProc
    /\ Goto(p, "slept")
    /\ UNCHANGED <<state, onchan, lk, locked, pid, kills>>

(* The scheduler finds p RUNNABLE and switches to it, with ptable.lock.    *)
SwitchIn(p) ==
    /\ pc[p] = "slept" /\ state[p] = "RUNNABLE" /\ ptlock = NoProc
    /\ state' = [state EXCEPT ![p] = "RUNNING"]
    /\ ptlock' = p
    /\ Goto(p, "woken")
    /\ UNCHANGED <<onchan, lk, locked, pid, kills>>

(* Mutant of SleepTidy: acquiresleep() with `if' in place of `while'.      *)
TidyTakesLock(p) ==
    /\ pc[p] = "woken"
    /\ onchan' = [onchan EXCEPT ![p] = FALSE]
    /\ ptlock' = NoProc
    /\ locked' = TRUE /\ pid' = p
    /\ Goto(p, "in")
    /\ UNCHANGED <<state, lk, kills>>

(* sleep(), back from sched(): p->chan = 0; release(&ptable.lock).         *)
SleepTidy(p) ==
    /\ pc[p] = "woken"
    /\ onchan' = [onchan EXCEPT ![p] = FALSE]
    /\ ptlock' = NoProc
    /\ Goto(p, "relock")
    /\ UNCHANGED <<state, lk, locked, pid, kills>>

(* Mutant of DropLock: releasesleep() leaves lk->pid behind.               *)
DropKeepsPid(p) ==
    /\ pc[p] = "rel1"
    /\ locked' = FALSE
    /\ Goto(p, "rel2")
    /\ UNCHANGED <<state, onchan, lk, ptlock, pid, kills>>

(* releasesleep(): lk->locked = 0; lk->pid = 0.                            *)
DropLock(p) ==
    /\ pc[p] = "rel1"
    /\ locked' = FALSE /\ pid' = NoProc
    /\ Goto(p, "rel2")
    /\ UNCHANGED <<state, onchan, lk, ptlock, kills>>

(* wakeup1(): every process asleep on the lock becomes RUNNABLE.           *)
Woken == [q \in Procs |-> IF state[q] = "SLEEPING" /\ onchan[q]
                          THEN "RUNNABLE" ELSE state[q]]

(* Mutant of Wakeup: releasesleep() forgets the wakeup.                    *)
NoWakeup(p) ==
    /\ pc[p] = "rel2" /\ ptlock = NoProc
    /\ Goto(p, "rel3")
    /\ UNCHANGED <<state, onchan, lk, ptlock, locked, pid, kills>>

(* releasesleep(): wakeup(lk), with ptable.lock taken and dropped inside.  *)
Wakeup(p) ==
    /\ pc[p] = "rel2" /\ ptlock = NoProc
    /\ state' = Woken
    /\ Goto(p, "rel3")
    /\ UNCHANGED <<onchan, lk, ptlock, locked, pid, kills>>

(* releasesleep(): release(&lk->lk).                                       *)
ReleaseLk(p) ==
    /\ pc[p] = "rel3"
    /\ lk' = NoProc
    /\ Goto(p, "out")
    /\ UNCHANGED <<state, onchan, ptlock, locked, pid, kills>>

(* kill() by anybody: a sleeper is made RUNNABLE although the lock is not  *)
(* free; the loop of acquiresleep() has to send it back to sleep.  Without *)
(* a bound, kills repeated for ever would keep the releaser from lk->lk.   *)
Kill(p) ==
    /\ ptlock = NoProc /\ state[p] = "SLEEPING"
    /\ kills < MaxKills
    /\ kills' = kills + 1
    /\ state' = [state EXCEPT ![p] = "RUNNABLE"]
    /\ UNCHANGED <<pc, onchan, lk, ptlock, locked, pid>>

Step(p) ==
    \/ AcquireLk(p) \/ TakeLock(p) \/ MustSleep(p)
    \/ SleepAcquirePt(p) \/ SleepReleaseLk(p) \/ SleepMark(p)
    \/ SwitchOut(p) \/ SwitchIn(p) \/ SleepTidy(p)
    \/ DropLock(p) \/ Wakeup(p) \/ ReleaseLk(p)

Next == \E p \in Procs : Step(p) \/ Kill(p)

Spec == Init /\ [][Next]_vars

(* Every process that has entered acquiresleep() or holds the lock keeps   *)
(* running: the timer and the scheduler give each RUNNABLE process the CPU *)
(* again, and no kernel path keeps a sleep lock for ever.  Nobody has to   *)
(* call acquiresleep() at all, so "out" carries no fairness.               *)
FairSpec == Spec /\ \A p \in Procs : WF_vars(pc[p] # "out" /\ Step(p))

-----------------------------------------------------------------------------
(* The types, and that lk->pid names a process exactly while lk->locked is *)
(* set: releasesleep() resets both.                                        *)
TypeOK ==
    /\ pc \in [Procs -> PCs]
    /\ state \in [Procs -> States]
    /\ onchan \in [Procs -> BOOLEAN]
    /\ lk \in Procs \cup {NoProc}
    /\ ptlock \in Procs \cup {NoProc}
    /\ locked \in BOOLEAN
    /\ pid \in IF locked THEN Procs ELSE {NoProc}
    /\ kills \in 0..MaxKills

HoldsSleepLock(p) == pc[p] \in {"in", "rel1"}
HoldsLk(p) == pc[p] \in {"test", "sleep1", "sleep2", "rel1", "rel2", "rel3"}
HoldsPt(p) == pc[p] \in {"sleep2", "sleep3", "sched", "woken"}

(* Between acquiresleep() and releasesleep() at most one process owns the  *)
(* lock, and holdingsleep() answers for that process and no other (bwrite, *)
(* brelse, iderw and iunlock panic when it does not).                      *)
MutualExclusion ==
    \A p \in Procs : HoldsSleepLock(p) =>
        /\ locked /\ pid = p
        /\ \A q \in Procs : HoldsSleepLock(q) => q = p

(* sleep()'s comment: "Once we hold ptable.lock, we can be guaranteed that *)
(* we won't miss any wakeup".  A process asleep on the lock sees it held,  *)
(* or its wakeup is still to come.                                         *)
NoMissedWakeup ==
    \A p \in Procs : state[p] = "SLEEPING" =>
        locked \/ \E q \in Procs : pc[q] = "rel2"

(* A sleeper is never left behind: whoever holds the lock releases it and  *)
(* wakes everyone asleep on it.                                            *)
SleeperWoken ==
    \A p \in Procs : state[p] = "SLEEPING" ~> state[p] # "SLEEPING"
=============================================================================

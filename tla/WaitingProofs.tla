---------------------------- MODULE WaitingProofs --------------------------
(***************************************************************************)
(* Proofs about processes and threads that wait for each other: module     *)
(* SleepLock, for any set of processes, Assignment 7, module Relay for any *)
(* number of runners and module Painters for any number of artists and any *)
(* canvas, module Shell for any command lines, and Assignment 5, module    *)
(* MiniShell for any ring, with pipe() and fork() that may always fail.    *)
(*                                                                         *)
(* MutualExclusion and NoMissedWakeup are not inductive: nothing in them   *)
(* says who holds the two spin locks.  IInv adds that each spin lock is    *)
(* held by exactly the process whose next statement lies between its       *)
(* acquire and its release, that lk->locked and lk->pid describe the       *)
(* process inside, and that a process on its way into sleep() still sees   *)
(* the lock held.                                                          *)
(*                                                                         *)
(* RunInTurn is not inductive by itself: a runner takes off because a      *)
(* semaphore is positive, so RaceIInv adds that only a runner that is done *)
(* has posted its semaphore.  For NoIslands PaintIInv adds where an artist *)
(* is within an iteration: on a pixel beside its ground, which it can      *)
(* still step back to.                                                     *)
(*                                                                         *)
(* NothingLeftOver depends on the way to it: ShellIInv says what a process *)
(* has open at each place of runcmd(), the two ends of a pipe among it     *)
(* from pipe() to its close(), and that the shell has one child while it   *)
(* waits.  For PromptSettled MiniIInv counts, wherever the mini-shell is,  *)
(* the children it is still going to wait for and the end of a pipe it is  *)
(* going to close.                                                         *)
(***************************************************************************)
EXTENDS SleepLock, Relay, Painters, Shell, MiniShell, FiniteSetTheorems,
        SequenceTheorems, TLAPS

-----------------------------------------------------------------------------
(* The sleep lock.                                                         *)

(* lk->lk and ptable.lock belong to the process between acquire/release.   *)
SpinLocks ==
    \A p \in Procs : /\ lk = p <=> HoldsLk(p)
                     /\ ptlock = p <=> HoldsPt(p)

(* lk->locked is set exactly while some process is inside, named by pid.   *)
Owner ==
    /\ \A p \in Procs : HoldsSleepLock(p) => locked /\ pid = p
    /\ locked => pid \in Procs /\ HoldsSleepLock(pid)

(* A SLEEPING process is inside sched() with its channel set.              *)
Sleepers ==
    \A p \in Procs :
        /\ state[p] = "SLEEPING" => pc[p] \in {"sched", "slept"}
        /\ pc[p] \in {"sched", "slept"} => onchan[p]

(* From the loop test to SLEEPING the lock stays held, or its releaser is  *)
(* still about to call wakeup().                                           *)
Committed ==
    \A p \in Procs :
        pc[p] \in {"sleep1", "sleep2", "sleep3"} \/ state[p] = "SLEEPING" =>
            locked \/ \E q \in Procs : pc[q] = "rel2"

IInv == TypeOK /\ SpinLocks /\ Owner /\ Sleepers /\ Committed

-----------------------------------------------------------------------------
(* Initially no process is in acquiresleep(), sleep() or releasesleep().   *)
LEMMA InitIInv == Init => IInv
  <1> SUFFICES ASSUME Init PROVE IInv
      OBVIOUS
  <1> USE NoProcAssumption DEF Init
  <1>1. TypeOK
    <2>1. onchan \in [Procs -> BOOLEAN] /\ locked \in BOOLEAN
        BY Zenon
    <2>2. kills \in 0..MaxKills
        BY MaxKillsAssumption, SMT
    <2> QED BY <2>1, <2>2 DEF TypeOK, PCs, States
  <1>2. SpinLocks
      BY DEF SpinLocks, HoldsLk, HoldsPt
  <1>3. Owner
      BY DEF Owner, HoldsSleepLock
  <1>4. Sleepers
      BY DEF Sleepers
  <1>5. Committed
      BY DEF Committed
  <1> QED BY <1>1, <1>2, <1>3, <1>4, <1>5 DEF IInv

(* Every step of acquiresleep(), releasesleep(), sleep(), wakeup() and     *)
(* kill() keeps the invariant.                                             *)
LEMMA NextIInv == IInv /\ [Next]_vars => IInv'
  <1> SUFFICES ASSUME IInv, [Next]_vars PROVE IInv'
      OBVIOUS
  <1> USE NoProcAssumption, MaxKillsAssumption
  <1>0. CASE UNCHANGED vars
      BY <1>0 DEF vars, IInv, TypeOK, SpinLocks, Owner, Sleepers, Committed,
                  HoldsLk, HoldsPt, HoldsSleepLock
  <1>1. ASSUME NEW p \in Procs, AcquireLk(p) PROVE IInv'
    <2>1. TypeOK'
        BY <1>1 DEF AcquireLk, Goto, IInv, TypeOK, PCs, States
    <2>2. SpinLocks'
        BY <1>1 DEF AcquireLk, Goto, IInv, TypeOK, SpinLocks, HoldsLk, HoldsPt
    <2>3. Owner'
        BY <1>1 DEF AcquireLk, Goto, IInv, TypeOK, SpinLocks, Owner, HoldsLk,
                    HoldsSleepLock
    <2>4. Sleepers'
        BY <1>1 DEF AcquireLk, Goto, IInv, TypeOK, Sleepers
    <2>5. Committed'
        BY <1>1 DEF AcquireLk, Goto, IInv, TypeOK, SpinLocks, Owner, Sleepers,
                    Committed, HoldsLk, HoldsPt
    <2> QED BY <2>1, <2>2, <2>3, <2>4, <2>5 DEF IInv
  <1>2. ASSUME NEW p \in Procs, TakeLock(p) PROVE IInv'
    <2>1. TypeOK'
        BY <1>2 DEF TakeLock, Goto, IInv, TypeOK, PCs, States
    <2>2. SpinLocks'
        BY <1>2 DEF TakeLock, Goto, IInv, TypeOK, SpinLocks, HoldsLk, HoldsPt
    <2>3. Owner'
        BY <1>2 DEF TakeLock, Goto, IInv, TypeOK, SpinLocks, Owner, HoldsLk,
                    HoldsSleepLock
    <2>4. Sleepers'
        BY <1>2 DEF TakeLock, Goto, IInv, TypeOK, Sleepers
    <2>5. Committed'
        BY <1>2 DEF TakeLock, Goto, IInv, TypeOK, SpinLocks, Owner, Sleepers,
                    Committed, HoldsLk, HoldsPt
    <2> QED BY <2>1, <2>2, <2>3, <2>4, <2>5 DEF IInv
  <1>3. ASSUME NEW p \in Procs, MustSleep(p) PROVE IInv'
    <2>1. TypeOK'
        BY <1>3 DEF MustSleep, Goto, IInv, TypeOK, PCs, States
    <2>2. SpinLocks'
        BY <1>3 DEF MustSleep, Goto, IInv, TypeOK, SpinLocks, HoldsLk, HoldsPt
    <2>3. Owner'
        BY <1>3 DEF MustSleep, Goto, IInv, TypeOK, SpinLocks, Owner, HoldsLk,
                    HoldsSleepLock
    <2>4. Sleepers'
        BY <1>3 DEF MustSleep, Goto, IInv, TypeOK, Sleepers
    <2>5. Committed'
        BY <1>3 DEF MustSleep, Goto, IInv, TypeOK, SpinLocks, Owner, Sleepers,
                    Committed, HoldsLk, HoldsPt
    <2> QED BY <2>1, <2>2, <2>3, <2>4, <2>5 DEF IInv
  <1>4. ASSUME NEW p \in Procs, SleepAcquirePt(p) PROVE IInv'
    <2>1. TypeOK'
        BY <1>4 DEF SleepAcquirePt, Goto, IInv, TypeOK, PCs, States
    <2>2. SpinLocks'
        BY <1>4 DEF SleepAcquirePt, Goto, IInv, TypeOK, SpinLocks, HoldsLk, HoldsPt
    <2>3. Owner'
        BY <1>4 DEF SleepAcquirePt, Goto, IInv, TypeOK, SpinLocks, Owner, HoldsLk,
                    HoldsSleepLock
    <2>4. Sleepers'
        BY <1>4 DEF SleepAcquirePt, Goto, IInv, TypeOK, Sleepers
    <2>5. Committed'
        BY <1>4 DEF SleepAcquirePt, Goto, IInv, TypeOK, SpinLocks, Owner, Sleepers,
                    Committed, HoldsLk, HoldsPt
    <2> QED BY <2>1, <2>2, <2>3, <2>4, <2>5 DEF IInv
  <1>5. ASSUME NEW p \in Procs, SleepReleaseLk(p) PROVE IInv'
    <2>1. TypeOK'
        BY <1>5 DEF SleepReleaseLk, Goto, IInv, TypeOK, PCs, States
    <2>2. SpinLocks'
        BY <1>5 DEF SleepReleaseLk, Goto, IInv, TypeOK, SpinLocks, HoldsLk, HoldsPt
    <2>3. Owner'
        BY <1>5 DEF SleepReleaseLk, Goto, IInv, TypeOK, SpinLocks, Owner, HoldsLk,
                    HoldsSleepLock
    <2>4. Sleepers'
        BY <1>5 DEF SleepReleaseLk, Goto, IInv, TypeOK, Sleepers
    <2>5. Committed'
        BY <1>5 DEF SleepReleaseLk, Goto, IInv, TypeOK, SpinLocks, Owner, Sleepers,
                    Committed, HoldsLk, HoldsPt
    <2> QED BY <2>1, <2>2, <2>3, <2>4, <2>5 DEF IInv
  <1>6. ASSUME NEW p \in Procs, SleepMark(p) PROVE IInv'
    <2>1. TypeOK'
        BY <1>6 DEF SleepMark, Goto, IInv, TypeOK, PCs, States
    <2>2. SpinLocks'
        BY <1>6 DEF SleepMark, Goto, IInv, TypeOK, SpinLocks, HoldsLk, HoldsPt
    <2>3. Owner'
        BY <1>6 DEF SleepMark, Goto, IInv, TypeOK, SpinLocks, Owner, HoldsLk,
                    HoldsSleepLock
    <2>4. Sleepers'
        BY <1>6 DEF SleepMark, Goto, IInv, TypeOK, Sleepers
    <2>5. Committed'
        BY <1>6 DEF SleepMark, Goto, IInv, TypeOK, SpinLocks, Owner, Sleepers,
                    Committed, HoldsLk, HoldsPt
    <2> QED BY <2>1, <2>2, <2>3, <2>4, <2>5 DEF IInv
  <1>7. ASSUME NEW p \in Procs, SwitchOut(p) PROVE IInv'
    <2>1. TypeOK'
        BY <1>7 DEF SwitchOut, Goto, IInv, TypeOK, PCs, States
    <2>2. SpinLocks'
        BY <1>7 DEF SwitchOut, Goto, IInv, TypeOK, SpinLocks, HoldsLk, HoldsPt
    <2>3. Owner'
        BY <1>7 DEF SwitchOut, Goto, IInv, TypeOK, SpinLocks, Owner, HoldsLk,
                    HoldsSleepLock
    <2>4. Sleepers'
        BY <1>7 DEF SwitchOut, Goto, IInv, TypeOK, Sleepers
    <2>5. Committed'
        BY <1>7 DEF SwitchOut, Goto, IInv, TypeOK, SpinLocks, Owner, Sleepers,
                    Committed, HoldsLk, HoldsPt
    <2> QED BY <2>1, <2>2, <2>3, <2>4, <2>5 DEF IInv
  <1>8. ASSUME NEW p \in Procs, SwitchIn(p) PROVE IInv'
    <2>1. TypeOK'
        BY <1>8 DEF SwitchIn, Goto, IInv, TypeOK, PCs, States
    <2>2. SpinLocks'
        BY <1>8 DEF SwitchIn, Goto, IInv, TypeOK, SpinLocks, HoldsLk, HoldsPt
    <2>3. Owner'
        BY <1>8 DEF SwitchIn, Goto, IInv, TypeOK, SpinLocks, Owner, HoldsLk,
                    HoldsSleepLock
    <2>4. Sleepers'
        BY <1>8 DEF SwitchIn, Goto, IInv, TypeOK, Sleepers
    <2>5. Committed'
        BY <1>8 DEF SwitchIn, Goto, IInv, TypeOK, SpinLocks, Owner, Sleepers,
                    Committed, HoldsLk, HoldsPt
    <2> QED BY <2>1, <2>2, <2>3, <2>4, <2>5 DEF IInv
  <1>9. ASSUME NEW p \in Procs, SleepTidy(p) PROVE IInv'
    <2>1. TypeOK'
        BY <1>9 DEF SleepTidy, Goto, IInv, TypeOK, PCs, States
    <2>2. SpinLocks'
        BY <1>9 DEF SleepTidy, Goto, IInv, TypeOK, SpinLocks, HoldsLk, HoldsPt
    <2>3. Owner'
        BY <1>9 DEF SleepTidy, Goto, IInv, TypeOK, SpinLocks, Owner, HoldsLk,
                    HoldsSleepLock
    <2>4. Sleepers'
        BY <1>9 DEF SleepTidy, Goto, IInv, TypeOK, Sleepers
    <2>5. Committed'
        BY <1>9 DEF SleepTidy, Goto, IInv, TypeOK, SpinLocks, Owner, Sleepers,
                    Committed, HoldsLk, HoldsPt
    <2> QED BY <2>1, <2>2, <2>3, <2>4, <2>5 DEF IInv
  <1>10. ASSUME NEW p \in Procs, DropLock(p) PROVE IInv'
    <2>1. TypeOK'
        BY <1>10 DEF DropLock, Goto, IInv, TypeOK, PCs, States
    <2>2. SpinLocks'
        BY <1>10 DEF DropLock, Goto, IInv, TypeOK, SpinLocks, HoldsLk, HoldsPt
    <2>3. Owner'
        BY <1>10 DEF DropLock, Goto, IInv, TypeOK, SpinLocks, Owner, HoldsLk,
                    HoldsSleepLock
    <2>4. Sleepers'
        BY <1>10 DEF DropLock, Goto, IInv, TypeOK, Sleepers
    <2>5. Committed'
        BY <1>10 DEF DropLock, Goto, IInv, TypeOK, SpinLocks, Owner, Sleepers,
                    Committed, HoldsLk, HoldsPt
    <2> QED BY <2>1, <2>2, <2>3, <2>4, <2>5 DEF IInv
  <1>11. ASSUME NEW p \in Procs, Wakeup(p) PROVE IInv'
    <2>1. TypeOK'
        BY <1>11 DEF Wakeup, Goto, Woken, IInv, TypeOK, PCs, States
    <2>2. SpinLocks'
        BY <1>11 DEF Wakeup, Goto, Woken, IInv, TypeOK, SpinLocks, HoldsLk, HoldsPt
    <2>3. Owner'
        BY <1>11 DEF Wakeup, Goto, Woken, IInv, TypeOK, SpinLocks, Owner, HoldsLk,
                    HoldsSleepLock
    <2>4. Sleepers'
        BY <1>11 DEF Wakeup, Goto, Woken, IInv, TypeOK, Sleepers
    <2>5. Committed'
        BY <1>11 DEF Wakeup, Goto, Woken, IInv, TypeOK, SpinLocks, Owner, Sleepers,
                    Committed, HoldsLk, HoldsPt
    <2> QED BY <2>1, <2>2, <2>3, <2>4, <2>5 DEF IInv
  <1>12. ASSUME NEW p \in Procs, ReleaseLk(p) PROVE IInv'
    <2>1. TypeOK'
        BY <1>12 DEF ReleaseLk, Goto, IInv, TypeOK, PCs, States
    <2>2. SpinLocks'
        BY <1>12 DEF ReleaseLk, Goto, IInv, TypeOK, SpinLocks, HoldsLk, HoldsPt
    <2>3. Owner'
        BY <1>12 DEF ReleaseLk, Goto, IInv, TypeOK, SpinLocks, Owner, HoldsLk,
                    HoldsSleepLock
    <2>4. Sleepers'
        BY <1>12 DEF ReleaseLk, Goto, IInv, TypeOK, Sleepers
    <2>5. Committed'
        BY <1>12 DEF ReleaseLk, Goto, IInv, TypeOK, SpinLocks, Owner, Sleepers,
                    Committed, HoldsLk, HoldsPt
    <2> QED BY <2>1, <2>2, <2>3, <2>4, <2>5 DEF IInv
  <1>13. ASSUME NEW p \in Procs, Kill(p) PROVE IInv'
    <2>1. TypeOK'
        BY <1>13 DEF Kill, IInv, TypeOK, PCs, States
    <2>2. SpinLocks'
        BY <1>13 DEF Kill, IInv, TypeOK, SpinLocks, HoldsLk, HoldsPt
    <2>3. Owner'
        BY <1>13 DEF Kill, IInv, TypeOK, SpinLocks, Owner, HoldsLk,
                    HoldsSleepLock
    <2>4. Sleepers'
        BY <1>13 DEF Kill, IInv, TypeOK, Sleepers
    <2>5. Committed'
        BY <1>13 DEF Kill, IInv, TypeOK, SpinLocks, Owner, Sleepers,
                    Committed, HoldsLk, HoldsPt
    <2> QED BY <2>1, <2>2, <2>3, <2>4, <2>5 DEF IInv
  <1> QED
      BY <1>0, <1>1, <1>2, <1>3, <1>4, <1>5, <1>6, <1>7,
         <1>8, <1>9, <1>10, <1>11, <1>12, <1>13 DEF Next, Step

(* Every reachable state satisfies the inductive invariant.                *)
THEOREM SpecIInv == Spec => []IInv
  BY InitIInv, NextIInv, PTL DEF Spec

(* The sleep lock's fields, the two spin locks and the process states keep *)
(* their types.                                                            *)
THEOREM SpecTypeOK == Spec => []TypeOK
  <1>1. IInv => TypeOK
      BY DEF IInv
  <1> QED BY SpecIInv, <1>1, PTL

(* However many processes call acquiresleep() and releasesleep(), and      *)
(* whatever kill() wakes, at most one is between them and holdingsleep()   *)
(* recognises it.                                                          *)
THEOREM SpecMutualExclusion == Spec => []MutualExclusion
  <1>1. IInv => MutualExclusion
      BY DEF IInv, Owner, MutualExclusion
  <1> QED BY SpecIInv, <1>1, PTL

(* sleep() never misses the wakeup() of releasesleep().                    *)
THEOREM SpecNoMissedWakeup == Spec => []NoMissedWakeup
  <1>1. IInv => NoMissedWakeup
      BY DEF IInv, Committed, NoMissedWakeup
  <1> QED BY SpecIInv, <1>1, PTL

-----------------------------------------------------------------------------
(* The relay race.                                                         *)

(* The thread states, semaphore values and main()'s loop counters.         *)
RaceTypes ==
    /\ thread \in [Runners -> {"none", "start", "running", "done"}]
    /\ sem \in [Sems -> Nat]
    /\ created \in 0..N /\ joined \in 0..N
    /\ \A k \in Runners : thread[k] = "none" <=> k > created

(* A semaphore is positive only after its runner has finished.             *)
Baton == \A k \in Sems : sem[k] > 0 => thread[k] = "done"

(* main() has joined threads that are done.                                *)
Joined == \A k \in 1..joined : thread[k] = "done"

RaceIInv == RaceTypes /\ Baton /\ RunInTurn /\ Joined /\ (destroyed => joined = N)

(* Before the first thread is created nobody runs.                         *)
LEMMA InitRaceIInv == RaceInit => RaceIInv
  BY NAssumption
  DEF RaceInit, RaceIInv, RaceTypes, Baton, RunInTurn, Joined, Runners, Sems

(* Every step of main() and of the runners keeps the invariant.            *)
LEMMA NextRaceIInv == RaceIInv /\ [RaceNext]_raceVars => RaceIInv'
  <1> SUFFICES ASSUME RaceIInv, [RaceNext]_raceVars PROVE RaceIInv'
      OBVIOUS
  <1> USE NAssumption DEF Runners, Sems
  <1>1. CASE Create
    <2>1. RaceTypes' BY <1>1 DEF Create, RaceIInv, RaceTypes
    <2>2. Baton' BY <1>1 DEF Create, RaceIInv, RaceTypes, Baton, Joined
    <2> QED BY <1>1, <2>1, <2>2 DEF Create, RaceIInv, RaceTypes, RunInTurn, Joined
  <1>2. CASE Join
      BY <1>2 DEF Join, RaceIInv, RaceTypes, Baton, RunInTurn, Joined
  <1>3. CASE Destroy
      BY <1>3 DEF Destroy, RaceIInv, RaceTypes, Baton, RunInTurn, Joined
  <1>4. ASSUME NEW k \in Runners, TakeOff(k) PROVE RaceIInv'
    <2>0. \A j \in Sems : j = k - 1 => sem[j] - 1 \in Nat
        BY <1>4 DEF TakeOff, RaceIInv, RaceTypes
    <2>1. RaceTypes' BY <1>4, <2>0 DEF TakeOff, RaceIInv, RaceTypes
    <2>2. Baton' BY <1>4 DEF TakeOff, RaceIInv, RaceTypes, Baton
    <2>3. \A j \in 1..(k - 1) : thread[j] = "done"
        BY <1>4 DEF TakeOff, RaceIInv, RaceTypes, Baton, RunInTurn
    <2>4. RunInTurn' BY <1>4, <2>3 DEF TakeOff, RaceIInv, RaceTypes, RunInTurn
    <2>5. Joined' BY <1>4 DEF TakeOff, RaceIInv, RaceTypes, Joined
    <2> QED BY <1>4, <2>1, <2>2, <2>4, <2>5 DEF TakeOff, RaceIInv
  <1>5. ASSUME NEW k \in Runners, Finish(k) PROVE RaceIInv'
    <2>1. RaceTypes' BY <1>5 DEF Finish, RaceIInv, RaceTypes
    <2>2. Baton' BY <1>5 DEF Finish, RaceIInv, RaceTypes, Baton
    <2>3. RunInTurn' BY <1>5 DEF Finish, RaceIInv, RaceTypes, RunInTurn
    <2>4. Joined' BY <1>5 DEF Finish, RaceIInv, RaceTypes, Joined
    <2> QED BY <1>5, <2>1, <2>2, <2>3, <2>4 DEF Finish, RaceIInv
  <1>6. CASE UNCHANGED raceVars
      BY <1>6 DEF raceVars, RaceIInv, RaceTypes, Baton, RunInTurn, Joined
  <1> QED BY <1>1, <1>2, <1>3, <1>4, <1>5, <1>6 DEF RaceNext

(* Every reachable state satisfies the invariant.                          *)
THEOREM SpecRaceIInv == RaceSpec => []RaceIInv
  BY InitRaceIInv, NextRaceIInv, PTL DEF RaceSpec

(* The runners run one after the other, in order.                          *)
THEOREM SpecRunInTurn == RaceSpec => []RunInTurn
  <1>1. RaceIInv => RunInTurn
      BY DEF RaceIInv
  <1> QED BY SpecRaceIInv, <1>1, PTL

(* sem_destroy() comes when every thread has returned.                     *)
THEOREM SpecDestroyedUnused == RaceSpec => []DestroyedUnused
  <1>1. RaceIInv => DestroyedUnused
      BY DEF RaceIInv, Joined, DestroyedUnused, Runners
  <1> QED BY SpecRaceIInv, <1>1, PTL

-----------------------------------------------------------------------------
(* The artists.                                                            *)

Ground(a) == trail[a] \cup {Origin[a]}

(* What has been painted hangs together with the place it started from.    *)
Connected(S, c) ==
    \A part \in SUBSET S :
        c \in part /\ part # S => \E d \in part, e \in S \ part : Adjacent(d, e)

PaintTypes ==
    /\ color \in [Canvas -> Artists \cup {White}] /\ mutex \in [Canvas -> BOOLEAN]
    /\ pos \in [Artists -> Canvas] /\ current \in [Artists -> Canvas]
    /\ actuallyPainted \in [Artists -> 0..Strokes]
    /\ z \in [Artists -> Nat]
    /\ phase \in [Artists -> {"move", "look", "paint", "back"}]
    /\ trail \in [Artists -> SUBSET Canvas]

(* Between two iterations an artist stands on its ground; within one it    *)
(* may go back there, it is at most one pixel away, and it has paint.      *)
Stands ==
    \A a \in Artists :
        /\ phase[a] = "move" => pos[a] \in Ground(a)
        /\ phase[a] # "move" =>
              /\ current[a] \in Ground(a) /\ actuallyPainted[a] < Strokes
              /\ pos[a] = current[a] \/ Adjacent(current[a], pos[a])

(* A stroke makes a trail longer by one pixel at most.                     *)
Counted ==
    \A a \in Artists : /\ IsFiniteSet(trail[a])
                       /\ Cardinality(trail[a]) <= actuallyPainted[a]

PaintIInv ==
    /\ PaintTypes /\ Stands /\ Counted
    /\ \A a \in Artists : Connected(Ground(a), Origin[a])

(* A roll of the dice leads to the same pixel or to one beside it.         *)
LEMMA TargetBeside ==
    ASSUME CanvasAssumption, NEW c \in Canvas, NEW m \in movement
    PROVE  /\ Target(c, m) \in Canvas
           /\ Target(c, m) = c \/ Adjacent(c, Target(c, m))
<1>. DEFINE t == Target(c, m)
            n == <<t[1] - c[1], t[2] - c[2]>>
<1>. USE DEF CanvasAssumption
<1>1. /\ c = <<c[1], c[2]>>
      /\ c[1] \in 0..(CANVAS_WIDTH - 1) /\ c[2] \in 0..(CANVAS_HEIGHT - 1)
  BY DEF Canvas
<1>2. m[1] \in {-1, 0, 1} /\ m[2] \in {-1, 0, 1}
  BY DEF movement
<1>3. t = <<t[1], t[2]>>
  BY DEF Target
<1>4. t[1] \in 0..(CANVAS_WIDTH - 1) /\ t[1] - c[1] \in {-1, 0, 1}
  BY <1>1, <1>2 DEF Target, Clamp
<1>5. t[2] \in 0..(CANVAS_HEIGHT - 1) /\ t[2] - c[2] \in {-1, 0, 1}
  BY <1>1, <1>2 DEF Target, Clamp
<1>6. t \in Canvas
  BY <1>3, <1>4, <1>5 DEF Canvas
<1>7. CASE n = <<0, 0>>
  <2>1. t[1] = c[1] /\ t[2] = c[2]
    BY <1>1, <1>4, <1>5, <1>7
  <2>. QED
    BY <1>1, <1>3, <1>6, <2>1
<1>8. CASE n # <<0, 0>>
  <2>1. n \in movement
    BY <1>4, <1>5, <1>8 DEF movement
  <2>2. t[1] = c[1] + n[1] /\ t[2] = c[2] + n[2]
    BY <1>1, <1>4, <1>5
  <2>. QED
    BY <1>3, <1>6, <2>1, <2>2 DEF Adjacent
<1>. QED
  BY <1>7, <1>8

(* A pixel beside a connected ground, or on it, keeps it connected.        *)
LEMMA StillConnected ==
    ASSUME NEW S, NEW o \in S, Connected(S, o),
           NEW c \in S, NEW d, d = c \/ Adjacent(c, d)
    PROVE  Connected(S \cup {d}, o)
<1>. SUFFICES ASSUME NEW part \in SUBSET (S \cup {d}), o \in part, part # S \cup {d}
              PROVE  \E x \in part, y \in (S \cup {d}) \ part : Adjacent(x, y)
  BY DEF Connected
<1>1. CASE S \subseteq part
  <2>1. d \notin part /\ c \in part
    BY <1>1
  <2>2. Adjacent(c, d)
    BY <2>1
  <2>. QED
    BY <2>1, <2>2
<1>2. CASE ~(S \subseteq part)
  <2>1. part \cap S \in SUBSET S /\ o \in part \cap S /\ part \cap S # S
    BY <1>2
  <2>2. PICK x \in part \cap S, y \in S \ (part \cap S) : Adjacent(x, y)
    BY <2>1 DEF Connected
  <2>. QED
    BY <2>2
<1>. QED
  BY <1>1, <1>2

LEMMA PaintStart ==
    ASSUME CanvasAssumption, OriginAssumption, PaintInit
    PROVE  PaintIInv
<1>. USE DEF CanvasAssumption, OriginAssumption
<1>1. PaintTypes
  BY DEF PaintInit, PaintTypes
<1>2. Stands
  BY DEF PaintInit, Stands, Ground
<1>3. Counted
  BY FS_EmptySet DEF PaintInit, Counted
<1>4. ASSUME NEW a \in Artists PROVE Connected(Ground(a), Origin[a])
  BY DEF PaintInit, Ground, Connected
<1>. QED
  BY <1>1, <1>2, <1>3, <1>4 DEF PaintIInv

LEMMA PaintStep ==
    ASSUME CanvasAssumption, OriginAssumption, PaintIInv, [PaintNext]_paintVars
    PROVE  PaintIInv'
<1>. USE DEF PaintIInv
<1>1. ASSUME NEW a \in Artists, Grab(a) PROVE PaintIInv'
  <2>1. PICK m \in movement :
          LET t == Target(pos[a], m) IN
          /\ phase[a] = "move" /\ actuallyPainted[a] < Strokes
          /\ mutex' = [mutex EXCEPT ![t] = TRUE]
          /\ current' = [current EXCEPT ![a] = pos[a]]
          /\ pos' = [pos EXCEPT ![a] = t] /\ phase' = [phase EXCEPT ![a] = "look"]
    BY <1>1 DEF Grab, Phase
  <2>2. UNCHANGED <<color, z, actuallyPainted, trail>>
    BY <1>1 DEF Grab
  <2>3. /\ Target(pos[a], m) \in Canvas
        /\ Target(pos[a], m) = pos[a] \/ Adjacent(pos[a], Target(pos[a], m))
    BY TargetBeside DEF PaintTypes
  <2>4. PaintTypes'
    BY <2>1, <2>2, <2>3 DEF PaintTypes
  <2>5. Stands'
    BY <2>1, <2>2, <2>3 DEF PaintTypes, Stands, Ground
  <2>. QED
    BY <2>2, <2>4, <2>5 DEF Counted, Ground
<1>2. ASSUME NEW a \in Artists, Miss(a) PROVE PaintIInv'
  <2>1. PICK m \in movement :
          LET t == Target(pos[a], m) IN
          /\ phase[a] = "move"
          /\ mutex' = [mutex EXCEPT ![t] = TRUE]
          /\ current' = [current EXCEPT ![a] = pos[a]]
          /\ z' = [z EXCEPT ![a] = @ + 1] /\ phase' = [phase EXCEPT ![a] = "move"]
    BY <1>2 DEF Miss, NextTry, Phase
  <2>2. UNCHANGED <<color, pos, actuallyPainted, trail>>
    BY <1>2 DEF Miss
  <2>3. PaintTypes'
    <3>1. mutex' \in [Canvas -> BOOLEAN]
      BY <2>1 DEF PaintTypes
    <3>2. /\ current' \in [Artists -> Canvas] /\ z' \in [Artists -> Nat]
          /\ phase' \in [Artists -> {"move", "look", "paint", "back"}]
      BY <2>1 DEF PaintTypes
    <3>. QED
      BY <2>2, <3>1, <3>2 DEF PaintTypes
  <2>4. Stands'
    BY <2>1, <2>2 DEF PaintTypes, Stands, Ground
  <2>. QED
    BY <2>2, <2>3, <2>4 DEF Counted, Ground
<1>3. ASSUME NEW a \in Artists, Look(a) PROVE PaintIInv'
  <2>1. PaintTypes'
    BY <1>3 DEF Look, Phase, PaintTypes
  <2>2. Stands'
    BY <1>3 DEF Look, Phase, PaintTypes, Stands, Ground
  <2>. QED
    BY <1>3, <2>1, <2>2 DEF Look, Counted, Ground
<1>4. ASSUME NEW a \in Artists, Paint(a) PROVE PaintIInv'
  <2>1. /\ phase[a] = "paint"
        /\ color' = [color EXCEPT ![pos[a]] = a]
        /\ trail' = [trail EXCEPT ![a] = @ \cup {pos[a]}]
        /\ mutex' = [mutex EXCEPT ![pos[a]] = FALSE]
        /\ actuallyPainted' = [actuallyPainted EXCEPT ![a] = @ + 1]
        /\ z' = [z EXCEPT ![a] = @ + 1] /\ phase' = [phase EXCEPT ![a] = "move"]
        /\ UNCHANGED <<pos, current>>
    BY <1>4 DEF Paint, NextTry, Phase
  <2>2. current[a] \in Ground(a) /\ actuallyPainted[a] < Strokes
    BY <2>1 DEF Stands
  <2>3. pos[a] = current[a] \/ Adjacent(current[a], pos[a])
    BY <2>1 DEF Stands
  <2>4. PaintTypes'
    BY <2>1, <2>2 DEF PaintTypes, CanvasAssumption
  <2>5. Stands'
    BY <2>1 DEF PaintTypes, Stands, Ground
  <2>6. Counted'
    <3>1. ASSUME NEW q \in Artists
          PROVE  IsFiniteSet(trail'[q]) /\ Cardinality(trail'[q]) <= actuallyPainted'[q]
      <4>1. CASE q # a
        BY <2>1, <4>1 DEF Counted, PaintTypes
      <4>2. CASE q = a
        <5>1. trail'[a] = trail[a] \cup {pos[a]} /\ actuallyPainted'[a] = actuallyPainted[a] + 1
          BY <2>1 DEF PaintTypes
        <5>2. /\ IsFiniteSet(trail[a]) /\ Cardinality(trail[a]) \in Nat
              /\ Cardinality(trail[a]) <= actuallyPainted[a] /\ actuallyPainted[a] \in Int
          BY FS_CardinalityType DEF Counted, PaintTypes
        <5>3. /\ IsFiniteSet(trail[a] \cup {pos[a]})
              /\ Cardinality(trail[a] \cup {pos[a]}) \in
                    {Cardinality(trail[a]), Cardinality(trail[a]) + 1}
          BY <5>2, FS_AddElement, Zenon
        <5>. QED
          BY <4>2, <5>1, <5>2, <5>3, FS_CardinalityType
      <4>. QED
        BY <4>1, <4>2
    <3>. QED
      BY <3>1 DEF Counted
  <2>7. ASSUME NEW q \in Artists PROVE Connected(Ground(q)', Origin[q])
    <3>1. CASE q # a
      <4>1. Ground(q)' = Ground(q)
        BY <2>1, <3>1 DEF Ground, PaintTypes
      <4>. QED
        BY <4>1
    <3>2. CASE q = a
      <4>1. Ground(a)' = Ground(a) \cup {pos[a]}
        BY <2>1 DEF Ground, PaintTypes
      <4>2. Origin[a] \in Ground(a) /\ Connected(Ground(a), Origin[a])
        BY DEF Ground
      <4>3. Connected(Ground(a) \cup {pos[a]}, Origin[a])
        BY <2>2, <2>3, <4>2, StillConnected
      <4>. QED
        BY <3>2, <4>1, <4>3
    <3>. QED
      BY <3>1, <3>2
  <2>8. \A q \in Artists : Connected(Ground(q), Origin[q])'
    BY <2>7 DEF Connected, Adjacent
  <2>. QED
    BY <2>4, <2>5, <2>6, <2>8
<1>5. ASSUME NEW a \in Artists, Backtrack(a) PROVE PaintIInv'
  <2>1. /\ phase[a] = "back"
        /\ pos' = [pos EXCEPT ![a] = current[a]]
        /\ mutex' = [mutex EXCEPT ![current[a]] = FALSE]
        /\ actuallyPainted' = [actuallyPainted EXCEPT ![a] = @ + 1]
        /\ z' = [z EXCEPT ![a] = @ + 1] /\ phase' = [phase EXCEPT ![a] = "move"]
        /\ UNCHANGED <<color, current, trail>>
    BY <1>5 DEF Backtrack, NextTry, Phase
  <2>2. current[a] \in Ground(a) /\ actuallyPainted[a] < Strokes
    BY <2>1 DEF Stands
  <2>3. PaintTypes'
    BY <2>1, <2>2 DEF PaintTypes, CanvasAssumption
  <2>4. Stands'
    BY <2>1, <2>2 DEF PaintTypes, Stands, Ground
  <2>5. Counted'
    <3>1. ASSUME NEW q \in Artists
          PROVE  IsFiniteSet(trail'[q]) /\ Cardinality(trail'[q]) <= actuallyPainted'[q]
      <4>1. /\ trail'[q] = trail[q] /\ actuallyPainted[q] \in Int
            /\ actuallyPainted'[q] \in {actuallyPainted[q], actuallyPainted[q] + 1}
        BY <2>1 DEF PaintTypes
      <4>. QED
        BY <4>1, FS_CardinalityType DEF Counted
    <3>. QED
      BY <3>1 DEF Counted
  <2>. QED
    BY <2>1, <2>3, <2>4, <2>5 DEF Ground
<1>6. CASE UNCHANGED paintVars
  BY <1>6 DEF paintVars, PaintTypes, Stands, Counted, Ground
<1>. QED
  BY <1>1, <1>2, <1>3, <1>4, <1>5, <1>6 DEF PaintNext, Iterate

(* NoIslands, for any number of artists, any canvas, any number of tries   *)
(* and of strokes: what an artist has painted hangs together with the      *)
(* place where main() put it, although pixels are painted over and the     *)
(* wrong mutex is given up; and paint() stops when the paint is used up.   *)
THEOREM SpecNoIslands ==
    ASSUME CanvasAssumption, OriginAssumption
    PROVE  PaintSpec => []NoIslands
<1>1. PaintInit => PaintIInv
  BY PaintStart
<1>2. PaintIInv /\ [PaintNext]_paintVars => PaintIInv'
  BY PaintStep
<1>3. PaintIInv => NoIslands
  <2>1. PaintIInv => HangsTogether
    BY DEF PaintIInv, Stands, Ground, Connected, HangsTogether
  <2>2. PaintIInv => PaintRunsOut
    BY DEF PaintIInv, PaintTypes, CanvasAssumption, Counted, PaintRunsOut
  <2>. QED
    BY <2>1, <2>2 DEF NoIslands
<1>. QED
  BY <1>1, <1>2, <1>3, PTL DEF PaintSpec

-----------------------------------------------------------------------------
(* The shell.                                                              *)

(* The three descriptors of a program, and nothing besides.                *)
PlainFds(fd) == DOMAIN fd = Fds /\ \A f \in Fds : f > 2 <=> fd[f] = None

(* These, and the two ends of a pipe.                                      *)
PipeFds(fd, p) ==
    /\ DOMAIN fd = Fds /\ DOMAIN p = {1, 2} /\ {p[1], p[2]} \subseteq Fds
    /\ p[1] > 2 /\ p[2] > 2 /\ p[1] # p[2]
    /\ \A f \in Fds : fd[f] = None <=> f > 2 /\ f \notin {p[1], p[2]}

PlainAt == {"cmd", "list", "exit", "wait1", "wait2", "src", "cat", "prompt", "waiting"}
PipeAt == {"left", "right", "close"}
ShellAt == {"prompt", "waiting"}

(* Process q, in a place with the descriptors and the command it needs.    *)
Fits(q, r) ==
    /\ DOMAIN r = {"at", "parent", "cmd", "fd", "n", "p"}
    /\ r.at \in {"unused", "zombie"} \cup PlainAt \cup PipeAt
    /\ r.at \in PlainAt => PlainFds(r.fd)
    /\ r.at \in PipeAt => PipeFds(r.fd, r.p)
    /\ r.at = "cmd" => r.cmd \in Trees
    /\ r.at = "left" => r.cmd.left \in Trees
    /\ r.at \in {"list", "left", "right"} => r.cmd.right \in Trees
    /\ r.at \in ShellAt => q = SH /\ r.fd = Std
    /\ r.parent \in Slots \cup {INIT}

(* The shell at its prompt has no child; while it waits it has one.        *)
ChildOf(c, q) == proc[c].at # "unused" /\ proc[c].parent = q
Kids ==
    /\ proc[SH].at = "prompt" => \A c \in Slots : ~ChildOf(c, SH)
    /\ proc[SH].at = "waiting" => \A c, d \in Slots : ChildOf(c, SH) /\ ChildOf(d, SH) => c = d

ShellIInv ==
    /\ DOMAIN proc = Slots
    /\ \A q \in Slots : Fits(q, proc[q])
    /\ Kids

LEMMA ShellConstants ==
    /\ NOFILE \in Nat /\ NPROC \in Nat /\ SH \in Slots /\ SH # INIT
    /\ {0, 1, 2} \subseteq Fds /\ Fds \subseteq Nat /\ Slots \subseteq Nat /\ INIT \notin Slots
  BY ShellAssumption DEF Fds, Slots, SH, INIT

LEMMA LowestIs ==
    ASSUME NEW S \in SUBSET Nat, S # {}
    PROVE  Min(S) \in S /\ \A y \in S : Min(S) <= y
<1> DEFINE R == {ss \in Nat \X Nat : ss[1] < ss[2]}
<1>1. IsWellFoundedOn(R, Nat)
  BY NatLessThanWellFounded, Zenon DEF OpToRel
<1>2. \A x, y \in Nat : x < y => <<x, y>> \in R
  OBVIOUS
<1> HIDE DEF R
<1>3. PICK x \in S : \A y \in S : ~(<<y, x>> \in R)
  BY <1>1, WFMin, Zenon
<1>4. ASSUME NEW y \in S  PROVE  x <= y
  <2>1. ~(y < x)
    BY <1>2, <1>3, Zenon
  <2>. QED
    BY <2>1
<1>. QED
  BY <1>4, Zenon DEF Min

-----------------------------------------------------------------------------
(* Descriptors.                                                            *)

(* Putting something into a table that has room.                           *)
LEMMA PutIs ==
    ASSUME NEW fd, DOMAIN fd = Fds, NEW o, Free(fd) # {}
    PROVE  /\ Lowest(fd) \in Free(fd) /\ \A f \in Free(fd) : Lowest(fd) <= f
           /\ DOMAIN Put(fd, o) = Fds /\ Put(fd, o)[Lowest(fd)] = o
           /\ \A f \in Fds : f # Lowest(fd) => Put(fd, o)[f] = fd[f]
<1>1. Free(fd) \subseteq Fds /\ Free(fd) \in SUBSET Nat
  BY ShellConstants DEF Free
<1>2. Min(Free(fd)) \in Free(fd) /\ \A f \in Free(fd) : Min(Free(fd)) <= f
  BY <1>1, LowestIs
<1>. QED
  BY <1>1, <1>2 DEF Put, Lowest

LEMMA CloseIs ==
    ASSUME NEW fd, DOMAIN fd = Fds, NEW f \in Fds
    PROVE  /\ DOMAIN Close(fd, f) = Fds /\ Close(fd, f)[f] = None
           /\ \A g \in Fds : g # f => Close(fd, f)[g] = fd[g]
  BY DEF Close

(* Descriptor 0 or 1, closed, is the lowest that is free.                  *)
LEMMA Replaced ==
    ASSUME NEW fd, DOMAIN fd = Fds, NEW f \in {0, 1}, NEW o,
           \A g \in Fds : g <= 2 => fd[g] # None
    PROVE  LET new == Put(Close(fd, f), o) IN
           DOMAIN new = Fds /\ new[f] = o /\ \A g \in Fds : g # f => new[g] = fd[g]
<1>. DEFINE cl == Close(fd, f)
<1>0. f \in Fds /\ f \in Nat
  BY ShellConstants
<1>1. DOMAIN cl = Fds /\ cl[f] = None /\ \A g \in Fds : g # f => cl[g] = fd[g]
  BY <1>0, CloseIs
<1>. HIDE DEF cl
<1>2. f \in Free(cl)
  BY <1>0, <1>1 DEF Free
<1>3. Lowest(cl) \in Free(cl) /\ Lowest(cl) <= f
  BY <1>1, <1>2, PutIs
<1>4. Lowest(cl) \in Fds /\ cl[Lowest(cl)] = None /\ Lowest(cl) \in Nat
  BY <1>3, ShellConstants DEF Free
<1>5. Lowest(cl) = f
  <2>1. Lowest(cl) <= 2
    BY <1>3, <1>4
  <2>. QED
    BY <1>1, <1>4, <2>1
<1>6. /\ DOMAIN Put(cl, o) = Fds /\ Put(cl, o)[Lowest(cl)] = o
      /\ \A g \in Fds : g # Lowest(cl) => Put(cl, o)[g] = cl[g]
  BY <1>1, <1>2, PutIs
<1>. QED
  BY <1>1, <1>5, <1>6 DEF cl

(* A redirected program has its three descriptors.                         *)
LEMMA RedirectedPlain ==
    ASSUME NEW fd, PlainFds(fd), NEW f \in {0, 1}, NEW name
    PROVE  PlainFds(Put(Close(fd, f), <<"file", name>>))
<1>. DEFINE new == Put(Close(fd, f), <<"file", name>>)
<1>1. \A g \in Fds : g <= 2 => fd[g] # None
  BY ShellConstants DEF PlainFds
<1>2. DOMAIN new = Fds /\ new[f] = <<"file", name>> /\ \A g \in Fds : g # f => new[g] = fd[g]
  BY <1>1, Replaced DEF PlainFds
<1>3. <<"file", name>> # None
  BY DEF None
<1>. HIDE DEF new
<1>4. PlainFds(new)
  BY <1>2, <1>3 DEF PlainFds
<1>. QED
  BY <1>4 DEF new

(* Closing both ends of the pipe leaves the three.                         *)
LEMMA ClosedPlain ==
    ASSUME NEW fd, NEW p, PipeFds(fd, p)
    PROVE  PlainFds(Close(Close(fd, p[1]), p[2]))
<1>. DEFINE one == Close(fd, p[1])
            two == Close(one, p[2])
<1>1. DOMAIN one = Fds /\ one[p[1]] = None /\ \A g \in Fds : g # p[1] => one[g] = fd[g]
  BY CloseIs DEF PipeFds
<1>. HIDE DEF one
<1>2. DOMAIN two = Fds /\ two[p[2]] = None /\ \A g \in Fds : g # p[2] => two[g] = one[g]
  BY <1>1, CloseIs DEF PipeFds
<1>. HIDE DEF two
<1>3. PlainFds(two)
  BY <1>1, <1>2, ShellConstants DEF PlainFds, PipeFds
<1>. QED
  BY <1>3 DEF one, two

(* A side of the pipeline: its end takes the place of 0 or 1.              *)
LEMMA SidePlain ==
    ASSUME NEW q, NEW f \in {0, 1}, PipeFds(proc[q].fd, proc[q].p),
           NEW end \in {proc[q].p[1], proc[q].p[2]}
    PROVE  PlainFds(Side(q, f, end))
<1>. DEFINE fd == proc[q].fd
            p == proc[q].p
            cl == Close(fd, f)
            new == Dup(cl, end)
<1>1. end \in Fds /\ end # f /\ f \in Fds /\ fd[end] # None
  <2>1. PICK b, c : b = p[1] /\ c = p[2]
    OBVIOUS
  <2>2. b \in Fds /\ c \in Fds /\ b > 2 /\ c > 2 /\ end \in {b, c}
    BY <2>1 DEF PipeFds
  <2>3. \A g \in Fds : fd[g] = None => g \notin {b, c}
    BY <2>1 DEF PipeFds
  <2>4. end # f /\ f \in Fds
    BY <2>2, ShellConstants
  <2>. HIDE DEF fd
  <2>. QED
    BY <2>2, <2>3, <2>4
<1>2. cl[end] = fd[end]
  <2>1. PICK o : o = fd /\ DOMAIN o = Fds
    BY DEF PipeFds
  <2>2. \A g \in Fds : g # f => Close(o, f)[g] = o[g]
    <3>1. f \in Fds
      BY <1>1
    <3>. HIDE DEF fd, cl, new, p
    <3>. QED
      BY <2>1, <3>1, CloseIs
  <2>3. cl[end] = o[end]
    BY <1>1, <2>1, <2>2
  <2>. QED
    BY <2>1, <2>3
<1>3. \A g \in Fds : g <= 2 => fd[g] # None
  BY ShellConstants DEF PipeFds
<1>4. new = Put(Close(fd, f), fd[end])
  BY <1>2 DEF Dup
<1>5. DOMAIN new = Fds /\ new[f] = fd[end] /\ \A g \in Fds : g # f => new[g] = fd[g]
  BY <1>3, <1>4, Replaced DEF PipeFds
<1>. HIDE DEF new
<1>6. PipeFds(new, p)
  BY <1>1, <1>5 DEF PipeFds
<1>7. PlainFds(Close(Close(new, p[1]), p[2]))
  BY <1>6, ClosedPlain
<1>. QED
  BY <1>7 DEF Side, new

(* pipe() takes two free descriptors.                                      *)
LEMMA PipeTakes ==
    ASSUME NEW fd, PlainFds(fd), NEW k, Free(fd) # {}, Cardinality(Free(fd)) >= 2
    PROVE  LET one == Put(fd, <<"r", k>>) IN
           PipeFds(Put(one, <<"w", k>>), <<Lowest(fd), Lowest(one)>>)
<1>. DEFINE one == Put(fd, <<"r", k>>)
            two == Put(one, <<"w", k>>)
<1>0. PICK a : a = Lowest(fd)
  OBVIOUS
<1>1. /\ a \in Free(fd) /\ DOMAIN one = Fds /\ one[a] = <<"r", k>>
      /\ \A f \in Fds : f # a => one[f] = fd[f]
  BY <1>0, PutIs DEF PlainFds
<1>. HIDE DEF one
<1>2. <<"r", k>> # None /\ <<"w", k>> # None
  BY DEF None
<1>3. Free(one) = Free(fd) \ {a}
  BY <1>1, <1>2 DEF Free
<1>4. Free(one) # {}
  <2>1. Free(fd) # {a}
    BY FS_Singleton
  <2>. QED
    BY <1>1, <1>3, <2>1
<1>5. PICK b : b = Lowest(one)
  OBVIOUS
<1>6. /\ b \in Free(one) /\ DOMAIN two = Fds /\ two[b] = <<"w", k>>
      /\ \A f \in Fds : f # b => two[f] = one[f]
  BY <1>1, <1>4, <1>5, PutIs
<1>. HIDE DEF two
<1>7. a \in Fds /\ b \in Fds /\ a # b /\ a > 2 /\ b > 2
  BY <1>1, <1>3, <1>6 DEF Free, PlainFds
<1>8. \A f \in Fds : two[f] = None <=> f > 2 /\ f \notin {a, b}
  <2>. SUFFICES ASSUME NEW f \in Fds  PROVE  two[f] = None <=> f > 2 /\ f \notin {a, b}
    OBVIOUS
  <2>1. CASE f = a \/ f = b
    BY <1>1, <1>2, <1>6, <1>7, <2>1
  <2>2. CASE f # a /\ f # b
    BY <1>1, <1>6, <2>2 DEF PlainFds
  <2>. QED
    BY <2>1, <2>2
<1>9. PipeFds(two, <<a, b>>)
  BY <1>6, <1>7, <1>8 DEF PipeFds
<1>. QED
  BY <1>0, <1>5, <1>9 DEF one, two

-----------------------------------------------------------------------------
(* Processes.                                                              *)

LEMMA FitsUnused == \A q \in Slots : Fits(q, Unused)
  BY DEF Fits, Unused, PlainAt, PipeAt, ShellAt

(* A process that goes on as it is at another place.                       *)
LEMMA FitsAt ==
    ASSUME NEW q \in Slots, Fits(q, proc[q]), NEW place
    PROVE  LET r == [proc[q] EXCEPT !.at = place] IN
           /\ DOMAIN r = {"at", "parent", "cmd", "fd", "n", "p"} /\ r.at = place
           /\ r.parent = proc[q].parent /\ r.cmd = proc[q].cmd /\ r.fd = proc[q].fd
           /\ r.n = proc[q].n /\ r.p = proc[q].p
  BY DEF Fits

(* A step that leaves every process with what it needs, and gives the      *)
(* shell no child and no wait.                                             *)
LEMMA KidsKept ==
    ASSUME ShellIInv, DOMAIN proc' = Slots, \A q \in Slots : Fits(q, proc'[q]),
           proc'[SH].at \in ShellAt =>
             /\ proc'[SH].at = proc[SH].at
             /\ \A c \in Slots : ChildOf(c, SH)' => ChildOf(c, SH)
    PROVE  ShellIInv'
<1>1. Kids'
  BY DEF ShellIInv, Kids, ShellAt
<1>. QED
  BY <1>1 DEF ShellIInv, Fits

(* One process goes on.                                                    *)
LEMMA OneGoesOn ==
    ASSUME ShellIInv, NEW q \in Slots, NEW r, Fits(q, r), r.at \notin ShellAt,
           r.parent = proc[q].parent, proc[q].at # "unused", proc' = [proc EXCEPT ![q] = r]
    PROVE  ShellIInv'
<1>1. DOMAIN proc' = Slots /\ proc'[q] = r /\ \A c \in Slots : c # q => proc'[c] = proc[c]
  BY DEF ShellIInv
<1>2. \A c \in Slots : Fits(c, proc'[c])
  BY <1>1 DEF ShellIInv
<1>3. \A c \in Slots : ChildOf(c, SH)' => ChildOf(c, SH)
  BY <1>1 DEF ChildOf
<1>4. proc'[SH].at \in ShellAt => proc'[SH].at = proc[SH].at
  BY <1>1, ShellConstants
<1>. QED
  BY <1>1, <1>2, <1>3, <1>4, KidsKept

(* exit()                                                                  *)
LEMMA ExitedKeeps ==
    ASSUME ShellIInv, NEW q \in Slots, proc[q].at # "unused", proc' = Exited(proc, q)
    PROVE  ShellIInv'
<1>1. DOMAIN proc' = Slots
  BY DEF Exited
<1>2. ASSUME NEW c \in Slots
      PROVE  /\ Fits(c, proc'[c])
             /\ proc'[c].at \in ShellAt => proc'[c].at = proc[c].at
             /\ ChildOf(c, SH)' => ChildOf(c, SH)
  <2>0. Fits(c, proc[c]) /\ Fits(c, Unused) /\ Unused.at = "unused"
    BY FitsUnused DEF ShellIInv, Unused
  <2>1. CASE proc'[c] = Unused
    BY <2>0, <2>1 DEF ShellAt, ChildOf
  <2>2. CASE proc'[c] = proc[c]
    BY <2>0, <2>2 DEF ChildOf
  <2>3. CASE c = q /\ proc'[c] = [proc[c] EXCEPT !.at = "zombie", !.fd = << >>]
    <3>1. PICK r : r = proc'[c]
      OBVIOUS
    <3>2. /\ DOMAIN r = {"at", "parent", "cmd", "fd", "n", "p"} /\ r.at = "zombie"
          /\ r.parent = proc[c].parent /\ c = q
      BY <2>0, <2>3, <3>1 DEF Fits
    <3>. QED
      BY <2>0, <3>1, <3>2 DEF Fits, PlainAt, PipeAt, ShellAt, ChildOf
  <2>4. CASE proc'[c] = [proc[c] EXCEPT !.parent = INIT]
    <3>1. PICK r : r = proc'[c]
      OBVIOUS
    <3>2. /\ DOMAIN r = {"at", "parent", "cmd", "fd", "n", "p"} /\ r.at = proc[c].at
          /\ r.parent = INIT /\ r.fd = proc[c].fd /\ r.cmd = proc[c].cmd /\ r.p = proc[c].p
      BY <2>0, <2>4, <3>1 DEF Fits
    <3>3. Fits(c, r)
      BY <2>0, <3>2 DEF Fits
    <3>. QED
      BY <3>1, <3>2, <3>3, ShellConstants DEF ChildOf
  <2>5. \/ proc'[c] = Unused \/ proc'[c] = proc[c]
        \/ c = q /\ proc'[c] = [proc[c] EXCEPT !.at = "zombie", !.fd = << >>]
        \/ proc'[c] = [proc[c] EXCEPT !.parent = INIT]
    BY DEF Exited
  <2>. QED
    BY <2>1, <2>2, <2>3, <2>4, <2>5
<1>. QED
  BY <1>1, <1>2, KidsKept, ShellConstants

(* wait() takes a zombie away.                                             *)
LEMMA ReapedKeeps ==
    ASSUME ShellIInv, NEW q \in Slots, NEW c \in Slots, NEW r, Fits(q, r), r.at \notin ShellAt,
           r.parent = proc[q].parent, proc[q].at \notin {"unused", "zombie"},
           proc[c].at = "zombie", DOMAIN proc' = Slots, proc'[c] = Unused, proc'[q] = r,
           \A d \in Slots : d # c /\ d # q => proc'[d] = proc[d]
    PROVE  ShellIInv'
<1>0. c # q /\ Unused.at = "unused" /\ "unused" \notin ShellAt
  BY DEF Unused, ShellAt
<1>2. \A d \in Slots : Fits(d, proc'[d])
  BY FitsUnused DEF ShellIInv
<1>3. \A d \in Slots : ChildOf(d, SH)' => ChildOf(d, SH)
  BY <1>0 DEF ChildOf
<1>4. proc'[SH].at \in ShellAt => proc'[SH].at = proc[SH].at
  BY <1>0, ShellConstants
<1>. QED
  BY <1>2, <1>3, <1>4, KidsKept

(* A process that waits, somewhere in a pipeline.                          *)
LEMMA WaitsKeeps ==
    ASSUME ShellIInv, NEW q \in Slots, NEW place \in {"wait2", "exit"}, Waits(q, place),
           proc[q].at \in {"wait1", "wait2"}
    PROVE  ShellIInv'
<1>1. PICK r : r = [proc[q] EXCEPT !.at = place]
  OBVIOUS
<1>2. /\ DOMAIN r = {"at", "parent", "cmd", "fd", "n", "p"} /\ r.at = place
      /\ r.parent = proc[q].parent /\ r.fd = proc[q].fd
  BY <1>1, FitsAt DEF ShellIInv
<1>3. Fits(q, r) /\ r.at \notin ShellAt
  BY <1>2 DEF ShellIInv, Fits, PlainAt, PipeAt, ShellAt
<1>4. CASE Children(q) = {}
  <2>1. proc' = [proc EXCEPT ![q] = r]
    BY <1>1, <1>4 DEF Waits, Goes
  <2>. QED
    BY <1>2, <1>3, <2>1, OneGoesOn
<1>5. CASE Children(q) # {}
  <2>1. PICK c \in Zombies(q) : proc' = [proc EXCEPT ![c] = Unused, ![q].at = place]
    BY <1>5 DEF Waits
  <2>2. c \in Slots /\ proc[c].at = "zombie" /\ c # q
    BY <2>1 DEF Zombies, Children
  <2>3. /\ DOMAIN proc' = Slots /\ proc'[c] = Unused /\ proc'[q] = r
        /\ \A d \in Slots : d # c /\ d # q => proc'[d] = proc[d]
    BY <1>1, <2>1, <2>2 DEF ShellIInv
  <2>. QED
    BY <1>2, <1>3, <2>2, <2>3, ReapedKeeps
<1>. QED
  BY <1>4, <1>5

(* The child fork1() makes.                                                *)
LEMMA ForkMakes ==
    ASSUME ShellIInv, NEW q \in Slots, proc[q].at # "unused", NEW cmd \in Trees,
           NEW fd, PlainFds(fd), NEW place, Fork1(q, cmd, fd, place), proc' # Exited(proc, q)
    PROVE  \E m \in Slots :
             /\ m # q /\ proc[m].at = "unused" /\ DOMAIN proc' = Slots
             /\ proc'[q] = [proc[q] EXCEPT !.at = place]
             /\ Fits(m, proc'[m]) /\ proc'[m].at = "cmd" /\ proc'[m].parent = q
             /\ \A d \in Slots : d # q /\ d # m => proc'[d] = proc[d]
<1>. DEFINE free == {c \in Slots : proc[c].at = "unused"}
<1>1. PICK m : m = Min(free)
  OBVIOUS
<1>2. PICK r : r = [Unused EXCEPT !.at = "cmd", !.parent = q, !.cmd = cmd, !.fd = fd]
  OBVIOUS
<1>3. free # {} /\ proc' = [proc EXCEPT ![q].at = place, ![m] = r]
  BY <1>1, <1>2 DEF Fork1
<1>4. m \in Slots /\ proc[m].at = "unused"
  <2>1. free \in SUBSET Nat
    BY ShellConstants
  <2>. HIDE DEF free
  <2>2. m \in free
    BY <1>1, <1>3, <2>1, LowestIs
  <2>. QED
    BY <2>2 DEF free
<1>5. Fits(m, r) /\ r.at = "cmd" /\ r.parent = q
  <2>1. /\ DOMAIN r = {"at", "parent", "cmd", "fd", "n", "p"} /\ r.at = "cmd" /\ r.parent = q
        /\ r.cmd = cmd /\ r.fd = fd
    BY <1>2 DEF Unused
  <2>. QED
    BY <2>1 DEF Fits, PlainAt, PipeAt, ShellAt
<1>. QED
  BY <1>3, <1>4, <1>5 DEF ShellIInv

(* fork1() of a command in the line.                                       *)
LEMMA ForkKeeps ==
    ASSUME ShellIInv, NEW q \in Slots, proc[q].at # "unused", NEW cmd \in Trees,
           NEW fd, PlainFds(fd), NEW place, place \notin ShellAt,
           Fits(q, [proc[q] EXCEPT !.at = place]), Fork1(q, cmd, fd, place)
    PROVE  ShellIInv'
<1>1. CASE proc' = Exited(proc, q)
  BY <1>1, ExitedKeeps
<1>2. CASE proc' # Exited(proc, q)
  <2>1. PICK m \in Slots :
             /\ m # q /\ proc[m].at = "unused" /\ DOMAIN proc' = Slots
             /\ proc'[q] = [proc[q] EXCEPT !.at = place]
             /\ Fits(m, proc'[m]) /\ proc'[m].at = "cmd" /\ proc'[m].parent = q
             /\ \A d \in Slots : d # q /\ d # m => proc'[d] = proc[d]
    BY <1>2, ForkMakes
  <2>2. proc'[q].at = place /\ proc'[q].parent = proc[q].parent
    BY <2>1, FitsAt DEF ShellIInv
  <2>3. \A d \in Slots : Fits(d, proc'[d])
    BY <2>1 DEF ShellIInv
  <2>4. proc'[SH].at \in ShellAt =>
          proc'[SH].at = proc[SH].at /\ \A d \in Slots : ChildOf(d, SH)' => ChildOf(d, SH)
    <3>1. CASE SH = q
      BY <2>2, <3>1
    <3>2. CASE SH # q
      BY <2>1, <2>2, <3>2, ShellConstants DEF ChildOf, ShellAt
    <3>. QED
      BY <3>1, <3>2
  <2>. QED
    BY <2>1, <2>3, <2>4, KidsKept
<1>. QED
  BY <1>1, <1>2

-----------------------------------------------------------------------------
(* The steps of the shell and of the processes.                            *)

LEMMA ShellStart == ShellInit => ShellIInv
<1>. SUFFICES ASSUME ShellInit  PROVE  ShellIInv
  OBVIOUS
<1>1. PlainFds(Std)
  BY ShellConstants DEF PlainFds, Std, Cons, None
<1>2. PICK r : r = [Unused EXCEPT !.at = "prompt", !.fd = Std]
  OBVIOUS
<1>3. /\ DOMAIN r = {"at", "parent", "cmd", "fd", "n", "p"} /\ r.at = "prompt"
      /\ r.parent = INIT /\ r.fd = Std
  BY <1>2 DEF Unused
<1>4. Fits(SH, r)
  BY <1>1, <1>3 DEF Fits, PlainAt, PipeAt, ShellAt
<1>5. proc = [q \in Slots |-> IF q = SH THEN r ELSE Unused]
  BY <1>2 DEF ShellInit
<1>6. \A q \in Slots : Fits(q, proc[q])
  BY <1>4, <1>5, FitsUnused, ShellConstants
<1>7. \A c \in Slots : ~ChildOf(c, SH)
  BY <1>3, <1>5, ShellConstants DEF ChildOf, Unused
<1>. QED
  BY <1>5, <1>6, <1>7 DEF ShellIInv, Kids

LEMMA TypeLineKeeps ==
    ASSUME ShellIInv, NEW cmd \in Commands, TypeLine(cmd)
    PROVE  ShellIInv'
<1>0. /\ SH \in Slots /\ cmd \in Trees /\ proc[SH].at = "prompt" /\ proc[SH].at # "unused"
      /\ Fork1(SH, cmd, proc[SH].fd, "waiting") /\ Fits(SH, proc[SH])
  BY ShellConstants, ShellAssumption DEF TypeLine, ShellIInv
<1>9. PlainFds(proc[SH].fd)
  BY <1>0 DEF Fits, PlainAt
<1>1. CASE proc' = Exited(proc, SH)
  BY <1>0, <1>1, ExitedKeeps
<1>2. CASE proc' # Exited(proc, SH)
  <2>1. PICK m \in Slots :
             /\ m # SH /\ proc[m].at = "unused" /\ DOMAIN proc' = Slots
             /\ proc'[SH] = [proc[SH] EXCEPT !.at = "waiting"]
             /\ Fits(m, proc'[m]) /\ proc'[m].at = "cmd" /\ proc'[m].parent = SH
             /\ \A d \in Slots : d # SH /\ d # m => proc'[d] = proc[d]
    BY <1>0, <1>2, <1>9, ForkMakes
  <2>2. PICK w : w = proc'[SH]
    OBVIOUS
  <2>3. /\ DOMAIN w = {"at", "parent", "cmd", "fd", "n", "p"} /\ w.at = "waiting"
        /\ w.parent = proc[SH].parent /\ w.fd = proc[SH].fd
    BY <1>0, <2>1, <2>2, FitsAt
  <2>4. Fits(SH, w)
    BY <1>0, <2>3 DEF Fits, PlainAt, PipeAt, ShellAt
  <2>5. \A d \in Slots : Fits(d, proc'[d])
    BY <2>1, <2>2, <2>4 DEF ShellIInv
  <2>6. \A d \in Slots : ChildOf(d, SH)' => d = m
    <3>1. \A d \in Slots : ~ChildOf(d, SH)
      BY <1>0 DEF ShellIInv, Kids
    <3>. QED
      BY <1>0, <2>1, <2>2, <2>3, <3>1 DEF ChildOf
  <2>7. Kids'
    BY <2>2, <2>3, <2>6 DEF Kids
  <2>. QED
    BY <2>1, <2>5, <2>7 DEF ShellIInv, Fits
<1>. QED
  BY <1>1, <1>2

LEMMA PromptKeeps ==
    ASSUME ShellIInv, Prompt
    PROVE  ShellIInv'
<1>0. SH \in Slots /\ proc[SH].at = "waiting" /\ Waits(SH, "prompt") /\ Fits(SH, proc[SH])
  BY ShellConstants DEF Prompt, ShellIInv
<1>1. PICK r : r = [proc[SH] EXCEPT !.at = "prompt"]
  OBVIOUS
<1>2. /\ DOMAIN r = {"at", "parent", "cmd", "fd", "n", "p"} /\ r.at = "prompt"
      /\ r.parent = proc[SH].parent /\ r.fd = proc[SH].fd
  BY <1>0, <1>1, FitsAt
<1>3. Fits(SH, r)
  BY <1>0, <1>2 DEF Fits, PlainAt, PipeAt, ShellAt
<1>4. ASSUME DOMAIN proc' = Slots, proc'[SH] = r,
             \A d \in Slots : Fits(d, proc'[d]) /\ ~ChildOf(d, SH)'
      PROVE  ShellIInv'
  BY <1>2, <1>4 DEF ShellIInv, Kids, Fits
<1>5. CASE Children(SH) = {}
  <2>1. /\ DOMAIN proc' = Slots /\ proc'[SH] = r
        /\ \A d \in Slots : d # SH => proc'[d] = proc[d]
    BY <1>0, <1>1, <1>5 DEF Waits, Goes, ShellIInv
  <2>2. \A d \in Slots : ~ChildOf(d, SH)
    BY <1>5 DEF Children, ChildOf
  <2>3. \A d \in Slots : ~ChildOf(d, SH)'
    BY <1>0, <1>2, <2>1, <2>2 DEF ChildOf
  <2>. QED
    BY <1>3, <1>4, <2>1, <2>3 DEF ShellIInv
<1>6. CASE Children(SH) # {}
  <2>1. PICK c \in Zombies(SH) : proc' = [proc EXCEPT ![c] = Unused, ![SH].at = "prompt"]
    BY <1>0, <1>6 DEF Waits
  <2>2. c \in Slots /\ proc[c].at = "zombie" /\ c # SH /\ ChildOf(c, SH)
    BY <1>0, <2>1 DEF Zombies, Children, ChildOf
  <2>3. /\ DOMAIN proc' = Slots /\ proc'[c] = Unused /\ proc'[SH] = r
        /\ \A d \in Slots : d # c /\ d # SH => proc'[d] = proc[d]
    BY <1>0, <1>1, <2>1, <2>2 DEF ShellIInv
  <2>4. \A d \in Slots : ChildOf(d, SH) => d = c
    BY <1>0, <2>2 DEF ShellIInv, Kids
  <2>5. Unused.at = "unused"
    BY DEF Unused
  <2>6. \A d \in Slots : ~ChildOf(d, SH)'
    BY <1>0, <1>2, <2>2, <2>3, <2>4, <2>5 DEF ChildOf
  <2>7. \A d \in Slots : Fits(d, proc'[d])
    BY <1>3, <2>3, FitsUnused DEF ShellIInv
  <2>. QED
    BY <1>4, <2>3, <2>6, <2>7
<1>. QED
  BY <1>5, <1>6

LEMMA ExecKeeps ==
    ASSUME ShellIInv, NEW q \in Slots, Exec(q)
    PROVE  ShellIInv'
<1>0. Fits(q, proc[q]) /\ proc[q].at = "cmd" /\ proc[q].cmd \in Trees /\ proc[q].cmd.type = "EXEC"
  BY DEF Exec, Is, ShellIInv, Fits
<1>1. CASE proc' = Exited(proc, q)
  BY <1>0, <1>1, ExitedKeeps
<1>2. CASE proc' # Exited(proc, q)
  <2>1. PICK place : place = proc[q].cmd.argv[1]
    OBVIOUS
  <2>2. PICK r : r = [proc[q] EXCEPT !.at = place]
    OBVIOUS
  <2>3. /\ proc[q].cmd.argv # << >> /\ place # "missing"
        /\ proc' = [proc EXCEPT ![q] = r]
    BY <1>2, <2>1, <2>2 DEF Exec, Cmd
  <2>4. place \in {"src", "cat"}
    BY <1>0, <2>1, <2>3, ShellAssumption
  <2>5. /\ DOMAIN r = {"at", "parent", "cmd", "fd", "n", "p"} /\ r.at = place
        /\ r.parent = proc[q].parent /\ r.fd = proc[q].fd
    BY <1>0, <2>2, FitsAt
  <2>6. Fits(q, r) /\ r.at \notin ShellAt
    BY <1>0, <2>4, <2>5 DEF Fits, PlainAt, PipeAt, ShellAt
  <2>. QED
    BY <1>0, <2>3, <2>5, <2>6, OneGoesOn
<1>. QED
  BY <1>1, <1>2

(* A process that goes on with a part of its command.                      *)
LEMMA FitsRuns ==
    ASSUME NEW q \in Slots, Fits(q, proc[q]), NEW cmd \in Trees, NEW fd, PlainFds(fd)
    PROVE  /\ Fits(q, RunsCmd(q, cmd, fd)) /\ RunsCmd(q, cmd, fd).at \notin ShellAt
           /\ RunsCmd(q, cmd, fd).parent = proc[q].parent
<1>. DEFINE r == RunsCmd(q, cmd, fd)
<1>1. /\ DOMAIN r = {"at", "parent", "cmd", "fd", "n", "p"} /\ r.at = "cmd"
      /\ r.parent = proc[q].parent /\ r.cmd = cmd /\ r.fd = fd
  BY DEF RunsCmd, Fits
<1>. HIDE DEF r
<1>2. Fits(q, r) /\ r.at \notin ShellAt
  BY <1>1 DEF Fits, PlainAt, PipeAt, ShellAt
<1>. QED
  BY <1>1, <1>2 DEF r

LEMMA RedirectKeeps ==
    ASSUME ShellIInv, NEW q \in Slots, Redirect(q)
    PROVE  ShellIInv'
<1>0. Fits(q, proc[q]) /\ proc[q].at = "cmd" /\ proc[q].cmd \in Trees /\ proc[q].cmd.type = "REDIR"
  BY DEF Redirect, Is, ShellIInv, Fits
<1>1. CASE proc' = Exited(proc, q)
  BY <1>0, <1>1, ExitedKeeps
<1>2. CASE proc' # Exited(proc, q)
  <2>1. PICK f : f = proc[q].cmd.fd
    OBVIOUS
  <2>2. PICK fd : fd = Put(Close(proc[q].fd, f), <<"file", proc[q].cmd.file>>)
    OBVIOUS
  <2>3. proc' = [proc EXCEPT ![q] = RunsCmd(q, proc[q].cmd.cmd, fd)]
    BY <1>2, <2>1, <2>2 DEF Redirect, Cmd
  <2>4. f \in {0, 1} /\ proc[q].cmd.cmd \in Trees
    BY <1>0, <2>1, ShellAssumption
  <2>5. PlainFds(fd)
    BY <1>0, <2>2, <2>4, RedirectedPlain DEF Fits, PlainAt
  <2>6. PICK r : r = RunsCmd(q, proc[q].cmd.cmd, fd)
    OBVIOUS
  <2>7. Fits(q, r) /\ r.at \notin ShellAt /\ r.parent = proc[q].parent
    BY <1>0, <2>4, <2>5, <2>6, FitsRuns
  <2>. QED
    BY <1>0, <2>3, <2>6, <2>7, OneGoesOn
<1>. QED
  BY <1>1, <1>2

LEMMA ListKeeps ==
    ASSUME ShellIInv, NEW q \in Slots, List(q)
    PROVE  ShellIInv'
<1>0. /\ Fits(q, proc[q]) /\ proc[q].at = "cmd" /\ proc[q].cmd \in Trees
      /\ proc[q].cmd.type = "LIST"
  BY DEF List, Is, ShellIInv, Fits
<1>1. proc[q].cmd.left \in Trees /\ proc[q].cmd.right \in Trees
  BY <1>0, ShellAssumption
<1>2. PlainFds(proc[q].fd)
  BY <1>0 DEF Fits, PlainAt
<1>3. PICK r : r = [proc[q] EXCEPT !.at = "list"]
  OBVIOUS
<1>4. /\ DOMAIN r = {"at", "parent", "cmd", "fd", "n", "p"} /\ r.at = "list"
      /\ r.parent = proc[q].parent /\ r.fd = proc[q].fd /\ r.cmd = proc[q].cmd
  BY <1>0, <1>3, FitsAt
<1>5. Fits(q, r) /\ "list" \notin ShellAt
  BY <1>0, <1>1, <1>2, <1>4 DEF Fits, PlainAt, PipeAt, ShellAt
<1>. QED
  BY <1>0, <1>1, <1>2, <1>3, <1>5, ForkKeeps DEF List, Cmd

LEMMA BackKeeps ==
    ASSUME ShellIInv, NEW q \in Slots, Back(q)
    PROVE  ShellIInv'
<1>0. /\ Fits(q, proc[q]) /\ proc[q].at = "cmd" /\ proc[q].cmd \in Trees
      /\ proc[q].cmd.type = "BACK"
  BY DEF Back, Is, ShellIInv, Fits
<1>1. proc[q].cmd.cmd \in Trees
  BY <1>0, ShellAssumption
<1>2. PlainFds(proc[q].fd)
  BY <1>0 DEF Fits, PlainAt
<1>3. PICK r : r = [proc[q] EXCEPT !.at = "exit"]
  OBVIOUS
<1>4. /\ DOMAIN r = {"at", "parent", "cmd", "fd", "n", "p"} /\ r.at = "exit"
      /\ r.parent = proc[q].parent /\ r.fd = proc[q].fd
  BY <1>0, <1>3, FitsAt
<1>5. Fits(q, r) /\ "exit" \notin ShellAt
  BY <1>0, <1>2, <1>4 DEF Fits, PlainAt, PipeAt, ShellAt
<1>. QED
  BY <1>0, <1>1, <1>2, <1>3, <1>5, ForkKeeps DEF Back, Cmd

LEMMA ListWaitKeeps ==
    ASSUME ShellIInv, NEW q \in Slots, ListWait(q)
    PROVE  ShellIInv'
<1>0. Fits(q, proc[q]) /\ proc[q].at = "list"
  BY DEF ListWait, ShellIInv
<1>1. proc[q].cmd.right \in Trees /\ PlainFds(proc[q].fd)
  BY <1>0 DEF Fits, PlainAt
<1>2. PICK r : r = RunsCmd(q, proc[q].cmd.right, proc[q].fd)
  OBVIOUS
<1>3. Fits(q, r) /\ r.at \notin ShellAt /\ r.parent = proc[q].parent
  BY <1>0, <1>1, <1>2, FitsRuns
<1>4. PICK c \in Zombies(q) : proc' =
         [proc EXCEPT ![c] = Unused, ![q] = RunsCmd(q, Cmd(q).right, @.fd)]
  BY DEF ListWait
<1>5. c \in Slots /\ proc[c].at = "zombie" /\ c # q
  BY <1>0, <1>4 DEF Zombies, Children
<1>6. /\ DOMAIN proc' = Slots /\ proc'[c] = Unused /\ proc'[q] = r
      /\ \A d \in Slots : d # c /\ d # q => proc'[d] = proc[d]
  BY <1>2, <1>4, <1>5 DEF ShellIInv, Cmd
<1>. QED
  BY <1>0, <1>3, <1>5, <1>6, ReapedKeeps

LEMMA CmdExitKeeps ==
    ASSUME ShellIInv, NEW q \in Slots, CmdExit(q)
    PROVE  ShellIInv'
  BY ExitedKeeps DEF CmdExit

LEMMA PipeKeeps ==
    ASSUME ShellIInv, NEW q \in Slots, Pipe(q)
    PROVE  ShellIInv'
<1>0. /\ Fits(q, proc[q]) /\ proc[q].at = "cmd" /\ proc[q].cmd \in Trees
      /\ proc[q].cmd.type = "PIPE"
  BY DEF Pipe, Is, ShellIInv, Fits
<1>1. proc[q].cmd.left \in Trees /\ proc[q].cmd.right \in Trees
  BY <1>0, ShellAssumption
<1>2. PlainFds(proc[q].fd)
  BY <1>0 DEF Fits, PlainAt
<1>3. CASE proc' = Exited(proc, q)
  BY <1>0, <1>3, ExitedKeeps
<1>4. CASE proc' # Exited(proc, q)
  <2>1. PICK old : old = proc[q].fd
    OBVIOUS
  <2>2. PICK k : /\ ~(Cardinality(Free(old)) < 2)
                 /\ proc' = [proc EXCEPT ![q].at = "left",
                      ![q].p = <<Lowest(old), Lowest(Put(old, <<"r", k>>))>>,
                      ![q].fd = Put(Put(old, <<"r", k>>), <<"w", k>>)]
    BY <1>4, <2>1 DEF Pipe
  <2>3. Cardinality(Free(old)) >= 2 /\ Free(old) # {}
    <3>1. Free(old) \subseteq Fds /\ IsFiniteSet(Fds)
      BY ShellConstants, FS_Interval DEF Free, Fds
    <3>2. IsFiniteSet(Free(old))
      BY <3>1, FS_Subset
    <3>3. Cardinality(Free(old)) \in Nat
      BY <3>2, FS_CardinalityType
    <3>4. PICK n \in Nat : n = Cardinality(Free(old))
      BY <3>3
    <3>5. ~(n < 2) /\ n >= 2 /\ n # 0
      BY <2>2, <3>4
    <3>6. Cardinality({}) = 0
      BY FS_EmptySet, Zenon
    <3>7. Free(old) # {}
      BY <3>4, <3>5, <3>6, Zenon
    <3>. QED
      BY <3>4, <3>5, <3>7
  <2>4. PICK p : p = <<Lowest(old), Lowest(Put(old, <<"r", k>>))>>
    OBVIOUS
  <2>5. PICK fd : fd = Put(Put(old, <<"r", k>>), <<"w", k>>)
    OBVIOUS
  <2>6. PipeFds(fd, p)
    BY <1>2, <2>1, <2>3, <2>4, <2>5, PipeTakes
  <2>7. PICK r : r = [[[proc[q] EXCEPT !.at = "left"] EXCEPT !.p = p] EXCEPT !.fd = fd]
    OBVIOUS
  <2>8. proc' = [proc EXCEPT ![q] = r]
    <3>1. proc' = [proc EXCEPT ![q].at = "left", ![q].p = p, ![q].fd = fd]
      BY <2>2, <2>4, <2>5
    <3>. QED
      BY <2>7, <3>1 DEF ShellIInv
  <2>9. /\ DOMAIN r = {"at", "parent", "cmd", "fd", "n", "p"} /\ r.at = "left"
        /\ r.parent = proc[q].parent /\ r.cmd = proc[q].cmd /\ r.p = p /\ r.fd = fd
    BY <1>0, <2>7 DEF Fits
  <2>10. Fits(q, r) /\ r.at \notin ShellAt
    BY <1>0, <1>1, <2>6, <2>9 DEF Fits, PlainAt, PipeAt, ShellAt
  <2>. QED
    BY <1>0, <2>8, <2>9, <2>10, OneGoesOn
<1>. QED
  BY <1>3, <1>4

LEMMA LeftKeeps ==
    ASSUME ShellIInv, NEW q \in Slots, Left(q)
    PROVE  ShellIInv'
<1>0. Fits(q, proc[q]) /\ proc[q].at = "left"
  BY DEF Left, ShellIInv
<1>1. /\ proc[q].cmd.left \in Trees /\ proc[q].cmd.right \in Trees
      /\ PipeFds(proc[q].fd, proc[q].p)
  BY <1>0 DEF Fits, PipeAt
<1>2. PlainFds(Side(q, 1, proc[q].p[2]))
  BY <1>1, SidePlain
<1>3. PICK r : r = [proc[q] EXCEPT !.at = "right"]
  OBVIOUS
<1>4. /\ DOMAIN r = {"at", "parent", "cmd", "fd", "n", "p"} /\ r.at = "right"
      /\ r.parent = proc[q].parent /\ r.fd = proc[q].fd /\ r.cmd = proc[q].cmd
      /\ r.p = proc[q].p
  BY <1>0, <1>3, FitsAt
<1>5. Fits(q, r) /\ "right" \notin ShellAt
  BY <1>0, <1>1, <1>4 DEF Fits, PlainAt, PipeAt, ShellAt
<1>. QED
  BY <1>0, <1>1, <1>2, <1>3, <1>5, ForkKeeps DEF Left, Cmd

LEMMA RightKeeps ==
    ASSUME ShellIInv, NEW q \in Slots, Right(q)
    PROVE  ShellIInv'
<1>0. Fits(q, proc[q]) /\ proc[q].at = "right"
  BY DEF Right, ShellIInv
<1>1. proc[q].cmd.right \in Trees /\ PipeFds(proc[q].fd, proc[q].p)
  BY <1>0 DEF Fits, PipeAt
<1>2. PlainFds(Side(q, 0, proc[q].p[1]))
  BY <1>1, SidePlain
<1>3. PICK r : r = [proc[q] EXCEPT !.at = "close"]
  OBVIOUS
<1>4. /\ DOMAIN r = {"at", "parent", "cmd", "fd", "n", "p"} /\ r.at = "close"
      /\ r.parent = proc[q].parent /\ r.fd = proc[q].fd /\ r.p = proc[q].p
  BY <1>0, <1>3, FitsAt
<1>5. Fits(q, r) /\ "close" \notin ShellAt
  BY <1>0, <1>1, <1>4 DEF Fits, PlainAt, PipeAt, ShellAt
<1>. QED
  BY <1>0, <1>1, <1>2, <1>3, <1>5, ForkKeeps DEF Right, Cmd

LEMMA CloseBothKeeps ==
    ASSUME ShellIInv, NEW q \in Slots, CloseBoth(q)
    PROVE  ShellIInv'
<1>0. Fits(q, proc[q]) /\ proc[q].at = "close"
  BY DEF CloseBoth, ShellIInv
<1>1. PICK fd : fd = Closed(q)
  OBVIOUS
<1>2. PlainFds(fd)
  BY <1>0, <1>1, ClosedPlain DEF Fits, PipeAt, Closed
<1>3. PICK r : r = [[proc[q] EXCEPT !.at = "wait1"] EXCEPT !.fd = fd]
  OBVIOUS
<1>4. proc' = [proc EXCEPT ![q] = r]
  <2>1. proc' = [proc EXCEPT ![q].at = "wait1", ![q].fd = fd]
    BY <1>1 DEF CloseBoth
  <2>. QED
    BY <1>3, <2>1 DEF ShellIInv
<1>5. /\ DOMAIN r = {"at", "parent", "cmd", "fd", "n", "p"} /\ r.at = "wait1"
      /\ r.parent = proc[q].parent /\ r.fd = fd
  BY <1>0, <1>3 DEF Fits
<1>6. Fits(q, r) /\ r.at \notin ShellAt
  BY <1>0, <1>2, <1>5 DEF Fits, PlainAt, PipeAt, ShellAt
<1>. QED
  BY <1>0, <1>4, <1>5, <1>6, OneGoesOn

LEMMA PipeWaitKeeps ==
    ASSUME ShellIInv, NEW q \in Slots, PipeWait(q)
    PROVE  ShellIInv'
  BY WaitsKeeps DEF PipeWait

(* A program reads or writes: only what it has read changes.               *)
LEMMA CountsKeeps ==
    ASSUME ShellIInv, NEW q \in Slots, proc[q].at \in {"src", "cat"}, NEW n,
           proc' = [proc EXCEPT ![q].n = n]
    PROVE  ShellIInv'
<1>0. Fits(q, proc[q])
  BY DEF ShellIInv
<1>1. PICK r : r = [proc[q] EXCEPT !.n = n]
  OBVIOUS
<1>2. proc' = [proc EXCEPT ![q] = r]
  BY <1>1 DEF ShellIInv
<1>3. /\ DOMAIN r = {"at", "parent", "cmd", "fd", "n", "p"} /\ r.at = proc[q].at
      /\ r.parent = proc[q].parent /\ r.fd = proc[q].fd
  BY <1>0, <1>1 DEF Fits
<1>4. Fits(q, r) /\ r.at \notin ShellAt
  BY <1>0, <1>3 DEF Fits, PlainAt, PipeAt, ShellAt
<1>. QED
  BY <1>2, <1>3, <1>4, OneGoesOn

LEMMA WriteKeeps ==
    ASSUME ShellIInv, NEW q \in Slots, Write(q)
    PROVE  ShellIInv'
<1>0. proc[q].at \in {"src", "cat"}
  BY DEF Write
<1>1. CASE proc' = Exited(proc, q)
  BY <1>0, <1>1, ExitedKeeps
<1>2. CASE proc' # Exited(proc, q)
  <2>1. proc' = [proc EXCEPT ![q].n = IF proc[q].at = "cat" THEN 0 ELSE @ + 1]
    BY <1>2 DEF Write
  <2>2. PICK n : n = IF proc[q].at = "cat" THEN 0 ELSE proc[q].n + 1
    OBVIOUS
  <2>3. proc' = [proc EXCEPT ![q].n = n]
    BY <2>1, <2>2
  <2>. QED
    BY <1>0, <2>3, CountsKeeps
<1>. QED
  BY <1>1, <1>2

LEMMA ReadKeeps ==
    ASSUME ShellIInv, NEW q \in Slots, Read(q)
    PROVE  ShellIInv'
<1>1. proc[q].at \in {"src", "cat"} /\ proc' = [proc EXCEPT ![q].n = 1]
  BY DEF Read
<1>. QED
  BY <1>1, CountsKeeps

LEMMA EndsKeeps ==
    ASSUME ShellIInv, NEW q \in Slots, Ends(q)
    PROVE  ShellIInv'
<1>1. proc[q].at # "unused" /\ proc' = Exited(proc, q)
  BY DEF Ends
<1>. QED
  BY <1>1, ExitedKeeps

LEMMA ShellKeeps == ShellIInv /\ [ShellNext]_shellVars => ShellIInv'
<1>. SUFFICES ASSUME ShellIInv, [ShellNext]_shellVars  PROVE  ShellIInv'
  OBVIOUS
<1>1. CASE \E cmd \in Commands : TypeLine(cmd)
  BY <1>1, TypeLineKeeps
<1>2. CASE Prompt
  BY <1>2, PromptKeeps
<1>3. ASSUME NEW q \in Slots, ShellStep(q)  PROVE  ShellIInv'
  <2>1. CASE Exec(q)
    BY <2>1, ExecKeeps
  <2>2. CASE Redirect(q)
    BY <2>2, RedirectKeeps
  <2>3. CASE List(q)
    BY <2>3, ListKeeps
  <2>4. CASE ListWait(q)
    BY <2>4, ListWaitKeeps
  <2>5. CASE Back(q)
    BY <2>5, BackKeeps
  <2>6. CASE CmdExit(q)
    BY <2>6, CmdExitKeeps
  <2>7. CASE Pipe(q)
    BY <2>7, PipeKeeps
  <2>8. CASE Left(q)
    BY <2>8, LeftKeeps
  <2>9. CASE Right(q)
    BY <2>9, RightKeeps
  <2>10. CASE CloseBoth(q)
    BY <2>10, CloseBothKeeps
  <2>11. CASE PipeWait(q)
    BY <2>11, PipeWaitKeeps
  <2>12. CASE Write(q)
    BY <2>12, WriteKeeps
  <2>13. CASE Read(q)
    BY <2>13, ReadKeeps
  <2>14. CASE Ends(q)
    BY <2>14, EndsKeeps
  <2>. QED
    BY <1>3, <2>1, <2>2, <2>3, <2>4, <2>5, <2>6, <2>7, <2>8, <2>9, <2>10, <2>11, <2>12, <2>13,
       <2>14 DEF ShellStep
<1>4. CASE UNCHANGED shellVars
  <2>1. proc' = proc
    BY <1>4 DEF shellVars
  <2>. QED
    BY <2>1 DEF ShellIInv, Kids, ChildOf, Fits
<1>. QED
  BY <1>1, <1>2, <1>3, <1>4 DEF ShellNext

LEMMA NothingIsLeft == ShellIInv => NothingLeftOver
<1>. SUFFICES ASSUME ShellIInv  PROVE  NothingLeftOver
  OBVIOUS
<1>1. ASSUME NEW q \in Slots, proc[q].at \in {"src", "cat"}
      PROVE  \A f \in Fds : f > 2 <=> proc[q].fd[f] = None
  BY <1>1 DEF ShellIInv, Fits, PlainAt, PlainFds
<1>2. ASSUME proc[SH].at = "prompt"
      PROVE  proc[SH].fd = Std /\ Children(SH) = {}
  BY <1>2, ShellConstants DEF ShellIInv, Fits, ShellAt, Kids, ChildOf, Children
<1>. QED
  BY <1>1, <1>2 DEF NothingLeftOver

(* runcmd() gives a program the three descriptors it was promised: its own *)
(* or those of the pipe or file, and no other end of a pipe; the shell at  *)
(* its prompt has its own descriptors and no child it has not waited for.  *)
THEOREM SpecNothingLeftOver == ShellSpec => []NothingLeftOver
<1>. QED
  BY ShellStart, ShellKeeps, NothingIsLeft, PTL DEF ShellSpec

-----------------------------------------------------------------------------
(* The history of the mini-shell, a ring.                                  *)

(* The remainder of the next number.                                       *)
LEMMA NextRemainder ==
    ASSUME NEW a \in Nat, NEW h \in Nat \ {0}
    PROVE  /\ a % h \in 0..(h - 1)
           /\ (a + 1) % h = IF a % h = h - 1 THEN 0 ELSE (a % h) + 1
<1>1. PICK q \in Nat, r \in 0..(h - 1) : a = h * q + r /\ r = a % h
  <2>1. a % h \in 0..(h - 1)  BY SMT
  <2>2. a \div h \in Nat  BY SMT
  <2>3. a = h * (a \div h) + (a % h)  BY SMT
  <2>. QED
    BY <2>1, <2>2, <2>3
<1>2. PICK k \in Nat, s \in 0..(h - 1) : a + 1 = h * k + s /\ s = (a + 1) % h
  <2>1. (a + 1) % h \in 0..(h - 1)  BY SMT
  <2>2. (a + 1) \div h \in Nat  BY SMT
  <2>3. a + 1 = h * ((a + 1) \div h) + ((a + 1) % h)  BY SMT
  <2>. QED
    BY <2>1, <2>2, <2>3
<1>3. h * (k - q) = r + 1 - s
  BY <1>1, <1>2
<1>4. k - q \in Int /\ h * (k - q) <= h /\ h * (k - q) > -h
  BY <1>1, <1>2, <1>3
<1>5. k - q \in {0, 1}
  <2>. DEFINE m == k - q
  <2>1. m >= 2 => h * m >= 2 * h
    BY SMT
  <2>2. m <= -1 => h * m <= -h
    BY SMT
  <2>3. m \in Int
    BY <1>4
  <2>. QED
    BY <1>4, <2>1, <2>2, <2>3
<1>6. CASE k - q = 0
  <2>1. h * (k - q) = 0
    BY <1>6
  <2>2. s = r + 1
    BY <1>1, <1>2, <1>3, <2>1
  <2>. QED
    BY <1>1, <1>2, <2>2
<1>7. CASE k - q = 1
  <2>1. h * (k - q) = h
    BY <1>7
  <2>2. s = 0 /\ r = h - 1
    BY <1>1, <1>2, <1>3, <2>1
  <2>. QED
    BY <1>1, <1>2, <2>2
<1>. QED
  BY <1>5, <1>6, <1>7

(* The place after n in the ring.                                          *)
LEMMA AfterPlace ==
    ASSUME NEW n \in 0..(HIST - 1)
    PROVE  HIST \in Nat \ {0} /\ After(n) = IF n = HIST - 1 THEN 0 ELSE n + 1
<1>1. HIST \in Nat \ {0}
  BY MiniShellAssumption
<1>2. n \in Nat /\ n % HIST = n
  BY <1>1
<1>. QED
  BY <1>1, <1>2, NextRemainder DEF After

Words == Names \cup BuiltIns

(* The history h holds the end of what was entered.                        *)
Remembers(h, en) ==
    /\ h.size \in 0..(HIST - 1) /\ en \in Seq(Words) /\ DOMAIN h.commands = 0..(HIST - 1)
    /\ h.size = Len(en) % HIST
    /\ \A i \in 0..(h.size - 1) : h.commands[i] = en[Len(en) - h.size + i + 1]

LEMMA StoreRemembers ==
    ASSUME NEW h, NEW en, Remembers(h, en), NEW w \in Words
    PROVE  Remembers(Store(h, w), Append(en, w))
<1>. DEFINE new == Store(h, w)
            app == Append(en, w)
<1>1. PICK n \in 0..(HIST - 1), len \in Nat : n = h.size /\ len = Len(en) /\ n = len % HIST
  BY LenProperties DEF Remembers
<1>2. HIST \in Nat \ {0} /\ After(n) = IF n = HIST - 1 THEN 0 ELSE n + 1
  BY AfterPlace
<1>3. /\ app \in Seq(Words) /\ Len(app) = len + 1 /\ app[len + 1] = w
      /\ \A i \in 1..len : app[i] = en[i]
  BY <1>1, AppendProperties DEF Remembers
<1>4. n <= len
  <2>1. len % HIST <= len
    BY <1>2, SMT
  <2>. QED
    BY <1>1, <2>1
<1>5. /\ DOMAIN new.commands = 0..(HIST - 1) /\ new.size = After(n)
      /\ new.commands[n] = w /\ \A i \in 0..(HIST - 1) : i # n => new.commands[i] = h.commands[i]
  BY <1>1 DEF Store, Remembers
<1>6. (len + 1) % HIST = After(n)
  BY <1>1, <1>2, NextRemainder
<1>7. \A i \in 0..(n - 1) : h.commands[i] = en[len - n + i + 1]
  BY <1>1 DEF Remembers
<1>. HIDE DEF new, app
<1>8. ASSUME NEW i \in 0..(new.size - 1)
      PROVE  new.commands[i] = app[Len(app) - new.size + i + 1]
  <2>1. n # HIST - 1 /\ new.size = n + 1 /\ i \in 0..n
    BY <1>2, <1>5
  <2>2. CASE i = n
    <3>1. Len(app) - new.size + i + 1 = len + 1
      BY <1>1, <1>3, <2>1, <2>2
    <3>. QED
      BY <1>3, <1>5, <2>2, <3>1
  <2>3. CASE i # n
    <3>0. i \in 0..(n - 1) /\ i \in 0..(HIST - 1)
      BY <1>1, <1>2, <2>1, <2>3
    <3>1. i \in 0..(n - 1) /\ i \in 0..(HIST - 1) /\ Len(app) - new.size + i + 1 = len - n + i + 1
      BY <1>1, <1>3, <2>1, <3>0
    <3>2. len - n + i + 1 \in 1..len
      BY <1>1, <1>4, <3>1
    <3>. QED
      BY <1>3, <1>5, <1>7, <2>3, <3>1, <3>2
  <2>. QED
    BY <2>2, <2>3
<1>9. new.size \in 0..(HIST - 1)
  BY <1>2, <1>5
<1>10. Remembers(new, app)
  BY <1>3, <1>5, <1>6, <1>8, <1>9 DEF Remembers
<1>. QED
  BY <1>10 DEF new, app

-----------------------------------------------------------------------------
(* The children of the mini-shell and its descriptors.                     *)

Live == {"prompt", "handle", "wait", "pipe", "first", "second", "wait1", "wait2"}

(* The children it is still going to wait for, and the end it has to close.*)
DueAt(place) ==
    CASE place \in {"second", "wait", "wait2"} -> 1 [] place = "wait1" -> 2 [] OTHER -> 0
HalfAt(place) == IF place \in {"first", "second"} THEN 1 ELSE 0
EndsOf(x) == {e \in fds : e[2] = x}

FewKids == IsFiniteSet(kids) /\ Cardinality(kids) <= unforked + DueAt(at)
PipesOpen ==
    /\ IsFiniteSet(fds) /\ \A e \in fds : e[1] \in 1..pipes
    /\ Cardinality(EndsOf("r")) = pipes
    /\ Cardinality(EndsOf("w")) = unforked + HalfAt(at)
    /\ at \in {"first", "second"} => <<pipes, "w">> \in fds
MiniIInv ==
    /\ unforked \in Nat /\ pipes \in Nat
    /\ at \in Live => FewKids /\ PipesOpen
    /\ Remembers([commands |-> commands, size |-> size], entered)

LEMMA HistoryStays ==
    ASSUME MiniIInv, UNCHANGED historyVars
    PROVE  Remembers([commands |-> commands, size |-> size], entered)'
<1>1. commands' = commands /\ size' = size /\ entered' = entered
  BY DEF historyVars
<1>. QED
  BY <1>1 DEF MiniIInv, Remembers

LEMMA DueIs ==
    /\ DueAt("prompt") = 0 /\ DueAt("handle") = 0 /\ DueAt("pipe") = 0 /\ DueAt("first") = 0
    /\ DueAt("second") = 1 /\ DueAt("wait") = 1 /\ DueAt("wait1") = 2 /\ DueAt("wait2") = 1
    /\ HalfAt("prompt") = 0 /\ HalfAt("handle") = 0 /\ HalfAt("pipe") = 0 /\ HalfAt("first") = 1
    /\ HalfAt("second") = 1 /\ HalfAt("wait") = 0 /\ HalfAt("wait1") = 0 /\ HalfAt("wait2") = 0
    /\ "interrupted" \notin Live /\ "terminated" \notin Live /\ "exited" \notin Live
  BY DEF DueAt, HalfAt, Live

(* The pipes are as they were while the place needs as many ends.          *)
LEMMA PipesStay ==
    ASSUME PipesOpen, UNCHANGED <<fds, pipes, unforked>>, HalfAt(at') = HalfAt(at),
           at' \in {"first", "second"} => at \in {"first", "second"}
    PROVE  PipesOpen'
<1>1. EndsOf("r")' = EndsOf("r") /\ EndsOf("w")' = EndsOf("w")
  BY DEF EndsOf
<1>. QED
  BY <1>1 DEF PipesOpen

(* fork(), and a child more.                                               *)
LEMMA OneMore ==
    ASSUME NEW k, IsFiniteSet(kids), NEW n \in Nat, Cardinality(kids) <= n
    PROVE  /\ IsFiniteSet(kids \cup {k}) /\ Cardinality(kids \cup {k}) <= n + 1
<1>1. PICK c \in Nat : c = Cardinality(kids)
  BY FS_CardinalityType, Zenon
<1>2. IsFiniteSet(kids \cup {k})
  BY FS_AddElement, Zenon
<1>3. PICK d : d = Cardinality(kids \cup {k})
  OBVIOUS
<1>4. d = c \/ d = c + 1
  BY <1>1, <1>3, FS_AddElement, Zenon
<1>5. c <= n
  BY <1>1, Zenon
<1>6. d <= n + 1
  BY <1>1, <1>4, <1>5, SMT
<1>. QED
  BY <1>2, <1>3, <1>6, Zenon

(* wait() takes one, or there is none.                                     *)
LEMMA OneLess ==
    ASSUME IsFiniteSet(kids), NEW n \in Nat, Cardinality(kids) <= n + 1,
           (kids = {} /\ kids' = kids) \/ \E k \in kids : kids' = kids \ {k}
    PROVE  IsFiniteSet(kids') /\ Cardinality(kids') <= n
<1>1. CASE kids = {} /\ kids' = kids
  BY <1>1, FS_EmptySet
<1>2. CASE \E k \in kids : kids' = kids \ {k}
  <2>1. PICK k \in kids : kids' = kids \ {k}
    BY <1>2
  <2>2. PICK c \in Nat : c = Cardinality(kids)
    BY FS_CardinalityType, Zenon
  <2>3. IsFiniteSet(kids \ {k}) /\ Cardinality(kids \ {k}) = c - 1
    BY <2>1, <2>2, FS_RemoveElement, Zenon
  <2>4. c <= n + 1
    BY <2>2, Zenon
  <2>5. c - 1 <= n
    BY <2>2, <2>4, SMT
  <2>. QED
    BY <2>1, <2>3, <2>5, Zenon
<1>. QED
  BY <1>1, <1>2

LEMMA MiniStart == MiniInit => MiniIInv
<1>. SUFFICES ASSUME MiniInit  PROVE  MiniIInv
  OBVIOUS
<1>1. HIST \in Nat \ {0} /\ 0 \in 0..(HIST - 1) /\ 0 % HIST = 0
  BY MiniShellAssumption
<1>2. entered = << >> /\ << >> \in Seq(Words) /\ Len(<< >>) = 0
  BY EmptySeq DEF MiniInit
<1>3. Remembers([commands |-> commands, size |-> size], entered)
  <2>1. size = 0 /\ DOMAIN commands = 0..(HIST - 1)
    BY DEF MiniInit
  <2>2. entered \in Seq(Words) /\ Len(entered) = 0
    BY <1>2
  <2>3. 0 % HIST = 0 /\ 0 \in 0..(HIST - 1)
    BY <1>1
  <2>4. size = Len(entered) % HIST
    BY <2>1, <2>2, <2>3, Zenon
  <2>5. 0..(size - 1) = {}
    BY <2>1
  <2>. QED
    BY <2>1, <2>2, <2>3, <2>4, <2>5 DEF Remembers
<1>4. EndsOf("r") = {} /\ EndsOf("w") = {}
  BY DEF EndsOf, MiniInit
<1>5. at = "prompt" /\ kids = {} /\ fds = {} /\ pipes = 0 /\ unforked = 0
  BY DEF MiniInit
<1>6. IsFiniteSet(kids) /\ Cardinality(kids) = 0 /\ IsFiniteSet(fds)
  BY <1>5, FS_EmptySet, Zenon
<1>7. Cardinality(EndsOf("r")) = 0 /\ Cardinality(EndsOf("w")) = 0
  BY <1>4, FS_EmptySet, Zenon
<1>8. FewKids
  BY <1>5, <1>6, DueIs DEF FewKids
<1>9. PipesOpen
  BY <1>5, <1>6, <1>7, DueIs DEF PipesOpen
<1>. QED
  BY <1>3, <1>5, <1>8, <1>9 DEF MiniIInv

LEMMA LineKeeps ==
    ASSUME MiniIInv, NEW words \in LinesTyped, Line(words)
    PROVE  MiniIInv'
<1>1. at = "prompt" /\ at' \in {"handle", "pipe"} /\ UNCHANGED <<kids, fds, pipes, unforked>>
  BY DEF Line
<1>2. FewKids /\ PipesOpen
  BY <1>1 DEF MiniIInv, Live
<1>3. FewKids'
  BY <1>1, <1>2, DueIs DEF FewKids
<1>4. PipesOpen'
  BY <1>1, <1>2, DueIs, PipesStay
<1>5. Remembers([commands |-> commands, size |-> size], entered)'
  <2>. DEFINE h == [commands |-> commands, size |-> size]
  <2>0. Remembers(h, entered) /\ entered \in Seq(Words)
    BY DEF MiniIInv, Remembers
  <2>1. CASE \E w \in Words : words = <<w>>
    <3>1. PICK w \in Words : words = <<w>>
      BY <2>1
    <3>2. Remembers(Store(h, w), Append(entered, w))
      BY <2>0, StoreRemembers
    <3>3. Append(entered, w) = entered \o words
      BY <2>0, <3>1, AppendIsConcat
    <3>4. Stored(words) = Store(h, w)
      BY <3>1 DEF Stored
    <3>5. commands' = Store(h, w).commands /\ size' = Store(h, w).size /\ entered' = Append(entered, w)
      BY <3>3, <3>4 DEF Line
    <3>. QED
      BY <3>2, <3>5 DEF Remembers
  <2>2. CASE \E v, w \in Words : words = <<v, w>>
    <3>1. PICK v \in Words, w \in Words : words = <<v, w>>
      BY <2>2
    <3>2. PICK one : one = Store(h, v)
      OBVIOUS
    <3>3. Remembers(one, Append(entered, v))
      BY <2>0, <3>2, StoreRemembers
    <3>4. Remembers(Store(one, w), Append(Append(entered, v), w))
      BY <3>3, StoreRemembers
    <3>5. Append(Append(entered, v), w) = entered \o words
      <4>1. Append(entered, v) = entered \o <<v>> /\ Append(entered, v) \in Seq(Words)
        BY <2>0, AppendIsConcat, AppendProperties
      <4>2. Append(Append(entered, v), w) = (entered \o <<v>>) \o <<w>>
        BY <4>1, AppendIsConcat
      <4>3. <<v>> \in Seq(Words) /\ <<w>> \in Seq(Words) /\ <<v>> \o <<w>> = <<v, w>>
        <5>1. <<v>> \in Seq(Words) /\ <<w>> \in Seq(Words)
          OBVIOUS
        <5>2. <<v>> \o <<w>> = Append(<<v>>, w)
          BY <5>1, AppendIsConcat
        <5>3. Append(<<v>>, w) = <<v, w>>
          <6>1. <<v, w>> \in Seq(Words) /\ Append(<<v>>, w) \in Seq(Words)
            BY <5>1, AppendProperties
          <6>2. Len(<<v, w>>) = 2 /\ Len(Append(<<v>>, w)) = 2
            BY <5>1, AppendProperties
          <6>3. Append(<<v>>, w)[1] = v /\ Append(<<v>>, w)[2] = w
            BY <5>1, AppendProperties
          <6>4. \A i \in 1..2 : <<v, w>>[i] = Append(<<v>>, w)[i]
            BY <6>3
          <6>. QED
            BY <6>1, <6>2, <6>4, SeqEqual
        <5>. QED
          BY <5>1, <5>2, <5>3
      <4>4. (entered \o <<v>>) \o <<w>> = entered \o (<<v>> \o <<w>>)
        BY <2>0, <4>3, ConcatAssociative
      <4>. QED
        BY <3>1, <4>2, <4>3, <4>4
    <3>6. Stored(words) = Store(one, w)
      BY <3>1, <3>2 DEF Stored
    <3>7. /\ commands' = Store(one, w).commands /\ size' = Store(one, w).size
          /\ entered' = Append(Append(entered, v), w)
      BY <3>5, <3>6 DEF Line
    <3>. QED
      BY <3>4, <3>7 DEF Remembers
  <2>. QED
    BY <2>1, <2>2 DEF LinesTyped, Words
<1>. QED
  BY <1>1, <1>3, <1>4, <1>5 DEF MiniIInv

(* A step that leaves the history and the pipes, and keeps the children    *)
(* few.                                                                    *)
LEMMA QuietKeeps ==
    ASSUME MiniIInv, UNCHANGED <<fds, pipes, historyVars>>, unforked' \in Nat,
           at' \in Live => FewKids' /\ PipesOpen'
    PROVE  MiniIInv'
<1>1. UNCHANGED historyVars
  OBVIOUS
<1>2. Remembers([commands |-> commands, size |-> size], entered)'
  BY <1>1, HistoryStays
<1>. QED
  BY <1>2 DEF MiniIInv

(* wait(): one child less.                                                 *)
LEMMA OneWaitKeeps ==
    ASSUME MiniIInv,
           \/ at = "wait" /\ WaitsOne("prompt")
           \/ at = "wait1" /\ WaitsOne("wait2")
           \/ at = "wait2" /\ WaitsOne("prompt")
    PROVE  MiniIInv'
<1>0. PICK then \in {"prompt", "wait2"} :
        /\ WaitsOne(then) /\ at \in {"wait", "wait1", "wait2"}
        /\ at = "wait1" <=> then = "wait2"
  <2>1. CASE at = "wait" /\ WaitsOne("prompt")
    BY <2>1
  <2>2. CASE at = "wait1" /\ WaitsOne("wait2")
    BY <2>2
  <2>3. CASE at = "wait2" /\ WaitsOne("prompt")
    BY <2>3
  <2>. QED
    BY <2>1, <2>2, <2>3
<1>1. /\ at' = then /\ UNCHANGED <<fds, pipes, historyVars>> /\ unforked' = unforked
      /\ (kids = {} /\ kids' = kids) \/ \E k \in kids : kids' = kids \ {k}
  BY <1>0 DEF WaitsOne
<1>2. FewKids /\ PipesOpen /\ unforked \in Nat
  BY <1>0 DEF MiniIInv, Live
<1>3. DueAt(at) = DueAt(at') + 1 /\ DueAt(at') \in Nat /\ HalfAt(at) = 0 /\ HalfAt(at') = 0
  BY <1>0, <1>1, DueIs
<1>4. PICK n \in Nat : n = unforked + DueAt(at')
  BY <1>2, <1>3
<1>5. unforked + DueAt(at) = n + 1
  BY <1>2, <1>3, <1>4
<1>6. IsFiniteSet(kids) /\ Cardinality(kids) <= n + 1
  BY <1>2, <1>5 DEF FewKids
<1>7. IsFiniteSet(kids') /\ Cardinality(kids') <= n
  BY <1>1, <1>6, OneLess
<1>8. FewKids'
  BY <1>1, <1>4, <1>7 DEF FewKids
<1>9. at' \notin {"first", "second"}
  BY <1>0, <1>1
<1>10. PipesOpen'
  BY <1>1, <1>2, <1>3, <1>9, PipesStay
<1>. QED
  BY <1>1, <1>2, <1>8, <1>10, QuietKeeps

(* A fork() for which the shell is going to wait.                          *)
LEMMA ForkedFew ==
    ASSUME FewKids, unforked \in Nat, UNCHANGED unforked, NEW k, kids' = kids \cup {k},
           DueAt(at) \in Nat, DueAt(at') = DueAt(at) + 1
    PROVE  FewKids'
<1>1. PICK n \in Nat : n = unforked + DueAt(at)
  OBVIOUS
<1>2. IsFiniteSet(kids) /\ Cardinality(kids) <= n
  BY <1>1 DEF FewKids
<1>3. IsFiniteSet(kids') /\ Cardinality(kids') <= n + 1
  BY <1>2, OneMore
<1>4. unforked' + DueAt(at') = n + 1
  BY <1>1
<1>. QED
  BY <1>3, <1>4 DEF FewKids

(* The children are as they were, and as many or more may be left.         *)
LEMMA SameFew ==
    ASSUME FewKids, UNCHANGED kids, unforked \in Nat, unforked' \in Nat, DueAt(at) \in Nat,
           DueAt(at') \in Nat, unforked + DueAt(at) <= unforked' + DueAt(at')
    PROVE  FewKids'
<1>1. IsFiniteSet(kids) /\ IsFiniteSet(kids') /\ Cardinality(kids') = Cardinality(kids)
  BY DEF FewKids
<1>2. PICK c \in Nat : c = Cardinality(kids)
  BY <1>1, FS_CardinalityType, Zenon
<1>3. c <= unforked + DueAt(at)
  BY <1>2 DEF FewKids
<1>4. c <= unforked' + DueAt(at')
  BY <1>3
<1>. QED
  BY <1>1, <1>2, <1>4 DEF FewKids

LEMMA HandleInputsKeeps ==
    ASSUME MiniIInv, HandleInputs
    PROVE  MiniIInv'
<1>1. /\ at = "handle" /\ at' \in {"exited", "prompt", "wait"}
      /\ UNCHANGED <<fds, pipes, historyVars>> /\ unforked' = unforked
      /\ at' # "wait" => kids' = kids
      /\ at' = "wait" => kids' = kids \/ kids' = kids \cup {Kid(1)}
  BY DEF HandleInputs
<1>2. FewKids /\ PipesOpen /\ unforked \in Nat
  BY <1>1 DEF MiniIInv, Live
<1>3. CASE at' = "exited"
  BY <1>1, <1>2, <1>3, DueIs, QuietKeeps
<1>4. CASE at' = "prompt"
  <2>1. DueAt(at) = 0 /\ DueAt(at') = 0 /\ HalfAt(at) = 0 /\ HalfAt(at') = 0
    BY <1>1, <1>4, DueIs
  <2>2. FewKids'
    BY <1>1, <1>2, <1>4, <2>1, SameFew
  <2>3. PipesOpen'
    BY <1>1, <1>2, <1>4, <2>1, PipesStay
  <2>. QED
    BY <1>1, <1>2, <2>2, <2>3, QuietKeeps
<1>5. CASE at' = "wait"
  <2>1. DueAt(at) = 0 /\ DueAt(at') = 1 /\ HalfAt(at) = 0 /\ HalfAt(at') = 0
    BY <1>1, <1>5, DueIs
  <2>2. ASSUME kids' = kids  PROVE  FewKids'
    BY <1>1, <1>2, <2>1, <2>2, SameFew
  <2>3. ASSUME kids' = kids \cup {Kid(1)}  PROVE  FewKids'
    <3>1. DueAt(at) \in Nat /\ DueAt(at') = DueAt(at) + 1
      BY <2>1
    <3>. QED
      BY <1>1, <1>2, <2>3, <3>1, ForkedFew, Zenon
  <2>4. FewKids'
    BY <1>1, <1>5, <2>2, <2>3
  <2>5. PipesOpen'
    BY <1>1, <1>2, <1>5, <2>1, PipesStay
  <2>. QED
    BY <1>1, <1>2, <2>4, <2>5, QuietKeeps
<1>. QED
  BY <1>1, <1>3, <1>4, <1>5

LEMMA FirstForkKeeps ==
    ASSUME MiniIInv, FirstFork
    PROVE  MiniIInv'
<1>1. at = "first" /\ UNCHANGED <<fds, pipes, historyVars>> /\ FewKids /\ PipesOpen /\ unforked \in Nat
  BY DEF FirstFork, MiniIInv, Live
<1>2. CASE at' = "second"
  <2>1. at' = "second" /\ unforked' = unforked /\ kids' = kids \cup {Kid(1)}
    BY <1>2 DEF FirstFork
  <2>2. DueAt(at) = 0 /\ DueAt(at') = 1 /\ HalfAt(at) = 1 /\ HalfAt(at') = 1
    BY <1>1, <2>1, DueIs
  <2>3. FewKids'
    <3>1. DueAt(at) \in Nat /\ DueAt(at') = DueAt(at) + 1
      BY <2>2
    <3>. QED
      BY <1>1, <2>1, <3>1, ForkedFew, Zenon
  <2>4. PipesOpen'
    BY <1>1, <2>1, <2>2, PipesStay
  <2>. QED
    BY <1>1, <2>1, <2>3, <2>4, QuietKeeps
<1>3. CASE at' = "prompt"
  <2>1. at' = "prompt" /\ unforked' = unforked + 1 /\ kids' = kids
    BY <1>3 DEF FirstFork
  <2>2. DueAt(at) = 0 /\ DueAt(at') = 0 /\ HalfAt(at) = 1 /\ HalfAt(at') = 0
    BY <1>1, <2>1, DueIs
  <2>3. FewKids'
    BY <1>1, <2>1, <2>2, SameFew
  <2>4. EndsOf("r")' = EndsOf("r") /\ EndsOf("w")' = EndsOf("w") /\ fds' = fds /\ pipes' = pipes
    BY <1>1 DEF EndsOf
  <2>5. unforked' + HalfAt(at') = unforked + HalfAt(at) /\ at' \notin {"first", "second"}
    BY <1>1, <2>1, <2>2
  <2>6. PipesOpen'
    BY <1>1, <2>4, <2>5 DEF PipesOpen
  <2>. QED
    BY <1>1, <2>1, <2>3, <2>6, QuietKeeps
<1>. QED
  BY <1>2, <1>3 DEF FirstFork

(* pipe(): two ends that were not open.                                    *)
LEMMA MakePipeKeeps ==
    ASSUME MiniIInv, MakePipe
    PROVE  MiniIInv'
<1>1. /\ at = "pipe" /\ UNCHANGED historyVars /\ kids' = kids /\ unforked' = unforked
      /\ FewKids /\ PipesOpen /\ unforked \in Nat /\ pipes \in Nat
  BY DEF MakePipe, MiniIInv, Live
<1>2. CASE at' = "prompt"
  <2>1. at' = "prompt" /\ fds' = fds /\ pipes' = pipes
    BY <1>2 DEF MakePipe
  <2>2. DueAt(at) = 0 /\ DueAt(at') = 0 /\ HalfAt(at) = 0 /\ HalfAt(at') = 0
    BY <1>1, <2>1, DueIs
  <2>3. FewKids'
    BY <1>1, <2>1, <2>2, SameFew
  <2>4. PipesOpen'
    BY <1>1, <2>1, <2>2, PipesStay
  <2>. QED
    BY <1>1, <2>1, <2>3, <2>4, QuietKeeps
<1>3. CASE at' = "first"
  <2>1. PICK p \in Nat : p = pipes + 1
    BY <1>1
  <2>2. at' = "first" /\ pipes' = p /\ fds' = fds \cup {<<p, "r">>, <<p, "w">>}
    BY <1>3, <2>1 DEF MakePipe
  <2>3. DueAt(at) = 0 /\ DueAt(at') = 0 /\ HalfAt(at) = 0 /\ HalfAt(at') = 1
    BY <1>1, <2>2, DueIs
  <2>4. FewKids'
    BY <1>1, <2>3, SameFew
  <2>5. IsFiniteSet(fds) /\ \A e \in fds : e[1] \in 1..pipes
    BY <1>1 DEF PipesOpen
  <2>6. p \notin 1..pipes /\ \A i \in 1..pipes : i \in 1..p
    BY <1>1, <2>1
  <2>7. <<p, "r">> \notin fds /\ <<p, "w">> \notin fds
    BY <2>5, <2>6
  <2>8. EndsOf("r")' = EndsOf("r") \cup {<<p, "r">>} /\ EndsOf("w")' = EndsOf("w") \cup {<<p, "w">>}
    BY <2>2 DEF EndsOf
  <2>9. PICK R, W : R = EndsOf("r") /\ W = EndsOf("w")
    OBVIOUS
  <2>10. R \subseteq fds /\ W \subseteq fds
    BY <2>9 DEF EndsOf
  <2>11. IsFiniteSet(R) /\ IsFiniteSet(W) /\ <<p, "r">> \notin R /\ <<p, "w">> \notin W
    BY <2>5, <2>7, <2>10, FS_Subset
  <2>12. Cardinality(R) = pipes /\ Cardinality(W) = unforked
    BY <1>1, <2>3, <2>9 DEF PipesOpen
  <2>13. Cardinality(R \cup {<<p, "r">>}) = pipes + 1
    BY <2>11, <2>12, FS_AddElement, Zenon
  <2>14. Cardinality(W \cup {<<p, "w">>}) = unforked + 1
    BY <2>11, <2>12, FS_AddElement, Zenon
  <2>15. Cardinality(EndsOf("r")') = p /\ Cardinality(EndsOf("w")') = unforked + 1
    BY <2>1, <2>8, <2>9, <2>13, <2>14, Zenon
  <2>16. IsFiniteSet(fds')
    <3>1. IsFiniteSet(fds \cup {<<p, "r">>})
      BY <2>5, FS_AddElement, Zenon
    <3>2. fds' = (fds \cup {<<p, "r">>}) \cup {<<p, "w">>}
      BY <2>2
    <3>. QED
      BY <3>1, <3>2, FS_AddElement, Zenon
  <2>17. \A e \in fds' : e[1] \in 1..p
    <3>1. p \in 1..p
      BY <2>1, <1>1
    <3>. QED
      BY <2>2, <2>5, <2>6, <3>1
  <2>18. <<p, "w">> \in fds' /\ unforked' + HalfAt(at') = unforked + 1
    BY <1>1, <2>2, <2>3
  <2>19. PipesOpen'
    BY <2>2, <2>15, <2>16, <2>17, <2>18 DEF PipesOpen
  <2>20. Remembers([commands |-> commands, size |-> size], entered)'
    BY <1>1, HistoryStays
  <2>. QED
    BY <1>1, <2>2, <2>4, <2>19, <2>20 DEF MiniIInv
<1>. QED
  BY <1>2, <1>3 DEF MakePipe

(* The second fork(), and close() of the end for writing.                  *)
LEMMA SecondForkKeeps ==
    ASSUME MiniIInv, SecondFork
    PROVE  MiniIInv'
<1>1. /\ at = "second" /\ UNCHANGED <<pipes, historyVars>> /\ FewKids /\ PipesOpen
      /\ unforked \in Nat /\ pipes \in Nat
  BY DEF SecondFork, MiniIInv, Live
<1>2. CASE at' = "wait1"
  <2>1. at' = "wait1" /\ unforked' = unforked /\ kids' = kids \cup {Kid(2)} /\ fds' = Closes(fds)
    BY <1>2 DEF SecondFork
  <2>2. DueAt(at) = 1 /\ DueAt(at') = 2 /\ HalfAt(at) = 1 /\ HalfAt(at') = 0
    BY <1>1, <2>1, DueIs
  <2>3. FewKids'
    <3>1. DueAt(at) \in Nat /\ DueAt(at') = DueAt(at) + 1
      BY <2>2
    <3>. QED
      BY <1>1, <2>1, <3>1, ForkedFew, Zenon
  <2>4. PICK x : x = <<pipes, "w">> /\ x \in fds
    BY <1>1 DEF PipesOpen
  <2>5. fds' = fds \ {x}
    BY <2>1, <2>4 DEF Closes
  <2>6. EndsOf("r")' = EndsOf("r") /\ EndsOf("w")' = EndsOf("w") \ {x} /\ x \in EndsOf("w")
    BY <2>4, <2>5 DEF EndsOf
  <2>7. IsFiniteSet(fds) /\ \A e \in fds : e[1] \in 1..pipes
    BY <1>1 DEF PipesOpen
  <2>8. PICK W : W = EndsOf("w")
    OBVIOUS
  <2>9. W \subseteq fds
    BY <2>8 DEF EndsOf
  <2>10. IsFiniteSet(W) /\ x \in W /\ IsFiniteSet(fds')
    BY <2>5, <2>6, <2>7, <2>8, <2>9, FS_Subset
  <2>11. Cardinality(EndsOf("r")) = pipes /\ Cardinality(W) = unforked + 1
    BY <1>1, <2>2, <2>8 DEF PipesOpen
  <2>12. Cardinality(W \ {x}) = (unforked + 1) - 1
    BY <2>10, <2>11, FS_RemoveElement, Zenon
  <2>13. (unforked + 1) - 1 = unforked' + HalfAt(at')
    BY <1>1, <2>1, <2>2
  <2>14. Cardinality(EndsOf("w")') = unforked' + HalfAt(at') /\ Cardinality(EndsOf("r")') = pipes
    BY <2>6, <2>8, <2>11, <2>12, <2>13, Zenon
  <2>15. PipesOpen'
    BY <1>1, <2>1, <2>5, <2>7, <2>10, <2>14 DEF PipesOpen
  <2>16. Remembers([commands |-> commands, size |-> size], entered)'
    BY <1>1, HistoryStays
  <2>. QED
    BY <1>1, <2>1, <2>3, <2>15, <2>16 DEF MiniIInv
<1>3. CASE at' = "prompt"
  <2>1. at' = "prompt" /\ unforked' = unforked + 1 /\ kids' = kids /\ fds' = fds
    BY <1>3 DEF SecondFork
  <2>2. DueAt(at) = 1 /\ DueAt(at') = 0 /\ HalfAt(at) = 1 /\ HalfAt(at') = 0
    BY <1>1, <2>1, DueIs
  <2>3. FewKids'
    BY <1>1, <2>1, <2>2, SameFew
  <2>4. EndsOf("r")' = EndsOf("r") /\ EndsOf("w")' = EndsOf("w") /\ pipes' = pipes
    BY <1>1, <2>1 DEF EndsOf
  <2>5. unforked' + HalfAt(at') = unforked + HalfAt(at) /\ at' \notin {"first", "second"}
    BY <1>1, <2>1, <2>2
  <2>6. PipesOpen'
    BY <1>1, <2>1, <2>4, <2>5 DEF PipesOpen
  <2>. QED
    BY <1>1, <2>1, <2>3, <2>6, QuietKeeps
<1>. QED
  BY <1>2, <1>3 DEF SecondFork

(* A child ends: as many are left to wait for.                             *)
LEMMA DoneKeeps ==
    ASSUME MiniIInv, NEW k \in kids, Done(k)
    PROVE  MiniIInv'
<1>1. /\ at' = at /\ UNCHANGED <<fds, pipes, historyVars>> /\ unforked' = unforked /\ unforked \in Nat
      /\ kids' = (kids \ {k}) \cup {[k EXCEPT !.done = TRUE]}
  BY DEF Done, MiniIInv
<1>2. CASE at \notin Live
  BY <1>1, <1>2, QuietKeeps
<1>3. CASE at \in Live
  <2>1. FewKids /\ PipesOpen
    BY <1>3 DEF MiniIInv
  <2>2. PICK c \in Nat : c = Cardinality(kids) /\ IsFiniteSet(kids)
    BY <2>1, FS_CardinalityType, Zenon DEF FewKids
  <2>3. IsFiniteSet(kids \ {k}) /\ Cardinality(kids \ {k}) = c - 1
    BY <2>2, FS_RemoveElement, Zenon
  <2>4. PICK K : K = kids \ {k}
    OBVIOUS
  <2>5. PICK d : d = [k EXCEPT !.done = TRUE]
    OBVIOUS
  <2>6. kids' = K \cup {d} /\ IsFiniteSet(K) /\ Cardinality(K) = c - 1
    BY <1>1, <2>3, <2>4, <2>5, Zenon
  <2>7. IsFiniteSet(kids') /\ (Cardinality(kids') = c - 1 \/ Cardinality(kids') = (c - 1) + 1)
    BY <2>6, FS_AddElement, Zenon
  <2>8. PICK m : m = Cardinality(kids')
    OBVIOUS
  <2>9. m <= c
    BY <2>2, <2>7, <2>8
  <2>10. PICK n : n = unforked + DueAt(at)
    OBVIOUS
  <2>11. c <= n
    BY <2>1, <2>2, <2>10 DEF FewKids
  <2>12. n \in Nat
    BY <1>1, <1>3, <2>10, DueIs DEF Live
  <2>13. m <= n
    BY <2>2, <2>7, <2>8, <2>9, <2>11, <2>12
  <2>14. DueAt(at)' = DueAt(at)
    BY <1>1 DEF DueAt
  <2>15. FewKids'
    BY <1>1, <2>7, <2>8, <2>10, <2>13, <2>14 DEF FewKids
  <2>16. HalfAt(at') = HalfAt(at)
    BY <1>1
  <2>17. PipesOpen'
    BY <1>1, <2>1, <2>16, PipesStay
  <2>. QED
    BY <1>1, <2>15, <2>17, QuietKeeps
<1>. QED
  BY <1>2, <1>3

(* The handler of the signal ends in exit().                               *)
LEMMA SignalKeeps ==
    ASSUME MiniIInv, Sigint \/ SigintWait
    PROVE  MiniIInv'
<1>1. /\ at' \in {"interrupted", "terminated"} /\ UNCHANGED <<fds, pipes, historyVars>>
      /\ unforked' = unforked /\ unforked \in Nat
  BY DEF Sigint, SigintWait, WaitsOne, MiniIInv
<1>. QED
  BY <1>1, DueIs, QuietKeeps

LEMMA MiniKeeps == MiniIInv /\ [MiniNext]_miniVars => MiniIInv'
<1>. SUFFICES ASSUME MiniIInv, [MiniNext]_miniVars  PROVE  MiniIInv'
  OBVIOUS
<1>1. ASSUME NEW words \in LinesTyped, Line(words)  PROVE  MiniIInv'
  BY <1>1, LineKeeps
<1>2. CASE HandleInputs
  BY <1>2, HandleInputsKeeps
<1>3. CASE OtherWait
  <2>1. at = "wait" /\ WaitsOne("prompt")
    BY <1>3 DEF OtherWait
  <2>. QED
    BY <2>1, OneWaitKeeps
<1>4. CASE MakePipe
  BY <1>4, MakePipeKeeps
<1>5. CASE FirstFork
  BY <1>5, FirstForkKeeps
<1>6. CASE SecondFork
  BY <1>6, SecondForkKeeps
<1>7. CASE TwoWaits
  <2>1. CASE at = "wait1" /\ WaitsOne("wait2")
    BY <2>1, OneWaitKeeps
  <2>2. CASE at = "wait2" /\ WaitsOne("prompt")
    BY <2>2, OneWaitKeeps
  <2>. QED
    BY <1>7, <2>1, <2>2 DEF TwoWaits
<1>8. ASSUME NEW k \in kids, Done(k)  PROVE  MiniIInv'
  BY <1>8, DoneKeeps
<1>9. CASE Sigint \/ SigintWait
  BY <1>9, SignalKeeps
<1>10. CASE UNCHANGED miniVars
  <2>1. /\ at' = at /\ kids' = kids /\ UNCHANGED <<fds, pipes, historyVars>> /\ unforked' = unforked
        /\ unforked \in Nat
    BY <1>10 DEF miniVars, historyVars, MiniIInv
  <2>2. ASSUME at \in Live  PROVE  FewKids' /\ PipesOpen'
    <3>1. FewKids /\ PipesOpen
      BY <2>2 DEF MiniIInv
    <3>2. FewKids'
      BY <2>1, <3>1 DEF FewKids
    <3>. QED
      BY <2>1, <3>1, <3>2, PipesStay
  <2>. QED
    BY <2>1, <2>2, QuietKeeps
<1>. QED
  BY <1>1, <1>2, <1>3, <1>4, <1>5, <1>6, <1>7, <1>8, <1>9, <1>10 DEF MiniNext

LEMMA MiniShows == MiniIInv => PromptSettled
<1>. SUFFICES ASSUME MiniIInv  PROVE  PromptSettled
  OBVIOUS
<1>1. ASSUME at = "prompt"
      PROVE  /\ Cardinality(kids) <= unforked /\ Cardinality(EndsOf("w")) = unforked
             /\ Cardinality(EndsOf("r")) = pipes
  <2>1. FewKids /\ PipesOpen /\ unforked \in Nat
    BY <1>1 DEF MiniIInv, Live
  <2>2. unforked + DueAt(at) = unforked /\ unforked + HalfAt(at) = unforked
    BY <1>1, <2>1, DueIs
  <2>. QED
    BY <2>1, <2>2 DEF FewKids, PipesOpen
<1>2. /\ size = Len(entered) % HIST
      /\ \A i \in 0..(size - 1) : commands[i] = entered[Len(entered) - size + i + 1]
  BY DEF MiniIInv, Remembers
<1>. QED
  BY <1>1, <1>2 DEF PromptSettled, EndsOf

(* At the prompt the mini-shell (shell.c of assignment 5) has waited for   *)
(* the children of every line, but one for each fork() that failed, holds  *)
(* the ends of pipes that PromptSettled names, and its ring of the history *)
(* is the end of what was typed: for every size of the ring and every      *)
(* limit of descriptors and of children.                                   *)
THEOREM SpecPromptSettled == MiniSpec => []PromptSettled
<1>1. MiniInit => MiniIInv
  BY MiniStart
<1>2. MiniIInv /\ [MiniNext]_miniVars => MiniIInv'
  BY MiniKeeps
<1>3. MiniIInv => PromptSettled
  BY MiniShows
<1>. QED
  BY <1>1, <1>2, <1>3, PTL DEF MiniSpec
=============================================================================

----------------------------- MODULE ProcTable -----------------------------
(***************************************************************************)
(* The process table of the kernel (proc.c): fork, exit, wait, kill, the   *)
(* per-CPU scheduler, and the hand-over of ptable.lock through swtch().    *)
(*                                                                         *)
(* A slot of ptable.proc is a number in 1..NPROC; slot 1 is initproc and 0 *)
(* is the null pointer.  pc[p] is the statement at which process p is, or  *)
(* at which it resumes when it is switched in again.  A critical section   *)
(* that holds ptable.lock from acquire to release without switching is one *)
(* step; a section that ends in sched() leaves `lock' with the CPU, as the *)
(* code does, until the scheduler loop or the resumed process releases it. *)
(***************************************************************************)
EXTENDS Naturals, FiniteSetsExt

CONSTANTS
    CPUs,      \* the processors
    NoCPU,     \* ptable.lock is free
    NPROC,     \* size of the process table
    MaxPid,    \* bound: the last pid fork() hands out
    KillPids   \* the pids user programs pass to kill()

ASSUME NProcAssumption == NPROC \in Nat /\ NPROC >= 2
ASSUME MaxPidAssumption == MaxPid \in Nat /\ MaxPid >= 2
ASSUME CPUAssumption == NoCPU \notin CPUs
ASSUME KillAssumption == KillPids \subseteq Nat

Slots == 1..NPROC
initproc == 1

VARIABLES
    state, pid, parent, chan, killed,   \* fields of struct proc, per slot
    pc,        \* pc[p]: where p is in the kernel, or "user"
    np,        \* np[p]: fork()'s local variable np
    nextpid,   \* the next pid
    lock,      \* the CPU that holds ptable.lock
    cpuproc,   \* cpuproc[c]: c->proc, 0 while the scheduler runs
    scan       \* scan[c]: the scheduler's loop variable p

procVars == <<state, pid, parent, chan, killed>>
vars == <<state, pid, parent, chan, killed, pc, np, nextpid, lock, cpuproc,
          scan>>

States == {"UNUSED", "EMBRYO", "SLEEPING", "RUNNABLE", "RUNNING", "ZOMBIE"}
PCs == {"user", "kern", "ret", "fork1", "fork2", "waitcall", "wait",
        "exiting", "dead", "panic"}

-----------------------------------------------------------------------------
(* userinit() and main() are done: initproc is the only process, RUNNABLE, *)
(* and every CPU is at the top of scheduler().                             *)
Init ==
    /\ state = [s \in Slots |-> IF s = initproc THEN "RUNNABLE" ELSE "UNUSED"]
    /\ pid = [s \in Slots |-> IF s = initproc THEN 1 ELSE 0]
    /\ parent = [s \in Slots |-> 0]
    /\ chan = [s \in Slots |-> 0]
    /\ killed = [s \in Slots |-> FALSE]
    /\ pc = [s \in Slots |-> "user"]
    /\ np = [s \in Slots |-> 0]
    /\ nextpid = 2
    /\ lock = NoCPU
    /\ cpuproc = [c \in CPUs |-> 0]
    /\ scan = [c \in CPUs |-> 1]

-----------------------------------------------------------------------------
(* scheduler(): acquire(&ptable.lock) and start at the first slot.         *)
SchedAcquire(c) ==
    /\ cpuproc[c] = 0 /\ lock = NoCPU
    /\ lock' = c
    /\ scan' = [scan EXCEPT ![c] = 1]
    /\ UNCHANGED <<procVars, pc, np, nextpid, cpuproc>>

RunnableFrom(i) == {s \in Slots : s >= i /\ state[s] = "RUNNABLE"}

(* scheduler(): switch to the next RUNNABLE slot.  The lock stays with c;  *)
(* the process releases it.                                                *)
SchedRun(c) ==
    /\ cpuproc[c] = 0 /\ lock = c
    /\ RunnableFrom(scan[c]) # {}
    /\ LET p == Min(RunnableFrom(scan[c])) IN
        /\ cpuproc' = [cpuproc EXCEPT ![c] = p]
        /\ state' = [state EXCEPT ![p] = "RUNNING"]
        /\ scan' = [scan EXCEPT ![c] = p + 1]
    /\ UNCHANGED <<pid, parent, chan, killed, pc, np, nextpid, lock>>

(* scheduler(): the table is exhausted, release(&ptable.lock).             *)
SchedRelease(c) ==
    /\ cpuproc[c] = 0 /\ lock = c
    /\ RunnableFrom(scan[c]) = {}
    /\ lock' = NoCPU
    /\ UNCHANGED <<procVars, pc, np, nextpid, cpuproc, scan>>

(* sched(): swtch() back to the scheduler, which clears c->proc and goes   *)
(* on with its loop, still holding the lock.                               *)
SwitchOut(c) ==
    /\ cpuproc[c] # 0 /\ lock = c
    /\ state[cpuproc[c]] # "RUNNING"
    /\ cpuproc' = [cpuproc EXCEPT ![c] = 0]
    /\ UNCHANGED <<procVars, pc, np, nextpid, lock, scan>>

(* c runs process p outside ptable.lock.                                   *)
Running(c, p) == p # 0 /\ cpuproc[c] = p /\ lock # c

(* A process has just been switched in: it still holds the lock.           *)
SwitchedIn(c, p) ==
    p # 0 /\ cpuproc[c] = p /\ lock = c /\ state[p] = "RUNNING"

(* forkret(), and yield() after sched(): release(&ptable.lock).            *)
Resume(c) == \E p \in Slots :
    /\ SwitchedIn(c, p) /\ pc[p] # "wait"
    /\ lock' = NoCPU
    /\ UNCHANGED <<procVars, pc, np, nextpid, cpuproc, scan>>

(* Mutant of Yield: the lock is free before sched() has switched away.     *)
YieldUnlocked(c) == \E p \in Slots :
    /\ Running(c, p) /\ lock = NoCPU
    /\ pc[p] \in {"kern", "fork1", "fork2", "waitcall", "ret", "exiting"}
    /\ state' = [state EXCEPT ![p] = "RUNNABLE"]
    /\ UNCHANGED <<pid, parent, chan, killed, pc, np, nextpid, lock, cpuproc,
                   scan>>

(* yield(), on the timer interrupt, wherever the process holds no lock.    *)
(* Interrupts stay off in panic().                                         *)
Yield(c) == \E p \in Slots :
    /\ Running(c, p) /\ lock = NoCPU
    /\ pc[p] \in {"kern", "fork1", "fork2", "waitcall", "ret", "exiting"}
    /\ state' = [state EXCEPT ![p] = "RUNNABLE"]
    /\ lock' = c
    /\ UNCHANGED <<pid, parent, chan, killed, pc, np, nextpid, cpuproc, scan>>

-----------------------------------------------------------------------------
Goto(p, l) == pc' = [pc EXCEPT ![p] = l]

(* trap(): a system call or an interrupt from user space.  A killed        *)
(* process exits here.                                                     *)
Trap(c) == \E p \in Slots :
    /\ Running(c, p) /\ pc[p] = "user"
    /\ Goto(p, IF killed[p] THEN "exiting" ELSE "kern")
    /\ UNCHANGED <<procVars, np, nextpid, lock, cpuproc, scan>>

(* trap(): the user program misbehaved; p->killed = 1 and exit().          *)
(* initproc's program does not.                                            *)
Fault(c) == \E p \in Slots \ {initproc} :
    /\ Running(c, p) /\ pc[p] = "user"
    /\ killed' = [killed EXCEPT ![p] = TRUE]
    /\ Goto(p, "exiting")
    /\ UNCHANGED <<state, pid, parent, chan, np, nextpid, lock, cpuproc, scan>>

(* trap(): an interrupt or a system call is over; back to user space,      *)
(* unless the process was killed meanwhile.                                *)
TrapReturn(c) == \E p \in Slots :
    /\ Running(c, p) /\ pc[p] \in {"kern", "ret"}
    /\ Goto(p, IF killed[p] THEN "exiting" ELSE "user")
    /\ UNCHANGED <<procVars, np, nextpid, lock, cpuproc, scan>>

-----------------------------------------------------------------------------
Unused == {s \in Slots : state[s] = "UNUSED"}

(* fork(), allocproc(): take the first UNUSED slot and the next pid.  The  *)
(* slot's killed flag is left as it is.                                    *)
ForkAlloc(c) == \E p \in Slots :
    /\ Running(c, p) /\ pc[p] = "kern" /\ lock = NoCPU
    /\ Unused # {} /\ nextpid <= MaxPid
    /\ LET s == Min(Unused) IN
        /\ state' = [state EXCEPT ![s] = "EMBRYO"]
        /\ pid' = [pid EXCEPT ![s] = nextpid]
        /\ np' = [np EXCEPT ![p] = s]
    /\ nextpid' = nextpid + 1
    /\ Goto(p, "fork1")
    /\ UNCHANGED <<parent, chan, killed, lock, cpuproc, scan>>

(* fork() returns -1: init.c calls exit(), any other program goes on.      *)
AfterFailedFork(p) == IF p = initproc THEN "exiting" ELSE "ret"

(* fork(): no slot is free.                                                *)
ForkNoSlot(c) == \E p \in Slots :
    /\ Running(c, p) /\ pc[p] = "kern" /\ lock = NoCPU
    /\ Unused = {}
    /\ Goto(p, AfterFailedFork(p))
    /\ UNCHANGED <<procVars, np, nextpid, lock, cpuproc, scan>>

(* fork(): kalloc() or copyuvm() found no memory.  The slot is given back  *)
(* without the lock, and keeps its pid.                                    *)
ForkNoMemory(c) == \E p \in Slots :
    /\ Running(c, p) /\ pc[p] = "fork1"
    /\ state' = [state EXCEPT ![np[p]] = "UNUSED"]
    /\ np' = [np EXCEPT ![p] = 0]
    /\ Goto(p, AfterFailedFork(p))
    /\ UNCHANGED <<pid, parent, chan, killed, nextpid, lock, cpuproc, scan>>

(* fork(): np->parent = curproc, without the lock.                         *)
ForkCopy(c) == \E p \in Slots :
    /\ Running(c, p) /\ pc[p] = "fork1"
    /\ parent' = [parent EXCEPT ![np[p]] = p]
    /\ Goto(p, "fork2")
    /\ UNCHANGED <<state, pid, chan, killed, np, nextpid, lock, cpuproc, scan>>

(* fork(): np->state = RUNNABLE; the child starts in forkret() and reaches *)
(* user space without a look at killed.                                    *)
ForkDone(c) == \E p \in Slots :
    /\ Running(c, p) /\ pc[p] = "fork2" /\ lock = NoCPU
    /\ state' = [state EXCEPT ![np[p]] = "RUNNABLE"]
    /\ pc' = [pc EXCEPT ![p] = "ret", ![np[p]] = "user"]
    /\ np' = [np EXCEPT ![p] = 0]
    /\ UNCHANGED <<pid, parent, chan, killed, nextpid, lock, cpuproc, scan>>

-----------------------------------------------------------------------------
(* wakeup1() for each channel in C: sleepers become RUNNABLE.              *)
Wakeup1(C, st) ==
    [s \in Slots |-> IF st[s] = "SLEEPING" /\ chan[s] \in C THEN "RUNNABLE"
                     ELSE st[s]]

(* A program calls exit(); initproc's program never does.                  *)
ExitCall(c) == \E p \in Slots \ {initproc} :
    /\ Running(c, p) /\ pc[p] = "kern"
    /\ Goto(p, "exiting")
    /\ UNCHANGED <<procVars, np, nextpid, lock, cpuproc, scan>>

(* exit() by initproc: panic("init exiting"); that CPU spins for ever.     *)
ExitInit(c) ==
    /\ Running(c, initproc) /\ pc[initproc] = "exiting"
    /\ Goto(initproc, "panic")
    /\ UNCHANGED <<procVars, np, nextpid, lock, cpuproc, scan>>

(* Mutant of Exit: children are left to a parent that is gone.             *)
ExitKeepsChildren(c) == \E p \in Slots \ {initproc} :
    /\ Running(c, p) /\ pc[p] = "exiting" /\ lock = NoCPU
    /\ state' = [Wakeup1({parent[p]}, state) EXCEPT ![p] = "ZOMBIE"]
    /\ Goto(p, "dead")
    /\ lock' = c
    /\ UNCHANGED <<pid, parent, chan, killed, np, nextpid, cpuproc, scan>>

(* Mutant of Exit: the zombies among the children are passed on in silence.*)
ExitForgetsInit(c) == \E p \in Slots \ {initproc} :
    /\ Running(c, p) /\ pc[p] = "exiting" /\ lock = NoCPU
    /\ state' = [Wakeup1({parent[p]}, state) EXCEPT ![p] = "ZOMBIE"]
    /\ parent' = [s \in Slots |-> IF parent[s] = p THEN initproc
                                  ELSE parent[s]]
    /\ Goto(p, "dead")
    /\ lock' = c
    /\ UNCHANGED <<pid, chan, killed, np, nextpid, cpuproc, scan>>

(* Mutant of Exit: the parent is not woken.                                *)
ExitForgetsParent(c) == \E p \in Slots \ {initproc} :
    /\ Running(c, p) /\ pc[p] = "exiting" /\ lock = NoCPU
    /\ state' = [state EXCEPT ![p] = "ZOMBIE"]
    /\ parent' = [s \in Slots |-> IF parent[s] = p THEN initproc
                                  ELSE parent[s]]
    /\ Goto(p, "dead")
    /\ lock' = c
    /\ UNCHANGED <<pid, chan, killed, np, nextpid, cpuproc, scan>>

(* exit(): wake the parent, pass the children to initproc and wake it if   *)
(* one of them is a zombie already, become a ZOMBIE and call sched().      *)
Exit(c) == \E p \in Slots \ {initproc} :
    /\ Running(c, p) /\ pc[p] = "exiting" /\ lock = NoCPU
    /\ LET children == {s \in Slots : parent[s] = p}
           woken == {parent[p]} \cup
                    {initproc : s \in {t \in children : state[t] = "ZOMBIE"}}
       IN  /\ state' = [Wakeup1(woken, state) EXCEPT ![p] = "ZOMBIE"]
           /\ parent' = [s \in Slots |-> IF s \in children THEN initproc
                                         ELSE parent[s]]
    /\ Goto(p, "dead")
    /\ lock' = c
    /\ UNCHANGED <<pid, chan, killed, np, nextpid, cpuproc, scan>>

-----------------------------------------------------------------------------
Children(p) == {s \in Slots : parent[s] = p}
Zombies(p) == {s \in Children(p) : state[s] = "ZOMBIE"}

(* sys_wait(): a program calls wait().                                     *)
WaitEnter(c) == \E p \in Slots :
    /\ Running(c, p) /\ pc[p] = "kern"
    /\ Goto(p, "waitcall")
    /\ UNCHANGED <<procVars, np, nextpid, lock, cpuproc, scan>>

(* The loop of wait() runs: after acquire(&ptable.lock), or with the lock  *)
(* that sched() handed back.                                               *)
InWait(c, p) ==
    \/ Running(c, p) /\ pc[p] = "waitcall" /\ lock = NoCPU
    \/ SwitchedIn(c, p) /\ pc[p] = "wait"

(* Mutant of WaitReap: sleep() leaves p->chan set.                         *)
ReapKeepsChan(c) == \E p \in Slots :
    /\ InWait(c, p) /\ Zombies(p) # {}
    /\ LET z == Min(Zombies(p)) IN
        /\ state' = [state EXCEPT ![z] = "UNUSED"]
        /\ pid' = [pid EXCEPT ![z] = 0]
        /\ parent' = [parent EXCEPT ![z] = 0]
        /\ killed' = [killed EXCEPT ![z] = FALSE]
    /\ lock' = NoCPU
    /\ Goto(p, "ret")
    /\ UNCHANGED <<chan, np, nextpid, cpuproc, scan>>

(* wait(): reap the first zombie child and return its pid.                 *)
WaitReap(c) == \E p \in Slots :
    /\ InWait(c, p) /\ Zombies(p) # {}
    /\ LET z == Min(Zombies(p)) IN
        /\ state' = [state EXCEPT ![z] = "UNUSED"]
        /\ pid' = [pid EXCEPT ![z] = 0]
        /\ parent' = [parent EXCEPT ![z] = 0]
        /\ killed' = [killed EXCEPT ![z] = FALSE]
    /\ chan' = [chan EXCEPT ![p] = 0]
    /\ lock' = NoCPU
    /\ Goto(p, "ret")
    /\ UNCHANGED <<np, nextpid, cpuproc, scan>>

(* wait(): no children, or killed: return -1.                              *)
WaitFails(c) == \E p \in Slots :
    /\ InWait(c, p) /\ Zombies(p) = {}
    /\ Children(p) = {} \/ killed[p]
    /\ chan' = [chan EXCEPT ![p] = 0]
    /\ lock' = NoCPU
    /\ Goto(p, "ret")
    /\ UNCHANGED <<state, pid, parent, killed, np, nextpid, cpuproc, scan>>

(* wait(): sleep(curproc, &ptable.lock), which calls sched() with the lock *)
(* held all along.                                                         *)
WaitSleep(c) == \E p \in Slots :
    /\ InWait(c, p) /\ Zombies(p) = {}
    /\ Children(p) # {} /\ ~killed[p]
    /\ state' = [state EXCEPT ![p] = "SLEEPING"]
    /\ chan' = [chan EXCEPT ![p] = p]
    /\ lock' = c
    /\ Goto(p, "wait")
    /\ UNCHANGED <<pid, parent, killed, np, nextpid, cpuproc, scan>>

(* Mutant of Kill: the sleeper is not woken.                               *)
KillNoWake(c) == \E p \in Slots \ {initproc}, k \in KillPids :
    /\ Running(c, p) /\ pc[p] = "kern" /\ lock = NoCPU
    /\ \E t \in Slots : pid[t] = k
    /\ killed' = [killed EXCEPT ![Min({s \in Slots : pid[s] = k})] = TRUE]
    /\ Goto(p, "ret")
    /\ UNCHANGED <<state, pid, parent, chan, np, nextpid, lock, cpuproc, scan>>

(* kill(): the first slot with that pid, whatever its state is.  init.c    *)
(* makes no such call.                                                     *)
Kill(c) == \E p \in Slots \ {initproc}, k \in KillPids :
    /\ Running(c, p) /\ pc[p] = "kern" /\ lock = NoCPU
    /\ \E t \in Slots : pid[t] = k
    /\ LET t == Min({s \in Slots : pid[s] = k}) IN
        /\ killed' = [killed EXCEPT ![t] = TRUE]
        /\ state' = [state EXCEPT ![t] = IF @ = "SLEEPING" THEN "RUNNABLE"
                                         ELSE @]
    /\ Goto(p, "ret")
    /\ UNCHANGED <<pid, parent, chan, np, nextpid, lock, cpuproc, scan>>

Scheduler(c) == SchedAcquire(c) \/ SchedRun(c) \/ SchedRelease(c)
                \/ SwitchOut(c) \/ Resume(c)
WaitLoop(c) == WaitReap(c) \/ WaitFails(c) \/ WaitSleep(c)
Next == \E c \in CPUs :
    \/ Scheduler(c) \/ Yield(c)
    \/ Trap(c) \/ Fault(c) \/ TrapReturn(c)
    \/ ForkAlloc(c) \/ ForkNoSlot(c) \/ ForkNoMemory(c) \/ ForkCopy(c)
    \/ ForkDone(c)
    \/ ExitCall(c) \/ ExitInit(c) \/ Exit(c)
    \/ WaitEnter(c) \/ WaitLoop(c) \/ Kill(c)

Spec == Init /\ [][Next]_vars

(* What process p does without a choice of its program: it traps when the  *)
(* timer ticks, a system call it made returns, exit() runs to its end.     *)
Progress(c, p) ==
    /\ cpuproc[c] = p
    /\ \/ Trap(c) \/ TrapReturn(c) \/ ForkNoMemory(c) \/ ForkCopy(c)
       \/ ForkDone(c) \/ Exit(c) \/ ExitInit(c) \/ WaitLoop(c)

(* Fairness.  The scheduler loop and a running process go on; the timer    *)
(* ticks again and again; init.c:34 calls wait() again and again.  Strong  *)
(* fairness because a step is disabled while its process is off the CPU or *)
(* another CPU has the lock, which nobody keeps for ever.                  *)
Fairness ==
    /\ \A c \in CPUs : SF_vars(Scheduler(c)) /\ SF_vars(Yield(c))
    /\ \A c \in CPUs, p \in Slots : SF_vars(Progress(c, p))
    /\ \A c \in CPUs : SF_vars(cpuproc[c] = initproc /\ WaitEnter(c))

FairSpec == Spec /\ Fairness

-----------------------------------------------------------------------------
(* The types, and that p->chan is set only inside the sleep() of wait().   *)
TypeOK ==
    /\ state \in [Slots -> States]
    /\ pid \in [Slots -> 0..MaxPid]
    /\ parent \in [Slots -> 0..NPROC]
    /\ chan \in [Slots -> 0..NPROC]
    /\ \A p \in Slots : chan[p] = IF pc[p] = "wait" THEN p ELSE 0
    /\ killed \in [Slots -> BOOLEAN]
    /\ pc \in [Slots -> PCs]
    /\ np \in [Slots -> 0..NPROC]
    /\ nextpid \in 2..(MaxPid + 1)
    /\ lock \in CPUs \cup {NoCPU}
    /\ cpuproc \in [CPUs -> 0..NPROC]
    /\ scan \in [CPUs -> 1..(NPROC + 1)]

Exists(p) == state[p] \notin {"UNUSED", "EMBRYO"}

(* A process runs on one CPU at most, and while a CPU is still on its      *)
(* kernel stack (from scheduler()'s swtch to sched()'s) the slot is not    *)
(* given away: wait() frees the stack of a ZOMBIE only once the CPU left   *)
(* it.  Outside ptable.lock the process on a CPU is RUNNING, and every     *)
(* RUNNING process is on a CPU.                                            *)
OneCpuPerProcess ==
    /\ \A c \in CPUs : cpuproc[c] # 0 =>
        /\ Exists(cpuproc[c])
        /\ lock # c => state[cpuproc[c]] = "RUNNING"
        /\ \A d \in CPUs : cpuproc[d] = cpuproc[c] => d = c
    /\ \A p \in Slots : state[p] = "RUNNING" => \E c \in CPUs : cpuproc[c] = p

(* wait(): a parent that is asleep in wait() has no zombie to reap and has *)
(* not been killed; initproc included, for the children it inherits.       *)
WaitSleepsForAReason ==
    \A p \in Slots : state[p] = "SLEEPING" => Zombies(p) = {} /\ ~killed[p]

(* exit(), "Pass abandoned children to init": the parent of a process      *)
(* other than initproc is a process that can still call wait(), so that no *)
(* zombie stays for ever and no parent pointer outlives its process.       *)
Family ==
    \A p \in Slots \ {initproc} :
        /\ Exists(p) => parent[p] # 0
        /\ parent[p] # 0 => /\ Exists(parent[p])
                            /\ state[parent[p]] # "ZOMBIE"

Panicked == pc[initproc] = "panic"

(* init.c: "zombie!": a zombie that initproc has inherited is reaped, as   *)
(* long as init itself lives.                                              *)
OrphanReaped ==
    \A p \in Slots : state[p] = "ZOMBIE" /\ parent[p] = initproc ~>
        (state[p] = "UNUSED" \/ Panicked)

(* kill(): "Process won't exit until it returns to user space", but then   *)
(* it does, even from the sleep in wait() or from a loop in user space.    *)
KilledExits ==
    \A p \in Slots : killed[p] /\ Exists(p) ~>
        (state[p] \in {"ZOMBIE", "UNUSED"} \/ Panicked)

(* kill(): "Kill the process with the given pid": a process that is killed *)
(* has a pid somebody passed to kill(), or its own program faulted.        *)
KilledByPid ==
    \A p \in Slots : Exists(p) /\ killed[p] =>
        pid[p] \in KillPids \/ pc[p] \in {"exiting", "dead"}
=============================================================================

-------------------------- MODULE ProcTableProofs --------------------------
(***************************************************************************)
(* Proofs about module ProcTable, for any number of processors, slots and  *)
(* pids.  None of its invariants is inductive: who may touch a slot        *)
(* follows from where the other processes are, so that IInv relates the    *)
(* state of a slot to the program counter of its process, every EMBRYO to  *)
(* the one fork() that is filling it, and parent to what fork(), exit()    *)
(* and wait() have done so far.                                            *)
(***************************************************************************)
EXTENDS ProcTable, WellFoundedInduction, TLAPS

(* What the state of a slot says about where its process is.               *)
Places ==
    \A p \in Slots :
        /\ state[p] \in {"UNUSED", "EMBRYO"} => pc[p] \in {"user", "dead"}
        /\ state[p] = "ZOMBIE" => pc[p] = "dead"
        /\ state[p] = "SLEEPING" => pc[p] = "wait"
        /\ pc[p] = "dead" => state[p] \in {"ZOMBIE", "UNUSED", "EMBRYO"}

(* A fork() that has a slot is the only one to have it.                    *)
Forks ==
    /\ \A p \in Slots : np[p] # 0 => state[np[p]] = "EMBRYO"
    /\ \A p \in Slots : np[p] # 0 <=> pc[p] \in {"fork1", "fork2"}
    /\ \A p, q \in Slots : np[p] # 0 /\ np[p] = np[q] => p = q

(* parent is set from fork()'s copy to wait(), and never to the slot       *)
(* itself; initproc has none, and does not exit.                           *)
Parents ==
    /\ \A p \in Slots : state[p] = "UNUSED" => parent[p] = 0
    /\ \A p \in Slots : pc[p] = "fork1" => parent[np[p]] = 0
    /\ \A p \in Slots : pc[p] = "fork2" => parent[np[p]] # 0
    /\ \A p \in Slots : parent[p] # p
    /\ parent[initproc] = 0
    /\ state[initproc] \in {"SLEEPING", "RUNNABLE", "RUNNING"}

IInv ==
    /\ TypeOK /\ Places /\ Forks /\ Parents
    /\ OneCpuPerProcess /\ Family /\ WaitSleepsForAReason

-----------------------------------------------------------------------------
(* The least of a set of numbers is in the set.                            *)
LEMMA MinOfSet ==
    ASSUME NEW S \in SUBSET Nat, S # {}
    PROVE  Min(S) \in S
  <1> DEFINE R == {ss \in Nat \X Nat : ss[1] < ss[2]}
  <1>1. IsWellFoundedOn(R, Nat)
      BY NatLessThanWellFounded, Zenon DEF OpToRel
  <1>2. \A x, y \in Nat : x < y => <<x, y>> \in R
      OBVIOUS
  <1> HIDE DEF R
  <1>3. PICK x \in S : \A y \in S : ~(<<y, x>> \in R)
      BY <1>1, WFMin, Zenon
  <1>4. \A y \in S : x <= y
    <2> TAKE y \in S
    <2>1. ~(y < x)
        BY <1>2, <1>3, Zenon
    <2> QED BY <2>1, SMT
  <1> QED BY <1>4, Zenon DEF Min

(* 0 is the null pointer; other pointers into the table are slots.         *)
LEMMA Pointers ==
    /\ 0 \notin Slots /\ initproc \in Slots
    /\ \A x \in 0..NPROC : x # 0 => x \in Slots
    /\ \A p \in Slots : p \in 0..NPROC
  BY NProcAssumption DEF Slots, initproc

(* The pointers to processes are null or slots of the table.               *)
LEMMA PointersOfTypeOK ==
    ASSUME TypeOK
    PROVE  /\ \A c \in CPUs : cpuproc[c] # 0 => cpuproc[c] \in Slots
           /\ \A p \in Slots : parent[p] # 0 => parent[p] \in Slots
           /\ \A p \in Slots : np[p] # 0 => np[p] \in Slots
  BY Pointers DEF TypeOK

(* Only initproc exists, and it is not in the kernel.                      *)
LEMMA InitIInv == Init => IInv
  <1> SUFFICES ASSUME Init PROVE IInv
      OBVIOUS
  <1> USE NProcAssumption, MaxPidAssumption, CPUAssumption
      DEF Init, Slots, initproc
  <1>1. TypeOK
      BY DEF TypeOK, States, PCs
  <1>2. Places /\ Forks /\ Parents
      BY DEF Places, Forks, Parents
  <1>3. OneCpuPerProcess /\ Family /\ WaitSleepsForAReason
      BY DEF OneCpuPerProcess, Family, WaitSleepsForAReason, Exists
  <1> QED BY <1>1, <1>2, <1>3 DEF IInv

-----------------------------------------------------------------------------
(* The process that a processor runs, or has switched in, is RUNNING.      *)
LEMMA OnCpu ==
    ASSUME IInv, NEW c \in CPUs, NEW p \in Slots,
           Running(c, p) \/ SwitchedIn(c, p)
    PROVE  state[p] = "RUNNING" /\ cpuproc[c] = p /\ p # 0
  BY DEF IInv, OneCpuPerProcess, Running, SwitchedIn

(* What only concerns processes does not see which processor does what.    *)
LEMMA ProcessesUnchanged ==
    ASSUME IInv, UNCHANGED <<procVars, pc, np>>
    PROVE  (Places /\ Forks /\ Parents /\ Family /\ WaitSleepsForAReason)'
  <1> USE DEF IInv, procVars
  <1>1. Places' /\ Forks'
      BY DEF Places, Forks
  <1>2. Parents'
      BY DEF Parents
  <1>3. Family' /\ WaitSleepsForAReason'
      BY DEF Family, WaitSleepsForAReason, Zombies, Children, Exists
  <1> QED BY <1>1, <1>2, <1>3

(* A step of a process within its own code, between two system calls or    *)
(* two statements of one, changes nothing anybody relies on.               *)
LEMMA OwnStep ==
    ASSUME IInv, NEW p \in Slots, state[p] = "RUNNING",
           NEW l \in {"user", "kern", "ret", "exiting", "waitcall", "panic"},
           pc[p] \in {"user", "kern", "ret", "exiting"},
           pc' = [pc EXCEPT ![p] = l],
           UNCHANGED <<state, pid, parent, chan, np, nextpid, lock, cpuproc, scan>>,
           killed' \in [Slots -> BOOLEAN],
           \A q \in Slots \ {p} : killed'[q] = killed[q]
    PROVE  IInv'
  <1> USE DEF IInv
  <1>1. TypeOK'
    <2>1. pc' \in [Slots -> PCs]
        BY DEF TypeOK, PCs
    <2>2. \A q \in Slots : chan'[q] = IF pc'[q] = "wait" THEN q ELSE 0
        BY DEF TypeOK
    <2> QED BY <2>1, <2>2 DEF TypeOK
  <1>2. Places'
      BY DEF Places, TypeOK
  <1>3. Forks'
      BY DEF Forks, TypeOK
  <1>4. Parents'
      BY DEF Parents, TypeOK
  <1>5. OneCpuPerProcess' /\ Family'
      BY DEF OneCpuPerProcess, Family, Exists
  <1>6. WaitSleepsForAReason'
      BY DEF WaitSleepsForAReason, Zombies, Children
  <1> QED BY <1>1, <1>2, <1>3, <1>4, <1>5, <1>6

-----------------------------------------------------------------------------
(* The scheduler's loop and the hand-over of the lock.                     *)
LEMMA SchedulerIInv ==
    ASSUME IInv, NEW c \in CPUs, Scheduler(c)
    PROVE  IInv'
  <1> USE CPUAssumption DEF IInv, procVars
  <1>1. CASE SchedAcquire(c)
    <2>1. scan' \in [CPUs -> 1..(NPROC + 1)] /\ lock' = c
        BY <1>1, NProcAssumption DEF SchedAcquire, TypeOK
    <2>2. UNCHANGED <<procVars, pc, np, nextpid, cpuproc>>
        BY <1>1 DEF SchedAcquire
    <2>3. TypeOK'
        BY <2>1, <2>2 DEF TypeOK
    <2>4. OneCpuPerProcess'
        BY <1>1, <2>1, <2>2 DEF SchedAcquire, OneCpuPerProcess, Exists
    <2> QED BY <2>2, <2>3, <2>4, ProcessesUnchanged
  <1>2. CASE SchedRun(c)
    <2> DEFINE p == Min(RunnableFrom(scan[c]))
    <2>1. p \in Slots /\ state[p] = "RUNNABLE"
        BY <1>2, MinOfSet DEF SchedRun, RunnableFrom, Slots
    <2>2. /\ cpuproc' = [cpuproc EXCEPT ![c] = p]
          /\ state' = [state EXCEPT ![p] = "RUNNING"]
          /\ scan' = [scan EXCEPT ![c] = p + 1]
          /\ cpuproc[c] = 0 /\ lock = c
          /\ UNCHANGED <<pid, parent, chan, killed, pc, np, nextpid, lock>>
        BY <1>2 DEF SchedRun
    <2> HIDE DEF p
    <2>3. TypeOK'
      <3>1. state' \in [Slots -> States]
          BY <2>2 DEF TypeOK, States
      <3>2. p \in 0..NPROC /\ p + 1 \in 1..(NPROC + 1)
          BY <2>1, NProcAssumption DEF Slots
      <3>3. /\ cpuproc' \in [CPUs -> 0..NPROC]
            /\ scan' \in [CPUs -> 1..(NPROC + 1)]
          BY <2>2, <3>2 DEF TypeOK
      <3> QED BY <2>2, <3>1, <3>3 DEF TypeOK
    <2>4. Places' /\ Forks'
        BY <2>1, <2>2 DEF Places, Forks, TypeOK
    <2>5. Parents'
        BY <2>1, <2>2 DEF Parents, TypeOK
    <2>6. OneCpuPerProcess'
      <3>1. \A d \in CPUs : cpuproc[d] # p
          BY <2>1, <2>2, NProcAssumption DEF OneCpuPerProcess, Slots
      <3>2. \A d \in CPUs : cpuproc'[d] = IF d = c THEN p ELSE cpuproc[d]
          BY <2>2 DEF TypeOK
      <3>3. \A q \in Slots : state'[q] = IF q = p THEN "RUNNING" ELSE state[q]
          BY <2>2 DEF TypeOK
      <3>4. \A d \in CPUs : cpuproc[d] # 0 => cpuproc[d] \in Slots
          BY NProcAssumption DEF TypeOK, Slots
      <3>5. ASSUME NEW d \in CPUs, cpuproc'[d] # 0
            PROVE  /\ Exists(cpuproc[d])'
                   /\ lock' # d => state'[cpuproc'[d]] = "RUNNING"
                   /\ \A b \in CPUs : cpuproc'[b] = cpuproc'[d] => b = d
        <4>1. CASE d = c
            BY <4>1, <2>1, <2>2, <3>1, <3>2, <3>3 DEF Exists
        <4>2. CASE d # c
          <5>1. /\ cpuproc'[d] = cpuproc[d] /\ cpuproc[d] # 0
                /\ cpuproc[d] \in Slots /\ cpuproc[d] # p
              BY <3>1, <3>2, <3>4, <3>5, <4>2
          <5>2. state'[cpuproc[d]] = state[cpuproc[d]]
              BY <5>1, <3>3
          <5>3. state[cpuproc[d]] = "RUNNING"
              BY <5>1, <4>2, <2>2 DEF OneCpuPerProcess
          <5>4. \A b \in CPUs : cpuproc'[b] = cpuproc[d] => b = d
              BY <5>1, <3>2, <2>2, <4>2 DEF OneCpuPerProcess
          <5> QED BY <5>1, <5>2, <5>3, <5>4 DEF Exists
        <4> QED BY <4>1, <4>2
      <3>6. ASSUME NEW q \in Slots, state'[q] = "RUNNING"
            PROVE  \E d \in CPUs : cpuproc'[d] = q
        <4>1. CASE q = p
            BY <4>1, <3>2
        <4>2. CASE q # p
          <5>1. PICK d \in CPUs : cpuproc[d] = q
              BY <3>3, <3>6, <4>2 DEF OneCpuPerProcess
          <5>2. d # c
              BY <5>1, <2>2, NProcAssumption DEF Slots
          <5> QED BY <5>1, <5>2, <3>2
        <4> QED BY <4>1, <4>2
      <3> QED BY <3>5, <3>6 DEF OneCpuPerProcess
    <2>7. Family'
        BY <2>1, <2>2 DEF Family, Exists, TypeOK
    <2>8. WaitSleepsForAReason'
        BY <2>1, <2>2 DEF WaitSleepsForAReason, Zombies, Children, TypeOK
    <2> QED BY <2>3, <2>4, <2>5, <2>6, <2>7, <2>8
  <1>3. CASE SchedRelease(c)
    <2>1. TypeOK'
        BY <1>3 DEF SchedRelease, TypeOK
    <2>2. OneCpuPerProcess'
        BY <1>3 DEF SchedRelease, OneCpuPerProcess, Exists
    <2> QED BY <1>3, <2>1, <2>2, ProcessesUnchanged DEF SchedRelease
  <1>4. CASE SwitchOut(c)
    <2>1. cpuproc' \in [CPUs -> 0..NPROC]
        BY <1>4, NProcAssumption DEF SwitchOut, TypeOK
    <2>2. TypeOK'
        BY <1>4, <2>1 DEF SwitchOut, TypeOK
    <2>3. OneCpuPerProcess'
        BY <1>4 DEF SwitchOut, OneCpuPerProcess, Exists, TypeOK
    <2> QED BY <1>4, <2>2, <2>3, ProcessesUnchanged DEF SwitchOut
  <1>5. CASE Resume(c)
    <2>1. TypeOK'
        BY <1>5 DEF Resume, TypeOK
    <2>2. OneCpuPerProcess'
        BY <1>5 DEF Resume, SwitchedIn, OneCpuPerProcess, Exists
    <2> QED BY <1>5, <2>1, <2>2, ProcessesUnchanged DEF Resume
  <1> QED BY <1>1, <1>2, <1>3, <1>4, <1>5 DEF Scheduler

(* Traps, and the beginning and the end of a system call.                  *)
LEMMA TrapIInv ==
    ASSUME IInv, NEW c \in CPUs,
           \/ Trap(c) \/ Fault(c) \/ TrapReturn(c) \/ ForkNoSlot(c)
           \/ ExitCall(c) \/ ExitInit(c) \/ WaitEnter(c)
    PROVE  IInv'
  <1> USE DEF procVars, Goto
  <1>0. killed \in [Slots -> BOOLEAN]
      BY DEF IInv, TypeOK
  <1>1. CASE Trap(c)
    <2>1. PICK p \in Slots : Trap(c)!(p)
        BY <1>1 DEF Trap
    <2> QED BY <1>0, <2>1, OnCpu, OwnStep
  <1>2. CASE Fault(c)
    <2>1. PICK p \in Slots \ {initproc} : Fault(c)!(p)
        BY <1>2 DEF Fault
    <2>2. /\ killed' \in [Slots -> BOOLEAN]
          /\ \A q \in Slots \ {p} : killed'[q] = killed[q]
        BY <1>0, <2>1
    <2> QED BY <2>1, <2>2, OnCpu, OwnStep
  <1>3. CASE TrapReturn(c)
    <2>1. PICK p \in Slots : TrapReturn(c)!(p)
        BY <1>3 DEF TrapReturn
    <2> QED BY <1>0, <2>1, OnCpu, OwnStep
  <1>4. CASE ForkNoSlot(c)
    <2>1. PICK p \in Slots : ForkNoSlot(c)!(p)
        BY <1>4 DEF ForkNoSlot
    <2>2. AfterFailedFork(p) \in {"ret", "exiting"}
        BY DEF AfterFailedFork
    <2> QED BY <1>0, <2>1, <2>2, OnCpu, OwnStep
  <1>5. CASE ExitCall(c)
    <2>1. PICK p \in Slots \ {initproc} : ExitCall(c)!(p)
        BY <1>5 DEF ExitCall
    <2> QED BY <1>0, <2>1, OnCpu, OwnStep
  <1>6. CASE ExitInit(c)
    <2>1. initproc \in Slots
        BY NProcAssumption DEF initproc, Slots
    <2> QED BY <1>0, <1>6, <2>1, OnCpu, OwnStep DEF ExitInit
  <1>7. CASE WaitEnter(c)
    <2>1. PICK p \in Slots : WaitEnter(c)!(p)
        BY <1>7 DEF WaitEnter
    <2> QED BY <1>0, <2>1, OnCpu, OwnStep
  <1> QED BY <1>1, <1>2, <1>3, <1>4, <1>5, <1>6, <1>7

(* The process on a processor gives it up: yield(), sleep() and exit()     *)
(* leave the lock with the processor.                                      *)
LEMMA GivesUp ==
    ASSUME IInv, NEW c \in CPUs, NEW p \in Slots, cpuproc[c] = p,
           state[p] = "RUNNING",
           lock' = c, UNCHANGED cpuproc,
           state'[p] \in {"RUNNABLE", "SLEEPING", "ZOMBIE"},
           lock \in {NoCPU, c},
           \A q \in Slots \ {p} :
               \/ state'[q] = state[q]
               \/ state[q] = "SLEEPING" /\ state'[q] = "RUNNABLE"
    PROVE  OneCpuPerProcess'
  <1> USE CPUAssumption, NProcAssumption DEF IInv, OneCpuPerProcess, Slots
  <1>1. ASSUME NEW d \in CPUs, cpuproc[d] # 0, d # c
        PROVE  /\ cpuproc[d] \in Slots /\ cpuproc[d] # p
               /\ state[cpuproc[d]] = "RUNNING" /\ state'[cpuproc[d]] = "RUNNING"
    <2>1. cpuproc[d] \in Slots
        BY <1>1, PointersOfTypeOK
    <2>2. cpuproc[d] # p /\ lock # d
        BY <1>1
    <2> QED BY <1>1, <2>1, <2>2
  <1>2. ASSUME NEW q \in Slots, state'[q] = "RUNNING"
        PROVE  \E d \in CPUs : cpuproc[d] = q
      BY <1>2
  <1>3. ASSUME NEW d \in CPUs, cpuproc[d] # 0
        PROVE  /\ state'[cpuproc[d]] \notin {"UNUSED", "EMBRYO"}
               /\ c # d => state'[cpuproc[d]] = "RUNNING"
               /\ \A b \in CPUs : cpuproc[b] = cpuproc[d] => b = d
      BY <1>1, <1>3
  <1> QED BY <1>2, <1>3 DEF Exists

(* yield(): the process stays the one of its processor until sched()       *)
(* switches away.                                                          *)
LEMMA YieldIInv ==
    ASSUME IInv, NEW c \in CPUs, Yield(c)
    PROVE  IInv'
  <1>1. PICK p \in Slots : Yield(c)!(p)
      BY DEF Yield
  <1>2. state[p] = "RUNNING" /\ cpuproc[c] = p
      BY <1>1, OnCpu
  <1>3. \A q \in Slots : state'[q] = IF q = p THEN "RUNNABLE" ELSE state[q]
      BY <1>1 DEF IInv, TypeOK
  <1> USE DEF IInv
  <1>4. TypeOK'
    <2>1. state' \in [Slots -> States]
        BY <1>1 DEF TypeOK, States
    <2> QED BY <1>1, <2>1 DEF TypeOK
  <1>5. Places' /\ Forks'
      BY <1>1, <1>2, <1>3 DEF Places, Forks, TypeOK
  <1>6. Parents'
      BY <1>1, <1>3 DEF Parents
  <1>7. OneCpuPerProcess'
      BY <1>1, <1>2, <1>3, GivesUp
  <1>8. Family'
      BY <1>1, <1>2, <1>3 DEF Family, Exists, TypeOK
  <1>9. WaitSleepsForAReason'
      BY <1>1, <1>3 DEF WaitSleepsForAReason, Zombies, Children
  <1> QED BY <1>4, <1>5, <1>6, <1>7, <1>8, <1>9

-----------------------------------------------------------------------------
(* The slot that a fork() is filling is its own: nobody runs in it, no     *)
(* other fork() has it and nobody has it as parent.                        *)
LEMMA ForkSlot ==
    ASSUME IInv, NEW p \in Slots, pc[p] \in {"fork1", "fork2"}, state[p] = "RUNNING"
    PROVE  /\ np[p] \in Slots /\ np[p] # p /\ np[p] # initproc
           /\ state[np[p]] = "EMBRYO" /\ pc[np[p]] \in {"user", "dead"}
           /\ np[np[p]] = 0
           /\ \A q \in Slots \ {p} : np[q] # np[p]
           /\ \A c \in CPUs : cpuproc[c] # np[p]
           /\ \A s \in Slots : parent[s] # np[p]
  <1> USE NProcAssumption DEF IInv
  <1>1. np[p] \in Slots /\ state[np[p]] = "EMBRYO"
      BY PointersOfTypeOK DEF Forks
  <1>2. pc[np[p]] \in {"user", "dead"} /\ np[p] # initproc /\ np[p] # p
      BY <1>1 DEF Places, Parents
  <1>3. np[np[p]] = 0
      BY <1>1, <1>2 DEF Forks
  <1>4. \A q \in Slots \ {p} : np[q] # np[p]
      BY DEF Forks
  <1>5. \A c \in CPUs : cpuproc[c] # np[p]
      BY <1>1 DEF OneCpuPerProcess, Exists, Slots
  <1>6. \A s \in Slots : parent[s] # np[p]
      BY <1>1 DEF Family, Parents, Exists, Slots
  <1> QED BY <1>1, <1>2, <1>3, <1>4, <1>5, <1>6

(* A slot in which no process exists comes and goes unseen.                *)
LEMMA SlotUnseen ==
    ASSUME IInv, NEW s \in Slots, state[s] \in {"UNUSED", "EMBRYO"},
           state' = [state EXCEPT ![s] = "UNUSED"]
               \/ state' = [state EXCEPT ![s] = "EMBRYO"],
           UNCHANGED <<parent, killed, lock, cpuproc>>,
           parent[s] = 0
    PROVE  OneCpuPerProcess' /\ Family' /\ WaitSleepsForAReason'
  <1> USE NProcAssumption DEF IInv, Exists, Slots
  <1>1. \A q \in Slots : q # s => state'[q] = state[q]
      BY DEF TypeOK
  <1>2. state'[s] \in {"UNUSED", "EMBRYO"}
      BY DEF TypeOK
  <1>3. OneCpuPerProcess'
    <2>1. \A c \in CPUs : cpuproc[c] # 0 => cpuproc[c] \in Slots /\ cpuproc[c] # s
        BY PointersOfTypeOK DEF OneCpuPerProcess
    <2> QED BY <1>1, <1>2, <2>1 DEF OneCpuPerProcess
  <1>4. Family'
    <2>1. \A q \in Slots : parent[q] # s
        BY DEF Family, Parents
    <2>2. \A q \in Slots : parent[q] # 0 => parent[q] \in Slots
        BY PointersOfTypeOK
    <2> QED BY <1>1, <1>2, <2>1, <2>2 DEF Family
  <1>5. WaitSleepsForAReason'
      BY <1>1, <1>2 DEF WaitSleepsForAReason, Zombies, Children
  <1> QED BY <1>3, <1>4, <1>5

(* fork(), allocproc(): the slot that is taken was nobody's.               *)
LEMMA ForkAllocIInv ==
    ASSUME IInv, NEW c \in CPUs, ForkAlloc(c)
    PROVE  IInv'
  <1>1. PICK p \in Slots : ForkAlloc(c)!(p)
      BY DEF ForkAlloc
  <1> DEFINE s == Min(Unused)
  <1>2. s \in Slots /\ state[s] = "UNUSED"
      BY <1>1, MinOfSet DEF Unused, Slots
  <1>3. /\ state' = [state EXCEPT ![s] = "EMBRYO"]
        /\ pid' = [pid EXCEPT ![s] = nextpid]
        /\ np' = [np EXCEPT ![p] = s]
        /\ nextpid' = nextpid + 1 /\ nextpid <= MaxPid
        /\ pc' = [pc EXCEPT ![p] = "fork1"] /\ pc[p] = "kern"
        /\ UNCHANGED <<parent, chan, killed, lock, cpuproc, scan>>
      BY <1>1 DEF Goto
  <1> HIDE DEF s
  <1>4. state[p] = "RUNNING" /\ p # s
      BY <1>1, <1>2, OnCpu
  <1> USE NProcAssumption, MaxPidAssumption DEF IInv
  <1>5. parent[s] = 0 /\ s # initproc /\ pc[s] \in {"user", "dead"}
      BY <1>2 DEF Parents, Places
  <1>6. \A q \in Slots : /\ state'[q] = IF q = s THEN "EMBRYO" ELSE state[q]
                         /\ pc'[q] = IF q = p THEN "fork1" ELSE pc[q]
                         /\ np'[q] = IF q = p THEN s ELSE np[q]
      BY <1>3 DEF TypeOK
  <1>7. TypeOK'
    <2>1. /\ state' \in [Slots -> States] /\ pc' \in [Slots -> PCs]
          /\ np' \in [Slots -> 0..NPROC]
        BY <1>2, <1>3, Pointers DEF TypeOK, States, PCs
    <2>2. nextpid \in 0..MaxPid /\ nextpid + 1 \in 2..(MaxPid + 1)
        BY <1>3 DEF TypeOK
    <2>3. \A q \in Slots : chan'[q] = IF pc'[q] = "wait" THEN q ELSE 0
        BY <1>3, <1>6 DEF TypeOK
    <2>4. pid' \in [Slots -> 0..MaxPid] /\ nextpid' \in 2..(MaxPid + 1)
        BY <1>3, <2>2 DEF TypeOK
    <2> QED BY <1>3, <2>1, <2>3, <2>4 DEF TypeOK
  <1>8. Places'
      BY <1>3, <1>4, <1>5, <1>6 DEF Places
  <1>9. Forks'
    <2>1. \A q \in Slots : np[q] # s
        BY <1>2, <1>5 DEF Forks, Slots
    <2>2. s # 0 /\ np[p] = 0
        BY <1>2, <1>3 DEF Forks, Slots
    <2>3. \A q \in Slots : np[q] # 0 => np[q] \in Slots
        BY PointersOfTypeOK
    <2> QED BY <1>2, <1>3, <1>6, <2>1, <2>2, <2>3 DEF Forks
  <1>10. Parents'
      BY <1>3, <1>4, <1>5, <1>6 DEF Parents
  <1>11. OneCpuPerProcess' /\ Family' /\ WaitSleepsForAReason'
      BY <1>2, <1>3, <1>5, SlotUnseen
  <1> QED BY <1>7, <1>8, <1>9, <1>10, <1>11

(* fork(): without memory the slot is free again, as nobody saw it.        *)
LEMMA ForkNoMemoryIInv ==
    ASSUME IInv, NEW c \in CPUs, ForkNoMemory(c)
    PROVE  IInv'
  <1>1. PICK p \in Slots : ForkNoMemory(c)!(p)
      BY DEF ForkNoMemory
  <1>2. state[p] = "RUNNING" /\ pc[p] = "fork1"
      BY <1>1, OnCpu
  <1>3. PICK l \in {"ret", "exiting"} : pc' = [pc EXCEPT ![p] = l]
      BY <1>1 DEF Goto, AfterFailedFork
  <1> USE NProcAssumption DEF IInv
  <1>4. \A q \in Slots : /\ state'[q] = IF q = np[p] THEN "UNUSED" ELSE state[q]
                         /\ pc'[q] = IF q = p THEN l ELSE pc[q]
                         /\ np'[q] = IF q = p THEN 0 ELSE np[q]
      BY <1>1, <1>3 DEF TypeOK
  <1>5. parent[np[p]] = 0
      BY <1>2 DEF Parents
  <1>6. TypeOK'
    <2>1. /\ state' \in [Slots -> States] /\ pc' \in [Slots -> PCs]
          /\ np' \in [Slots -> 0..NPROC]
        BY <1>1, <1>3 DEF TypeOK, States, PCs
    <2>2. \A q \in Slots : chan'[q] = IF pc'[q] = "wait" THEN q ELSE 0
        BY <1>1, <1>2, <1>4 DEF TypeOK
    <2> QED BY <1>1, <2>1, <2>2 DEF TypeOK
  <1>7. Places'
      BY <1>2, <1>4, ForkSlot DEF Places
  <1>8. Forks'
    <2>1. \A q \in Slots : np[q] # 0 => np[q] \in Slots
        BY PointersOfTypeOK
    <2> QED BY <1>2, <1>4, <2>1, ForkSlot DEF Forks
  <1>9. Parents'
      BY <1>1, <1>2, <1>4, <1>5, ForkSlot DEF Parents
  <1>10. OneCpuPerProcess' /\ Family' /\ WaitSleepsForAReason'
      BY <1>1, <1>2, <1>5, ForkSlot, SlotUnseen
  <1> QED BY <1>6, <1>7, <1>8, <1>9, <1>10

(* fork(): the child gets its parent, which runs and cannot be a zombie.   *)
LEMMA ForkCopyIInv ==
    ASSUME IInv, NEW c \in CPUs, ForkCopy(c)
    PROVE  IInv'
  <1>1. PICK p \in Slots : ForkCopy(c)!(p)
      BY DEF ForkCopy
  <1>2. state[p] = "RUNNING" /\ pc[p] = "fork1"
      BY <1>1, OnCpu
  <1> USE NProcAssumption DEF IInv, Goto
  <1>3. \A q \in Slots : /\ parent'[q] = IF q = np[p] THEN p ELSE parent[q]
                         /\ pc'[q] = IF q = p THEN "fork2" ELSE pc[q]
      BY <1>1 DEF TypeOK
  <1>4. TypeOK'
    <2>1. pc' \in [Slots -> PCs] /\ parent' \in [Slots -> 0..NPROC]
        BY <1>1, Pointers DEF TypeOK, PCs
    <2>2. \A q \in Slots : chan'[q] = IF pc'[q] = "wait" THEN q ELSE 0
        BY <1>1, <1>2, <1>3 DEF TypeOK
    <2> QED BY <1>1, <2>1, <2>2 DEF TypeOK
  <1>5. Places'
      BY <1>1, <1>2, <1>3 DEF Places
  <1>6. Forks'
      BY <1>1, <1>2, <1>3 DEF Forks
  <1>7. Parents'
    <2>1. \A q \in Slots : np[q] # 0 => np[q] \in Slots
        BY PointersOfTypeOK
    <2>2. p # 0 /\ np[p] # p /\ np[p] # initproc /\ state[np[p]] = "EMBRYO"
        BY <1>2, ForkSlot DEF Slots
    <2>3. \A q \in Slots \ {p} : pc[q] \in {"fork1", "fork2"} => np[q] # np[p]
        BY <1>2, ForkSlot
    <2>4. \A q \in Slots : pc[q] \in {"fork1", "fork2"} => np[q] \in Slots
        BY <2>1 DEF Forks
    <2> QED BY <1>1, <1>2, <1>3, <2>2, <2>3, <2>4 DEF Parents
  <1>8. OneCpuPerProcess'
      BY <1>1 DEF OneCpuPerProcess, Exists
  <1>9. Family'
    <2>1. p # 0
        BY DEF Slots
    <2> QED BY <1>1, <1>2, <1>3, <2>1 DEF Family, Exists
  <1>10. WaitSleepsForAReason'
      BY <1>1, <1>2, <1>3, ForkSlot DEF WaitSleepsForAReason, Zombies, Children
  <1> QED BY <1>4, <1>5, <1>6, <1>7, <1>8, <1>9, <1>10

(* fork(): the child exists, with the parent it was given.                 *)
LEMMA ForkDoneIInv ==
    ASSUME IInv, NEW c \in CPUs, ForkDone(c)
    PROVE  IInv'
  <1>1. PICK p \in Slots : ForkDone(c)!(p)
      BY DEF ForkDone
  <1>2. state[p] = "RUNNING" /\ pc[p] = "fork2"
      BY <1>1, OnCpu
  <1> DEFINE s == np[p]
  <1>3. /\ s \in Slots /\ s # p /\ s # initproc /\ state[s] = "EMBRYO"
        /\ pc[s] \in {"user", "dead"} /\ np[s] = 0
        /\ \A q \in Slots \ {p} : np[q] # s
        /\ \A d \in CPUs : cpuproc[d] # s
        /\ \A q \in Slots : parent[q] # s
      BY <1>2, ForkSlot
  <1>4. /\ state' = [state EXCEPT ![s] = "RUNNABLE"]
        /\ pc' = [pc EXCEPT ![p] = "ret", ![s] = "user"]
        /\ np' = [np EXCEPT ![p] = 0]
        /\ UNCHANGED <<pid, parent, chan, killed, nextpid, lock, cpuproc, scan>>
      BY <1>1
  <1>5. parent[s] # 0
      BY <1>2 DEF IInv, Parents
  <1> HIDE DEF s
  <1> USE DEF IInv
  <1>6. \A q \in Slots :
          /\ state'[q] = IF q = s THEN "RUNNABLE" ELSE state[q]
          /\ pc'[q] = IF q = p THEN "ret" ELSE IF q = s THEN "user" ELSE pc[q]
          /\ np'[q] = IF q = p THEN 0 ELSE np[q]
      BY <1>3, <1>4 DEF TypeOK
  <1>7. TypeOK'
    <2>0. 0 \in 0..NPROC
        BY NProcAssumption
    <2>1. /\ state' \in [Slots -> States] /\ pc' \in [Slots -> PCs]
          /\ np' \in [Slots -> 0..NPROC]
        BY <1>4, <2>0 DEF TypeOK, States, PCs
    <2>2. \A q \in Slots : chan'[q] = IF pc'[q] = "wait" THEN q ELSE 0
        BY <1>2, <1>3, <1>4, <1>6 DEF TypeOK
    <2> QED BY <1>4, <2>1, <2>2 DEF TypeOK
  <1>8. Places'
      BY <1>2, <1>3, <1>6 DEF Places
  <1>9. Forks'
    <2>1. \A q \in Slots : np[q] # 0 => np[q] \in Slots
        BY PointersOfTypeOK
    <2> QED BY <1>2, <1>3, <1>6, <2>1 DEF Forks
  <1>10. Parents'
    <2>0. parent' = parent
        BY <1>4
    <2>1. \A q \in Slots : pc'[q] \in {"fork1", "fork2"} =>
            pc'[q] = pc[q] /\ np'[q] = np[q]
        BY <1>6
    <2>2. \A q \in Slots : state'[q] = "UNUSED" => state[q] = "UNUSED"
        BY <1>6
    <2>3. state'[initproc] = state[initproc]
        BY <1>3, <1>6, Pointers
    <2>4. /\ \A q \in Slots : pc'[q] = "fork1" => parent'[np'[q]] = 0
          /\ \A q \in Slots : pc'[q] = "fork2" => parent'[np'[q]] # 0
        BY <2>0, <2>1 DEF Parents
    <2>5. \A q \in Slots : state'[q] = "UNUSED" => parent'[q] = 0
        BY <2>0, <2>2 DEF Parents
    <2> QED BY <2>0, <2>3, <2>4, <2>5 DEF Parents
  <1>11. OneCpuPerProcess'
    <2>1. \A d \in CPUs : cpuproc[d] # 0 => cpuproc[d] \in Slots /\ cpuproc[d] # s
        BY <1>3, PointersOfTypeOK
    <2> QED BY <1>4, <1>6, <2>1 DEF OneCpuPerProcess, Exists
  <1>12. Family'
    <2>1. \A q \in Slots : parent[q] # 0 => parent[q] \in Slots /\ parent[q] # s
        BY <1>3, PointersOfTypeOK
    <2> QED BY <1>4, <1>5, <1>6, <2>1 DEF Family, Exists
  <1>13. WaitSleepsForAReason'
      BY <1>4, <1>6 DEF WaitSleepsForAReason, Zombies, Children
  <1> QED BY <1>7, <1>8, <1>9, <1>10, <1>11, <1>12, <1>13

-----------------------------------------------------------------------------
(* exit(): nobody is left with the process as parent, and whoever gets a   *)
(* zombie by it is awake.                                                  *)
LEMMA ExitIInv ==
    ASSUME IInv, NEW c \in CPUs, Exit(c)
    PROVE  IInv'
  <1>1. PICK p \in Slots \ {initproc} : Exit(c)!(p)
      BY DEF Exit
  <1>2. state[p] = "RUNNING" /\ cpuproc[c] = p /\ pc[p] = "exiting" /\ lock = NoCPU
      BY <1>1, OnCpu
  <1> DEFINE children == {s \in Slots : parent[s] = p}
             woken == {parent[p]} \cup
                      {initproc : s \in {t \in children : state[t] = "ZOMBIE"}}
  <1>3. /\ state' = [Wakeup1(woken, state) EXCEPT ![p] = "ZOMBIE"]
        /\ parent' = [s \in Slots |-> IF parent[s] = p THEN initproc ELSE parent[s]]
        /\ pc' = [pc EXCEPT ![p] = "dead"]
        /\ lock' = c
        /\ UNCHANGED <<pid, chan, killed, np, nextpid, cpuproc, scan>>
      BY <1>1, Zenon DEF Goto
  <1> USE DEF IInv
  <1>4. \A q \in Slots : state[q] = "SLEEPING" => chan[q] = q
      BY DEF Places, TypeOK
  <1>5. \A q \in Slots :
          /\ pc'[q] = IF q = p THEN "dead" ELSE pc[q]
          /\ state'[q] = IF q = p THEN "ZOMBIE"
                         ELSE IF state[q] = "SLEEPING" /\ q \in woken THEN "RUNNABLE"
                         ELSE state[q]
          /\ parent'[q] = IF parent[q] = p THEN initproc ELSE parent[q]
      BY <1>2, <1>3, <1>4 DEF Wakeup1, TypeOK
  <1>6. /\ parent[p] \in woken
        /\ \A t \in Slots : parent[t] = p /\ state[t] = "ZOMBIE" => initproc \in woken
      OBVIOUS
  <1> HIDE DEF woken, children
  <1>7. TypeOK'
    <2>1. state' \in [Slots -> States]
        BY <1>3 DEF Wakeup1, TypeOK, States
    <2>2. pc' \in [Slots -> PCs] /\ parent' \in [Slots -> 0..NPROC]
        BY <1>3, Pointers DEF TypeOK, PCs
    <2>3. \A q \in Slots : chan'[q] = IF pc'[q] = "wait" THEN q ELSE 0
        BY <1>2, <1>3, <1>5 DEF TypeOK
    <2> QED BY <1>3, <2>1, <2>2, <2>3 DEF TypeOK
  <1>8. Places'
      BY <1>2, <1>5 DEF Places
  <1>9. Forks'
    <2>1. \A q \in Slots : np[q] # 0 => np[q] \in Slots
        BY PointersOfTypeOK
    <2> QED BY <1>2, <1>3, <1>5, <2>1 DEF Forks
  <1>10. Parents'
    <2>1. \A q \in Slots : pc[q] \in {"fork1", "fork2"} => np[q] \in Slots
        BY PointersOfTypeOK DEF Forks
    <2> QED BY <1>2, <1>3, <1>5, <2>1, Pointers DEF Parents
  <1>11. OneCpuPerProcess'
      BY <1>2, <1>3, <1>5, GivesUp
  <1>12. Family'
    <2>1. \A q \in Slots : parent[q] # 0 => parent[q] \in Slots
        BY PointersOfTypeOK
    <2>2. \A q \in Slots : parent'[q] # 0 =>
             parent'[q] \in Slots /\ parent'[q] # p
        BY <1>5, <2>1, Pointers
    <2> QED BY <1>2, <1>5, <2>1, <2>2, Pointers DEF Family, Exists, Parents
  <1>13. WaitSleepsForAReason'
    <2> SUFFICES ASSUME NEW q \in Slots, state'[q] = "SLEEPING"
                 PROVE  Zombies(q)' = {} /\ ~killed'[q]
        BY DEF WaitSleepsForAReason
    <2>1. q # p /\ state[q] = "SLEEPING" /\ q \notin woken
        BY <1>5
    <2>2. ~killed'[q]
        BY <1>3, <2>1 DEF WaitSleepsForAReason
    <2>3. ASSUME NEW z \in Slots, parent'[z] = q, state'[z] = "ZOMBIE" PROVE FALSE
      <3>1. CASE z = p
          BY <3>1, <1>5, <1>6, <2>1, <2>3 DEF Parents
      <3>2. CASE z # p
        <4>1. state[z] = "ZOMBIE"
            BY <3>2, <1>5, <2>3
        <4>2. parent[z] # p
            BY <4>1, <1>5, <1>6, <2>1, <2>3
        <4> QED BY <4>1, <4>2, <1>5, <2>1, <2>3 DEF WaitSleepsForAReason, Zombies, Children
      <3> QED BY <3>1, <3>2
    <2> QED BY <2>2, <2>3 DEF Zombies, Children
  <1> QED BY <1>7, <1>8, <1>9, <1>10, <1>11, <1>12, <1>13

-----------------------------------------------------------------------------
(* The loop of wait(): its process runs, with the lock or able to take it. *)
LEMMA InsideWait ==
    ASSUME IInv, NEW c \in CPUs, NEW p \in Slots, InWait(c, p)
    PROVE  /\ state[p] = "RUNNING" /\ cpuproc[c] = p
           /\ pc[p] \in {"waitcall", "wait"} /\ lock \in {NoCPU, c}
  BY OnCpu DEF InWait, SwitchedIn

(* wait() returns: to its caller, with the lock free and no channel.       *)
LEMMA WaitReturns ==
    ASSUME IInv, NEW c \in CPUs, NEW p \in Slots, InWait(c, p),
           chan' = [chan EXCEPT ![p] = 0], lock' = NoCPU,
           pc' = [pc EXCEPT ![p] = "ret"]
    PROVE  /\ pc' \in [Slots -> PCs] /\ chan' \in [Slots -> 0..NPROC]
           /\ lock' \in CPUs \cup {NoCPU}
           /\ \A q \in Slots : pc'[q] = IF q = p THEN "ret" ELSE pc[q]
           /\ \A q \in Slots : chan'[q] = IF pc'[q] = "wait" THEN q ELSE 0
  <1> USE NProcAssumption DEF IInv, TypeOK
  <1>1. 0 \in 0..NPROC
      BY SMT
  <1>2. pc' \in [Slots -> PCs] /\ chan' \in [Slots -> 0..NPROC]
      BY <1>1 DEF PCs
  <1>3. \A q \in Slots : pc'[q] = IF q = p THEN "ret" ELSE pc[q]
      OBVIOUS
  <1>4. \A q \in Slots : chan'[q] = IF pc'[q] = "wait" THEN q ELSE 0
      BY <1>3
  <1> QED BY <1>2, <1>3, <1>4

(* wait() without a child, or after kill().                                *)
LEMMA WaitFailsIInv ==
    ASSUME IInv, NEW c \in CPUs, WaitFails(c)
    PROVE  IInv'
  <1>1. PICK p \in Slots : WaitFails(c)!(p)
      BY DEF WaitFails
  <1>2. state[p] = "RUNNING" /\ cpuproc[c] = p /\ pc[p] \in {"waitcall", "wait"}
      BY <1>1, InsideWait
  <1>3. pc' = [pc EXCEPT ![p] = "ret"] /\ lock' = NoCPU
      BY <1>1 DEF Goto
  <1>4. \A q \in Slots : pc'[q] = IF q = p THEN "ret" ELSE pc[q]
      BY <1>1, <1>3, WaitReturns
  <1> USE DEF IInv
  <1>5. TypeOK'
      BY <1>1, <1>3, WaitReturns DEF TypeOK
  <1>6. Places' /\ Forks'
      BY <1>1, <1>2, <1>4 DEF Places, Forks
  <1>7. Parents'
      BY <1>1, <1>4 DEF Parents
  <1>8. OneCpuPerProcess'
    <2>1. \A d \in CPUs : cpuproc[d] # 0 => state[cpuproc[d]] = "RUNNING"
        BY <1>1, <1>2, InsideWait, CPUAssumption DEF OneCpuPerProcess
    <2> QED BY <1>1, <2>1 DEF OneCpuPerProcess, Exists
  <1>9. Family' /\ WaitSleepsForAReason'
      BY <1>1 DEF Family, WaitSleepsForAReason, Zombies, Children, Exists
  <1> QED BY <1>5, <1>6, <1>7, <1>8, <1>9

(* wait(): the process sleeps when it saw no zombie and was not killed.    *)
LEMMA WaitSleepIInv ==
    ASSUME IInv, NEW c \in CPUs, WaitSleep(c)
    PROVE  IInv'
  <1>1. PICK p \in Slots : WaitSleep(c)!(p)
      BY DEF WaitSleep
  <1>2. /\ state[p] = "RUNNING" /\ cpuproc[c] = p /\ pc[p] \in {"waitcall", "wait"}
        /\ lock \in {NoCPU, c}
      BY <1>1, InsideWait
  <1> USE DEF IInv, Goto
  <1>3. \A q \in Slots : /\ state'[q] = IF q = p THEN "SLEEPING" ELSE state[q]
                         /\ pc'[q] = IF q = p THEN "wait" ELSE pc[q]
      BY <1>1 DEF TypeOK
  <1>4. TypeOK'
    <2>1. state' \in [Slots -> States] /\ pc' \in [Slots -> PCs]
        BY <1>1 DEF TypeOK, States, PCs
    <2>2. p \in 0..NPROC /\ chan' \in [Slots -> 0..NPROC]
        BY <1>1, Pointers DEF TypeOK
    <2>3. \A q \in Slots : chan'[q] = IF pc'[q] = "wait" THEN q ELSE 0
        BY <1>1, <1>3 DEF TypeOK
    <2> QED BY <1>1, <2>1, <2>2, <2>3 DEF TypeOK
  <1>5. Places'
      BY <1>2, <1>3 DEF Places
  <1>6. Forks'
    <2>1. \A q \in Slots : np[q] # 0 => np[q] \in Slots
        BY PointersOfTypeOK
    <2> QED BY <1>1, <1>2, <1>3, <2>1 DEF Forks
  <1>7. Parents'
      BY <1>1, <1>2, <1>3, Pointers DEF Parents
  <1>8. OneCpuPerProcess'
      BY <1>1, <1>2, <1>3, GivesUp
  <1>9. Family'
    <2>1. \A q \in Slots : parent[q] # 0 => parent[q] \in Slots
        BY PointersOfTypeOK
    <2> QED BY <1>1, <1>2, <1>3, <2>1 DEF Family, Exists
  <1>10. WaitSleepsForAReason'
      BY <1>1, <1>3 DEF WaitSleepsForAReason, Zombies, Children
  <1> QED BY <1>4, <1>5, <1>6, <1>7, <1>8, <1>9, <1>10

(* wait(): the zombie is on no processor, and nobody's parent, when its    *)
(* slot becomes free.                                                      *)
LEMMA WaitReapIInv ==
    ASSUME IInv, NEW c \in CPUs, WaitReap(c)
    PROVE  IInv'
  <1>1. PICK p \in Slots : WaitReap(c)!(p)
      BY DEF WaitReap
  <1>2. /\ state[p] = "RUNNING" /\ cpuproc[c] = p /\ pc[p] \in {"waitcall", "wait"}
        /\ lock \in {NoCPU, c}
      BY <1>1, InsideWait
  <1> DEFINE z == Min(Zombies(p))
  <1>3. z \in Slots /\ state[z] = "ZOMBIE"
      BY <1>1, MinOfSet DEF Zombies, Children, Slots
  <1>4. /\ state' = [state EXCEPT ![z] = "UNUSED"]
        /\ pid' = [pid EXCEPT ![z] = 0]
        /\ parent' = [parent EXCEPT ![z] = 0]
        /\ killed' = [killed EXCEPT ![z] = FALSE]
        /\ chan' = [chan EXCEPT ![p] = 0] /\ lock' = NoCPU
        /\ pc' = [pc EXCEPT ![p] = "ret"]
        /\ UNCHANGED <<np, nextpid, cpuproc, scan>>
      BY <1>1 DEF Goto
  <1> HIDE DEF z
  <1> USE DEF IInv
  <1>5. \A q \in Slots :
          /\ state'[q] = IF q = z THEN "UNUSED" ELSE state[q]
          /\ parent'[q] = IF q = z THEN 0 ELSE parent[q]
          /\ pc'[q] = IF q = p THEN "ret" ELSE pc[q]
      BY <1>4 DEF TypeOK
  <1>6. \A q \in Slots : q # z => killed'[q] = killed[q]
      BY <1>4 DEF TypeOK
  <1>7. pc[z] = "dead" /\ z # p /\ z # initproc /\ \A q \in Slots : parent[q] # z
      BY <1>2, <1>3, Pointers DEF Places, Parents, Family
  <1>8. TypeOK'
    <2>0. 0 \in 0..NPROC /\ 0 \in 0..MaxPid
        BY NProcAssumption, MaxPidAssumption
    <2>1. /\ state' \in [Slots -> States] /\ pid' \in [Slots -> 0..MaxPid]
          /\ parent' \in [Slots -> 0..NPROC]
        BY <1>4, <2>0 DEF TypeOK, States
    <2>2. killed' \in [Slots -> BOOLEAN]
        BY <1>4 DEF TypeOK
    <2> QED BY <1>1, <1>4, <2>1, <2>2, WaitReturns DEF TypeOK
  <1>9. Places'
      BY <1>2, <1>5, <1>7 DEF Places
  <1>10. Forks'
    <2>1. \A q \in Slots : np[q] # 0 => np[q] \in Slots
        BY PointersOfTypeOK
    <2> QED BY <1>2, <1>3, <1>4, <1>5, <2>1 DEF Forks
  <1>11. Parents'
    <2>1. \A q \in Slots : pc[q] \in {"fork1", "fork2"} =>
             np[q] \in Slots /\ np[q] # z
        BY <1>3, PointersOfTypeOK DEF Forks
    <2> QED BY <1>2, <1>4, <1>5, <1>7, <2>1, Pointers DEF Parents
  <1>12. OneCpuPerProcess'
    <2>1. \A d \in CPUs : cpuproc[d] # 0 =>
             /\ cpuproc[d] \in Slots /\ cpuproc[d] # z
             /\ state[cpuproc[d]] = "RUNNING"
        BY <1>2, <1>3, CPUAssumption, PointersOfTypeOK DEF OneCpuPerProcess
    <2> QED BY <1>4, <1>5, <2>1 DEF OneCpuPerProcess, Exists
  <1>13. Family'
    <2>1. \A q \in Slots : parent[q] # 0 => parent[q] \in Slots /\ parent[q] # z
        BY <1>7, PointersOfTypeOK
    <2> QED BY <1>5, <2>1 DEF Family, Exists
  <1>14. WaitSleepsForAReason'
      BY <1>5, <1>6 DEF WaitSleepsForAReason, Zombies, Children
  <1> QED BY <1>8, <1>9, <1>10, <1>11, <1>12, <1>13, <1>14

(* kill(): whoever is asleep in wait() wakes up.                           *)
LEMMA KillIInv ==
    ASSUME IInv, NEW c \in CPUs, Kill(c)
    PROVE  IInv'
  <1>1. PICK p \in Slots \ {initproc}, k \in KillPids : Kill(c)!(p, k)
      BY DEF Kill
  <1>2. state[p] = "RUNNING" /\ cpuproc[c] = p /\ pc[p] = "kern" /\ lock = NoCPU
      BY <1>1, OnCpu
  <1> DEFINE t == Min({s \in Slots : pid[s] = k})
  <1>3. t \in Slots
      BY <1>1, MinOfSet DEF Slots
  <1>4. /\ killed' = [killed EXCEPT ![t] = TRUE]
        /\ state' = [state EXCEPT ![t] = IF @ = "SLEEPING" THEN "RUNNABLE" ELSE @]
        /\ pc' = [pc EXCEPT ![p] = "ret"]
        /\ UNCHANGED <<pid, parent, chan, np, nextpid, lock, cpuproc, scan>>
      BY <1>1 DEF Goto
  <1> HIDE DEF t
  <1> USE DEF IInv
  <1>5. \A q \in Slots :
          /\ state'[q] = IF q = t /\ state[q] = "SLEEPING" THEN "RUNNABLE" ELSE state[q]
          /\ pc'[q] = IF q = p THEN "ret" ELSE pc[q]
      BY <1>4 DEF TypeOK
  <1>6. \A q \in Slots : q # t => killed'[q] = killed[q]
      BY <1>4 DEF TypeOK
  <1>7. TypeOK'
    <2>1. state' \in [Slots -> States] /\ pc' \in [Slots -> PCs]
        BY <1>4 DEF TypeOK, States, PCs
    <2>2. killed' \in [Slots -> BOOLEAN]
        BY <1>4 DEF TypeOK
    <2>3. \A q \in Slots : chan'[q] = IF pc'[q] = "wait" THEN q ELSE 0
        BY <1>2, <1>4, <1>5 DEF TypeOK
    <2> QED BY <1>4, <2>1, <2>2, <2>3 DEF TypeOK
  <1>8. Places'
      BY <1>2, <1>5 DEF Places
  <1>9. Forks'
    <2>1. \A q \in Slots : np[q] # 0 => np[q] \in Slots
        BY PointersOfTypeOK
    <2> QED BY <1>2, <1>4, <1>5, <2>1 DEF Forks
  <1>10. Parents'
      BY <1>2, <1>4, <1>5, Pointers DEF Parents
  <1>11. OneCpuPerProcess'
    <2>1. \A d \in CPUs : cpuproc[d] # 0 => cpuproc[d] \in Slots
        BY PointersOfTypeOK
    <2> QED BY <1>4, <1>5, <2>1 DEF OneCpuPerProcess, Exists
  <1>12. Family'
    <2>1. \A q \in Slots : parent[q] # 0 => parent[q] \in Slots
        BY PointersOfTypeOK
    <2> QED BY <1>4, <1>5, <2>1 DEF Family, Exists
  <1>13. WaitSleepsForAReason'
      BY <1>4, <1>5, <1>6 DEF WaitSleepsForAReason, Zombies, Children
  <1> QED BY <1>7, <1>8, <1>9, <1>10, <1>11, <1>12, <1>13

-----------------------------------------------------------------------------
(* Every step of the kernel keeps the invariant.                           *)
LEMMA NextIInv == IInv /\ [Next]_vars => IInv'
  <1> SUFFICES ASSUME IInv, [Next]_vars PROVE IInv'
      OBVIOUS
  <1>1. CASE UNCHANGED vars
    <2>1. TypeOK' /\ OneCpuPerProcess'
        BY <1>1 DEF vars, procVars, IInv, TypeOK, OneCpuPerProcess, Exists
    <2> QED BY <1>1, <2>1, ProcessesUnchanged DEF vars, procVars, IInv
  <1>2. ASSUME NEW c \in CPUs,
               \/ Trap(c) \/ Fault(c) \/ TrapReturn(c) \/ ForkNoSlot(c)
               \/ ExitCall(c) \/ ExitInit(c) \/ WaitEnter(c)
        PROVE  IInv'
      BY <1>2, TrapIInv
  <1>3. ASSUME NEW c \in CPUs,
               ForkAlloc(c) \/ ForkNoMemory(c) \/ ForkCopy(c) \/ ForkDone(c)
        PROVE  IInv'
      BY <1>3, ForkAllocIInv, ForkNoMemoryIInv, ForkCopyIInv, ForkDoneIInv
  <1>4. ASSUME NEW c \in CPUs, Scheduler(c) \/ Yield(c) \/ Exit(c) \/ Kill(c)
        PROVE  IInv'
      BY <1>4, SchedulerIInv, YieldIInv, ExitIInv, KillIInv
  <1>5. ASSUME NEW c \in CPUs, WaitLoop(c)
        PROVE  IInv'
      BY <1>5, WaitReapIInv, WaitFailsIInv, WaitSleepIInv DEF WaitLoop
  <1> QED BY <1>1, <1>2, <1>3, <1>4, <1>5 DEF Next

(* Every reachable state satisfies the inductive invariant.                *)
THEOREM SpecIInv == Spec => []IInv
  BY InitIInv, NextIInv, PTL DEF Spec

(* The fields of the process table keep their types, and p->chan is set    *)
(* only inside the sleep() of wait().                                      *)
THEOREM SpecTypeOK == Spec => []TypeOK
  <1>1. IInv => TypeOK
      BY DEF IInv
  <1> QED BY SpecIInv, <1>1, PTL

(* However many processors share the table, swtch() and the hand-over of   *)
(* ptable.lock never let two of them run one process, and no slot is given *)
(* away while a processor is on its kernel stack.                          *)
THEOREM SpecOneCpuPerProcess == Spec => []OneCpuPerProcess
  <1>1. IInv => OneCpuPerProcess
      BY DEF IInv
  <1> QED BY SpecIInv, <1>1, PTL

(* exit() leaves no process with a parent that cannot wait for it.         *)
THEOREM SpecFamily == Spec => []Family
  <1>1. IInv => Family
      BY DEF IInv
  <1> QED BY SpecIInv, <1>1, PTL

(* No parent is asleep in wait() with a zombie to reap or after kill().    *)
THEOREM SpecWaitSleepsForAReason == Spec => []WaitSleepsForAReason
  <1>1. IInv => WaitSleepsForAReason
      BY DEF IInv
  <1> QED BY SpecIInv, <1>1, PTL
=============================================================================

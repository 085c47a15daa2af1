------------------------------ MODULE MCWaiting -----------------------------
(***************************************************************************)
(* Sleep locks and, in behaviours of its own, the process table on one     *)
(* CPU: the part is chosen in the initial state, and the variables of the  *)
(* other keep their initial values.                                        *)
(***************************************************************************)
EXTENDS SleepLock, Integers

CONSTANTS p1, p2, p3, c1

VARIABLES
    part,
    pt_state, pt_pid, parent, chan, killed, pt_pc, np, nextpid, lock, cpuproc, scan

ThreeProcs == {p1, p2, p3}

(* init and two more processes on one CPU.                                 *)
PT == INSTANCE ProcTable WITH
    state <- pt_state, pid <- pt_pid, pc <- pt_pc,
    CPUs <- {c1}, NoCPU <- NoProc, NPROC <- 3, MaxPid <- 3, KillPids <- {2, 3}

tableVars == <<pt_state, pt_pid, parent, chan, killed, pt_pc, np, nextpid, lock,
               cpuproc, scan>>

PartsInit == part \in {"sleeplock", "proc"} /\ Init /\ PT!Init

PartsNext ==
    \/ part = "sleeplock" /\ Next /\ UNCHANGED <<part, tableVars>>
    \/ part = "proc" /\ PT!Next /\ UNCHANGED <<part, vars>>

(* The fairness of the parts, each of the part that runs.                  *)
Fairness ==
    /\ \A p \in Procs : WF_vars(part = "sleeplock" /\ pc[p] # "out" /\ Step(p))
    /\ SF_tableVars(part = "proc" /\ PT!Scheduler(c1))
    /\ SF_tableVars(part = "proc" /\ PT!Yield(c1))
    /\ \A p \in 1..3 : SF_tableVars(part = "proc" /\ PT!Progress(c1, p))
    /\ SF_tableVars(part = "proc" /\ cpuproc[c1] = 1 /\ PT!WaitEnter(c1))

PartsSpec == PartsInit /\ [][PartsNext]_<<part, vars, tableVars>> /\ Fairness

-----------------------------------------------------------------------------
(* Process table: init reaps the zombies it inherits.                      *)
OrphanReaped == PT!OrphanReaped

(* Process table: a killed process exits.                                  *)
KilledExits == PT!KilledExits
=============================================================================

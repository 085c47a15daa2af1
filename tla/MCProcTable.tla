---------------------------- MODULE MCProcTable ----------------------------
(* Model values and bounds for ProcTable.                                  *)
EXTENDS ProcTable, TLC

CONSTANTS c1, c2

TwoCPUs == {c1, c2}
OneCPU == {c1}

(* The two processors are interchangeable.                                 *)
Symmetry == Permutations(TwoCPUs)

(* The loop variable of a scheduler that waits for the lock is reset first *)
(* thing.                                                                  *)
View == <<state, pid, parent, chan, killed, pc, np, nextpid, lock, cpuproc,
          [c \in CPUs |-> IF cpuproc[c] = 0 /\ lock # c THEN 1 ELSE scan[c]]>>
=============================================================================

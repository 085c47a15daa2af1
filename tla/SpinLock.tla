------------------------------- MODULE SpinLock -----------------------------
(***************************************************************************)
(* Spin locks and the interrupt flag: spinlock.c, and the interrupt gates  *)
(* of trap.c.  Each processor has a list of the calls it still has to      *)
(* make; the first of them is replaced by what is left of it after each    *)
(* access to a lock or to the flag.  An interrupt puts the list aside for  *)
(* that of its handler.                                                    *)
(***************************************************************************)
EXTENDS Naturals, Sequences, FiniteSets

CONSTANTS
    Processors, Locks, NoCpu,
    Paths, Handlers     \* the calls that kernel code makes, and those of an
                        \* interrupt handler: sequences of <<op, lock>>

(* What is left of acquire(), without the search for the callers, and of   *)
(* release(): each is named for the step that comes next, "acquire" for    *)
(* its pushcli() and "release" for its holding().                          *)
Acquiring == {"acquire", "notholding", "xchg", "own"}
Releasing == {"release", "disown", "unlock", "popcli"}

(* In a list, whoever acquires a lock releases it before it acquires it    *)
(* again, and releases what it has acquired only.                          *)
Matched(q) ==
    /\ \A i \in 1..Len(q) : q[i][1] \in Acquiring =>
         \E j \in (i + 1)..Len(q) :
            q[j] = <<"release", q[i][2]>> /\ \A k \in (i + 1)..(j - 1) : q[k][2] # q[i][2]
    /\ \A i \in 1..Len(q) : q[i][1] \in Releasing =>
         \A j \in (i + 1)..Len(q) : q[j] = <<"release", q[i][2]>> =>
            \E k \in (i + 1)..(j - 1) : q[k] = <<"acquire", q[i][2]>>

(* The first call on lock l in list q is at one of the steps ops.          *)
Comes(q, l, ops) ==
    \E i \in 1..Len(q) : q[i] \in ops \X {l} /\ \A j \in 1..(i - 1) : q[j][2] # l

ASSUME SpinAssumption ==
    /\ NoCpu \notin Processors
    /\ \A path \in Paths \cup Handlers :
         /\ path \in Seq({"acquire", "release"} \X Locks) /\ Matched(path)
         /\ \A l \in Locks : ~Comes(path, l, {"release"})

VARIABLES
    task,               \* calls to make
    below,              \* the lists of calls that interrupts have put aside
    intr,               \* the interrupt flag
    ncli, intena,       \* of struct cpu
    locked, cpu,        \* of struct spinlock
    stopped             \* panic() was called

spinVars == <<task, below, intr, ncli, intena, locked, cpu, stopped>>

SpinInit ==
    /\ task = [c \in Processors |-> << >>] /\ below = [c \in Processors |-> << >>]
    /\ intr = [c \in Processors |-> TRUE]
    /\ ncli = [c \in Processors |-> 0] /\ intena = [c \in Processors |-> FALSE]
    /\ locked = [l \in Locks |-> FALSE] /\ cpu = [l \in Locks |-> NoCpu]
    /\ stopped = FALSE

Enter(c, path) ==
    /\ ~stopped /\ task[c] = << >> /\ below[c] = << >>
    /\ task' = [task EXCEPT ![c] = path]
    /\ UNCHANGED <<below, intr, ncli, intena, locked, cpu, stopped>>

(* An interrupt gate clears the flag, iret sets it again.                  *)
Interrupt(c, path) ==
    /\ ~stopped /\ intr[c]
    /\ task' = [task EXCEPT ![c] = path]
    /\ below' = [below EXCEPT ![c] = <<task[c]>> \o @]
    /\ intr' = [intr EXCEPT ![c] = FALSE]
    /\ UNCHANGED <<ncli, intena, locked, cpu, stopped>>
Iret(c) ==
    /\ ~stopped /\ task[c] = << >> /\ below[c] # << >>
    /\ task' = [task EXCEPT ![c] = Head(below[c])]
    /\ below' = [below EXCEPT ![c] = Tail(@)]
    /\ intr' = [intr EXCEPT ![c] = TRUE]
    /\ UNCHANGED <<ncli, intena, locked, cpu, stopped>>

(* Step op of the call on l: there is more of the call, or it returns.     *)
At(c, op, l) == ~stopped /\ task[c] # << >> /\ Head(task[c]) = <<op, l>>
Then(c, op, l) == task' = [task EXCEPT ![c] = <<<<op, l>>>> \o Tail(@)]
Return(c) == task' = [task EXCEPT ![c] = Tail(@)]

(* Mutant of Pushcli: interrupts stay on.                                  *)
PushcliOn(c, l) ==
    /\ At(c, "acquire", l) /\ Then(c, "notholding", l)
    /\ intena' = [intena EXCEPT ![c] = IF ncli[c] = 0 THEN intr[c] ELSE @]
    /\ ncli' = [ncli EXCEPT ![c] = @ + 1]
    /\ UNCHANGED <<below, intr, locked, cpu, stopped>>

Pushcli(c, l) ==
    /\ At(c, "acquire", l) /\ Then(c, "notholding", l)
    /\ intr' = [intr EXCEPT ![c] = FALSE]
    /\ intena' = [intena EXCEPT ![c] = IF ncli[c] = 0 THEN intr[c] ELSE @]
    /\ ncli' = [ncli EXCEPT ![c] = @ + 1]
    /\ UNCHANGED <<below, locked, cpu, stopped>>

(* popcli() with its two panics                                            *)
Popcli(c, l) ==
    /\ At(c, "popcli", l) /\ Return(c)
    /\ stopped' = (intr[c] \/ ncli[c] = 0)
    /\ ncli' = [ncli EXCEPT ![c] = IF @ = 0 THEN 0 ELSE @ - 1]
    /\ intr' = [intr EXCEPT ![c] = ncli[c] = 1 /\ intena[c]]
    /\ UNCHANGED <<below, intena, locked, cpu>>

(* holding(), and the panics of acquire() and release()                    *)
Holding(c, l) == locked[l] /\ cpu[l] = c
CheckHolding(c, l) ==
    /\ \/ At(c, "notholding", l) /\ Then(c, "xchg", l) /\ stopped' = Holding(c, l)
       \/ At(c, "release", l) /\ Then(c, "disown", l) /\ stopped' = ~Holding(c, l)
    /\ UNCHANGED <<below, intr, ncli, intena, locked, cpu>>

Xchg(c, l) ==
    /\ At(c, "xchg", l) /\ ~locked[l] /\ Then(c, "own", l)
    /\ locked' = [locked EXCEPT ![l] = TRUE]
    /\ UNCHANGED <<below, intr, ncli, intena, cpu, stopped>>
Unlock(c, l) ==
    /\ At(c, "unlock", l) /\ Then(c, "popcli", l)
    /\ locked' = [locked EXCEPT ![l] = FALSE]
    /\ UNCHANGED <<below, intr, ncli, intena, cpu, stopped>>
SetCpu(c, l) ==
    /\ \/ At(c, "own", l) /\ Return(c) /\ cpu' = [cpu EXCEPT ![l] = c]
       \/ At(c, "disown", l) /\ Then(c, "unlock", l) /\ cpu' = [cpu EXCEPT ![l] = NoCpu]
    /\ UNCHANGED <<below, intr, ncli, intena, locked, stopped>>

SpinNext == \E c \in Processors :
    \/ \E path \in Paths : Enter(c, path)
    \/ \E path \in Handlers : Interrupt(c, path)
    \/ Iret(c)
    \/ \E l \in Locks : Pushcli(c, l) \/ Popcli(c, l) \/
           CheckHolding(c, l) \/ Xchg(c, l) \/ Unlock(c, l) \/ SetCpu(c, l)

SpinSpec == SpinInit /\ [][SpinNext]_spinVars

-----------------------------------------------------------------------------
(* The code of processor c, or code interrupted on it, has lock l.         *)
Inside == {"own", "release", "disown", "unlock"}
Interrupted(c) == {below[c][i] : i \in 1..Len(below[c])}
InSection(c, l) == \E q \in {task[c]} \cup Interrupted(c) : Comes(q, l, Inside)

(* One processor at a time is between acquire() and release() of a lock,   *)
(* none of the four panics happens whatever the other processors and the   *)
(* handlers are doing, and interrupts are on again exactly when the last   *)
(* lock is given up.                                                       *)
SpinExclusion ==
    /\ ~stopped
    /\ \A l \in Locks : \A c, d \in Processors : InSection(c, l) /\ InSection(d, l) => c = d
    /\ \A c \in Processors : task[c] = << >> /\ below[c] = << >> => intr[c] /\ ncli[c] = 0

(* A handler never spins on a lock that the code it interrupted holds.     *)
HandlerNeverSpins ==
    \A c \in Processors, l \in Locks :
        task[c] # << >> /\ Head(task[c]) = <<"xchg", l>> => ~InSection(c, l)

(* Spin locks exclude, and nothing waits for its own processor.            *)
SpinLocksSound == SpinExclusion /\ HandlerNeverSpins
=============================================================================

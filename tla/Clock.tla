-------------------------------- MODULE Clock -------------------------------
(***************************************************************************)
(* The clock: the timer interrupt of trap.c counts ticks, sys_sleep() and  *)
(* sys_uptime() (sysproc.c) read them.  tickslock is held from the test of *)
(* the loop to the moment the process is SLEEPING; kill() does not take    *)
(* it.  ticks wraps at WORD.                                               *)
(***************************************************************************)
EXTENDS Integers, FiniteSetsExt

CONSTANTS
    Procs,
    WORD,       \* the number of values of ticks, 2^32 in the kernel
    Naps        \* Naps[p]: the arguments of the calls of sleep() of p

ClockAssumption == WORD \in Nat \ {0} /\ Naps \in [Procs -> SUBSET Int]

VARIABLES
    ticks,
    pr,         \* pr[p]: where p is, ticks0, n, killed, and the result
    tickslock,  \* processes that hold it
    age         \* history: ticks since p called sleep(), up to WORD

clockVars == <<ticks, pr, tickslock, age>>

U(n) == n % WORD

ClockInit ==
    /\ ticks \in 0..(WORD - 1)
    /\ pr = [p \in Procs |-> [at |-> "user", t0 |-> 0, n |-> 0, killed |-> FALSE, ret |-> 0]]
    /\ tickslock = {} /\ age = [p \in Procs |-> 0]

(* sys_sleep(): ticks0 is read.                                            *)
SysSleep(p, n) ==
    /\ pr[p].at = "user" /\ ~pr[p].killed /\ tickslock = {}
    /\ pr' = [pr EXCEPT ![p] = [@ EXCEPT !.at = "loop", !.t0 = ticks, !.n = n]]
    /\ tickslock' = {p} /\ age' = [age EXCEPT ![p] = 0]
    /\ UNCHANGED ticks

(* Mutant of Asleep: the times are compared, not their difference.         *)
AsleepUntil(p) == ticks < U(pr[p].t0 + pr[p].n)

(* ticks - ticks0 < n: the int n is converted to unsigned.                 *)
Asleep(p) == U(ticks - pr[p].t0) < U(pr[p].n)

(* The test of the loop, and of killed.                                    *)
Test(p) ==
    /\ pr[p].at = "loop" /\ tickslock = {p}
    /\ IF Asleep(p) /\ ~pr[p].killed
       THEN /\ pr' = [pr EXCEPT ![p].at = "sleep"]
            /\ UNCHANGED <<tickslock, age>>
       ELSE /\ pr' = [pr EXCEPT ![p] = [at |-> "user", t0 |-> 0, n |-> 0,
                          killed |-> @.killed, ret |-> IF Asleep(p) THEN -1 ELSE 0]]
            /\ tickslock' = {} /\ age' = [age EXCEPT ![p] = 0]
    /\ UNCHANGED ticks

(* sleep() of proc.c: SLEEPING on &ticks, and tickslock is given up; it is *)
(* taken again after the wakeup.                                           *)
Sleep(p) ==
    /\ pr[p].at = "sleep"
    /\ pr' = [pr EXCEPT ![p].at = "sleeping"] /\ tickslock' = {}
    /\ UNCHANGED <<ticks, age>>
Awake(p) ==
    /\ pr[p].at = "woken" /\ tickslock = {}
    /\ pr' = [pr EXCEPT ![p].at = "loop"] /\ tickslock' = {p}
    /\ UNCHANGED <<ticks, age>>

(* wakeup1(&ticks), and what kill() does with a sleeping process           *)
Wakened(P) == [p \in Procs |->
    IF p \in P /\ pr[p].at = "sleeping" THEN [pr[p] EXCEPT !.at = "woken"] ELSE pr[p]]

(* The timer interrupt of CPU 0.                                           *)
Tick ==
    /\ tickslock = {}
    /\ ticks' = U(ticks + 1)
    /\ pr' = Wakened(Procs)
    /\ age' = [p \in Procs |-> IF pr[p].at = "user" THEN 0 ELSE Min({age[p] + 1, WORD})]
    /\ UNCHANGED tickslock

(* kill(): a process that is about to sleep is not woken.                  *)
Kill(p) ==
    /\ pr[p].at # "user" /\ ~pr[p].killed
    /\ pr' = [Wakened({p}) EXCEPT ![p].killed = TRUE]
    /\ UNCHANGED <<ticks, tickslock, age>>

(* trap(): a killed process leaves; another takes its place.               *)
Exit(p) ==
    /\ pr[p].at = "user" /\ pr[p].killed
    /\ pr' = [pr EXCEPT ![p].killed = FALSE]
    /\ UNCHANGED <<ticks, tickslock, age>>

Step(p) == Test(p) \/ Sleep(p) \/ Awake(p) \/ Exit(p)

ClockNext ==
    \/ Tick
    \/ \E p \in Procs : Step(p) \/ Kill(p) \/ \E n \in Naps[p] : SysSleep(p, n)

ClockSpec == ClockInit /\ [][ClockNext]_clockVars

(* Every process runs, and the clock ticks; the spin lock is fair enough.  *)
FairClockSpec ==
    /\ ClockSpec /\ SF_clockVars(Tick)
    /\ \A p \in Procs : SF_clockVars(Step(p))

-----------------------------------------------------------------------------
(* sleep(n) does not return 0 before n ticks have passed, wherever the     *)
(* counter wraps in between.                                               *)
SleepsLongEnough == [][\A p \in Procs :
    pr[p].at = "loop" /\ pr'[p].at = "user" /\ pr'[p].ret = 0 => age[p] >= U(pr[p].n)]_clockVars

(* A killed process returns from sleep(): a kill() that found it on its    *)
(* way to sleep is noticed at the next tick.                               *)
KilledReturns == \A p \in Procs :
    pr[p].killed /\ pr[p].at # "user" ~> pr[p].at = "user"
=============================================================================

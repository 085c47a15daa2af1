------------------------------- MODULE Relay -------------------------------
(***************************************************************************)
(* The relay race (Assignment 7, relay.c): one thread per runner, chained  *)
(* by semaphores.  sem[k] is the semaphore runner k posts and runner k + 1 *)
(* waits for: sem_global, sem_global2, sem_global3 for N = 4 runners.      *)
(***************************************************************************)
EXTENDS Naturals

CONSTANT N   \* number of runners; 4 in relay.c

ASSUME NAssumption == N \in Nat /\ N >= 2

Runners == 1..N
Sems == 1..(N - 1)

VARIABLES
    thread,    \* thread[k]: what thread Runner<k> does next
    sem,       \* sem[k]: value of the k-th semaphore
    created,   \* main(): threads created so far
    joined,    \* main(): threads joined so far
    destroyed  \* main(): the semaphores are destroyed

raceVars == <<thread, sem, created, joined, destroyed>>

(* main(): sem_init(&sem, 0, 0) for each semaphore.                        *)
RaceInit ==
    /\ thread = [k \in Runners |-> "none"]
    /\ sem = [k \in Sems |-> 0]
    /\ created = 0 /\ joined = 0
    /\ destroyed = FALSE

(* main(): pthread_create(), in order.                                     *)
Create ==
    /\ created < N
    /\ created' = created + 1
    /\ thread' = [thread EXCEPT ![created + 1] = "start"]
    /\ UNCHANGED <<sem, joined, destroyed>>

(* Mutant of TakeOff: the runner does not wait.                            *)
TakeOffNoWait(k) ==
    /\ thread[k] = "start"
    /\ thread' = [thread EXCEPT ![k] = "running"]
    /\ UNCHANGED <<sem, created, joined, destroyed>>

(* sem_wait() on the predecessor's semaphore, for all but the first, then  *)
(* printf("... has taken off").                                            *)
TakeOff(k) ==
    /\ thread[k] = "start"
    /\ k > 1 => sem[k - 1] > 0
    /\ sem' = [j \in Sems |-> IF j = k - 1 THEN sem[j] - 1 ELSE sem[j]]
    /\ thread' = [thread EXCEPT ![k] = "running"]
    /\ UNCHANGED <<created, joined, destroyed>>

(* make_runner_run() is over: sem_post(), for all but the last; return.    *)
Finish(k) ==
    /\ thread[k] = "running"
    /\ sem' = [j \in Sems |-> IF j = k THEN sem[j] + 1 ELSE sem[j]]
    /\ thread' = [thread EXCEPT ![k] = "done"]
    /\ UNCHANGED <<created, joined, destroyed>>

(* main(): pthread_join(), in order.                                       *)
Join ==
    /\ created = N /\ joined < N /\ thread[joined + 1] = "done"
    /\ joined' = joined + 1
    /\ UNCHANGED <<thread, sem, created, destroyed>>

(* Mutant of Destroy: main() does not wait for the threads.                *)
DestroyEarly ==
    /\ created = N /\ ~destroyed
    /\ destroyed' = TRUE
    /\ UNCHANGED <<thread, sem, created, joined>>

(* main(): sem_destroy() of all semaphores.                                *)
Destroy ==
    /\ joined = N /\ ~destroyed
    /\ destroyed' = TRUE
    /\ UNCHANGED <<thread, sem, created, joined>>

RaceNext == Create \/ Join \/ Destroy \/ \E k \in Runners : TakeOff(k) \/ Finish(k)

RaceSpec == RaceInit /\ [][RaceNext]_raceVars

(* The threads are scheduled and make_runner_run() returns.                *)
FairRaceSpec == RaceSpec /\ WF_raceVars(RaceNext)

-----------------------------------------------------------------------------
(* relay.c: "Runner1 always executes first, then Runner2, then Runner3,    *)
(* then Runner4 last"; README: "only one runner thread is executing at a   *)
(* given time".  Whoever has taken off finds all earlier runners done.     *)
RunInTurn ==
    \A k \in Runners : thread[k] \in {"running", "done"} =>
        \A j \in 1..(k - 1) : thread[j] = "done"

(* A semaphore is destroyed only when no thread can touch it any more.     *)
DestroyedUnused == destroyed => \A k \in Runners : thread[k] = "done"

(* "There should be no deadlocks": the race ends and main() returns.       *)
RaceEnds == <>destroyed
=============================================================================

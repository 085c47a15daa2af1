------------------------------ MODULE MCPrograms ---------------------------
(***************************************************************************)
(* Programs that have to come to an end, and the kernel services they wait *)
(* for: the relay race, the shell, the log and the clock.                  *)
(* Each behaviour is one of the part chosen in the initial state; the      *)
(* variables of the others keep an initial value.                          *)
(***************************************************************************)
EXTENDS Relay, Log, Clock, Shell, TLC

CONSTANTS a1, a2, x, y, k1, k2, k3, NoProc

VARIABLE part

(* A pipeline of three programs; one with a list and a program that is not *)
(* there; one in the background with a redirection.                        *)
Run(name) == [type |-> "EXEC", argv |-> <<name>>]
Two(type, a, b) == [type |-> type, left |-> a, right |-> b]
Copies2 == Two("PIPE", Run("cat"), Run("cat"))
Listed == Two("LIST", Run("src"), Run("missing"))
ToFile == [type |-> "REDIR", cmd |-> Run("cat"), file |-> "x", mode |-> "", fd |-> 1]
Filed == Two("PIPE", Run("src"), ToFile)
SomeCommands == {Two("PIPE", Run("src"), Copies2), Two("PIPE", Listed, Run("missing")),
                 [type |-> "BACK", cmd |-> Filed]}
SomeTrees == SomeCommands \cup {Copies2, Listed, ToFile, Filed}
             \cup {Run(name) : name \in {"src", "cat", "missing"}}

(* More blocks than the log may take, and operations that write one each:  *)
(* it is begin_op() that keeps the log from filling up.                    *)
FL == INSTANCE Log WITH Vals <- {x}, OpBlocks <- 1

(* Two processes that sleep for 1 or for -1 ticks, counted modulo 4.       *)
SomeNaps == a1 :> {1} @@ a2 :> {-1}

ASSUME PartsAssumption ==
    /\ SizesAssumption /\ FL!SizesAssumption /\ NoBlockAssumption
    /\ ClockAssumption

logVars == vars
partsVars == <<part, raceVars, shellVars, logVars, clockVars>>

PartsInit ==
    /\ part \in {"relay", "shell", "log", "full", "clock"}
    /\ RaceInit /\ ShellInit /\ ClockInit
    /\ IF part = "full" THEN FL!Init ELSE Init
    /\ home[k3] = x
    /\ part \notin {"log", "full"} => home = [b \in {k1, k2, k3} |-> x] /\ logblk = [i \in 1..4 |-> x]
    /\ part # "clock" => ticks = 0

(* A step of one part leaves the variables of the others alone.            *)
InRelay == part = "relay" /\ UNCHANGED <<part, shellVars, logVars, clockVars>>
InShell == part = "shell" /\ UNCHANGED <<part, raceVars, logVars, clockVars>>
InLog == part = "log" /\ UNCHANGED <<part, raceVars, shellVars, clockVars>>
InFull == part = "full" /\ UNCHANGED <<part, raceVars, shellVars, clockVars>>
InClock == part = "clock" /\ UNCHANGED <<part, raceVars, shellVars, logVars>>

PartsNext ==
    \/ InRelay /\ RaceNext
    \/ InShell /\ ShellNext
    \/ InLog /\ Next /\ k3 \notin {pend'[a1], pend'[a2]}
    \/ InFull /\ FL!Next
    \/ InClock /\ ClockNext

(* The fairness of the parts.  No two parts run in one behaviour, so that  *)
(* one formula for a step of each is as good as a formula for every step.  *)
Weak ==
    /\ WF_partsVars(\/ InRelay /\ RaceNext
                    \/ InShell /\ Prompt
                    \/ InLog /\ LogStep)
    /\ WF_partsVars(\/ InShell /\ ShellStep(1)
                    \/ InLog /\ LogWriteAppend(a1))
    /\ WF_partsVars(\/ InShell /\ ShellStep(2)
                    \/ InLog /\ LogWriteAppend(a2))
    /\ \A q \in 3..5 : WF_partsVars(InShell /\ ShellStep(q))
Strong ==
    /\ \A p \in {a1, a2} : SF_partsVars(\/ InLog /\ EndOp(p)
                                        \/ InClock /\ Step(p))
    /\ SF_partsVars(InClock /\ Tick)

PartsSpec == PartsInit /\ [][PartsNext]_partsVars /\ Weak /\ Strong

-----------------------------------------------------------------------------
(* Every wait ends: main() of the race joins its threads and returns; the  *)
(* shell, waiting for a command line, gets its prompt back; a process      *)
(* asleep in begin_op() is woken; a killed process leaves sleep().  These  *)
(* are RaceEnds, PromptReturns, BeginWoken and KilledReturns of the parts.  *)
Waiting(p) ==
    \/ part = "relay" /\ ~destroyed
    \/ part = "shell" /\ proc[1].at = "waiting"
    \/ part = "log" /\ op[p] = "asleep"
    \/ part = "clock" /\ pr[p].killed /\ pr[p].at # "user"
EveryWaitEnds == \A p \in {a1, a2} : Waiting(p) ~> ~Waiting(p)
=============================================================================

------------------------------- MODULE MiniShell ----------------------------
(***************************************************************************)
(* The mini-shell of assignment 5 (shell.c): the commands it runs, one or  *)
(* two with a pipe, its children, its descriptors of pipes and its         *)
(* history.                                                                *)
(***************************************************************************)
EXTENDS Integers, FiniteSets, Sequences

CONSTANTS
    Names,          \* of commands that are not built in
    HIST,           \* lines of the history (128)
    MaxLines        \* bound: lines typed

ASSUME MiniShellAssumption ==
    {HIST, MaxLines} \subseteq Nat /\ HIST > 0

BuiltIns == {"exit", "help", "cd", "history"}

VARIABLES
    at,             \* what the shell does next
    cmds,           \* the commands of the line, and their number
    kids,           \* children: which command of which line they run, and whether it is done
    fds,            \* the ends of pipes the shell has open: <<pipe, "r" or "w">>
    pipes,          \* pipes made
    commands, size, \* the history
    entered,        \* history: all the commands typed
    unforked        \* history: pipelines for which a fork() failed

miniVars == <<at, cmds, kids, fds, pipes, commands, size, entered, unforked>>
historyVars == <<commands, size, entered>>

MiniInit ==
    /\ at = "prompt" /\ cmds = << >> /\ kids = {} /\ fds = {} /\ pipes = 0
    /\ commands = [i \in 0..(HIST - 1) |-> ""] /\ size = 0 /\ entered = << >>
    /\ unforked = 0

-----------------------------------------------------------------------------
(* size++, size = size % 128                                               *)
After(n) == (n + 1) % HIST

(* main(): the line is read and split at |; the first word of each command *)
(* goes to the history.                                                    *)
Store(h, word) == [commands |-> [h.commands EXCEPT ![h.size] = word], size |-> After(h.size)]
Stored(words) ==
    LET one == Store([commands |-> commands, size |-> size], words[1]) IN
    IF Len(words) = 1 THEN one ELSE Store(one, words[2])
Line(words) ==
    /\ at = "prompt" /\ Len(entered) < MaxLines
    /\ cmds' = words /\ at' = IF Len(words) = 1 THEN "handle" ELSE "pipe"
    /\ commands' = Stored(words).commands
    /\ size' = Stored(words).size
    /\ entered' = entered \o words
    /\ UNCHANGED <<kids, fds, pipes, unforked>>

(* wait(NULL): any child that is done, or at once without children.        *)
WaitsOne(then) ==
    /\ \/ kids = {} /\ UNCHANGED kids
       \/ \E k \in kids : k.done /\ kids' = kids \ {k}
    /\ at' = then
    /\ UNCHANGED <<cmds, fds, pipes, historyVars, unforked>>

Kid(i) == [line |-> Len(entered), cmd |-> i, done |-> FALSE]

(* handleInputs(), otherCommands(): a built-in command, or a child and a   *)
(* wait(), also when fork() fails.                                         *)
HandleInputs ==
    /\ at = "handle"
    /\ IF cmds[1] \in BuiltIns
       THEN at' = (IF cmds[1] = "exit" THEN "exited" ELSE "prompt") /\ UNCHANGED kids
       ELSE /\ at' = "wait"
            /\ kids' \in {kids, kids \cup {Kid(1)}}
    /\ UNCHANGED <<cmds, fds, pipes, historyVars, unforked>>
OtherWait == at = "wait" /\ WaitsOne("prompt")

(* handleTwoInputs(): pipe() fails or not.                                 *)
MakePipe ==
    /\ at = "pipe"
    /\ \/ at' = "prompt" /\ UNCHANGED <<fds, pipes>>
       \/ /\ at' = "first" /\ pipes' = pipes + 1
          /\ fds' = fds \cup {<<pipes + 1, "r">>, <<pipes + 1, "w">>}
    /\ UNCHANGED <<cmds, kids, historyVars, unforked>>

(* The two forks: one that fails returns with both ends open.              *)
FirstFork ==
    /\ at = "first"
    /\ \/ at' = "second" /\ kids' = kids \cup {Kid(1)} /\ UNCHANGED unforked
       \/ at' = "prompt" /\ unforked' = unforked + 1 /\ UNCHANGED kids
    /\ UNCHANGED <<cmds, fds, pipes, historyVars>>

(* Mutant of Closes: the shell keeps the end for writing.                  *)
ClosesNone(open) == open

(* close(fd[1]): the other end stays open in the shell.                    *)
Closes(open) == open \ {<<pipes, "w">>}

SecondFork ==
    /\ at = "second"
    /\ \/ /\ at' = "wait1" /\ fds' = Closes(fds)
          /\ kids' = kids \cup {Kid(2)} /\ UNCHANGED unforked
       \/ at' = "prompt" /\ unforked' = unforked + 1 /\ UNCHANGED <<kids, fds>>
    /\ UNCHANGED <<cmds, pipes, historyVars>>
TwoWaits ==
    \/ at = "wait1" /\ WaitsOne("wait2")
    \/ at = "wait2" /\ WaitsOne("prompt")

-----------------------------------------------------------------------------
(* A child ends, its command done or not found.                            *)
Done(k) ==
    /\ ~k.done /\ kids' = (kids \ {k}) \cup {[k EXCEPT !.done = TRUE]}
    /\ UNCHANGED <<at, cmds, fds, pipes, historyVars, unforked>>

(* sigint_handler(): one wait(), then exit(); the children get the signal, *)
(* too.                                                                    *)
Sigint ==
    /\ at \notin {"exited", "terminated"}
    /\ kids' = {[k EXCEPT !.done = TRUE] : k \in kids} /\ at' = "interrupted"
    /\ UNCHANGED <<cmds, fds, pipes, historyVars, unforked>>
SigintWait == at = "interrupted" /\ WaitsOne("terminated")

LinesTyped == {<<w>> : w \in Names \cup BuiltIns} \cup {<<v, w>> : v, w \in Names}

MiniNext ==
    \/ \E words \in LinesTyped : Line(words)
    \/ HandleInputs \/ OtherWait \/ MakePipe \/ FirstFork \/ SecondFork \/ TwoWaits
    \/ \E k \in kids : Done(k)
    \/ Sigint \/ SigintWait

MiniSpec == MiniInit /\ [][MiniNext]_miniVars

-----------------------------------------------------------------------------
(* At the prompt every command of the lines before is over, and the shell  *)
(* holds one end of a pipe, for reading, for each pipeline it ran, unless  *)
(* fork() failed: each failure in a pipeline leaves at most one child it   *)
(* has not waited for and one more end of a pipe.  And history(), which    *)
(* prints commands[0] .. commands[size - 1], prints the last commands in   *)
(* the order typed, but only those since size was last 0: after the ring   *)
(* has wrapped around not the last HIST of them, which README.md promises. *)
PromptSettled ==
    /\ at = "prompt" =>
         /\ Cardinality(kids) <= unforked
         /\ Cardinality({e \in fds : e[2] = "w"}) = unforked
         /\ Cardinality({e \in fds : e[2] = "r"}) = pipes
    /\ size = Len(entered) % HIST
    /\ \A i \in 0..(size - 1) : commands[i] = entered[Len(entered) - size + i + 1]
=============================================================================

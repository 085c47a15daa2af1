--------------------------------- MODULE Shell ------------------------------
(***************************************************************************)
(* The shell runs a command (sh.c): runcmd(), fork1(), main().  Each       *)
(* process has the command it is to run, or the place in runcmd() it has   *)
(* reached, and its table of descriptors.  The programs it executes, and   *)
(* the system calls, are as proc.c, file.c and pipe.c have them: wait(),   *)
(* close(), dup(), pipe() and open() take the lowest free descriptor.      *)
(***************************************************************************)
EXTENDS Integers, FiniteSetsExt, Sequences

CONSTANTS
    NPROC,              \* processes at a time
    NOFILE,             \* descriptors of a process
    NPIPES,             \* pipes at a time
    PIPESIZE,           \* bytes in a pipe
    Output,             \* bytes the program "src" writes
    Commands,           \* parsed lines the user types
    Trees,              \* these and the commands they are made of
    Lines               \* bound: lines typed

(* What parsecmd() makes: REDIR is for descriptor 0 or 1; the programs are *)
(* those below.                                                            *)
ASSUME ShellAssumption ==
    /\ {NPROC, NOFILE, PIPESIZE, Output, Lines} \subseteq Nat
    /\ NPROC > 0 /\ NOFILE > 2
    /\ Commands \subseteq Trees
    /\ \A t \in Trees :
         \/ t.type = "EXEC" /\ (t.argv # << >> => t.argv[1] \in {"src", "cat", "missing"})
         \/ t.type = "REDIR" /\ t.fd \in {0, 1} /\ t.cmd \in Trees
         \/ t.type \in {"PIPE", "LIST"} /\ t.left \in Trees /\ t.right \in Trees
         \/ t.type = "BACK" /\ t.cmd \in Trees

Slots == 1..NPROC
SH == 1                 \* the shell
INIT == 0               \* adopts orphans
Pipes == 1..NPIPES
Fds == 0..(NOFILE - 1)
None == <<"none", 0>>
Cons == <<"console", 0>>

VARIABLES
    proc,               \* proc[p]: where it is, its command, parent, descriptors
    data,               \* bytes in each pipe
    lines               \* lines typed

shellVars == <<proc, data, lines>>

Unused == [at |-> "unused", parent |-> INIT, cmd |-> << >>, fd |-> << >>, n |-> 0,
           p |-> <<0, 0>>]
Std == [f \in Fds |-> IF f <= 2 THEN Cons ELSE None]

(* main(): three descriptors are open on the console.                      *)
ShellInit ==
    /\ proc = [q \in Slots |-> IF q = SH THEN
                 [Unused EXCEPT !.at = "prompt", !.fd = Std] ELSE Unused]
    /\ data = [k \in Pipes |-> 0]
    /\ lines = 0

-----------------------------------------------------------------------------
Alive(q) == proc[q].at \notin {"unused", "zombie"}
Free(fd) == {f \in Fds : fd[f] = None}
Lowest(fd) == Min(Free(fd))
Open(o) == \E q \in Slots : Alive(q) /\ \E f \in Fds : proc[q].fd[f] = o
Put(fd, o) == [fd EXCEPT ![Lowest(fd)] = o]

(* close() and dup() of a descriptor                                       *)
Close(fd, f) == [fd EXCEPT ![f] = None]
Dup(fd, f) == Put(fd, fd[f])

(* wait(): a zombie child, or -1 when there is no child.                   *)
Children(q) == {c \in Slots : proc[c].at # "unused" /\ proc[c].parent = q}
Zombies(q) == {c \in Children(q) : proc[c].at = "zombie"}

(* exit(): a zombie, whose children init gets (and waits for).             *)
Exited(table, q) ==
    [c \in Slots |->
        IF c = q THEN IF table[q].parent = INIT THEN Unused
                      ELSE [table[q] EXCEPT !.at = "zombie", !.fd = << >>]
        ELSE IF table[c].parent # q \/ table[c].at = "unused" THEN table[c]
        ELSE IF table[c].at = "zombie" THEN Unused ELSE [table[c] EXCEPT !.parent = INIT]]

Goes(q, at) == proc' = [proc EXCEPT ![q].at = at]
RunsCmd(q, cmd, fd) == [proc[q] EXCEPT !.at = "cmd", !.cmd = cmd, !.fd = fd]

(* fork1(): the child runs cmd with descriptors fd, the parent goes on at  *)
(* "at"; without a slot the parent panics and exits.                       *)
Fork1(q, cmd, fd, at) ==
    LET free == {c \in Slots : proc[c].at = "unused"} IN
    IF free = {} THEN proc' = Exited(proc, q)
    ELSE proc' = [proc EXCEPT ![q].at = at,
           ![Min(free)] = [Unused EXCEPT !.at = "cmd", !.parent = q, !.cmd = cmd, !.fd = fd]]

(* wait(), and then to "at"                                                *)
Waits(q, at) ==
    IF Children(q) = {} THEN Goes(q, at)
    ELSE \E c \in Zombies(q) : proc' = [proc EXCEPT ![c] = Unused, ![q].at = at]

Is(q, type) == proc[q].at = "cmd" /\ proc[q].cmd.type = type
Cmd(q) == proc[q].cmd
Calm == UNCHANGED <<data, lines>>

-----------------------------------------------------------------------------
(* main(): a line is read, parsed by a child, and waited for.              *)
TypeLine(cmd) ==
    /\ proc[SH].at = "prompt" /\ lines < Lines
    /\ Fork1(SH, cmd, proc[SH].fd, "waiting")
    /\ lines' = lines + 1 /\ UNCHANGED data
Prompt == proc[SH].at = "waiting" /\ Waits(SH, "prompt") /\ Calm

(* runcmd(): EXEC.                                                         *)
Exec(q) ==
    /\ Is(q, "EXEC")
    /\ IF Cmd(q).argv = << >> \/ Cmd(q).argv[1] = "missing" THEN proc' = Exited(proc, q)
       ELSE proc' = [proc EXCEPT ![q].at = Cmd(q).argv[1]]
    /\ Calm

(* runcmd(): REDIR.  The file may not be there.                            *)
Redirect(q) ==
    LET fd == Close(proc[q].fd, Cmd(q).fd) IN
    /\ Is(q, "REDIR")
    /\ \/ proc' = [proc EXCEPT ![q] =
                     RunsCmd(q, Cmd(q).cmd, Put(fd, <<"file", Cmd(q).file>>))]
       \/ proc' = Exited(proc, q)
    /\ Calm

(* runcmd(): LIST, BACK.                                                   *)
List(q) == Is(q, "LIST") /\ Fork1(q, Cmd(q).left, proc[q].fd, "list") /\ Calm
ListWait(q) ==
    /\ proc[q].at = "list" /\ Calm
    /\ Children(q) # {}
    /\ \E c \in Zombies(q) : proc' =
         [proc EXCEPT ![c] = Unused, ![q] = RunsCmd(q, Cmd(q).right, @.fd)]
Back(q) == Is(q, "BACK") /\ Fork1(q, Cmd(q).cmd, proc[q].fd, "exit") /\ Calm
CmdExit(q) == proc[q].at = "exit" /\ proc' = Exited(proc, q) /\ Calm

(* runcmd(): PIPE, pipe(p); panics when there are no descriptors.          *)
Pipe(q) ==
    LET ks == {k \in Pipes : ~Open(<<"r", k>>) /\ ~Open(<<"w", k>>)}
        k == Min(ks)
        fd == proc[q].fd IN
    /\ Is(q, "PIPE")
    /\ IF ks = {} \/ Cardinality(Free(fd)) < 2
       THEN proc' = Exited(proc, q) /\ UNCHANGED data
       ELSE /\ proc' = [proc EXCEPT ![q].at = "left",
                 ![q].p = <<Lowest(fd), Lowest(Put(fd, <<"r", k>>))>>,
                 ![q].fd = Put(Put(fd, <<"r", k>>), <<"w", k>>)]
            /\ data' = [data EXCEPT ![k] = 0]
    /\ UNCHANGED lines

(* Mutant of Side: the end that was duplicated stays open, too.            *)
SideOpen(q, f, end) ==
    Close(Dup(Close(proc[q].fd, f), end), proc[q].p[1])

(* The descriptors of the two sides: end is p[1] for 1, p[0] for 0.        *)
Side(q, f, end) ==
    Close(Close(Dup(Close(proc[q].fd, f), end), proc[q].p[1]), proc[q].p[2])

Left(q) ==
    /\ proc[q].at = "left" /\ Calm
    /\ Fork1(q, Cmd(q).left, Side(q, 1, proc[q].p[2]), "right")
Right(q) ==
    /\ proc[q].at = "right" /\ Calm
    /\ Fork1(q, Cmd(q).right, Side(q, 0, proc[q].p[1]), "close")

(* runcmd(): close(p[0]), close(p[1]) of the parent                        *)
Closed(q) == Close(Close(proc[q].fd, proc[q].p[1]), proc[q].p[2])

CloseBoth(q) ==
    /\ proc[q].at = "close" /\ Calm
    /\ proc' = [proc EXCEPT ![q].at = "wait1", ![q].fd = Closed(q)]
PipeWait(q) ==
    /\ Calm
    /\ \/ proc[q].at = "wait1" /\ Waits(q, "wait2")
       \/ proc[q].at = "wait2" /\ Waits(q, "exit")

-----------------------------------------------------------------------------
(* Programs: "src" writes Output bytes, "cat" copies until the end of its  *)
(* input; both stop when what they write to has no reader.                 *)
Stdin(q) == proc[q].fd[0]
Stdout(q) == proc[q].fd[1]
Broken(q) == Stdout(q)[1] = "w" /\ ~Open(<<"r", Stdout(q)[2]>>)
CanWrite(q) == Stdout(q)[1] = "w" => data[Stdout(q)[2]] < PIPESIZE

Write(q) ==
    /\ \/ proc[q].at = "src" /\ proc[q].n < Output
       \/ proc[q].at = "cat" /\ proc[q].n = 1
    /\ CanWrite(q) \/ Broken(q)
    /\ IF Broken(q) THEN proc' = Exited(proc, q) /\ UNCHANGED data
       ELSE /\ proc' = [proc EXCEPT ![q].n = IF proc[q].at = "cat" THEN 0 ELSE @ + 1]
            /\ data' = [k \in Pipes |-> IF Stdout(q) = <<"w", k>> THEN data[k] + 1
                                        ELSE data[k]]
    /\ UNCHANGED lines
Read(q) ==
    /\ proc[q].at = "cat" /\ proc[q].n = 0 /\ Stdin(q)[1] = "r"
    /\ data[Stdin(q)[2]] > 0
    /\ data' = [data EXCEPT ![Stdin(q)[2]] = @ - 1]
    /\ proc' = [proc EXCEPT ![q].n = 1]
    /\ UNCHANGED lines
Ends(q) ==
    /\ \/ proc[q].at = "src" /\ proc[q].n = Output
       \/ /\ proc[q].at = "cat" /\ proc[q].n = 0
          /\ Stdin(q)[1] = "r" => data[Stdin(q)[2]] = 0 /\ ~Open(<<"w", Stdin(q)[2]>>)
    /\ proc' = Exited(proc, q) /\ Calm

ShellStep(q) ==
    \/ Exec(q) \/ Redirect(q) \/ List(q) \/ ListWait(q) \/ Back(q) \/ CmdExit(q)
    \/ Pipe(q) \/ Left(q) \/ Right(q) \/ CloseBoth(q) \/ PipeWait(q)
    \/ Write(q) \/ Read(q) \/ Ends(q)

ShellNext == (\E cmd \in Commands : TypeLine(cmd)) \/ Prompt \/ \E q \in Slots : ShellStep(q)

ShellSpec == ShellInit /\ [][ShellNext]_shellVars

(* Every process runs; the user ends the input of programs at the console. *)
ShellFairSpec == ShellSpec /\ WF_shellVars(Prompt) /\ \A q \in Slots : WF_shellVars(ShellStep(q))

-----------------------------------------------------------------------------
(* A program has its three descriptors and no end of a pipe besides, or    *)
(* else the reader of that pipe would wait for ever; at the prompt the     *)
(* shell has its own descriptors and no child it has not waited for.       *)
NothingLeftOver ==
    /\ \A q \in Slots : proc[q].at \in {"src", "cat"} =>
         \A f \in Fds : f > 2 <=> proc[q].fd[f] = None
    /\ proc[SH].at = "prompt" => proc[SH].fd = Std /\ Children(SH) = {}

(* Every command line ends and the prompt comes back, pipelines in which   *)
(* one side stops early and those for which fork() fails among them.       *)
PromptReturns == proc[SH].at = "waiting" ~> proc[SH].at # "waiting"
=============================================================================

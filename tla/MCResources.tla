----------------------------- MODULE MCResources ---------------------------
(***************************************************************************)
(* What system calls take from the machine: blocks for the content of      *)
(* files, pages for address spaces, and characters from the console.  Each *)
(* behaviour is one of the part chosen in the initial state.               *)
(***************************************************************************)
EXTENDS Console, TLC

VARIABLES
    part,
    disk, off, write, panicked, calls, contents, moved,
    free, proc, kpgdir, pipes, twice, ops, failed

(* The console's own constants: two readers, a ring of three characters    *)
(* whose indices wrap after six, a screen of two.                          *)
OneLetter == {[normal |-> "d", shift |-> "D", ctl |-> "^D"]}

(* Two processes; an image of two files; a file reaches its indirect block *)
(* with five bytes, and a long write() takes four transactions.            *)
FS == INSTANCE FileIO WITH
    Procs <- {3, 4}, NBlocks <- 6, BSIZE <- 2, NDIRECT <- 2, MAXOPBLOCKS <- 6,
    Sizes <- {1, 7}, MaxCalls <- 4, MkfsSizes <- <<2, 3>>

(* Two processes in memory for less than three; programs that exec() takes *)
(* and programs that it refuses at each of its tests; sizes that grow,     *)
(* shrink, go below zero and above KERNBASE.                               *)
Header(vaddr, memsz, filesz) ==
    [vaddr |-> vaddr, memsz |-> memsz, filesz |-> filesz, short |-> FALSE]
File(segments, args) ==
    [found |-> TRUE, header |-> TRUE, segments |-> segments, args |-> args]
MEM == INSTANCE Memory WITH
    Procs <- {1, 2}, NFrames <- 14, PGSIZE <- 8, NPT <- 2, UserPages <- 4, KernPages <- 2,
    Growths <- {-16, -8, -3, 0, 5, 9, 40},
    Programs <- {
        File(<<Header(0, 3, 2)>>, <<2>>),
        File(<<Header(0, 8, 8), Header(8, 5, 0)>>, << >>),
        File(<<Header(0, 8, 8), Header(4, 9, 9)>>, << >>),      \* not aligned
        File(<<Header(0, 3, 2)>>, <<9>>),                       \* no room for it
        File(<<Header(40, 10, 0)>>, << >>),                     \* wraps
        File(<<Header(0, 3, 2), [Header(8, 1, 1) EXCEPT !.short = TRUE]>>, << >>),
        [File(<< >>, << >>) EXCEPT !.header = FALSE],
        [File(<< >>, << >>) EXCEPT !.found = FALSE]}

ASSUME PartsAssumption == FS!FileIOAssumption /\ MEM!MemoryAssumption 

filesVars == <<disk, off, write, panicked, calls, contents, moved>>
memoryVars == <<free, proc, kpgdir, pipes, twice, ops, failed>>
partsVars == <<part, filesVars, memoryVars, consoleVars>>

-----------------------------------------------------------------------------
PartsInit ==
    /\ part \in {"files", "memory", "console"}
    /\ FS!Init /\ MEM!Init /\ ConsoleInit

PartsNext ==
    \/ part = "files" /\ FS!Next /\ UNCHANGED <<part, memoryVars, consoleVars>>
    \/ part = "memory" /\ MEM!Next /\ UNCHANGED <<part, filesVars, consoleVars>>
    \/ part = "console" /\ ConsoleNext /\ UNCHANGED <<part, filesVars, memoryVars>>

PartsSpec == PartsInit /\ [][PartsNext]_partsVars

(* Which page is used for what does not matter, only that each has one use; *)
(* what the ring holds outside r .. e is never read, nor are the variables *)
(* of a consoleread() that has returned.                                   *)
Shape(as) == IF as = MEM!NoSpace THEN {} ELSE
    {<<"table", t>> : t \in {k \in MEM!Tables : as.tab[k] # 0}} \cup
    {<<"page", g>> : g \in {k \in MEM!Pages : as.pte[k] # 0}} \cup
    {<<"guard", g>> : g \in as.guard}
MemoryView ==
    <<[p \in DOMAIN proc |-> <<proc[p].state, proc[p].sz, Shape(proc[p].as)>>],
      Cardinality(free), Cardinality(pipes), ops, failed, MEM!PagesOwnedOnce>>
ConsoleView ==
    LET InCall(f) == [p \in Readers |-> IF pc[p] = "idle" THEN 0 ELSE f[p]]
    IN  <<shift, held, both, r, w, e, Stored(r, e), pos, pc, InCall(n), InCall(target),
          killed>>
View == <<part, IF part = "files" THEN filesVars
                ELSE IF part = "memory" THEN MemoryView ELSE ConsoleView>>
Symmetry == Permutations(Readers)

-----------------------------------------------------------------------------
(* Files hold what was written, their blocks have one owner each, the      *)
(* offset of an open file moves with every byte, and each transaction fits *)
(* in what begin_op() reserves for it.                                     *)
FilesIntact == part = "files" =>
    FS!ContentsMatch /\ FS!BlocksOwnedOnce /\ FS!SharedOffset /\ FS!OpFitsLog

(* A page of memory has one use, and a process that runs all the pages     *)
(* below its size.                                                         *)
SpacesIntact == part = "memory" => MEM!PagesOwnedOnce /\ MEM!ImageWhole

(* fork(), exec() and pipe() that fail give back what they took.           *)
FailureGivesBack == [][failed' = "clean" => UNCHANGED <<free, proc, ops>>]_partsVars
=============================================================================

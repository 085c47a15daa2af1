-------------------------------- MODULE Memory ------------------------------
(***************************************************************************)
(* Physical pages and address spaces: kalloc.c, vm.c, exec.c, and the part *)
(* of proc.c that builds and frees processes.                              *)
(*                                                                         *)
(* Addresses count words; a page has PGSIZE of them.  The functions of     *)
(* vm.c work on a record m: the free pages, how many of them this call     *)
(* will get (the other processors may be holding the rest for the moment), *)
(* the address space being built or changed, and whether all went well.    *)
(* An address space belongs to one process and only kmem.freelist is       *)
(* shared, so a system call is one step.                                   *)
(***************************************************************************)
EXTENDS Integers, Sequences, FiniteSetsExt, SequencesExt

CONSTANTS
    Procs,              \* the slots of the process table
    NFrames,            \* pages of physical memory
    PGSIZE, NPT,        \* words in a page; entries of a page table
    UserPages,          \* pages below KERNBASE
    KernPages,          \* pages of kmap, above KERNBASE
    Programs,           \* files exec() may be given
    Growths             \* arguments of sbrk()

MemoryAssumption ==
    /\ {NFrames, PGSIZE, NPT, UserPages, KernPages} \subseteq Nat \ {0}
    /\ Growths \subseteq Int

Frames == 1..NFrames
Pages == 0..(UserPages + KernPages - 1)
Tables == 0..((UserPages + KernPages - 1) \div NPT)
KERNBASE == UserPages * PGSIZE
WRAP == (UserPages + KernPages) * PGSIZE       \* 2^32
KERNEL == -1                                   \* a page of kmap
NoSpace == [dir |-> 0]

PGROUNDUP(a) == (((a + PGSIZE - 1) % WRAP) \div PGSIZE) * PGSIZE
PagesIn(from, to) ==            \* the pages of a loop a = from; a < to; a += PGSIZE
    LET first == from \div PGSIZE
    IN  [k \in 1..Max({0, ((to + PGSIZE - 1) \div PGSIZE) - first}) |-> first + k - 1]

VARIABLES
    free,               \* kmem.freelist
    proc,               \* proc[p]: state, kernel stack, address space, size
    kpgdir,             \* the address space of the scheduler
    pipes,              \* pages of pipes
    twice,              \* a page was freed that was free, or mapped twice
    ops,                \* operations of the file system that are open
    failed              \* history: how the last call failed

vars == <<free, proc, kpgdir, pipes, twice, ops, failed>>

-----------------------------------------------------------------------------
Machine(as, n) == [free |-> free, avail |-> n, as |-> as, got |-> 0,
                   ok |-> TRUE, twice |-> FALSE, sz |-> 0, ip |-> FALSE, ops |-> 0]

(* kalloc(), and kfree() with the check its memset(v, 1) makes possible.   *)
Kalloc(m) ==
    IF m.avail = 0 THEN [m EXCEPT !.got = 0]
    ELSE [m EXCEPT !.got = Min(m.free), !.free = @ \ {Min(m.free)}, !.avail = @ - 1]
Kfree(m, f) == [m EXCEPT !.free = @ \cup {f}, !.avail = @ + 1,
                         !.twice = @ \/ f \in m.free \/ f \notin Frames]

(* walkpgdir(pgdir, va, 1)                                                 *)
Walkpgdir(m, pg) ==
    LET k == Kalloc(m) IN
    IF m.as.tab[pg \div NPT] # 0 THEN [m EXCEPT !.ok = TRUE]
    ELSE [k EXCEPT !.ok = k.got # 0, !.as.tab[pg \div NPT] = k.got]

(* mappages() of a single page; panic("remap") is twice here.              *)
SetPte(w, pg, f) ==
    IF ~w.ok THEN w
    ELSE [w EXCEPT !.as.pte[pg] = f, !.twice = @ \/ w.as.pte[pg] # 0]
Mappages(m, pg, f) == SetPte(Walkpgdir(m, pg), pg, f)

(* deallocuvm(): one round of its loop; the pages of a table that is       *)
(* missing are passed over.                                                *)
DeallocPage(m, pg) ==
    IF m.as.pte[pg] = 0 THEN m
    ELSE [Kfree(m, m.as.pte[pg]) EXCEPT !.as.pte[pg] = 0]

Deallocuvm(m, oldsz, newsz) ==
    IF newsz >= oldsz THEN [m EXCEPT !.sz = oldsz]
    ELSE [FoldLeft(DeallocPage, m, PagesIn(PGROUNDUP(newsz), oldsz)) EXCEPT
            !.sz = newsz]

(* freevm(): the user pages, the page tables, the directory.               *)
Freevm(m) ==
    LET d == Deallocuvm(m, KERNBASE, 0)
        tabs == {d.as.tab[t] : t \in Tables} \ {0} IN
    [FoldSet(LAMBDA f, e : Kfree(e, f), d, tabs \cup {d.as.dir}) EXCEPT
        !.as = NoSpace]

(* The way out of setupkvm() and copyuvm().                                *)
OrFreed(m) == IF m.ok THEN m ELSE [Freevm(m) EXCEPT !.ok = FALSE]

(* setupkvm(): ok is FALSE when it returns 0.                              *)
Setupkvm(m) ==
    LET k == Kalloc(m)
        new == [k EXCEPT !.ok = TRUE, !.as = [dir |-> k.got, guard |-> {},
                   tab |-> [t \in Tables |-> 0], pte |-> [pg \in Pages |-> 0]]] IN
    IF k.got = 0 THEN [k EXCEPT !.ok = FALSE, !.as = NoSpace]
    ELSE OrFreed(FoldLeft(LAMBDA e, pg : IF e.ok THEN Mappages(e, pg, KERNEL) ELSE e,
                          new, PagesIn(KERNBASE, WRAP)))

(* The page k.got is mapped, or freed when it cannot be.                   *)
OrKfree(a, f) == IF a.ok THEN a ELSE Kfree(a, f)
MapNew(k, pg) ==
    IF k.got = 0 THEN [k EXCEPT !.ok = FALSE]
    ELSE OrKfree(Mappages(k, pg, k.got), k.got)

(* Mutant of NewPage: the page that could not be mapped is forgotten.      *)
MapNewForgets(k, pg) ==
    IF k.got = 0 THEN [k EXCEPT !.ok = FALSE] ELSE Mappages(k, pg, k.got)
NewPageForgets(m, pg) == IF ~m.ok THEN m ELSE MapNewForgets(Kalloc(m), pg)

(* A page allocated and mapped, as allocuvm() and copyuvm() do.            *)
NewPage(m, pg) == IF ~m.ok THEN m ELSE MapNew(Kalloc(m), pg)

(* allocuvm(): sz is its result.                                           *)
Grown(all, oldsz, newsz) ==
    IF all.ok THEN [all EXCEPT !.sz = newsz]
    ELSE [Deallocuvm(all, newsz, oldsz) EXCEPT !.sz = 0]
Allocuvm(m, oldsz, newsz) ==
    IF newsz >= KERNBASE THEN [m EXCEPT !.sz = 0]
    ELSE IF newsz < oldsz THEN [m EXCEPT !.sz = oldsz]
    ELSE Grown(FoldLeft(NewPage, [m EXCEPT !.ok = TRUE], PagesIn(PGROUNDUP(oldsz), newsz)),
               oldsz, newsz)

(* copyuvm(): the copy of as, whose first sz words are in use, in the      *)
(* space setupkvm() made.                                                  *)
CopyPages(d, as, sz) ==
    IF ~d.ok THEN d
    ELSE OrFreed([FoldLeft(NewPage, d, PagesIn(0, sz)) EXCEPT !.as.guard = as.guard])
Copyuvm(m, as, sz) == CopyPages(Setupkvm(m), as, sz)

(* copyout() and uva2ka(): n words at va can be written by the user.       *)
CanCopyout(as, va, n) ==
    \A k \in 0..(n - 1) : LET pg == ((va + k) % WRAP) \div PGSIZE IN
        as.pte[pg] \in Frames /\ pg \notin as.guard

-----------------------------------------------------------------------------
Unused == [state |-> "UNUSED", kstack |-> 0, as |-> NoSpace, sz |-> 0]

(* kvmalloc(), and userinit() with inituvm().                              *)
Init ==
    LET boot == [free |-> Frames, avail |-> NFrames, as |-> NoSpace, got |-> 0,
                 ok |-> TRUE, twice |-> FALSE, sz |-> 0, ip |-> FALSE, ops |-> 0]
        k == Setupkvm(boot)
        stack == Kalloc(k)
        u == NewPage(Setupkvm(stack), 0) IN
    /\ kpgdir = k.as
    /\ free = u.free
    /\ proc = [p \in Procs |-> IF p # Min(Procs) THEN Unused ELSE
                 [state |-> "USED", kstack |-> stack.got, as |-> u.as, sz |-> PGSIZE]]
    /\ pipes = {} /\ twice = FALSE /\ ops = 0 /\ failed = "no"

(* The pages a process can touch are those below its size.                 *)
Mapped(p) == \A pg \in 0..(UserPages - 1) :
    proc[p].as.pte[pg] # 0 <=> pg * PGSIZE < proc[p].sz

Done(m) == free' = m.free /\ twice' = (twice \/ m.twice) /\ ops' = ops + m.ops

(* A process that runs; one whose memory sbrk() took faults and is killed. *)
Running(p) == proc[p].state = "USED" /\ proc[p].as.pte[0] # 0

(* growproc(): deallocuvm() to size 0 looks like its failure.              *)
Growproc(p, n, avail) ==
    LET m == Machine(proc[p].as, avail)
        sz == proc[p].sz
        g == IF n > 0 THEN Allocuvm(m, sz, (sz + n) % WRAP)
             ELSE IF n < 0 THEN Deallocuvm(m, sz, (sz + n) % WRAP)
             ELSE [m EXCEPT !.sz = sz] IN
    /\ Running(p)
    /\ Done(g)
    /\ failed' = IF g.sz = 0 THEN "sbrk" ELSE "no"
    /\ proc' = [proc EXCEPT ![p].as = g.as,
                            ![p].sz = IF g.sz = 0 THEN @ ELSE g.sz]
    /\ UNCHANGED <<kpgdir, pipes>>

(* fork() with allocproc(): the kernel stack, then the address space;      *)
(* panic("copyuvm: page not present") is twice here.                       *)
Fork(p, np, avail) ==
    /\ Running(p)
    /\ proc[np].state = "UNUSED" /\ \A q \in Procs : q < np => proc[q].state # "UNUSED"
    /\ \E stack \in {Kalloc(Machine(NoSpace, avail))} :
       \E m \in {IF stack.got = 0 THEN [stack EXCEPT !.ok = FALSE]
                 ELSE [OrKfree(Copyuvm(stack, proc[p].as, proc[p].sz), stack.got)
                         EXCEPT !.twice = @ \/ ~Mapped(p)]} :
         /\ Done(m)
         /\ failed' = IF m.ok THEN "no" ELSE "clean"
         /\ proc' = IF ~m.ok THEN proc ELSE [proc EXCEPT ![np] =
              [state |-> "USED", kstack |-> stack.got, as |-> m.as, sz |-> proc[p].sz]]
    /\ UNCHANGED <<kpgdir, pipes>>

(* exec(): a segment whose memory allocuvm() gave; loaduvm() panics when   *)
(* an address does not exist.                                              *)
Loaduvm(a, ph) ==
    LET lost == \E k \in 0..(ph.filesz - 1) :
                    a.as.pte[(ph.vaddr + k) \div PGSIZE] = 0 IN
    IF a.sz = 0 \/ ph.vaddr % PGSIZE # 0 THEN [a EXCEPT !.ok = FALSE]
    ELSE [a EXCEPT !.ok = TRUE, !.twice = @ \/ lost]

(* exec(): one program header.                                             *)
LoadSegment(m, ph) ==
    LET end == (ph.vaddr + ph.memsz) % WRAP IN
    IF ~m.ok THEN m
    ELSE IF ph.short \/ ph.memsz < ph.filesz \/ end < ph.vaddr
    THEN [m EXCEPT !.ok = FALSE]
    ELSE Loaduvm(Allocuvm(m, m.sz, end), ph)

(* exec(): the argument strings and ustack, from the top of the stack.     *)
ArgumentsFit(as, sz, args) ==
    LET sp(n) == sz - FoldLeft(LAMBDA s, a : s + a, 0, SubSeq(args, 1, n))
        top == sp(Len(args))
        ustack == 3 + Len(args) + 1 IN
    /\ \A n \in 1..Len(args) : CanCopyout(as, sp(n) % WRAP, args[n])
    /\ CanCopyout(as, (top - ustack) % WRAP, ustack)

(* exec(): iunlockput() and end_op(), if it still has the inode.           *)
IputEndop(m) == IF m.ip THEN [m EXCEPT !.ip = FALSE, !.ops = @ - 1] ELSE m

(* Mutant of Bad: the new image is forgotten.                              *)
BadForgets(m, old) == [IputEndop(m) EXCEPT !.as = old]

(* exec(): bad.                                                            *)
Bad(m, old) ==
    [(IF m.as = NoSpace THEN IputEndop(m) ELSE Freevm(IputEndop(m))) EXCEPT !.as = old]

(* exec(): the segments, and the inode is given up.                        *)
Text(loaded) == IF loaded.ok THEN IputEndop(loaded) ELSE loaded
Image(m, prog) ==
    Text(FoldLeft(LoadSegment,
           IF prog.found /\ prog.header THEN Setupkvm(m) ELSE [m EXCEPT !.ok = FALSE],
           prog.segments))

(* exec()                                                                  *)
Exec(p, prog, avail) ==
    /\ Running(p)
    /\ \E text \in {Image([Machine(NoSpace, avail) EXCEPT !.ip = prog.found,
                            !.ops = IF prog.found THEN 1 ELSE 0], prog)} :
       \E stack \in {IF ~text.ok THEN text
           ELSE Allocuvm(text, PGROUNDUP(text.sz), PGROUNDUP(text.sz) + 2 * PGSIZE)} :
         LET old == proc[p].as
             new == [stack EXCEPT !.as.guard = {(stack.sz \div PGSIZE) - 2}]
             good == text.ok /\ stack.sz # 0 /\ ArgumentsFit(new.as, new.sz, prog.args) IN
         /\ Done(IF good THEN Freevm([new EXCEPT !.as = old]) ELSE Bad(stack, old))
         /\ failed' = IF good THEN "no" ELSE "clean"
         /\ proc' = IF ~good THEN proc
                    ELSE [proc EXCEPT ![p].as = new.as, ![p].sz = new.sz]
    /\ UNCHANGED <<kpgdir, pipes>>

(* exit(), also of a process that is killed: the memory stays.             *)
Exit(p) ==
    /\ proc[p].state = "USED" /\ p # Min(Procs)
    /\ proc' = [proc EXCEPT ![p].state = "ZOMBIE"]
    /\ failed' = "no"
    /\ UNCHANGED <<free, kpgdir, pipes, twice, ops>>

(* wait(): the parent frees it.                                            *)
Wait(p) ==
    LET m == Kfree(Machine(proc[p].as, 0), proc[p].kstack) IN
    /\ proc[p].state = "ZOMBIE"
    /\ Done(Freevm(m))
    /\ proc' = [proc EXCEPT ![p] = Unused]
    /\ failed' = "no"
    /\ UNCHANGED <<kpgdir, pipes>>

(* pipealloc() and pipeclose().                                            *)
Pipe(avail) ==
    LET k == Kalloc(Machine(NoSpace, avail)) IN
    /\ pipes = {}
    /\ Done(k)
    /\ failed' = IF k.got = 0 THEN "clean" ELSE "no"
    /\ pipes' = pipes \cup ({k.got} \ {0})
    /\ UNCHANGED <<proc, kpgdir>>
Pipeclose(f) ==
    /\ Done(Kfree(Machine(NoSpace, 0), f))
    /\ failed' = "no"
    /\ pipes' = pipes \ {f}
    /\ UNCHANGED <<proc, kpgdir>>

Next ==
    \/ \E avail \in 0..Cardinality(free) :
        \/ Pipe(avail)
        \/ \E p \in Procs :
            \/ \E n \in Growths : Growproc(p, n, avail)
            \/ \E np \in Procs : Fork(p, np, avail)
            \/ \E prog \in Programs : Exec(p, prog, avail)
    \/ \E p \in Procs : Exit(p) \/ Wait(p)
    \/ \E f \in pipes : Pipeclose(f)

Spec == Init /\ [][Next]_vars

-----------------------------------------------------------------------------
(* The pages of an address space, as often as it uses them.                *)
FramesOf(as) == IF as = NoSpace THEN << >> ELSE
    SelectSeq(<<as.dir>> \o [t \in 1..Cardinality(Tables) |-> as.tab[t - 1]] \o
              [pg \in 1..Cardinality(Pages) |-> as.pte[pg - 1]], LAMBDA f : f > 0)

(* Every page of memory has exactly one use, as a free page, page of a     *)
(* pipe, kernel stack, directory, page table or page of one process, also  *)
(* after a call of kalloc() failed half way through fork(), exec() or      *)
(* sbrk(): none is lost, none is used twice, none is freed twice.          *)
PagesOwnedOnce ==
    LET inUse == FoldFunction(LAMBDA p, s : s \o FramesOf(p.as) \o
              (IF p.kstack = 0 THEN << >> ELSE <<p.kstack>>), FramesOf(kpgdir), proc)
    IN  /\ ~twice
        /\ ToSet(inUse) \cup free \cup pipes = Frames
        /\ Len(inUse) + Cardinality(free) + Cardinality(pipes) = NFrames

(* A process that runs has all the pages below its size and no other, so   *)
(* that copyuvm() and loaduvm() find what they panic about; the page below *)
(* its stack stays closed.                                                 *)
ImageWhole == \A p \in Procs : Running(p) => Mapped(p)

(* fork(), pipe() and exec() that fail give back every page, exec() leaves *)
(* the old image as it was, and no transaction stays open.                 *)
FailureGivesBack == [][failed' = "clean" => UNCHANGED <<free, proc, ops>>]_vars
=============================================================================

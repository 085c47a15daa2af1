--------------------------------- MODULE Boot -------------------------------
(***************************************************************************)
(* The start of the machine (main.c): CPU 0 runs main(), starts the others *)
(* one by one and hands each a stack through one word of memory; pages are *)
(* allocated without a lock until kinit2() (kalloc.c).  kalloc() and       *)
(* kfree() read the head of the list and then write it.                    *)
(***************************************************************************)
EXTENDS Integers, FiniteSetsExt, SequencesExt

CONSTANTS NCPU, Early, Late     \* pages given to kinit1() and kinit2()

BootAssumption == NCPU \in Nat \ {0} /\ Early \in Nat /\ Late \in Nat /\ Early >= NCPU - 1

CPUs == 0..(NCPU - 1)
First == [i \in 1..Early |-> i]         \* the pages, as freerange() has them
Second == [i \in 1..Late |-> Early + i]

VARIABLES
    doing,      \* doing[c]: what it executes next
    tmp,        \* the head of the list it has read
    started,    \* c->started
    slot,       \* the stack at code - 4
    stack,      \* the stack a processor runs on; 0 before it has one
    freelist,
    useLock, lock,
    todo,       \* pages freerange() has to free
    next,       \* startothers(): the processor to start
    ready,      \* userinit() is done
    pages       \* pages[c]: what kernel code on c allocated

bootVars == <<doing, tmp, started, slot, stack, freelist, useLock, lock, todo, next, ready, pages>>

BootInit ==
    /\ doing = [c \in CPUs |-> IF c = 0 THEN "kinit1" ELSE "off"]
    /\ tmp = [c \in CPUs |-> << >>] /\ started = {} /\ slot = 0
    /\ stack = [c \in CPUs |-> IF c = 0 THEN -1 ELSE 0]
    /\ freelist = << >> /\ useLock = FALSE /\ lock = -1
    /\ todo = First /\ next = 0 /\ ready = FALSE
    /\ pages = [c \in CPUs |-> {}]

Goes(c, to) == doing' = [doing EXCEPT ![c] = to]

(* kalloc() and kfree(): the lock is taken when it is in use, and the head *)
(* of the list is read.                                                    *)
Reads(c, from, to) ==
    /\ doing[c] = from /\ Goes(c, to)
    /\ useLock => lock = -1
    /\ lock' = IF useLock THEN c ELSE lock
    /\ tmp' = [tmp EXCEPT ![c] = freelist]
    /\ UNCHANGED <<started, slot, stack, freelist, useLock, todo, next, ready, pages>>
Unlocked == IF useLock THEN lock' = -1 ELSE UNCHANGED lock

(* freerange() of kinit1() and kinit2(): kfree() of each page; kinit2()    *)
(* switches the lock on at the end.                                        *)
Kfree(at, then) ==
    /\ doing[0] = at /\ todo # << >> /\ Goes(0, then)
    /\ freelist' = <<Head(todo)>> \o tmp[0] /\ todo' = Tail(todo)
    /\ Unlocked
    /\ UNCHANGED <<tmp, started, slot, stack, useLock, next, ready, pages>>
Kinit1 ==
    \/ todo # << >> /\ Reads(0, "kinit1", "kfree1")
    \/ Kfree("kfree1", "kinit1")
Startothers ==
    /\ doing[0] = "kinit1" /\ todo = << >> /\ Goes(0, "startothers")
    /\ next' = 1 /\ todo' = Second
    /\ UNCHANGED <<tmp, started, slot, stack, freelist, useLock, lock, ready, pages>>

(* startothers(): a stack is allocated, put where entryother.S finds it,   *)
(* and the processor started.                                              *)
Stack == next < NCPU /\ Reads(0, "startothers", "kalloc")
Start ==
    /\ doing[0] = "kalloc" /\ tmp[0] # << >>
    /\ freelist' = Tail(tmp[0]) /\ slot' = Head(tmp[0])
    /\ doing' = [doing EXCEPT ![0] = "wait", ![next] = "entry"]
    /\ Unlocked
    /\ UNCHANGED <<tmp, started, stack, useLock, todo, next, ready, pages>>

(* Mutant of Up: the processor has been sent its start-up interrupt.       *)
UpSent(c) == doing[c] # "off"

(* while(c->started == 0): started is set in mpmain().                     *)
Up(c) == c \in started

Wait ==
    /\ doing[0] = "wait" /\ Up(next) /\ Goes(0, "startothers")
    /\ next' = next + 1
    /\ UNCHANGED <<tmp, started, slot, stack, freelist, useLock, lock, todo, ready, pages>>

Kinit2 ==
    \/ next = NCPU /\ todo # << >> /\ Reads(0, "startothers", "kfree2")
    \/ Kfree("kfree2", "startothers")
    \/ /\ doing[0] = "startothers" /\ next = NCPU /\ todo = << >> /\ Goes(0, "userinit")
       /\ useLock' = TRUE
       /\ UNCHANGED <<tmp, started, slot, stack, freelist, lock, todo, next, ready, pages>>

(* userinit(): the first process can run.                                  *)
Userinit ==
    /\ doing[0] = "userinit" /\ Goes(0, "mpmain") /\ ready' = TRUE
    /\ UNCHANGED <<tmp, started, slot, stack, freelist, useLock, lock, todo, next, pages>>

(* entryother.S takes the stack and calls mpenter(), which sets up the     *)
(* processor's own registers; mpmain() says that it is up.                 *)
Entry(c) ==
    /\ doing[c] = "entry" /\ Goes(c, "mpmain") /\ stack' = [stack EXCEPT ![c] = slot]
    /\ UNCHANGED <<tmp, started, slot, freelist, useLock, lock, todo, next, ready, pages>>
Mpmain(c) ==
    /\ doing[c] = "mpmain" /\ Goes(c, "scheduler") /\ started' = started \cup {c}
    /\ UNCHANGED <<tmp, slot, stack, freelist, useLock, lock, todo, next, ready, pages>>

(* scheduler(): once there is a process, the kernel allocates pages for it *)
(* on any processor.                                                       *)
Work(c) ==
    \/ ready /\ freelist # << >> /\ Reads(c, "scheduler", "work")
    \/ /\ doing[c] = "work" /\ Goes(c, "scheduler")
       /\ freelist' = Tail(tmp[c]) /\ pages' = [pages EXCEPT ![c] = @ \cup {Head(tmp[c])}]
       /\ Unlocked
       /\ UNCHANGED <<tmp, started, slot, stack, useLock, todo, next, ready>>

BootNext ==
    \/ Kinit1 \/ Startothers \/ Stack \/ Start \/ Wait \/ Kinit2 \/ Userinit
    \/ \E c \in CPUs : Entry(c) \/ Mpmain(c) \/ Work(c)

BootSpec == BootInit /\ [][BootNext]_bootVars

-----------------------------------------------------------------------------
(* No page is used twice: as the stack of two processors, by two of them   *)
(* once they allocate at the same time, or while it is free; and the one   *)
(* word that holds the stack of the next processor is enough.              *)
PagesGivenOnce ==
    LET stacks == {c \in CPUs : stack[c] > 0} IN
    /\ IsInjective([c \in stacks |-> stack[c]])
    /\ \A c, d \in CPUs : c # d => pages[c] \cap pages[d] = {}
    /\ \A c \in CPUs : Range(freelist) \cap pages[c] = {} /\ stack[c] \notin Range(freelist)
    /\ \A c, d \in CPUs : stack[c] \notin pages[d]
=============================================================================

-------------------------------- MODULE BestFit -----------------------------
(***************************************************************************)
(* The allocator of assignment 6 (mymalloc.c): a list of blocks in the     *)
(* order sbrk() gave them, the best fitting free block is used again as it *)
(* is.  malloc.h makes malloc, calloc and free the functions defined here. *)
(***************************************************************************)
EXTENDS Integers, FiniteSetsExt, SequencesExt

CONSTANTS
    HDR,            \* BLOCK_SIZE
    Requests, Counts, \* arguments of malloc() and calloc()
    Gaps,           \* what the C library may take from the heap in between
    MaxHeap         \* bound: sbrk() fails above

ASSUME BestFitAssumption ==
    HDR \in Nat \ {0} /\ Requests \cup Counts \cup Gaps \subseteq Nat /\ MaxHeap \in Nat

VARIABLES
    list,           \* the blocks from block_head on: addr, size, free
    brk,
    live            \* history: what the program holds: addr and size

heapVars == <<list, brk, live>>

HeapInit == list = << >> /\ brk = 0 /\ live = {}

(* findOptimalFreeBlock(): the first of the smallest that are large enough *)
Candidates(s) == {i \in DOMAIN list : list[i].free /\ list[i].size >= s}
Optimal(s) ==
    {i \in Candidates(s) : \A j \in Candidates(s) :
        \/ list[i].size < list[j].size
        \/ list[i].size = list[j].size /\ i <= j}

(* extendMemory(): a block at the end of the list, NULL when sbrk() fails. *)
ExtendMemory(s) ==
    \E gap \in Gaps :
        LET at == brk + gap IN
        IF at + HDR + s > MaxHeap THEN UNCHANGED heapVars
        ELSE /\ brk' = at + HDR + s
             /\ list' = Append(list, [addr |-> at + HDR, size |-> s, free |-> FALSE])
             /\ live' = live \cup {[addr |-> at + HDR, size |-> s]}

(* mymalloc()                                                              *)
Mymalloc(s) ==
    IF Optimal(s) = {} THEN ExtendMemory(s)
    ELSE \E i \in Optimal(s) :
           /\ list' = [list EXCEPT ![i].free = FALSE]
           /\ live' = live \cup {[addr |-> list[i].addr, size |-> s]}
           /\ UNCHANGED brk

(* mycalloc(): NULL when there is nothing to allocate.                     *)
Mycalloc(n, s) == n * s # 0 /\ Mymalloc(n * s)

(* myfree(): its call of free(ptr) at the end is a call of itself, which   *)
(* finds the block free; nothing is joined or given back.                  *)
Myfree(ptr) ==
    /\ list' = [i \in DOMAIN list |-> IF list[i].addr = ptr THEN [list[i] EXCEPT !.free = TRUE]
                                      ELSE list[i]]
    /\ live' = {r \in live : r.addr # ptr}
    /\ UNCHANGED brk

HeapNext ==
    \/ \E s \in Requests : Mymalloc(s) \/ \E n \in Counts : Mycalloc(n, s)
    \/ \E i \in DOMAIN list : Myfree(list[i].addr)

HeapSpec == HeapInit /\ [][HeapNext]_heapVars

-----------------------------------------------------------------------------
(* What the program holds is disjoint from everything else it holds and    *)
(* from the headers, and the blocks marked as taken are what it holds,     *)
(* also when a block was freed twice.                                      *)
BlocksDisjoint ==
    /\ \A i, j \in DOMAIN list : i < j => list[i].addr + list[i].size + HDR <= list[j].addr
    /\ \A r \in live : \E i \in DOMAIN list :
         ~list[i].free /\ list[i].addr = r.addr /\ list[i].size >= r.size
    /\ {list[i].addr : i \in {j \in DOMAIN list : ~list[j].free}} = {r.addr : r \in live}
    /\ Cardinality(live) = Cardinality({r.addr : r \in live})
=============================================================================

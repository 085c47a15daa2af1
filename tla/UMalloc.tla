-------------------------------- MODULE UMalloc -----------------------------
(***************************************************************************)
(* malloc() and free() of the user library (umalloc.c): a circular list of *)
(* free blocks in the order of their addresses.  Addresses count headers;  *)
(* base, the first member of the list, is at address 0, below the heap.    *)
(***************************************************************************)
EXTENDS Naturals, FiniteSets

CONSTANTS
    Units,              \* sizes of requests with their header
    CORE,               \* the least number of units morecore() asks for
    MaxHeap             \* bound: units of memory sbrk() can give

UMallocAssumption ==
    Units \subseteq Nat \ {0} /\ CORE \in Nat \ {0} /\ MaxHeap \in Nat

VARIABLES
    ptr, size,          \* headers of the free blocks, and base
    freep,
    brk,                \* the end of the heap
    other,              \* units the program got from sbrk() itself
    live                \* history: blocks malloc() gave to the program

vars == <<ptr, size, freep, brk, other, live>>

BASE == 0
List == [ptr |-> ptr, size |-> size, freep |-> freep]

Init ==
    /\ ptr = [b \in {BASE} |-> BASE] /\ size = [b \in {BASE} |-> 0]
    /\ freep = BASE /\ brk = 1 /\ other = {} /\ live = {}

-----------------------------------------------------------------------------
With(f, a, v) == [b \in DOMAIN f \cup {a} |-> IF b = a THEN v ELSE f[b]]
Without(f, a) == [b \in DOMAIN f \ {a} |-> f[b]]

(* free(): the member of the list after which bp belongs; the search       *)
(* starts at freep.                                                        *)
Before(l, bp) ==
    LET found(p) == \/ bp > p /\ bp < l.ptr[p]
                    \/ p >= l.ptr[p] /\ (bp > p \/ bp < l.ptr[p])
        at[k \in 0..Cardinality(DOMAIN l.ptr)] ==
          IF k = 0 THEN l.freep
          ELSE IF found(at[k - 1]) THEN at[k - 1] ELSE l.ptr[at[k - 1]]
    IN  at[Cardinality(DOMAIN l.ptr)]

(* Mutant of FreeBlock: a block is not joined with the one before it.      *)
FreeNoJoin(l, bp, n) ==
    LET p == Before(l, bp)
        next == l.ptr[p]
        up == bp + n = next
        s == With(l.size, bp, IF up THEN n + l.size[next] ELSE n)
        q == With(With(l.ptr, bp, IF up THEN l.ptr[next] ELSE next), p, bp)
    IN  [freep |-> p, ptr |-> IF up THEN Without(q, next) ELSE q,
         size |-> IF up THEN Without(s, next) ELSE s]

(* free(): the list with the block bp of n units, joined with the blocks   *)
(* after and before it.                                                    *)
FreeBlock(l, bp, n) ==
    LET p == Before(l, bp)
        next == l.ptr[p]
        up == bp + n = next
        s == With(l.size, bp, IF up THEN n + l.size[next] ELSE n)
        q == With(l.ptr, bp, IF up THEN l.ptr[next] ELSE next)
        down == p + l.size[p] = bp
        gone == (IF up THEN {next} ELSE {}) \cup (IF down THEN {bp} ELSE {})
        ss == IF down THEN [s EXCEPT ![p] = @ + s[bp]] ELSE s
        qq == [q EXCEPT ![p] = IF down THEN q[bp] ELSE bp]
    IN  [freep |-> p, ptr |-> [b \in DOMAIN qq \ gone |-> qq[b]],
         size |-> [b \in DOMAIN ss \ gone |-> ss[b]]]

(* malloc(): the members of the list from the one after freep on.          *)
Nth(l, k) ==
    LET at[j \in 0..k] == IF j = 0 THEN l.freep ELSE l.ptr[at[j - 1]] IN at[k]
Fits(l, n) == {k \in 1..Cardinality(DOMAIN l.ptr) : l.size[Nth(l, k)] >= n}

(* malloc(): the first block that fits, or the end of it.                  *)
Carve(l, n) ==
    LET k == CHOOSE j \in Fits(l, n) : \A i \in Fits(l, n) : j <= i
        p == Nth(l, k)
        prevp == Nth(l, k - 1)
        rest == l.size[p] - n
    IN  [list |-> IF rest = 0
                  THEN [freep |-> prevp, size |-> Without(l.size, p),
                        ptr |-> Without([l.ptr EXCEPT ![prevp] = l.ptr[p]], p)]
                  ELSE [l EXCEPT !.freep = prevp, !.size[p] = rest],
         block |-> p + rest]

Becomes(l) == ptr' = l.ptr /\ size' = l.size /\ freep' = l.freep

(* malloc(), with morecore() when nothing fits                             *)
Malloc(n) ==
    LET more == IF n < CORE THEN CORE ELSE n
        grown == FreeBlock(List, brk, more)
        fits == Fits(List, n) # {}
        c == Carve(IF fits THEN List ELSE grown, n) IN
    /\ IF ~fits /\ brk + more > MaxHeap THEN UNCHANGED <<ptr, size, freep, brk, live>>
       ELSE /\ Becomes(c.list)
            /\ brk' = IF fits THEN brk ELSE brk + more
            /\ live' = live \cup {[at |-> c.block, units |-> n]}
    /\ UNCHANGED other

Free(b) ==
    /\ Becomes(FreeBlock(List, b.at, b.units))
    /\ live' = live \ {b}
    /\ UNCHANGED <<brk, other>>

(* The program calls sbrk() itself.                                        *)
Sbrk ==
    /\ brk < MaxHeap
    /\ other' = other \cup {brk} /\ brk' = brk + 1
    /\ UNCHANGED <<ptr, size, freep, live>>

Next == Sbrk \/ (\E n \in Units : Malloc(n)) \/ (\E b \in live : Free(b))

Spec == Init /\ [][Next]_vars

-----------------------------------------------------------------------------
(* Every unit of the heap is in one free block, one block the program has, *)
(* or not the allocator's, whatever the order of malloc() and free(); the  *)
(* free list is one circle in the order of the addresses, and neighbours   *)
(* in memory have been joined.                                             *)
HeapPartitioned ==
    LET free(b) == b..(b + size[b] - 1)
        used(m) == m.at..(m.at + m.units - 1)
        blocks == DOMAIN ptr \ {BASE} IN
    /\ \A u \in 1..(brk - 1) :
         Cardinality({b \in blocks : u \in free(b)}) +
         Cardinality({m \in live : u \in used(m)}) + (IF u \in other THEN 1 ELSE 0) = 1
    /\ freep \in DOMAIN ptr
    /\ \A b \in DOMAIN ptr :
         LET above == {d \in DOMAIN ptr : d > b} IN
         /\ ptr[b] = IF above = {} THEN BASE
                     ELSE CHOOSE d \in above : \A c \in above : d <= c
         /\ b # BASE => ptr[b] # b + size[b]
=============================================================================

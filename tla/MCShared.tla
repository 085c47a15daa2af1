------------------------------- MODULE MCShared -----------------------------
(***************************************************************************)
(* What processors, threads and programs share: the buffer cache, spin     *)
(* locks, the start of the machine, the canvas of the artists, the heaps,  *)
(* the mini-shell, the data structures, the cache simulator, and the       *)
(* functions without state of their own, on the inputs given here.  Each   *)
(* behaviour is one of the part chosen in the initial state.               *)
(***************************************************************************)
EXTENDS Bcache, Boot, SpinLock, Painters, MiniShell, Containers, BestFit, Integers,
        FiniteSetsExt, SequencesExt, TLC

CONSTANTS p1, p2, p3, k1, k2, k3, v0, v1, None, a1, a2

VARIABLES
    part,
    ptr, um_size, freep, um_brk, other, um_live,
    cacheLines, cacheOccupied, cacheHit, cacheMisses, totalLatency,
    fetched

(* The buffer cache: three processes, three blocks, two contents.          *)
ThreeProcs == {p1, p2, p3}
ThreeBlocks == {k1, k2, k3}
TwoVals == {v0, v1}

(* Two processors; kernel code takes lock 1 before lock 2, and releases    *)
(* them in either order; handlers take one of the two.                     *)
Acq(l) == <<"acquire", l>>
Rel(l) == <<"release", l>>
KernelPaths == {<<Acq(1), Acq(2), Rel(2), Rel(1)>>, <<Acq(1), Acq(2), Rel(1), Rel(2)>>,
                <<Acq(2), Rel(2)>>}
HandlerPaths == {<<Acq(1), Rel(1)>>, <<Acq(2), Rel(2)>>}

(* Two artists in opposite corners of a canvas of 4 by 2 pixels.           *)
TwoArtists == {a1, a2}
Corners == a1 :> <<0, 0>> @@ a2 :> <<3, 1>>

(* The heaps: one program.  That of BestFit is one program with a library  *)
(* that allocates, too.                                                    *)
UM == INSTANCE UMalloc WITH
    size <- um_size, brk <- um_brk, live <- um_live, Units <- {2, 3}, CORE <- 4,
    MaxHeap <- 14

(* Three keys, two of which share a bucket.                                *)
KeyLengths == [k \in {"a", "b", "cd"} |-> IF k = "cd" THEN 2 ELSE 1]

CS == INSTANCE CacheSim WITH
    BITWIDTH <- 4, indexStart <- 1, indexStop <- 2, costOfCacheHit <- 1,
    costOfCacheMiss <- 5, ADDRESSES <- 3

LB == INSTANCE Library WITH W <- 5, WORD <- 4
FI == INSTANCE Filters WITH BUF <- 6
SP == INSTANCE ShellParser WITH Words <- {"a"}, MAXARGS <- 3

ASSUME PartsAssumption ==
    /\ NoneAssumption /\ SizeAssumption /\ BootAssumption
    /\ ArtistAssumption /\ CanvasAssumption /\ OriginAssumption
    /\ UM!UMallocAssumption /\ CS!CacheSimAssumption
    /\ LB!LibraryAssumption /\ FI!FiltersAssumption

Parts == {"buffers", "spin", "boot", "painters", "umalloc", "bestfit", "minishell",
          "containers", "cache"}

buffersVars == vars
umallocVars == <<ptr, um_size, freep, um_brk, other, um_live>>
cacheVars == <<cacheLines, cacheOccupied, cacheHit, cacheMisses, totalLatency,
              fetched>>
partsVars == <<part, buffersVars, spinVars, bootVars, paintVars,
               umallocVars, heapVars,
               miniVars, containersVars, cacheVars>>

-----------------------------------------------------------------------------
PartsInit ==
    /\ part \in Parts \cup {"functions"}
    /\ Init /\ SpinInit /\ BootInit /\ PaintInit
    /\ UM!Init /\ HeapInit /\ MiniInit /\ ContainersInit /\ CS!Init
    /\ part # "buffers" => \E v \in Vals : disk = [k \in Blocks |-> v] /\ data = [i \in Bufs |-> v]

PartsNext ==
    \/ /\ part = "buffers" /\ Next
       /\ UNCHANGED <<part, spinVars, bootVars, paintVars,
                       umallocVars, heapVars, miniVars,
                       containersVars, cacheVars>>
    \/ /\ part = "spin" /\ SpinNext
       /\ UNCHANGED <<part, buffersVars, bootVars, paintVars,
                       umallocVars, heapVars, miniVars,
                       containersVars, cacheVars>>
    \/ /\ part = "boot" /\ BootNext
       /\ UNCHANGED <<part, buffersVars, spinVars, paintVars,
                       umallocVars, heapVars, miniVars,
                       containersVars, cacheVars>>
    \/ /\ part = "painters" /\ PaintNext
       /\ UNCHANGED <<part, buffersVars, spinVars, bootVars,
                       umallocVars, heapVars, miniVars,
                       containersVars, cacheVars>>
    \/ /\ part = "umalloc" /\ UM!Next
       /\ UNCHANGED <<part, buffersVars, spinVars, bootVars,
                       paintVars, heapVars, miniVars,
                       containersVars, cacheVars>>
    \/ /\ part = "bestfit" /\ HeapNext
       /\ UNCHANGED <<part, buffersVars, spinVars, bootVars,
                       paintVars, umallocVars, miniVars,
                       containersVars, cacheVars>>
    \/ /\ part = "minishell" /\ MiniNext
       /\ UNCHANGED <<part, buffersVars, spinVars, bootVars,
                       paintVars, umallocVars, heapVars,
                       containersVars, cacheVars>>
    \/ /\ part = "containers" /\ ContainersNext
       /\ UNCHANGED <<part, buffersVars, spinVars, bootVars,
                       paintVars, umallocVars, heapVars,
                       miniVars, cacheVars>>
    \/ /\ part = "cache" /\ CS!Next
       /\ UNCHANGED <<part, buffersVars, spinVars, bootVars,
                       paintVars, umallocVars, heapVars,
                       miniVars, containersVars>>

PartsSpec == PartsInit /\ [][PartsNext]_partsVars

(* Processes, blocks and contents of the buffer cache are interchangeable; *)
(* nothing else names them.                                                *)
PartsSymmetry == Permutations(Procs) \cup Permutations(Blocks) \cup Permutations(Vals)

-----------------------------------------------------------------------------
(* BufferCacheSound and NothingLost of Bcache, PagesGivenOnce of Boot,     *)
(* SpinLocksSound of SpinLock, NoIslands of Painters, PromptSettled of     *)
(* MiniShell and ContainersKeep of Containers are checked in all parts: in *)
(* others nothing of them moves.                                           *)

(* No memory is given twice and none is lost, in the two heaps.            *)
HeapsWhole ==
    /\ part = "umalloc" => UM!HeapPartitioned
    /\ part = "bestfit" => BlocksDisjoint

(* The score of the cache simulator is that of the trace, and the          *)
(* functions compute what their references say, on all of these inputs.    *)
FunctionsAgree ==
    /\ part = "cache" => CS!ScoreAgrees
    /\ part = "functions" =>
         /\ \A m \in [0..4 -> 0..2], d, s \in 0..4, n \in 0..3 :
              d + n <= 5 /\ s + n <= 5 => LB!MemoryAgrees(m, d, s, n)
         /\ \A x \in -16..15, base \in {10, 16} : LB!NumbersAgree(x, base)
         /\ \A a, n \in 0..31, sz \in {0, 4, 7, 16} : LB!ArgumentsInside(a, n, sz)
         /\ \A fmt \in SeqOf({"%", "d", "x", "s", "c", "q"}, 4) : LB!FormatsAgree(fmt)
         /\ \A re \in SeqOf({"a", ".", "*", "$", "^"}, 3), text \in SeqOf({"a", "b"}, 3) :
              FI!MatchAgrees(re, text)
         /\ \A pieces \in SeqOf(SeqOf({"a", " ", "nl"}, 2) \ {<< >>}, 3) :
              \A re \in {<<"a">>, <<".", "$">>} : FI!PiecesAgree(re, pieces)
         /\ \A tokens \in SeqOf(SP!Tokens, 4) : SP!ParserAgrees(tokens)
=============================================================================

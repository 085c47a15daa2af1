-------------------------------- MODULE CacheSim ----------------------------
(***************************************************************************)
(* The cache simulator of lab 6 (simulator.c, binary.h): a direct-mapped   *)
(* cache whose lines hold the whole address, and the conversions of        *)
(* numbers to strings of bits.                                             *)
(***************************************************************************)
EXTENDS Integers, FiniteSetsExt, SequencesExt

CONSTANTS
    BITWIDTH, indexStart, indexStop,
    costOfCacheHit, costOfCacheMiss,
    ADDRESSES           \* length of the trace

CacheSimAssumption ==
    /\ BITWIDTH \in Nat /\ indexStart \in 0..indexStop /\ indexStop < BITWIDTH
    /\ ADDRESSES \in Nat

(* intToBinaryString(): the digits from the last to the first.             *)
RECURSIVE BinaryString(_, _)
BinaryString(value, bits) ==
    IF bits = 0 THEN << >> ELSE Append(BinaryString(value \div 2, bits - 1), value % 2)

(* binaryStringToInt(): its callers pass the size with the NUL.            *)
BinaryStringToInt(bin, size) ==
    FoldFunction(+, 0, [i \in 1..(size - 1) |-> IF bin[i] = 1 THEN 2^(size - 1 - i) ELSE 0])

(* binaryStringRangeToInt(): bits start to stop, bit 0 is the last digit.  *)
BinaryStringRangeToInt(bin, start, stop) ==
    FoldFunction(+, 0, [k \in 0..(stop - start) |->
        IF bin[Len(bin) - start - k] = 1 THEN 2^k ELSE 0])

Index(bin) == BinaryStringRangeToInt(bin, indexStart, indexStop)
Lines == 0..(2^(indexStop - indexStart + 1) - 1)
Addresses == {BinaryString(n, BITWIDTH) : n \in 0..(2^BITWIDTH - 1)}

VARIABLES
    cacheLines, cacheOccupied,
    cacheHit, cacheMisses, totalLatency,
    fetched             \* history: the part of the trace up to PC

vars == <<cacheLines, cacheOccupied, cacheHit, cacheMisses, totalLatency, fetched>>

Init ==
    /\ cacheLines = [i \in Lines |-> << >>] /\ cacheOccupied = [i \in Lines |-> 0]
    /\ cacheHit = 0 /\ cacheMisses = 0 /\ totalLatency = 0
    /\ fetched = << >>

(* incrementCacheMiss(), incrementCacheHit()                               *)
IncrementCacheMiss ==
    /\ cacheMisses' = cacheMisses + 1 /\ totalLatency' = totalLatency + costOfCacheMiss
    /\ UNCHANGED cacheHit
IncrementCacheHit ==
    /\ cacheHit' = cacheHit + 1 /\ totalLatency' = totalLatency + costOfCacheHit
    /\ UNCHANGED cacheMisses

Fill(bin) == cacheLines' = [cacheLines EXCEPT ![Index(bin)] = bin]

(* ReplacementPolicy(), on a cold miss                                     *)
ReplacementPolicy(bin) ==
    /\ cacheOccupied' = [cacheOccupied EXCEPT ![Index(bin)] = 1]
    /\ Fill(bin) /\ IncrementCacheMiss

(* evictionPolicy()                                                        *)
EvictionPolicy(bin) ==
    /\ IF cacheLines[Index(bin)] = bin THEN IncrementCacheHit /\ UNCHANGED cacheLines
       ELSE Fill(bin) /\ IncrementCacheMiss
    /\ UNCHANGED cacheOccupied

(* main(): checkCache() and stepSimulator() for one address of the trace.  *)
Step(bin) ==
    /\ Len(fetched) < ADDRESSES
    /\ IF cacheOccupied[Index(bin)] = 0 THEN ReplacementPolicy(bin) ELSE EvictionPolicy(bin)
    /\ fetched' = Append(fetched, bin)

Next == \E bin \in Addresses : Step(bin)
Spec == Init /\ [][Next]_vars

-----------------------------------------------------------------------------
Value(bin) == BinaryStringToInt(bin, BITWIDTH + 1)

(* The score is that of the trace: an access hits when the last access     *)
(* before it with the same index bits was to the same address; and the     *)
(* conversions agree on which number a string of bits is.                  *)
ScoreAgrees ==
    LET index(i) == (Value(fetched[i]) \div 2^indexStart) % 2^(indexStop - indexStart + 1)
        earlier(i) == {j \in 1..(i - 1) : index(j) = index(i)}
        hits == {i \in DOMAIN fetched : earlier(i) # {} /\ fetched[Max(earlier(i))] = fetched[i]}
    IN  /\ cacheHit = Cardinality(hits) /\ cacheMisses = Len(fetched) - cacheHit
        /\ totalLatency = cacheHit * costOfCacheHit + cacheMisses * costOfCacheMiss
        /\ \A i \in DOMAIN fetched : BinaryString(Value(fetched[i]), BITWIDTH) = fetched[i]
=============================================================================

---------------------------- MODULE StorageProofs ---------------------------
(***************************************************************************)
(* Proofs about what stores data in order.  Of Pipe: for any number of     *)
(* readers and writers, any size of the pipe and any width of the counters *)
(* that is a multiple of it, the pipe implements ByteChannel and nobody    *)
(* sleeps who should be awake, except after a writer has been killed.  Of  *)
(* Containers: for any capacity, any keys and any number of buckets, the   *)
(* queue, the stack and the hash map keep what was put in.  Of BestFit:    *)
(* for any requests, what the program holds does not overlap.              *)
(***************************************************************************)
EXTENDS Pipe, Containers, BestFit, Integers, FiniteSetTheorems, SequenceTheorems, TLAPS

(* Whoever is between two calls of acquire() and release(), or about to    *)
(* sleep, holds the lock.                                                  *)
Held == \A p \in Procs : pc[p] \in {"loop", "copy", "rsleep", "wsleep"} <=> lock = p

(* A process is where its end of the pipe lets it be, and does not close   *)
(* the descriptor it is using.                                             *)
Places ==
    \A p \in Procs :
        /\ pc[p] \in {"copy", "rsleep", "rasleep"} => p \in Readers
        /\ pc[p] \in {"wsleep", "wasleep"} => p \in Writers
        /\ pc[p] # "out" => p \in open

(* An end that some process has open is open.                              *)
Ends ==
    /\ open \subseteq Procs
    /\ open \cap Readers # {} => readopen
    /\ open \cap Writers # {} => writeopen

(* A process about to sleep still has the reason it has found.             *)
Reasons ==
    \A p \in Procs : /\ pc[p] = "rsleep" => Empty /\ writeopen
                     /\ pc[p] = "wsleep" => Full /\ readopen

(* NoMissedWakeup, as long as no writer has been killed: pipewrite() of a  *)
(* killed process returns without a wakeup().                              *)
Awake == NoMissedWakeup \/ \E w \in Writers : killed[w]

(* The bytes still to copy are a number.                                    *)
Left == left \in [Procs -> Nat]

IInv == TypeOK /\ Left /\ Held /\ Places /\ Ends /\ Reasons /\ Awake

-----------------------------------------------------------------------------
(* Arithmetic of the counters.                                             *)

(* Quotient and remainder.                                                 *)
LEMMA DivMod ==
    ASSUME NEW a \in Nat, NEW n \in Nat \ {0}
    PROVE  /\ a % n \in 0..(n - 1)
           /\ a \div n \in Nat
           /\ a = n * (a \div n) + (a % n)
<1>1. a % n \in 0..(n - 1)  BY SMT
<1>2. a \div n \in Nat  BY SMT
<1>3. a = n * (a \div n) + (a % n)  BY SMT
<1> QED  BY <1>1, <1>2, <1>3

(* A multiple of n between -n and n is zero.                               *)
LEMMA SmallMultiple ==
    ASSUME NEW n \in Nat \ {0}, NEW q \in Int, n * q < n, -n < n * q
    PROVE  q = 0
<1>1. q >= 1 => n * q >= n  BY SMT
<1>2. q <= -1 => n * q <= -n  BY SMT
<1> QED  BY <1>1, <1>2

(* A multiple of n makes no difference to the remainder.                   *)
LEMMA ModSame ==
    ASSUME NEW a \in Nat, NEW b \in Nat, NEW n \in Nat \ {0}, NEW k \in Int,
           b = a + n * k
    PROVE  b % n = a % n
<1> DEFINE q == (b \div n) - (a \div n) - k
<1>1. /\ a % n \in 0..(n - 1) /\ a \div n \in Nat
      /\ a = n * (a \div n) + (a % n)
  BY DivMod
<1>2. /\ b % n \in 0..(n - 1) /\ b \div n \in Nat
      /\ b = n * (b \div n) + (b % n)
  BY DivMod
<1>3. q \in Int  BY <1>1, <1>2
<1>4. n * q = n * (b \div n) - n * (a \div n) - n * k  BY <1>1, <1>2
<1>5. n * q = (a % n) - (b % n)  BY <1>1, <1>2, <1>4
<1> HIDE DEF q
<1>6. q = 0  BY <1>1, <1>2, <1>5, <1>3, SmallMultiple
<1> QED  BY <1>1, <1>2, <1>5, <1>6

(* Numbers less than n apart have different remainders.                    *)
LEMMA ModDistinct ==
    ASSUME NEW a \in Nat, NEW b \in Nat, NEW n \in Nat \ {0}, a < b, b - a < n
    PROVE  a % n # b % n
<1> DEFINE q == (b \div n) - (a \div n)
<1> SUFFICES ASSUME a % n = b % n
             PROVE  FALSE
  OBVIOUS
<1>1. /\ a % n \in 0..(n - 1) /\ a \div n \in Nat
      /\ a = n * (a \div n) + (a % n)
  BY DivMod
<1>2. /\ b % n \in 0..(n - 1) /\ b \div n \in Nat
      /\ b = n * (b \div n) + (b % n)
  BY DivMod
<1>3. q \in Int  BY <1>1, <1>2
<1>4. n * q = n * (b \div n) - n * (a \div n)  BY <1>1, <1>2
<1>5. n * q = b - a  BY <1>1, <1>2, <1>4
<1> HIDE DEF q
<1>6. q = 0  BY <1>5, <1>3, SmallMultiple
<1> QED  BY <1>5, <1>6

(* Counters are below WORD, and what is added to them does not pass it     *)
(* twice.                                                                  *)
LEMMA PlusIs ==
    ASSUME SizeAssumption, NEW a \in 0..(WORD - 1), NEW k \in 0..WORD
    PROVE  /\ (a + k) % WORD = IF a + k < WORD THEN a + k ELSE a + k - WORD
           /\ (a + k) % WORD \in 0..(WORD - 1)
<1>1. WORD \in Nat /\ WORD > 0  BY DEF SizeAssumption
<1>2. CASE a + k < WORD  BY <1>1, <1>2
<1>3. CASE a + k >= WORD
  <2>1. (a + k) % WORD = a + k - WORD  BY <1>1, <1>3
  <2> QED  BY <2>1, <1>1, <1>3
<1> QED  BY <1>1, <1>2, <1>3

(* The number of bytes in the ring when nread is a and nwrite is b.        *)
Dist(a, b) == (b + WORD - a) % WORD

LEMMA DistIs ==
    ASSUME SizeAssumption, NEW a \in 0..(WORD - 1), NEW b \in 0..(WORD - 1)
    PROVE  /\ Dist(a, b) = IF a <= b THEN b - a ELSE b + WORD - a
           /\ Dist(a, b) \in 0..(WORD - 1)
<1>1. WORD \in Nat /\ WORD > 0  BY DEF SizeAssumption
<1>2. WORD - a \in 0..WORD /\ b + WORD - a = b + (WORD - a)  BY <1>1
<1>3. Dist(a, b) = (b + (WORD - a)) % WORD  BY <1>2 DEF Dist
<1> QED  BY <1>1, <1>2, <1>3, PlusIs

(* The tests of pipewrite() and piperead() say what they are meant to say. *)
LEMMA TestsAreRight ==
    ASSUME SizeAssumption, NEW a \in 0..(WORD - 1), NEW b \in 0..(WORD - 1)
    PROVE  /\ b = (a + PIPESIZE) % WORD <=> Dist(a, b) = PIPESIZE
           /\ a = b <=> Dist(a, b) = 0
<1>1. WORD \in Nat /\ PIPESIZE \in Nat \ {0} /\ PIPESIZE < WORD
  BY DEF SizeAssumption
<1>2. PIPESIZE \in 0..WORD  BY <1>1
<1>3. (a + PIPESIZE) % WORD = IF a + PIPESIZE < WORD THEN a + PIPESIZE
                                                     ELSE a + PIPESIZE - WORD
  BY <1>2, PlusIs
<1>4. Dist(a, b) = IF a <= b THEN b - a ELSE b + WORD - a
  BY DistIs
<1> QED  BY <1>1, <1>3, <1>4

(* A byte more and a byte less.                                            *)
LEMMA DistPut ==
    ASSUME SizeAssumption, NEW a \in 0..(WORD - 1), NEW b \in 0..(WORD - 1),
           Dist(a, b) < PIPESIZE
    PROVE  /\ (b + 1) % WORD \in 0..(WORD - 1)
           /\ Dist(a, (b + 1) % WORD) = Dist(a, b) + 1
<1>1. WORD \in Nat /\ PIPESIZE \in Nat \ {0} /\ PIPESIZE < WORD
  BY DEF SizeAssumption
<1>2. 1 \in 0..WORD  BY <1>1
<1>3. /\ (b + 1) % WORD = IF b + 1 < WORD THEN b + 1 ELSE b + 1 - WORD
      /\ (b + 1) % WORD \in 0..(WORD - 1)
  BY <1>2, PlusIs
<1>4. Dist(a, b) = IF a <= b THEN b - a ELSE b + WORD - a
  BY DistIs
<1>5. Dist(a, (b + 1) % WORD) = IF a <= (b + 1) % WORD THEN ((b + 1) % WORD) - a
                                ELSE ((b + 1) % WORD) + WORD - a
  BY <1>3, DistIs
<1> QED  BY <1>1, <1>3, <1>4, <1>5

LEMMA DistGet ==
    ASSUME SizeAssumption, NEW a \in 0..(WORD - 1), NEW b \in 0..(WORD - 1),
           a # b
    PROVE  /\ (a + 1) % WORD \in 0..(WORD - 1)
           /\ Dist((a + 1) % WORD, b) = Dist(a, b) - 1
<1>1. WORD \in Nat /\ WORD > 1
  BY DEF SizeAssumption
<1>2. 1 \in 0..WORD  BY <1>1
<1>3. /\ (a + 1) % WORD = IF a + 1 < WORD THEN a + 1 ELSE a + 1 - WORD
      /\ (a + 1) % WORD \in 0..(WORD - 1)
  BY <1>2, PlusIs
<1>4. Dist(a, b) = IF a <= b THEN b - a ELSE b + WORD - a
  BY DistIs
<1>5. Dist((a + 1) % WORD, b) = IF (a + 1) % WORD <= b THEN b - ((a + 1) % WORD)
                                ELSE b + WORD - ((a + 1) % WORD)
  BY <1>3, DistIs
<1> QED  BY <1>1, <1>3, <1>4, <1>5

(* The place in data of the k-th byte after nread; PIPESIZE divides WORD.  *)
LEMMA SlotIs ==
    ASSUME SizeAssumption, NEW a \in 0..(WORD - 1), NEW k \in 0..WORD
    PROVE  ((a + k) % WORD) % PIPESIZE = (a + k) % PIPESIZE
<1>1. WORD \in Nat /\ PIPESIZE \in Nat \ {0} /\ WORD % PIPESIZE = 0
  BY DEF SizeAssumption
<1> DEFINE m == WORD \div PIPESIZE
           c == a + k - WORD
           e == a + k
<1>2. m \in Int /\ WORD = PIPESIZE * m
  BY <1>1, DivMod
<1> HIDE DEF m
<1>3. (a + k) % WORD = IF a + k < WORD THEN a + k ELSE a + k - WORD
  BY PlusIs
<1>4. CASE a + k < WORD  BY <1>3, <1>4
<1>5. CASE a + k >= WORD
  <2>1. c \in Nat /\ e \in Nat  BY <1>1, <1>5
  <2>2. e = c + PIPESIZE * m  BY <1>1, <1>2
  <2> HIDE DEF c, e
  <2>3. e % PIPESIZE = c % PIPESIZE
    <3>1. PIPESIZE \in Nat \ {0} /\ m \in Int  BY <1>1, <1>2
    <3> QED  BY <3>1, <2>1, <2>2, ModSame, Zenon
  <2> QED  BY <1>1, <1>3, <1>5, <2>3 DEF c, e
<1> QED  BY <1>1, <1>4, <1>5

LEMMA EndSlot ==
    ASSUME SizeAssumption, NEW a \in 0..(WORD - 1), NEW b \in 0..(WORD - 1)
    PROVE  b % PIPESIZE = (a + Dist(a, b)) % PIPESIZE
<1>1. WORD \in Nat  BY DEF SizeAssumption
<1>2. /\ Dist(a, b) = IF a <= b THEN b - a ELSE b + WORD - a
      /\ Dist(a, b) \in 0..WORD
  BY <1>1, DistIs
<1> DEFINE d == Dist(a, b)
<1>3. (a + d) % WORD = IF a + d < WORD THEN a + d ELSE a + d - WORD
  BY <1>2, PlusIs
<1>4. (a + d) % WORD = b
  BY <1>1, <1>2, <1>3
<1> QED  BY <1>2, <1>4, SlotIs

-----------------------------------------------------------------------------
(* The inductive invariant.                                                *)

LEMMA CountIs == Count = Dist(nread, nwrite)
BY DEF Count, Dist

LEMMA InitIInv ==
    ASSUME ProcAssumption, SizeAssumption, Init
    PROVE  IInv
<1>1. PIPESIZE \in Nat \ {0} /\ WORD \in Nat /\ WORD > PIPESIZE
  BY DEF SizeAssumption
<1>2. PICK b \in Bytes : data = [i \in 0..(PIPESIZE - 1) |-> b] /\ got = b
  BY DEF Init
<1>3. nread = 0 /\ nwrite = 0 /\ 0 \in 0..(WORD - 1)
  BY <1>1 DEF Init
<1>4. Count = 0
  BY <1>1, <1>3, TestsAreRight, CountIs
<1>5. \A p \in Procs : \E n \in Sizes : left[p] \in 0..n
  <2>1. PICK n \in Sizes : TRUE  BY DEF SizeAssumption
  <2>2. n \in Nat  BY DEF SizeAssumption
  <2> QED  BY <2>1, <2>2 DEF Init
<1>6. TypeOK
  BY <1>1, <1>2, <1>3, <1>4, <1>5 DEF TypeOK, Init
<1>7. Left /\ Places /\ Ends /\ Reasons
  BY DEF Init, Left, Places, Ends, Reasons, Procs
<1>8. Held /\ Awake
  BY DEF Init, Held, Awake, NoMissedWakeup, ProcAssumption, Procs
<1> QED  BY <1>6, <1>7, <1>8 DEF IInv

(* The steps that touch the ring keep its bounds.                          *)
LEMMA PutRing ==
    ASSUME SizeAssumption, TypeOK, NEW p \in Procs, NEW b \in Bytes, WriteByte(p, b)
    PROVE  /\ data' \in [0..(PIPESIZE - 1) -> Bytes]
           /\ nwrite' \in 0..(WORD - 1)
           /\ Count' = Count + 1 /\ Count < PIPESIZE
           /\ nread' = nread /\ nwrite % PIPESIZE \in 0..(PIPESIZE - 1)
<1>1. /\ nread \in 0..(WORD - 1) /\ nwrite \in 0..(WORD - 1)
      /\ data \in [0..(PIPESIZE - 1) -> Bytes] /\ Count <= PIPESIZE
  BY DEF TypeOK
<1>2. /\ nwrite' = (nwrite + 1) % WORD /\ nread' = nread
      /\ data' = [data EXCEPT ![nwrite % PIPESIZE] = b]
      /\ nwrite # (nread + PIPESIZE) % WORD
  BY DEF WriteByte, Full
<1>3. Dist(nread, nwrite) < PIPESIZE
  <2>1. Dist(nread, nwrite) # PIPESIZE /\ Dist(nread, nwrite) \in 0..(WORD - 1)
    BY <1>1, <1>2, TestsAreRight, DistIs
  <2>2. Dist(nread, nwrite) <= PIPESIZE
    BY <1>1, CountIs
  <2> QED  BY <2>1, <2>2 DEF SizeAssumption
<1>4. /\ (nwrite + 1) % WORD \in 0..(WORD - 1)
      /\ Dist(nread, (nwrite + 1) % WORD) = Dist(nread, nwrite) + 1
  BY <1>1, <1>3, DistPut
<1>5. Count' = Dist(nread', nwrite')
  BY DEF Count, Dist
<1>6. nwrite % PIPESIZE \in 0..(PIPESIZE - 1)
  BY <1>1 DEF SizeAssumption
<1> QED  BY <1>1, <1>2, <1>3, <1>4, <1>5, <1>6, CountIs

LEMMA GetRing ==
    ASSUME SizeAssumption, TypeOK, NEW p \in Procs, ReadByte(p)
    PROVE  /\ nread' \in 0..(WORD - 1) /\ nread' = (nread + 1) % WORD
           /\ Count' = Count - 1 /\ Count \in 1..PIPESIZE
           /\ got' = data[nread % PIPESIZE] /\ got' \in Bytes
<1>1. /\ nread \in 0..(WORD - 1) /\ nwrite \in 0..(WORD - 1)
      /\ data \in [0..(PIPESIZE - 1) -> Bytes] /\ Count <= PIPESIZE
  BY DEF TypeOK
<1>2. /\ nread' = (nread + 1) % WORD /\ nwrite' = nwrite
      /\ got' = data[nread % PIPESIZE] /\ nread # nwrite
  BY DEF ReadByte, Empty
<1>3. /\ (nread + 1) % WORD \in 0..(WORD - 1)
      /\ Dist((nread + 1) % WORD, nwrite) = Dist(nread, nwrite) - 1
  BY <1>1, <1>2, DistGet
<1>4. Count' = Dist(nread', nwrite')
  BY DEF Count, Dist
<1>5. Dist(nread, nwrite) # 0 /\ Dist(nread, nwrite) \in 0..(WORD - 1)
  BY <1>1, <1>2, TestsAreRight, DistIs
<1>6. nread % PIPESIZE \in 0..(PIPESIZE - 1)
  BY <1>1 DEF SizeAssumption
<1> QED  BY <1>1, <1>2, <1>3, <1>4, <1>5, <1>6, CountIs DEF SizeAssumption

(* Waking processes up moves some of them from their sleep to "ready".     *)
LEMMA WakeupType ==
    ASSUME NEW C, NEW f \in [Procs -> {"out", "loop", "copy", "rsleep", "wsleep",
                                       "rasleep", "wasleep", "ready"}]
    PROVE  Wakeup(C, f) \in [Procs -> {"out", "loop", "copy", "rsleep", "wsleep",
                                       "rasleep", "wasleep", "ready"}]
BY DEF Wakeup

LEMMA TypeStep ==
    ASSUME ProcAssumption, SizeAssumption, IInv, Next
    PROVE  TypeOK' /\ Left'
<1> DEFINE Labels == {"out", "loop", "copy", "rsleep", "wsleep", "rasleep",
                      "wasleep", "ready"}
           LeftOK == /\ left \in [Procs -> Nat]
                     /\ \A p \in Procs : \E n \in Sizes : left[p] \in 0..n
           RingOK == /\ data \in [0..(PIPESIZE - 1) -> Bytes] /\ got \in Bytes
                     /\ nread \in 0..(WORD - 1) /\ nwrite \in 0..(WORD - 1)
                     /\ Count <= PIPESIZE
           EndsOK == /\ readopen \in BOOLEAN /\ writeopen \in BOOLEAN
                     /\ frees = IF readopen \/ writeopen THEN 0 ELSE 1
           RestOK == /\ lock \in Procs \cup {NoProc}
                     /\ pc \in [Procs -> Labels]
                     /\ killed \in [Procs -> BOOLEAN]
<1> USE DEF IInv
<1>1. LeftOK /\ RingOK /\ EndsOK /\ RestOK
  BY DEF TypeOK, Left
<1>2. Sizes \subseteq Nat \ {0} /\ Sizes # {}
  BY DEF SizeAssumption
<1>3. UNCHANGED <<ring, got>> => RingOK'
  BY <1>1 DEF ring, Count
<1>4. UNCHANGED ends => EndsOK'
  BY <1>1 DEF ends
<1>5. UNCHANGED left => LeftOK'
  BY <1>1
<1>6. ASSUME NEW p \in Procs, left' = [left EXCEPT ![p] = 0]
      PROVE  LeftOK'
  <2>1. left' \in [Procs -> Nat]  BY <1>1, <1>6
  <2>2. ASSUME NEW q \in Procs  PROVE  \E n \in Sizes : left'[q] \in 0..n
    <3>1. PICK n \in Sizes : left[q] \in 0..n  BY <1>1
    <3>2. left'[q] \in 0..n  BY <1>1, <1>2, <1>6, <3>1
    <3> QED  BY <3>2
  <2> QED  BY <2>1, <2>2
<1>7. ASSUME NEW p \in Procs, left' = [left EXCEPT ![p] = @ - 1], left[p] > 0
      PROVE  LeftOK'
  <2>1. left' \in [Procs -> Nat]  BY <1>1, <1>7
  <2>2. ASSUME NEW q \in Procs  PROVE  \E n \in Sizes : left'[q] \in 0..n
    <3>1. PICK n \in Sizes : left[q] \in 0..n  BY <1>1
    <3>2. left'[q] \in 0..n  BY <1>1, <1>2, <1>7, <3>1
    <3> QED  BY <3>2
  <2> QED  BY <2>1, <2>2
<1>8. ASSUME NEW p \in Procs, NEW n \in Sizes, left' = [left EXCEPT ![p] = n]
      PROVE  LeftOK'
  <2>1. left' \in [Procs -> Nat]  BY <1>1, <1>2, <1>8
  <2>2. ASSUME NEW q \in Procs  PROVE  \E m \in Sizes : left'[q] \in 0..m
    <3>1. PICK m \in Sizes : left[q] \in 0..m  BY <1>1
    <3>2. left'[q] \in 0..m \/ left'[q] \in 0..n  BY <1>1, <1>2, <1>8, <3>1
    <3> QED  BY <3>2
  <2> QED  BY <2>1, <2>2
<1>9. LeftOK' /\ RingOK' /\ EndsOK' /\ RestOK' => TypeOK' /\ Left'
  BY DEF TypeOK, Left
<1>10. ASSUME NEW p \in Procs, Call(p)  PROVE  TypeOK' /\ Left'
  <2>1. LeftOK'  BY <1>8, <1>10 DEF Call
  <2>2. RingOK' /\ EndsOK'  BY <1>3, <1>4, <1>10 DEF Call, ring, ends
  <2>3. RestOK'  BY <1>1, <1>10 DEF Call, Goto
  <2> HIDE DEF LeftOK, RingOK, EndsOK, RestOK
  <2> QED  BY <2>1, <2>2, <2>3, <1>9
<1>11. Count \in Nat
  BY <1>1, CountIs, DistIs DEF SizeAssumption
<1>12. ASSUME NEW p \in Procs, NEW b \in Bytes, WriteByte(p, b)
       PROVE  TypeOK' /\ Left'
  <2>1. LeftOK'  BY <1>7, <1>12 DEF WriteByte
  <2>2. RingOK'
    <3>1. Count' = Count + 1 /\ Count < PIPESIZE
      BY <1>12, PutRing, <1>1 DEF TypeOK
    <3>2. Count' <= PIPESIZE
      BY <3>1, <1>11 DEF SizeAssumption
    <3>3. /\ data' \in [0..(PIPESIZE - 1) -> Bytes]
          /\ nwrite' \in 0..(WORD - 1) /\ nread' = nread /\ got' = got
      BY <1>1, <1>12, PutRing DEF WriteByte
    <3> QED  BY <3>2, <3>3, <1>1
  <2>3. EndsOK' /\ RestOK'  BY <1>1, <1>4, <1>12 DEF WriteByte, ends
  <2> HIDE DEF LeftOK, RingOK, EndsOK, RestOK
  <2> QED  BY <2>1, <2>2, <2>3, <1>9
<1>13. ASSUME NEW p \in Procs, WriteFull(p)  PROVE  TypeOK' /\ Left'
  <2>1. LeftOK'  BY <1>5, <1>6, <1>13 DEF WriteFull
  <2>2. RingOK' /\ EndsOK'  BY <1>3, <1>4, <1>13 DEF WriteFull, ring, ends
  <2>3. ASSUME ~readopen \/ killed[p]
        PROVE  RestOK'
    BY <1>1, <1>13, <2>3 DEF WriteFull, Goto
  <2>4. ASSUME ~(~readopen \/ killed[p])
        PROVE  RestOK'
    <3> DEFINE f == [pc EXCEPT ![p] = "wsleep"]
    <3>1. f \in [Procs -> Labels]  BY <1>1
    <3>2. pc' = Wakeup({"rasleep"}, f)  BY <1>13, <2>4 DEF WriteFull
    <3>3. lock' = lock /\ killed' = killed  BY <1>13, <2>4 DEF WriteFull
    <3> HIDE DEF f
    <3> QED  BY <1>1, <3>1, <3>2, <3>3, WakeupType
  <2>5. RestOK'  BY <2>3, <2>4
  <2> HIDE DEF LeftOK, RingOK, EndsOK, RestOK
  <2> QED  BY <2>1, <2>2, <2>5, <1>9
<1>14. ASSUME NEW p \in Procs, WriteDone(p)  PROVE  TypeOK' /\ Left'
  <2>1. LeftOK'  BY <1>5, <1>14 DEF WriteDone
  <2>2. RingOK' /\ EndsOK'  BY <1>3, <1>4, <1>14 DEF WriteDone, ring, ends
  <2>3. RestOK'  BY <1>1, <1>14, WakeupType DEF WriteDone
  <2> HIDE DEF LeftOK, RingOK, EndsOK, RestOK
  <2> QED  BY <2>1, <2>2, <2>3, <1>9
<1>15. ASSUME NEW p \in Procs, ReadEmpty(p)  PROVE  TypeOK' /\ Left'
  <2>1. LeftOK'  BY <1>5, <1>6, <1>15 DEF ReadEmpty
  <2>2. RingOK' /\ EndsOK'  BY <1>3, <1>4, <1>15 DEF ReadEmpty, ring, ends
  <2>3. RestOK'  BY <1>1, <1>15 DEF ReadEmpty, Goto
  <2> HIDE DEF LeftOK, RingOK, EndsOK, RestOK
  <2> QED  BY <2>1, <2>2, <2>3, <1>9
<1>16. ASSUME NEW p \in Procs, ReadStart(p)  PROVE  TypeOK' /\ Left'
  <2>1. LeftOK'  BY <1>5, <1>16 DEF ReadStart
  <2>2. RingOK' /\ EndsOK'  BY <1>3, <1>4, <1>16 DEF ReadStart, ring, ends
  <2>3. RestOK'  BY <1>1, <1>16 DEF ReadStart, Goto
  <2> HIDE DEF LeftOK, RingOK, EndsOK, RestOK
  <2> QED  BY <2>1, <2>2, <2>3, <1>9
<1>17. ASSUME NEW p \in Procs, ReadByte(p)  PROVE  TypeOK' /\ Left'
  <2>1. LeftOK'  BY <1>7, <1>17 DEF ReadByte
  <2>2. RingOK'
    <3>1. /\ Count' = Count - 1 /\ Count \in 1..PIPESIZE
          /\ nread' \in 0..(WORD - 1) /\ got' \in Bytes
      BY <1>17, GetRing DEF TypeOK
    <3>2. Count' <= PIPESIZE
      BY <3>1 DEF SizeAssumption
    <3> QED  BY <3>1, <3>2, <1>1, <1>17 DEF ReadByte
  <2>3. EndsOK' /\ RestOK'  BY <1>1, <1>4, <1>17 DEF ReadByte, ends
  <2> HIDE DEF LeftOK, RingOK, EndsOK, RestOK
  <2> QED  BY <2>1, <2>2, <2>3, <1>9
<1>18. ASSUME NEW p \in Procs, ReadDone(p)  PROVE  TypeOK' /\ Left'
  <2>1. LeftOK'  BY <1>6, <1>18 DEF ReadDone
  <2>2. RingOK' /\ EndsOK'  BY <1>3, <1>4, <1>18 DEF ReadDone, ring, ends
  <2>3. RestOK'  BY <1>1, <1>18, WakeupType DEF ReadDone
  <2> HIDE DEF LeftOK, RingOK, EndsOK, RestOK
  <2> QED  BY <2>1, <2>2, <2>3, <1>9
<1>19. ASSUME NEW p \in Procs, Sleep(p) \/ Relock(p)  PROVE  TypeOK' /\ Left'
  <2>1. LeftOK'  BY <1>5, <1>19 DEF Sleep, Relock
  <2>2. RingOK' /\ EndsOK'  BY <1>3, <1>4, <1>19 DEF Sleep, Relock, ring, ends
  <2>3. RestOK'  BY <1>1, <1>19 DEF Sleep, Relock, Goto
  <2> HIDE DEF LeftOK, RingOK, EndsOK, RestOK
  <2> QED  BY <2>1, <2>2, <2>3, <1>9
<1>20. ASSUME NEW p \in Procs, Kill(p)  PROVE  TypeOK' /\ Left'
  <2>1. LeftOK'  BY <1>5, <1>20 DEF Kill
  <2>2. RingOK' /\ EndsOK'  BY <1>3, <1>4, <1>20 DEF Kill, ring, ends
  <2>3. RestOK'  BY <1>1, <1>20 DEF Kill
  <2> HIDE DEF LeftOK, RingOK, EndsOK, RestOK
  <2> QED  BY <2>1, <2>2, <2>3, <1>9
<1>21. ASSUME NEW p \in Procs, Close(p)  PROVE  TypeOK' /\ Left'
  <2>1. LeftOK'  BY <1>5, <1>21 DEF Close
  <2>2. RingOK'  BY <1>3, <1>21 DEF Close, ring
  <2>3. RestOK'  BY <1>1, <1>21, WakeupType DEF Close
  <2>4. EndsOK'
    <3>1. readopen \/ writeopen
      BY <1>21 DEF Close, Ends, Procs
    <3> QED  BY <1>1, <1>21, <3>1 DEF Close
  <2> HIDE DEF LeftOK, RingOK, EndsOK, RestOK
  <2> QED  BY <2>1, <2>2, <2>3, <2>4, <1>9
<1> HIDE DEF IInv
<1> QED  BY <1>10, <1>12, <1>13, <1>14, <1>15, <1>16, <1>17, <1>18, <1>19, <1>20,
            <1>21 DEF Next, InCall

(* Nobody moves to a place that Held, Places and Reasons forbid.  What a   *)
(* process finds while it holds the lock stays true until it is asleep.    *)
LEMMA PlaceStep ==
    ASSUME ProcAssumption, SizeAssumption, IInv, Next
    PROVE  Held' /\ Places' /\ Ends' /\ Reasons'
<1>1. /\ pc \in [Procs -> {"out", "loop", "copy", "rsleep", "wsleep", "rasleep",
                           "wasleep", "ready"}]
      /\ Held /\ Places /\ Ends /\ Reasons
  BY DEF IInv, TypeOK
<1>2. NoProc \notin Procs /\ Procs = Readers \cup Writers /\ Readers \cap Writers = {}
  BY DEF ProcAssumption, Procs
<1>3. PIPESIZE \in Nat \ {0} /\ WORD \in Nat
  BY DEF SizeAssumption
<1>4. ASSUME NEW p \in Procs, Call(p)
     PROVE  Held' /\ Places' /\ Ends' /\ Reasons'
  <2>1. Held'  BY <1>1, <1>2, <1>4 DEF Call, Goto, Held
  <2>2. Places'  BY <1>1, <1>2, <1>4 DEF Call, Goto, Held, Places, ends
  <2>3. Ends'  BY <1>1, <1>2, <1>4 DEF Call, Goto, Ends, ends
  <2>4. Reasons'  BY <1>1, <1>2, <1>4 DEF Call, Goto, Held, Reasons, Empty, Full, ring, ends
  <2> QED  BY <2>1, <2>2, <2>3, <2>4
<1>5. ASSUME NEW p \in Procs, \E b \in Bytes : WriteByte(p, b)
     PROVE  Held' /\ Places' /\ Ends' /\ Reasons'
  <2>1. Held'  BY <1>1, <1>2, <1>5 DEF WriteByte, Held
  <2>2. Places'  BY <1>1, <1>2, <1>5 DEF WriteByte, Held, Places, ends
  <2>3. Ends'  BY <1>1, <1>2, <1>5 DEF WriteByte, Ends, ends
  <2>4. Reasons'  BY <1>1, <1>2, <1>5 DEF WriteByte, Held, Reasons, Empty, Full, ring, ends
  <2> QED  BY <2>1, <2>2, <2>3, <2>4
<1>6. ASSUME NEW p \in Procs, WriteFull(p)
     PROVE  Held' /\ Places' /\ Ends' /\ Reasons'
  <2>1. Held'  BY <1>1, <1>2, <1>6 DEF WriteFull, Goto, Wakeup, Held
  <2>2. Places'  BY <1>1, <1>2, <1>6 DEF WriteFull, Goto, Wakeup, Held, Places, ends
  <2>3. Ends'  BY <1>1, <1>2, <1>6 DEF WriteFull, Goto, Wakeup, Ends, ends
  <2>4. Reasons'  BY <1>1, <1>2, <1>6 DEF WriteFull, Goto, Wakeup, Held, Reasons, Empty, Full, ring, ends
  <2> QED  BY <2>1, <2>2, <2>3, <2>4
<1>7. ASSUME NEW p \in Procs, WriteDone(p)
     PROVE  Held' /\ Places' /\ Ends' /\ Reasons'
  <2>1. Held'  BY <1>1, <1>2, <1>7 DEF WriteDone, Wakeup, Held
  <2>2. Places'  BY <1>1, <1>2, <1>7 DEF WriteDone, Wakeup, Held, Places, ends
  <2>3. Ends'  BY <1>1, <1>2, <1>7 DEF WriteDone, Wakeup, Ends, ends
  <2>4. Reasons'  BY <1>1, <1>2, <1>7 DEF WriteDone, Wakeup, Held, Reasons, Empty, Full, ring, ends
  <2> QED  BY <2>1, <2>2, <2>3, <2>4
<1>8. ASSUME NEW p \in Procs, ReadEmpty(p)
     PROVE  Held' /\ Places' /\ Ends' /\ Reasons'
  <2>1. Held'  BY <1>1, <1>2, <1>8 DEF ReadEmpty, Goto, Held
  <2>2. Places'  BY <1>1, <1>2, <1>8 DEF ReadEmpty, Goto, Held, Places, ends
  <2>3. Ends'  BY <1>1, <1>2, <1>8 DEF ReadEmpty, Goto, Ends, ends
  <2>4. Reasons'  BY <1>1, <1>2, <1>8 DEF ReadEmpty, Goto, Held, Reasons, Empty, Full, ring, ends
  <2> QED  BY <2>1, <2>2, <2>3, <2>4
<1>9. ASSUME NEW p \in Procs, ReadStart(p)
     PROVE  Held' /\ Places' /\ Ends' /\ Reasons'
  <2>1. Held'  BY <1>1, <1>2, <1>9 DEF ReadStart, Goto, Held
  <2>2. Places'  BY <1>1, <1>2, <1>9 DEF ReadStart, Goto, Held, Places, ends
  <2>3. Ends'  BY <1>1, <1>2, <1>9 DEF ReadStart, Goto, Ends, ends
  <2>4. Reasons'  BY <1>1, <1>2, <1>9 DEF ReadStart, Goto, Held, Reasons, Empty, Full, ring, ends
  <2> QED  BY <2>1, <2>2, <2>3, <2>4
<1>10. ASSUME NEW p \in Procs, ReadByte(p)
      PROVE  Held' /\ Places' /\ Ends' /\ Reasons'
  <2>1. Held'  BY <1>1, <1>2, <1>10 DEF ReadByte, Held
  <2>2. Places'  BY <1>1, <1>2, <1>10 DEF ReadByte, Held, Places, ends
  <2>3. Ends'  BY <1>1, <1>2, <1>10 DEF ReadByte, Ends, ends
  <2>4. Reasons'  BY <1>1, <1>2, <1>10 DEF ReadByte, Held, Reasons, Empty, Full, ring, ends
  <2> QED  BY <2>1, <2>2, <2>3, <2>4
<1>11. ASSUME NEW p \in Procs, ReadDone(p)
      PROVE  Held' /\ Places' /\ Ends' /\ Reasons'
  <2>1. Held'  BY <1>1, <1>2, <1>11 DEF ReadDone, Wakeup, Held
  <2>2. Places'  BY <1>1, <1>2, <1>11 DEF ReadDone, Wakeup, Held, Places, ends
  <2>3. Ends'  BY <1>1, <1>2, <1>11 DEF ReadDone, Wakeup, Ends, ends
  <2>4. Reasons'  BY <1>1, <1>2, <1>11 DEF ReadDone, Wakeup, Held, Reasons, Empty, Full, ring, ends
  <2> QED  BY <2>1, <2>2, <2>3, <2>4
<1>12. ASSUME NEW p \in Procs, Sleep(p)
      PROVE  Held' /\ Places' /\ Ends' /\ Reasons'
  <2>1. Held'  BY <1>1, <1>2, <1>12 DEF Sleep, Goto, Held
  <2>2. Places'  BY <1>1, <1>2, <1>12 DEF Sleep, Goto, Held, Places, ends
  <2>3. Ends'  BY <1>1, <1>2, <1>12 DEF Sleep, Goto, Ends, ends
  <2>4. Reasons'  BY <1>1, <1>2, <1>12 DEF Sleep, Goto, Held, Reasons, Empty, Full, ring, ends
  <2> QED  BY <2>1, <2>2, <2>3, <2>4
<1>13. ASSUME NEW p \in Procs, Relock(p)
      PROVE  Held' /\ Places' /\ Ends' /\ Reasons'
  <2>1. Held'  BY <1>1, <1>2, <1>13 DEF Relock, Goto, Held
  <2>2. Places'  BY <1>1, <1>2, <1>13 DEF Relock, Goto, Held, Places, ends
  <2>3. Ends'  BY <1>1, <1>2, <1>13 DEF Relock, Goto, Ends, ends
  <2>4. Reasons'  BY <1>1, <1>2, <1>13 DEF Relock, Goto, Held, Reasons, Empty, Full, ring, ends
  <2> QED  BY <2>1, <2>2, <2>3, <2>4
<1>14. ASSUME NEW p \in Procs, Kill(p)
      PROVE  Held' /\ Places' /\ Ends' /\ Reasons'
  <2>1. Held'  BY <1>1, <1>2, <1>14 DEF Kill, Held
  <2>2. Places'  BY <1>1, <1>2, <1>14 DEF Kill, Held, Places, ends
  <2>3. Ends'  BY <1>1, <1>2, <1>14 DEF Kill, Ends, ends
  <2>4. Reasons'  BY <1>1, <1>2, <1>14 DEF Kill, Held, Reasons, Empty, Full, ring, ends
  <2> QED  BY <2>1, <2>2, <2>3, <2>4
<1>15. ASSUME NEW p \in Procs, Close(p)
      PROVE  Held' /\ Places' /\ Ends' /\ Reasons'
  <2>1. Held'  BY <1>1, <1>2, <1>15 DEF Close, Wakeup, Held
  <2>2. Places'  BY <1>1, <1>2, <1>15 DEF Close, Wakeup, Held, Places, ends
  <2>3. Ends'  BY <1>1, <1>2, <1>15 DEF Close, Wakeup, Ends, ends
  <2>4. Reasons'  BY <1>1, <1>2, <1>15 DEF Close, Wakeup, Held, Reasons, Empty, Full, ring, ends
  <2> QED  BY <2>1, <2>2, <2>3, <2>4
<1> QED  BY <1>4, <1>5, <1>6, <1>7, <1>8, <1>9,
            <1>10, <1>11, <1>12, <1>13, <1>14, <1>15 DEF Next, InCall

(* No step puts a process to sleep, or keeps it asleep, without a reason.  *)
LEMMA AwakeStep ==
    ASSUME ProcAssumption, SizeAssumption, IInv, Next
    PROVE  Awake'
<1> DEFINE Rest(p) ==
             /\ pc[p] = "rasleep" => \/ Empty /\ writeopen
                                     \/ \E w \in Writers : pc[w] = "loop"
             /\ pc[p] = "wasleep" => \/ Full /\ readopen
                                     \/ \E r \in Readers : pc[r] = "copy"
<1>1. /\ pc \in [Procs -> {"out", "loop", "copy", "rsleep", "wsleep", "rasleep",
                           "wasleep", "ready"}]
      /\ killed \in [Procs -> BOOLEAN]
      /\ Held /\ Places /\ Ends /\ Reasons
  BY DEF IInv, TypeOK
<1>2. NoProc \notin Procs /\ Procs = Readers \cup Writers /\ Readers \cap Writers = {}
  BY DEF ProcAssumption, Procs
<1>3. ASSUME \E w \in Writers : killed[w]
      PROVE  Awake'
  <2>1. \A p \in Procs : killed[p] => killed'[p]
    BY <1>1 DEF Next, InCall, Call, WriteByte, WriteFull, WriteDone, ReadEmpty, ReadStart,
                ReadByte, ReadDone, Sleep, Relock, Kill, Close
  <2> QED  BY <1>2, <1>3, <2>1 DEF Awake
<1> SUFFICES ASSUME \A w \in Writers : ~killed[w]
             PROVE  Awake'
  BY <1>3
<1>4. \A p \in Procs : Rest(p)
  BY DEF IInv, Awake, NoMissedWakeup
<1>5. (\A p \in Procs : Rest(p)') => Awake'
  BY DEF Awake, NoMissedWakeup
<1>6. ASSUME NEW p \in Procs, Call(p), NEW q \in Procs
     PROVE  Rest(q)'
  BY <1>1, <1>2, <1>4, <1>6 DEF Call, Goto, Held, Places, Ends, Reasons, Full, Empty, ring, ends
<1>7. ASSUME NEW p \in Procs, \E b \in Bytes : WriteByte(p, b), NEW q \in Procs
     PROVE  Rest(q)'
  BY <1>1, <1>2, <1>4, <1>7 DEF WriteByte, Held, Places, Ends, Reasons, Full, Empty, ring, ends
<1>8. ASSUME NEW p \in Procs, WriteFull(p), NEW q \in Procs
     PROVE  Rest(q)'
  BY <1>1, <1>2, <1>4, <1>8 DEF WriteFull, Goto, Wakeup, Held, Places, Ends, Reasons, Full, Empty, ring, ends
<1>9. ASSUME NEW p \in Procs, WriteDone(p), NEW q \in Procs
     PROVE  Rest(q)'
  BY <1>1, <1>2, <1>4, <1>9 DEF WriteDone, Wakeup, Held, Places, Ends, Reasons, Full, Empty, ring, ends
<1>10. ASSUME NEW p \in Procs, ReadEmpty(p), NEW q \in Procs
      PROVE  Rest(q)'
  BY <1>1, <1>2, <1>4, <1>10 DEF ReadEmpty, Goto, Held, Places, Ends, Reasons, Full, Empty, ring, ends
<1>11. ASSUME NEW p \in Procs, ReadStart(p), NEW q \in Procs
      PROVE  Rest(q)'
  BY <1>1, <1>2, <1>4, <1>11 DEF ReadStart, Goto, Held, Places, Ends, Reasons, Full, Empty, ring, ends
<1>12. ASSUME NEW p \in Procs, ReadByte(p), NEW q \in Procs
      PROVE  Rest(q)'
  BY <1>1, <1>2, <1>4, <1>12 DEF ReadByte, Held, Places, Ends, Reasons, Full, Empty, ring, ends
<1>13. ASSUME NEW p \in Procs, ReadDone(p), NEW q \in Procs
      PROVE  Rest(q)'
  BY <1>1, <1>2, <1>4, <1>13 DEF ReadDone, Wakeup, Held, Places, Ends, Reasons, Full, Empty, ring, ends
<1>14. ASSUME NEW p \in Procs, Sleep(p), NEW q \in Procs
      PROVE  Rest(q)'
  BY <1>1, <1>2, <1>4, <1>14 DEF Sleep, Goto, Held, Places, Ends, Reasons, Full, Empty, ring, ends
<1>15. ASSUME NEW p \in Procs, Relock(p), NEW q \in Procs
      PROVE  Rest(q)'
  BY <1>1, <1>2, <1>4, <1>15 DEF Relock, Goto, Held, Places, Ends, Reasons, Full, Empty, ring, ends
<1>16. ASSUME NEW p \in Procs, Kill(p), NEW q \in Procs
      PROVE  Rest(q)'
  BY <1>1, <1>2, <1>4, <1>16 DEF Kill, Held, Places, Ends, Reasons, Full, Empty, ring, ends
<1>17. ASSUME NEW p \in Procs, Close(p), NEW q \in Procs
      PROVE  Rest(q)'
  BY <1>1, <1>2, <1>4, <1>17 DEF Close, Wakeup, Held, Places, Ends, Reasons, Full, Empty, ring, ends
<1> HIDE DEF Rest
<1> QED  BY <1>5, <1>6, <1>7, <1>8, <1>9, <1>10, <1>11,
            <1>12, <1>13, <1>14, <1>15, <1>16, <1>17 DEF Next, InCall

LEMMA IInvStep ==
    ASSUME ProcAssumption, SizeAssumption, IInv, [Next]_vars
    PROVE  IInv'
<1>1. CASE Next
  BY <1>1, TypeStep, PlaceStep, AwakeStep DEF IInv
<1>2. CASE UNCHANGED vars
  <2>1. TypeOK' /\ Left'  BY <1>2 DEF IInv, TypeOK, Left, vars, Count
  <2>2. Held' /\ Places' /\ Ends' /\ Reasons' /\ Awake'
    BY <1>2 DEF IInv, Held, Places, Ends, Reasons, Awake, NoMissedWakeup, vars, Full, Empty
  <2> QED  BY <2>1, <2>2 DEF IInv
<1> QED  BY <1>1, <1>2

LEMMA SpecIInv ==
    ASSUME ProcAssumption, SizeAssumption
    PROVE  Spec => []IInv
<1>1. Init => IInv  BY InitIInv
<1>2. IInv /\ [Next]_vars => IInv'  BY IInvStep
<1> QED  BY <1>1, <1>2, PTL DEF Spec

(* TypeOK for every number of processes and every width of the counters:   *)
(* full, empty and the index modulo PIPESIZE are right across the wrap of  *)
(* nread and nwrite, and pipeclose() frees the pipe once.                  *)
THEOREM SpecTypeOK ==
    ASSUME ProcAssumption, SizeAssumption
    PROVE  Spec => []TypeOK
<1>1. IInv => TypeOK  BY DEF IInv
<1> QED  BY SpecIInv, <1>1, PTL

(* A reader sleeps while the pipe is empty and a writer while it is full,  *)
(* or the wakeup() is to come, as long as no writer has been killed.       *)
THEOREM SpecAwake ==
    ASSUME ProcAssumption, SizeAssumption
    PROVE  Spec => []Awake
<1>1. IInv => Awake  BY DEF IInv
<1> QED  BY SpecIInv, <1>1, PTL

(* NoMissedWakeup, where only readers are killed: the returns of           *)
(* pipewrite() and piperead(), their sleeps and pipeclose() wake everybody *)
(* who has a reason to go on.                                              *)
THEOREM SpecNoMissedWakeup ==
    ASSUME ProcAssumption, SizeAssumption, Killable \subseteq Readers
    PROVE  Spec => []NoMissedWakeup
<1> DEFINE Spared == /\ killed \in [Procs -> BOOLEAN]
                     /\ \A p \in Procs : killed[p] => p \in Killable
<1>1. Init => Spared
  BY DEF Init
<1>2. Spared /\ [Next]_vars => Spared'
  <2> SUFFICES ASSUME Spared, [Next]_vars
               PROVE  Spared'
    OBVIOUS
  <2>1. CASE UNCHANGED vars  BY <2>1 DEF vars
  <2>2. CASE Next
    <3>1. killed' = killed \/ \E p \in Procs : Kill(p)
      BY <2>2 DEF Next, InCall, Call, WriteByte, WriteFull, WriteDone, ReadEmpty, ReadStart,
                  ReadByte, ReadDone, Sleep, Relock, Close
    <3> QED  BY <3>1 DEF Kill
  <2> QED  BY <2>1, <2>2
<1>3. Spec => []Spared
  BY <1>1, <1>2, PTL DEF Spec
<1>4. Spared /\ Awake => NoMissedWakeup
  BY DEF Awake, ProcAssumption, Procs
<1> QED  BY SpecAwake, <1>3, <1>4, PTL

-----------------------------------------------------------------------------
(* The refinement of ByteChannel.                                          *)

(* The bytes in the ring d when nread is a and nwrite is b, as a sequence. *)
Content(d, a, b) == [k \in 1..Dist(a, b) |-> d[((a + k - 1) % WORD) % PIPESIZE]]

LEMMA ContentIs ==
    ASSUME SizeAssumption, NEW d \in [0..(PIPESIZE - 1) -> Bytes],
           NEW a \in 0..(WORD - 1), NEW b \in 0..(WORD - 1), Dist(a, b) <= PIPESIZE
    PROVE  /\ Dist(a, b) \in 0..PIPESIZE
           /\ Content(d, a, b) \in Seq(Bytes) /\ Len(Content(d, a, b)) = Dist(a, b)
           /\ \A k \in 1..Dist(a, b) :
                  Content(d, a, b)[k] = d[(a + (k - 1)) % PIPESIZE]
<1> DEFINE q == Content(d, a, b)
<1>1. PIPESIZE \in Nat \ {0} /\ WORD \in Nat /\ WORD > PIPESIZE
  BY DEF SizeAssumption
<1>2. Dist(a, b) \in 0..PIPESIZE
  BY <1>1, DistIs
<1>3. ASSUME NEW k \in 1..Dist(a, b)
      PROVE  q[k] = d[(a + (k - 1)) % PIPESIZE] /\ q[k] \in Bytes
  <2>1. k - 1 \in 0..WORD /\ a + k - 1 = a + (k - 1)
    BY <1>1, <1>2
  <2>2. ((a + k - 1) % WORD) % PIPESIZE = (a + (k - 1)) % PIPESIZE
    BY <2>1, SlotIs
  <2>3. a + (k - 1) \in Nat  BY <2>1
  <2>4. (a + (k - 1)) % PIPESIZE \in 0..(PIPESIZE - 1)
    BY <1>1, <2>3, DivMod
  <2> QED  BY <2>2, <2>4 DEF Content
<1>4. q \in [1..Dist(a, b) -> Bytes]
  BY <1>3 DEF Content
<1>5. q \in Seq(Bytes)
  BY <1>2, <1>4, SeqDef
<1>6. Len(q) = Dist(a, b)
  BY <1>2, <1>4, <1>5, LenProperties
<1> QED  BY <1>2, <1>3, <1>5, <1>6

LEMMA QueueIs ==
    /\ Count = Dist(nread, nwrite) /\ Queue = Content(data, nread, nwrite)
    /\ Count' = Dist(nread', nwrite') /\ Queue' = Content(data', nread', nwrite')
BY DEF Count, Queue, Dist, Content

(* The byte that WriteByte stores comes after all the others.              *)
LEMMA WriteIsPut ==
    ASSUME SizeAssumption, TypeOK, TypeOK',
           NEW p \in Procs, NEW b \in Bytes, WriteByte(p, b)
    PROVE  BC!Put(b)
<1>1. /\ nread \in 0..(WORD - 1) /\ nwrite \in 0..(WORD - 1)
      /\ data \in [0..(PIPESIZE - 1) -> Bytes]
  BY DEF TypeOK
<1>2. PIPESIZE \in Nat \ {0} /\ WORD \in Nat /\ WORD > PIPESIZE
  BY DEF SizeAssumption
<1>3. /\ Count' = Count + 1 /\ Count < PIPESIZE
      /\ nread' = nread /\ nwrite % PIPESIZE \in 0..(PIPESIZE - 1)
  BY PutRing
<1>4. /\ Count \in 0..PIPESIZE
      /\ Queue \in Seq(Bytes) /\ Len(Queue) = Count
      /\ \A k \in 1..Count : Queue[k] = data[(nread + (k - 1)) % PIPESIZE]
  BY QueueIs, ContentIs DEF TypeOK
<1>5. /\ Queue' \in Seq(Bytes) /\ Len(Queue') = Count'
      /\ \A k \in 1..Count' : Queue'[k] = data'[(nread' + (k - 1)) % PIPESIZE]
  BY QueueIs, ContentIs DEF TypeOK
<1>6. data' = [data EXCEPT ![nwrite % PIPESIZE] = b] /\ got' = got
  BY DEF WriteByte
<1>7. nwrite % PIPESIZE = (nread + Count) % PIPESIZE
  BY <1>1, EndSlot, CountIs
<1>8. /\ Append(Queue, b) \in Seq(Bytes) /\ Len(Append(Queue, b)) = Count + 1
      /\ \A k \in 1..Count : Append(Queue, b)[k] = Queue[k]
      /\ Append(Queue, b)[Count + 1] = b
  BY <1>4, AppendProperties
<1>9. ASSUME NEW k \in 1..Count
      PROVE  Queue'[k] = Queue[k]
  <2> DEFINE i == nread + (k - 1)
             j == nread + Count
  <2>1. i \in Nat /\ j \in Nat /\ i < j /\ j - i < PIPESIZE
    BY <1>1, <1>2, <1>3, <1>4
  <2> HIDE DEF i, j
  <2>2. i % PIPESIZE # j % PIPESIZE /\ i % PIPESIZE \in 0..(PIPESIZE - 1)
    BY <1>2, <2>1, ModDistinct, DivMod
  <2>3. k \in 1..Count'  BY <1>3, <1>4
  <2> QED  BY <1>1, <1>3, <1>4, <1>5, <1>6, <1>7, <2>2, <2>3 DEF i, j
<1>10. Queue'[Count + 1] = b
  <2>1. Count + 1 \in 1..Count' /\ (Count + 1) - 1 = Count  BY <1>3, <1>4
  <2>2. Queue'[Count + 1] = data'[(nread + Count) % PIPESIZE]
    BY <1>3, <1>5, <2>1
  <2> QED  BY <1>1, <1>3, <1>6, <1>7, <2>2
<1>11. ASSUME NEW k \in 1..Count'
       PROVE  Queue'[k] = Append(Queue, b)[k]
  <2>1. k \in 1..Count \/ k = Count + 1  BY <1>3, <1>4
  <2> QED  BY <2>1, <1>8, <1>9, <1>10
<1>12. Queue' = Append(Queue, b)
  BY <1>3, <1>5, <1>8, <1>11, SeqEqual
<1> QED  BY <1>3, <1>4, <1>6, <1>12 DEF BC!Put

(* ReadByte takes the oldest byte.                                         *)
LEMMA ReadIsGet ==
    ASSUME SizeAssumption, TypeOK, TypeOK', NEW p \in Procs, ReadByte(p)
    PROVE  BC!Get
<1>1. nread \in 0..(WORD - 1)
  BY DEF TypeOK
<1>2. PIPESIZE \in Nat \ {0} /\ WORD \in Nat /\ WORD > PIPESIZE
  BY DEF SizeAssumption
<1>3. /\ nread' \in 0..(WORD - 1) /\ nread' = (nread + 1) % WORD
      /\ Count' = Count - 1 /\ Count \in 1..PIPESIZE
      /\ got' = data[nread % PIPESIZE] /\ data' = data
  BY GetRing DEF ReadByte
<1>4. /\ Queue \in Seq(Bytes) /\ Len(Queue) = Count
      /\ \A k \in 1..Count : Queue[k] = data[(nread + (k - 1)) % PIPESIZE]
  BY QueueIs, ContentIs DEF TypeOK
<1>5. /\ Queue' \in Seq(Bytes) /\ Len(Queue') = Count'
      /\ \A k \in 1..Count' : Queue'[k] = data'[(nread' + (k - 1)) % PIPESIZE]
  BY QueueIs, ContentIs DEF TypeOK
<1>6. Queue # << >>
  BY <1>3, <1>4, EmptySeq
<1>7. got' = Head(Queue)
  <2>1. Queue[1] = data[(nread + (1 - 1)) % PIPESIZE]  BY <1>3, <1>4
  <2>2. nread + (1 - 1) = nread  BY <1>1, <1>2
  <2> QED  BY <1>3, <1>4, <1>6, <2>1, <2>2
<1>8. /\ Tail(Queue) \in Seq(Bytes) /\ Len(Tail(Queue)) = Count - 1
      /\ \A k \in 1..(Count - 1) : Tail(Queue)[k] = Queue[k + 1]
  BY <1>4, <1>6, HeadTailProperties
<1>9. ASSUME NEW k \in 1..Count'
      PROVE  Queue'[k] = Tail(Queue)[k]
  <2>1. k + 1 \in 1..Count /\ k \in 1..(Count - 1) /\ (k + 1) - 1 = k
        /\ k - 1 \in 0..WORD /\ k \in 0..WORD /\ 1 \in 0..WORD
    BY <1>2, <1>3
  <2>2. (nread' + (k - 1)) % PIPESIZE = (nread + k) % PIPESIZE
    <3>1. /\ (nread' + (k - 1)) % PIPESIZE = ((nread' + (k - 1)) % WORD) % PIPESIZE
          /\ (nread + k) % PIPESIZE = ((nread + k) % WORD) % PIPESIZE
      BY <1>1, <1>3, <2>1, SlotIs
    <3>2. /\ (nread + k) % WORD = IF nread + k < WORD THEN nread + k
                                                     ELSE nread + k - WORD
          /\ (nread' + (k - 1)) % WORD =
                 IF nread' + (k - 1) < WORD THEN nread' + (k - 1)
                                            ELSE nread' + (k - 1) - WORD
          /\ nread' = IF nread + 1 < WORD THEN nread + 1 ELSE nread + 1 - WORD
      BY <1>1, <1>3, <2>1, PlusIs
    <3>3. (nread' + (k - 1)) % WORD = (nread + k) % WORD
      BY <1>1, <1>2, <1>3, <2>1, <3>2
    <3> QED  BY <3>1, <3>3
  <2>3. Queue'[k] = data[(nread + k) % PIPESIZE]  BY <1>3, <1>5, <2>2
  <2>4. Queue[k + 1] = data[(nread + k) % PIPESIZE]  BY <1>4, <2>1
  <2> QED  BY <1>8, <2>1, <2>3, <2>4
<1>10. Queue' = Tail(Queue)
  BY <1>3, <1>5, <1>8, <1>9, SeqEqual
<1> QED  BY <1>6, <1>7, <1>10 DEF BC!Get

(* Fifo: bytes come out in the order they went in, none lost and none      *)
(* twice, also when nread and nwrite wrap around: every step is a Put, a   *)
(* Get or does not show.                                                   *)
THEOREM SpecFifo ==
    ASSUME ProcAssumption, SizeAssumption
    PROVE  Spec => Fifo
<1>1. Init => BC!Init
  <2> SUFFICES ASSUME Init
               PROVE  BC!Init
    OBVIOUS
  <2>1. TypeOK  BY InitIInv DEF IInv
  <2>2. Count = 0
    <3>1. nread = nwrite  BY DEF Init
    <3> QED  BY <2>1, <3>1, TestsAreRight, CountIs DEF TypeOK
  <2>3. Queue = << >>
    BY <2>1, <2>2, QueueIs, ContentIs, EmptySeq DEF TypeOK
  <2> QED  BY <2>1, <2>3 DEF BC!Init, TypeOK
<1>2. IInv /\ IInv' /\ [Next]_vars => [BC!Next]_(BC!vars)
  <2> SUFFICES ASSUME IInv, IInv', [Next]_vars
               PROVE  [BC!Next]_(BC!vars)
    OBVIOUS
  <2>1. TypeOK /\ TypeOK'  BY DEF IInv
  <2>2. UNCHANGED <<ring, got>> => UNCHANGED BC!vars
    BY DEF BC!vars, Queue, Count, ring
  <2>3. ASSUME NEW p \in Procs, NEW b \in Bytes, WriteByte(p, b)
        PROVE  [BC!Next]_(BC!vars)
    BY <2>1, <2>3, WriteIsPut DEF BC!Next
  <2>4. ASSUME NEW p \in Procs, ReadByte(p)
        PROVE  [BC!Next]_(BC!vars)
    BY <2>1, <2>4, ReadIsGet DEF BC!Next
  <2>5. \/ \E p \in Procs, b \in Bytes : WriteByte(p, b)
        \/ \E p \in Procs : ReadByte(p)
        \/ UNCHANGED <<ring, got>>
    BY DEF Next, InCall, Call, WriteFull, WriteDone, ReadEmpty, ReadStart, ReadDone,
           Sleep, Relock, Kill, Close, vars, ring
  <2> QED  BY <2>2, <2>3, <2>4, <2>5
<1> QED  BY SpecIInv, <1>1, <1>2, PTL DEF Spec, Fifo, BC!Spec

-----------------------------------------------------------------------------

-----------------------------------------------------------------------------
(* The queue, the stack and the map of module Containers.                  *)

(* Two places of a ring of n are less than 2 * n apart.                    *)
LEMMA SmallRemainder ==
    ASSUME NEW n \in Nat \ {0}, NEW a \in 0..(n - 1), NEW j \in 0..n
    PROVE  (a + j) % n = IF a + j < n THEN a + j ELSE a + j - n
<1>1. CASE a + j < n
  <2>1. PICK x \in 0..(n - 1) : x = a + j
    BY <1>1
  <2>2. x % n = x
    BY <2>1
  <2>. QED
    BY <1>1, <2>1, <2>2
<1>2. CASE a + j >= n
  <2>1. PICK x \in Nat : x = a + j
    OBVIOUS
  <2>2. /\ x % n \in 0..(n - 1) /\ x \div n \in Nat
        /\ x = n * (x \div n) + (x % n)
    BY DivMod
  <2>3. PICK d \in Nat, r \in 0..(n - 1) : d = x \div n /\ r = x % n
    BY <2>2
  <2>4. x = n * d + r /\ x < 2 * n /\ x >= n
    BY <1>2, <2>1, <2>2, <2>3
  <2>5. d = 0 => n * d = 0
    OBVIOUS
  <2>6. d >= 2 => n * d >= 2 * n
    BY SMT
  <2>7. d = 1
    BY <2>3, <2>4, <2>5, <2>6
  <2>8. r = x - n
    BY <2>4, <2>7
  <2>. QED
    BY <1>2, <2>1, <2>3, <2>8
<1>. QED
  BY <1>1, <1>2

QueueSound ==
    /\ queue \in [front : 0..(Capacity - 1), back : 0..(Capacity - 1), size : 0..Capacity,
                  data : [0..(Capacity - 1) -> Entries \cup {NoItem}]]
    /\ fifo = [i \in 1..queue.size |-> queue.data[(queue.front + i - 1) % Capacity]]
    /\ queue.back = (queue.front + queue.size) % Capacity

StackSound ==
    /\ stk \in [count : Nat, head : Seq(Entries)]
    /\ stk.count = Len(stk.head) /\ lifo = Reverse(stk.head)

(* The pairs of a bucket, and what they say of a key.                      *)
OnceIn(l, b) ==
    \A i, j \in DOMAIN l : /\ Bucket(l[i][1]) = b
                           /\ l[i][1] = l[j][1] => i = j
Holds(l, k, v) ==
    IF v = NoVal THEN \A i \in DOMAIN l : l[i][1] # k ELSE \E i \in DOMAIN l : l[i] = <<k, v>>
MapSound ==
    /\ lists \in [0..(BUCKETS - 1) -> Seq(Keys \X Values)]
    /\ dict \in [Keys -> Values \cup {NoVal}]
    /\ \A b \in 0..(BUCKETS - 1) : OnceIn(lists[b], b)
    /\ \A k \in Keys : Holds(lists[Bucket(k)], k, dict[k])

ContainersInv == QueueSound /\ StackSound /\ MapSound

LEMMA Buckets == \A k \in Keys : Bucket(k) \in 0..(BUCKETS - 1)
<1>. TAKE k \in Keys
<1>1. PICK x \in Nat : x = KeyLen[k]
  BY ContainersAssumption
<1>2. x % BUCKETS \in 0..(BUCKETS - 1)
  BY ContainersAssumption
<1>. QED
  BY <1>1, <1>2 DEF Bucket

LEMMA ContainersStart == ContainersInit => ContainersInv
<1>. SUFFICES ASSUME ContainersInit  PROVE  ContainersInv
  OBVIOUS
<1>0. Capacity \in Nat \ {0} /\ BUCKETS \in Nat \ {0} /\ NoItem \notin Entries /\ NoVal \notin Values
  BY ContainersAssumption
<1>1. QueueSound
  <2>1. (0 + 0) % Capacity = 0
    BY <1>0, SmallRemainder
  <2>2. queue.front = 0 /\ queue.back = 0 /\ queue.size = 0 /\ fifo = << >>
    BY DEF ContainersInit
  <2>3. queue.back = (queue.front + queue.size) % Capacity
    BY <2>1, <2>2
  <2>4. fifo = [i \in 1..queue.size |-> queue.data[(queue.front + i - 1) % Capacity]]
    BY <2>2
  <2>5. queue \in [front : 0..(Capacity - 1), back : 0..(Capacity - 1), size : 0..Capacity,
                  data : [0..(Capacity - 1) -> Entries \cup {NoItem}]]
    BY <1>0 DEF ContainersInit
  <2>. QED
    BY <2>3, <2>4, <2>5 DEF QueueSound
<1>2. StackSound
  <2>1. << >> \in Seq(Entries) /\ Len(<< >>) = 0
    BY EmptySeq
  <2>2. stk.count = 0 /\ stk.head = << >> /\ lifo = << >>
    BY DEF ContainersInit
  <2>3. Reverse(<< >>) = << >>
    BY <2>1 DEF Reverse
  <2>4. stk \in [count : Nat, head : Seq(Entries)]
    BY <2>1 DEF ContainersInit
  <2>. QED
    BY <2>1, <2>2, <2>3, <2>4 DEF StackSound
<1>3. MapSound
  <2>1. << >> \in Seq(Keys \X Values) /\ DOMAIN << >> = {}
    BY EmptySeq
  <2>2. \A k \in Keys : Bucket(k) \in 0..(BUCKETS - 1)
    BY Buckets
  <2>3. \A b \in 0..(BUCKETS - 1) : lists[b] = << >>
    BY DEF ContainersInit
  <2>4. lists \in [0..(BUCKETS - 1) -> Seq(Keys \X Values)]
    BY <2>1 DEF ContainersInit
  <2>5. \A k \in Keys : dict[k] = NoVal
    BY DEF ContainersInit
  <2>6. dict \in [Keys -> Values \cup {NoVal}]
    BY DEF ContainersInit
  <2>7. \A b \in 0..(BUCKETS - 1) : OnceIn(lists[b], b)
    BY <2>1, <2>3 DEF OnceIn
  <2>8. \A k \in Keys : Holds(lists[Bucket(k)], k, dict[k])
    BY <2>1, <2>2, <2>3, <2>5 DEF Holds
  <2>. QED
    BY <2>4, <2>6, <2>7, <2>8 DEF MapSound
<1>. QED
  BY <1>1, <1>2, <1>3 DEF ContainersInv

(* The item goes to the place after the last, which is no item's.          *)
LEMMA EnqueueKeeps ==
    ASSUME QueueSound, NEW x \in Entries, QueueEnqueue(x)
    PROVE  QueueSound'
<1>0. PICK n \in Nat \ {0} : n = Capacity
  BY ContainersAssumption
<1>1. PICK f \in 0..(n - 1), m \in 0..n, e \in 0..(n - 1), d \in [0..(n - 1) -> Entries \cup {NoItem}] :
        /\ f = queue.front /\ m = queue.size /\ e = queue.back /\ d = queue.data
        /\ queue = [front |-> f, back |-> e, size |-> m, data |-> d]
  BY <1>0 DEF QueueSound
<1>2. m # n /\ m + 1 \in 0..n
  BY <1>0, <1>1 DEF QueueEnqueue, QueueFull
<1>3. PICK e2 \in 0..(n - 1) : e2 = (e + 1) % n
  <2>1. e + 1 \in Nat
    OBVIOUS
  <2>. QED
    BY <2>1, DivMod
<1>4. PICK d2 \in [0..(n - 1) -> Entries \cup {NoItem}] :
        d2 = [i \in 0..(n - 1) |-> IF i = e THEN x ELSE d[i]]
  OBVIOUS
<1>5. queue' = [front |-> f, back |-> e2, size |-> m + 1, data |-> d2]
  BY <1>0, <1>1, <1>3, <1>4 DEF QueueEnqueue, Following
<1>6. e = IF f + m < n THEN f + m ELSE f + m - n
  BY <1>0, <1>1, SmallRemainder DEF QueueSound
<1>7. e2 = (f + (m + 1)) % n
  <2>1. e2 = IF e + 1 < n THEN e + 1 ELSE e + 1 - n
    <3>1. 1 \in 0..n
      OBVIOUS
    <3>. QED
      BY <1>3, <3>1, SmallRemainder
  <2>2. (f + (m + 1)) % n = IF f + (m + 1) < n THEN f + (m + 1) ELSE f + (m + 1) - n
    BY <1>2, SmallRemainder
  <2>. QED
    BY <1>2, <1>6, <2>1, <2>2
<1>8. fifo = [i \in 1..m |-> d[(f + i - 1) % n]]
  BY <1>0, <1>1 DEF QueueSound
<1>9. \A i \in 1..(m + 1) : (f + i - 1) % n \in 0..(n - 1)
  BY DivMod
<1>10. \A i \in 1..m : (f + i - 1) % n # e
  <2>1. TAKE i \in 1..m
  <2>2. PICK j \in 0..n : j = i - 1 /\ j < m
    OBVIOUS
  <2>3. (f + j) % n = IF f + j < n THEN f + j ELSE f + j - n
    BY SmallRemainder
  <2>4. f + i - 1 = f + j
    BY <2>2
  <2>. QED
    BY <1>2, <1>6, <2>2, <2>3, <2>4
<1>11. (f + (m + 1) - 1) % n = e
  <2>1. f + (m + 1) - 1 = f + m
    OBVIOUS
  <2>2. (f + m) % n = e
    BY <1>6, SmallRemainder
  <2>. QED
    BY <2>1, <2>2
<1>12. PICK new : new = [i \in 1..(m + 1) |-> d2[(f + i - 1) % n]]
  OBVIOUS
<1>13. \A i \in 1..m : new[i] = d[(f + i - 1) % n]
  BY <1>4, <1>9, <1>10, <1>12
<1>14. new[m + 1] = x
  BY <1>4, <1>11, <1>12
<1>15. PICK S : S = Entries \cup {NoItem}
  OBVIOUS
<1>16. fifo \in Seq(S) /\ Len(fifo) = m
  BY <1>8, <1>9, <1>15, IsASeq, LenProperties
<1>17. Append(fifo, x) = new
  <2>1. /\ Append(fifo, x) \in Seq(S) /\ Len(Append(fifo, x)) = m + 1
        /\ \A i \in 1..m : Append(fifo, x)[i] = fifo[i]
        /\ Append(fifo, x)[m + 1] = x
    BY <1>15, <1>16, AppendProperties
  <2>2. new \in [1..(m + 1) -> S]
    BY <1>4, <1>9, <1>12, <1>15
  <2>3. new \in Seq(S) /\ Len(new) = m + 1
    BY <2>2, IsASeq, LenProperties
  <2>4. \A i \in 1..(m + 1) : Append(fifo, x)[i] = new[i]
    BY <1>8, <1>13, <1>14, <2>1
  <2>. QED
    BY <2>1, <2>3, <2>4, SeqEqual
<1>18. fifo' = new
  BY <1>17 DEF QueueEnqueue
<1>19. queue'.front = f /\ queue'.back = e2 /\ queue'.size = m + 1 /\ queue'.data = d2
  BY <1>5
<1>20. queue' \in [front : 0..(n - 1), back : 0..(n - 1), size : 0..n,
                   data : [0..(n - 1) -> Entries \cup {NoItem}]]
  BY <1>2, <1>5
<1>. QED
  BY <1>0, <1>7, <1>12, <1>18, <1>19, <1>20 DEF QueueSound

(* The first item leaves, and the second is the first.                     *)
LEMMA DequeueKeeps ==
    ASSUME QueueSound, QueueDequeue
    PROVE  QueueSound'
<1>0. PICK n \in Nat \ {0} : n = Capacity
  BY ContainersAssumption
<1>1. PICK f \in 0..(n - 1), m \in 0..n, e \in 0..(n - 1), d \in [0..(n - 1) -> Entries \cup {NoItem}] :
        /\ f = queue.front /\ m = queue.size /\ e = queue.back /\ d = queue.data
        /\ queue = [front |-> f, back |-> e, size |-> m, data |-> d]
  BY <1>0 DEF QueueSound
<1>2. m # 0 /\ m - 1 \in 0..n
  BY <1>0, <1>1 DEF QueueDequeue, QueueEmpty
<1>3. PICK f2 \in 0..(n - 1) : f2 = (f + 1) % n
  <2>1. f + 1 \in Nat
    OBVIOUS
  <2>. QED
    BY <2>1, DivMod
<1>4. queue' = [front |-> f2, back |-> e, size |-> m - 1, data |-> d]
  BY <1>0, <1>1, <1>3 DEF QueueDequeue, Following
<1>5. f2 = IF f + 1 < n THEN f + 1 ELSE f + 1 - n
  <2>1. 1 \in 0..n
    OBVIOUS
  <2>. QED
    BY <1>3, <2>1, SmallRemainder
<1>6. e = (f2 + (m - 1)) % n
  <2>1. e = IF f + m < n THEN f + m ELSE f + m - n
    BY <1>0, <1>1, SmallRemainder DEF QueueSound
  <2>2. (f2 + (m - 1)) % n = IF f2 + (m - 1) < n THEN f2 + (m - 1) ELSE f2 + (m - 1) - n
    BY <1>2, SmallRemainder
  <2>. QED
    BY <1>2, <1>5, <2>1, <2>2
<1>7. fifo = [i \in 1..m |-> d[(f + i - 1) % n]]
  BY <1>0, <1>1 DEF QueueSound
<1>8. \A i \in 1..m : (f + i - 1) % n \in 0..(n - 1)
  BY DivMod
<1>9. \A i \in 1..(m - 1) : (f2 + i - 1) % n = (f + (i + 1) - 1) % n
  <2>1. TAKE i \in 1..(m - 1)
  <2>2. PICK j \in 0..n : j = i - 1 /\ j + 1 \in 0..n
    OBVIOUS
  <2>3. (f2 + j) % n = IF f2 + j < n THEN f2 + j ELSE f2 + j - n
    BY SmallRemainder
  <2>4. (f + (j + 1)) % n = IF f + (j + 1) < n THEN f + (j + 1) ELSE f + (j + 1) - n
    BY <2>2, SmallRemainder
  <2>5. f2 + i - 1 = f2 + j /\ f + (i + 1) - 1 = f + (j + 1)
    BY <2>2
  <2>6. (f2 + j) % n = (f + (j + 1)) % n
    BY <1>5, <2>2, <2>3, <2>4
  <2>. QED
    BY <2>5, <2>6
<1>10. PICK S : S = Entries \cup {NoItem}
  OBVIOUS
<1>11. fifo \in Seq(S) /\ Len(fifo) = m
  BY <1>7, <1>8, <1>10, IsASeq, LenProperties
<1>12. PICK new : new = [i \in 1..(m - 1) |-> d[(f2 + i - 1) % n]]
  OBVIOUS
<1>13. Tail(fifo) = new
  <2>1. fifo # << >>
    BY <1>2, <1>11, EmptySeq
  <2>2. /\ Tail(fifo) \in Seq(S) /\ Len(Tail(fifo)) = m - 1
        /\ \A i \in 1..(m - 1) : Tail(fifo)[i] = fifo[i + 1]
    BY <1>11, <2>1, HeadTailProperties
  <2>3. \A i \in 1..(m - 1) : i + 1 \in 1..m
    BY <1>2
  <2>4. \A i \in 1..(m - 1) : new[i] = fifo[i + 1]
    BY <1>7, <1>9, <1>12, <2>3
  <2>5. new \in [1..(m - 1) -> S]
    BY <1>8, <1>9, <1>10, <1>12, <2>3
  <2>6. new \in Seq(S) /\ Len(new) = m - 1
    BY <1>2, <2>5, IsASeq, LenProperties
  <2>7. \A i \in 1..(m - 1) : new[i] = Tail(fifo)[i]
    BY <2>2, <2>4
  <2>. QED
    BY <2>2, <2>6, <2>7, SeqEqual
<1>14. fifo' = new
  BY <1>13 DEF QueueDequeue
<1>15. queue'.front = f2 /\ queue'.back = e /\ queue'.size = m - 1 /\ queue'.data = d
  BY <1>4
<1>16. queue' \in [front : 0..(n - 1), back : 0..(n - 1), size : 0..n,
                   data : [0..(n - 1) -> Entries \cup {NoItem}]]
  BY <1>2, <1>4
<1>. QED
  BY <1>0, <1>6, <1>12, <1>14, <1>15, <1>16 DEF QueueSound

(* The reverse of a sequence.                                              *)
LEMMA ReverseIs ==
    ASSUME NEW S, NEW l \in Seq(S)
    PROVE  /\ Reverse(l) \in Seq(S) /\ Len(Reverse(l)) = Len(l)
           /\ \A i \in 1..Len(l) : Reverse(l)[i] = l[Len(l) - i + 1]
<1>1. PICK n \in Nat : n = Len(l)
  BY LenProperties
<1>2. \A i \in 1..n : n - i + 1 \in 1..n /\ l[n - i + 1] \in S
  BY <1>1, ElementOfSeq
<1>3. Reverse(l) = [i \in 1..n |-> l[n - i + 1]]
  BY <1>1 DEF Reverse
<1>4. Reverse(l) \in [1..n -> S]
  BY <1>2, <1>3
<1>5. Reverse(l) \in Seq(S) /\ Len(Reverse(l)) = n
  BY <1>1, <1>4, IsASeq, LenProperties
<1>. QED
  BY <1>1, <1>3, <1>5

(* The new node is the first of the list, the new item the last.           *)
LEMMA PushKeeps ==
    ASSUME StackSound, NEW x \in Entries, StackEnqueue(x)
    PROVE  StackSound'
<1>1. PICK h \in Seq(Entries), n \in Nat :
        h = stk.head /\ n = stk.count /\ n = Len(h) /\ lifo = Reverse(h)
  BY DEF StackSound
<1>2. PICK one : one = <<x>> /\ one \in Seq(Entries) /\ Len(one) = 1 /\ one[1] = x
  <2>1. <<x>> \in Seq(Entries) /\ Len(<<x>>) = 1 /\ <<x>>[1] = x
    OBVIOUS
  <2>. QED
    BY <2>1
<1>3. PICK new \in Seq(Entries) : new = one \o h
  BY <1>2, ConcatProperties
<1>4. Len(new) = n + 1 /\ \A i \in 1..(n + 1) : new[i] = IF i = 1 THEN x ELSE h[i - 1]
  BY <1>1, <1>2, <1>3, ConcatProperties
<1>5. stk' = [count |-> n + 1, head |-> new]
  <2>1. CASE n = 0
    <3>1. h = << >>
      BY <1>1, <2>1, EmptySeq
    <3>2. one \o h = one
      BY <1>2, <3>1, ConcatEmptySeq
    <3>. QED
      BY <1>1, <1>2, <1>3, <2>1, <3>2 DEF StackEnqueue
  <2>2. CASE n # 0
    BY <1>1, <1>2, <1>3, <2>2 DEF StackEnqueue
  <2>. QED
    BY <2>1, <2>2
<1>6. /\ Reverse(new) \in Seq(Entries) /\ Len(Reverse(new)) = n + 1
      /\ \A i \in 1..(n + 1) : Reverse(new)[i] = new[(n + 1) - i + 1]
  BY <1>4, ReverseIs
<1>7. lifo \in Seq(Entries) /\ Len(lifo) = n /\ \A i \in 1..n : lifo[i] = h[n - i + 1]
  BY <1>1, ReverseIs
<1>8. /\ Append(lifo, x) \in Seq(Entries) /\ Len(Append(lifo, x)) = n + 1
      /\ \A i \in 1..n : Append(lifo, x)[i] = lifo[i]
      /\ Append(lifo, x)[n + 1] = x
  BY <1>7, AppendProperties
<1>9. ASSUME NEW i \in 1..(n + 1)
      PROVE  Append(lifo, x)[i] = Reverse(new)[i]
  <2>1. PICK j \in 1..(n + 1) : j = (n + 1) - i + 1
    OBVIOUS
  <2>2. Reverse(new)[i] = new[j]
    BY <1>6, <2>1
  <2>3. CASE i = n + 1
    BY <1>4, <1>8, <2>1, <2>2, <2>3
  <2>4. CASE i \in 1..n
    <3>1. j # 1 /\ j - 1 = n - i + 1
      BY <2>1, <2>4
    <3>2. new[j] = h[n - i + 1]
      BY <1>4, <3>1
    <3>. QED
      BY <1>7, <1>8, <2>2, <2>4, <3>2
  <2>5. i = n + 1 \/ i \in 1..n
    OBVIOUS
  <2>. QED
    BY <2>3, <2>4, <2>5
<1>10. Append(lifo, x) = Reverse(new)
  BY <1>6, <1>8, <1>9, SeqEqual
<1>11. lifo' = Reverse(new)
  BY <1>10 DEF StackEnqueue
<1>. QED
  BY <1>4, <1>5, <1>11 DEF StackSound

(* The first node is the last item.                                        *)
LEMMA PopKeeps ==
    ASSUME StackSound, StackDequeue
    PROVE  StackSound'
<1>1. PICK h \in Seq(Entries), n \in Nat :
        h = stk.head /\ n = stk.count /\ n = Len(h) /\ lifo = Reverse(h)
  BY DEF StackSound
<1>2. n # 0 /\ n - 1 \in Nat /\ h # << >>
  BY <1>1, EmptySeq DEF StackDequeue
<1>3. PICK new \in Seq(Entries) : new = Tail(h)
  BY <1>2, HeadTailProperties
<1>4. Len(new) = n - 1 /\ \A i \in 1..(n - 1) : new[i] = h[i + 1]
  BY <1>1, <1>2, <1>3, HeadTailProperties
<1>5. stk' = [count |-> n - 1, head |-> new]
  BY <1>1, <1>3 DEF StackDequeue
<1>6. /\ Reverse(new) \in Seq(Entries) /\ Len(Reverse(new)) = n - 1
      /\ \A i \in 1..(n - 1) : Reverse(new)[i] = new[(n - 1) - i + 1]
  <2>1. Len(new) = n - 1
    BY <1>4
  <2>2. /\ Reverse(new) \in Seq(Entries) /\ Len(Reverse(new)) = Len(new)
        /\ \A i \in 1..Len(new) : Reverse(new)[i] = new[Len(new) - i + 1]
    BY ReverseIs, Zenon
  <2>. QED
    BY ONLY <2>1, <2>2
<1>7. lifo \in Seq(Entries) /\ Len(lifo) = n /\ \A i \in 1..n : lifo[i] = h[n - i + 1]
  BY <1>1, ReverseIs
<1>8. Front(lifo) = SubSeq(lifo, 1, n - 1)
  BY <1>7 DEF Front
<1>9. \A i \in 1..(n - 1) : lifo[i] \in Entries
  BY <1>7, ElementOfSeq
<1>10. /\ Front(lifo) \in Seq(Entries) /\ Len(Front(lifo)) = n - 1
       /\ \A i \in 1..(n - 1) : Front(lifo)[i] = lifo[i]
  BY <1>2, <1>8, <1>9, SubSeqProperties
<1>11. ASSUME NEW i \in 1..(n - 1)
       PROVE  Front(lifo)[i] = Reverse(new)[i]
  <2>1. PICK j \in 1..(n - 1) : j = (n - 1) - i + 1
    OBVIOUS
  <2>2. Reverse(new)[i] = h[j + 1]
    BY <1>4, <1>6, <2>1
  <2>3. j + 1 = n - i + 1 /\ i \in 1..n
    BY <2>1
  <2>. QED
    BY <1>7, <1>10, <2>2, <2>3
<1>12. Front(lifo) = Reverse(new)
  BY <1>6, <1>10, <1>11, SeqEqual
<1>13. lifo' = Reverse(new)
  BY <1>12 DEF StackDequeue
<1>. QED
  BY <1>2, <1>4, <1>5, <1>13 DEF StackSound

(* The place of a key is that of its pair, and 0 without one.              *)
LEMMA PlaceIs ==
    ASSUME NEW k \in Keys, NEW b, b = Bucket(k), NEW l \in Seq(Keys \X Values), l = lists[b],
           OnceIn(l, b)
    PROVE  /\ \A i \in DOMAIN l : l[i][1] = k => Place(k) = i /\ HasKey(k)
           /\ (\A i \in DOMAIN l : l[i][1] # k) => ~HasKey(k)
<1>. DEFINE I == {i \in 1..Len(l) : l[i][1] = k}
<1>1. Place(k) = IF I # {} THEN Min(I) ELSE 0
  BY DEF Place, SelectInSeq
<1>2. DOMAIN l = 1..Len(l) /\ Len(l) \in Nat
  BY LenProperties
<1>3. ASSUME NEW i \in DOMAIN l, l[i][1] = k
      PROVE  Place(k) = i /\ HasKey(k)
  <2>1. I = {i}
    BY <1>2, <1>3 DEF OnceIn
  <2>2. i \in Nat \ {0}
    BY <1>2
  <2>3. Min({i}) = i
    BY <2>2 DEF Min
  <2>4. Place(k) = i
    BY <1>1, <2>1, <2>3
  <2>. QED
    BY <2>2, <2>4 DEF HasKey
<1>4. ASSUME \A i \in DOMAIN l : l[i][1] # k
      PROVE  ~HasKey(k)
  <2>1. I = {}
    BY <1>2, <1>4
  <2>2. Place(k) = 0
    BY <1>1, <2>1
  <2>. QED
    BY <2>2 DEF HasKey
<1>. QED
  BY <1>3, <1>4

(* What the lists say of a key.                                            *)
LEMMA KeyIs ==
    ASSUME MapSound, NEW k \in Keys
    PROVE  /\ dict[k] = NoVal => ~HasKey(k)
           /\ dict[k] # NoVal => HasKey(k) /\ Place(k) \in DOMAIN lists[Bucket(k)]
                                 /\ lists[Bucket(k)][Place(k)] = <<k, dict[k]>>
<1>1. PICK b \in 0..(BUCKETS - 1) : b = Bucket(k)
  BY Buckets
<1>2. PICK l \in Seq(Keys \X Values) : l = lists[b] /\ OnceIn(l, b) /\ Holds(l, k, dict[k])
  BY <1>1 DEF MapSound
<1>3. /\ \A i \in DOMAIN l : l[i][1] = k => Place(k) = i /\ HasKey(k)
      /\ (\A i \in DOMAIN l : l[i][1] # k) => ~HasKey(k)
  BY <1>1, <1>2, PlaceIs
<1>4. CASE dict[k] = NoVal
  BY <1>2, <1>3, <1>4 DEF Holds
<1>5. CASE dict[k] # NoVal
  <2>1. PICK i \in DOMAIN l : l[i] = <<k, dict[k]>>
    BY <1>2, <1>5 DEF Holds
  <2>2. l[i][1] = k
    BY <2>1
  <2>. QED
    BY <1>1, <1>2, <1>3, <1>5, <2>1, <2>2
<1>. QED
  BY <1>4, <1>5

(* The pairs of a bucket by their places.                                  *)
LEMMA OnceIs ==
    ASSUME NEW l, NEW b, NEW n, DOMAIN l = 1..n, OnceIn(l, b)
    PROVE  /\ \A i \in 1..n : Bucket(l[i][1]) = b
           /\ \A i, j \in 1..n : l[i][1] = l[j][1] => i = j
<1>1. \A i, j \in 1..n : Bucket(l[i][1]) = b /\ (l[i][1] = l[j][1] => i = j)
  BY Zenon DEF OnceIn
<1>. QED
  BY <1>1, Zenon

(* One bucket changes, and it says the same of the other keys.             *)
LEMMA BucketChanges ==
    ASSUME MapSound, NEW k \in Keys, NEW w \in Values \cup {NoVal}, NEW l \in Seq(Keys \X Values),
           lists' = [lists EXCEPT ![Bucket(k)] = l], dict' = [dict EXCEPT ![k] = w],
           OnceIn(l, Bucket(k)), Holds(l, k, w),
           \A o \in Keys : o # k /\ Holds(lists[Bucket(k)], o, dict[o]) => Holds(l, o, dict[o])
    PROVE  MapSound'
<1>1. PICK b \in 0..(BUCKETS - 1) : b = Bucket(k)
  BY Buckets
<1>2. /\ lists \in [0..(BUCKETS - 1) -> Seq(Keys \X Values)]
      /\ dict \in [Keys -> Values \cup {NoVal}]
      /\ \A c \in 0..(BUCKETS - 1) : OnceIn(lists[c], c)
      /\ \A o \in Keys : Holds(lists[Bucket(o)], o, dict[o])
  BY DEF MapSound
<1>3. lists' \in [0..(BUCKETS - 1) -> Seq(Keys \X Values)] /\ dict' \in [Keys -> Values \cup {NoVal}]
  BY <1>1, <1>2
<1>4. lists'[b] = l /\ \A c \in 0..(BUCKETS - 1) : c # b => lists'[c] = lists[c]
  BY <1>1, <1>2
<1>5. dict'[k] = w /\ \A o \in Keys : o # k => dict'[o] = dict[o]
  BY <1>2
<1>6. \A c \in 0..(BUCKETS - 1) : OnceIn(lists'[c], c)
  BY <1>1, <1>2, <1>4
<1>7. ASSUME NEW o \in Keys  PROVE  Holds(lists'[Bucket(o)], o, dict'[o])
  <2>1. CASE o = k
    BY <1>1, <1>4, <1>5, <2>1
  <2>2. CASE o # k /\ Bucket(o) = b
    BY <1>1, <1>2, <1>4, <1>5, <2>2
  <2>3. CASE o # k /\ Bucket(o) # b
    BY <1>2, <1>4, <1>5, <2>3, Buckets
  <2>. QED
    BY <2>1, <2>2, <2>3
<1>. QED
  BY <1>3, <1>6, <1>7 DEF MapSound, OnceIn, Holds

LEMMA InsertKeeps ==
    ASSUME MapSound, NEW k \in Keys, NEW v \in Values, Insert(k, v)
    PROVE  MapSound'
<1>0. v # NoVal
  BY ContainersAssumption
<1>1. CASE dict[k] # NoVal
  <2>1. lists' = lists /\ dict' = dict
    BY <1>1, KeyIs DEF Insert
  <2>. QED
    BY <2>1 DEF MapSound, OnceIn, Holds
<1>2. CASE dict[k] = NoVal
  <2>1. PICK b \in 0..(BUCKETS - 1) : b = Bucket(k)
    BY Buckets
  <2>2. PICK l \in Seq(Keys \X Values) : l = lists[b] /\ OnceIn(l, b) /\ Holds(l, k, NoVal)
    BY <1>2, <2>1 DEF MapSound
  <2>3. PICK n \in Nat : n = Len(l) /\ DOMAIN l = 1..n
    BY LenProperties
  <2>4. PICK kv \in Keys \X Values : kv = <<k, v>>
    OBVIOUS
  <2>5. PICK new \in Seq(Keys \X Values) : new = Append(l, kv)
    BY AppendProperties
  <2>6. /\ Len(new) = n + 1 /\ new[n + 1] = kv
        /\ \A i \in 1..n : new[i] = l[i]
    BY <2>3, <2>5, AppendProperties
  <2>7. DOMAIN new = 1..(n + 1)
    BY <2>6, LenProperties
  <2>8. \A i \in 1..n : l[i][1] # k
    BY <2>2, <2>3 DEF Holds
  <2>9. kv[1] = k
    BY <2>4
  <2>10. \A i \in 1..(n + 1) : i = n + 1 \/ i \in 1..n
    OBVIOUS
  <2>11. OnceIn(new, b)
    <3>0. /\ \A i \in 1..n : Bucket(l[i][1]) = b
          /\ \A i, j \in 1..n : l[i][1] = l[j][1] => i = j
      BY <2>2, <2>3, OnceIs
    <3>1. ASSUME NEW i \in 1..(n + 1)  PROVE  Bucket(new[i][1]) = b
      BY <2>1, <2>6, <2>9, <2>10, <3>0
    <3>2. ASSUME NEW i \in 1..(n + 1), NEW j \in 1..(n + 1), new[i][1] = new[j][1]  PROVE  i = j
      <4>1. CASE i \in 1..n /\ j \in 1..n
        BY <2>6, <3>0, <3>2, <4>1
      <4>2. CASE i = n + 1 \/ j = n + 1
        BY <2>6, <2>8, <2>9, <2>10, <3>2, <4>2
      <4>. QED
        BY <2>10, <4>1, <4>2
    <3>. QED
      BY <2>7, <3>1, <3>2 DEF OnceIn
  <2>12. Holds(new, k, v)
    <3>1. n + 1 \in DOMAIN new
      BY <2>7
    <3>. QED
      BY <1>0, <2>4, <2>6, <3>1 DEF Holds
  <2>13. ASSUME NEW o \in Keys, o # k, Holds(l, o, dict[o])  PROVE  Holds(new, o, dict[o])
    <3>1. CASE dict[o] = NoVal
      BY <2>3, <2>6, <2>7, <2>9, <2>10, <2>13, <3>1 DEF Holds
    <3>2. CASE dict[o] # NoVal
      <4>1. PICK i \in 1..n : l[i] = <<o, dict[o]>>
        BY <2>3, <2>13, <3>2 DEF Holds
      <4>2. new[i] = <<o, dict[o]>> /\ i \in DOMAIN new
        BY <2>6, <2>7, <4>1
      <4>. QED
        BY <3>2, <4>2 DEF Holds
    <3>. QED
      BY <3>1, <3>2
  <2>14. lists' = [lists EXCEPT ![Bucket(k)] = new] /\ dict' = [dict EXCEPT ![k] = v]
    <3>1. ~HasKey(k)
      BY <1>2, KeyIs
    <3>2. lists' = [lists EXCEPT ![Bucket(k)] = Append(@, <<k, v>>)]
      BY <3>1 DEF Insert
    <3>3. dict' = [dict EXCEPT ![k] = v]
      BY <1>2 DEF Insert
    <3>. QED
      BY <2>1, <2>2, <2>4, <2>5, <3>2, <3>3
  <2>. QED
    BY <2>1, <2>2, <2>11, <2>12, <2>13, <2>14, BucketChanges
<1>. QED
  BY <1>1, <1>2

LEMMA UpdateKeeps ==
    ASSUME MapSound, NEW k \in Keys, NEW v \in Values, Update(k, v)
    PROVE  MapSound'
<1>0. v # NoVal
  BY ContainersAssumption
<1>1. dict[k] # NoVal
  BY KeyIs DEF Update
<1>2. PICK b \in 0..(BUCKETS - 1) : b = Bucket(k)
  BY Buckets
<1>3. PICK l \in Seq(Keys \X Values) : l = lists[b] /\ OnceIn(l, b)
  BY <1>2 DEF MapSound
<1>4. PICK n \in Nat : n = Len(l) /\ DOMAIN l = 1..n
  BY LenProperties
<1>5. PICK at \in 1..n : at = Place(k) /\ l[at] = <<k, dict[k]>>
  BY <1>1, <1>2, <1>3, <1>4, KeyIs
<1>6. PICK kv \in Keys \X Values : kv = <<k, v>>
  OBVIOUS
<1>7. PICK new \in Seq(Keys \X Values) : new = [l EXCEPT ![at] = kv]
  BY <1>4, ExceptSeq
<1>8. DOMAIN new = 1..n /\ \A i \in 1..n : new[i] = IF i = at THEN kv ELSE l[i]
  BY <1>4, <1>7
<1>9. kv[1] = k /\ l[at][1] = k
  BY <1>5, <1>6
<1>10. \A i \in 1..n : new[i][1] = l[i][1]
  BY <1>8, <1>9
<1>11. OnceIn(new, b)
  BY <1>3, <1>4, <1>8, <1>10 DEF OnceIn
<1>12. Holds(new, k, v)
  BY <1>0, <1>6, <1>8 DEF Holds
<1>13. ASSUME NEW o \in Keys, o # k, Holds(l, o, dict[o])  PROVE  Holds(new, o, dict[o])
  <2>1. CASE dict[o] = NoVal
    BY <1>4, <1>8, <1>10, <1>13, <2>1 DEF Holds
  <2>2. CASE dict[o] # NoVal
    <3>1. PICK i \in 1..n : l[i] = <<o, dict[o]>>
      BY <1>4, <1>13, <2>2 DEF Holds
    <3>2. i # at
      BY <1>9, <1>13, <3>1
    <3>3. new[i] = <<o, dict[o]>> /\ i \in DOMAIN new
      BY <1>8, <3>1, <3>2
    <3>. QED
      BY <2>2, <3>3 DEF Holds
  <2>. QED
    BY <2>1, <2>2
<1>14. lists' = [lists EXCEPT ![Bucket(k)] = new] /\ dict' = [dict EXCEPT ![k] = v]
  <2>1. lists' = [lists EXCEPT ![Bucket(k)][Place(k)] = <<k, v>>]
    BY DEF Update
  <2>2. dict' = [dict EXCEPT ![k] = v]
    BY DEF Update
  <2>. QED
    BY <1>2, <1>3, <1>5, <1>6, <1>7, <2>1, <2>2
<1>. QED
  BY <1>2, <1>3, <1>11, <1>12, <1>13, <1>14, BucketChanges

(* A sequence without its element i.                                       *)
LEMMA RemoveAtIs ==
    ASSUME NEW S, NEW l \in Seq(S), NEW i \in 1..Len(l)
    PROVE  /\ RemoveAt(l, i) \in Seq(S) /\ Len(RemoveAt(l, i)) = Len(l) - 1
           /\ \A j \in 1..(Len(l) - 1) :
                RemoveAt(l, i)[j] = IF j < i THEN l[j] ELSE l[j + 1]
<1>0. PICK n \in Nat : n = Len(l)
  BY LenProperties
<1>1. i \in 1..n /\ \A j \in 1..n : l[j] \in S
  BY <1>0, ElementOfSeq
<1>2. PICK s \in Seq(S) : s = SubSeq(l, 1, i - 1) /\ Len(s) = i - 1 /\ \A j \in 1..(i - 1) : s[j] = l[j]
  <2>1. PICK m \in Int : m = i - 1 /\ m >= 0 /\ m - 1 + 1 = m /\ m <= n
    BY <1>1
  <2>2. \A j \in 1..m : l[j] \in S
    BY <1>1, <2>1
  <2>3. PICK s : s = SubSeq(l, 1, m)
    OBVIOUS
  <2>4. /\ s \in Seq(S) /\ Len(s) = IF 1 <= m THEN m - 1 + 1 ELSE 0
        /\ \A j \in 1..(m - 1 + 1) : s[j] = l[1 + j - 1]
    BY <2>2, <2>3, SubSeqProperties
  <2>5. \A j \in 1..m : 1 + j - 1 = j
    OBVIOUS
  <2>6. Len(s) = m
    BY <2>1, <2>4
  <2>7. \A j \in 1..m : s[j] = l[j]
    BY <2>1, <2>4, <2>5
  <2>. QED
    BY <2>1, <2>3, <2>4, <2>6, <2>7
<1>3. PICK t \in Seq(S) : t = SubSeq(l, i + 1, n) /\ Len(t) = n - i /\ \A j \in 1..(n - i) : t[j] = l[i + j]
  <2>1. PICK m \in Int : m = i + 1 /\ m >= 2 /\ n - m + 1 = n - i
    BY <1>1
  <2>2. \A j \in m..n : l[j] \in S
    BY <1>1, <2>1
  <2>3. PICK t : t = SubSeq(l, m, n)
    OBVIOUS
  <2>4. /\ t \in Seq(S) /\ Len(t) = IF m <= n THEN n - m + 1 ELSE 0
        /\ \A j \in 1..(n - m + 1) : t[j] = l[m + j - 1]
    BY <2>1, <2>2, <2>3, SubSeqProperties
  <2>5. \A j \in 1..(n - i) : m + j - 1 = i + j
    BY <1>1, <2>1
  <2>6. Len(t) = n - i
    BY <1>1, <2>1, <2>4
  <2>7. \A j \in 1..(n - i) : t[j] = l[i + j]
    BY <2>1, <2>4, <2>5
  <2>. QED
    BY <2>1, <2>3, <2>4, <2>6, <2>7
<1>4. RemoveAt(l, i) = s \o t
  BY <1>0, <1>2, <1>3 DEF RemoveAt
<1>5. /\ s \o t \in Seq(S) /\ Len(s \o t) = (i - 1) + (n - i)
      /\ \A j \in 1..((i - 1) + (n - i)) : (s \o t)[j] = IF j <= i - 1 THEN s[j] ELSE t[j - (i - 1)]
  <2>1. /\ s \o t \in Seq(S) /\ Len(s \o t) = Len(s) + Len(t)
        /\ \A j \in 1..(Len(s) + Len(t)) :
             (s \o t)[j] = IF j <= Len(s) THEN s[j] ELSE t[j - Len(s)]
    BY ConcatProperties
  <2>2. Len(s) = i - 1 /\ Len(t) = n - i
    BY <1>2, <1>3
  <2>. QED
    BY <2>1, <2>2, Zenon
<1>6. (i - 1) + (n - i) = n - 1
  BY <1>1
<1>7. ASSUME NEW j \in 1..(n - 1)
      PROVE  (s \o t)[j] = IF j < i THEN l[j] ELSE l[j + 1]
  <2>1. CASE j < i
    BY <1>1, <1>2, <1>5, <1>6, <2>1
  <2>2. CASE ~(j < i)
    <3>1. PICK m \in 1..(n - i) : m = j - (i - 1) /\ i + m = j + 1
      BY <1>1, <2>2
    <3>2. (s \o t)[j] = t[m]
      BY <1>1, <1>5, <1>6, <2>2, <3>1
    <3>. QED
      BY <1>1, <1>3, <2>2, <3>1, <3>2
  <2>. QED
    BY <1>1, <2>1, <2>2
<1>. QED
  BY <1>0, <1>4, <1>5, <1>6, <1>7

LEMMA RemoveKeyKeeps ==
    ASSUME MapSound, NEW k \in Keys, RemoveKey(k)
    PROVE  MapSound'
<1>1. CASE dict[k] = NoVal
  <2>1. lists' = lists
    BY <1>1, KeyIs DEF RemoveKey
  <2>2. dict' = dict
    BY <1>1 DEF RemoveKey, MapSound
  <2>. QED
    BY <2>1, <2>2 DEF MapSound, OnceIn, Holds
<1>2. CASE dict[k] # NoVal
  <2>1. PICK b \in 0..(BUCKETS - 1) : b = Bucket(k)
    BY Buckets
  <2>2. PICK l \in Seq(Keys \X Values) : l = lists[b] /\ OnceIn(l, b)
    BY <2>1 DEF MapSound
  <2>3. PICK n \in Nat : n = Len(l) /\ DOMAIN l = 1..n
    BY LenProperties
  <2>4. PICK at \in 1..n : at = Place(k) /\ l[at] = <<k, dict[k]>>
    BY <1>2, <2>1, <2>2, <2>3, KeyIs
  <2>5. l[at][1] = k
    BY <2>4
  <2>6. PICK new \in Seq(Keys \X Values) : new = RemoveAt(l, at)
    BY <2>3, RemoveAtIs
  <2>7. /\ Len(new) = n - 1
        /\ \A j \in 1..(n - 1) : new[j] = IF j < at THEN l[j] ELSE l[j + 1]
    <3>1. PICK r : r = RemoveAt(l, at)
      OBVIOUS
    <3>2. /\ Len(r) = n - 1
          /\ \A j \in 1..(n - 1) : r[j] = IF j < at THEN l[j] ELSE l[j + 1]
      BY <2>3, <3>1, RemoveAtIs
    <3>. QED
      BY <2>6, <3>1, <3>2
  <2>8. DOMAIN new = 1..(n - 1)
    BY <2>7, LenProperties
  <2>9. \A j \in 1..(n - 1) : j \in 1..n /\ j + 1 \in 1..n
    OBVIOUS
  <2>10. /\ \A i \in 1..n : Bucket(l[i][1]) = b
         /\ \A i, j \in 1..n : l[i][1] = l[j][1] => i = j
    BY <2>2, <2>3, OnceIs
  <2>11. \A j \in 1..(n - 1) : \E i \in 1..n :
            i = (IF j < at THEN j ELSE j + 1) /\ i # at /\ new[j] = l[i]
    BY <2>7, <2>9
  <2>12. OnceIn(new, b)
    <3>1. ASSUME NEW i \in 1..(n - 1)  PROVE  Bucket(new[i][1]) = b
      BY <2>10, <2>11
    <3>2. ASSUME NEW i \in 1..(n - 1), NEW j \in 1..(n - 1), new[i][1] = new[j][1]  PROVE  i = j
      <4>1. PICK i2 \in 1..n : i2 = (IF i < at THEN i ELSE i + 1) /\ new[i] = l[i2]
        BY <2>11
      <4>2. PICK j2 \in 1..n : j2 = (IF j < at THEN j ELSE j + 1) /\ new[j] = l[j2]
        BY <2>11
      <4>3. i2 = j2
        BY <2>10, <3>2, <4>1, <4>2
      <4>. QED
        BY <4>1, <4>2, <4>3
    <3>. QED
      BY <2>8, <3>1, <3>2 DEF OnceIn
  <2>13. Holds(new, k, NoVal)
    <3>1. ASSUME NEW j \in 1..(n - 1)  PROVE  new[j][1] # k
      <4>1. PICK i \in 1..n : i # at /\ new[j] = l[i]
        BY <2>11
      <4>. QED
        BY <2>5, <2>10, <4>1
    <3>. QED
      BY <2>8, <3>1 DEF Holds
  <2>14. ASSUME NEW o \in Keys, o # k, Holds(l, o, dict[o])  PROVE  Holds(new, o, dict[o])
    <3>1. CASE dict[o] = NoVal
      <4>1. \A i \in 1..n : l[i][1] # o
        BY <2>3, <2>14, <3>1 DEF Holds
      <4>2. \A j \in 1..(n - 1) : new[j][1] # o
        BY <2>11, <4>1
      <4>. QED
        BY <2>8, <3>1, <4>2 DEF Holds
    <3>2. CASE dict[o] # NoVal
      <4>1. PICK i \in 1..n : l[i] = <<o, dict[o]>>
        BY <2>3, <2>14, <3>2 DEF Holds
      <4>2. i # at
        BY <2>5, <2>14, <4>1
      <4>3. PICK j \in 1..(n - 1) : j = IF i < at THEN i ELSE i - 1
        BY <4>2
      <4>4. new[j] = l[i]
        <5>1. CASE i < at
          BY <2>7, <4>3, <5>1
        <5>2. CASE i > at
          BY <2>7, <4>3, <5>2
        <5>. QED
          BY <4>2, <5>1, <5>2
      <4>. QED
        BY <2>8, <3>2, <4>1, <4>4 DEF Holds
    <3>. QED
      BY <3>1, <3>2
  <2>15. lists' = [lists EXCEPT ![Bucket(k)] = new] /\ dict' = [dict EXCEPT ![k] = NoVal]
    <3>1. HasKey(k)
      BY <1>2, KeyIs
    <3>2. lists' = [lists EXCEPT ![Bucket(k)] = RemoveAt(@, Place(k))]
      BY <3>1 DEF RemoveKey
    <3>3. dict' = [dict EXCEPT ![k] = NoVal]
      BY DEF RemoveKey
    <3>. QED
      BY <2>1, <2>2, <2>4, <2>6, <3>2, <3>3
  <2>. QED
    BY <2>1, <2>2, <2>12, <2>13, <2>14, <2>15, BucketChanges
<1>. QED
  BY <1>1, <1>2

LEMMA OthersKeep ==
    /\ QueueSound /\ UNCHANGED queueVars => QueueSound'
    /\ StackSound /\ UNCHANGED stackVars => StackSound'
    /\ MapSound /\ UNCHANGED mapVars => MapSound'
<1>1. ASSUME QueueSound, UNCHANGED queueVars  PROVE  QueueSound'
  <2>1. queue' = queue /\ fifo' = fifo
    BY <1>1 DEF queueVars
  <2>. QED
    BY <1>1, <2>1 DEF QueueSound
<1>2. ASSUME StackSound, UNCHANGED stackVars  PROVE  StackSound'
  <2>1. stk' = stk /\ lifo' = lifo
    BY <1>2 DEF stackVars
  <2>. QED
    BY <1>2, <2>1 DEF StackSound
<1>3. ASSUME MapSound, UNCHANGED mapVars  PROVE  MapSound'
  <2>1. lists' = lists /\ dict' = dict
    BY <1>3 DEF mapVars
  <2>. QED
    BY <1>3, <2>1 DEF MapSound, OnceIn, Holds
<1>. QED
  BY <1>1, <1>2, <1>3

LEMMA ContainersInvKeeps ==
    ASSUME ContainersInv, [ContainersNext]_containersVars
    PROVE  ContainersInv'
<1>0. QueueSound /\ StackSound /\ MapSound
  BY DEF ContainersInv
<1>1. ASSUME NEW x \in Entries, QueueEnqueue(x)  PROVE  ContainersInv'
  <2>1. UNCHANGED stackVars /\ UNCHANGED mapVars
    BY <1>1 DEF QueueEnqueue
  <2>. QED
    BY <1>0, <1>1, <2>1, EnqueueKeeps, OthersKeep DEF ContainersInv
<1>2. ASSUME NEW x \in Entries, StackEnqueue(x)  PROVE  ContainersInv'
  <2>1. UNCHANGED queueVars /\ UNCHANGED mapVars
    BY <1>2 DEF StackEnqueue
  <2>. QED
    BY <1>0, <1>2, <2>1, PushKeeps, OthersKeep DEF ContainersInv
<1>3. CASE QueueDequeue
  <2>1. UNCHANGED stackVars /\ UNCHANGED mapVars
    BY <1>3 DEF QueueDequeue
  <2>. QED
    BY <1>0, <1>3, <2>1, DequeueKeeps, OthersKeep DEF ContainersInv
<1>4. CASE StackDequeue
  <2>1. UNCHANGED queueVars /\ UNCHANGED mapVars
    BY <1>4 DEF StackDequeue
  <2>. QED
    BY <1>0, <1>4, <2>1, PopKeeps, OthersKeep DEF ContainersInv
<1>5. ASSUME NEW k \in Keys, RemoveKey(k)  PROVE  ContainersInv'
  <2>1. UNCHANGED queueVars /\ UNCHANGED stackVars
    BY <1>5 DEF RemoveKey
  <2>. QED
    BY <1>0, <1>5, <2>1, RemoveKeyKeeps, OthersKeep DEF ContainersInv
<1>6. ASSUME NEW k \in Keys, NEW v \in Values, Insert(k, v)  PROVE  ContainersInv'
  <2>1. UNCHANGED queueVars /\ UNCHANGED stackVars
    BY <1>6 DEF Insert
  <2>. QED
    BY <1>0, <1>6, <2>1, InsertKeeps, OthersKeep DEF ContainersInv
<1>7. ASSUME NEW k \in Keys, NEW v \in Values, Update(k, v)  PROVE  ContainersInv'
  <2>1. UNCHANGED queueVars /\ UNCHANGED stackVars
    BY <1>7 DEF Update
  <2>. QED
    BY <1>0, <1>7, <2>1, UpdateKeeps, OthersKeep DEF ContainersInv
<1>8. CASE UNCHANGED containersVars
  <2>1. UNCHANGED queueVars /\ UNCHANGED stackVars /\ UNCHANGED mapVars
    BY <1>8 DEF containersVars, queueVars, stackVars, mapVars
  <2>. QED
    BY <1>0, <2>1, OthersKeep DEF ContainersInv
<1>. QED
  BY <1>1, <1>2, <1>3, <1>4, <1>5, <1>6, <1>7, <1>8 DEF ContainersNext

LEMMA ContainersShow == ContainersInv => ContainersKeep
<1>. SUFFICES ASSUME ContainersInv  PROVE  ContainersKeep
  OBVIOUS
<1>1. /\ fifo = [i \in 1..queue.size |-> queue.data[(queue.front + i - 1) % Capacity]]
      /\ queue.back = (queue.front + queue.size) % Capacity
  BY DEF ContainersInv, QueueSound
<1>2. stk.count = Len(stk.head) /\ lifo = Reverse(stk.head)
  BY DEF ContainersInv, StackSound
<1>3. MapSound
  BY DEF ContainersInv
<1>4. ASSUME NEW k \in Keys  PROVE  GetValue(k) = dict[k]
  <2>1. CASE dict[k] = NoVal
    BY <1>3, <2>1, KeyIs DEF GetValue
  <2>2. CASE dict[k] # NoVal
    <3>1. HasKey(k) /\ lists[Bucket(k)][Place(k)] = <<k, dict[k]>>
      BY <1>3, <2>2, KeyIs
    <3>. QED
      BY <3>1 DEF GetValue
  <2>. QED
    BY <2>1, <2>2
<1>5. \A b \in DOMAIN lists : OnceIn(lists[b], b)
  BY <1>3 DEF MapSound
<1>. QED
  BY <1>1, <1>2, <1>4, <1>5 DEF ContainersKeep, OnceIn

(* myqueue.h, mystack.h and my_hashmap.c keep what is put in: for any size *)
(* of the queue, any items, keys and values and any number of buckets the  *)
(* ring is the queue, the nodes are the stack, and the lists are the map.  *)
THEOREM SpecContainersKeep == ContainersSpec => []ContainersKeep
<1>1. ContainersInit => ContainersInv
  BY ContainersStart
<1>2. ContainersInv /\ [ContainersNext]_containersVars => ContainersInv'
  BY ContainersInvKeeps
<1>3. ContainersInv => ContainersKeep
  BY ContainersShow
<1>. QED
  BY <1>1, <1>2, <1>3, PTL DEF ContainersSpec

-----------------------------------------------------------------------------

-----------------------------------------------------------------------------
(* The blocks of module BestFit.                                           *)

Block == [addr : Nat, size : Nat, free : BOOLEAN]

(* The blocks up to brk one after the other, and what the program holds    *)
(* one for one with the blocks that are taken.                             *)
InOrder ==
    /\ \A i \in DOMAIN list : list[i].addr + list[i].size <= brk
    /\ \A i, j \in DOMAIN list : i < j => list[i].addr + list[i].size + HDR <= list[j].addr
OneForOne ==
    /\ \A r \in live : \E i \in DOMAIN list :
         ~list[i].free /\ list[i].addr = r.addr /\ list[i].size >= r.size
    /\ \A i \in DOMAIN list : ~list[i].free => \E r \in live : r.addr = list[i].addr
    /\ \A r, o \in live : r.addr = o.addr => r = o
HeapSound ==
    /\ list \in Seq(Block) /\ brk \in Nat
    /\ live \subseteq [addr : Nat, size : Nat] /\ IsFiniteSet(live)
    /\ InOrder /\ OneForOne

LEMMA HeapStart == HeapInit => HeapSound
<1>. SUFFICES ASSUME HeapInit  PROVE  HeapSound
  OBVIOUS
<1>1. list = << >> /\ brk = 0 /\ live = {}
  BY DEF HeapInit
<1>2. << >> \in Seq(Block) /\ DOMAIN << >> = {}
  BY EmptySeq
<1>3. IsFiniteSet(live)
  BY <1>1, FS_EmptySet
<1>. QED
  BY <1>1, <1>2, <1>3 DEF HeapSound, InOrder, OneForOne

(* Blocks do not have the same address.                                    *)
LEMMA AddressesDiffer ==
    ASSUME HeapSound
    PROVE  \A i, j \in DOMAIN list : list[i].addr = list[j].addr => i = j
<1>1. PICK n \in Nat : DOMAIN list = 1..n
  BY LenProperties DEF HeapSound
<1>2. \A i \in 1..n : list[i].addr \in Nat /\ list[i].size \in Nat
  <2>1. \A i \in 1..n : list[i] \in Block
    BY <1>1, LenProperties DEF HeapSound
  <2>. QED
    BY <2>1 DEF Block
<1>3. HDR \in Nat \ {0}
  BY BestFitAssumption
<1>4. \A i, j \in 1..n : i < j => list[i].addr + list[i].size + HDR <= list[j].addr
  BY <1>1 DEF HeapSound, InOrder
<1>5. \A i, j \in 1..n : i < j => list[i].addr # list[j].addr
  BY <1>2, <1>3, <1>4
<1>. QED
  BY <1>1, <1>5

(* A block at the end, from sbrk().                                        *)
LEMMA ExtendKeeps ==
    ASSUME HeapSound, NEW s \in Nat, ExtendMemory(s)
    PROVE  HeapSound'
<1>1. PICK gap \in Gaps :
        LET at == brk + gap IN
        IF at + HDR + s > MaxHeap THEN UNCHANGED heapVars
        ELSE /\ brk' = at + HDR + s
             /\ list' = Append(list, [addr |-> at + HDR, size |-> s, free |-> FALSE])
             /\ live' = live \cup {[addr |-> at + HDR, size |-> s]}
  BY DEF ExtendMemory
<1>2. HDR \in Nat \ {0} /\ gap \in Nat /\ brk \in Nat
  BY BestFitAssumption DEF HeapSound
<1>3. CASE UNCHANGED heapVars
  <2>1. list' = list /\ brk' = brk /\ live' = live
    BY <1>3 DEF heapVars
  <2>. QED
    BY <2>1 DEF HeapSound, InOrder, OneForOne
<1>4. CASE ~UNCHANGED heapVars
  <2>1. PICK at \in Nat : at = brk + gap + HDR
    BY <1>2
  <2>2. PICK new \in Block : new = [addr |-> at, size |-> s, free |-> FALSE]
    BY DEF Block
  <2>3. PICK given \in [addr : Nat, size : Nat] : given = [addr |-> at, size |-> s]
    OBVIOUS
  <2>4. brk' = at + s /\ list' = Append(list, new) /\ live' = live \cup {given}
    BY <1>1, <1>4, <2>1, <2>2, <2>3
  <2>5. PICK n \in Nat : n = Len(list) /\ DOMAIN list = 1..n
    BY LenProperties DEF HeapSound
  <2>6. \A i \in 1..n : list[i].addr \in Nat /\ list[i].size \in Nat
    <3>1. \A i \in 1..n : list[i] \in Block
      BY <2>5, LenProperties DEF HeapSound
    <3>. QED
      BY <3>1 DEF Block
  <2>7. /\ list' \in Seq(Block) /\ Len(list') = n + 1 /\ list'[n + 1] = new
        /\ \A i \in 1..n : list'[i] = list[i]
    BY <2>4, <2>5, AppendProperties DEF HeapSound
  <2>8. DOMAIN list' = 1..(n + 1) /\ \A i \in 1..(n + 1) : i = n + 1 \/ i \in 1..n
    BY <2>7, LenProperties
  <2>9. /\ \A i \in 1..n : list[i].addr + list[i].size <= brk
        /\ \A i, j \in 1..n : i < j => list[i].addr + list[i].size + HDR <= list[j].addr
    BY <2>5 DEF HeapSound, InOrder
  <2>10. /\ \A i \in 1..n : list[i].addr + list[i].size + HDR <= at
         /\ brk <= at
    BY <1>2, <2>1, <2>6, <2>9
  <2>11. new.addr = at /\ new.size = s /\ new.free = FALSE /\ given.addr = at /\ given.size = s
    BY <2>2, <2>3
  <2>12. \A i \in 1..(n + 1) : list'[i].addr + list'[i].size <= brk'
    <3>1. TAKE i \in 1..(n + 1)
    <3>2. CASE i = n + 1
      BY <2>4, <2>7, <2>11, <3>2
    <3>3. CASE i \in 1..n
      BY <1>2, <2>4, <2>6, <2>7, <2>9, <2>10, <3>3
    <3>. QED
      BY <2>8, <3>2, <3>3
  <2>13. ASSUME NEW i \in 1..(n + 1), NEW j \in 1..(n + 1), i < j
         PROVE  list'[i].addr + list'[i].size + HDR <= list'[j].addr
    <3>1. i \in 1..n
      BY <2>13
    <3>2. CASE j = n + 1
      BY <2>7, <2>10, <2>11, <3>1, <3>2
    <3>3. CASE j \in 1..n
      BY <2>7, <2>9, <2>13, <3>1, <3>3
    <3>. QED
      BY <2>8, <3>2, <3>3
  <2>14. InOrder'
    BY <2>8, <2>12, <2>13 DEF InOrder
  <2>15. ASSUME NEW r \in live  PROVE  r.addr # at
    <3>1. PICK i \in 1..n : list[i].addr = r.addr
      BY <2>5 DEF HeapSound, OneForOne
    <3>. QED
      BY <1>2, <2>6, <2>10, <3>1
  <2>16. /\ \A r \in live : \E i \in 1..n :
              ~list[i].free /\ list[i].addr = r.addr /\ list[i].size >= r.size
         /\ \A i \in 1..n : ~list[i].free => \E r \in live : r.addr = list[i].addr
         /\ \A r, o \in live : r.addr = o.addr => r = o
    BY <2>5 DEF HeapSound, OneForOne
  <2>17. ASSUME NEW r \in live'
         PROVE  \E i \in 1..(n + 1) :
                  ~list'[i].free /\ list'[i].addr = r.addr /\ list'[i].size >= r.size
    <3>1. CASE r = given
      <4>1. n + 1 \in 1..(n + 1) /\ s >= s
        OBVIOUS
      <4>. QED
        BY <2>7, <2>11, <3>1, <4>1
    <3>2. CASE r \in live
      <4>1. PICK i \in 1..n : ~list[i].free /\ list[i].addr = r.addr /\ list[i].size >= r.size
        BY <2>16, <3>2
      <4>2. i \in 1..(n + 1)
        OBVIOUS
      <4>. QED
        BY <2>7, <4>1, <4>2
    <3>. QED
      BY <2>4, <3>1, <3>2
  <2>18. ASSUME NEW i \in 1..(n + 1), ~list'[i].free  PROVE  \E r \in live' : r.addr = list'[i].addr
    BY <2>4, <2>7, <2>8, <2>11, <2>16, <2>18
  <2>19. \A r, o \in live' : r.addr = o.addr => r = o
    BY <2>4, <2>11, <2>15, <2>16
  <2>20. OneForOne'
    BY <2>8, <2>17, <2>18, <2>19 DEF OneForOne
  <2>21. live' \subseteq [addr : Nat, size : Nat] /\ IsFiniteSet(live') /\ brk' \in Nat
    BY <2>4, FS_AddElement DEF HeapSound
  <2>. QED
    BY <2>7, <2>14, <2>20, <2>21 DEF HeapSound
<1>. QED
  BY <1>3, <1>4

(* The best fitting free block.                                            *)
LEMMA ReuseKeeps ==
    ASSUME HeapSound, NEW s \in Nat, NEW at \in DOMAIN list, list[at].free, list[at].size >= s,
           list' = [list EXCEPT ![at].free = FALSE],
           live' = live \cup {[addr |-> list[at].addr, size |-> s]}, UNCHANGED brk
    PROVE  HeapSound'
<1>1. PICK n \in Nat : n = Len(list) /\ DOMAIN list = 1..n
  BY LenProperties DEF HeapSound
<1>2. \A i \in 1..n : list[i] \in Block
  BY <1>1, ElementOfSeq DEF HeapSound
<1>3. PICK new \in Block : new = [list[at] EXCEPT !.free = FALSE]
  BY <1>1, <1>2 DEF Block
<1>4. new.addr = list[at].addr /\ new.size = list[at].size /\ new.free = FALSE
  BY <1>1, <1>2, <1>3 DEF Block
<1>5. list' = [list EXCEPT ![at] = new]
  BY <1>3
<1>6. /\ list' \in Seq(Block) /\ Len(list') = n
      /\ \A i \in 1..n : list'[i] = IF i = at THEN new ELSE list[i]
  <2>1. list \in Seq(Block) /\ at \in 1..Len(list)
    BY <1>1 DEF HeapSound
  <2>2. /\ [list EXCEPT ![at] = new] \in Seq(Block) /\ Len([list EXCEPT ![at] = new]) = Len(list)
        /\ \A i \in 1..Len(list) :
             [list EXCEPT ![at] = new][i] = IF i = at THEN new ELSE list[i]
    BY <2>1, ExceptSeq
  <2>. QED
    BY <1>1, <1>5, <2>2
<1>7. DOMAIN list' = 1..n
  BY <1>6, LenProperties
<1>8. /\ \A i \in 1..n : list'[i].addr = list[i].addr /\ list'[i].size = list[i].size
      /\ \A i \in 1..n : ~list'[i].free <=> i = at \/ ~list[i].free
  BY <1>1, <1>4, <1>6
<1>9. InOrder'
  BY <1>1, <1>7, <1>8 DEF HeapSound, InOrder
<1>10. PICK given \in [addr : Nat, size : Nat] :
         /\ given = [addr |-> list[at].addr, size |-> s]
         /\ given.addr = list[at].addr /\ given.size = s
  <2>1. list[at].addr \in Nat
    BY <1>1, <1>2 DEF Block
  <2>2. [addr |-> list[at].addr, size |-> s] \in [addr : Nat, size : Nat]
    BY <2>1
  <2>. QED
    BY <2>2
<1>11. live' = live \cup {given}
  BY <1>10
<1>12. /\ \A r \in live : \E i \in 1..n :
              ~list[i].free /\ list[i].addr = r.addr /\ list[i].size >= r.size
       /\ \A i \in 1..n : ~list[i].free => \E r \in live : r.addr = list[i].addr
       /\ \A r, o \in live : r.addr = o.addr => r = o
  BY <1>1 DEF HeapSound, OneForOne
<1>13. ASSUME NEW r \in live  PROVE  r.addr # given.addr
  <2>1. PICK i \in 1..n : ~list[i].free /\ list[i].addr = r.addr
    BY <1>12
  <2>2. i # at
    BY <2>1
  <2>. QED
    BY <1>1, <1>10, <2>1, <2>2, AddressesDiffer
<1>14. ASSUME NEW r \in live'
       PROVE  \E i \in 1..n : ~list'[i].free /\ list'[i].addr = r.addr /\ list'[i].size >= r.size
  <2>1. CASE r = given
    BY <1>1, <1>8, <1>10, <2>1
  <2>2. CASE r \in live
    BY <1>8, <1>12, <2>2
  <2>. QED
    BY <1>11, <2>1, <2>2
<1>15. ASSUME NEW i \in 1..n, ~list'[i].free  PROVE  \E r \in live' : r.addr = list'[i].addr
  BY <1>8, <1>10, <1>11, <1>12, <1>15
<1>16. \A r, o \in live' : r.addr = o.addr => r = o
  BY <1>11, <1>12, <1>13
<1>17. OneForOne'
  BY <1>7, <1>14, <1>15, <1>16 DEF OneForOne
<1>18. live' \subseteq [addr : Nat, size : Nat] /\ IsFiniteSet(live') /\ brk' \in Nat
  BY <1>11, FS_AddElement DEF HeapSound
<1>. QED
  BY <1>6, <1>9, <1>17, <1>18 DEF HeapSound

LEMMA MallocKeeps ==
    ASSUME HeapSound, NEW s \in Nat, Mymalloc(s)
    PROVE  HeapSound'
<1>1. CASE Optimal(s) = {}
  BY <1>1, ExtendKeeps DEF Mymalloc
<1>2. CASE Optimal(s) # {}
  <2>1. PICK at \in Optimal(s) :
          /\ list' = [list EXCEPT ![at].free = FALSE]
          /\ live' = live \cup {[addr |-> list[at].addr, size |-> s]}
          /\ UNCHANGED brk
    BY <1>2 DEF Mymalloc
  <2>2. at \in DOMAIN list /\ list[at].free /\ list[at].size >= s
    BY <2>1 DEF Optimal, Candidates
  <2>. QED
    BY <2>1, <2>2, ReuseKeeps
<1>. QED
  BY <1>1, <1>2

(* The block at an address becomes free, once or again.                    *)
LEMMA FreeKeeps ==
    ASSUME HeapSound, NEW ptr, Myfree(ptr)
    PROVE  HeapSound'
<1>1. PICK n \in Nat : n = Len(list) /\ DOMAIN list = 1..n
  BY LenProperties DEF HeapSound
<1>2. \A i \in 1..n : list[i] \in Block
  BY <1>1, ElementOfSeq DEF HeapSound
<1>3. list' = [i \in 1..n |-> IF list[i].addr = ptr THEN [list[i] EXCEPT !.free = TRUE]
                              ELSE list[i]]
  BY <1>1 DEF Myfree
<1>4. \A i \in 1..n : /\ list'[i] \in Block
                      /\ list'[i].addr = list[i].addr /\ list'[i].size = list[i].size
                      /\ ~list'[i].free <=> list[i].addr # ptr /\ ~list[i].free
  BY <1>2, <1>3 DEF Block
<1>5. list' \in [1..n -> Block]
  BY <1>3, <1>4
<1>6. list' \in Seq(Block) /\ DOMAIN list' = 1..n
  BY <1>5, IsASeq
<1>7. live' = {r \in live : r.addr # ptr} /\ brk' = brk
  BY DEF Myfree
<1>8. InOrder'
  BY <1>1, <1>4, <1>6, <1>7 DEF HeapSound, InOrder
<1>9. /\ \A r \in live : \E i \in 1..n :
             ~list[i].free /\ list[i].addr = r.addr /\ list[i].size >= r.size
      /\ \A i \in 1..n : ~list[i].free => \E r \in live : r.addr = list[i].addr
      /\ \A r, o \in live : r.addr = o.addr => r = o
  BY <1>1 DEF HeapSound, OneForOne
<1>10. OneForOne'
  <2>1. ASSUME NEW r \in live'
        PROVE  \E i \in 1..n : ~list'[i].free /\ list'[i].addr = r.addr /\ list'[i].size >= r.size
    BY <1>4, <1>7, <1>9
  <2>2. ASSUME NEW i \in 1..n, ~list'[i].free  PROVE  \E r \in live' : r.addr = list'[i].addr
    BY <1>4, <1>7, <1>9, <2>2
  <2>3. \A r, o \in live' : r.addr = o.addr => r = o
    BY <1>7, <1>9
  <2>. QED
    BY <1>6, <2>1, <2>2, <2>3 DEF OneForOne
<1>11. live' \subseteq [addr : Nat, size : Nat] /\ IsFiniteSet(live') /\ brk' \in Nat
  BY <1>7, FS_Subset DEF HeapSound
<1>. QED
  BY <1>6, <1>8, <1>10, <1>11 DEF HeapSound

LEMMA HeapSoundKeeps ==
    ASSUME HeapSound, [HeapNext]_heapVars
    PROVE  HeapSound'
<1>1. ASSUME NEW s \in Requests, Mymalloc(s)  PROVE  HeapSound'
  <2>1. s \in Nat
    BY BestFitAssumption
  <2>. QED
    BY <1>1, <2>1, MallocKeeps
<1>2. ASSUME NEW s \in Requests, NEW n \in Counts, Mycalloc(n, s)  PROVE  HeapSound'
  <2>1. s \in Nat /\ n \in Nat
    BY BestFitAssumption
  <2>2. n * s \in Nat
    BY <2>1
  <2>. QED
    BY <1>2, <2>2, MallocKeeps DEF Mycalloc
<1>3. ASSUME NEW i \in DOMAIN list, Myfree(list[i].addr)  PROVE  HeapSound'
  BY <1>3, FreeKeeps
<1>4. CASE UNCHANGED heapVars
  <2>1. list' = list /\ brk' = brk /\ live' = live
    BY <1>4 DEF heapVars
  <2>. QED
    BY <2>1 DEF HeapSound, InOrder, OneForOne
<1>. QED
  BY <1>1, <1>2, <1>3, <1>4 DEF HeapNext

LEMMA HeapShows == HeapSound => BlocksDisjoint
<1>. SUFFICES ASSUME HeapSound  PROVE  BlocksDisjoint
  OBVIOUS
<1>1. \A i, j \in DOMAIN list : i < j => list[i].addr + list[i].size + HDR <= list[j].addr
  BY DEF HeapSound, InOrder
<1>2. /\ \A r \in live : \E i \in DOMAIN list :
           ~list[i].free /\ list[i].addr = r.addr /\ list[i].size >= r.size
      /\ \A i \in DOMAIN list : ~list[i].free => \E r \in live : r.addr = list[i].addr
      /\ \A r, o \in live : r.addr = o.addr => r = o
  BY DEF HeapSound, OneForOne
<1>3. {list[i].addr : i \in {j \in DOMAIN list : ~list[j].free}} = {r.addr : r \in live}
  BY <1>2
<1>4. PICK T : T = {r.addr : r \in live}
  OBVIOUS
<1>5. PICK f : f = [r \in live |-> r.addr]
  OBVIOUS
<1>6. f \in Surjection(live, T)
  BY <1>4, <1>5 DEF Surjection
<1>7. f \in Injection(live, T)
  <2>1. f \in [live -> T]
    BY <1>4, <1>5
  <2>2. \A r, o \in live : f[r] = f[o] => r = o
    BY <1>2, <1>5
  <2>. QED
    BY <2>1, <2>2 DEF Injection, IsInjective
<1>8. Cardinality(T) = Cardinality(live)
  BY <1>6, <1>7, FS_Surjection DEF HeapSound
<1>. QED
  BY <1>1, <1>2, <1>3, <1>4, <1>8 DEF BlocksDisjoint

(* The allocator of assignment 6 (mymalloc.c): for any sizes of requests,  *)
(* any size of the header, whatever the C library takes from the heap in   *)
(* between and whatever is freed twice, no memory is given out twice, and  *)
(* a block is taken exactly while the program holds it.                    *)
THEOREM SpecBlocksDisjoint == HeapSpec => []BlocksDisjoint
<1>1. HeapInit => HeapSound
  BY HeapStart
<1>2. HeapSound /\ [HeapNext]_heapVars => HeapSound'
  BY HeapSoundKeeps
<1>3. HeapSound => BlocksDisjoint
  BY HeapShows
<1>. QED
  BY <1>1, <1>2, <1>3, PTL DEF HeapSpec
=============================================================================

---------------------------- MODULE BcacheProofs ---------------------------
(***************************************************************************)
(* Proofs about module Bcache, for any number of processes, blocks,        *)
(* contents and buffers: what the cache and the driver promise each other. *)
(***************************************************************************)
EXTENDS Bcache, FiniteSetTheorems, SequenceTheorems, TLAPS

(* The types, and what TypeOK leaves open about them.                      *)
Types ==
    /\ blockno \in [Bufs -> Blocks \cup {NoBlock}]
    /\ valid \in [Bufs -> BOOLEAN] /\ dirty \in [Bufs -> BOOLEAN]
    /\ bad \in [Bufs -> BOOLEAN] /\ panicked \in BOOLEAN
    /\ refcnt \in [Bufs -> Nat]
    /\ owner \in [Bufs -> Procs \cup {NoProc}]
    /\ data \in [Bufs -> Vals]
    /\ disk \in [Blocks -> Vals] /\ view \in [Blocks -> Vals]
    /\ pc \in [Procs -> {"out", "lock", "locked", "asleep", "woken", "held",
                         "unlocked"}]
    /\ want \in [Procs -> Blocks \cup {NoBlock}] /\ b \in [Procs -> Bufs]

(* refcnt counts the users.                                                *)
References == \A i \in Bufs : refcnt[i] = Cardinality(Users(i))

(* The list of the buffers holds each of them once.                        *)
List == mru \in Seq(Bufs) /\ Len(mru) = NBUF /\ ToSet(mru) = Bufs

(* Between bget() and brelse() a process refers to the buffer of its block,*)
(* and it owns it from acquiresleep() to releasesleep().                   *)
Owners ==
    /\ \A p \in Procs : pc[p] # "out" => want[p] \in Blocks /\ blockno[b[p]] = want[p]
    /\ \A p \in Procs : pc[p] \in {"locked", "asleep", "woken", "held"} => owner[b[p]] = p
    /\ \A p \in Procs : pc[p] = "held" => valid[b[p]]

(* The queue of the driver: each buffer once, with a request to be served  *)
(* and a process in iderw() that will test the flags.                      *)
Different(q) == \A m, n \in 1..Len(q) : q[m] = q[n] => m = n
Requests ==
    /\ idequeue \in Seq(Bufs) /\ Different(idequeue)
    /\ \A i \in Bufs : Contains(idequeue, i) =>
          /\ dirty[i] \/ ~valid[i]
          /\ \E p \in Procs : pc[p] \in {"asleep", "woken"} /\ b[p] = i

(* A process in iderw() has its buffer in the queue, or the driver has     *)
(* done the request and woken it.                                          *)
Sleepers ==
    /\ \A p \in Procs : pc[p] = "asleep" => Contains(idequeue, b[p])
    /\ \A p \in Procs : pc[p] = "woken" /\ ~Contains(idequeue, b[p]) =>
          valid[b[p]] /\ ~dirty[b[p]]

(* The disk works on what the first buffer of the queue holds now.         *)
Active ==
    cmd = IF idequeue = << >> THEN << >>
          ELSE Command(Head(idequeue), dirty[Head(idequeue)], data[Head(idequeue)])

(* What a buffer holds is what was written last, unless its read failed.   *)
Contents ==
    /\ \A i, j \in Bufs : blockno[i] = blockno[j] /\ i # j => blockno[i] = NoBlock
    /\ \A i \in Bufs : blockno[i] = NoBlock => ~valid[i]
    /\ \A i \in Bufs : dirty[i] => valid[i] /\ ~bad[i]
    /\ \A i \in Bufs : valid[i] /\ ~bad[i] => data[i] = view[blockno[i]]

(* The dirty buffers that are not on their way to the disk are those that  *)
(* log_write() has pinned.                                                 *)
Pinned == {i \in Bufs : dirty[i] /\ ~Contains(idequeue, i)}
FewPinned == Cardinality(Pinned) <= MaxDirty

IInv ==
    /\ Types /\ References /\ List /\ Owners /\ Requests /\ Sleepers /\ Active
    /\ Contents /\ NothingLost /\ FewPinned /\ BuffersSuffice

-----------------------------------------------------------------------------
(* Operators on sequences and sets.                                        *)

(* A nonempty set of numbers has a least member, and one that is bounded   *)
(* has a greatest.                                                         *)
LEMMA LeastNumber ==
    ASSUME NEW S \in SUBSET Nat, S # {}
    PROVE  \E x \in S : \A y \in S : x <= y
<1> DEFINE R == {ss \in Nat \X Nat : ss[1] < ss[2]}
<1>1. IsWellFoundedOn(R, Nat)
  BY NatLessThanWellFounded, Zenon DEF OpToRel
<1>2. \A x, y \in Nat : x < y => <<x, y>> \in R
  OBVIOUS
<1> HIDE DEF R
<1>3. PICK x \in S : \A y \in S : ~(<<y, x>> \in R)
  BY <1>1, WFMin, Zenon
<1>4. ASSUME NEW y \in S  PROVE  x <= y
  <2>1. ~(y < x)  BY <1>2, <1>3, Zenon
  <2> QED  BY <2>1, SMT
<1> QED  BY <1>4, Zenon

LEMMA MinOfSet ==
    ASSUME NEW S \in SUBSET Nat, S # {}
    PROVE  Min(S) \in S
BY LeastNumber, Zenon DEF Min

LEMMA MaxOfSet ==
    ASSUME NEW n \in Nat, NEW S \in SUBSET (0..n), S # {}
    PROVE  Max(S) \in S
<1> DEFINE U == {m \in 0..n : n - m \in S}
<1>1. U \in SUBSET Nat
  OBVIOUS
<1>2. U # {}
  <2>1. PICK x \in S : TRUE  OBVIOUS
  <2>2. n - x \in U  BY <2>1
  <2> QED  BY <2>2
<1>3. PICK m \in U : \A y \in U : m <= y
  BY <1>1, <1>2, LeastNumber
<1>4. \A x \in S : n - x \in U
  OBVIOUS
<1>5. n - m \in S /\ \A x \in S : n - m >= x
  BY <1>3, <1>4
<1> QED  BY <1>5, Zenon DEF Max

(* Where SelectInSeq() and SelectLastInSeq() look for members of a set,    *)
(* they find one if there is one.                                          *)
LEMMA FirstIsOne ==
    ASSUME NEW S, NEW s \in Seq(S), NEW T, \E j \in 1..Len(s) : s[j] \in T
    PROVE  /\ SelectInSeq(s, LAMBDA j : j \in T) \in 1..Len(s)
           /\ s[SelectInSeq(s, LAMBDA j : j \in T)] \in T
<1> DEFINE I == {m \in 1..Len(s) : s[m] \in T}
<1>1. I # {} /\ I \in SUBSET Nat
  BY LenProperties
<1>2. Min(I) \in I
  BY <1>1, MinOfSet
<1>3. SelectInSeq(s, LAMBDA j : j \in T) = Min(I)
  BY <1>1 DEF SelectInSeq
<1> QED  BY <1>2, <1>3

LEMMA LastIsOne ==
    ASSUME NEW S, NEW s \in Seq(S), NEW T, \E j \in 1..Len(s) : s[j] \in T
    PROVE  /\ SelectLastInSeq(s, LAMBDA j : j \in T) \in 1..Len(s)
           /\ s[SelectLastInSeq(s, LAMBDA j : j \in T)] \in T
<1> DEFINE I == {m \in 1..Len(s) : s[m] \in T}
<1>1. I # {} /\ I \in SUBSET (0..Len(s)) /\ Len(s) \in Nat
  BY LenProperties
<1>2. Max(I) \in I
  BY <1>1, MaxOfSet
<1>3. SelectLastInSeq(s, LAMBDA j : j \in T) = Max(I)
  BY <1>1 DEF SelectLastInSeq
<1> QED  BY <1>2, <1>3

(* The list after brelse(): as long as before, and with the same members.  *)
LEMMA UnlinkedIs ==
    ASSUME NEW i \in Bufs, mru \in Seq(Bufs), NBUF \in Nat, Len(mru) = NBUF, ToSet(mru) = Bufs
    PROVE  /\ <<i>> \o Unlinked(i) \in Seq(Bufs)
           /\ Len(<<i>> \o Unlinked(i)) = NBUF
           /\ ToSet(<<i>> \o Unlinked(i)) = Bufs
<1> DEFINE n == SelectInSeq(mru, LAMBDA j : j = i)
           I == {m \in 1..Len(mru) : mru[m] = i}
           A == SubSeq(mru, 1, n - 1)
           B == SubSeq(mru, n + 1, Len(mru))
           L == <<i>> \o (A \o B)
<1>1. /\ Len(mru) \in Nat /\ DOMAIN mru = 1..NBUF
      /\ \A j \in Bufs : \E m \in 1..NBUF : mru[m] = j
      /\ \A m \in 1..NBUF : mru[m] \in Bufs
  BY LenProperties DEF ToSet
<1>2. I # {} /\ I \in SUBSET Nat
  BY <1>1
<1>3. Min(I) \in I
  BY <1>2, MinOfSet
<1>4. n = Min(I)
  BY <1>2 DEF SelectInSeq
<1>5. n \in 1..NBUF /\ mru[n] = i
  BY <1>3, <1>4
<1> HIDE DEF n, I
<1>6. /\ A \in Seq(Bufs) /\ Len(A) = n - 1
      /\ \A m \in 1..(n - 1) : A[m] = mru[m]
  <2>1. \A m \in 1..(n - 1) : mru[m] \in Bufs  BY <1>1, <1>5
  <2>2. n - 1 \in Int  BY <1>5
  <2>3. /\ A \in Seq(Bufs)
        /\ Len(A) = IF 1 <= n - 1 THEN (n - 1) - 1 + 1 ELSE 0
        /\ \A m \in 1..((n - 1) - 1 + 1) : A[m] = mru[1 + m - 1]
    BY <2>1, <2>2, SubSeqProperties
  <2> QED  BY <2>3, <1>5
<1>7. /\ B \in Seq(Bufs) /\ Len(B) = NBUF - n
      /\ \A m \in 1..(NBUF - n) : B[m] = mru[n + m]
  <2>1. \A m \in (n + 1)..NBUF : mru[m] \in Bufs  BY <1>1, <1>5
  <2>2. n + 1 \in Int /\ NBUF \in Int  BY <1>5
  <2>3. /\ B \in Seq(Bufs)
        /\ Len(B) = IF n + 1 <= NBUF THEN NBUF - (n + 1) + 1 ELSE 0
        /\ \A m \in 1..(NBUF - (n + 1) + 1) : B[m] = mru[(n + 1) + m - 1]
    BY <2>1, <2>2, SubSeqProperties
  <2> QED  BY <2>3, <1>5
<1> HIDE DEF A, B
<1>8. /\ A \o B \in Seq(Bufs) /\ Len(A \o B) = NBUF - 1
      /\ \A m \in 1..(NBUF - 1) : (A \o B)[m] = IF m < n THEN mru[m] ELSE mru[m + 1]
  <2>1. /\ A \o B \in Seq(Bufs) /\ Len(A \o B) = Len(A) + Len(B)
        /\ \A m \in 1..(Len(A) + Len(B)) :
              (A \o B)[m] = IF m <= Len(A) THEN A[m] ELSE B[m - Len(A)]
    BY <1>6, <1>7, ConcatProperties
  <2>2. Len(A) + Len(B) = NBUF - 1  BY <1>5, <1>6, <1>7
  <2>3. ASSUME NEW m \in 1..(NBUF - 1)
        PROVE  (A \o B)[m] = IF m < n THEN mru[m] ELSE mru[m + 1]
    <3>1. CASE m < n  BY <1>5, <1>6, <2>1, <2>2, <3>1
    <3>2. CASE m >= n
      <4>1. m - (n - 1) \in 1..(NBUF - n) /\ n + (m - (n - 1)) = m + 1
        BY <1>5, <3>2
      <4>2. B[m - (n - 1)] = mru[m + 1]  BY <1>7, <4>1
      <4>3. ~(m <= n - 1)  BY <1>5, <3>2
      <4>4. (A \o B)[m] = B[m - (n - 1)]  BY <1>6, <2>1, <2>2, <4>3
      <4>5. ~(m < n)  BY <1>5, <3>2
      <4>6. (A \o B)[m] = mru[m + 1]  BY <4>2, <4>4
      <4> QED  BY <4>5, <4>6
    <3>3. m < n \/ m >= n  BY <1>5
    <3> QED  BY <3>1, <3>2, <3>3
  <2> QED  BY <2>1, <2>2, <2>3
<1>9. /\ L \in Seq(Bufs) /\ Len(L) = NBUF /\ L[1] = i
      /\ \A m \in 2..NBUF : L[m] = (A \o B)[m - 1]
  <2>1. <<i>> \in Seq(Bufs) /\ Len(<<i>>) = 1 /\ <<i>>[1] = i
    OBVIOUS
  <2> DEFINE e == <<i>>
             c == A \o B
  <2>2. /\ e \o c \in Seq(Bufs) /\ Len(e \o c) = Len(e) + Len(c)
        /\ \A m \in 1..(Len(e) + Len(c)) :
              (e \o c)[m] = IF m <= Len(e) THEN e[m] ELSE c[m - Len(e)]
    <3> HIDE DEF e, c
    <3>1. e \in Seq(Bufs) /\ c \in Seq(Bufs)  BY <1>8, <2>1 DEF e, c
    <3> QED  BY <3>1, ConcatProperties
  <2>3. Len(e) + Len(c) = NBUF  BY <1>5, <1>8, <2>1
  <2> HIDE DEF e, c
  <2> QED  BY <1>5, <2>1, <2>2, <2>3 DEF e, c
<1> HIDE DEF L
<1>10. DOMAIN L = 1..NBUF
  BY <1>9, LenProperties
<1>11. ASSUME NEW j \in Bufs
       PROVE  \E m \in 1..NBUF : L[m] = j
  <2>1. CASE j = i  BY <1>5, <1>9, <2>1
  <2>2. CASE j # i
    <3>1. PICK m \in 1..NBUF : mru[m] = j  BY <1>1
    <3>2. m # n  BY <1>5, <2>2, <3>1
    <3>3. CASE m < n
      <4>1. m + 1 \in 2..NBUF /\ m \in 1..(NBUF - 1) /\ (m + 1) - 1 = m
        BY <1>5, <3>3
      <4>2. L[m + 1] = (A \o B)[(m + 1) - 1]  BY <1>9, <4>1
      <4>3. L[m + 1] = j  BY <1>8, <3>1, <3>3, <4>1, <4>2
      <4> QED  BY <4>1, <4>3
    <3>4. CASE m > n
      <4>1. m \in 2..NBUF /\ m - 1 \in 1..(NBUF - 1) /\ (m - 1) + 1 = m /\ ~(m - 1 < n)
        BY <1>5, <3>4
      <4>2. (A \o B)[m - 1] = mru[(m - 1) + 1]  BY <1>8, <4>1
      <4>3. L[m] = j  BY <1>9, <3>1, <4>1, <4>2
      <4> QED  BY <4>1, <4>3
    <3> QED  BY <1>5, <3>2, <3>3, <3>4
  <2> QED  BY <2>1, <2>2
<1>12. \A m \in 1..NBUF : L[m] \in Bufs
  BY <1>9, <1>10, LenProperties
<1>13. ToSet(L) = Bufs
  <2>1. ToSet(L) = {L[m] : m \in 1..NBUF}  BY <1>10 DEF ToSet
  <2> QED  BY <1>11, <1>12, <2>1
<1>14. Unlinked(i) = A \o B
  BY DEF Unlinked, RemoveAt, n, A, B
<1> QED  BY <1>9, <1>13, <1>14 DEF L

(* Putting a buffer at the end of a queue, and taking the first one off.   *)
LEMMA AppendFacts ==
    ASSUME NEW S, NEW q \in Seq(S), NEW x \in S
    PROVE  /\ Append(q, x) \in Seq(S) /\ Append(q, x) # << >>
           /\ Head(Append(q, x)) = IF q = << >> THEN x ELSE Head(q)
           /\ \A y : Contains(Append(q, x), y) <=> Contains(q, y) \/ y = x
           /\ Different(q) /\ ~Contains(q, x) => Different(Append(q, x))
<1> DEFINE a == Append(q, x)
<1>1. /\ a \in Seq(S) /\ Len(a) = Len(q) + 1 /\ a[Len(q) + 1] = x
      /\ \A m \in 1..Len(q) : a[m] = q[m]
      /\ Len(q) \in Nat
  BY AppendProperties, LenProperties
<1> HIDE DEF a
<1>2. a # << >>
  BY <1>1, EmptySeq
<1>3. Head(a) = IF q = << >> THEN x ELSE Head(q)
  <2>1. Head(a) = a[1]  BY <1>1, <1>2, HeadTailProperties
  <2>2. CASE q = << >>
    <3>1. Len(q) = 0  BY <2>2, EmptySeq
    <3> QED  BY <1>1, <2>1, <2>2, <3>1
  <2>3. CASE q # << >>
    <3>1. Len(q) \in Nat \ {0}  BY <2>3, EmptySeq
    <3>2. 1 \in 1..Len(q)  BY <3>1
    <3> QED  BY <1>1, <2>1, <2>3, <3>2
  <2> QED  BY <2>2, <2>3
<1>4. ASSUME NEW y
      PROVE  Contains(a, y) <=> Contains(q, y) \/ y = x
  <2>1. ASSUME Contains(a, y)  PROVE  Contains(q, y) \/ y = x
    <3>1. PICK m \in 1..Len(a) : a[m] = y  BY <2>1 DEF Contains
    <3>2. m \in 1..Len(q) \/ m = Len(q) + 1  BY <1>1
    <3> QED  BY <1>1, <3>1, <3>2 DEF Contains
  <2>2. ASSUME Contains(q, y)  PROVE  Contains(a, y)
    <3>1. PICK m \in 1..Len(q) : q[m] = y  BY <2>2 DEF Contains
    <3>2. m \in 1..Len(a)  BY <1>1
    <3> QED  BY <1>1, <3>1, <3>2 DEF Contains
  <2>3. Contains(a, x)
    <3>1. Len(q) + 1 \in 1..Len(a)  BY <1>1
    <3> QED  BY <1>1, <3>1 DEF Contains
  <2> QED  BY <2>1, <2>2, <2>3
<1>5. ASSUME Different(q), ~Contains(q, x)
      PROVE  Different(a)
  <2> SUFFICES ASSUME NEW m \in 1..Len(a), NEW n \in 1..Len(a), a[m] = a[n]
               PROVE  m = n
    BY DEF Different
  <2>1. /\ m \in 1..Len(q) \/ m = Len(q) + 1
        /\ n \in 1..Len(q) \/ n = Len(q) + 1
    BY <1>1
  <2>2. \A k \in 1..Len(q) : q[k] # x
    BY <1>5 DEF Contains
  <2> QED  BY <1>1, <1>5, <2>1, <2>2 DEF Different
<1> QED  BY <1>1, <1>2, <1>3, <1>4, <1>5 DEF a

LEMMA TailFacts ==
    ASSUME NEW S, NEW q \in Seq(S), q # << >>, Different(q)
    PROVE  /\ Tail(q) \in Seq(S) /\ Different(Tail(q))
           /\ Head(q) \in S /\ Contains(q, Head(q))
           /\ \A y : Contains(Tail(q), y) <=> Contains(q, y) /\ y # Head(q)
           /\ Tail(q) # << >> => Head(Tail(q)) \in S /\ Contains(Tail(q), Head(Tail(q)))
<1> DEFINE t == Tail(q)
<1>1. /\ t \in Seq(S) /\ Len(t) = Len(q) - 1 /\ Head(q) \in S
      /\ \A m \in 1..Len(t) : t[m] = q[m + 1]
      /\ Len(q) \in Nat \ {0} /\ Head(q) = q[1]
  BY HeadTailProperties, EmptySeq
<1> HIDE DEF t
<1>2. 1 \in 1..Len(q) /\ \A m \in 1..Len(t) : m + 1 \in 1..Len(q) /\ m + 1 # 1
  BY <1>1
<1>3. Different(t)
  <2> SUFFICES ASSUME NEW m \in 1..Len(t), NEW n \in 1..Len(t), t[m] = t[n]
               PROVE  m = n
    BY DEF Different
  <2>1. m + 1 = n + 1  BY <1>1, <1>2 DEF Different
  <2> QED  BY <2>1
<1>4. Contains(q, Head(q))
  BY <1>1, <1>2 DEF Contains
<1>5. ASSUME NEW y
      PROVE  Contains(t, y) <=> Contains(q, y) /\ y # Head(q)
  <2>1. ASSUME Contains(t, y)  PROVE  Contains(q, y) /\ y # Head(q)
    <3>1. PICK m \in 1..Len(t) : t[m] = y  BY <2>1 DEF Contains
    <3>2. q[m + 1] = y /\ m + 1 \in 1..Len(q) /\ m + 1 # 1  BY <1>1, <1>2, <3>1
    <3> QED  BY <1>1, <1>2, <3>2 DEF Contains, Different
  <2>2. ASSUME Contains(q, y), y # Head(q)  PROVE  Contains(t, y)
    <3>1. PICK m \in 1..Len(q) : q[m] = y  BY <2>2 DEF Contains
    <3>2. m - 1 \in 1..Len(t) /\ (m - 1) + 1 = m  BY <1>1, <2>2, <3>1
    <3>3. t[m - 1] = y  BY <1>1, <3>1, <3>2
    <3> QED  BY <3>2, <3>3 DEF Contains
  <2> QED  BY <2>1, <2>2
<1>6. ASSUME t # << >>
      PROVE  Head(t) \in S /\ Contains(t, Head(t))
  <2>1. Len(t) \in Nat \ {0} /\ Head(t) = t[1] /\ Head(t) \in S
    BY <1>1, <1>6, EmptySeq, HeadTailProperties
  <2>2. 1 \in 1..Len(t)  BY <2>1
  <2> QED  BY <2>1, <2>2 DEF Contains
<1> QED  BY <1>1, <1>3, <1>4, <1>5, <1>6 DEF t

-----------------------------------------------------------------------------
(* What follows from the invariant in every state.                         *)

(* A buffer has one owner; its requests are its owner's; a buffer that is  *)
(* referred to is not free.                                                *)
LEMMA Exclusion ==
    ASSUME NoneAssumption, SizeAssumption, IInv
    PROVE  /\ \A p, q \in Procs : /\ pc[p] \in {"locked", "asleep", "woken", "held"}
                                  /\ pc[q] \in {"locked", "asleep", "woken", "held"}
                                  /\ b[p] = b[q]
                                  => p = q
           /\ \A p \in Procs : pc[p] \in {"locked", "held"} => ~Contains(idequeue, b[p])
           /\ \A p \in Procs : pc[p] # "out" => refcnt[b[p]] # 0
           /\ \A i \in Bufs : Contains(idequeue, i) => blockno[i] \in Blocks
<1>1. \A p, q \in Procs : /\ pc[p] \in {"locked", "asleep", "woken", "held"}
                          /\ pc[q] \in {"locked", "asleep", "woken", "held"}
                          /\ b[p] = b[q]
                          => p = q
  BY DEF IInv, Owners
<1>2. \A p \in Procs : b[p] \in Bufs
  BY DEF IInv, Types
<1>3. \A p \in Procs : pc[p] \in {"locked", "held"} => ~Contains(idequeue, b[p])
  BY <1>1, <1>2 DEF IInv, Requests
<1>4. ASSUME NEW p \in Procs, pc[p] # "out"
      PROVE  refcnt[b[p]] # 0
  <2>1. p \in Users(b[p])  BY <1>4 DEF Users
  <2>2. IsFiniteSet(Users(b[p]))
    BY FS_Subset DEF NoneAssumption, Users
  <2>3. Cardinality(Users(b[p])) # 0
    BY <2>1, <2>2, FS_EmptySet
  <2> QED  BY <1>2, <2>3 DEF IInv, References
<1>5. \A i \in Bufs : Contains(idequeue, i) => blockno[i] \in Blocks
  BY DEF IInv, Requests, Owners
<1> QED  BY <1>1, <1>3, <1>4, <1>5

(* A step that takes nobody into or out of bread() ... brelse() leaves the *)
(* references alone.                                                       *)
LEMMA SameReferences ==
    ASSUME References, refcnt' = refcnt, b' = b,
           \A q \in Procs : pc'[q] = "out" <=> pc[q] = "out"
    PROVE  References'
<1>1. \A i \in Bufs : Users(i)' = Users(i)
  BY DEF Users
<1> QED  BY <1>1 DEF References

(* Fewer pinned buffers are not too many.                                  *)
LEMMA BufsFinite ==
    ASSUME SizeAssumption
    PROVE  IsFiniteSet(Bufs)
<1>1. NBUF \in Int  BY DEF SizeAssumption
<1> QED  BY <1>1, FS_Interval DEF Bufs

LEMMA FewPinnedLess ==
    ASSUME SizeAssumption, FewPinned, Pinned' \subseteq Pinned
    PROVE  FewPinned'
<1>1. IsFiniteSet(Pinned)
  BY BufsFinite, FS_Subset DEF Pinned
<1>2. /\ Cardinality(Pinned) \in Nat /\ Cardinality(Pinned') \in Nat
      /\ Cardinality(Pinned') <= Cardinality(Pinned)
  BY <1>1, FS_Subset, FS_CardinalityType
<1> QED  BY <1>2 DEF FewPinned, SizeAssumption

(* Nothing but a panic matters for BuffersSuffice.                         *)
LEMMA NoPanicStep ==
    ASSUME ~panicked, panicked' = panicked
    PROVE  BuffersSuffice'
BY DEF BuffersSuffice

(* Taking and giving back the sleep lock, the flags tested, kill().         *)
LEMMA AcquireSleepStep ==
    ASSUME NoneAssumption, SizeAssumption, IInv, NEW p \in Procs, AcquireSleep(p)
    PROVE  IInv'
<1>1. /\ Types /\ References /\ List /\ Owners /\ Requests /\ Sleepers /\ Active
      /\ Contents /\ NothingLost /\ FewPinned /\ BuffersSuffice
  BY DEF IInv
<1>2. Types'
  BY <1>1 DEF AcquireSleep, bufVars, ideVars, Goto, Types
<1>3. References'
  BY <1>1, SameReferences DEF AcquireSleep, bufVars, ideVars, Goto, Types
<1>4. List'
  BY <1>1 DEF AcquireSleep, bufVars, ideVars, Goto, List
<1>5. Owners'
  BY <1>1, Exclusion DEF AcquireSleep, Goto, Types, Owners, NoneAssumption
<1>6. Requests'
  BY <1>1, Exclusion DEF AcquireSleep, bufVars, ideVars, Goto, Types, Owners, Requests
<1>7. Sleepers'
  BY <1>1, Exclusion DEF AcquireSleep, bufVars, ideVars, Goto, Types, Owners, Sleepers
<1>8. Active'
  BY <1>1, Exclusion DEF AcquireSleep, bufVars, ideVars, Goto, Types, Active, Command
<1>9. Contents'
  BY <1>1, Exclusion DEF AcquireSleep, bufVars, ideVars, Goto, Types, Owners, Contents
<1>10. NothingLost'
  BY <1>1, Exclusion DEF AcquireSleep, bufVars, ideVars, Goto, Types, Owners, NothingLost, Cached
<1>11. FewPinned'
  BY <1>1 DEF AcquireSleep, bufVars, ideVars, Goto, FewPinned, Pinned
<1>12. BuffersSuffice'
  BY <1>1, NoPanicStep DEF AcquireSleep, bufVars, ideVars, Goto
<1> QED  BY <1>2, <1>3, <1>4, <1>5, <1>6, <1>7, <1>8, <1>9, <1>10,
            <1>11, <1>12 DEF IInv

(* bread() of a valid buffer.                                              *)
LEMMA BreadDoneStep ==
    ASSUME NoneAssumption, SizeAssumption, IInv, NEW p \in Procs, BreadDone(p)
    PROVE  IInv'
<1>1. /\ Types /\ References /\ List /\ Owners /\ Requests /\ Sleepers /\ Active
      /\ Contents /\ NothingLost /\ FewPinned /\ BuffersSuffice
  BY DEF IInv
<1>2. Types'
  BY <1>1 DEF BreadDone, bufVars, ideVars, Goto, Types
<1>3. References'
  BY <1>1, SameReferences DEF BreadDone, bufVars, ideVars, Goto, Types
<1>4. List'
  BY <1>1 DEF BreadDone, bufVars, ideVars, Goto, List
<1>5. Owners'
  BY <1>1, Exclusion DEF BreadDone, bufVars, ideVars, Goto, Types, Owners
<1>6. Requests'
  BY <1>1, Exclusion DEF BreadDone, bufVars, ideVars, Goto, Types, Owners, Requests
<1>7. Sleepers'
  BY <1>1, Exclusion DEF BreadDone, bufVars, ideVars, Goto, Types, Owners, Sleepers
<1>8. Active'
  BY <1>1, Exclusion DEF BreadDone, bufVars, ideVars, Goto, Types, Active, Command
<1>9. Contents'
  BY <1>1, Exclusion DEF BreadDone, bufVars, ideVars, Goto, Types, Owners, Contents
<1>10. NothingLost'
  BY <1>1, Exclusion DEF BreadDone, bufVars, ideVars, Goto, Types, Owners, NothingLost, Cached
<1>11. FewPinned'
  BY <1>1 DEF BreadDone, bufVars, ideVars, Goto, FewPinned, Pinned
<1>12. BuffersSuffice'
  BY <1>1, NoPanicStep DEF BreadDone, bufVars, ideVars, Goto
<1> QED  BY <1>2, <1>3, <1>4, <1>5, <1>6, <1>7, <1>8, <1>9, <1>10,
            <1>11, <1>12 DEF IInv

(* iderw() goes on only when the request has been served.                  *)
LEMMA WokenStep ==
    ASSUME NoneAssumption, SizeAssumption, IInv, NEW p \in Procs, Woken(p)
    PROVE  IInv'
<1>1. /\ Types /\ References /\ List /\ Owners /\ Requests /\ Sleepers /\ Active
      /\ Contents /\ NothingLost /\ FewPinned /\ BuffersSuffice
  BY DEF IInv
<1>2. Types'
  BY <1>1 DEF Woken, bufVars, ideVars, Goto, Types
<1>3. References'
  BY <1>1, SameReferences DEF Woken, bufVars, ideVars, Goto, Types
<1>4. List'
  BY <1>1 DEF Woken, bufVars, ideVars, Goto, List
<1>5. Owners'
  BY <1>1, Exclusion DEF Woken, bufVars, ideVars, Goto, Types, Owners
<1>6. Requests'
  BY <1>1, Exclusion DEF Woken, bufVars, ideVars, Goto, Types, Owners, Requests
<1>7. Sleepers'
  BY <1>1, Exclusion DEF Woken, bufVars, ideVars, Goto, Types, Owners, Sleepers
<1>8. Active'
  BY <1>1, Exclusion DEF Woken, bufVars, ideVars, Goto, Types, Active, Command
<1>9. Contents'
  BY <1>1, Exclusion DEF Woken, bufVars, ideVars, Goto, Types, Owners, Contents
<1>10. NothingLost'
  BY <1>1, Exclusion DEF Woken, bufVars, ideVars, Goto, Types, Owners, NothingLost, Cached
<1>11. FewPinned'
  BY <1>1 DEF Woken, bufVars, ideVars, Goto, FewPinned, Pinned
<1>12. BuffersSuffice'
  BY <1>1, NoPanicStep DEF Woken, bufVars, ideVars, Goto
<1> QED  BY <1>2, <1>3, <1>4, <1>5, <1>6, <1>7, <1>8, <1>9, <1>10,
            <1>11, <1>12 DEF IInv

(* kill() only makes a process test the flags.                             *)
LEMMA KillStep ==
    ASSUME NoneAssumption, SizeAssumption, IInv, NEW p \in Procs, Kill(p)
    PROVE  IInv'
<1>1. /\ Types /\ References /\ List /\ Owners /\ Requests /\ Sleepers /\ Active
      /\ Contents /\ NothingLost /\ FewPinned /\ BuffersSuffice
  BY DEF IInv
<1>2. Types'
  BY <1>1 DEF Kill, bufVars, ideVars, Goto, Types
<1>3. References'
  BY <1>1, SameReferences DEF Kill, bufVars, ideVars, Goto, Types
<1>4. List'
  BY <1>1 DEF Kill, bufVars, ideVars, Goto, List
<1>5. Owners'
  BY <1>1, Exclusion DEF Kill, bufVars, ideVars, Goto, Types, Owners
<1>6. Requests'
  BY <1>1, Exclusion DEF Kill, bufVars, ideVars, Goto, Types, Owners, Requests
<1>7. Sleepers'
  BY <1>1, Exclusion DEF Kill, bufVars, ideVars, Goto, Types, Owners, Sleepers
<1>8. Active'
  BY <1>1, Exclusion DEF Kill, bufVars, ideVars, Goto, Types, Active, Command
<1>9. Contents'
  BY <1>1, Exclusion DEF Kill, bufVars, ideVars, Goto, Types, Owners, Contents
<1>10. NothingLost'
  BY <1>1, Exclusion DEF Kill, bufVars, ideVars, Goto, Types, Owners, NothingLost, Cached
<1>11. FewPinned'
  BY <1>1 DEF Kill, bufVars, ideVars, Goto, FewPinned, Pinned
<1>12. BuffersSuffice'
  BY <1>1, NoPanicStep DEF Kill, bufVars, ideVars, Goto
<1> QED  BY <1>2, <1>3, <1>4, <1>5, <1>6, <1>7, <1>8, <1>9, <1>10,
            <1>11, <1>12 DEF IInv

(* releasesleep().                                                         *)
LEMMA ReleaseSleepStep ==
    ASSUME NoneAssumption, SizeAssumption, IInv, NEW p \in Procs, ReleaseSleep(p)
    PROVE  IInv'
<1>1. /\ Types /\ References /\ List /\ Owners /\ Requests /\ Sleepers /\ Active
      /\ Contents /\ NothingLost /\ FewPinned /\ BuffersSuffice
  BY DEF IInv
<1>2. Types'
  BY <1>1 DEF ReleaseSleep, bufVars, ideVars, Goto, Types
<1>3. References'
  BY <1>1, SameReferences DEF ReleaseSleep, bufVars, ideVars, Goto, Types
<1>4. List'
  BY <1>1 DEF ReleaseSleep, bufVars, ideVars, Goto, List
<1>5. Owners'
  BY <1>1, Exclusion DEF ReleaseSleep, bufVars, ideVars, Goto, Types, Owners
<1>6. Requests'
  BY <1>1, Exclusion DEF ReleaseSleep, bufVars, ideVars, Goto, Types, Owners, Requests
<1>7. Sleepers'
  BY <1>1, Exclusion DEF ReleaseSleep, bufVars, ideVars, Goto, Types, Owners, Sleepers
<1>8. Active'
  BY <1>1, Exclusion DEF ReleaseSleep, bufVars, ideVars, Goto, Types, Active, Command
<1>9. Contents'
  BY <1>1, Exclusion DEF ReleaseSleep, bufVars, ideVars, Goto, Types, Owners, Contents
<1>10. NothingLost'
  BY <1>1, Exclusion DEF ReleaseSleep, bufVars, ideVars, Goto, Types, Owners, NothingLost, Cached
<1>11. FewPinned'
  BY <1>1 DEF ReleaseSleep, bufVars, ideVars, Goto, FewPinned, Pinned
<1>12. BuffersSuffice'
  BY <1>1, NoPanicStep DEF ReleaseSleep, bufVars, ideVars, Goto
<1> QED  BY <1>2, <1>3, <1>4, <1>5, <1>6, <1>7, <1>8, <1>9, <1>10,
            <1>11, <1>12 DEF IInv

(* bread() puts a request to read at the end of the queue.                 *)
LEMMA BreadReadStep ==
    ASSUME NoneAssumption, SizeAssumption, IInv, NEW p \in Procs, BreadRead(p)
    PROVE  IInv'
<1>1. /\ Types /\ References /\ List /\ Owners /\ Requests /\ Sleepers /\ Active
      /\ Contents /\ NothingLost /\ FewPinned /\ BuffersSuffice
  BY DEF IInv
<1>2. /\ b[p] \in Bufs /\ idequeue \in Seq(Bufs) /\ Different(idequeue)
      /\ pc[p] = "locked" /\ ~valid[b[p]] /\ ~Contains(idequeue, b[p])
      /\ idequeue' = Append(idequeue, b[p])
  BY <1>1, Exclusion DEF Types, Requests, BreadRead, Iderw
<1>3. /\ idequeue' \in Seq(Bufs) /\ idequeue' # << >>
      /\ Head(idequeue') = IF idequeue = << >> THEN b[p] ELSE Head(idequeue)
      /\ \A y : Contains(idequeue', y) <=> Contains(idequeue, y) \/ y = b[p]
      /\ Different(idequeue')
  BY <1>2, AppendFacts
<1>4. Types'
  BY <1>1 DEF BreadRead, Iderw, bufVars, ideVars, Goto, Types
<1>5. References'
  BY <1>1, SameReferences DEF BreadRead, Iderw, bufVars, ideVars, Goto, Types
<1>6. List'
  BY <1>1 DEF BreadRead, Iderw, bufVars, ideVars, Goto, List
<1>7. Owners'
  BY <1>1, Exclusion DEF BreadRead, Iderw, bufVars, ideVars, Goto, Types, Owners
<1>8. Requests'
  BY <1>1, <1>2, <1>3 DEF BreadRead, Iderw, bufVars, Goto, Types, Requests
<1>9. Sleepers'
  BY <1>1, <1>3 DEF BreadRead, Iderw, bufVars, Goto, Types, Sleepers
<1>10. Active'
  BY <1>1, <1>3 DEF BreadRead, Iderw, bufVars, Active, Command
<1>11. Contents'
  BY <1>1, Exclusion DEF BreadRead, Iderw, bufVars, ideVars, Goto, Types, Owners, Contents
<1>12. NothingLost'
  BY <1>1, Exclusion DEF BreadRead, Iderw, bufVars, ideVars, Goto, Types, Owners, NothingLost, Cached
<1>13. FewPinned'
  <2>1. Pinned' = Pinned
    BY <1>1, <1>2, <1>3 DEF BreadRead, bufVars, Pinned, Contents
  <2> QED  BY <1>1, <2>1 DEF FewPinned
<1>14. BuffersSuffice'
  BY <1>1, NoPanicStep DEF BreadRead, Iderw, bufVars, ideVars, Goto
<1> QED  BY <1>4, <1>5, <1>6, <1>7, <1>8, <1>9, <1>10, <1>11, <1>12,
            <1>13, <1>14 DEF IInv

(* bwrite() puts a request to write at the end of the queue.              *)
LEMMA BwriteStep ==
    ASSUME NoneAssumption, SizeAssumption, IInv, NEW p \in Procs, NEW v \in Vals, Bwrite(p, v)
    PROVE  IInv'
<1>1. /\ Types /\ References /\ List /\ Owners /\ Requests /\ Sleepers /\ Active
      /\ Contents /\ NothingLost /\ FewPinned /\ BuffersSuffice
  BY DEF IInv
<1>2. /\ b[p] \in Bufs /\ idequeue \in Seq(Bufs) /\ Different(idequeue)
      /\ pc[p] = "held" /\ valid[b[p]] /\ ~Contains(idequeue, b[p])
      /\ want[p] \in Blocks /\ blockno[b[p]] = want[p]
      /\ idequeue' = Append(idequeue, b[p])
  BY <1>1, Exclusion DEF Types, Requests, Owners, Bwrite, Iderw
<1>3. /\ idequeue' \in Seq(Bufs) /\ idequeue' # << >>
      /\ Head(idequeue') = IF idequeue = << >> THEN b[p] ELSE Head(idequeue)
      /\ \A y : Contains(idequeue', y) <=> Contains(idequeue, y) \/ y = b[p]
      /\ Different(idequeue')
  BY <1>2, AppendFacts
<1>4. idequeue # << >> => Head(idequeue) \in Bufs /\ Head(idequeue) # b[p]
  BY <1>2, TailFacts
<1>5. \A i \in Bufs : blockno[i] = want[p] => i = b[p]
  BY <1>1, <1>2 DEF Contents, NoneAssumption
<1>6. Types'
  BY <1>1 DEF Bwrite, Iderw, bufVars, ideVars, Goto, Types
<1>7. References'
  BY <1>1, SameReferences DEF Bwrite, Iderw, bufVars, ideVars, Goto, Types
<1>8. List'
  BY <1>1 DEF Bwrite, Iderw, bufVars, ideVars, Goto, List
<1>9. Owners'
  BY <1>1, Exclusion DEF Bwrite, Iderw, bufVars, ideVars, Goto, Types, Owners
<1>10. Requests'
  BY <1>1, <1>2, <1>3 DEF Bwrite, Iderw, bufVars, Goto, Types, Requests
<1>11. Sleepers'
  BY <1>1, <1>2, <1>3, Exclusion DEF Bwrite, Iderw, bufVars, Goto, Types, Sleepers
<1>12. Active'
  BY <1>1, <1>2, <1>3, <1>4 DEF Bwrite, Iderw, Active, Command, Types
<1>13. Contents'
  BY <1>1, <1>2, <1>5 DEF Bwrite, Types, Contents
<1>14. NothingLost'
  BY <1>1, <1>2, <1>5 DEF Bwrite, Types, NothingLost, Cached
<1>15. FewPinned'
  <2>1. Pinned' \subseteq Pinned
    BY <1>1, <1>2, <1>3 DEF Bwrite, Pinned, Types
  <2> QED  BY <1>1, <2>1, FewPinnedLess DEF FewPinned
<1>16. BuffersSuffice'
  BY <1>1, NoPanicStep DEF Bwrite, Iderw, bufVars, ideVars, Goto
<1> QED  BY <1>6, <1>7, <1>8, <1>9, <1>10, <1>11, <1>12, <1>13, <1>14,
            <1>15, <1>16 DEF IInv

(* log_write() pins the buffer.                                            *)
LEMMA LogWriteStep ==
    ASSUME NoneAssumption, SizeAssumption, IInv, NEW p \in Procs, NEW v \in Vals, LogWrite(p, v)
    PROVE  IInv'
<1>1. /\ Types /\ References /\ List /\ Owners /\ Requests /\ Sleepers /\ Active
      /\ Contents /\ NothingLost /\ FewPinned /\ BuffersSuffice
  BY DEF IInv
<1>2. /\ b[p] \in Bufs /\ idequeue \in Seq(Bufs) /\ Different(idequeue)
      /\ pc[p] = "held" /\ valid[b[p]] /\ ~Contains(idequeue, b[p])
      /\ want[p] \in Blocks /\ blockno[b[p]] = want[p]
  BY <1>1, Exclusion DEF Types, Requests, Owners, LogWrite
<1>3. idequeue # << >> => Head(idequeue) \in Bufs /\ Head(idequeue) # b[p]
  BY <1>2, TailFacts
<1>4. \A i \in Bufs : blockno[i] = want[p] => i = b[p]
  BY <1>1, <1>2 DEF Contents, NoneAssumption
<1>5. Types'
  BY <1>1 DEF LogWrite, bufVars, ideVars, Goto, Types
<1>6. References'
  BY <1>1, SameReferences DEF LogWrite, bufVars, ideVars, Goto, Types
<1>7. List'
  BY <1>1 DEF LogWrite, bufVars, ideVars, Goto, List
<1>8. Owners'
  BY <1>1, Exclusion DEF LogWrite, bufVars, ideVars, Goto, Types, Owners
<1>9. Requests'
  BY <1>1, Exclusion DEF LogWrite, bufVars, ideVars, Goto, Types, Owners, Requests
<1>10. Sleepers'
  BY <1>1, Exclusion DEF LogWrite, bufVars, ideVars, Goto, Types, Owners, Sleepers
<1>11. Active'
  BY <1>1, <1>2, <1>3 DEF LogWrite, Active, Command, Types, ideVars
<1>12. Contents'
  BY <1>1, <1>2, <1>4 DEF LogWrite, Types, Contents
<1>13. NothingLost'
  BY <1>1, <1>2, <1>4 DEF LogWrite, Types, NothingLost, Cached, ideVars
<1>14. FewPinned'
  <2> DEFINE D == {i \in Bufs : dirty[i]} \cup {b[p]}
  <2>1. Pinned' \subseteq D
    BY <1>1, <1>2 DEF LogWrite, Pinned, Types
  <2>2. IsFiniteSet(D) /\ Cardinality(D) <= MaxDirty
    <3>1. D \subseteq Bufs  BY <1>2
    <3> QED  BY <3>1, BufsFinite, FS_Subset DEF LogWrite
  <2>3. Cardinality(Pinned') <= Cardinality(D) /\ Cardinality(D) \in Nat /\ Cardinality(Pinned') \in Nat
    BY <2>1, <2>2, FS_Subset, FS_CardinalityType
  <2> QED  BY <2>2, <2>3 DEF FewPinned, SizeAssumption
<1>15. BuffersSuffice'
  BY <1>1, NoPanicStep DEF LogWrite, bufVars, ideVars, Goto
<1> QED  BY <1>5, <1>6, <1>7, <1>8, <1>9, <1>10, <1>11, <1>12, <1>13,
            <1>14, <1>15 DEF IInv

(* Entering and leaving bread() ... brelse().                              *)
LEMMA Enter ==
    ASSUME NoneAssumption, Types, References, NEW p \in Procs, NEW i \in Bufs,
           pc[p] = "out", pc' = [pc EXCEPT ![p] = "lock"], b' = [b EXCEPT ![p] = i]
    PROVE  /\ Cardinality(Users(i)') = refcnt[i] + 1
           /\ \A j \in Bufs : j # i => Cardinality(Users(j)') = refcnt[j]
<1>1. Users(i)' = Users(i) \cup {p} /\ p \notin Users(i)
  BY DEF Users, Types
<1>2. \A j \in Bufs : j # i => Users(j)' = Users(j)
  BY DEF Users, Types
<1>3. IsFiniteSet(Users(i))
  BY FS_Subset DEF NoneAssumption, Users
<1>4. Cardinality(Users(i) \cup {p}) = Cardinality(Users(i)) + 1
  BY <1>1, <1>3, FS_AddElement
<1> QED  BY <1>1, <1>2, <1>4 DEF References

LEMMA Leave ==
    ASSUME NoneAssumption, Types, References, NEW p \in Procs,
           pc[p] # "out", pc' = [pc EXCEPT ![p] = "out"], b' = b
    PROVE  /\ Cardinality(Users(b[p])') = refcnt[b[p]] - 1
           /\ \A j \in Bufs : j # b[p] => Cardinality(Users(j)') = refcnt[j]
<1>1. Users(b[p])' = Users(b[p]) \ {p} /\ p \in Users(b[p]) /\ b[p] \in Bufs
  BY DEF Users, Types
<1>2. \A j \in Bufs : j # b[p] => Users(j)' = Users(j)
  BY DEF Users, Types
<1>3. IsFiniteSet(Users(b[p]))
  BY FS_Subset DEF NoneAssumption, Users
<1>4. Cardinality(Users(b[p]) \ {p}) = Cardinality(Users(b[p])) - 1
  BY <1>1, <1>3, FS_RemoveElement
<1> QED  BY <1>1, <1>2, <1>4 DEF References

(* bget() of a cached block.                                              *)
LEMMA BgetHitStep ==
    ASSUME NoneAssumption, SizeAssumption, IInv, NEW p \in Procs, NEW k \in Blocks, BgetHit(p, k)
    PROVE  IInv'
<1>1. /\ Types /\ References /\ List /\ Owners /\ Requests /\ Sleepers /\ Active
      /\ Contents /\ NothingLost /\ FewPinned /\ BuffersSuffice
  BY DEF IInv
<1>2. Cached(k) \subseteq Bufs /\ Cached(k) # {}
  BY DEF BgetHit, Cached
<1>3. PICK i \in Cached(k) : i = mru[SelectInSeq(mru, LAMBDA j : j \in Cached(k))]
  <2>1. \E n \in 1..Len(mru) : mru[n] \in Cached(k)
    <3>1. PICK j \in Cached(k) : TRUE  BY <1>2
    <3>2. j \in ToSet(mru) /\ DOMAIN mru = 1..Len(mru)
      BY <1>1, <1>2, <3>1, LenProperties DEF List
    <3> QED  BY <3>1, <3>2 DEF ToSet
  <2> QED  BY <1>1, <2>1, FirstIsOne DEF List
<1>4. /\ pc[p] = "out" /\ i \in Bufs /\ blockno[i] = k
      /\ refcnt' = [refcnt EXCEPT ![i] = @ + 1] /\ b' = [b EXCEPT ![p] = i]
      /\ want' = [want EXCEPT ![p] = k] /\ pc' = [pc EXCEPT ![p] = "lock"]
      /\ UNCHANGED <<blockno, valid, dirty, owner, data, mru, idequeue, cmd, disk,
                     panicked, view, bad>>
      /\ ~panicked
  BY <1>2, <1>3 DEF BgetHit, Goto, ideVars, Cached
<1>5. Types'
  BY <1>1, <1>4 DEF Types
<1>6. References'
  BY <1>1, <1>4, Enter DEF Types, References
<1>7. List'
  BY <1>1, <1>4 DEF List
<1>8. Owners'
  BY <1>1, <1>4 DEF Types, Owners
<1>9. Requests'
  BY <1>1, <1>4 DEF Types, Requests
<1>10. Sleepers'
  BY <1>1, <1>4 DEF Types, Sleepers
<1>11. Active'
  BY <1>1, <1>4 DEF Active, Command
<1>12. Contents'
  BY <1>1, <1>4 DEF Contents
<1>13. NothingLost'
  BY <1>1, <1>4 DEF NothingLost, Cached
<1>14. FewPinned'
  BY <1>1, <1>4 DEF FewPinned, Pinned
<1>15. BuffersSuffice'
  BY <1>1, <1>4, NoPanicStep
<1> QED  BY <1>5, <1>6, <1>7, <1>8, <1>9, <1>10, <1>11, <1>12, <1>13,
            <1>14, <1>15 DEF IInv

(* bget() recycles a buffer that nobody uses and that is not dirty.        *)
LEMMA BgetMissStep ==
    ASSUME NoneAssumption, SizeAssumption, IInv, NEW p \in Procs, NEW k \in Blocks, Free # {},
           BgetMiss(p, k)
    PROVE  IInv'
<1>1. /\ Types /\ References /\ List /\ Owners /\ Requests /\ Sleepers /\ Active
      /\ Contents /\ NothingLost /\ FewPinned /\ BuffersSuffice
  BY DEF IInv
<1>2. Free \subseteq Bufs /\ Free # {}
  BY DEF BgetMiss, Free
<1>3. PICK i \in Free : i = mru[SelectLastInSeq(mru, LAMBDA j : j \in Free)]
  <2>1. \E n \in 1..Len(mru) : mru[n] \in Free
    <3>1. PICK j \in Free : TRUE  BY <1>2
    <3>2. j \in ToSet(mru) /\ DOMAIN mru = 1..Len(mru)
      BY <1>1, <1>2, <3>1, LenProperties DEF List
    <3> QED  BY <3>1, <3>2 DEF ToSet
  <2> QED  BY <1>1, <2>1, LastIsOne DEF List
<1>4. /\ pc[p] = "out" /\ i \in Bufs /\ Cached(k) = {} /\ refcnt[i] = 0 /\ ~dirty[i]
      /\ blockno' = [blockno EXCEPT ![i] = k] /\ valid' = [valid EXCEPT ![i] = FALSE]
      /\ dirty' = [dirty EXCEPT ![i] = FALSE] /\ refcnt' = [refcnt EXCEPT ![i] = 1]
      /\ bad' = [bad EXCEPT ![i] = FALSE] /\ b' = [b EXCEPT ![p] = i]
      /\ want' = [want EXCEPT ![p] = k] /\ pc' = [pc EXCEPT ![p] = "lock"]
      /\ UNCHANGED <<owner, data, mru, idequeue, cmd, disk, panicked, view>>
      /\ ~panicked
  BY <1>2, <1>3 DEF BgetMiss, Goto, ideVars, Free
<1>5. \A q \in Procs : pc[q] # "out" => b[q] # i
  BY <1>4, Exclusion
<1>6. ~Contains(idequeue, i)
  BY <1>1, <1>4, <1>5 DEF Requests
<1>7. idequeue # << >> => Head(idequeue) \in Bufs /\ Head(idequeue) # i
  BY <1>1, <1>6, TailFacts DEF Requests
<1>8. \A j \in Bufs : blockno[j] # k
  BY <1>4 DEF Cached
<1>9. Types'
  BY <1>1, <1>4 DEF Types
<1>10. References'
  <2>1. /\ Cardinality(Users(i)') = refcnt[i] + 1
        /\ \A j \in Bufs : j # i => Cardinality(Users(j)') = refcnt[j]
    BY <1>1, <1>4, Enter
  <2>2. Cardinality(Users(i)') = 1  BY <1>4, <2>1
  <2> QED  BY <1>1, <1>4, <2>1, <2>2 DEF Types, References
<1>11. List'
  BY <1>1, <1>4 DEF List
<1>12. Owners'
  BY <1>1, <1>4, <1>5 DEF Types, Owners
<1>13. Requests'
  BY <1>1, <1>4, <1>6 DEF Types, Requests
<1>14. Sleepers'
  BY <1>1, <1>4, <1>5 DEF Types, Sleepers
<1>15. Active'
  BY <1>1, <1>4, <1>7 DEF Types, Active, Command
<1>16. Contents'
  BY <1>1, <1>4, <1>8 DEF Types, Contents, NoneAssumption
<1>17. NothingLost'
  BY <1>1, <1>4 DEF Types, NothingLost, Cached
<1>18. FewPinned'
  <2>1. Pinned' = Pinned
    BY <1>1, <1>4 DEF Pinned, Types
  <2> QED  BY <1>1, <2>1 DEF FewPinned
<1>19. BuffersSuffice'
  BY <1>1, <1>4, NoPanicStep
<1> QED  BY <1>9, <1>10, <1>11, <1>12, <1>13, <1>14, <1>15, <1>16, <1>17,
            <1>18, <1>19 DEF IInv

(* brelse() drops the reference and moves the buffer to the head.          *)
LEMMA BrelseStep ==
    ASSUME NoneAssumption, SizeAssumption, IInv, NEW p \in Procs, Brelse(p)
    PROVE  IInv'
<1>1. /\ Types /\ References /\ List /\ Owners /\ Requests /\ Sleepers /\ Active
      /\ Contents /\ NothingLost /\ FewPinned /\ BuffersSuffice
  BY DEF IInv
<1>2. /\ pc[p] = "unlocked" /\ b[p] \in Bufs /\ refcnt[b[p]] \in Nat \ {0}
      /\ refcnt' = [refcnt EXCEPT ![b[p]] = @ - 1]
      /\ want' = [want EXCEPT ![p] = NoBlock] /\ pc' = [pc EXCEPT ![p] = "out"]
      /\ mru' \in {mru, <<b[p]>> \o Unlinked(b[p])}
      /\ UNCHANGED <<blockno, valid, dirty, owner, data, idequeue, cmd, disk, b,
                     panicked, view, bad>>
      /\ ~panicked
  BY <1>1, Exclusion DEF Brelse, Goto, ideVars, Types
<1>3. Types'
  BY <1>1, <1>2 DEF Types
<1>4. References'
  BY <1>1, <1>2, Leave DEF Types, References
<1>5. List'
  <2>1. CASE mru' = mru  BY <1>1, <2>1 DEF List
  <2>2. CASE mru' = <<b[p]>> \o Unlinked(b[p])
    BY <1>1, <1>2, <2>2, UnlinkedIs DEF List, SizeAssumption
  <2> QED  BY <1>2, <2>1, <2>2
<1>6. Owners'
  BY <1>1, <1>2 DEF Types, Owners
<1>7. Requests'
  BY <1>1, <1>2 DEF Types, Requests
<1>8. Sleepers'
  BY <1>1, <1>2 DEF Types, Sleepers
<1>9. Active'
  BY <1>1, <1>2 DEF Active, Command
<1>10. Contents'
  BY <1>1, <1>2 DEF Contents
<1>11. NothingLost'
  BY <1>1, <1>2 DEF NothingLost, Cached
<1>12. FewPinned'
  BY <1>1, <1>2 DEF FewPinned, Pinned
<1>13. BuffersSuffice'
  BY <1>1, <1>2, NoPanicStep
<1> QED  BY <1>3, <1>4, <1>5, <1>6, <1>7, <1>8, <1>9, <1>10, <1>11,
            <1>12, <1>13 DEF IInv

(* ideintr(): the first request is done, and the next one begins.          *)
LEMMA IdeintrStep ==
    ASSUME NoneAssumption, SizeAssumption, IInv, Ideintr
    PROVE  IInv'
<1>1. /\ Types /\ References /\ List /\ Owners /\ Requests /\ Sleepers /\ Active
      /\ Contents /\ NothingLost /\ FewPinned /\ BuffersSuffice
  BY DEF IInv
<1> DEFINE i == Head(idequeue)
           rest == Tail(idequeue)
<1>2. /\ idequeue \in Seq(Bufs) /\ Different(idequeue) /\ idequeue # << >> /\ ~panicked
      /\ idequeue' = rest
      /\ valid' = [valid EXCEPT ![i] = TRUE] /\ dirty' = [dirty EXCEPT ![i] = FALSE]
      /\ pc' = [p \in Procs |-> IF pc[p] = "asleep" /\ b[p] = i THEN "woken" ELSE pc[p]]
      /\ cmd' = IF rest = << >> THEN << >>
                ELSE Command(Head(rest), dirty[Head(rest)], data[Head(rest)])
      /\ UNCHANGED <<blockno, refcnt, owner, mru, want, b, panicked, view>>
  BY <1>1 DEF Ideintr, Requests
<1>3. PICK error \in IF dirty[i] THEN {FALSE} ELSE BOOLEAN :
        /\ disk' = IF cmd[1].op = "write" THEN [disk EXCEPT ![cmd[1].blk] = cmd[1].val]
                   ELSE disk
        /\ data' = IF dirty[i] \/ error THEN data
                   ELSE [data EXCEPT ![i] = disk[cmd[1].blk]]
        /\ bad' = [bad EXCEPT ![i] = error]
  BY DEF Ideintr
<1>4. /\ rest \in Seq(Bufs) /\ Different(rest) /\ i \in Bufs /\ Contains(idequeue, i)
      /\ \A y : Contains(rest, y) <=> Contains(idequeue, y) /\ y # i
      /\ rest # << >> => Head(rest) \in Bufs /\ Contains(rest, Head(rest))
  BY <1>2, TailFacts
<1>5. blockno[i] \in Blocks /\ error \in BOOLEAN /\ (dirty[i] => ~error)
  BY <1>3, <1>4, Exclusion
<1>6. cmd[1] = [op |-> IF dirty[i] THEN "write" ELSE "read", blk |-> blockno[i],
                val |-> data[i]]
  BY <1>1, <1>2 DEF Active, Command
<1>7. /\ dirty[i] => disk' = [disk EXCEPT ![blockno[i]] = data[i]] /\ data' = data
      /\ ~dirty[i] => disk' = disk
      /\ ~dirty[i] /\ error => data' = data
      /\ ~dirty[i] /\ ~error => data' = [data EXCEPT ![i] = disk[blockno[i]]]
  BY <1>3, <1>5, <1>6
<1>8. PICK p \in Procs : pc[p] \in {"asleep", "woken"} /\ b[p] = i
  BY <1>1, <1>4 DEF Requests
<1>9. \A j \in Bufs : blockno[j] = blockno[i] => j = i
  BY <1>1, <1>4, <1>5 DEF Contents, NoneAssumption
<1> HIDE DEF i, rest
<1>10. Types'
  <2>1. disk' \in [Blocks -> Vals]  BY <1>1, <1>4, <1>5, <1>7 DEF Types
  <2>2. data' \in [Bufs -> Vals]  BY <1>1, <1>4, <1>5, <1>7 DEF Types
  <2>3. bad' \in [Bufs -> BOOLEAN]  BY <1>1, <1>3, <1>4, <1>5 DEF Types
  <2>4. pc' \in [Procs -> {"out", "lock", "locked", "asleep", "woken", "held", "unlocked"}]
    BY <1>1, <1>2 DEF Types
  <2>5. valid' \in [Bufs -> BOOLEAN] /\ dirty' \in [Bufs -> BOOLEAN]
    BY <1>1, <1>2, <1>4 DEF Types
  <2> QED  BY <1>1, <1>2, <2>1, <2>2, <2>3, <2>4, <2>5 DEF Types
<1>11. References'
  BY <1>1, <1>2, SameReferences DEF Types
<1>12. List'
  BY <1>1, <1>2 DEF List
<1>13. Owners'
  BY <1>1, <1>2, <1>4 DEF Types, Owners
<1>14. Requests'
  BY <1>1, <1>2, <1>4 DEF Types, Requests
<1>15. Sleepers'
  BY <1>1, <1>2, <1>4 DEF Types, Sleepers
<1>16. Active'
  BY <1>1, <1>2, <1>4, <1>7 DEF Types, Active, Command
<1>17. Contents'
  <2>1. ~dirty[i] => disk[blockno[i]] = view[blockno[i]]
    BY <1>1, <1>4, <1>5, <1>9 DEF NothingLost, Cached
  <2>2. ASSUME NEW j \in Bufs, valid'[j], ~bad'[j]
        PROVE  data'[j] = view'[blockno'[j]]
    <3>1. CASE j # i
      <4>1. valid[j] /\ ~bad[j] /\ data'[j] = data[j]
        BY <1>1, <1>2, <1>3, <1>4, <1>5, <1>7, <2>2, <3>1 DEF Types
      <4> QED  BY <1>1, <1>2, <4>1 DEF Contents
    <3>2. CASE j = i
      <4>1. ~error  BY <1>1, <1>3, <1>4, <2>2, <3>2 DEF Types
      <4>2. CASE dirty[i]  BY <1>1, <1>2, <1>4, <1>7, <3>2, <4>2 DEF Contents
      <4>3. CASE ~dirty[i]
        <5>1. data'[i] = disk[blockno[i]]  BY <1>1, <1>4, <1>7, <4>1, <4>3 DEF Types
        <5> QED  BY <1>2, <2>1, <3>2, <4>3, <5>1
      <4> QED  BY <4>2, <4>3
    <3> QED  BY <3>1, <3>2
  <2>3. \A j \in Bufs : dirty'[j] => valid'[j] /\ ~bad'[j]
    BY <1>1, <1>2, <1>3, <1>4, <1>5 DEF Types, Contents
  <2>4. \A j \in Bufs : blockno'[j] = NoBlock => ~valid'[j]
    BY <1>1, <1>2, <1>4, <1>5 DEF Types, Contents, NoneAssumption
  <2> QED  BY <1>1, <1>2, <2>2, <2>3, <2>4 DEF Contents
<1>18. NothingLost'
  <2> SUFFICES ASSUME NEW k \in Blocks, disk'[k] # view'[k]
               PROVE  \E j \in Bufs : blockno'[j] = k /\ dirty'[j] /\ data'[j] = view'[k]
    BY DEF NothingLost, Cached
  <2>1. disk[k] # view[k]
    <3>1. CASE k = blockno[i] /\ dirty[i]
      <4>1. disk'[k] = data[i]  BY <1>1, <1>5, <1>7, <3>1 DEF Types
      <4>2. data[i] = view[k]  BY <1>1, <1>4, <3>1 DEF Contents
      <4> QED  BY <1>2, <4>1, <4>2
    <3>2. CASE ~(k = blockno[i] /\ dirty[i])
      BY <1>1, <1>2, <1>5, <1>7, <3>2 DEF Types
    <3> QED  BY <3>1, <3>2
  <2>2. PICK j \in Bufs : blockno[j] = k /\ dirty[j] /\ data[j] = view[k]
    BY <1>1, <2>1 DEF NothingLost, Cached
  <2>3. j # i
    <3> SUFFICES ASSUME j = i  PROVE FALSE
      OBVIOUS
    <3>1. disk'[k] = data[i]  BY <1>1, <1>5, <1>7, <2>2 DEF Types
    <3> QED  BY <1>2, <2>2, <3>1
  <2>4. data'[j] = data[j] /\ dirty'[j] /\ blockno'[j] = k
    BY <1>1, <1>2, <1>4, <1>5, <1>7, <2>2, <2>3 DEF Types
  <2> QED  BY <1>2, <2>2, <2>4
<1>19. FewPinned'
  <2>1. Pinned' \subseteq Pinned
    BY <1>1, <1>2, <1>4 DEF Pinned, Types
  <2> QED  BY <1>1, <2>1, FewPinnedLess DEF FewPinned
<1>20. BuffersSuffice'
  BY <1>1, <1>2, NoPanicStep
<1> QED  BY <1>10, <1>11, <1>12, <1>13, <1>14, <1>15, <1>16, <1>17, <1>18,
            <1>19, <1>20 DEF IInv

(* panic("bget: no buffers"): every buffer is pinned or in somebody's use. *)
LEMMA BgetPanicStep ==
    ASSUME NoneAssumption, SizeAssumption, IInv, NEW p \in Procs, NEW k \in Blocks, Free = {},
           BgetMiss(p, k)
    PROVE  IInv'
<1> DEFINE Inside == {q \in Procs : pc[q] # "out"}
           InUse == {b[q] : q \in Inside}
<1>1. /\ Types /\ References /\ List /\ Owners /\ Requests /\ Sleepers /\ Active
      /\ Contents /\ NothingLost /\ FewPinned
  BY DEF IInv
<1>2. /\ panicked' = TRUE
      /\ UNCHANGED <<blockno, valid, dirty, refcnt, owner, data, mru, idequeue, cmd, disk,
                     pc, want, b, view, bad>>
  BY DEF BgetMiss, ideVars
<1>3. Bufs \subseteq Pinned \cup InUse
  <2> SUFFICES ASSUME NEW i \in Bufs, i \notin Pinned
               PROVE  i \in InUse
    OBVIOUS
  <2>1. CASE Contains(idequeue, i)
    <3>1. PICK q \in Procs : pc[q] \in {"asleep", "woken"} /\ b[q] = i
      BY <1>1, <2>1 DEF Requests
    <3> QED  BY <3>1
  <2>2. CASE ~Contains(idequeue, i)
    <3>1. refcnt[i] # 0  BY <2>2 DEF Free, Pinned
    <3>2. Cardinality(Users(i)) # 0  BY <1>1, <3>1 DEF References
    <3>3. Users(i) # {}  BY <3>2, FS_EmptySet
    <3> QED  BY <3>3 DEF Users
  <2> QED  BY <2>1, <2>2
<1>4. IsFiniteSet(Inside) /\ Cardinality(Inside) \in Nat
  <2>1. IsFiniteSet(Inside)  BY FS_Subset DEF NoneAssumption
  <2> QED  BY <2>1, FS_CardinalityType
<1>5. IsFiniteSet(InUse) /\ Cardinality(InUse) <= Cardinality(Inside)
  <2> DEFINE f == [q \in Inside |-> b[q]]
  <2>1. f \in Surjection(Inside, InUse)
    BY DEF Surjection
  <2> HIDE DEF f, Inside, InUse
  <2> QED  BY <1>4, <2>1, FS_Surjection
<1>6. IsFiniteSet(Pinned)
  BY BufsFinite, FS_Subset DEF Pinned
<1>7. /\ IsFiniteSet(Pinned \cup InUse)
      /\ Cardinality(Pinned \cup InUse) <= Cardinality(Pinned) + Cardinality(InUse)
  <2> HIDE DEF InUse
  <2>1. /\ IsFiniteSet(Pinned \cup InUse) /\ IsFiniteSet(Pinned \cap InUse)
        /\ Cardinality(Pinned \cup InUse) =
              Cardinality(Pinned) + Cardinality(InUse) - Cardinality(Pinned \cap InUse)
    BY <1>5, <1>6, FS_Union, FS_Subset
  <2>2. /\ Cardinality(Pinned) \in Nat /\ Cardinality(InUse) \in Nat
        /\ Cardinality(Pinned \cap InUse) \in Nat
    BY <1>5, <1>6, <2>1, FS_CardinalityType
  <2> QED  BY <2>1, <2>2
<1>8. NBUF <= MaxDirty + Cardinality(Inside)
  <2>1. Cardinality(Bufs) = NBUF
    <3>1. NBUF \in Int /\ NBUF > 0  BY DEF SizeAssumption
    <3> QED  BY <3>1, FS_Interval DEF Bufs
  <2> HIDE DEF Inside, InUse
  <2>2. Cardinality(Bufs) <= Cardinality(Pinned \cup InUse)
    BY <1>3, <1>7, FS_Subset
  <2>3. /\ Cardinality(Pinned) \in Nat /\ Cardinality(InUse) \in Nat
        /\ Cardinality(Pinned \cup InUse) \in Nat
    BY <1>5, <1>6, <1>7, FS_CardinalityType
  <2> QED  BY <1>1, <1>4, <1>5, <1>7, <2>1, <2>2, <2>3 DEF FewPinned, SizeAssumption
<1>9. BuffersSuffice'
  BY <1>2, <1>8 DEF BuffersSuffice
<1>10. References'
  BY <1>1, <1>2, SameReferences
<1>11. Types' /\ List' /\ Owners' /\ Requests' /\ Sleepers'
  BY <1>1, <1>2 DEF Types, List, Owners, Requests, Sleepers
<1>12. Active' /\ Contents' /\ NothingLost' /\ FewPinned'
  BY <1>1, <1>2 DEF Active, Command, Contents, NothingLost, Cached, FewPinned, Pinned
<1> QED  BY <1>9, <1>10, <1>11, <1>12 DEF IInv

-----------------------------------------------------------------------------
LEMMA InitIInv ==
    ASSUME NoneAssumption, SizeAssumption, Init
    PROVE  IInv
<1>1. NBUF \in Nat \ {0} /\ MaxDirty \in Nat /\ 1 \in Bufs
  BY DEF SizeAssumption, Bufs
<1>2. Types
  <2>1. PICK v \in Vals : data = [i \in Bufs |-> v]  BY DEF Init
  <2> QED  BY <1>1, <2>1 DEF Init, Types
<1>3. References
  <2>1. \A i \in Bufs : Users(i) = {}  BY DEF Init, Users
  <2> QED  BY <2>1, FS_EmptySet DEF Init, References
<1>4. List
  <2>1. mru = [i \in 1..NBUF |-> NBUF + 1 - i]  BY DEF Init, Bufs
  <2>2. mru \in [1..NBUF -> Bufs]  BY <1>1, <2>1 DEF Bufs
  <2>3. mru \in Seq(Bufs)  BY <1>1, <2>2, SeqDef
  <2>4. Len(mru) = NBUF  BY <1>1, <2>2, <2>3, LenProperties
  <2>5. ASSUME NEW j \in Bufs
        PROVE  \E i \in 1..NBUF : mru[i] = j
    <3>1. NBUF + 1 - j \in 1..NBUF  BY <1>1 DEF Bufs
    <3>2. mru[NBUF + 1 - j] = j  BY <1>1, <2>1, <3>1 DEF Bufs
    <3> QED  BY <3>1, <3>2
  <2>6. ToSet(mru) = {mru[i] : i \in 1..NBUF}  BY <2>2 DEF ToSet
  <2>7. \A i \in 1..NBUF : mru[i] \in Bufs  BY <2>2
  <2>8. ToSet(mru) = Bufs  BY <2>5, <2>6, <2>7
  <2> QED  BY <2>3, <2>4, <2>8 DEF List
<1>5. \A i : ~Contains(idequeue, i)
  <2>1. Len(idequeue) = 0  BY EmptySeq DEF Init
  <2> QED  BY <2>1 DEF Contains
<1>6. idequeue \in Seq(Bufs) /\ Different(idequeue)
  <2>1. idequeue \in Seq(Bufs) /\ Len(idequeue) = 0  BY EmptySeq DEF Init
  <2> QED  BY <2>1 DEF Different
<1>7. Owners /\ Requests /\ Sleepers /\ Active
  BY <1>5, <1>6 DEF Init, Owners, Requests, Sleepers, Active
<1>8. Contents /\ NothingLost
  BY DEF Init, Contents, NothingLost
<1>9. FewPinned
  <2>1. Pinned = {}  BY DEF Init, Pinned
  <2> QED  BY <1>1, <2>1, FS_EmptySet DEF FewPinned
<1>10. BuffersSuffice
  BY DEF Init, BuffersSuffice
<1> QED  BY <1>2, <1>3, <1>4, <1>7, <1>8, <1>9, <1>10 DEF IInv

LEMMA IInvStep ==
    ASSUME NoneAssumption, SizeAssumption, IInv, [Next]_vars
    PROVE  IInv'
<1>1. CASE UNCHANGED vars
  <2>1. References'  BY <1>1, SameReferences DEF IInv, vars
  <2>2. Types' /\ List' /\ Owners' /\ Requests' /\ Sleepers'
    BY <1>1 DEF IInv, vars, Types, List, Owners, Requests, Sleepers
  <2>3. Active' /\ Contents' /\ NothingLost' /\ FewPinned' /\ BuffersSuffice'
    BY <1>1 DEF IInv, vars, Active, Command, Contents, NothingLost, Cached, FewPinned,
                Pinned, BuffersSuffice
  <2> QED  BY <2>1, <2>2, <2>3 DEF IInv
<1>2. CASE Ideintr
  BY <1>2, IdeintrStep
<1>3. ASSUME NEW p \in Procs, NEW k \in Blocks, BgetHit(p, k) \/ BgetMiss(p, k)
      PROVE  IInv'
  BY <1>3, BgetHitStep, BgetMissStep, BgetPanicStep
<1>4. ASSUME NEW p \in Procs,
             AcquireSleep(p) \/ BreadDone(p) \/ BreadRead(p) \/ Woken(p)
      PROVE  IInv'
  BY <1>4, AcquireSleepStep, BreadDoneStep, BreadReadStep, WokenStep
<1>5. ASSUME NEW p \in Procs, NEW v \in Vals, Bwrite(p, v) \/ LogWrite(p, v)
      PROVE  IInv'
  BY <1>5, BwriteStep, LogWriteStep
<1>6. ASSUME NEW p \in Procs, ReleaseSleep(p) \/ Brelse(p) \/ Kill(p)
      PROVE  IInv'
  BY <1>6, ReleaseSleepStep, BrelseStep, KillStep
<1> QED  BY <1>1, <1>2, <1>3, <1>4, <1>5, <1>6 DEF Next

LEMMA SpecIInv ==
    ASSUME NoneAssumption, SizeAssumption
    PROVE  Spec => []IInv
<1>1. Init => IInv  BY InitIInv
<1>2. IInv /\ [Next]_vars => IInv'  BY IInvStep
<1> QED  BY <1>1, <1>2, PTL DEF Spec

(* The types with the counts of the references, one buffer per block, what *)
(* a holder finds in it, the queue of the driver, and the panic of bget(): *)
(* the invariant gives each of them.                                       *)
LEMMA Soundness ==
    ASSUME NoneAssumption, SizeAssumption, IInv
    PROVE  BufferCacheSound
<1>1. /\ Types /\ References /\ List /\ Owners /\ Requests /\ Sleepers /\ Active
      /\ Contents /\ BuffersSuffice
  BY DEF IInv
<1>2. idequeue # << >> => /\ Head(idequeue) \in Bufs /\ Contains(idequeue, Head(idequeue))
                          /\ blockno[Head(idequeue)] \in Blocks
  BY <1>1, TailFacts, Exclusion DEF Requests
<1>3. idequeue # << >> =>
        cmd = <<[op |-> IF dirty[Head(idequeue)] THEN "write" ELSE "read",
                 blk |-> blockno[Head(idequeue)], val |-> data[Head(idequeue)]]>>
  BY <1>1 DEF Active, Command
<1>4. cmd \in Seq([op : {"read", "write"}, blk : Blocks, val : Vals])
  <2>1. CASE idequeue = << >>  BY <1>1, <2>1, EmptySeq DEF Active
  <2>2. CASE idequeue # << >>
    <3> DEFINE i == Head(idequeue)
               r == [op |-> IF dirty[i] THEN "write" ELSE "read",
                     blk |-> blockno[i], val |-> data[i]]
    <3>1. r \in [op : {"read", "write"}, blk : Blocks, val : Vals]
      BY <1>1, <1>2, <2>2 DEF Types
    <3>2. cmd = <<r>>  BY <1>3, <2>2
    <3> HIDE DEF r
    <3> QED  BY <3>1, <3>2
  <2> QED  BY <2>1, <2>2
<1>5. TypeOK
  BY <1>1, <1>4 DEF TypeOK, Types, References, List, Requests
<1>6. OneBufferPerBlock
  BY <1>1 DEF OneBufferPerBlock, Contents, Owners
<1>7. ReadsLastWrite
  BY <1>1 DEF ReadsLastWrite, Owners, Contents, Types
<1>8. HeadIsActive
  <2>1. cmd = << >> <=> idequeue = << >>
    BY <1>1, <1>3 DEF Active
  <2>2. ASSUME idequeue # << >>
        PROVE  /\ cmd[1].blk = blockno[Head(idequeue)]
               /\ (cmd[1].op = "write") = dirty[Head(idequeue)]
    <3>1. cmd[1] = [op |-> IF dirty[Head(idequeue)] THEN "write" ELSE "read",
                    blk |-> blockno[Head(idequeue)], val |-> data[Head(idequeue)]]
      BY <1>3, <2>2
    <3>2. dirty[Head(idequeue)] \in BOOLEAN  BY <1>1, <1>2, <2>2 DEF Types
    <3> QED  BY <3>1, <3>2
  <2> QED  BY <1>1, <2>1, <2>2 DEF HeadIsActive, Sleepers
<1> QED  BY <1>1, <1>5, <1>6, <1>7, <1>8 DEF BufferCacheSound

(* BufferCacheSound: bio.c keeps one buffer per block, hands it to one     *)
(* process at a time with what was written last in it, the driver works on *)
(* the first request, and bget() panics only when the buffers are too few. *)
THEOREM SpecBufferCacheSound ==
    ASSUME NoneAssumption, SizeAssumption
    PROVE  Spec => []BufferCacheSound
<1>1. IInv => BufferCacheSound  BY Soundness
<1> QED  BY SpecIInv, <1>1, PTL

(* NothingLost: what bwrite() and log_write() put in a buffer is on the    *)
(* disk, or still in the cache and dirty.                                  *)
THEOREM SpecNothingLost ==
    ASSUME NoneAssumption, SizeAssumption
    PROVE  Spec => []NothingLost
<1>1. IInv => NothingLost  BY DEF IInv
<1> QED  BY SpecIInv, <1>1, PTL
=============================================================================

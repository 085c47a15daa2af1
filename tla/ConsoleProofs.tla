-------------------------- MODULE ConsoleProofs ---------------------------
(***************************************************************************)
(* Proofs about module Console: for any number of readers, any keys, any   *)
(* size of the ring and of the screen and any width of the indices that    *)
(* is a multiple of the ring's size, the console implements Terminal,      *)
(* nobody sleeps through its input, and the modifier bits follow the keys  *)
(* that are down, as far as kbdgetc() can tell two keys of a kind apart.   *)
(***************************************************************************)
EXTENDS Console, SequenceTheorems, WellFoundedInduction, TLAPS

Types ==
    /\ buf \in [0..(INPUT_BUF - 1) -> Chars]
    /\ r \in 0..(WORD - 1) /\ w \in 0..(WORD - 1) /\ e \in 0..(WORD - 1)
    /\ pc \in [Readers -> {"idle", "loop", "tested", "asleep"}]

(* r, w and e follow each other around the ring, no more than its size     *)
(* apart, and a full ring has no unfinished line.                          *)
Ring ==
    /\ Minus(w, r) + Minus(e, w) = Minus(e, r)
    /\ Minus(e, r) <= INPUT_BUF
    /\ Minus(e, r) = INPUT_BUF => w = e

(* The line that is being edited has no end in it.                         *)
Unfinished == \A i \in 1..Minus(e, w) : At(w + i - 1) \notin {NL, EOT}

(* A process that sleeps or is about to has nothing to read.               *)
Sleepers == \A p \in Readers : pc[p] \in {"tested", "asleep"} => r = w

(* No bit is set without a key that is down, and of a kind of which two    *)
(* have not been down together, one key is down at most and has its bit.   *)
OfKind(b) == {k \in held : Bit(k) = b}
BitFollows(b) ==
    /\ b \in shift => OfKind(b) # {}
    /\ b \notin both => /\ OfKind(b) # {} => b \in shift
                       /\ \A j, k \in OfKind(b) : j = k
Bits == \A b \in {"CTL", "SHIFT"} : BitFollows(b)

Cursor == pos \in 0..(ROWS * COLS - 1)

IInv == Types /\ Ring /\ Unfinished /\ Sleepers /\ Bits /\ Cursor

-----------------------------------------------------------------------------
(* Arithmetic of the indices.                                              *)
(* Quotient and remainder.                                                 *)
LEMMA DivMod ==
    ASSUME NEW a \in Nat, NEW m \in Nat \ {0}
    PROVE  /\ a % m \in 0..(m - 1)
           /\ a \div m \in Nat
           /\ a = m * (a \div m) + (a % m)
<1>1. a % m \in 0..(m - 1)  BY SMT
<1>2. a \div m \in Nat  BY SMT
<1>3. a = m * (a \div m) + (a % m)  BY SMT
<1> QED  BY <1>1, <1>2, <1>3

(* A multiple of m between -m and m is zero.                               *)
LEMMA SmallMultiple ==
    ASSUME NEW m \in Nat \ {0}, NEW q \in Int, m * q < m, -m < m * q
    PROVE  q = 0
<1>1. q >= 1 => m * q >= m  BY SMT
<1>2. q <= -1 => m * q <= -m  BY SMT
<1> QED  BY <1>1, <1>2

(* A multiple of m makes no difference to the remainder.                   *)
LEMMA ModSame ==
    ASSUME NEW a \in Nat, NEW b \in Nat, NEW m \in Nat \ {0}, NEW k \in Int,
           b = a + m * k
    PROVE  b % m = a % m
<1> DEFINE q == (b \div m) - (a \div m) - k
<1>1. /\ a % m \in 0..(m - 1) /\ a \div m \in Nat
      /\ a = m * (a \div m) + (a % m)
  BY DivMod
<1>2. /\ b % m \in 0..(m - 1) /\ b \div m \in Nat
      /\ b = m * (b \div m) + (b % m)
  BY DivMod
<1>3. q \in Int  BY <1>1, <1>2
<1>4. m * q = m * (b \div m) - m * (a \div m) - m * k  BY <1>1, <1>2
<1>5. m * q = (a % m) - (b % m)  BY <1>1, <1>2, <1>4
<1> HIDE DEF q
<1>6. q = 0  BY <1>1, <1>2, <1>5, <1>3, SmallMultiple
<1> QED  BY <1>1, <1>2, <1>5, <1>6

(* Numbers less than m apart have different remainders.                    *)
LEMMA ModDistinct ==
    ASSUME NEW a \in Nat, NEW b \in Nat, NEW m \in Nat \ {0}, a < b, b - a < m
    PROVE  a % m # b % m
<1> DEFINE q == (b \div m) - (a \div m)
<1> SUFFICES ASSUME a % m = b % m
             PROVE  FALSE
  OBVIOUS
<1>1. /\ a % m \in 0..(m - 1) /\ a \div m \in Nat
      /\ a = m * (a \div m) + (a % m)
  BY DivMod
<1>2. /\ b % m \in 0..(m - 1) /\ b \div m \in Nat
      /\ b = m * (b \div m) + (b % m)
  BY DivMod
<1>3. q \in Int  BY <1>1, <1>2
<1>4. m * q = m * (b \div m) - m * (a \div m)  BY <1>1, <1>2
<1>5. m * q = b - a  BY <1>1, <1>2, <1>4
<1> HIDE DEF q
<1>6. q = 0  BY <1>5, <1>3, SmallMultiple
<1> QED  BY <1>5, <1>6

(* Counters are below WORD, and what is added to them does not pass it     *)

LEMMA SizesAre ==
    ASSUME ConsoleAssumption
    PROVE  /\ INPUT_BUF \in Nat \ {0} /\ WORD \in Nat \ {0} /\ WORD > INPUT_BUF
           /\ WORD % INPUT_BUF = 0
           /\ COLS \in Nat \ {0} /\ ROWS \in Nat \ {0}
BY DEF ConsoleAssumption

(* Indices are below WORD, and what is added to them does not pass it      *)
(* twice.                                                                  *)
LEMMA PlusIs ==
    ASSUME ConsoleAssumption, NEW a \in 0..(WORD - 1), NEW k \in 0..WORD
    PROVE  /\ (a + k) % WORD = IF a + k < WORD THEN a + k ELSE a + k - WORD
           /\ (a + k) % WORD \in 0..(WORD - 1)
<1>1. WORD \in Nat /\ WORD > 0  BY SizesAre
<1>2. CASE a + k < WORD  BY <1>1, <1>2
<1>3. CASE a + k >= WORD
  <2>1. (a + k) % WORD = a + k - WORD  BY <1>1, <1>3
  <2> QED  BY <2>1, <1>1, <1>3
<1> QED  BY <1>1, <1>2, <1>3

LEMMA MinusIs ==
    ASSUME ConsoleAssumption, NEW a \in 0..(WORD - 1), NEW b \in 0..(WORD - 1)
    PROVE  /\ Minus(a, b) = IF b <= a THEN a - b ELSE a - b + WORD
           /\ Minus(a, b) \in 0..(WORD - 1)
<1>1. WORD \in Nat /\ WORD > 0  BY SizesAre
<1>2. CASE b <= a  BY <1>1, <1>2 DEF Minus
<1>3. CASE b > a
  <2>1. (a - b) % WORD = a - b + WORD  BY <1>1, <1>3
  <2> QED  BY <2>1, <1>1, <1>3 DEF Minus
<1> QED  BY <1>1, <1>2, <1>3

(* Going d on from b is what Minus undoes.                                 *)
LEMMA MinusPlus ==
    ASSUME ConsoleAssumption, NEW b \in 0..(WORD - 1), NEW d \in 0..(WORD - 1)
    PROVE  /\ Minus((b + d) % WORD, b) = d
           /\ \A a \in 0..(WORD - 1) : Minus(a, b) = d => a = (b + d) % WORD
<1>1. WORD \in Nat /\ WORD > 0  BY SizesAre
<1>2. d \in 0..WORD  BY <1>1
<1>3. /\ (b + d) % WORD = IF b + d < WORD THEN b + d ELSE b + d - WORD
      /\ (b + d) % WORD \in 0..(WORD - 1)
  BY <1>2, PlusIs
<1>4. Minus((b + d) % WORD, b) = IF b <= (b + d) % WORD THEN ((b + d) % WORD) - b
                                 ELSE ((b + d) % WORD) - b + WORD
  BY <1>3, MinusIs
<1>5. Minus((b + d) % WORD, b) = d
  BY <1>1, <1>3, <1>4
<1>6. ASSUME NEW a \in 0..(WORD - 1), Minus(a, b) = d
      PROVE  a = (b + d) % WORD
  <2>1. Minus(a, b) = IF b <= a THEN a - b ELSE a - b + WORD
    BY MinusIs
  <2> QED  BY <1>1, <1>3, <1>6, <2>1
<1> QED  BY <1>5, <1>6

(* Three indices that follow each other around the ring.                   *)
LEMMA Around ==
    ASSUME ConsoleAssumption, NEW a \in 0..(WORD - 1),
           NEW x \in Nat, NEW y \in Nat, x + y < WORD
    PROVE  /\ (a + x) % WORD \in 0..(WORD - 1)
           /\ (((a + x) % WORD) + y) % WORD = (a + (x + y)) % WORD
           /\ Minus((a + (x + y)) % WORD, (a + x) % WORD) = y
           /\ Minus((a + (x + y)) % WORD, a) = x + y
<1>1. WORD \in Nat /\ WORD > 0  BY SizesAre
<1>2. x \in 0..(WORD - 1) /\ y \in 0..(WORD - 1) /\ x + y \in 0..(WORD - 1)
      /\ x \in 0..WORD /\ y \in 0..WORD /\ x + y \in 0..WORD
  BY <1>1
<1> DEFINE b == (a + x) % WORD
<1>3. /\ b \in 0..(WORD - 1)
      /\ b = IF a + x < WORD THEN a + x ELSE a + x - WORD
  BY <1>2, PlusIs
<1>4. (a + (x + y)) % WORD =
          IF a + (x + y) < WORD THEN a + (x + y) ELSE a + (x + y) - WORD
  BY <1>2, PlusIs
<1> HIDE DEF b
<1>5. (b + y) % WORD = IF b + y < WORD THEN b + y ELSE b + y - WORD
  BY <1>2, <1>3, PlusIs
<1>6. (b + y) % WORD = (a + (x + y)) % WORD
  BY <1>1, <1>2, <1>3, <1>4, <1>5
<1>7. Minus((b + y) % WORD, b) = y /\ Minus((a + (x + y)) % WORD, a) = x + y
  BY <1>2, <1>3, MinusPlus
<1> QED  BY <1>3, <1>6, <1>7 DEF b

(* The place in buf of the k-th character after a; INPUT_BUF divides WORD. *)
LEMMA SlotIs ==
    ASSUME ConsoleAssumption, NEW a \in 0..(WORD - 1), NEW k \in 0..WORD,
           NEW j \in Nat
    PROVE  (((a + k) % WORD) + j) % INPUT_BUF = (a + k + j) % INPUT_BUF
<1>1. WORD \in Nat /\ INPUT_BUF \in Nat \ {0} /\ WORD % INPUT_BUF = 0
  BY SizesAre
<1> DEFINE q == WORD \div INPUT_BUF
           c == a + k - WORD + j
           f == a + k + j
<1>2. q \in Int /\ WORD = INPUT_BUF * q
  BY <1>1, DivMod
<1> HIDE DEF q
<1>3. (a + k) % WORD = IF a + k < WORD THEN a + k ELSE a + k - WORD
  BY PlusIs
<1>4. CASE a + k < WORD  BY <1>3, <1>4
<1>5. CASE a + k >= WORD
  <2>1. c \in Nat /\ f \in Nat  BY <1>1, <1>5
  <2>2. f = c + INPUT_BUF * q  BY <1>1, <1>2
  <2> HIDE DEF c, f
  <2>3. f % INPUT_BUF = c % INPUT_BUF
    <3>1. INPUT_BUF \in Nat \ {0} /\ q \in Int  BY <1>1, <1>2
    <3> QED  BY <3>1, <2>1, <2>2, ModSame, Zenon
  <2>4. ((a + k) % WORD) + j = c  BY <1>1, <1>3, <1>5 DEF c
  <2> QED  BY <2>3, <2>4 DEF f
<1> QED  BY <1>1, <1>4, <1>5

-----------------------------------------------------------------------------
(* What the ring d holds, from the index a on.                             *)
Content(d, a, k) == [i \in 1..k |-> d[(a + i - 1) % INPUT_BUF]]

LEMMA ContentIs ==
    ASSUME ConsoleAssumption, NEW d \in [0..(INPUT_BUF - 1) -> Chars],
           NEW a \in 0..(WORD - 1), NEW k \in Nat
    PROVE  /\ Content(d, a, k) \in Seq(Chars) /\ Len(Content(d, a, k)) = k
           /\ \A i \in 1..k : /\ Content(d, a, k)[i] = d[(a + i - 1) % INPUT_BUF]
                              /\ Content(d, a, k)[i] = d[(a + (i - 1)) % INPUT_BUF]
                              /\ Content(d, a, k)[i] \in Chars
<1> DEFINE q == Content(d, a, k)
<1>1. INPUT_BUF \in Nat \ {0} /\ WORD \in Nat \ {0}
  BY SizesAre
<1>2. ASSUME NEW i \in 1..k
      PROVE  /\ q[i] = d[(a + i - 1) % INPUT_BUF] /\ q[i] \in Chars
             /\ q[i] = d[(a + (i - 1)) % INPUT_BUF]
  <2>1. a + i - 1 \in Nat /\ a + i - 1 = a + (i - 1)  BY <1>1
  <2>2. (a + i - 1) % INPUT_BUF \in 0..(INPUT_BUF - 1)
    BY <1>1, <2>1, DivMod
  <2> QED  BY <2>1, <2>2 DEF Content
<1>3. q \in [1..k -> Chars]
  BY <1>2 DEF Content
<1>4. q \in Seq(Chars)
  BY <1>3, SeqDef
<1>5. Len(q) = k
  BY <1>3, <1>4, LenProperties
<1> QED  BY <1>2, <1>4, <1>5

(* A character stored beyond does not show.                                *)
LEMMA ContentKept ==
    ASSUME ConsoleAssumption, NEW d \in [0..(INPUT_BUF - 1) -> Chars],
           NEW a \in 0..(WORD - 1), NEW k \in Nat, NEW y \in Nat,
           k <= y, y < INPUT_BUF, NEW c \in Chars
    PROVE  Content([d EXCEPT ![(a + y) % INPUT_BUF] = c], a, k) = Content(d, a, k)
<1> DEFINE D == [d EXCEPT ![(a + y) % INPUT_BUF] = c]
<1>1. INPUT_BUF \in Nat \ {0} /\ WORD \in Nat \ {0}
  BY SizesAre
<1>2. ASSUME NEW i \in 1..k
      PROVE  D[(a + i - 1) % INPUT_BUF] = d[(a + i - 1) % INPUT_BUF]
  <2> DEFINE x == a + i - 1
             z == a + y
  <2>1. x \in Nat /\ z \in Nat /\ x < z /\ z - x < INPUT_BUF
    <3>1. i >= 1 /\ i <= y  BY <1>1
    <3> QED  BY <1>1, <3>1
  <2> HIDE DEF x, z
  <2>2. x % INPUT_BUF # z % INPUT_BUF /\ x % INPUT_BUF \in 0..(INPUT_BUF - 1)
    BY <1>1, <2>1, ModDistinct, DivMod
  <2> QED  BY <2>2 DEF x, z
<1> QED  BY <1>2 DEF Content

(* One stored at the end comes last.                                       *)
LEMMA ContentPut ==
    ASSUME ConsoleAssumption, NEW d \in [0..(INPUT_BUF - 1) -> Chars],
           NEW a \in 0..(WORD - 1), NEW k \in Nat, k < INPUT_BUF, NEW c \in Chars
    PROVE  Content([d EXCEPT ![(a + k) % INPUT_BUF] = c], a, k + 1)
               = Append(Content(d, a, k), c)
<1> DEFINE s == (a + k) % INPUT_BUF
           D == [d EXCEPT ![s] = c]
           old == Content(d, a, k)
           new == Content(D, a, k + 1)
<1>1. INPUT_BUF \in Nat \ {0} /\ WORD \in Nat \ {0}
  BY SizesAre
<1>2. s \in 0..(INPUT_BUF - 1)
  <2>1. a + k \in Nat  BY <1>1
  <2> QED  BY <1>1, <2>1, DivMod
<1>3. D \in [0..(INPUT_BUF - 1) -> Chars] /\ D[s] = c
  BY <1>2
<1>4. Content(D, a, k) = old
  <2>1. k <= k  OBVIOUS
  <2> QED  BY <2>1, ContentKept
<1> HIDE DEF D
<1>5. /\ old \in Seq(Chars) /\ Len(old) = k
      /\ \A i \in 1..k : old[i] = D[(a + (i - 1)) % INPUT_BUF]
  BY <1>3, <1>4, ContentIs
<1>6. k + 1 \in Nat  OBVIOUS
<1>7. /\ new \in Seq(Chars) /\ Len(new) = k + 1
      /\ \A i \in 1..(k + 1) : new[i] = D[(a + (i - 1)) % INPUT_BUF]
  BY <1>3, <1>6, ContentIs
<1> HIDE DEF old, new
<1>8. /\ Append(old, c) \in Seq(Chars) /\ Len(Append(old, c)) = k + 1
      /\ \A i \in 1..k : Append(old, c)[i] = old[i]
      /\ Append(old, c)[k + 1] = c
  BY <1>5, AppendProperties
<1> DEFINE app == Append(old, c)
<1> HIDE DEF app
<1>9. ASSUME NEW i \in 1..(k + 1)
      PROVE  new[i] = app[i]
  <2>1. CASE i = k + 1
    <3>1. a + (i - 1) = a + k  BY <1>1, <2>1
    <3> QED  BY <1>3, <1>7, <1>8, <2>1, <3>1 DEF app
  <2>2. CASE i \in 1..k
    BY <1>5, <1>7, <1>8, <2>2 DEF app
  <2>3. i = k + 1 \/ i \in 1..k  OBVIOUS
  <2> QED  BY <2>1, <2>2, <2>3
<1>10. new = Append(old, c)
  BY <1>7, <1>8, <1>9, SeqEqual DEF app
<1> QED  BY <1>10 DEF new, old, D

(* The first x characters and the other y.                                 *)
LEMMA ContentSplit ==
    ASSUME ConsoleAssumption, NEW d \in [0..(INPUT_BUF - 1) -> Chars],
           NEW a \in 0..(WORD - 1), NEW x \in Nat, NEW y \in Nat, x + y < WORD
    PROVE  /\ Content(d, a, x + y)
                  = Content(d, a, x) \o Content(d, (a + x) % WORD, y)
           /\ SubSeq(Content(d, a, x + y), 1, x) = Content(d, a, x)
           /\ SubSeq(Content(d, a, x + y), x + 1, x + y)
                  = Content(d, (a + x) % WORD, y)
<1> DEFINE b == (a + x) % WORD
           all == Content(d, a, x + y)
           one == Content(d, a, x)
           two == Content(d, b, y)
<1>1. INPUT_BUF \in Nat \ {0} /\ WORD \in Nat \ {0}
  BY SizesAre
<1>2. x \in 0..WORD /\ x + y \in Nat  BY <1>1
<1>3. b \in 0..(WORD - 1)
  BY <1>2, PlusIs
<1>4. /\ all \in Seq(Chars) /\ Len(all) = x + y
      /\ \A i \in 1..(x + y) : all[i] = d[(a + (i - 1)) % INPUT_BUF] /\ all[i] \in Chars
  BY <1>2, ContentIs
<1>5. /\ one \in Seq(Chars) /\ Len(one) = x
      /\ \A i \in 1..x : one[i] = d[(a + (i - 1)) % INPUT_BUF]
  BY ContentIs
<1>6. /\ two \in Seq(Chars) /\ Len(two) = y
      /\ \A i \in 1..y : two[i] = d[(b + (i - 1)) % INPUT_BUF]
  BY <1>3, ContentIs
<1>7. ASSUME NEW i \in 1..y
      PROVE  x + i \in 1..(x + y) /\ two[i] = all[x + i]
  <2>1. i - 1 \in Nat /\ x + i \in 1..(x + y) /\ a + x + (i - 1) = a + ((x + i) - 1)
    BY <1>1
  <2>2. (b + (i - 1)) % INPUT_BUF = (a + x + (i - 1)) % INPUT_BUF
    BY <1>2, <2>1, SlotIs
  <2> QED  BY <1>4, <1>6, <2>1, <2>2
<1> HIDE DEF all, one, two
<1>8. /\ one \o two \in Seq(Chars) /\ Len(one \o two) = x + y
      /\ \A i \in 1..(x + y) : (one \o two)[i] =
             IF i <= x THEN one[i] ELSE two[i - x]
  BY <1>5, <1>6, ConcatProperties
<1> DEFINE cat == one \o two
<1> HIDE DEF cat
<1>9. ASSUME NEW i \in 1..(x + y)
      PROVE  cat[i] = all[i]
  <2>1. CASE i <= x
    <3>1. i \in 1..x  BY <2>1
    <3>2. one[i] = all[i]  BY <1>4, <1>5, <3>1
    <3> QED  BY <1>8, <2>1, <3>2 DEF cat
  <2>2. CASE i > x
    <3>1. i - x \in 1..y /\ x + (i - x) = i  BY <2>2
    <3>2. two[i - x] = all[i]  BY <1>7, <3>1
    <3>3. ~(i <= x)  BY <2>2
    <3> QED  BY <1>8, <3>2, <3>3 DEF cat
  <2>3. i <= x \/ i > x  OBVIOUS
  <2> QED  BY <2>1, <2>2, <2>3
<1>10. all = one \o two
  BY <1>4, <1>8, <1>9, SeqEqual DEF cat
<1>11. SubSeq(all, 1, x) = one
  <2>1. ASSUME NEW i \in 1..x
        PROVE  all[i] \in Chars /\ all[i] = one[i]
    <3>1. i \in 1..(x + y)  OBVIOUS
    <3> QED  BY <1>4, <1>5, <3>1
  <2>2. /\ SubSeq(all, 1, x) \in Seq(Chars)
        /\ Len(SubSeq(all, 1, x)) = x
        /\ \A i \in 1..x : SubSeq(all, 1, x)[i] = all[i]
    <3>1. /\ SubSeq(all, 1, x) \in Seq(Chars)
          /\ Len(SubSeq(all, 1, x)) = IF 1 <= x THEN x - 1 + 1 ELSE 0
          /\ \A i \in 1..(x - 1 + 1) : SubSeq(all, 1, x)[i] = all[1 + i - 1]
      BY <2>1, SubSeqProperties
    <3> QED  BY <3>1
  <2> QED  BY <1>5, <2>1, <2>2, SeqEqual
<1>12. SubSeq(all, x + 1, x + y) = two
  <2>1. \A i \in (x + 1)..(x + y) : all[i] \in Chars  BY <1>4
  <2>2. /\ SubSeq(all, x + 1, x + y) \in Seq(Chars)
        /\ Len(SubSeq(all, x + 1, x + y)) = y
        /\ \A i \in 1..y : SubSeq(all, x + 1, x + y)[i] = all[x + i]
    <3>1. /\ SubSeq(all, x + 1, x + y) \in Seq(Chars)
          /\ Len(SubSeq(all, x + 1, x + y)) =
                 IF x + 1 <= x + y THEN (x + y) - (x + 1) + 1 ELSE 0
          /\ \A i \in 1..((x + y) - (x + 1) + 1) :
                 SubSeq(all, x + 1, x + y)[i] = all[(x + 1) + i - 1]
      BY <2>1, SubSeqProperties
    <3> QED  BY <3>1
  <2> QED  BY <1>6, <1>7, <2>2, SeqEqual
<1> QED  BY <1>10, <1>11, <1>12 DEF all, one, two

-----------------------------------------------------------------------------
(* The ring under the steps that touch it.                                 *)

(* Each index is the one before it and what lies between them.             *)
LEMMA RingIs ==
    ASSUME ConsoleAssumption, Types, Ring
    PROVE  /\ Minus(w, r) \in Nat /\ Minus(e, w) \in Nat /\ Minus(e, r) \in 0..INPUT_BUF
           /\ w = (r + Minus(w, r)) % WORD
           /\ e = (w + Minus(e, w)) % WORD /\ e = (r + Minus(e, r)) % WORD
           /\ e % INPUT_BUF = (w + Minus(e, w)) % INPUT_BUF
           /\ e % INPUT_BUF = (r + Minus(e, r)) % INPUT_BUF
<1>1. r \in 0..(WORD - 1) /\ w \in 0..(WORD - 1) /\ e \in 0..(WORD - 1)
  BY DEF Types
<1>2. WORD \in Nat \ {0} /\ INPUT_BUF \in Nat \ {0}  BY SizesAre
<1>3. /\ Minus(w, r) \in 0..(WORD - 1) /\ Minus(e, w) \in 0..(WORD - 1)
      /\ Minus(e, r) \in 0..(WORD - 1)
  BY <1>1, MinusIs
<1>4. /\ w = (r + Minus(w, r)) % WORD
      /\ e = (w + Minus(e, w)) % WORD /\ e = (r + Minus(e, r)) % WORD
  BY <1>1, <1>3, MinusPlus
<1>5. Minus(e, r) \in 0..INPUT_BUF  BY <1>2, <1>3 DEF Ring
<1>6. ASSUME NEW a \in 0..(WORD - 1), NEW d \in 0..(WORD - 1), e = (a + d) % WORD
      PROVE  e % INPUT_BUF = (a + d) % INPUT_BUF
  <2>1. d \in 0..WORD /\ 0 \in Nat  BY <1>2
  <2>2. (((a + d) % WORD) + 0) % INPUT_BUF = (a + d + 0) % INPUT_BUF
    BY <2>1, SlotIs
  <2>3. ((a + d) % WORD) + 0 = e /\ a + d + 0 = a + d  BY <1>1, <1>2, <1>6
  <2> QED  BY <2>2, <2>3
<1>7. /\ e % INPUT_BUF = (w + Minus(e, w)) % INPUT_BUF
      /\ e % INPUT_BUF = (r + Minus(e, r)) % INPUT_BUF
  BY <1>1, <1>3, <1>4, <1>6, Zenon
<1>8. Minus(w, r) \in Nat /\ Minus(e, w) \in Nat
  BY <1>2, <1>3
<1> QED  BY <1>4, <1>5, <1>7, <1>8

(* The last index goes on by one.                                          *)
LEMMA Advance ==
    ASSUME ConsoleAssumption, NEW a \in 0..(WORD - 1), NEW b \in 0..(WORD - 1),
           NEW x \in 0..(WORD - 1), NEW y, y = (x + 1) % WORD,
           Minus(b, a) + Minus(x, b) = Minus(x, a), Minus(x, a) < INPUT_BUF
    PROVE  /\ y \in 0..(WORD - 1)
           /\ Minus(y, a) = Minus(x, a) + 1 /\ Minus(y, b) = Minus(x, b) + 1
           /\ Minus(y, y) = 0
           /\ y = (a + INPUT_BUF) % WORD <=> Minus(x, a) + 1 = INPUT_BUF
<1>1. /\ WORD \in Nat \ {0} /\ INPUT_BUF \in Nat \ {0} /\ INPUT_BUF < WORD
      /\ 1 \in 0..WORD /\ INPUT_BUF \in 0..WORD
  BY SizesAre
<1>2. y \in 0..(WORD - 1) /\ y = IF x + 1 < WORD THEN x + 1 ELSE x + 1 - WORD
  BY <1>1, PlusIs
<1>3. (a + INPUT_BUF) % WORD = IF a + INPUT_BUF < WORD THEN a + INPUT_BUF
                               ELSE a + INPUT_BUF - WORD
  BY <1>1, PlusIs
<1>4. /\ Minus(x, a) = IF a <= x THEN x - a ELSE x - a + WORD
      /\ Minus(x, b) = IF b <= x THEN x - b ELSE x - b + WORD
      /\ Minus(b, a) = IF a <= b THEN b - a ELSE b - a + WORD
  BY MinusIs
<1>5. /\ Minus(y, a) = IF a <= y THEN y - a ELSE y - a + WORD
      /\ Minus(y, b) = IF b <= y THEN y - b ELSE y - b + WORD
      /\ Minus(y, y) = IF y <= y THEN y - y ELSE y - y + WORD
  BY <1>2, MinusIs
<1>6. Minus(y, a) = Minus(x, a) + 1
  BY <1>1, <1>2, <1>4, <1>5
<1>7. Minus(y, b) = Minus(x, b) + 1
  BY <1>1, <1>2, <1>4, <1>5
<1>8. y = (a + INPUT_BUF) % WORD <=> Minus(x, a) + 1 = INPUT_BUF
  BY <1>1, <1>2, <1>3, <1>4
<1>9. Minus(y, y) = 0
  BY <1>2, <1>5
<1> QED  BY <1>2, <1>6, <1>7, <1>8, <1>9

(* The last index goes back by k, as far as the one before at most.        *)
LEMMA Back ==
    ASSUME ConsoleAssumption, NEW a \in 0..(WORD - 1), NEW b \in 0..(WORD - 1),
           NEW x \in 0..(WORD - 1), Minus(b, a) + Minus(x, b) = Minus(x, a),
           NEW k \in 0..Minus(x, b), NEW y, y = Minus(x, k)
    PROVE  /\ y \in 0..(WORD - 1)
           /\ Minus(y, a) = Minus(x, a) - k /\ Minus(y, b) = Minus(x, b) - k
<1>1. WORD \in Nat \ {0}
  BY SizesAre
<1>2. /\ Minus(x, a) = IF a <= x THEN x - a ELSE x - a + WORD
      /\ Minus(x, b) = IF b <= x THEN x - b ELSE x - b + WORD
      /\ Minus(b, a) = IF a <= b THEN b - a ELSE b - a + WORD
      /\ Minus(x, b) \in 0..(WORD - 1)
  BY MinusIs
<1>3. k \in 0..(WORD - 1)
  BY <1>1, <1>2
<1>4. y \in 0..(WORD - 1) /\ y = IF k <= x THEN x - k ELSE x - k + WORD
  BY <1>3, MinusIs
<1>5. /\ Minus(y, a) = IF a <= y THEN y - a ELSE y - a + WORD
      /\ Minus(y, b) = IF b <= y THEN y - b ELSE y - b + WORD
  BY <1>4, MinusIs
<1>6. Minus(y, a) = Minus(x, a) - k
  BY <1>1, <1>2, <1>3, <1>4, <1>5
<1>7. Minus(y, b) = Minus(x, b) - k
  BY <1>1, <1>2, <1>3, <1>4, <1>5
<1> QED  BY <1>4, <1>6, <1>7

(* The first index goes on by k, as far as the next at most.               *)
LEMMA Follow ==
    ASSUME ConsoleAssumption, NEW a \in 0..(WORD - 1), NEW b \in 0..(WORD - 1),
           NEW x \in 0..(WORD - 1), Minus(b, a) + Minus(x, b) = Minus(x, a),
           NEW k \in 0..Minus(b, a), NEW y, y = (a + k) % WORD
    PROVE  /\ y \in 0..(WORD - 1)
           /\ Minus(b, y) = Minus(b, a) - k /\ Minus(x, y) = Minus(x, a) - k
<1>1. WORD \in Nat \ {0}
  BY SizesAre
<1>2. /\ Minus(x, a) = IF a <= x THEN x - a ELSE x - a + WORD
      /\ Minus(x, b) = IF b <= x THEN x - b ELSE x - b + WORD
      /\ Minus(b, a) = IF a <= b THEN b - a ELSE b - a + WORD
      /\ Minus(b, a) \in 0..(WORD - 1)
  BY MinusIs
<1>3. k \in 0..WORD
  BY <1>1, <1>2
<1>4. y \in 0..(WORD - 1) /\ y = IF a + k < WORD THEN a + k ELSE a + k - WORD
  BY <1>3, PlusIs
<1>5. /\ Minus(x, y) = IF y <= x THEN x - y ELSE x - y + WORD
      /\ Minus(b, y) = IF y <= b THEN b - y ELSE b - y + WORD
  BY <1>4, MinusIs
<1>6. Minus(b, y) = Minus(b, a) - k
  BY <1>1, <1>2, <1>3, <1>4, <1>5
<1>7. Minus(x, y) = Minus(x, a) - k
  BY <1>1, <1>2, <1>3, <1>4, <1>5
<1> QED  BY <1>4, <1>6, <1>7

(* The smallest number of a set.                                           *)
LEMMA MinIs ==
    ASSUME NEW S \in SUBSET Nat, S # {}
    PROVE  Min(S) \in S /\ \A x \in S : Min(S) <= x
<1>1. PICK x \in S : \A y \in S : ~(<<y, x>> \in OpToRel(<, Nat))
  BY WFMin, NatLessThanWellFounded, Zenon
<1>2. \A y \in S : ~(y < x)
  BY <1>1 DEF OpToRel
<1>3. \A y \in S : x <= y
  BY <1>2
<1> QED  BY <1>3 DEF Min

(* Content tells what Stored says, and whether the line has an end.        *)
LEMMA StoredIs ==
    /\ Stored(r, w) = Content(buf, r, Minus(w, r))
    /\ Stored(w, e) = Content(buf, w, Minus(e, w))
    /\ Stored(r, w)' = Content(buf', r', Minus(w', r'))
    /\ Stored(w, e)' = Content(buf', w', Minus(e', w'))
BY DEF Stored, At, Minus, Content

LEMMA UnfinishedIs ==
    /\ Unfinished <=> \A i \in 1..Minus(e, w) :
                          buf[(w + i - 1) % INPUT_BUF] \notin {NL, EOT}
    /\ Unfinished' <=> \A i \in 1..Minus(e', w') :
                          buf'[(w' + i - 1) % INPUT_BUF] \notin {NL, EOT}
BY DEF Unfinished, At, Minus

LEMMA RingPrimed ==
    Ring' <=> /\ Minus(w', r') + Minus(e', w') = Minus(e', r')
              /\ Minus(e', r') <= INPUT_BUF
              /\ Minus(e', r') = INPUT_BUF => w' = e'
BY DEF Ring, Minus

(* Ordinary() stores a character at the end of the line.                   *)
LEMMA OrdinaryRing ==
    ASSUME ConsoleAssumption, Types, Ring, NEW c \in Chars,
           Minus(e, r) < INPUT_BUF, e' = (e + 1) % WORD, r' = r,
           buf' = [buf EXCEPT ![e % INPUT_BUF] = c]
    PROVE  /\ buf' \in [0..(INPUT_BUF - 1) -> Chars] /\ e' \in 0..(WORD - 1)
           /\ Minus(e', r) = Minus(e, r) + 1 /\ Minus(e', w) = Minus(e, w) + 1
           /\ Minus(e', e') = 0
           /\ Finishes(c) <=> c \in {NL, EOT} \/ Minus(e, r) + 1 = INPUT_BUF
           /\ Content(buf', r, Minus(w, r)) = Stored(r, w)
           /\ Content(buf', w, Minus(e, w) + 1) = Append(Stored(w, e), c)
           /\ Content(buf', r, Minus(e, r) + 1)
                  = Stored(r, w) \o Append(Stored(w, e), c)
<1>1. /\ r \in 0..(WORD - 1) /\ w \in 0..(WORD - 1) /\ e \in 0..(WORD - 1)
      /\ buf \in [0..(INPUT_BUF - 1) -> Chars]
  BY DEF Types
<1>2. /\ INPUT_BUF \in Nat \ {0} /\ WORD \in Nat \ {0} /\ INPUT_BUF < WORD
  BY SizesAre
<1>3. Minus(w, r) + Minus(e, w) = Minus(e, r)
  BY DEF Ring
<1>4. /\ e' \in 0..(WORD - 1)
      /\ Minus(e', r) = Minus(e, r) + 1 /\ Minus(e', w) = Minus(e, w) + 1
      /\ Minus(e', e') = 0
      /\ e' = (r + INPUT_BUF) % WORD <=> Minus(e, r) + 1 = INPUT_BUF
  BY <1>1, <1>3, Advance
<1>5. /\ Minus(w, r) \in Nat /\ Minus(e, w) \in Nat /\ Minus(e, r) \in 0..INPUT_BUF
      /\ w = (r + Minus(w, r)) % WORD
      /\ e % INPUT_BUF = (w + Minus(e, w)) % INPUT_BUF
      /\ e % INPUT_BUF = (r + Minus(e, r)) % INPUT_BUF
  BY RingIs
<1>6. buf' \in [0..(INPUT_BUF - 1) -> Chars]
  BY <1>1
<1>7. Content(buf', r, Minus(w, r)) = Content(buf, r, Minus(w, r))
  <2>1. Minus(w, r) <= Minus(e, r) /\ Minus(e, r) \in Nat
    BY <1>3, <1>5
  <2>2. buf' = [buf EXCEPT ![(r + Minus(e, r)) % INPUT_BUF] = c]
    BY <1>5
  <2>3. Content([buf EXCEPT ![(r + Minus(e, r)) % INPUT_BUF] = c], r, Minus(w, r))
            = Content(buf, r, Minus(w, r))
    <3>1. \A x, y \in Nat : x <= y /\ y < INPUT_BUF =>
              Content([buf EXCEPT ![(r + y) % INPUT_BUF] = c], r, x) = Content(buf, r, x)
      BY <1>1, ContentKept
    <3> QED  BY <1>5, <2>1, <3>1, Zenon
  <2> QED  BY <2>2, <2>3, Zenon
<1>8. Content(buf', w, Minus(e, w) + 1) = Append(Content(buf, w, Minus(e, w)), c)
  <2>1. Minus(e, w) < INPUT_BUF
    BY <1>2, <1>3, <1>5
  <2>2. buf' = [buf EXCEPT ![(w + Minus(e, w)) % INPUT_BUF] = c]
    BY <1>5
  <2>3. Content([buf EXCEPT ![(w + Minus(e, w)) % INPUT_BUF] = c], w, Minus(e, w) + 1)
            = Append(Content(buf, w, Minus(e, w)), c)
    BY <1>1, <1>5, <2>1, ContentPut, Zenon
  <2> QED  BY <2>2, <2>3, Zenon
<1>9. Content(buf', r, Minus(e, r) + 1)
          = Content(buf', r, Minus(w, r)) \o Content(buf', w, Minus(e, w) + 1)
  <2> DEFINE x == Minus(w, r)
             y == Minus(e, w) + 1
  <2>1. x \in Nat /\ y \in Nat /\ x + y < WORD /\ x + y = Minus(e, r) + 1
    BY <1>2, <1>3, <1>5
  <2>2. w = (r + x) % WORD  BY <1>5
  <2> HIDE DEF x, y
  <2>3. Content(buf', r, x + y) = Content(buf', r, x) \o Content(buf', w, y)
    <3>1. ASSUME NEW d \in [0..(INPUT_BUF - 1) -> Chars],
                 NEW s \in Nat, NEW t \in Nat, s + t < WORD
          PROVE  Content(d, r, s + t)
                     = Content(d, r, s) \o Content(d, (r + s) % WORD, t)
      BY <1>1, <3>1, ContentSplit
    <3>2. Content(buf', r, x + y)
              = Content(buf', r, x) \o Content(buf', (r + x) % WORD, y)
      BY <1>6, <2>1, <3>1
    <3> QED  BY <2>2, <3>2, Zenon
  <2> QED  BY <2>1, <2>3, Zenon DEF x, y
<1>10. Finishes(c) <=> c \in {NL, EOT} \/ Minus(e, r) + 1 = INPUT_BUF
  BY <1>4 DEF Finishes
<1> QED  BY <1>4, <1>6, <1>7, <1>8, <1>9, <1>10, StoredIs

(* Erase() shortens the line.                                              *)
LEMMA EraseRing ==
    ASSUME ConsoleAssumption, Types, Ring, NEW k \in 0..Minus(e, w),
           e' = Minus(e, k), UNCHANGED <<buf, r, w>>
    PROVE  /\ e' \in 0..(WORD - 1)
           /\ Minus(e', r) = Minus(e, r) - k /\ Minus(e', w) = Minus(e, w) - k
           /\ Content(buf', w', Minus(e', w')) = SubSeq(Stored(w, e), 1, Minus(e, w) - k)
<1>1. /\ r \in 0..(WORD - 1) /\ w \in 0..(WORD - 1) /\ e \in 0..(WORD - 1)
      /\ buf \in [0..(INPUT_BUF - 1) -> Chars]
  BY DEF Types
<1>2. /\ e' \in 0..(WORD - 1)
      /\ Minus(e', r) = Minus(e, r) - k /\ Minus(e', w) = Minus(e, w) - k
  BY <1>1, Back DEF Ring
<1> DEFINE x == Minus(e, w) - k
<1>3. x \in Nat /\ x + k = Minus(e, w) /\ Minus(e, w) < WORD /\ k \in Nat
  <2>1. Minus(e, w) \in 0..(WORD - 1) /\ WORD \in Nat
    BY <1>1, SizesAre, MinusIs, Zenon
  <2> QED  BY <2>1
<1> HIDE DEF x
<1>4. SubSeq(Content(buf, w, x + k), 1, x) = Content(buf, w, x)
  BY <1>1, <1>3, ContentSplit
<1> QED  BY <1>2, <1>3, <1>4, StoredIs DEF x

(* ^U erases the whole line, because there is no NL in it.                 *)
LEMMA ToEraseIs ==
    ASSUME ConsoleAssumption, Types, Ring, Unfinished
    PROVE  ToErase = Minus(e, w)
<1> DEFINE stops(k) == k = Minus(e, w) \/ At(Minus(e, k + 1)) = NL
           S == {k \in 0..Minus(e, w) : stops(k)}
<1>1. /\ r \in 0..(WORD - 1) /\ w \in 0..(WORD - 1) /\ e \in 0..(WORD - 1)
      /\ WORD \in Nat \ {0} /\ INPUT_BUF \in Nat \ {0}
  BY SizesAre DEF Types
<1>2. Minus(e, w) \in Nat /\ Minus(e, w) < WORD
  BY <1>1, MinusIs
<1>3. ASSUME NEW k \in 0..Minus(e, w), k # Minus(e, w)
      PROVE  At(Minus(e, k + 1)) # NL
  <2> DEFINE i == Minus(e, w) - k
             y == Minus(e, k + 1)
  <2>1. i \in 1..Minus(e, w) /\ k + 1 \in 0..Minus(e, w) /\ i - 1 \in 0..(WORD - 1)
    BY <1>1, <1>2, <1>3
  <2>2. y \in 0..(WORD - 1) /\ Minus(y, w) = i - 1
    <3>1. /\ y \in 0..(WORD - 1)
          /\ Minus(y, w) = Minus(e, w) - (k + 1)
      BY <1>1, <2>1, Back DEF Ring
    <3> QED  BY <1>2, <3>1
  <2> HIDE DEF y
  <2>3. y = (w + (i - 1)) % WORD
    BY <1>1, <2>1, <2>2, MinusPlus
  <2>4. y % INPUT_BUF = (w + i - 1) % INPUT_BUF
    <3>1. i - 1 \in 0..WORD /\ 0 \in Nat  BY <1>1, <2>1
    <3> HIDE DEF i
    <3>2. (((w + (i - 1)) % WORD) + 0) % INPUT_BUF = (w + (i - 1) + 0) % INPUT_BUF
      BY <1>1, <3>1, SlotIs
    <3>3. ((w + (i - 1)) % WORD) + 0 = y /\ w + (i - 1) + 0 = w + i - 1
      BY <1>1, <2>2, <2>3, <3>1
    <3> QED  BY <3>2, <3>3
  <2>5. buf[(w + i - 1) % INPUT_BUF] # NL
    BY <2>1, UnfinishedIs
  <2> QED  BY <2>4, <2>5 DEF At, y
<1>4. S = {Minus(e, w)}
  BY <1>2, <1>3
<1> HIDE DEF S
<1>5. Min(S) = Minus(e, w)
  <2>1. S \in SUBSET Nat /\ S # {}  BY <1>2, <1>4
  <2>2. Min(S) \in S  BY <2>1, MinIs
  <2> QED  BY <1>4, <2>2
<1> QED  BY <1>5 DEF ToErase, S

(* What a pass of consoleread() takes.                                     *)
LEMMA TakenIs ==
    ASSUME ConsoleAssumption, Types, Ring, NEW p \in Readers
    PROVE  /\ Taken(p) \in 0..Minus(w, r)
           /\ \A i \in 1..Taken(p) :
                  /\ buf[(r + i - 1) % INPUT_BUF] = NL => i = Taken(p)
                  /\ buf[(r + i - 1) % INPUT_BUF] = EOT => Taken(p) = 1
<1> DEFINE stops(k) == \/ k = n[p] \/ k = Minus(w, r)
                       \/ (k > 0 /\ At(r + k - 1) \in {NL, EOT})
                       \/ (At(r + k) = EOT /\ (k > 0 \/ n[p] < target[p]))
           S == {k \in 0..INPUT_BUF : stops(k)}
           x == Taken(p)
<1>1. /\ r \in 0..(WORD - 1) /\ INPUT_BUF \in Nat
      /\ Minus(w, r) \in Nat /\ Minus(w, r) \in 0..INPUT_BUF
  <2>1. r \in 0..(WORD - 1) /\ INPUT_BUF \in Nat
    BY SizesAre DEF Types
  <2>2. /\ Minus(w, r) \in Nat /\ Minus(e, w) \in Nat /\ Minus(e, r) \in 0..INPUT_BUF
        /\ Minus(w, r) + Minus(e, w) = Minus(e, r)
    BY RingIs DEF Ring
  <2> QED  BY <2>1, <2>2
<1>2. x = Min(S)
  BY DEF Taken
<1>3. Minus(w, r) \in S
  BY <1>1
<1>4. S \in SUBSET Nat /\ S # {}
  BY <1>1, <1>3
<1> HIDE DEF S, x
<1>5. x \in S /\ \A k \in S : x <= k
  BY <1>2, <1>4, MinIs
<1>6. x \in 0..Minus(w, r)
  BY <1>1, <1>3, <1>5 DEF S
<1>7. ASSUME NEW k \in 0..INPUT_BUF, k < x
      PROVE  ~stops(k)
  <2>1. k \notin S  BY <1>1, <1>5, <1>6, <1>7
  <2> QED  BY <2>1 DEF S
<1>8. ASSUME NEW i \in 1..x
      PROVE  /\ buf[(r + i - 1) % INPUT_BUF] = NL => i = x
             /\ buf[(r + i - 1) % INPUT_BUF] = EOT => x = 1
  <2>1. ASSUME i # x
        PROVE  At(r + i - 1) \notin {NL, EOT}
    <3>1. i \in 0..INPUT_BUF /\ i < x /\ i > 0  BY <1>1, <1>6, <2>1
    <3> QED  BY <1>7, <3>1
  <2>2. ASSUME i = x, x # 1
        PROVE  At(r + i - 1) # EOT
    <3>1. /\ i - 1 \in 0..INPUT_BUF /\ i - 1 < x /\ i - 1 > 0
          /\ r + (i - 1) = r + i - 1
      BY <1>1, <1>6, <2>2
    <3>2. ~stops(i - 1)  BY <1>7, <3>1
    <3> QED  BY <3>1, <3>2
  <2> QED  BY <2>1, <2>2 DEF At
<1> QED  BY <1>6, <1>8 DEF x

-----------------------------------------------------------------------------
(* The steps, by what they do to the ring.                                 *)

LEMMA CharsAre ==
    /\ \A k \in Letters : CharOf(k) \in Chars
    /\ NL \in Chars /\ Serial \subseteq Chars
<1>1. ASSUME NEW k \in Letters
      PROVE  CharOf(k) \in Chars
  <2> DEFINE keys == {{j.normal, j.shift, j.ctl} : j \in Letters}
             own == {k.normal, k.shift, k.ctl}
  <2>1. CharOf(k) \in own  BY DEF CharOf
  <2>2. own \in keys  OBVIOUS
  <2>3. Chars = (UNION keys) \cup Serial \cup {NL}  BY DEF Chars
  <2> HIDE DEF keys, own
  <2> QED  BY <2>1, <2>2, <2>3
<1>2. NL \in Chars /\ Serial \subseteq Chars  BY DEF Chars
<1> QED  BY <1>1, <1>2

(* A step is a character, a key that gives none, or a step of a reader.    *)
LEMMA NextCases ==
    ASSUME ConsoleNext
    PROVE  \/ \E c \in Chars : Consoleintr(c) /\ UNCHANGED <<shift, held, both>>
           \/ \E k \in Modifiers : KeyEscape(k) \/ Modifier(k)
           \/ CapsLock
           \/ \E p \in Readers :
                \/ \E size \in Sizes : Call(p, size)
                \/ Consoleread(p) \/ Test(p) \/ Sleep(p) \/ Kill(p) \/ Replace(p)
<1>1. ASSUME NEW k \in Letters, Kbdintr(k)
      PROVE  \E c \in Chars : Consoleintr(c) /\ UNCHANGED <<shift, held, both>>
  BY <1>1, CharsAre DEF Kbdintr
<1>2. ASSUME Enter
      PROVE  \E c \in Chars : Consoleintr(c) /\ UNCHANGED <<shift, held, both>>
  BY <1>2, CharsAre DEF Enter
<1>3. ASSUME NEW c \in Serial, Uartintr(c)
      PROVE  \E d \in Chars : Consoleintr(d) /\ UNCHANGED <<shift, held, both>>
  BY <1>3, CharsAre DEF Uartintr
<1> QED  BY <1>1, <1>2, <1>3 DEF ConsoleNext, Step

(* Ordinary() finds room.                                                  *)
Stores(c) ==
    /\ Minus(e, r) < INPUT_BUF
    /\ buf' = [buf EXCEPT ![e % INPUT_BUF] = c]
    /\ e' = (e + 1) % WORD /\ r' = r
    /\ pos' = Consputc(pos, c)
    /\ \/ Finishes(c) /\ w' = e' /\ pc' = Woken
       \/ ~Finishes(c) /\ w' = w /\ pc' = pc

Erases(k) ==
    /\ k \in 0..Minus(e, w)
    /\ e' = Minus(e, k)
    /\ pos' = Backspaces(pos, k)
    /\ UNCHANGED <<buf, r, w, pc>>

LEMMA ConsoleintrCases ==
    ASSUME ConsoleAssumption, IInv, NEW c \in Chars, Consoleintr(c)
    PROVE  \/ Stores(c)
           \/ Erases(Minus(e, w))
           \/ e # w /\ Erases(1)
           \/ UNCHANGED <<ring, pos, pc>>
<1>1. Types /\ Ring /\ Unfinished /\ Cursor
  BY DEF IInv
<1>2. /\ r \in 0..(WORD - 1) /\ w \in 0..(WORD - 1) /\ e \in 0..(WORD - 1)
      /\ WORD \in Nat /\ Minus(e, w) \in Nat /\ Minus(e, r) \in 0..INPUT_BUF
      /\ INPUT_BUF \in Nat
  BY <1>1, SizesAre, RingIs DEF Types
<1>3. CASE c = KILL
  <2>1. Erase(ToErase) /\ ToErase = Minus(e, w)
    BY <1>1, <1>3, ToEraseIs DEF Consoleintr, KILL, BACKSPACE
  <2>2. Minus(e, w) \in 0..Minus(e, w)
    BY <1>2
  <2> QED  BY <2>1, <2>2 DEF Erase, Erases
<1>4. CASE c = BACKSPACE /\ e # w
  <2>1. Erase(1)
    BY <1>4 DEF Consoleintr, KILL, BACKSPACE
  <2>2. Minus(e, w) = IF w <= e THEN e - w ELSE e - w + WORD
    BY <1>2, MinusIs
  <2>3. 1 \in 0..Minus(e, w)
    BY <1>2, <1>4, <2>2
  <2> QED  BY <1>4, <2>1, <2>3 DEF Erase, Erases
<1>5. CASE c = BACKSPACE /\ e = w
  <2>1. Erase(0)
    BY <1>5 DEF Consoleintr, KILL, BACKSPACE
  <2>2. Minus(e, 0) = e
    <3>1. 0 \in 0..(WORD - 1)  BY <1>2
    <3>2. Minus(e, 0) = IF 0 <= e THEN e - 0 ELSE e - 0 + WORD
      BY <1>2, <3>1, MinusIs
    <3> QED  BY <1>2, <3>2
  <2>3. Backspaces(pos, 0) = pos
    <3>1. pos \in 0..(ROWS * COLS - 1) /\ ROWS * COLS \in Int
      BY <1>1, SizesAre DEF Cursor
    <3> QED  BY <3>1 DEF Backspaces
  <2> QED  BY <2>1, <2>2, <2>3 DEF Erase, ring
<1>6. CASE c # KILL /\ c # BACKSPACE
  <2>1. Ordinary(c)
    BY <1>6 DEF Consoleintr
  <2>2. CASE c = "NO" \/ Minus(e, r) >= INPUT_BUF
    BY <2>1, <2>2 DEF Ordinary
  <2>3. CASE ~(c = "NO" \/ Minus(e, r) >= INPUT_BUF)
    <3>1. Minus(e, r) < INPUT_BUF
      BY <1>2, <2>3
    <3>2. /\ buf' = [buf EXCEPT ![e % INPUT_BUF] = c]
          /\ e' = (e + 1) % WORD /\ r' = r
          /\ pos' = Consputc(pos, c)
          /\ IF Finishes(c) THEN w' = e' /\ pc' = Woken ELSE UNCHANGED <<w, pc>>
      BY <2>1, <2>3 DEF Ordinary
    <3> QED  BY <3>1, <3>2 DEF Stores
  <2> QED  BY <2>2, <2>3
<1> QED  BY <1>3, <1>4, <1>5, <1>6

(* The cursor stays on the screen.                                         *)
LEMMA ConsputcIs ==
    ASSUME ConsoleAssumption, NEW q \in 0..(ROWS * COLS - 1), NEW c
    PROVE  Consputc(q, c) \in 0..(ROWS * COLS - 1)
<1>1. COLS \in Nat \ {0} /\ ROWS \in Nat \ {0}
  BY SizesAre
<1> DEFINE total == ROWS * COLS
           k == q \div COLS
           next == IF c = NL THEN q + COLS - (q % COLS) ELSE q + 1
           m == next \div COLS
<1>2. total \in Nat /\ total >= COLS
  <2>1. ROWS = 1 + (ROWS - 1) /\ ROWS - 1 \in Nat  BY <1>1
  <2>2. \A a, b \in Nat : (1 + a) * b = b + a * b /\ a * b \in Nat  BY SMT
  <2>3. (1 + (ROWS - 1)) * COLS = COLS + (ROWS - 1) * COLS /\ (ROWS - 1) * COLS \in Nat
    BY <1>1, <2>1, <2>2, Zenon
  <2>4. total = COLS + (ROWS - 1) * COLS
    BY <2>1, <2>3, Zenon
  <2> HIDE DEF total
  <2> DEFINE rest == (ROWS - 1) * COLS
  <2>5. rest \in Nat /\ total = COLS + rest  BY <2>3, <2>4
  <2> HIDE DEF rest
  <2> QED  BY <1>1, <2>5
<1>3. q \in Nat /\ q <= total - 1  BY <1>2
<1>4. q % COLS \in 0..(COLS - 1) /\ k \in Nat /\ q = COLS * k + (q % COLS)
  BY <1>1, <1>3, DivMod
<1>5. next \in Nat /\ next <= total /\ next >= 1
  <2>1. CASE c # NL
    <3>1. next = q + 1  BY <2>1
    <3> HIDE DEF next, total
    <3> QED  BY <1>2, <1>3, <3>1
  <2>2. CASE c = NL
    <3>1. next = q + COLS - (q % COLS)  BY <2>2
    <3>2. k + 1 <= ROWS
      <4>1. ASSUME NEW a \in Nat, NEW b \in Nat, NEW s \in Nat, a >= b
            PROVE  s * a >= b * s
        BY <4>1
      <4>2. k >= ROWS => COLS * k >= ROWS * COLS
        BY <1>1, <1>4, <4>1
      <4> DEFINE ck == COLS * k
      <4>3. ck \in Int  BY <1>1, <1>4
      <4>4. ~(ck >= total)
        <5> HIDE DEF ck, total, k
        <5> QED  BY <1>2, <1>3, <1>4, <4>3 DEF ck
      <4> QED  BY <1>1, <1>4, <4>2, <4>4
    <3>3. COLS * (k + 1) <= total
      <4>1. ASSUME NEW a \in Nat, NEW b \in Nat, NEW s \in Nat, a <= b
            PROVE  s * a <= b * s
        BY <4>1
      <4> QED  BY <1>1, <1>4, <3>2, <4>1
    <3>4. COLS * (k + 1) = COLS * k + COLS
      <4>1. \A a, b \in Nat : a * (b + 1) = a * b + a  BY SMT
      <4> QED  BY <1>1, <1>4, <4>1
    <3> DEFINE ck == COLS * k
    <3>5. ck \in Nat  BY <1>1, <1>4
    <3>6. next = ck + COLS
      <4>1. q = ck + (q % COLS)  BY <1>4
      <4> HIDE DEF ck, next
      <4> QED  BY <1>1, <1>4, <3>1, <3>5, <4>1
    <3>7. ck + COLS <= total  BY <3>3, <3>4
    <3> HIDE DEF ck, next, total
    <3> QED  BY <1>1, <3>5, <3>6, <3>7
  <2> QED  BY <2>1, <2>2
<1>6. next = total \/ next < total
  <2> HIDE DEF next, total
  <2> QED  BY <1>2, <1>5
<1> HIDE DEF next
<1>7. CASE next < total
  <2>1. next % COLS \in 0..(COLS - 1) /\ m \in Nat /\ next = COLS * m + (next % COLS)
    BY <1>1, <1>5, DivMod
  <2>2. m < ROWS
    <3>1. ASSUME NEW a \in Nat, NEW b \in Nat, NEW s \in Nat, a >= b
          PROVE  s * a >= b * s
      BY <3>1
    <3>2. m >= ROWS => COLS * m >= ROWS * COLS
      BY <1>1, <2>1, <3>1
    <3> DEFINE cm == COLS * m
    <3>3. cm \in Int  BY <1>1, <2>1
    <3>4. ~(cm >= total)
      <4>1. next = cm + (next % COLS)  BY <2>1
      <4> HIDE DEF cm, total, m
      <4> QED  BY <1>2, <1>7, <2>1, <3>3, <4>1
    <3> QED  BY <1>1, <2>1, <3>2, <3>4
  <2>3. Scrolled(next) = next
    BY <1>1, <2>1, <2>2 DEF Scrolled
  <2>4. Consputc(q, c) = next
    BY <2>3 DEF Consputc, next
  <2> HIDE DEF total
  <2>5. next \in 0..(total - 1)  BY <1>2, <1>5, <1>7
  <2> QED  BY <2>4, <2>5 DEF total
<1>8. CASE next = total
  <2>1. total \div COLS = ROWS
    <3>1. /\ total % COLS \in 0..(COLS - 1) /\ total \div COLS \in Nat
          /\ total = COLS * (total \div COLS) + (total % COLS)
      BY <1>1, <1>2, DivMod
    <3> DEFINE z == ROWS - (total \div COLS)
               x == total \div COLS
    <3>2. COLS * z = COLS * ROWS - COLS * x
      <4>1. x \in Int  BY <3>1
      <4> HIDE DEF x
      <4>2. \A a, b, s \in Int : s * (a - b) = s * a - s * b  BY SMT
      <4> QED  BY <1>1, <4>1, <4>2 DEF x
    <3>3. COLS * ROWS = total  BY <1>1
    <3> DEFINE cz == COLS * z
               cx == COLS * x
    <3>4. cx \in Int /\ z \in Int  BY <1>1, <3>1
    <3>5. cz = total % COLS
      <4>1. cz = total - cx  BY <3>2, <3>3
      <4>2. total = cx + (total % COLS)  BY <3>1
      <4> HIDE DEF cz, cx, total
      <4> QED  BY <1>2, <3>1, <3>4, <4>1, <4>2
    <3>6. COLS * z < COLS /\ -COLS < COLS * z
      <4>1. cz < COLS /\ -COLS < cz
        <5> HIDE DEF cz, total
        <5> QED  BY <1>1, <3>1, <3>5
      <4> QED  BY <4>1
    <3> HIDE DEF z
    <3>7. z = 0  BY <1>1, <3>4, <3>6, SmallMultiple, Zenon
    <3> QED  BY <1>1, <3>1, <3>7 DEF z
  <2>2. Scrolled(next) = total - COLS
    BY <1>1, <1>8, <2>1 DEF Scrolled
  <2>3. Consputc(q, c) = total - COLS
    BY <2>2 DEF Consputc, next
  <2> HIDE DEF total
  <2>4. total - COLS \in 0..(total - 1)  BY <1>1, <1>2
  <2> QED  BY <2>3, <2>4 DEF total
<1> QED  BY <1>6, <1>7, <1>8

-----------------------------------------------------------------------------
(* The inductive invariant.                                                *)

LEMMA InitIInv ==
    ASSUME ConsoleAssumption, ConsoleInit
    PROVE  IInv
<1>1. /\ WORD \in Nat \ {0} /\ INPUT_BUF \in Nat \ {0}
      /\ ROWS \in Nat \ {0} /\ COLS \in Nat \ {0}
  BY SizesAre
<1>2. r = 0 /\ w = 0 /\ e = 0 /\ 0 \in 0..(WORD - 1)
  BY <1>1 DEF ConsoleInit
<1>3. Minus(0, 0) = 0
  <2>1. Minus(0, 0) = IF 0 <= 0 THEN 0 - 0 ELSE 0 - 0 + WORD
    BY <1>2, MinusIs
  <2> QED  BY <2>1
<1>4. Types
  BY <1>2, CharsAre DEF Types, ConsoleInit
<1>5. Ring /\ Unfinished
  BY <1>1, <1>2, <1>3 DEF Ring, Unfinished
<1>6. Sleepers /\ Bits
  BY DEF Sleepers, Bits, BitFollows, OfKind, ConsoleInit
<1>7. Cursor
  <2>1. \A a, b \in Nat \ {0} : a * b \in Nat \ {0}  BY SMT
  <2>2. ROWS * COLS \in Nat \ {0}  BY <1>1, <2>1
  <2> DEFINE total == ROWS * COLS
  <2> HIDE DEF total
  <2>3. 0 \in 0..(total - 1)  BY <2>2 DEF total
  <2> QED  BY <2>3 DEF Cursor, ConsoleInit, total
<1> QED  BY <1>4, <1>5, <1>6, <1>7 DEF IInv

(* A character.                                                            *)
LEMMA ConsoleintrStep ==
    ASSUME ConsoleAssumption, IInv, NEW c \in Chars, Consoleintr(c)
    PROVE  Types' /\ Ring' /\ Unfinished' /\ Sleepers' /\ Cursor'
<1>1. Types /\ Ring /\ Unfinished /\ Sleepers /\ Cursor
  BY DEF IInv
<1>2. /\ r \in 0..(WORD - 1) /\ w \in 0..(WORD - 1) /\ e \in 0..(WORD - 1)
      /\ buf \in [0..(INPUT_BUF - 1) -> Chars]
      /\ pc \in [Readers -> {"idle", "loop", "tested", "asleep"}]
  BY <1>1 DEF Types
<1>3. /\ Minus(w, r) \in Nat /\ Minus(e, w) \in Nat /\ Minus(e, r) \in 0..INPUT_BUF
      /\ Minus(w, r) + Minus(e, w) = Minus(e, r) /\ INPUT_BUF \in Nat
  BY <1>1, SizesAre, RingIs DEF Ring
<1>4. pc' = Woken => \A p \in Readers : pc'[p] \in {"idle", "loop"}
  BY <1>2 DEF Consoleintr, LockFree, Woken
<1>5. Woken \in [Readers -> {"idle", "loop", "tested", "asleep"}]
  BY <1>2 DEF Woken
<1>6. CASE Stores(c)
  <2>1. /\ Minus(e, r) < INPUT_BUF /\ e' = (e + 1) % WORD /\ r' = r
        /\ buf' = [buf EXCEPT ![e % INPUT_BUF] = c] /\ pos' = Consputc(pos, c)
        /\ \/ Finishes(c) /\ w' = e' /\ pc' = Woken
           \/ ~Finishes(c) /\ w' = w /\ pc' = pc
    BY <1>6 DEF Stores
  <2>2. /\ buf' \in [0..(INPUT_BUF - 1) -> Chars] /\ e' \in 0..(WORD - 1)
        /\ Minus(e', r) = Minus(e, r) + 1 /\ Minus(e', w) = Minus(e, w) + 1
        /\ Minus(e', e') = 0
        /\ Finishes(c) <=> c \in {NL, EOT} \/ Minus(e, r) + 1 = INPUT_BUF
        /\ Content(buf', w, Minus(e, w) + 1) = Append(Stored(w, e), c)
    BY <1>1, <2>1, OrdinaryRing
  <2>3. Types'
    BY <1>2, <1>5, <2>1, <2>2 DEF Types
  <2>4. Cursor'
    BY <1>1, <2>1, ConsputcIs DEF Cursor
  <2>5. CASE Finishes(c) /\ w' = e' /\ pc' = Woken
    <3>1. Minus(w', r') = Minus(e', r') /\ Minus(e', w') = 0
      BY <2>1, <2>2, <2>5
    <3>2. Ring'
      BY <1>3, <2>1, <2>2, <2>5, <3>1, RingPrimed
    <3>3. Unfinished'
      BY <3>1, UnfinishedIs
    <3>4. Sleepers'
      BY <1>4, <2>5 DEF Sleepers
    <3> QED  BY <2>3, <2>4, <3>2, <3>3, <3>4
  <2>6. CASE ~Finishes(c) /\ w' = w /\ pc' = pc
    <3>1. Ring'
      BY <1>3, <2>1, <2>2, <2>6, RingPrimed
    <3>2. Unfinished'
      <4> DEFINE m == Minus(e, w) + 1
                 old == Stored(w, e)
      <4>1. c \in Chars /\ old \in Seq(Chars) /\ Len(old) = Minus(e, w)
            /\ \A i \in 1..Minus(e, w) : old[i] = buf[(w + i - 1) % INPUT_BUF]
        <5>1. /\ Content(buf, w, Minus(e, w)) \in Seq(Chars)
              /\ Len(Content(buf, w, Minus(e, w))) = Minus(e, w)
              /\ \A i \in 1..Minus(e, w) :
                     Content(buf, w, Minus(e, w))[i] = buf[(w + i - 1) % INPUT_BUF]
          BY <1>2, <1>3, ContentIs, Zenon
        <5> QED  BY <5>1, StoredIs, Zenon
      <4>2. \A i \in 1..m : Content(buf', w, m)[i] = buf'[(w + i - 1) % INPUT_BUF]
        <5>1. m \in Nat  BY <1>3
        <5> HIDE DEF m
        <5>2. ASSUME NEW d \in [0..(INPUT_BUF - 1) -> Chars], NEW j \in Nat
              PROVE  \A i \in 1..j : Content(d, w, j)[i] = d[(w + i - 1) % INPUT_BUF]
          BY <1>2, ContentIs
        <5> QED  BY <2>2, <5>1, <5>2
      <4> HIDE DEF old
      <4>3. /\ \A i \in 1..Minus(e, w) : Append(old, c)[i] = old[i]
            /\ Append(old, c)[m] = c
        BY <4>1, AppendProperties
      <4>4. c \notin {NL, EOT}  BY <2>2, <2>6
      <4> DEFINE app == Append(old, c)
      <4>5. Content(buf', w, m) = app
        BY <2>2 DEF old
      <4> HIDE DEF app
      <4>6. ASSUME NEW i \in 1..m
            PROVE  app[i] \notin {NL, EOT}
        <5>1. CASE i = m  BY <4>3, <4>4, <5>1 DEF app
        <5>2. CASE i \in 1..Minus(e, w)
          <6>1. old[i] \notin {NL, EOT}
            BY <1>1, <4>1, <5>2, UnfinishedIs
          <6> QED  BY <4>3, <5>2, <6>1 DEF app
        <5>3. i = m \/ i \in 1..Minus(e, w)  BY <1>3
        <5> QED  BY <5>1, <5>2, <5>3
      <4>7. Minus(e', w') = m /\ w' = w
        BY <2>2, <2>6
      <4> QED  BY <4>2, <4>5, <4>6, <4>7, UnfinishedIs
    <3>3. Sleepers'
      BY <1>1, <2>1, <2>6 DEF Sleepers
    <3> QED  BY <2>3, <2>4, <3>1, <3>2, <3>3
  <2> QED  BY <2>1, <2>5, <2>6
<1>7. ASSUME NEW k \in 0..Minus(e, w), Erases(k)
      PROVE  Types' /\ Ring' /\ Unfinished' /\ Sleepers' /\ Cursor'
  <2>1. e' = Minus(e, k) /\ pos' = Backspaces(pos, k) /\ UNCHANGED <<buf, r, w, pc>>
    BY <1>7 DEF Erases
  <2>2. /\ e' \in 0..(WORD - 1)
        /\ Minus(e', r) = Minus(e, r) - k /\ Minus(e', w) = Minus(e, w) - k
    BY <1>1, <2>1, EraseRing
  <2>3. Types'
    BY <1>2, <2>1, <2>2 DEF Types
  <2>4. Ring'
    <3>1. Minus(e', r) = INPUT_BUF => k = 0 /\ Minus(e, r) = INPUT_BUF
      BY <1>3, <2>2
    <3>2. Minus(e', r) = INPUT_BUF => e' = w
      <4> SUFFICES ASSUME Minus(e', r) = INPUT_BUF
                   PROVE  e' = w
        OBVIOUS
      <4>1. k = 0 /\ w = e  BY <1>1, <3>1 DEF Ring
      <4>2. 0 \in 0..(WORD - 1) /\ WORD \in Nat  BY <1>2, SizesAre
      <4>3. Minus(e, 0) = IF 0 <= e THEN e - 0 ELSE e - 0 + WORD
        BY <1>2, <4>2, MinusIs
      <4> QED  BY <1>2, <2>1, <4>1, <4>3
    <3> QED  BY <1>3, <2>1, <2>2, <3>2, RingPrimed
  <2>5. Unfinished'
    <3>1. \A i \in 1..Minus(e', w') : i \in 1..Minus(e, w)
      BY <1>3, <2>1, <2>2
    <3> QED  BY <1>1, <2>1, <3>1, UnfinishedIs
  <2>6. Sleepers'
    BY <1>1, <2>1 DEF Sleepers
  <2>7. Cursor'
    <3> DEFINE total == ROWS * COLS
    <3>1. total \in Int  BY SizesAre
    <3>2. pos \in 0..(total - 1)  BY <1>1 DEF Cursor
    <3>3. k \in Nat  BY <1>3
    <3> HIDE DEF total
    <3>4. Backspaces(pos, k) \in 0..(total - 1)
      BY <3>1, <3>2, <3>3 DEF Backspaces
    <3> QED  BY <2>1, <3>4 DEF Cursor, total
  <2> QED  BY <2>3, <2>4, <2>5, <2>6, <2>7
<1>8. CASE UNCHANGED <<ring, pos, pc>>
  BY <1>1, <1>8 DEF Types, Ring, Unfinished, Sleepers, Cursor, ring, Minus, At
<1>9. Erases(Minus(e, w)) => Minus(e, w) \in 0..Minus(e, w)
  BY DEF Erases
<1>10. Erases(1) => 1 \in 0..Minus(e, w)
  BY DEF Erases
<1> QED  BY <1>6, <1>7, <1>8, <1>9, <1>10, ConsoleintrCases

(* A reader takes what there is.                                           *)
LEMMA ConsolereadStep ==
    ASSUME ConsoleAssumption, IInv, NEW p \in Readers, Consoleread(p)
    PROVE  Types' /\ Ring' /\ Unfinished' /\ Sleepers' /\ Cursor'
<1> DEFINE k == Taken(p)
<1>1. Types /\ Ring /\ Unfinished /\ Sleepers /\ Cursor
  BY DEF IInv
<1>2. /\ r \in 0..(WORD - 1) /\ w \in 0..(WORD - 1) /\ e \in 0..(WORD - 1)
      /\ pc \in [Readers -> {"idle", "loop", "tested", "asleep"}]
      /\ INPUT_BUF \in Nat
  BY <1>1, SizesAre DEF Types
<1>3. /\ Minus(w, r) \in Nat /\ Minus(e, w) \in Nat /\ Minus(e, r) \in 0..INPUT_BUF
      /\ Minus(w, r) + Minus(e, w) = Minus(e, r)
  BY <1>1, RingIs DEF Ring
<1>4. k \in 0..Minus(w, r)
  BY <1>1, TakenIs
<1>5. /\ r' = (r + k) % WORD /\ r # w
      /\ \E s \in {"idle", "loop"} : pc' = [pc EXCEPT ![p] = s]
      /\ UNCHANGED <<buf, w, e, pos>>
  BY DEF Consoleread
<1> HIDE DEF k
<1>6. /\ r' \in 0..(WORD - 1)
      /\ Minus(w, r') = Minus(w, r) - k /\ Minus(e, r') = Minus(e, r) - k
  BY <1>2, <1>3, <1>4, <1>5, Follow
<1>7. Types'
  BY <1>1, <1>2, <1>5, <1>6 DEF Types
<1>8. Ring'
  <2>1. Minus(e, r') = INPUT_BUF => Minus(e, r) = INPUT_BUF
    BY <1>2, <1>3, <1>4, <1>6
  <2> QED  BY <1>1, <1>2, <1>3, <1>4, <1>5, <1>6, <2>1, RingPrimed DEF Ring
<1>9. Unfinished'
  BY <1>1, <1>5, UnfinishedIs
<1>10. Sleepers'
  BY <1>1, <1>2, <1>5 DEF Sleepers
<1>11. Cursor'
  BY <1>1, <1>5 DEF Cursor
<1> QED  BY <1>7, <1>8, <1>9, <1>10, <1>11

(* A key that gives no character.                                          *)
LEMMA KeyStep ==
    ASSUME IInv, NEW k \in Modifiers, KeyEscape(k) \/ Modifier(k)
    PROVE  Bits'
<1>1. \A b \in {"CTL", "SHIFT"} : BitFollows(b)
  BY DEF IInv, Bits
<1>2. CASE KeyEscape(k)
  <2>1. UNCHANGED <<held, both>> /\ \A b \in {"CTL", "SHIFT"} : b \in shift' <=> b \in shift
    BY <1>2 DEF KeyEscape
  <2> QED  BY <1>1, <2>1 DEF Bits, BitFollows, OfKind
<1>3. ASSUME Modifier(k), NEW b \in {"CTL", "SHIFT"}, b # Bit(k)
      PROVE  BitFollows(b)'
  <2>1. OfKind(b)' = OfKind(b)
    BY <1>3 DEF Modifier, OfKind
  <2>2. (b \in shift' <=> b \in shift) /\ (b \in both' <=> b \in both)
    BY <1>3 DEF Modifier, Codes
  <2> QED  BY <1>1, <2>1, <2>2 DEF BitFollows
<1>4. ASSUME Modifier(k), NEW b \in {"CTL", "SHIFT"}, b = Bit(k)
      PROVE  BitFollows(b)'
  <2>1. Others(k) = OfKind(b) \ {k}
    BY <1>4 DEF Others, OfKind
  <2>2. CASE held' = held \cup {k} /\ shift' = (shift \ {"E0ESC"}) \cup {Bit(k)}
             /\ both' = IF Others(k) = {} THEN both ELSE both \cup {Bit(k)}
    <3>1. b \in shift' /\ k \in OfKind(b)' /\ OfKind(b)' = Others(k) \cup {k}
      BY <1>4, <2>1, <2>2 DEF OfKind
    <3>2. b \notin both' => Others(k) = {}
      BY <1>4, <2>2
    <3> QED  BY <3>1, <3>2 DEF BitFollows
  <2>3. CASE k \in held /\ held' = held \ {k} /\ shift' = shift \ (Codes(k) \cup {"E0ESC"})
             /\ both' = IF Others(k) = {} THEN both \ {Bit(k)} ELSE both
    <3>1. b \notin shift' /\ k \in OfKind(b) /\ OfKind(b)' = Others(k)
      BY <1>4, <2>1, <2>3 DEF OfKind, Codes
    <3>2. b \notin both' => Others(k) = {}
      BY <1>1, <2>1, <2>3, <3>1 DEF BitFollows
    <3> QED  BY <3>1, <3>2 DEF BitFollows
  <2> QED  BY <1>4, <2>2, <2>3 DEF Modifier
<1>5. CASE Modifier(k)
  BY <1>3, <1>4, <1>5 DEF Bits
<1> QED  BY <1>2, <1>5

LEMMA IInvStep ==
    ASSUME ConsoleAssumption, IInv, [ConsoleNext]_consoleVars
    PROVE  IInv'
<1> DEFINE RingPart == Types /\ Ring /\ Unfinished /\ Sleepers /\ Cursor
<1>1. RingPart /\ Bits  BY DEF IInv
<1>2. UNCHANGED <<shift, held, both>> => Bits'
  BY <1>1 DEF Bits, BitFollows, OfKind
<1>3. UNCHANGED <<ring, pos, pc>> => RingPart'
  BY <1>1 DEF Types, Ring, Unfinished, Sleepers, Cursor, ring, Minus, At
<1>4. ASSUME NEW c \in Chars, Consoleintr(c), UNCHANGED <<shift, held, both>>
      PROVE  IInv'
  BY <1>2, <1>4, ConsoleintrStep DEF IInv
<1>5. ASSUME NEW k \in Modifiers, KeyEscape(k) \/ Modifier(k)
      PROVE  IInv'
  <2>1. Bits'  BY <1>5, KeyStep
  <2>2. UNCHANGED <<ring, pos, pc>>
    BY <1>5 DEF KeyEscape, Modifier, readers
  <2> QED  BY <1>3, <2>1, <2>2 DEF IInv
<1>6. CASE CapsLock
  <2>1. Bits'
    BY <1>1, <1>6 DEF CapsLock, Bits, BitFollows, OfKind
  <2>2. UNCHANGED <<ring, pos, pc>>
    BY <1>6 DEF CapsLock, readers
  <2> QED  BY <1>3, <2>1, <2>2 DEF IInv
<1>7. ASSUME NEW p \in Readers, Consoleread(p)
      PROVE  IInv'
  <2>1. UNCHANGED <<shift, held, both>>  BY <1>7 DEF Consoleread
  <2> QED  BY <1>2, <1>7, <2>1, ConsolereadStep DEF IInv
<1>8. ASSUME NEW p \in Readers,
             (\E size \in Sizes : Call(p, size)) \/ Test(p) \/ Sleep(p) \/ Kill(p)
      PROVE  IInv'
  <2>1. UNCHANGED <<shift, held, both>> /\ UNCHANGED ring /\ UNCHANGED pos
    BY <1>8 DEF Call, Test, Sleep, Kill
  <2>2. /\ pc \in [Readers -> {"idle", "loop", "tested", "asleep"}]
        /\ \A q \in Readers : pc[q] \in {"tested", "asleep"} => r = w
    BY <1>1 DEF Types, Sleepers
  <2>3. /\ pc' \in [Readers -> {"idle", "loop", "tested", "asleep"}]
        /\ \A q \in Readers : pc'[q] \in {"tested", "asleep"} => r = w
    BY <1>8, <2>2 DEF Call, Test, Sleep, Kill
  <2>4. Types' /\ Sleepers'
    BY <1>1, <2>1, <2>3 DEF Types, Sleepers, ring
  <2>5. Ring' /\ Unfinished' /\ Cursor'
    BY <1>1, <2>1 DEF Ring, Unfinished, Cursor, ring, Minus, At
  <2> QED  BY <1>2, <2>1, <2>4, <2>5 DEF IInv
<1>9. ASSUME NEW p \in Readers, Replace(p)
      PROVE  IInv'
  <2>1. UNCHANGED <<shift, held, both>> /\ UNCHANGED <<ring, pos, pc>>
    BY <1>9 DEF Replace
  <2> QED  BY <1>2, <1>3, <2>1 DEF IInv
<1>10. CASE UNCHANGED consoleVars
  <2>1. UNCHANGED <<shift, held, both>> /\ UNCHANGED <<ring, pos, pc>>
    BY <1>10 DEF consoleVars, ring
  <2> QED  BY <1>2, <1>3, <2>1 DEF IInv
<1>11. CASE ConsoleNext
  BY <1>4, <1>5, <1>6, <1>7, <1>8, <1>9, <1>11, NextCases
<1> QED  BY <1>10, <1>11

LEMMA SpecIInv ==
    ASSUME ConsoleAssumption
    PROVE  ConsoleSpec => []IInv
<1>1. ConsoleInit => IInv
  BY InitIInv
<1>2. IInv /\ [ConsoleNext]_consoleVars => IInv'
  BY IInvStep
<1> QED  BY <1>1, <1>2, PTL DEF ConsoleSpec

(* No reader sleeps while there is input for it, and the ring is never     *)
(* full of an unfinished line, which consoleintr() would refuse to end.    *)
THEOREM SpecNoMissedInput ==
    ASSUME ConsoleAssumption
    PROVE  ConsoleSpec => []NoMissedInput
<1>1. IInv => NoMissedInput
  BY DEF IInv, Sleepers, Ring, NoMissedInput
<1> QED  BY <1>1, SpecIInv, PTL

(* In any order of presses and releases no bit of kbdgetc() is stuck, and  *)
(* a key that is down has its bit unless two of its kind have been down    *)
(* together; and cgaputc() does not panic.                                 *)
THEOREM SpecModifiersFollowKeys ==
    ASSUME ConsoleAssumption
    PROVE  ConsoleSpec => []ModifiersFollowKeys
<1>1. IInv => ModifiersFollowKeys
  BY DEF IInv, Bits, BitFollows, OfKind, Cursor, ModifiersFollowKeys
<1> QED  BY <1>1, SpecIInv, PTL

-----------------------------------------------------------------------------
(* The refinement of Terminal.                                             *)

LEMMA StoredAre ==
    ASSUME ConsoleAssumption, Types, Ring
    PROVE  /\ Stored(w, e) \in Seq(Chars) /\ Len(Stored(w, e)) = Minus(e, w)
           /\ Stored(r, w) \in Seq(Chars) /\ Len(Stored(r, w)) = Minus(w, r)
           /\ \A i \in 1..Minus(w, r) : Stored(r, w)[i] = buf[(r + i - 1) % INPUT_BUF]
<1>1. /\ r \in 0..(WORD - 1) /\ w \in 0..(WORD - 1)
      /\ buf \in [0..(INPUT_BUF - 1) -> Chars]
  BY DEF Types
<1>2. Minus(w, r) \in Nat /\ Minus(e, w) \in Nat
  BY RingIs
<1>3. /\ Content(buf, w, Minus(e, w)) \in Seq(Chars)
      /\ Len(Content(buf, w, Minus(e, w))) = Minus(e, w)
  BY <1>1, <1>2, ContentIs, Zenon
<1>4. /\ Content(buf, r, Minus(w, r)) \in Seq(Chars)
      /\ Len(Content(buf, r, Minus(w, r))) = Minus(w, r)
      /\ \A i \in 1..Minus(w, r) :
             Content(buf, r, Minus(w, r))[i] = buf[(r + i - 1) % INPUT_BUF]
  BY <1>1, <1>2, ContentIs, Zenon
<1> QED  BY <1>3, <1>4, StoredIs, Zenon

(* A character that is stored is typed, or finishes the line.              *)
LEMMA StoresIsType ==
    ASSUME ConsoleAssumption, IInv, NEW c \in Chars, Stores(c)
    PROVE  T!Type(c) \/ T!Finish(c)
<1>1. Types /\ Ring
  BY DEF IInv
<1>2. /\ Minus(e, r) < INPUT_BUF /\ e' = (e + 1) % WORD /\ r' = r
      /\ buf' = [buf EXCEPT ![e % INPUT_BUF] = c]
      /\ \/ Finishes(c) /\ w' = e'
         \/ ~Finishes(c) /\ w' = w
  BY DEF Stores
<1>3. /\ Minus(e', r) = Minus(e, r) + 1 /\ Minus(e', w) = Minus(e, w) + 1
      /\ Minus(e', e') = 0
      /\ Finishes(c) <=> c \in {NL, EOT} \/ Minus(e, r) + 1 = INPUT_BUF
      /\ Content(buf', r, Minus(w, r)) = Stored(r, w)
      /\ Content(buf', w, Minus(e, w) + 1) = Append(Stored(w, e), c)
      /\ Content(buf', r, Minus(e, r) + 1) = Stored(r, w) \o Append(Stored(w, e), c)
  BY <1>1, <1>2, OrdinaryRing
<1>4. CASE ~Finishes(c) /\ w' = w
  <2>1. Stored(w, e)' = Append(Stored(w, e), c) /\ Stored(r, w)' = Stored(r, w)
    BY <1>2, <1>3, <1>4, StoredIs, Zenon
  <2>2. c \notin {NL, EOT}
    BY <1>3, <1>4, Zenon
  <2> QED  BY <2>1, <2>2, Zenon DEF T!Type
<1>5. CASE Finishes(c) /\ w' = e'
  <2>1. Stored(r, w)' = Stored(r, w) \o Append(Stored(w, e), c)
    BY <1>2, <1>3, <1>5, StoredIs, Zenon
  <2>2. Stored(w, e)' = << >>
    <3>1. Minus(e', w') = 0  BY <1>3, <1>5
    <3>2. 1..0 = {}  OBVIOUS
    <3>3. Content(buf', w', 0) = [i \in {} |-> buf'[(w' + i - 1) % INPUT_BUF]]
      BY <3>2 DEF Content
    <3>4. [i \in {} |-> buf'[(w' + i - 1) % INPUT_BUF]] = << >>
      OBVIOUS
    <3> QED  BY <3>1, <3>3, <3>4, StoredIs
  <2>3. c \in {NL, EOT} \/ Len(Stored(r, w)) + Len(Stored(w, e)) + 1 = INPUT_BUF
    <3>1. Len(Stored(r, w)) = Minus(w, r) /\ Len(Stored(w, e)) = Minus(e, w)
      BY <1>1, StoredAre, Zenon
    <3>2. Minus(w, r) + Minus(e, w) = Minus(e, r)
      BY <1>1 DEF Ring
    <3> QED  BY <1>3, <1>5, <3>1, <3>2
  <2> QED  BY <2>1, <2>2, <2>3, Zenon DEF T!Finish
<1> QED  BY <1>2, <1>4, <1>5

(* ^H and ^U.                                                              *)
LEMMA ErasesIsErase ==
    ASSUME ConsoleAssumption, IInv, NEW k \in 0..Minus(e, w), Erases(k)
    PROVE  /\ k = Minus(e, w) => T!KillLine
           /\ e # w /\ k = 1 => T!Erase
<1>1. Types /\ Ring
  BY DEF IInv
<1>2. e' = Minus(e, k) /\ UNCHANGED <<buf, r, w>>
  BY DEF Erases
<1>3. Content(buf', w', Minus(e', w')) = SubSeq(Stored(w, e), 1, Minus(e, w) - k)
  BY <1>1, <1>2, EraseRing
<1>4. Stored(w, e)' = SubSeq(Stored(w, e), 1, Minus(e, w) - k)
  BY <1>3, StoredIs
<1>5. Stored(r, w)' = Stored(r, w)
  BY <1>2, StoredIs
<1>6. Stored(w, e) \in Seq(Chars) /\ Len(Stored(w, e)) = Minus(e, w)
  BY <1>1, StoredAre
<1>7. ASSUME k = Minus(e, w)
      PROVE  T!KillLine
  <2>1. Minus(e, w) - k = 0  BY <1>1, <1>7, RingIs
  <2>2. SubSeq(Stored(w, e), 1, 0) = << >>
    BY SubSeqEmpty
  <2> QED  BY <1>4, <1>5, <2>1, <2>2 DEF T!KillLine
<1>8. ASSUME k = 1
      PROVE  T!Erase
  <2>1. Stored(w, e)' = T!Front(Stored(w, e))
    BY <1>4, <1>6, <1>8 DEF T!Front
  <2>2. Stored(w, e) # << >>
    <3>1. Minus(e, w) # 0  BY <1>8
    <3> QED  BY <1>6, <3>1, EmptySeq
  <2> QED  BY <1>5, <2>1, <2>2 DEF T!Erase
<1> QED  BY <1>7, <1>8

(* consoleread() takes characters in order, no more than a line.           *)
LEMMA ConsolereadIsTake ==
    ASSUME ConsoleAssumption, IInv, NEW p \in Readers, Consoleread(p)
    PROVE  \/ \E k \in 1..INPUT_BUF : T!Take(k)
           \/ Stored(w, e)' = Stored(w, e) /\ Stored(r, w)' = Stored(r, w)
<1> DEFINE k == Taken(p)
           all == Minus(w, r)
<1>1. Types /\ Ring
  BY DEF IInv
<1>2. /\ r \in 0..(WORD - 1) /\ w \in 0..(WORD - 1) /\ e \in 0..(WORD - 1)
      /\ buf \in [0..(INPUT_BUF - 1) -> Chars]
      /\ INPUT_BUF \in Nat /\ WORD \in Nat /\ INPUT_BUF < WORD
  BY <1>1, SizesAre DEF Types
<1>3. /\ all \in Nat /\ all <= INPUT_BUF
  <2>1. /\ Minus(w, r) \in Nat /\ Minus(e, w) \in Nat /\ Minus(e, r) \in 0..INPUT_BUF
        /\ Minus(w, r) + Minus(e, w) = Minus(e, r)
    BY <1>1, RingIs DEF Ring
  <2> QED  BY <1>2, <2>1
<1>4. /\ k \in 0..all
      /\ \A i \in 1..k : /\ buf[(r + i - 1) % INPUT_BUF] = NL => i = k
                         /\ buf[(r + i - 1) % INPUT_BUF] = EOT => k = 1
  BY <1>1, TakenIs
<1>5. r' = (r + k) % WORD /\ UNCHANGED <<buf, w, e>>
  BY DEF Consoleread
<1>6. Minus(w, r') = all - k
  <2>1. Minus(w, r) + Minus(e, w) = Minus(e, r)
    BY <1>1 DEF Ring
  <2> HIDE DEF k
  <2> QED  BY <1>2, <1>4, <1>5, <2>1, Follow
<1>7. Stored(w, e)' = Stored(w, e)
  BY <1>5, StoredIs
<1>8. /\ Stored(r, w)' = Content(buf, r', all - k)
      /\ Stored(r, w) = Content(buf, r, all)
  BY <1>5, <1>6, StoredIs
<1>9. /\ Len(Stored(r, w)) = all
      /\ \A i \in 1..all : Stored(r, w)[i] = buf[(r + i - 1) % INPUT_BUF]
  BY <1>1, StoredAre, Zenon
<1> HIDE DEF k, all
<1>10. CASE k = 0
  <2>1. r' = r
    <3>1. 0 \in 0..WORD  BY <1>2
    <3>2. (r + 0) % WORD = IF r + 0 < WORD THEN r + 0 ELSE r + 0 - WORD
      BY <1>2, <3>1, PlusIs
    <3> QED  BY <1>2, <1>5, <1>10, <3>2
  <2>2. all - k = all  BY <1>3, <1>10
  <2> QED  BY <1>7, <1>8, <2>1, <2>2
<1>11. CASE k # 0
  <2>1. k \in 1..INPUT_BUF /\ k <= all
    BY <1>2, <1>3, <1>4, <1>11
  <2>2. SubSeq(Content(buf, r, all), k + 1, all) = Content(buf, r', all - k)
    <3> DEFINE y == all - k
    <3>1. k \in Nat /\ y \in Nat /\ k + y < WORD /\ k + y = all
      BY <1>2, <1>3, <1>4, <2>1
    <3> HIDE DEF y
    <3>2. SubSeq(Content(buf, r, k + y), k + 1, k + y) = Content(buf, (r + k) % WORD, y)
      BY <1>2, <3>1, ContentSplit
    <3> QED  BY <1>5, <3>1, <3>2 DEF y
  <2>3. ASSUME NEW i \in 1..k
        PROVE  /\ Stored(r, w)[i] = NL => i = k
               /\ Stored(r, w)[i] = EOT => k = 1
    <3>1. i \in 1..all  BY <1>3, <1>4
    <3> QED  BY <1>4, <1>9, <3>1
  <2>4. Stored(r, w)' = SubSeq(Stored(r, w), k + 1, Len(Stored(r, w)))
    BY <1>8, <1>9, <2>2
  <2>5. T!Take(k)
    BY <1>7, <1>9, <2>1, <2>3, <2>4 DEF T!Take
  <2> QED  BY <2>1, <2>5
<1> QED  BY <1>10, <1>11

(* LineDiscipline: every step of the console is one of the terminal, or    *)
(* does not show in the line and in what is ready.                         *)
THEOREM SpecLineDiscipline ==
    ASSUME ConsoleAssumption
    PROVE  ConsoleSpec => LineDiscipline
<1>1. ConsoleInit => T!TInit
  <2> SUFFICES ASSUME ConsoleInit
               PROVE  T!TInit
    OBVIOUS
  <2>1. Types /\ Ring  BY InitIInv DEF IInv
  <2>2. r = 0 /\ w = 0 /\ e = 0 /\ 0 \in 0..(WORD - 1)
    BY <2>1 DEF ConsoleInit, Types
  <2>3. Minus(0, 0) = 0
    <3>1. Minus(0, 0) = IF 0 <= 0 THEN 0 - 0 ELSE 0 - 0 + WORD
      BY <2>2, MinusIs
    <3> QED  BY <3>1
  <2>4. Len(Stored(w, e)) = 0 /\ Len(Stored(r, w)) = 0
    BY <2>1, <2>2, <2>3, StoredAre
  <2>5. Stored(w, e) = << >> /\ Stored(r, w) = << >>
    BY <2>1, <2>4, StoredAre, EmptySeq
  <2> QED  BY <2>5 DEF T!TInit
<1>2. IInv /\ [ConsoleNext]_consoleVars
          => [T!TNext]_<<Stored(w, e), Stored(r, w)>>
  <2> SUFFICES ASSUME IInv, [ConsoleNext]_consoleVars
               PROVE  T!TNext \/ (Stored(w, e)' = Stored(w, e) /\ Stored(r, w)' = Stored(r, w))
    OBVIOUS
  <2> DEFINE Same == Stored(w, e)' = Stored(w, e) /\ Stored(r, w)' = Stored(r, w)
  <2>1. UNCHANGED ring => Same
    BY StoredIs DEF ring
  <2> HIDE DEF Same
  <2>2. ASSUME NEW c \in Chars, Consoleintr(c)
        PROVE  T!TNext \/ Same
    <3>1. CASE Stores(c)
      <4>1. T!Type(c) \/ T!Finish(c)
        BY <3>1, StoresIsType
      <4> QED  BY <4>1 DEF T!TNext
    <3>2. CASE Erases(Minus(e, w))
      <4>1. Minus(e, w) \in 0..Minus(e, w)
        BY <3>2 DEF Erases
      <4>2. T!KillLine
        BY <3>2, <4>1, ErasesIsErase
      <4> QED  BY <4>2 DEF T!TNext
    <3>3. CASE e # w /\ Erases(1)
      <4>1. 1 \in 0..Minus(e, w)
        BY <3>3 DEF Erases
      <4>2. T!Erase
        BY <3>3, <4>1, ErasesIsErase
      <4> QED  BY <4>2 DEF T!TNext
    <3>4. CASE UNCHANGED <<ring, pos, pc>>
      BY <2>1, <3>4
    <3> QED  BY <2>2, <3>1, <3>2, <3>3, <3>4, ConsoleintrCases
  <2>3. ASSUME NEW p \in Readers, Consoleread(p)
        PROVE  T!TNext \/ Same
    <3>1. (\E k \in 1..INPUT_BUF : T!Take(k)) \/ Same
      BY <2>3, ConsolereadIsTake DEF Same
    <3> QED  BY <3>1 DEF T!TNext
  <2>4. ASSUME NEW k \in Modifiers, KeyEscape(k) \/ Modifier(k)
        PROVE  Same
    BY <2>1, <2>4 DEF KeyEscape, Modifier
  <2>5. ASSUME CapsLock
        PROVE  Same
    BY <2>1, <2>5 DEF CapsLock
  <2>6. ASSUME NEW p \in Readers,
               \/ \E size \in Sizes : Call(p, size)
               \/ Test(p) \/ Sleep(p) \/ Kill(p) \/ Replace(p)
        PROVE  Same
    BY <2>1, <2>6 DEF Call, Test, Sleep, Kill, Replace
  <2>7. CASE UNCHANGED consoleVars
    BY <2>1, <2>7 DEF consoleVars, ring, Same
  <2>8. CASE ConsoleNext
    BY <2>2, <2>3, <2>4, <2>5, <2>6, <2>8, NextCases DEF Same
  <2> QED  BY <2>7, <2>8 DEF Same
<1> QED  BY <1>1, <1>2, SpecIInv, PTL DEF ConsoleSpec, LineDiscipline, T!TSpec
=============================================================================

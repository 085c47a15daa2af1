--------------------------- MODULE FileTableProofs -------------------------
(***************************************************************************)
(* Proofs about module FileTable, for any processes, any table sizes and   *)
(* whatever programs the processes run: every reference is counted.        *)
(*                                                                         *)
(* RefsCounted says nothing about a process in the middle of a call.       *)
(* IInv says where each reference is then: in a local variable or in a     *)
(* section to come that will put it.  SlotRefs and FileRefs count them;    *)
(* Shapes says which sections a process can have to do one after the       *)
(* other and what its local variables hold meanwhile; Lasts, Exiting and   *)
(* Opening what the last ones rest on; Contents and PipeEnds what is in a  *)
(* struct file.                                                            *)
(*                                                                         *)
(* The lemmas go from counting (how often a value occurs in a function     *)
(* that changes in a few places) to the stack of sections (what Then()     *)
(* does to it), then to the sections one by one, and at the end to the     *)
(* calls that start them.                                                  *)
(***************************************************************************)
EXTENDS FileTable, FiniteSetTheorems, SequenceTheorems, WellFoundedInduction, TLAPS

Slots == 1..NINODE
Files == 1..NFILE
Fds == 1..NOFILE

(* An entry of the inode cache that a section to come will put, or keep.   *)
SlotOf(x) ==
    IF x[1] \in {"iput", "idrop", "walk", "step", "chdir3"} THEN x[2]
    ELSE IF x[1] = "open4" THEN x[3] ELSE 0

(* A struct file that a section to come will close or put in a descriptor; *)
(* the two ends of a pipe.                                                 *)
FileOf(x) == IF x[1] \in {"fclose", "pipe1", "pipe2"} THEN x[2] ELSE 0
OtherOf(x) == IF x[1] = "pipe2" THEN x[3] ELSE 0

(* How often a function has a value; the sections count from the last one, *)
(* which does not move when others are pushed.                             *)
Where(f, v) == {x \in DOMAIN f : f[x] = v}
Count(f, v) == Cardinality(Where(f, v))
Ends(w) == [x \in (DOMAIN w) \X Nat |->
    IF x[2] \in 1..Len(w[x[1]]) THEN w[x[1]][Len(w[x[1]]) + 1 - x[2]] ELSE 0]

(* Who refers to entries of the inode cache and to struct files.           *)
Dirs == [p \in Procs |-> IF Leaving(p) THEN 0 ELSE cwd[p]]
Opened == [f \in Files |-> ftable[f].ip]
Locals == [x \in Procs \X {"r", "ip", "dp"} |-> reg[x[1]][x[2]]]
SlotsOf == [p \in Procs |-> [k \in 1..Len(todo[p]) |-> SlotOf(todo[p][k])]]
Descs == [x \in Procs \X Fds |-> ofile[x[1]][x[2]]]
FilesOf == [p \in Procs |-> [k \in 1..Len(todo[p]) |-> FileOf(todo[p][k])]]
OthersOf == [p \in Procs |-> [k \in 1..Len(todo[p]) |-> OtherOf(todo[p][k])]]

(* Every reference is counted once.                                        *)
SlotRefs ==
    \A s \in Slots :
        icache[s].ref = Count(Dirs, s) + Count(Opened, s) + Count(Locals, s)
                        + Count(Ends(SlotsOf), s)
FileRefs ==
    \A f \in Files :
        ftable[f].ref = Count(Descs, f) + Count(Ends(FilesOf), f) + Count(Ends(OthersOf), f)

-----------------------------------------------------------------------------
(* The sections that start with the local variables that hold an inode.    *)
CreateOps == {"create1", "create2", "create3", "create4"}
UsesR == {"create1", "open1", "link1", "link3", "unlink1", "mk1", "chdir1"}
UsesIp == {"create3", "create4", "open2", "open3", "link2", "link3", "link4", "link5",
           "unlink3", "unlink4"}
UsesDp == {"create2", "create4", "link4", "unlink2", "unlink3"}
MainOps == CreateOps \cup UsesR \cup UsesIp \cup UsesDp \cup {"chdir2"}

(* The last sections of a process that need local variables: none, one, or *)
(* what is left of create() and of the call that called it.                *)
Mains(td) ==
    IF td = << >> THEN 0
    ELSE IF td[Len(td)][1] \notin MainOps THEN 0
    ELSE IF Len(td) = 1 THEN 1
    ELSE IF td[Len(td) - 1][1] \in CreateOps THEN 2 ELSE 1
Needs(td) == td[Len(td) + 1 - Mains(td)][1]

(* What the variables hold when that section comes.                        *)
Holds(op, rg) ==
    /\ rg.r \in IF op \in UsesR THEN {0} \cup Slots ELSE IF op = "chdir2" THEN Slots ELSE {0}
    /\ rg.ip \in IF op \in UsesIp THEN Slots ELSE {0}
    /\ rg.dp \in IF op \in UsesDp THEN Slots ELSE {0}

(* The other sections, with such a section to come and without.            *)
InodeOps == {"iunlock", "iput", "ifree", "idrop"}
WalkOps == {"namex", "walk", "step"}
Within(x) ==
    \/ x[1] \in {"begin_op", "dirlink", "namex"}
    \/ x[1] \in InodeOps \cup {"ilock", "walk", "step"} /\ x[2] \in Slots
Outside(x) ==
    \/ x[1] \in {"begin_op", "end_op", "exit2"}
    \/ x[1] \in InodeOps \cup {"chdir3"} /\ x[2] \in Slots
    \/ x[1] = "open4" /\ x[2] \in Files /\ x[3] \in Slots
    \/ x[1] = "fclose" /\ x[2] \in Files
    \/ x[1] = "pipe1" /\ x[2] \in Files \cup {0}
    \/ x[1] = "pipe2" /\ x[2] \in Files /\ x[3] \in Files
    \/ x[1] = "exit1" /\ x[2] \in Fds /\ Len(x) = 2

Walking(td) == {k \in 1..Len(td) : td[k][1] \in WalkOps}
Shape(td, rg) ==
    LET n == Mains(td) IN
    /\ n = 0 => /\ \A k \in 1..Len(td) : Outside(td[k])
                /\ rg.r = 0 /\ rg.ip = 0 /\ rg.dp = 0
    /\ n > 0 => /\ \A k \in 1..(Len(td) - n) : Within(td[k])
                /\ Holds(Needs(td), rg)
                /\ \A k, l \in Walking(td) : k = l
                /\ Walking(td) # {} => rg.r = 0 /\ Needs(td) \in UsesR
    /\ n = 1 => td[Len(td)][1] \notin CreateOps
    /\ n = 2 => td[Len(td)][1] \in {"open1", "mk1"}
Shapes == \A p \in Procs : Shape(todo[p], reg[p])

(* These come last.                                                        *)
LastOps == {"open4", "chdir3", "exit2", "pipe1", "pipe2"}
Lasts == \A p \in Procs : \A k \in 1..Len(todo[p]) :
    todo[p][k][1] \in LastOps => k = Len(todo[p])

(* A process that is not there has nothing, and exit() closes all.         *)
Alive ==
    \A p \in Procs :
        /\ p \notin alive => /\ todo[p] = << >> /\ cwd[p] = 0
                             /\ \A fd \in Fds : ofile[p][fd] = 0
        /\ p \in alive /\ ~Leaving(p) => cwd[p] \in Slots
Exiting ==
    \A p \in Procs :
        /\ todo[p] # << >> /\ todo[p][Len(todo[p])][1] = "exit2" =>
             \A fd \in Fds : ofile[p][fd] # 0 =>
                 \E k \in 1..Len(todo[p]) : todo[p][k] = <<"exit1", fd>>
        /\ \A k \in 1..Len(todo[p]) : todo[p][k][1] = "exit1" =>
             todo[p][Len(todo[p])][1] = "exit2"

(* A struct file that open() or pipe() is about to fill in.                *)
New(f) == ftable[f].ref = 1 /\ ftable[f].type = "none"
Opening ==
    \A p \in Procs : \A k \in 1..Len(todo[p]) :
        /\ todo[p][k][1] = "open4" =>
             /\ New(todo[p][k][2]) /\ \E fd \in Fds : ofile[p][fd] = todo[p][k][2]
        /\ todo[p][k][1] = "pipe1" /\ todo[p][k][2] # 0 => New(todo[p][k][2])
        /\ todo[p][k][1] = "pipe2" => New(todo[p][k][2]) /\ New(todo[p][k][3])

(* The struct files: the inode of an open file is the one it was opened    *)
(* with, and each end of a pipe is one struct file.                        *)
Contents ==
    \A f \in Files :
        /\ ftable[f].ref = 0 => ftable[f] = Closed
        /\ ftable[f].type = "inode" =>
             ftable[f].ip \in Slots /\ icache[ftable[f].ip].inum = ftable[f].inum
        /\ ftable[f].type # "inode" => ftable[f].ip = 0
        /\ ftable[f].type = "pipe" => ftable[f].pipe \in Files
        /\ ftable[f].type # "pipe" => ftable[f].pipe = 0
PipeEnds ==
    /\ \A f, g \in Files :
         ftable[f].pipe = ftable[g].pipe /\ ftable[f].end = ftable[g].end /\ f # g =>
            ftable[f].pipe = 0
    /\ \A k \in Files : pipes[k] = {ftable[f].end : f \in {g \in Files : ftable[g].pipe = k}}

(* What the variables are.                                                 *)
IsSeq(q) == q \in Seq({q[k] : k \in 1..Len(q)})
Types ==
    /\ DOMAIN todo = Procs /\ \A p \in Procs : IsSeq(todo[p])
    /\ DOMAIN reg = Procs /\ \A p \in Procs : DOMAIN reg[p] = DOMAIN NoRegs
    /\ DOMAIN icache = Slots
    /\ \A s \in Slots : {"inum", "ref"} \subseteq DOMAIN icache[s]
    /\ ftable = [f \in Files |-> ftable[f]]
    /\ \A f \in Files : DOMAIN ftable[f] = DOMAIN Closed /\ ftable[f].end \in {"r", "w"}
    /\ ofile \in [Procs -> [Fds -> Files \cup {0}]]
    /\ cwd \in [Procs -> Slots \cup {0}]
    /\ DOMAIN pipes = Files
    /\ alive \subseteq Procs

Core ==
    /\ Types /\ SlotRefs /\ FileRefs /\ Shapes /\ Lasts /\ Alive /\ Exiting
    /\ Opening /\ Contents /\ PipeEnds
IInv == panicked = "no" => Core

-----------------------------------------------------------------------------
(* Operators on sequences and functions.                                   *)

Is(a, b) == IF a = b THEN 1 ELSE 0

LEMMA SeqFacts ==
    ASSUME NEW q, IsSeq(q)
    PROVE  /\ Len(q) \in Nat /\ DOMAIN q = 1..Len(q)
           /\ q # << >> => /\ Len(q) > 0 /\ Head(q) = q[1] /\ Len(Tail(q)) = Len(q) - 1
                           /\ \A k \in 1..(Len(q) - 1) : Tail(q)[k] = q[k + 1]
           /\ q = << >> <=> Len(q) = 0
  BY DEF IsSeq

LEMMA SeqIs ==
    ASSUME NEW S, NEW n \in Seq(S)
    PROVE  IsSeq(n)
<1>1. Len(n) \in Nat /\ n \in [1..Len(n) -> {n[k] : k \in 1..Len(n)}]
  OBVIOUS
<1>. QED
  BY <1>1 DEF IsSeq

(* What Then() makes of todo[p].                                           *)
LEMMA PushFacts ==
    ASSUME NEW q, IsSeq(q), q # << >>, NEW ops, IsSeq(ops)
    PROVE  /\ IsSeq(ops \o Tail(q))
           /\ Len(ops \o Tail(q)) = Len(ops) + Len(q) - 1
           /\ \A k \in 1..(Len(ops) + Len(q) - 1) :
                (ops \o Tail(q))[k] = IF k <= Len(ops) THEN ops[k] ELSE q[k - Len(ops) + 1]
<1>. DEFINE S == {q[k] : k \in 1..Len(q)} \cup {ops[k] : k \in 1..Len(ops)}
            n == ops \o Tail(q)
<1>1. q \in Seq(S) /\ ops \in Seq(S)
  BY DEF IsSeq
<1>2. Tail(q) \in Seq(S) /\ Len(Tail(q)) = Len(q) - 1
      /\ \A k \in 1..(Len(q) - 1) : Tail(q)[k] = q[k + 1]
  BY <1>1
<1>3. n \in Seq(S) /\ Len(n) = Len(ops) + Len(q) - 1
  BY <1>1, <1>2
<1>4. \A k \in 1..(Len(ops) + Len(q) - 1) :
        n[k] = IF k <= Len(ops) THEN ops[k] ELSE q[k - Len(ops) + 1]
  BY <1>1, <1>2
<1>5. IsSeq(n)
  BY <1>3, SeqIs
<1>. QED
  BY <1>3, <1>4, <1>5

(* f and g differ in A at most.                                            *)
Same(f, g, A) ==
    /\ DOMAIN g = DOMAIN f /\ A \subseteq DOMAIN f
    /\ \A x \in DOMAIN f : x \notin A => g[x] = f[x]
Finite(f, v) == IsFiniteSet(Where(f, v))

(* How many more times v is there when one, two or three values change.    *)
Moved(f, g, a, v) == Count(g, v) = Count(f, v) - Is(f[a], v) + Is(g[a], v)
Moved2(f, g, a, b, v) ==
    Count(g, v) = Count(f, v) - Is(f[a], v) - Is(f[b], v) + Is(g[a], v) + Is(g[b], v)
Moved3(f, g, a, b, c, v) ==
    Count(g, v) = Count(f, v) - Is(f[a], v) - Is(f[b], v) - Is(f[c], v)
                              + Is(g[a], v) + Is(g[b], v) + Is(g[c], v)

(* One value of a function changes.                                        *)
LEMMA CountOne ==
    ASSUME NEW f, NEW g, NEW a, NEW v, Same(f, g, {a}), Finite(f, v)
    PROVE  Finite(g, v) /\ Moved(f, g, a, v)
<1>. DEFINE A == Where(f, v)
            B == Where(g, v)
<1>0. /\ DOMAIN g = DOMAIN f /\ a \in DOMAIN f /\ IsFiniteSet(A)
      /\ \A x \in DOMAIN f : x # a => g[x] = f[x]
  BY DEF Same, Finite
<1>1. Cardinality(A) \in Nat
  BY <1>0, FS_CardinalityType
<1>2. A \ {a} = B \ {a}
  BY <1>0 DEF Where
<1>3. /\ IsFiniteSet(A \ {a})
      /\ Cardinality(A \ {a}) = IF a \in A THEN Cardinality(A) - 1 ELSE Cardinality(A)
  BY <1>0, FS_RemoveElement
<1>4. (a \in A <=> f[a] = v) /\ (a \in B <=> g[a] = v)
  BY <1>0 DEF Where
<1>. HIDE DEF A, B
<1>7. Cardinality(A \ {a}) = Cardinality(A) - Is(f[a], v)
  <2>1. Is(f[a], v) = IF a \in A THEN 1 ELSE 0
    BY <1>4 DEF Is
  <2>. QED
    BY <1>1, <1>3, <2>1
<1>5. CASE a \in B
  <2>1. B = (B \ {a}) \cup {a} /\ a \notin B \ {a}
    BY <1>5
  <2>2. IsFiniteSet(B) /\ Cardinality(B) = Cardinality(B \ {a}) + 1
    BY <1>2, <1>3, <2>1, FS_AddElement
  <2>3. Cardinality(B) = Cardinality(A) - Is(f[a], v) + 1
    BY <1>2, <1>7, <2>2
  <2>4. Is(g[a], v) = 1
    BY <1>4, <1>5 DEF Is
  <2>. QED
    BY <2>2, <2>3, <2>4 DEF Count, Finite, Moved, A, B
<1>6. CASE a \notin B
  <2>1. B = B \ {a}
    BY <1>6
  <2>2. Cardinality(B) = Cardinality(A) - Is(f[a], v) /\ IsFiniteSet(B)
    BY <1>2, <1>3, <1>7, <2>1
  <2>3. Is(g[a], v) = 0
    BY <1>4, <1>6 DEF Is
  <2>4. Cardinality(B) = Cardinality(A) - Is(f[a], v) + 0
    BY <1>1, <2>2 DEF Is
  <2>. QED
    BY <2>2, <2>3, <2>4 DEF Count, Finite, Moved, A, B
<1>. QED
  BY <1>5, <1>6

LEMMA CountNat ==
    ASSUME NEW f, NEW v, Finite(f, v)
    PROVE  Count(f, v) \in Nat
  BY FS_CardinalityType DEF Finite, Count

(* A function on a finite set.                                             *)
LEMMA CountFinite ==
    ASSUME NEW f, IsFiniteSet(DOMAIN f), NEW v
    PROVE  Finite(f, v) /\ Count(f, v) \in Nat
  BY FS_Subset, FS_CardinalityType DEF Where, Count, Finite

LEMMA CountSame ==
    ASSUME NEW f, NEW g, NEW v, DOMAIN g = DOMAIN f, \A x \in DOMAIN f : g[x] = f[x]
    PROVE  Count(g, v) = Count(f, v)
  BY DEF Where, Count

(* Something that is there is counted.                                     *)
LEMMA CountPositive ==
    ASSUME NEW f, NEW v, Finite(f, v), NEW x \in DOMAIN f, f[x] = v
    PROVE  Count(f, v) \in Nat /\ Count(f, v) > 0
<1>1. IsFiniteSet(Where(f, v)) /\ Where(f, v) # {}
  BY DEF Finite, Where
<1>. QED
  BY <1>1, FS_EmptySet, FS_CardinalityType DEF Count

LEMMA IsInt ==
    ASSUME NEW v
    PROVE  \A x : Is(x, v) \in Int
  BY DEF Is

(* Two or three values change.                                             *)
LEMMA CountTwo ==
    ASSUME NEW f, NEW g, NEW a, NEW b, NEW v, a # b, Same(f, g, {a, b}), Finite(f, v)
    PROVE  Finite(g, v) /\ Moved2(f, g, a, b, v)
<1>. DEFINE h == [x \in DOMAIN f |-> IF x = b THEN f[x] ELSE g[x]]
<1>1. Same(f, h, {a}) /\ Same(h, g, {b}) /\ h[a] = g[a] /\ h[b] = f[b]
  BY DEF Same
<1>. HIDE DEF h
<1>2. Finite(h, v) /\ Moved(f, h, a, v)
  BY <1>1, CountOne
<1>3. Finite(g, v) /\ Moved(h, g, b, v)
  BY <1>1, <1>2, CountOne
<1>4. Count(f, v) \in Int /\ Count(g, v) \in Int /\ Count(h, v) \in Int
  BY <1>2, <1>3, CountNat
<1>. QED
  BY <1>1, <1>2, <1>3, <1>4, IsInt DEF Moved, Moved2

LEMMA CountThree ==
    ASSUME NEW f, NEW g, NEW a, NEW b, NEW c, NEW v, a # b, a # c, b # c,
           Same(f, g, {a, b, c}), Finite(f, v)
    PROVE  Finite(g, v) /\ Moved3(f, g, a, b, c, v)
<1>. DEFINE h == [x \in DOMAIN f |-> IF x = c THEN f[x] ELSE g[x]]
<1>1. Same(f, h, {a, b}) /\ Same(h, g, {c}) /\ h[a] = g[a] /\ h[b] = g[b] /\ h[c] = f[c]
  BY DEF Same
<1>. HIDE DEF h
<1>2. Finite(h, v) /\ Moved2(f, h, a, b, v)
  BY <1>1, CountTwo
<1>3. Finite(g, v) /\ Moved(h, g, c, v)
  BY <1>1, <1>2, CountOne
<1>4. Count(f, v) \in Int /\ Count(g, v) \in Int /\ Count(h, v) \in Int
  BY <1>2, <1>3, CountNat
<1>. QED
  BY <1>1, <1>2, <1>3, <1>4, IsInt DEF Moved, Moved2, Moved3

(* The sections of a process are finitely many.                            *)
LEMMA EndsFinite ==
    ASSUME NEW w, IsFiniteSet(DOMAIN w), \A p \in DOMAIN w : Len(w[p]) \in Nat,
           NEW v, v # 0
    PROVE  Finite(Ends(w), v)
<1>. DEFINE Row(p) == {p} \X (1..Len(w[p]))
            rows == [p \in DOMAIN w |-> Row(p)]
<1>1. \A p \in DOMAIN w : IsFiniteSet(Row(p))
  <2>. TAKE p \in DOMAIN w
  <2>1. IsFiniteSet({p})
    BY FS_Singleton
  <2>2. Len(w[p]) \in Int /\ 1 \in Int
    OBVIOUS
  <2>3. IsFiniteSet(1..Len(w[p]))
    BY <2>2, FS_Interval
  <2>. QED
    BY <2>1, <2>3, FS_Product
<1>2. IsFiniteSet(Range(rows))
  <2>1. rows \in [DOMAIN w -> Range(rows)] /\ \A t \in Range(rows) : \E p \in DOMAIN w : rows[p] = t
    BY DEF Range
  <2>. HIDE DEF rows
  <2>2. rows \in Surjection(DOMAIN w, Range(rows))
    BY <2>1 DEF Surjection
  <2>. QED
    BY <2>2, FS_Surjection
<1>3. \A r \in Range(rows) : IsFiniteSet(r)
  BY <1>1 DEF Range
<1>4. IsFiniteSet(UNION Range(rows))
  BY <1>2, <1>3, FS_UNION
<1>5. Where(Ends(w), v) \subseteq UNION Range(rows)
  <2>. SUFFICES ASSUME NEW x \in Where(Ends(w), v)
                PROVE  x \in UNION Range(rows)
    OBVIOUS
  <2>1. x \in (DOMAIN w) \X Nat /\ x[2] \in 1..Len(w[x[1]])
    BY DEF Where, Ends
  <2>2. x \in Row(x[1]) /\ x[1] \in DOMAIN w
    BY <2>1
  <2>3. Row(x[1]) \in Range(rows)
    BY <2>2 DEF Range
  <2>. QED
    BY <2>2, <2>3
<1>. QED
  BY <1>4, <1>5, FS_Subset DEF Finite

(* Five values change.                                                     *)
Sum5(m, v) == Is(m[1], v) + Is(m[2], v) + Is(m[3], v) + Is(m[4], v) + Is(m[5], v)
At5(f, P) == [k \in 1..5 |-> f[P[k]]]
Moved5(f, g, P, v) == Count(g, v) = Count(f, v) - Sum5(At5(f, P), v) + Sum5(At5(g, P), v)

LEMMA CountFive ==
    ASSUME NEW f, NEW g, NEW P, NEW v, \A j, k \in 1..5 : j # k => P[j] # P[k],
           Same(f, g, {P[k] : k \in 1..5}), Finite(f, v)
    PROVE  Finite(g, v) /\ Moved5(f, g, P, v)
<1>. DEFINE h == [x \in DOMAIN f |-> IF x \in {P[4], P[5]} THEN f[x] ELSE g[x]]
<1>1. 1..5 = {1, 2, 3, 4, 5}
  OBVIOUS
<1>2. /\ DOMAIN g = DOMAIN f /\ {P[1], P[2], P[3], P[4], P[5]} \subseteq DOMAIN f
      /\ \A x \in DOMAIN f : x \notin {P[1], P[2], P[3], P[4], P[5]} => g[x] = f[x]
  BY <1>1 DEF Same
<1>3. P[1] # P[2] /\ P[1] # P[3] /\ P[2] # P[3] /\ P[4] # P[5]
      /\ P[4] \notin {P[1], P[2], P[3]} /\ P[5] \notin {P[1], P[2], P[3]}
  BY <1>1
<1>4. /\ Same(f, h, {P[1], P[2], P[3]}) /\ Same(h, g, {P[4], P[5]})
      /\ h[P[1]] = g[P[1]] /\ h[P[2]] = g[P[2]] /\ h[P[3]] = g[P[3]]
      /\ h[P[4]] = f[P[4]] /\ h[P[5]] = f[P[5]]
  BY <1>2, <1>3 DEF Same
<1>. HIDE DEF h
<1>5. Finite(h, v) /\ Moved3(f, h, P[1], P[2], P[3], v)
  BY <1>3, <1>4, CountThree
<1>6. Finite(g, v) /\ Moved2(h, g, P[4], P[5], v)
  BY <1>3, <1>4, <1>5, CountTwo
<1>7. Count(f, v) \in Int /\ Count(g, v) \in Int /\ Count(h, v) \in Int
  BY <1>5, <1>6, CountNat
<1>8. /\ Sum5(At5(f, P), v) = Is(f[P[1]], v) + Is(f[P[2]], v) + Is(f[P[3]], v) + Is(f[P[4]], v)
                                               + Is(f[P[5]], v)
      /\ Sum5(At5(g, P), v) = Is(g[P[1]], v) + Is(g[P[2]], v) + Is(g[P[3]], v) + Is(g[P[4]], v)
                                               + Is(g[P[5]], v)
  BY DEF Sum5, At5
<1>. QED
  BY <1>4, <1>5, <1>6, <1>7, <1>8, IsInt DEF Moved2, Moved3, Moved5

(* Where the first n of five numbers are the others turned around.         *)
LEMMA SumTurned ==
    ASSUME NEW m, NEW z, NEW v, v # 0, NEW n \in 0..5, \A k \in 1..5 : k > n => m[k] = 0,
           \A k \in 1..5 : z[k] = IF k <= n THEN m[n + 1 - k] ELSE 0
    PROVE  Sum5(z, v) = Sum5(m, v)
<1>1. Is(0, v) = 0 /\ \A x : Is(x, v) \in Int
  BY DEF Is
<1>2. CASE n = 0
  <2>1. z[1] = 0 /\ z[2] = 0 /\ z[3] = 0 /\ z[4] = 0 /\ z[5] = 0
    BY <1>2
  <2>2. m[1] = 0 /\ m[2] = 0 /\ m[3] = 0 /\ m[4] = 0 /\ m[5] = 0
    BY <1>2
  <2>. QED
    BY <1>1, <2>1, <2>2 DEF Sum5
<1>3. CASE n = 1
  <2>1. z[1] = m[1] /\ z[2] = 0 /\ z[3] = 0 /\ z[4] = 0 /\ z[5] = 0
    BY <1>3
  <2>2. m[2] = 0 /\ m[3] = 0 /\ m[4] = 0 /\ m[5] = 0
    BY <1>3
  <2>. QED
    BY <1>1, <2>1, <2>2 DEF Sum5
<1>4. CASE n = 2
  <2>1. z[1] = m[2] /\ z[2] = m[1] /\ z[3] = 0 /\ z[4] = 0 /\ z[5] = 0
    BY <1>4
  <2>2. m[3] = 0 /\ m[4] = 0 /\ m[5] = 0
    BY <1>4
  <2>. QED
    BY <1>1, <2>1, <2>2 DEF Sum5
<1>5. CASE n = 3
  <2>1. z[1] = m[3] /\ z[2] = m[2] /\ z[3] = m[1] /\ z[4] = 0 /\ z[5] = 0
    BY <1>5
  <2>2. m[4] = 0 /\ m[5] = 0
    BY <1>5
  <2>. QED
    BY <1>1, <2>1, <2>2 DEF Sum5
<1>6. CASE n = 4
  <2>1. z[1] = m[4] /\ z[2] = m[3] /\ z[3] = m[2] /\ z[4] = m[1] /\ z[5] = 0
    BY <1>6
  <2>2. m[5] = 0
    BY <1>6
  <2>. QED
    BY <1>1, <2>1, <2>2 DEF Sum5
<1>7. CASE n = 5
  <2>1. z[1] = m[5] /\ z[2] = m[4] /\ z[3] = m[3] /\ z[4] = m[2] /\ z[5] = m[1]
    BY <1>7
  <2>. QED
    BY <1>1, <2>1 DEF Sum5
<1>. QED
  BY <1>2, <1>3, <1>4, <1>5, <1>6, <1>7

(* The first of a row of numbers makes way for up to five others.          *)
Pushed(w, w2, p, m, n) ==
    /\ DOMAIN w2 = DOMAIN w /\ p \in DOMAIN w /\ n \in 0..5
    /\ Len(w[p]) \in Nat \ {0} /\ Len(w2[p]) = Len(w[p]) - 1 + n
    /\ \A q \in DOMAIN w : q # p => w2[q] = w[q]
    /\ \A k \in 1..5 : k > n => m[k] = 0
    /\ \A k \in 1..Len(w2[p]) : w2[p][k] = IF k <= n THEN m[k] ELSE w[p][k - n + 1]
MovedEnds(w, w2, p, m, v) ==
    Count(Ends(w2), v) = Count(Ends(w), v) - Is(w[p][1], v) + Sum5(m, v)

LEMMA PushCounts ==
    ASSUME NEW w, NEW w2, NEW p, NEW m, NEW n, NEW v, v # 0, Pushed(w, w2, p, m, n),
           Finite(Ends(w), v)
    PROVE  MovedEnds(w, w2, p, m, v)
<1>. DEFINE L == Len(w[p])
            f == Ends(w)
            g == Ends(w2)
            P == [k \in 1..5 |-> <<p, L - 1 + k>>]
<1>0. L \in Nat \ {0} /\ p \in DOMAIN w /\ n \in 0..5 /\ Len(w2[p]) = L - 1 + n
  BY DEF Pushed
<1>1. DOMAIN f = (DOMAIN w) \X Nat /\ DOMAIN g = DOMAIN f
  BY DEF Ends, Pushed
<1>2. \A k \in 1..5 : P[k] \in DOMAIN f /\ P[k] = <<p, L - 1 + k>>
  BY <1>0, <1>1
<1>3. \A q \in DOMAIN w : \A j \in Nat :
        /\ f[<<q, j>>] = IF j \in 1..Len(w[q]) THEN w[q][Len(w[q]) + 1 - j] ELSE 0
        /\ g[<<q, j>>] = IF j \in 1..Len(w2[q]) THEN w2[q][Len(w2[q]) + 1 - j] ELSE 0
  BY <1>1 DEF Ends
<1>4. f[P[1]] = w[p][1] /\ \A k \in 2..5 : f[P[k]] = 0
  <2>1. f[<<p, L>>] = w[p][1]
    BY <1>0, <1>3
  <2>2. \A k \in 2..5 : f[<<p, L - 1 + k>>] = 0
    BY <1>0, <1>3
  <2>3. L - 1 + 1 = L
    BY <1>0
  <2>. QED
    BY <1>2, <2>1, <2>2, <2>3
<1>5. \A k \in 1..5 : g[P[k]] = IF k <= n THEN m[n + 1 - k] ELSE 0
  <2>. TAKE k \in 1..5
  <2>1. g[<<p, L - 1 + k>>] = IF L - 1 + k \in 1..Len(w2[p])
                              THEN w2[p][Len(w2[p]) + 1 - (L - 1 + k)] ELSE 0
    <3>. DEFINE j == L - 1 + k
    <3>1. j \in Nat
      BY <1>0
    <3>2. g[<<p, j>>] = IF j \in 1..Len(w2[p]) THEN w2[p][Len(w2[p]) + 1 - j] ELSE 0
      BY <1>0, <1>3, <3>1
    <3>. QED
      BY <3>2
  <2>2. Len(w2[p]) + 1 - (L - 1 + k) = n + 1 - k /\ (L - 1 + k \in 1..Len(w2[p]) <=> k <= n)
    BY <1>0
  <2>3. CASE k <= n
    <3>1. n + 1 - k \in 1..Len(w2[p]) /\ n + 1 - k <= n
      BY <1>0, <2>3
    <3>2. w2[p][n + 1 - k] = m[n + 1 - k]
      BY <3>1 DEF Pushed
    <3>. QED
      BY <1>2, <2>1, <2>2, <2>3, <3>2
  <2>. QED
    BY <1>2, <2>1, <2>2, <2>3
<1>6. \A q \in DOMAIN w : \A j \in Nat :
        (\A k \in 1..5 : <<q, j>> # P[k]) => g[<<q, j>>] = f[<<q, j>>]
  <2>. SUFFICES ASSUME NEW q \in DOMAIN w, NEW j \in Nat, \A k \in 1..5 : <<q, j>> # P[k]
                PROVE  g[<<q, j>>] = f[<<q, j>>]
    OBVIOUS
  <2>1. CASE q # p
    <3>1. w2[q] = w[q]
      BY <2>1 DEF Pushed
    <3>. QED
      BY <1>3, <3>1
  <2>2. CASE q = p
    <3>1. \A k \in 1..5 : j # L - 1 + k
      BY <1>2, <2>2
    <3>2. j < L \/ j > L + 4
      BY <1>0, <3>1
    <3>3. CASE j = 0 \/ j > L + 4
      BY <1>0, <1>3, <2>2, <3>3
    <3>4. CASE j \in 1..(L - 1)
      <4>1. j \in 1..Len(w2[p]) /\ j \in 1..L /\ Len(w2[p]) + 1 - j = L + n - j
            /\ L + n - j \in 1..Len(w2[p]) /\ ~(L + n - j <= n) /\ L + n - j - n + 1 = L + 1 - j
        BY <1>0, <3>4
      <4>2. w2[p][L + n - j] = w[p][L + n - j - n + 1]
        BY <4>1 DEF Pushed
      <4>3. g[<<p, j>>] = w2[p][L + n - j] /\ f[<<p, j>>] = w[p][L + 1 - j]
        BY <1>0, <1>3, <4>1
      <4>. QED
        BY <2>2, <4>1, <4>2, <4>3
    <3>. QED
      BY <1>0, <3>2, <3>3, <3>4
  <2>. QED
    BY <2>1, <2>2
<1>7. \A j, k \in 1..5 : j # k => P[j] # P[k]
  BY <1>0, <1>2
<1>8. Same(f, g, {P[k] : k \in 1..5})
  BY <1>1, <1>2, <1>6 DEF Same
<1>9. Finite(g, v) /\ Moved5(f, g, P, v)
  <2>. HIDE DEF P, f, g
  <2>. QED
    BY <1>7, <1>8, CountFive DEF f
<1>10. Sum5(At5(g, P), v) = Sum5(m, v)
  <2>1. \A k \in 1..5 : k > n => m[k] = 0
    BY DEF Pushed
  <2>2. \A k \in 1..5 : At5(g, P)[k] = IF k <= n THEN m[n + 1 - k] ELSE 0
    BY <1>5 DEF At5
  <2>. HIDE DEF P, f, g
  <2>. QED
    BY <1>0, <2>1, <2>2, SumTurned
<1>11. Sum5(At5(f, P), v) = Is(w[p][1], v)
  <2>1. /\ At5(f, P)[1] = w[p][1] /\ At5(f, P)[2] = 0 /\ At5(f, P)[3] = 0
        /\ At5(f, P)[4] = 0 /\ At5(f, P)[5] = 0
    BY <1>4 DEF At5
  <2>2. Is(0, v) = 0
    BY DEF Is
  <2>. HIDE DEF P, f, g
  <2>. QED
    BY <2>1, <2>2, IsInt DEF Sum5
<1>. HIDE DEF P
<1>. QED
  BY <1>9, <1>10, <1>11 DEF MovedEnds, Moved5

-----------------------------------------------------------------------------
(* The shape of what a process has to do.                                  *)

LEMMA ZeroOneMore ==
    \A x \in Nat : x = 0 \/ x = 1 \/ x > 1
  OBVIOUS

LEMMA MainsIs ==
    ASSUME NEW q, IsSeq(q)
    PROVE  /\ Mains(q) \in 0..2 /\ Mains(q) <= Len(q)
           /\ Mains(q) > 0 => Needs(q) \in MainOps /\ q[Len(q)][1] \in MainOps
           /\ Mains(q) = 1 => Needs(q) = q[Len(q)][1]
           /\ Mains(q) = 2 => Needs(q) = q[Len(q) - 1][1] /\ Needs(q) \in CreateOps
<1>0. Len(q) \in Nat
  BY SeqFacts
<1>1. Len(q) \in Nat /\ (q = << >> <=> Len(q) = 0)
  BY SeqFacts
<1>2. Mains(q) \in 0..2 /\ Mains(q) <= Len(q)
  <2>1. CASE Len(q) = 0
    BY <1>1, <2>1 DEF Mains
  <2>2. CASE Len(q) = 1
    BY <1>1, <2>2 DEF Mains
  <2>3. CASE Len(q) > 1
    <3>1. Mains(q) \in {0, 1, 2}
      BY DEF Mains
    <3>. QED
      BY <1>1, <2>3, <3>1
  <2>4. Len(q) = 0 \/ Len(q) = 1 \/ Len(q) > 1
    BY <1>0, ZeroOneMore
  <2>. QED
    BY <2>1, <2>2, <2>3, <2>4
<1>3. Mains(q) > 0 => q[Len(q)][1] \in MainOps
  BY DEF Mains
<1>4. Mains(q) = 1 => Needs(q) = q[Len(q)][1]
  BY <1>1 DEF Needs
<1>5. Mains(q) = 2 => Needs(q) = q[Len(q) - 1][1] /\ Needs(q) \in CreateOps
  <2>1. Mains(q) = 2 => q[Len(q) - 1][1] \in CreateOps
    BY DEF Mains
  <2>2. Mains(q) = 2 => Len(q) + 1 - Mains(q) = Len(q) - 1
    BY <1>1
  <2>. QED
    BY <2>1, <2>2 DEF Needs
<1>6. CreateOps \subseteq MainOps
  BY DEF MainOps
<1>. QED
  BY <1>2, <1>3, <1>4, <1>5, <1>6

(* Sections that need no local variables.                                  *)
NoInodes(rg) == rg.r = 0 /\ rg.ip = 0 /\ rg.dp = 0

LEMMA OpsApart ==
    /\ \A x : Outside(x) => x[1] \notin MainOps /\ x[1] \notin WalkOps
    /\ \A x : Within(x) => x[1] \notin MainOps /\ x[1] \notin CreateOps
    /\ CreateOps \subseteq MainOps /\ WalkOps \cap MainOps = {}
  BY DEF Outside, Within, MainOps, CreateOps, UsesR, UsesIp, UsesDp, InodeOps, WalkOps

LEMMA ShapeOutside ==
    ASSUME NEW t, IsSeq(t), \A k \in 1..Len(t) : Outside(t[k]), NEW rg, NoInodes(rg)
    PROVE  Shape(t, rg)
<1>1. Len(t) \in Nat /\ (t = << >> <=> Len(t) = 0)
  BY SeqFacts
<1>2. t # << >> => t[Len(t)][1] \notin MainOps
  BY <1>1, OpsApart
<1>3. Mains(t) = 0
  BY <1>2 DEF Mains
<1>. QED
  BY <1>3 DEF Shape, NoInodes

(* Sections of which the last n, one or two, are the parts of a call.      *)
LEMMA ShapeWithin ==
    ASSUME NEW t, IsSeq(t), NEW n \in {1, 2}, n <= Len(t), NEW op, op = t[Len(t) + 1 - n][1],
           NEW rg, Holds(op, rg),
           t[Len(t)][1] \in MainOps \ CreateOps,
           n = 2 => t[Len(t)][1] \in {"open1", "mk1"} /\ t[Len(t) - 1][1] \in CreateOps,
           \A k \in 1..(Len(t) - n) : Within(t[k]),
           \A k, l \in Walking(t) : k = l,
           Walking(t) # {} => rg.r = 0 /\ op \in UsesR
    PROVE  Shape(t, rg) /\ Mains(t) = n
<1>0. Len(t) \in Nat
  BY SeqFacts
<1>1. Len(t) \in Nat /\ (t = << >> <=> Len(t) = 0)
  BY SeqFacts
<1>2. Mains(t) = n
  <2>1. CASE n = 1 /\ Len(t) = 1
    BY <1>1, <2>1 DEF Mains
  <2>2. CASE n = 1 /\ Len(t) > 1
    <3>1. Within(t[Len(t) - 1])
      BY <1>1, <2>2
    <3>2. t[Len(t) - 1][1] \notin CreateOps
      BY <3>1, OpsApart
    <3>. QED
      BY <1>1, <2>2, <3>2 DEF Mains
  <2>3. CASE n = 2
    BY <1>1, <2>3 DEF Mains
  <2>4. n = 1 \/ n = 2
    OBVIOUS
  <2>5. n = 1 => Len(t) = 1 \/ Len(t) > 1
    <3>1. Len(t) = 0 \/ Len(t) = 1 \/ Len(t) > 1
      BY <1>0, ZeroOneMore
    <3>. QED
      BY <3>1
  <2>. QED
    BY <2>1, <2>2, <2>3, <2>4, <2>5
<1>3. Needs(t) = op
  BY <1>2 DEF Needs
<1>. QED
  BY <1>2, <1>3 DEF Shape

(* The next section is one of the others.                                  *)
LEMMA HeadInner ==
    ASSUME NEW q, IsSeq(q), q # << >>, NEW rg, Shape(q, rg), q[1][1] \notin MainOps
    PROVE  /\ Mains(q) < Len(q)
           /\ Mains(q) = 0 => Outside(q[1]) /\ NoInodes(rg)
           /\ Mains(q) > 0 => Within(q[1]) /\ Holds(Needs(q), rg)
           /\ Mains(q) > 0 /\ q[1][1] \in WalkOps => rg.r = 0 /\ Needs(q) \in UsesR
           /\ q[Len(q)][1] \in {"chdir3", "exit2"} => Mains(q) = 0
<1>1. Len(q) \in Nat /\ Len(q) > 0
  BY SeqFacts
<1>2. Mains(q) \in 0..2 /\ Mains(q) <= Len(q)
  BY MainsIs
<1>3. Mains(q) # Len(q)
  <2>1. CASE Mains(q) = 1
    BY <1>1, <2>1, MainsIs
  <2>2. CASE Mains(q) = 2
    <3>1. q[Len(q) - 1][1] \in CreateOps
      BY <2>2, MainsIs
    <3>2. Mains(q) = Len(q) => Len(q) - 1 = 1
      BY <2>2
    <3>3. Mains(q) = Len(q) => q[Len(q) - 1][1] = q[1][1]
      BY <3>2
    <3>. QED
      BY <3>1, <3>3, OpsApart
  <2>. QED
    BY <1>1, <1>2, <2>1, <2>2
<1>4. Mains(q) = 0 => Outside(q[1]) /\ NoInodes(rg)
  BY <1>1 DEF Shape, NoInodes
<1>5. Mains(q) > 0 => Within(q[1]) /\ Holds(Needs(q), rg)
  BY <1>1, <1>2, <1>3 DEF Shape
<1>6. q[1][1] \in WalkOps => 1 \in Walking(q)
  BY <1>1 DEF Walking
<1>7. Mains(q) > 0 /\ q[1][1] \in WalkOps => rg.r = 0 /\ Needs(q) \in UsesR
  BY <1>6 DEF Shape
<1>8. q[Len(q)][1] \in {"chdir3", "exit2"} => Mains(q) = 0
  <2>1. "chdir3" \notin MainOps /\ "exit2" \notin MainOps
    <3>1. "chdir3" \notin MainOps
      BY DEF MainOps, CreateOps, UsesR, UsesIp, UsesDp
    <3>. QED
      BY <3>1 DEF MainOps, CreateOps, UsesR, UsesIp, UsesDp
  <2>. QED
    BY <1>2, <2>1, MainsIs
<1>. QED
  BY <1>2, <1>3, <1>4, <1>5, <1>7, <1>8

-----------------------------------------------------------------------------
(* What a section changes.                                                 *)

LEMMA LenIs ==
    ASSUME NEW n \in Nat, NEW f, DOMAIN f = 1..n, f = [k \in 1..n |-> f[k]]
    PROVE  Len(f) = n
<1>1. f \in [1..n -> {f[k] : k \in 1..n}]
  OBVIOUS
<1>. QED
  BY <1>1

LEMMA SizesAre ==
    /\ NINODE \in Nat \ {0} /\ NFILE \in Nat \ {0} /\ NOFILE \in Nat \ {0} /\ IsFiniteSet(Procs)
    /\ 0 \notin Slots /\ 0 \notin Files /\ Slots \subseteq Nat /\ Files \subseteq Nat /\ Fds \subseteq Nat
    /\ IsFiniteSet(Slots) /\ IsFiniteSet(Files) /\ IsFiniteSet(Fds)
<1>1. NINODE \in Nat \ {0} /\ NFILE \in Nat \ {0} /\ NOFILE \in Nat \ {0} /\ IsFiniteSet(Procs)
  BY InodeAssumption, FileTableAssumption
<1>2. IsFiniteSet(1..NINODE) /\ IsFiniteSet(1..NFILE) /\ IsFiniteSet(1..NOFILE)
  BY <1>1, FS_Interval
<1>. QED
  BY <1>1, <1>2 DEF Slots, Files, Fds

(* Then(p, ops), element by element.                                       *)
After(p, ops) ==
    /\ todo[p] # << >> /\ IsSeq(todo[p]) /\ IsSeq(ops) /\ Len(ops) \in 0..5
    /\ DOMAIN todo' = Procs /\ \A q \in Procs : q # p => todo'[q] = todo[q]
    /\ IsSeq(todo'[p]) /\ Len(todo'[p]) = Len(ops) + Len(todo[p]) - 1
    /\ \A k \in 1..Len(todo'[p]) :
         todo'[p][k] = IF k <= Len(ops) THEN ops[k] ELSE todo[p][k - Len(ops) + 1]

LEMMA ThenAfter ==
    ASSUME Types, NEW p \in Procs, NEW ops, todo[p] # << >>, Then(p, ops), IsSeq(ops),
           Len(ops) \in 0..5
    PROVE  After(p, ops)
<1>1. IsSeq(todo[p]) /\ DOMAIN todo = Procs
  BY DEF Types
<1>2. todo'[p] = ops \o Tail(todo[p]) /\ DOMAIN todo' = Procs
      /\ \A q \in Procs : q # p => todo'[q] = todo[q]
  BY <1>1 DEF Then
<1>3. /\ IsSeq(ops \o Tail(todo[p]))
      /\ Len(ops \o Tail(todo[p])) = Len(ops) + Len(todo[p]) - 1
      /\ \A k \in 1..(Len(ops) + Len(todo[p]) - 1) :
           (ops \o Tail(todo[p]))[k] = IF k <= Len(ops) THEN ops[k] ELSE todo[p][k - Len(ops) + 1]
  BY <1>1, PushFacts
<1>. QED
  BY <1>1, <1>2, <1>3 DEF After

LEMMA AtFacts ==
    ASSUME Types, NEW p \in Procs, NEW op, At(p, op)
    PROVE  /\ todo[p] # << >> /\ IsSeq(todo[p]) /\ Len(todo[p]) \in Nat \ {0}
           /\ todo[p][1][1] = op /\ Arg(p, 1) = todo[p][1][2] /\ Arg(p, 2) = todo[p][1][3]
           /\ Arg(p, 3) = todo[p][1][4] /\ panicked = "no"
<1>1. todo[p] # << >> /\ IsSeq(todo[p]) /\ Head(todo[p])[1] = op /\ panicked = "no"
  BY DEF Types, At
<1>2. Head(todo[p]) = todo[p][1] /\ Len(todo[p]) \in Nat \ {0}
  BY <1>1, SeqFacts
<1>. QED
  BY <1>1, <1>2 DEF Arg

(* The entries, files and other files of the sections pushed.              *)
SlotVals(ops) == [k \in 1..5 |-> IF k <= Len(ops) THEN SlotOf(ops[k]) ELSE 0]
FileVals(ops) == [k \in 1..5 |-> IF k <= Len(ops) THEN FileOf(ops[k]) ELSE 0]
OtherVals(ops) == [k \in 1..5 |-> IF k <= Len(ops) THEN OtherOf(ops[k]) ELSE 0]

LEMMA RowsAre ==
    ASSUME Types, NEW p \in Procs
    PROVE  /\ Len(todo[p]) \in Nat
           /\ Len(SlotsOf[p]) = Len(todo[p]) /\ Len(FilesOf[p]) = Len(todo[p])
           /\ Len(OthersOf[p]) = Len(todo[p])
           /\ \A k \in 1..Len(todo[p]) : /\ SlotsOf[p][k] = SlotOf(todo[p][k])
                                         /\ FilesOf[p][k] = FileOf(todo[p][k])
                                         /\ OthersOf[p][k] = OtherOf(todo[p][k])
<1>1. Len(todo[p]) \in Nat
  BY SeqFacts DEF Types
<1>2. /\ SlotsOf[p] = [k \in 1..Len(todo[p]) |-> SlotOf(todo[p][k])]
      /\ FilesOf[p] = [k \in 1..Len(todo[p]) |-> FileOf(todo[p][k])]
      /\ OthersOf[p] = [k \in 1..Len(todo[p]) |-> OtherOf(todo[p][k])]
  BY DEF SlotsOf, FilesOf, OthersOf
<1>3. Len(SlotsOf[p]) = Len(todo[p])
  BY <1>1, <1>2, LenIs
<1>4. Len(FilesOf[p]) = Len(todo[p])
  BY <1>1, <1>2, LenIs
<1>5. Len(OthersOf[p]) = Len(todo[p])
  BY <1>1, <1>2, LenIs
<1>. QED
  BY <1>1, <1>2, <1>3, <1>4, <1>5

LEMMA RowsFinite ==
    ASSUME Types, NEW v, v # 0
    PROVE  Finite(Ends(SlotsOf), v) /\ Finite(Ends(FilesOf), v) /\ Finite(Ends(OthersOf), v)
<1>1. DOMAIN SlotsOf = Procs /\ DOMAIN FilesOf = Procs /\ DOMAIN OthersOf = Procs
  BY DEF SlotsOf, FilesOf, OthersOf
<1>2. \A p \in Procs : Len(SlotsOf[p]) \in Nat /\ Len(FilesOf[p]) \in Nat /\ Len(OthersOf[p]) \in Nat
  BY RowsAre
<1>. QED
  BY <1>1, <1>2, EndsFinite, SizesAre

(* The other references.                                                   *)
LEMMA HoldersFinite ==
    ASSUME NEW v
    PROVE  Finite(Dirs, v) /\ Finite(Opened, v) /\ Finite(Locals, v) /\ Finite(Descs, v)
<1>1. DOMAIN Dirs = Procs /\ DOMAIN Opened = Files
      /\ DOMAIN Locals = Procs \X {"r", "ip", "dp"} /\ DOMAIN Descs = Procs \X Fds
  BY DEF Dirs, Opened, Locals, Descs
<1>2. IsFiniteSet({"r", "ip", "dp"})
  <2>1. IsFiniteSet({"r"}) /\ IsFiniteSet({"ip"}) /\ IsFiniteSet({"dp"})
    BY FS_Singleton
  <2>2. IsFiniteSet({"r"} \cup {"ip"})
    BY <2>1, FS_Union
  <2>3. IsFiniteSet(({"r"} \cup {"ip"}) \cup {"dp"})
    BY <2>1, <2>2, FS_Union
  <2>4. ({"r"} \cup {"ip"}) \cup {"dp"} = {"r", "ip", "dp"}
    OBVIOUS
  <2>. QED
    BY <2>3, <2>4
<1>3. IsFiniteSet(Procs \X {"r", "ip", "dp"}) /\ IsFiniteSet(Procs \X Fds)
  BY <1>2, SizesAre, FS_Product
<1>. QED
  BY <1>1, <1>3, SizesAre, CountFinite

LEMMA RowsPushed ==
    ASSUME Types, NEW p \in Procs, NEW ops, After(p, ops)
    PROVE  /\ Pushed(SlotsOf, SlotsOf', p, SlotVals(ops), Len(ops))
           /\ Pushed(FilesOf, FilesOf', p, FileVals(ops), Len(ops))
           /\ Pushed(OthersOf, OthersOf', p, OtherVals(ops), Len(ops))
<1>1. /\ DOMAIN SlotsOf = Procs /\ DOMAIN FilesOf = Procs /\ DOMAIN OthersOf = Procs
      /\ DOMAIN SlotsOf' = Procs /\ DOMAIN FilesOf' = Procs /\ DOMAIN OthersOf' = Procs
  BY DEF SlotsOf, FilesOf, OthersOf
<1>2. \A q \in Procs : q # p => /\ SlotsOf'[q] = SlotsOf[q] /\ FilesOf'[q] = FilesOf[q]
                                /\ OthersOf'[q] = OthersOf[q]
  BY DEF SlotsOf, FilesOf, OthersOf, After
<1>. DEFINE n == Len(ops)
            L == Len(todo[p])
            M == Len(todo'[p])
<1>3. n \in 0..5 /\ L \in Nat \ {0} /\ M = L - 1 + n /\ M \in Nat
  <2>1. L \in Nat \ {0}
    BY SeqFacts DEF After
  <2>2. n \in 0..5 /\ M = n + L - 1
    BY DEF After
  <2>. HIDE DEF n, L, M
  <2>. QED
    BY <2>1, <2>2
<1>4. /\ SlotsOf'[p] = [k \in 1..M |-> SlotOf(todo'[p][k])]
      /\ FilesOf'[p] = [k \in 1..M |-> FileOf(todo'[p][k])]
      /\ OthersOf'[p] = [k \in 1..M |-> OtherOf(todo'[p][k])]
  BY DEF SlotsOf, FilesOf, OthersOf
<1>5. Len(SlotsOf'[p]) = M /\ Len(FilesOf'[p]) = M /\ Len(OthersOf'[p]) = M
  <2>. HIDE DEF M
  <2>1. Len(SlotsOf'[p]) = M
    BY <1>3, <1>4, LenIs
  <2>2. Len(FilesOf'[p]) = M
    BY <1>3, <1>4, LenIs
  <2>3. Len(OthersOf'[p]) = M
    BY <1>3, <1>4, LenIs
  <2>. QED
    BY <2>1, <2>2, <2>3
<1>6. /\ Len(SlotsOf[p]) = L /\ Len(FilesOf[p]) = L /\ Len(OthersOf[p]) = L
      /\ \A k \in 1..L : /\ SlotsOf[p][k] = SlotOf(todo[p][k]) /\ FilesOf[p][k] = FileOf(todo[p][k])
                         /\ OthersOf[p][k] = OtherOf(todo[p][k])
  BY RowsAre
<1>7. \A k \in 1..M : todo'[p][k] = IF k <= n THEN ops[k] ELSE todo[p][k - n + 1]
  BY DEF After
<1>. HIDE DEF n, L, M
<1>8. \A k \in 1..M : (k <= n => k \in 1..5) /\ (~(k <= n) => k - n + 1 \in 1..L)
  BY <1>3
<1>9. \A k \in 1..M :
        /\ SlotsOf'[p][k] = IF k <= n THEN SlotVals(ops)[k] ELSE SlotsOf[p][k - n + 1]
        /\ FilesOf'[p][k] = IF k <= n THEN FileVals(ops)[k] ELSE FilesOf[p][k - n + 1]
        /\ OthersOf'[p][k] = IF k <= n THEN OtherVals(ops)[k] ELSE OthersOf[p][k - n + 1]
  <2>. TAKE k \in 1..M
  <2>1. CASE k <= n
    <3>1. SlotVals(ops)[k] = SlotOf(ops[k]) /\ FileVals(ops)[k] = FileOf(ops[k])
          /\ OtherVals(ops)[k] = OtherOf(ops[k])
      BY <1>8, <2>1 DEF SlotVals, FileVals, OtherVals, n
    <3>. QED
      BY <1>4, <1>7, <2>1, <3>1
  <2>2. CASE ~(k <= n)
    BY <1>4, <1>6, <1>7, <1>8, <2>2
  <2>. QED
    BY <2>1, <2>2
<1>10. \A k \in 1..5 : k > n => SlotVals(ops)[k] = 0 /\ FileVals(ops)[k] = 0 /\ OtherVals(ops)[k] = 0
  <2>1. \A k \in 1..5 : k > n => ~(k <= n)
    BY <1>3
  <2>. QED
    BY <2>1 DEF SlotVals, FileVals, OtherVals, n
<1>11. Pushed(SlotsOf, SlotsOf', p, SlotVals(ops), n)
  BY <1>1, <1>2, <1>3, <1>5, <1>6, <1>9, <1>10 DEF Pushed
<1>12. Pushed(FilesOf, FilesOf', p, FileVals(ops), n)
  BY <1>1, <1>2, <1>3, <1>5, <1>6, <1>9, <1>10 DEF Pushed
<1>13. Pushed(OthersOf, OthersOf', p, OtherVals(ops), n)
  BY <1>1, <1>2, <1>3, <1>5, <1>6, <1>9, <1>10 DEF Pushed
<1>. QED
  BY <1>11, <1>12, <1>13 DEF n

LEMMA EndsMoved ==
    ASSUME Types, NEW p \in Procs, NEW ops, After(p, ops), NEW v, v # 0
    PROVE  /\ MovedEnds(SlotsOf, SlotsOf', p, SlotVals(ops), v)
           /\ MovedEnds(FilesOf, FilesOf', p, FileVals(ops), v)
           /\ MovedEnds(OthersOf, OthersOf', p, OtherVals(ops), v)
           /\ SlotsOf[p][1] = SlotOf(todo[p][1]) /\ FilesOf[p][1] = FileOf(todo[p][1])
           /\ OthersOf[p][1] = OtherOf(todo[p][1])
<1>1. MovedEnds(SlotsOf, SlotsOf', p, SlotVals(ops), v)
  BY RowsPushed, RowsFinite, PushCounts
<1>2. MovedEnds(FilesOf, FilesOf', p, FileVals(ops), v)
  BY RowsPushed, RowsFinite, PushCounts
<1>3. MovedEnds(OthersOf, OthersOf', p, OtherVals(ops), v)
  BY RowsPushed, RowsFinite, PushCounts
<1>4. Len(todo[p]) \in Nat \ {0}
  BY SeqFacts DEF After
<1>5. 1 \in 1..Len(todo[p])
  BY <1>4
<1>. QED
  BY <1>1, <1>2, <1>3, <1>5, RowsAre

(* What the local variables of p take and give.                            *)
Taken(rg, v) == Is(rg.r, v) + Is(rg.ip, v) + Is(rg.dp, v)
RegMove(p) ==
    /\ DOMAIN reg' = Procs /\ DOMAIN reg'[p] = DOMAIN NoRegs
    /\ \A q \in Procs : q # p => reg'[q] = reg[q]
MovedLocals(p, v) == Count(Locals, v)' = Count(Locals, v) - Taken(reg[p], v) + Taken(reg'[p], v)

LEMMA LocalsMoved ==
    ASSUME NEW p \in Procs, RegMove(p), NEW v
    PROVE  MovedLocals(p, v)
<1>. DEFINE a == <<p, "r">>
            b == <<p, "ip">>
            c == <<p, "dp">>
<1>1. a # b /\ a # c /\ b # c
  OBVIOUS
<1>2. Same(Locals, Locals', {a, b, c})
  <2>1. DOMAIN Locals' = DOMAIN Locals /\ {a, b, c} \subseteq DOMAIN Locals
    BY DEF Locals
  <2>2. ASSUME NEW x \in Procs \X {"r", "ip", "dp"}, x \notin {a, b, c}
        PROVE  Locals'[x] = Locals[x]
    <3>1. x[1] # p /\ x[1] \in Procs
      BY <2>2
    <3>. QED
      BY <3>1 DEF Locals, RegMove
  <2>3. DOMAIN Locals = Procs \X {"r", "ip", "dp"}
    BY DEF Locals
  <2>. QED
    BY <2>1, <2>2, <2>3 DEF Same
<1>3. Moved3(Locals, Locals', a, b, c, v) /\ Finite(Locals', v)
  <2>. HIDE DEF a, b, c
  <2>. QED
    BY <1>1, <1>2, HoldersFinite, CountThree
<1>4. /\ Locals[a] = reg[p].r /\ Locals[b] = reg[p].ip /\ Locals[c] = reg[p].dp
      /\ Locals'[a] = reg'[p].r /\ Locals'[b] = reg'[p].ip /\ Locals'[c] = reg'[p].dp
  BY DEF Locals
<1>5. Count(Locals, v) \in Int /\ Count(Locals', v) \in Int
  BY <1>3, HoldersFinite, CountNat
<1>6. Count(Locals, v)' = Count(Locals', v)
  BY DEF Count, Where
<1>. HIDE DEF a, b, c
<1>. QED
  BY <1>3, <1>4, <1>5, <1>6, IsInt DEF MovedLocals, Moved3, Taken

(* The references to the inode cache move along: what the section took     *)
(* off, what it pushed, what the local variables and the current           *)
(* directories hold.                                                       *)
RefMove(p, ops, v) ==
    icache'[v].ref = icache[v].ref - Is(SlotOf(todo[p][1]), v) + Sum5(SlotVals(ops), v)
                     - Taken(reg[p], v) + Taken(reg'[p], v)
                     + (Count(Dirs, v)' - Count(Dirs, v)) + (Count(Opened, v)' - Count(Opened, v))

LEMMA SlotRefsStep ==
    ASSUME Types, SlotRefs, NEW p \in Procs, NEW ops, After(p, ops), RegMove(p),
           \A v \in Slots : RefMove(p, ops, v)
    PROVE  SlotRefs'
<1>. SUFFICES ASSUME NEW v \in Slots
              PROVE  icache'[v].ref = Count(Dirs, v)' + Count(Opened, v)' + Count(Locals, v)'
                                      + Count(Ends(SlotsOf), v)'
  BY DEF SlotRefs, Slots
<1>1. MovedEnds(SlotsOf, SlotsOf', p, SlotVals(ops), v) /\ SlotsOf[p][1] = SlotOf(todo[p][1])
  BY EndsMoved, SizesAre
<1>2. MovedLocals(p, v)
  BY LocalsMoved
<1>3. icache[v].ref = Count(Dirs, v) + Count(Opened, v) + Count(Locals, v) + Count(Ends(SlotsOf), v)
  BY DEF SlotRefs
<1>4. Count(Ends(SlotsOf), v)' = Count(Ends(SlotsOf'), v)
  BY DEF Count, Where, Ends
<1>5. /\ Count(Dirs, v) \in Int /\ Count(Opened, v) \in Int /\ Count(Locals, v) \in Int
      /\ Count(Ends(SlotsOf), v) \in Int
  BY HoldersFinite, RowsFinite, SizesAre, CountNat
<1>6. Count(Dirs, v)' \in Int /\ Count(Opened, v)' \in Int
  <2>1. DOMAIN Dirs' = Procs /\ DOMAIN Opened' = Files
    BY DEF Dirs, Opened
  <2>2. Count(Dirs', v) \in Int /\ Count(Opened', v) \in Int
    BY <2>1, SizesAre, CountFinite
  <2>3. Count(Dirs, v)' = Count(Dirs', v) /\ Count(Opened, v)' = Count(Opened', v)
    BY DEF Count, Where
  <2>. QED
    BY <2>2, <2>3
<1>7. Taken(reg[p], v) \in Int /\ Taken(reg'[p], v) \in Int /\ Sum5(SlotVals(ops), v) \in Int
      /\ Is(SlotOf(todo[p][1]), v) \in Int
  BY IsInt DEF Taken, Sum5
<1>8. RefMove(p, ops, v)
  OBVIOUS
<1>. QED
  BY <1>1, <1>2, <1>3, <1>4, <1>5, <1>6, <1>7, <1>8 DEF RefMove, MovedEnds, MovedLocals

(* A section that neither opens nor closes files, and is not a last one.   *)
SpecialOps == LastOps \cup {"fclose", "pipe1", "pipe2", "exit1"}
Plain(p, ops) ==
    /\ todo[p][1][1] \notin SpecialOps
    /\ \A k \in 1..Len(ops) : ops[k][1] \notin SpecialOps
FilesStay == UNCHANGED <<ftable, ofile, alive, pipes, cwd>>

LEMMA LastStays ==
    ASSUME Types, NEW p \in Procs, NEW ops, After(p, ops), Plain(p, ops), NEW S, S \subseteq LastOps
    PROVE  (todo[p] # << >> /\ todo[p][Len(todo[p])][1] \in S)
             <=> (todo'[p] # << >> /\ todo'[p][Len(todo'[p])][1] \in S)
<1>. DEFINE n == Len(ops)
            L == Len(todo[p])
            M == Len(todo'[p])
<1>1. n \in 0..5 /\ L \in Nat \ {0} /\ M = n + L - 1 /\ (todo'[p] = << >> <=> M = 0)
  BY SeqFacts DEF After
<1>2. \A k \in 1..M : todo'[p][k] = IF k <= n THEN ops[k] ELSE todo[p][k - n + 1]
  BY DEF After
<1>3. todo[p][1][1] \notin S /\ \A k \in 1..n : ops[k][1] \notin S
  BY DEF Plain, SpecialOps
<1>4. todo[p] # << >>
  BY DEF After
<1>. HIDE DEF n, L, M
<1>5. CASE L = 1
  <2>1. M = n
    BY <1>1, <1>5
  <2>2. M > 0 => todo'[p][M] = ops[M] /\ M \in 1..n
    BY <1>1, <1>2, <2>1
  <2>3. M = 0 \/ M > 0
    BY <1>1
  <2>. QED
    BY <1>1, <1>3, <1>5, <2>2, <2>3 DEF L, M
<1>6. CASE L > 1
  <2>1. M \in 1..M /\ ~(M <= n) /\ M - n + 1 = L /\ M # 0
    BY <1>1, <1>6
  <2>2. todo'[p][M] = todo[p][L]
    BY <1>2, <2>1
  <2>. QED
    BY <1>1, <1>4, <2>1, <2>2 DEF L, M
<1>. QED
  BY <1>1, <1>5, <1>6

LEMMA DirsStay ==
    ASSUME Types, NEW p \in Procs, NEW ops, After(p, ops), Plain(p, ops), FilesStay, NEW v
    PROVE  /\ \A q \in Procs : Leaving(q)' <=> Leaving(q)
           /\ Count(Dirs, v)' = Count(Dirs, v) /\ Count(Opened, v)' = Count(Opened, v)
<1>1. \A q \in Procs : Leaving(q)' <=> Leaving(q)
  <2>. TAKE q \in Procs
  <2>1. CASE q # p
    BY <2>1 DEF Leaving, After
  <2>2. CASE q = p
    <3>1. {"chdir3", "exit2"} \subseteq LastOps
      BY DEF LastOps
    <3>2. (todo[p] # << >> /\ todo[p][Len(todo[p])][1] \in {"chdir3", "exit2"})
             <=> (todo'[p] # << >> /\ todo'[p][Len(todo'[p])][1] \in {"chdir3", "exit2"})
      BY <3>1, LastStays
    <3>. QED
      BY <2>2, <3>2 DEF Leaving
  <2>. QED
    BY <2>1, <2>2
<1>2. Dirs' = Dirs
  BY <1>1 DEF Dirs, FilesStay
<1>3. Opened' = Opened
  BY DEF Opened, FilesStay
<1>. QED
  BY <1>1, <1>2, <1>3 DEF Count, Where

LEMMA FileRefsStay ==
    ASSUME Types, FileRefs, NEW p \in Procs, NEW ops, After(p, ops), Plain(p, ops), FilesStay
    PROVE  FileRefs'
<1>. SUFFICES ASSUME NEW f \in Files
              PROVE  ftable'[f].ref = Count(Descs, f)' + Count(Ends(FilesOf), f)'
                                      + Count(Ends(OthersOf), f)'
  BY DEF FileRefs, Files
<1>1. /\ MovedEnds(FilesOf, FilesOf', p, FileVals(ops), f)
      /\ MovedEnds(OthersOf, OthersOf', p, OtherVals(ops), f)
      /\ FilesOf[p][1] = FileOf(todo[p][1]) /\ OthersOf[p][1] = OtherOf(todo[p][1])
  BY EndsMoved, SizesAre
<1>2. FileOf(todo[p][1]) = 0 /\ OtherOf(todo[p][1]) = 0
  BY DEF Plain, SpecialOps, FileOf, OtherOf
<1>3. \A k \in 1..5 : FileVals(ops)[k] = 0 /\ OtherVals(ops)[k] = 0
  <2>. TAKE k \in 1..5
  <2>1. k <= Len(ops) => FileOf(ops[k]) = 0 /\ OtherOf(ops[k]) = 0
    <3>1. k <= Len(ops) => ops[k][1] \notin SpecialOps
      BY DEF After, Plain
    <3>. QED
      BY <3>1 DEF SpecialOps, FileOf, OtherOf
  <2>. QED
    BY <2>1 DEF FileVals, OtherVals
<1>4. Is(0, f) = 0
  BY SizesAre DEF Is
<1>5. Sum5(FileVals(ops), f) = 0 /\ Sum5(OtherVals(ops), f) = 0
  BY <1>3, <1>4 DEF Sum5
<1>6. Count(Ends(FilesOf), f) \in Int /\ Count(Ends(OthersOf), f) \in Int
  BY RowsFinite, SizesAre, CountNat
<1>7. Count(Ends(FilesOf'), f) = Count(Ends(FilesOf), f)
      /\ Count(Ends(OthersOf'), f) = Count(Ends(OthersOf), f)
  BY <1>1, <1>2, <1>4, <1>5, <1>6 DEF MovedEnds
<1>8. Count(Ends(FilesOf), f)' = Count(Ends(FilesOf'), f)
      /\ Count(Ends(OthersOf), f)' = Count(Ends(OthersOf'), f)
  BY DEF Count, Where, Ends
<1>9. Descs' = Descs
  BY DEF Descs, FilesStay
<1>10. Count(Descs, f)' = Count(Descs, f)
  BY <1>9 DEF Count, Where
<1>. QED
  BY <1>7, <1>8, <1>10 DEF FileRefs, FilesStay

LEMMA SpecialStay ==
    ASSUME NEW p \in Procs, NEW ops, After(p, ops), Plain(p, ops)
    PROVE  /\ \A k \in 1..Len(todo'[p]) : todo'[p][k][1] \in SpecialOps =>
                \E j \in 1..Len(todo[p]) : /\ todo[p][j] = todo'[p][k]
                                           /\ j = Len(todo[p]) => k = Len(todo'[p])
           /\ \A j \in 1..Len(todo[p]) : todo[p][j][1] \in SpecialOps =>
                \E k \in 1..Len(todo'[p]) : todo'[p][k] = todo[p][j]
<1>. DEFINE n == Len(ops)
            L == Len(todo[p])
            M == Len(todo'[p])
<1>1. n \in 0..5 /\ L \in Nat \ {0} /\ M = n + L - 1
  BY SeqFacts DEF After
<1>2. \A k \in 1..M : todo'[p][k] = IF k <= n THEN ops[k] ELSE todo[p][k - n + 1]
  BY DEF After
<1>3. todo[p][1][1] \notin SpecialOps /\ \A k \in 1..n : ops[k][1] \notin SpecialOps
  BY DEF Plain
<1>. HIDE DEF n, L, M
<1>4. ASSUME NEW k \in 1..M, todo'[p][k][1] \in SpecialOps
      PROVE  \E j \in 1..L : todo[p][j] = todo'[p][k] /\ (j = L => k = M)
  <2>1. k \in 1..n \/ ~(k <= n)
    BY <1>1
  <2>2. ~(k <= n)
    BY <1>2, <1>3, <1>4, <2>1
  <2>3. k - n + 1 \in 1..L /\ (k - n + 1 = L => k = M)
    BY <1>1, <2>2
  <2>. QED
    BY <1>2, <2>2, <2>3
<1>5. ASSUME NEW j \in 1..L, todo[p][j][1] \in SpecialOps
      PROVE  \E k \in 1..M : todo'[p][k] = todo[p][j]
  <2>1. j # 1
    BY <1>3, <1>5
  <2>2. j + n - 1 \in 1..M /\ ~(j + n - 1 <= n) /\ (j + n - 1) - n + 1 = j
    BY <1>1, <2>1
  <2>3. todo'[p][j + n - 1] = todo[p][(j + n - 1) - n + 1]
    BY <1>2, <2>2
  <2>. QED
    BY <2>2, <2>3
<1>. QED
  BY <1>4, <1>5 DEF L, M

LEMMA LastsStay ==
    ASSUME Lasts, NEW p \in Procs, NEW ops, After(p, ops), Plain(p, ops)
    PROVE  Lasts'
<1>. SUFFICES ASSUME NEW q \in Procs, NEW k \in 1..Len(todo'[q]), todo'[q][k][1] \in LastOps
              PROVE  k = Len(todo'[q])
  BY DEF Lasts, LastOps
<1>1. CASE q # p
  BY <1>1 DEF After, Lasts
<1>2. CASE q = p
  <2>1. LastOps \subseteq SpecialOps
    BY DEF SpecialOps
  <2>2. PICK j \in 1..Len(todo[p]) : /\ todo[p][j] = todo'[p][k]
                                     /\ j = Len(todo[p]) => k = Len(todo'[p])
    BY <1>2, <2>1, SpecialStay
  <2>. QED
    BY <1>2, <2>2 DEF Lasts
<1>. QED
  BY <1>1, <1>2

LEMMA AliveStays ==
    ASSUME Types, Alive, NEW p \in Procs, NEW ops, After(p, ops), Plain(p, ops), FilesStay
    PROVE  Alive'
<1>1. p \in alive
  BY DEF Alive, After
<1>2. \A q \in Procs : Leaving(q)' <=> Leaving(q)
  BY DirsStay
<1>3. \A q \in Procs : q # p => todo'[q] = todo[q]
  BY DEF After
<1>. QED
  BY <1>1, <1>2, <1>3 DEF Alive, FilesStay, Slots, Fds

LEMMA ExitingStays ==
    ASSUME Types, Exiting, NEW p \in Procs, NEW ops, After(p, ops), Plain(p, ops), FilesStay
    PROVE  Exiting'
<1>0. {"exit2"} \subseteq LastOps
  BY DEF LastOps
<1>1. ASSUME NEW q \in Procs, todo'[q] # << >>, todo'[q][Len(todo'[q])][1] = "exit2",
             NEW fd \in Fds, ofile'[q][fd] # 0
      PROVE  \E k \in 1..Len(todo'[q]) : todo'[q][k] = <<"exit1", fd>>
  <2>1. ofile[q][fd] # 0
    BY <1>1 DEF FilesStay
  <2>2. CASE q # p
    BY <1>1, <2>1, <2>2 DEF After, Exiting
  <2>3. CASE q = p
    <3>1. todo[p] # << >> /\ todo[p][Len(todo[p])][1] \in {"exit2"}
      BY <1>0, <1>1, <2>3, LastStays
    <3>2. PICK j \in 1..Len(todo[p]) : todo[p][j] = <<"exit1", fd>>
      BY <2>1, <2>3, <3>1 DEF Exiting
    <3>3. todo[p][j][1] \in SpecialOps
      BY <3>2 DEF SpecialOps
    <3>4. PICK k \in 1..Len(todo'[p]) : todo'[p][k] = todo[p][j]
      BY <3>3, SpecialStay
    <3>. QED
      BY <2>3, <3>2, <3>4
  <2>. QED
    BY <2>2, <2>3
<1>2. ASSUME NEW q \in Procs, NEW k \in 1..Len(todo'[q]), todo'[q][k][1] = "exit1"
      PROVE  todo'[q][Len(todo'[q])][1] = "exit2"
  <2>1. CASE q # p
    BY <1>2, <2>1 DEF After, Exiting
  <2>2. CASE q = p
    <3>1. todo'[p][k][1] \in SpecialOps
      BY <1>2, <2>2 DEF SpecialOps
    <3>2. PICK j \in 1..Len(todo[p]) : todo[p][j] = todo'[p][k]
      BY <2>2, <3>1, SpecialStay
    <3>3. todo[p] # << >> /\ todo[p][Len(todo[p])][1] \in {"exit2"}
      BY <1>2, <2>2, <3>2 DEF Exiting, After
    <3>4. todo'[p][Len(todo'[p])][1] \in {"exit2"}
      BY <1>0, <3>3, LastStays
    <3>. QED
      BY <2>2, <3>4
  <2>. QED
    BY <2>1, <2>2
<1>. QED
  BY <1>1, <1>2 DEF Exiting, Fds

OpeningBy(p, x) ==
    /\ x[1] = "open4" => New(x[2]) /\ \E fd \in Fds : ofile[p][fd] = x[2]
    /\ x[1] = "pipe1" /\ x[2] # 0 => New(x[2])
    /\ x[1] = "pipe2" => New(x[2]) /\ New(x[3])

LEMMA OpeningIs ==
    /\ Opening <=> \A p \in Procs : \A k \in 1..Len(todo[p]) : OpeningBy(p, todo[p][k])
    /\ Opening' <=> \A p \in Procs : \A k \in 1..Len(todo'[p]) : OpeningBy(p, todo[p][k])'
<1>1. Opening <=> \A p \in Procs : \A k \in 1..Len(todo[p]) : OpeningBy(p, todo[p][k])
  BY DEF Opening, OpeningBy
<1>2. Opening' <=> \A p \in Procs : \A k \in 1..Len(todo'[p]) : OpeningBy(p, todo[p][k])'
  BY DEF Opening, OpeningBy
<1>. QED
  BY <1>1, <1>2

LEMMA OpeningStays ==
    ASSUME Types, Opening, NEW p \in Procs, NEW ops, After(p, ops), Plain(p, ops), FilesStay
    PROVE  Opening'
<1>. SUFFICES ASSUME NEW q \in Procs, NEW k \in 1..Len(todo'[q])
              PROVE  OpeningBy(q, todo[q][k])'
  BY OpeningIs
<1>1. \A j \in 1..Len(todo[q]) : todo[q][j] = todo'[q][k] => OpeningBy(q, todo[q][k])'
  <2>. SUFFICES ASSUME NEW j \in 1..Len(todo[q]), todo[q][j] = todo'[q][k]
                PROVE  OpeningBy(q, todo[q][k])'
    OBVIOUS
  <2>1. OpeningBy(q, todo[q][j])
    BY OpeningIs
  <2>. QED
    BY <2>1 DEF OpeningBy, FilesStay, New
<1>2. CASE q # p
  BY <1>1, <1>2 DEF After
<1>3. CASE q = p /\ todo'[p][k][1] \in SpecialOps
  BY <1>1, <1>3, SpecialStay
<1>4. CASE q = p /\ todo'[p][k][1] \notin SpecialOps
  BY <1>4 DEF OpeningBy, SpecialOps, LastOps
<1>. QED
  BY <1>2, <1>3, <1>4

(* The entries of the cache that are in use keep their inodes.             *)
CacheKept ==
    /\ DOMAIN icache' = Slots /\ \A s \in Slots : {"inum", "ref"} \subseteq DOMAIN icache'[s]
    /\ \A s \in Slots : icache[s].ref > 0 => icache'[s].inum = icache[s].inum

LEMMA RefPositive ==
    ASSUME Types, SlotRefs, NEW s \in Slots
    PROVE  /\ icache[s].ref \in Nat
           /\ \A f \in Files : ftable[f].ip = s => icache[s].ref > 0
           /\ \A p \in Procs : cwd[p] = s /\ ~Leaving(p) => icache[s].ref > 0
           /\ \A p \in Procs : reg[p].r = s \/ reg[p].ip = s \/ reg[p].dp = s => icache[s].ref > 0
<1>1. /\ Count(Dirs, s) \in Nat /\ Count(Opened, s) \in Nat /\ Count(Locals, s) \in Nat
      /\ Count(Ends(SlotsOf), s) \in Nat
  BY HoldersFinite, RowsFinite, SizesAre, CountNat
<1>2. icache[s].ref = Count(Dirs, s) + Count(Opened, s) + Count(Locals, s) + Count(Ends(SlotsOf), s)
  BY DEF SlotRefs
<1>3. \A f \in Files : ftable[f].ip = s => Count(Opened, s) > 0
  <2>. SUFFICES ASSUME NEW f \in Files, ftable[f].ip = s  PROVE Count(Opened, s) > 0
    OBVIOUS
  <2>1. f \in DOMAIN Opened /\ Opened[f] = s
    BY DEF Opened
  <2>. QED
    BY <2>1, HoldersFinite, CountPositive
<1>4. \A p \in Procs : cwd[p] = s /\ ~Leaving(p) => Count(Dirs, s) > 0
  <2>. SUFFICES ASSUME NEW p \in Procs, cwd[p] = s /\ ~Leaving(p)  PROVE Count(Dirs, s) > 0
    OBVIOUS
  <2>1. p \in DOMAIN Dirs /\ Dirs[p] = s
    BY DEF Dirs
  <2>. QED
    BY <2>1, HoldersFinite, CountPositive
<1>5. \A p \in Procs : reg[p].r = s \/ reg[p].ip = s \/ reg[p].dp = s => Count(Locals, s) > 0
  <2>. SUFFICES ASSUME NEW p \in Procs, reg[p].r = s \/ reg[p].ip = s \/ reg[p].dp = s
                PROVE  Count(Locals, s) > 0
    OBVIOUS
  <2>1. PICK x \in {"r", "ip", "dp"} : reg[p][x] = s
    OBVIOUS
  <2>2. <<p, x>> \in DOMAIN Locals /\ Locals[<<p, x>>] = s
    BY <2>1 DEF Locals
  <2>. QED
    BY <2>2, HoldersFinite, CountPositive
<1>. QED
  BY <1>1, <1>2, <1>3, <1>4, <1>5

LEMMA PlainMove ==
    ASSUME Core, NEW p \in Procs, NEW ops, After(p, ops), Plain(p, ops), FilesStay, RegMove(p),
           CacheKept, \A v \in Slots : RefMove(p, ops, v), Shape(todo'[p], reg'[p])
    PROVE  Core'
<1>0. /\ Types /\ SlotRefs /\ FileRefs /\ Shapes /\ Lasts /\ Alive /\ Exiting
      /\ Opening /\ Contents /\ PipeEnds
  BY DEF Core
<1>1. Types'
  <2>1. DOMAIN todo' = Procs /\ \A q \in Procs : IsSeq(todo'[q])
    BY <1>0 DEF Types, After
  <2>2. DOMAIN reg' = Procs /\ \A q \in Procs : DOMAIN reg'[q] = DOMAIN NoRegs
    BY <1>0 DEF Types, RegMove
  <2>3. DOMAIN icache' = Slots /\ \A s \in Slots : {"inum", "ref"} \subseteq DOMAIN icache'[s]
    BY DEF CacheKept
  <2>4. ftable' = ftable /\ ofile' = ofile /\ cwd' = cwd /\ pipes' = pipes /\ alive' = alive
    BY DEF FilesStay
  <2>5. \A q \in Procs : IsSeq(todo[q])'
    BY <2>1 DEF IsSeq
  <2>. QED
    BY <1>0, <2>1, <2>2, <2>3, <2>4, <2>5 DEF Types, Slots, Files, Fds, NoRegs, Closed
<1>2. SlotRefs'
  BY <1>0, SlotRefsStep
<1>3. FileRefs'
  BY <1>0, FileRefsStay
<1>4. Shapes'
  <2>. SUFFICES ASSUME NEW q \in Procs  PROVE Shape(todo[q], reg[q])'
    BY DEF Shapes
  <2>1. CASE q = p
    <3>1. Shape(todo'[p], reg'[p]) => Shape(todo[p], reg[p])'
      BY DEF Shape, Mains, Needs, Holds, Within, Outside, Walking, Slots, Files, Fds
    <3>. QED
      BY <2>1, <3>1
  <2>2. CASE q # p
    <3>1. todo'[q] = todo[q] /\ reg'[q] = reg[q] /\ Shape(todo[q], reg[q])
      BY <1>0, <2>2 DEF After, RegMove, Shapes
    <3>2. Shape(todo'[q], reg'[q])
      BY <3>1
    <3>3. Shape(todo'[q], reg'[q]) => Shape(todo[q], reg[q])'
      BY DEF Shape, Mains, Needs, Holds, Within, Outside, Walking, Slots, Files, Fds
    <3>. QED
      BY <3>2, <3>3
  <2>. QED
    BY <2>1, <2>2
<1>5. Lasts'
  BY <1>0, LastsStay
<1>6. Alive' /\ Exiting' /\ Opening'
  BY <1>0, AliveStays, ExitingStays, OpeningStays
<1>7. Contents'
  <2>1. \A f \in Files : ftable[f].type = "inode" => icache'[ftable[f].ip].inum = ftable[f].inum
    BY <1>0, RefPositive DEF Contents, CacheKept
  <2>. QED
    BY <1>0, <2>1 DEF Contents, FilesStay, Files, Slots, Closed
<1>8. PipeEnds'
  BY <1>0 DEF PipeEnds, FilesStay, Files
<1>. QED
  BY <1>1, <1>2, <1>3, <1>4, <1>5, <1>6, <1>7, <1>8 DEF Core

(* The head gives way to other sections of its kind.                       *)
LEMMA PushInner ==
    ASSUME Types, NEW p \in Procs, NEW ops, After(p, ops), Shape(todo[p], reg[p]),
           todo[p][1][1] \notin MainOps,
           \A k \in 1..Len(ops) : IF Mains(todo[p]) = 0 THEN Outside(ops[k]) ELSE Within(ops[k]),
           Mains(todo[p]) = 0 => NoInodes(reg'[p]),
           Mains(todo[p]) > 0 => Holds(Needs(todo[p]), reg'[p]),
           \A k \in 1..Len(ops) : ops[k][1] \in WalkOps =>
               todo[p][1][1] \in WalkOps /\ reg'[p].r = 0,
           \A k, l \in 1..Len(ops) : ops[k][1] \in WalkOps /\ ops[l][1] \in WalkOps => k = l,
           todo[p][1][1] \notin WalkOps => reg'[p].r = reg[p].r
    PROVE  Shape(todo'[p], reg'[p])
<1>. DEFINE q == todo[p]
            t == todo'[p]
            n == Len(ops)
            L == Len(q)
            M == Len(t)
            m == Mains(q)
<1>1. n \in 0..5 /\ L \in Nat \ {0} /\ M = n + L - 1 /\ IsSeq(q) /\ IsSeq(t) /\ q # << >>
  BY SeqFacts DEF After
<1>2. \A k \in 1..M : t[k] = IF k <= n THEN ops[k] ELSE q[k - n + 1]
  BY DEF After
<1>3. m \in 0..2 /\ m < L /\ (m > 0 => Needs(q) \in MainOps /\ q[L][1] \in MainOps)
  BY <1>1, MainsIs, HeadInner
<1>4. \A k \in 1..(L - m) : IF m = 0 THEN Outside(q[k]) ELSE Within(q[k])
  <2>1. m = 0 => \A k \in 1..L : Outside(q[k])
    BY DEF Shape
  <2>2. m > 0 => \A k \in 1..(L - m) : Within(q[k])
    BY DEF Shape
  <2>. HIDE DEF L, m
  <2>. QED
    BY <1>1, <1>3, <2>1, <2>2
<1>5. \A k \in 1..n : IF m = 0 THEN Outside(ops[k]) ELSE Within(ops[k])
  OBVIOUS
<1>6. \A k \in 1..(M - m) : IF m = 0 THEN Outside(t[k]) ELSE Within(t[k])
  <2>. HIDE DEF q, t, n, L, M, m
  <2>. TAKE k \in 1..(M - m)
  <2>1. CASE k <= n
    <3>1. k \in 1..n /\ k \in 1..M
      BY <1>1, <1>3, <2>1
    <3>. QED
      BY <1>2, <1>5, <2>1, <3>1
  <2>2. CASE ~(k <= n)
    <3>1. k \in 1..M /\ k - n + 1 \in 1..(L - m)
      BY <1>1, <1>3, <2>2
    <3>. QED
      BY <1>2, <1>4, <2>2, <3>1
  <2>. QED
    BY <2>1, <2>2
<1>7. CASE m = 0
  <2>1. \A k \in 1..M : Outside(t[k])
    <3>1. M - m = M
      BY <1>1, <1>7
    <3>. QED
      BY <1>6, <1>7, <3>1
  <2>2. NoInodes(reg'[p])
    BY <1>7
  <2>3. IsSeq(t) /\ \A k \in 1..Len(t) : Outside(t[k])
    BY <1>1, <2>1
  <2>. HIDE DEF q, t, n, L, M, m
  <2>4. Shape(t, reg'[p])
    BY <2>2, <2>3, ShapeOutside
  <2>. QED
    BY <2>4 DEF t
<1>8. CASE m > 0
  <2>0. \A k \in 1..(M - m) : Within(t[k])
    BY <1>3, <1>6, <1>8
  <2>1. \A k \in 0..(m - 1) : M - k \in 1..M /\ ~(M - k <= n) /\ (M - k) - n + 1 = L - k
    <3>. HIDE DEF q, t, n, L, M, m
    <3>. QED
      BY <1>1, <1>3
  <2>2. \A k \in 0..(m - 1) : t[M - k] = q[L - k]
    BY <1>2, <2>1
  <2>3. t[M] = q[L] /\ (m = 2 => t[M - 1] = q[L - 1])
    <3>. HIDE DEF q, t, n, L, M, m
    <3>1. 0 \in 0..(m - 1) /\ M - 0 = M /\ L - 0 = L /\ (m = 2 => 1 \in 0..(m - 1))
      BY <1>1, <1>3, <1>8
    <3>. QED
      BY <2>2, <3>1
  <2>4. m = 1 => Needs(q) = q[L][1] /\ q[L][1] \notin CreateOps
    BY MainsIs, <1>1 DEF Shape
  <2>5. m = 2 => Needs(q) = q[L - 1][1] /\ q[L - 1][1] \in CreateOps /\ q[L][1] \in {"open1", "mk1"}
    BY MainsIs, <1>1 DEF Shape
  <2>6. {"open1", "mk1"} \subseteq MainOps \ CreateOps
    BY DEF MainOps, CreateOps, UsesR
  <2>7. q[L][1] \in MainOps \ CreateOps
    BY <1>3, <1>8, <2>4, <2>5, <2>6
  <2>8. Needs(q) = t[M + 1 - m][1]
    <3>. HIDE DEF q, t, n, L, M, m
    <3>1. (m = 1 => M + 1 - m = M) /\ (m = 2 => M + 1 - m = M - 1) /\ (m = 1 \/ m = 2)
      BY <1>1, <1>3, <1>8
    <3>. QED
      BY <2>3, <2>4, <2>5, <3>1
  <2>9. \A k \in Walking(t) : /\ k \in 1..M /\ t[k][1] \in WalkOps
                              /\ k <= n => ops[k][1] \in WalkOps /\ k \in 1..n
                              /\ ~(k <= n) => k - n + 1 \in Walking(q) /\ k - n + 1 \in 2..L
    <3>. SUFFICES ASSUME NEW k \in Walking(t)
                  PROVE  /\ k \in 1..M /\ t[k][1] \in WalkOps
                         /\ k <= n => ops[k][1] \in WalkOps /\ k \in 1..n
                         /\ ~(k <= n) => k - n + 1 \in Walking(q) /\ k - n + 1 \in 2..L
      OBVIOUS
    <3>1. k \in 1..M /\ t[k][1] \in WalkOps
      BY DEF Walking
    <3>2. t[k] = IF k <= n THEN ops[k] ELSE q[k - n + 1]
      BY <1>2, <3>1
    <3>3. (k <= n => k \in 1..n) /\ (~(k <= n) => k - n + 1 \in 2..L /\ k - n + 1 \in 1..L)
      <4>. HIDE DEF q, t, n, L, M, m
      <4>. QED
        BY <1>1, <3>1
    <3>. QED
      BY <3>1, <3>2, <3>3 DEF Walking
  <2>10. 1 \in Walking(q) <=> q[1][1] \in WalkOps
    BY <1>1 DEF Walking
  <2>11. \A k, l \in Walking(q) : k = l
    BY <1>8 DEF Shape
  <2>12. Walking(q) # {} => reg[p].r = 0 /\ Needs(q) \in UsesR
    BY <1>8 DEF Shape
  <2>. HIDE DEF q, t, n, L, M, m
  <2>13. \A k, l \in Walking(t) : k = l
    <3>. SUFFICES ASSUME NEW k \in Walking(t), NEW l \in Walking(t)  PROVE k = l
      OBVIOUS
    <3>1. k <= n /\ l <= n => k = l
      BY <2>9 DEF n
    <3>2. ~(k <= n) /\ ~(l <= n) => k = l
      <4>1. ~(k <= n) /\ ~(l <= n) => k - n + 1 = l - n + 1
        BY <2>9, <2>11
      <4>2. k \in Int /\ l \in Int /\ n \in Int
        BY <1>1, <2>9
      <4>. QED
        BY <4>1, <4>2
    <3>3. ~(k <= n) \/ ~(l <= n) => q[1][1] \notin WalkOps
      <4>1. \A j \in Walking(t) : ~(j <= n) => 1 # j - n + 1
        BY <2>9
      <4>. QED
        BY <2>9, <2>10, <2>11, <4>1
    <3>4. k <= n \/ l <= n => q[1][1] \in WalkOps
      BY <2>9 DEF q, n
    <3>. QED
      BY <3>1, <3>2, <3>3, <3>4
  <2>14. Walking(t) # {} => reg'[p].r = 0 /\ Needs(q) \in UsesR
    <3>. SUFFICES ASSUME NEW k \in Walking(t)  PROVE reg'[p].r = 0 /\ Needs(q) \in UsesR
      OBVIOUS
    <3>1. CASE k <= n
      <4>1. q[1][1] \in WalkOps /\ reg'[p].r = 0
        BY <2>9, <3>1 DEF q, n
      <4>. QED
        BY <2>10, <2>12, <4>1
    <3>2. CASE ~(k <= n)
      <4>1. k - n + 1 \in Walking(q) /\ 1 # k - n + 1
        BY <2>9, <3>2
      <4>2. q[1][1] \notin WalkOps
        BY <2>10, <2>11, <4>1
      <4>3. reg'[p].r = reg[p].r
        BY <4>2 DEF q
      <4>. QED
        BY <2>12, <4>1, <4>3
    <3>. QED
      BY <3>1, <3>2
  <2>15. Holds(Needs(q), reg'[p])
    BY <1>8 DEF q, m
  <2>16. m \in {1, 2} /\ m <= M
    BY <1>1, <1>3, <1>8
  <2>17. t[M][1] \in MainOps \ CreateOps
         /\ (m = 2 => t[M][1] \in {"open1", "mk1"} /\ t[M - 1][1] \in CreateOps)
    BY <2>3, <2>5, <2>7
  <2>. QED
    BY <1>1, <2>0, <2>8, <2>13, <2>14, <2>15, <2>16, <2>17, ShapeWithin DEF t, M
<1>. QED
  BY <1>3, <1>7, <1>8

-----------------------------------------------------------------------------
(* A few sections pushed at once.                                          *)
Sum1(a, v) == Is(SlotOf(a), v)
Sum2(a, b, v) == Sum1(a, v) + Sum1(b, v)
Sum3(a, b, c, v) == Sum2(a, b, v) + Sum1(c, v)
Sum4(a, b, c, d, v) == Sum3(a, b, c, v) + Sum1(d, v)
Sum50(a, b, c, d, e, v) == Sum4(a, b, c, d, v) + Sum1(e, v)
Few(ops) == IsSeq(ops) /\ Len(ops) \in 0..5

LEMMA Ops0 ==
    /\ Few(<< >>) /\ Len(<< >>) = 0
    /\ \A v : v # 0 => Sum5(SlotVals(<< >>), v) = 0
<1>1. IsSeq(<< >>) /\ Len(<< >>) = 0
  BY DEF IsSeq
<1>2. \A k \in 1..5 : SlotVals(<< >>)[k] = 0
  BY <1>1 DEF SlotVals
<1>3. \A v : v # 0 => Is(0, v) = 0
  BY DEF Is
<1>. QED
  BY <1>1, <1>2, <1>3 DEF Sum5, Few

LEMMA Ops1 ==
    ASSUME NEW a
    PROVE  /\ Few(<<a>>) /\ Len(<<a>>) = 1 /\ <<a>>[1] = a
           /\ \A v : v # 0 => Sum5(SlotVals(<<a>>), v) = Sum1(a, v)
<1>. DEFINE q == <<a>>
<1>1. q \in Seq({a}) /\ Len(q) = 1 /\ q[1] = a
  OBVIOUS
<1>2. SlotVals(q)[1] = SlotOf(a) /\ SlotVals(q)[2] = 0 /\ SlotVals(q)[3] = 0
      /\ SlotVals(q)[4] = 0 /\ SlotVals(q)[5] = 0
  BY <1>1 DEF SlotVals
<1>. HIDE DEF q
<1>3. \A v : v # 0 => Is(0, v) = 0
  BY DEF Is
<1>4. \A v : v # 0 => Sum5(SlotVals(q), v) = Sum1(a, v)
  BY <1>2, <1>3, IsInt DEF Sum5, Sum1
<1>5. IsSeq(q)
  BY <1>1, SeqIs
<1>. QED
  BY <1>1, <1>4, <1>5 DEF q, Few

LEMMA Ops2 ==
    ASSUME NEW a, NEW b
    PROVE  /\ Few(<<a, b>>) /\ Len(<<a, b>>) = 2 /\ <<a, b>>[1] = a /\ <<a, b>>[2] = b
           /\ \A v : v # 0 => Sum5(SlotVals(<<a, b>>), v) = Sum2(a, b, v)
<1>. DEFINE q == <<a, b>>
<1>1. q \in Seq({a, b}) /\ Len(q) = 2 /\ q[1] = a /\ q[2] = b
  OBVIOUS
<1>2. SlotVals(q)[1] = SlotOf(a) /\ SlotVals(q)[2] = SlotOf(b) /\ SlotVals(q)[3] = 0
      /\ SlotVals(q)[4] = 0 /\ SlotVals(q)[5] = 0
  BY <1>1 DEF SlotVals
<1>. HIDE DEF q
<1>3. \A v : v # 0 => Is(0, v) = 0
  BY DEF Is
<1>4. \A v : v # 0 => Sum5(SlotVals(q), v) = Sum2(a, b, v)
  BY <1>2, <1>3, IsInt DEF Sum5, Sum1, Sum2
<1>5. IsSeq(q)
  BY <1>1, SeqIs
<1>. QED
  BY <1>1, <1>4, <1>5 DEF q, Few

LEMMA Ops3 ==
    ASSUME NEW a, NEW b, NEW c
    PROVE  /\ Few(<<a, b, c>>) /\ Len(<<a, b, c>>) = 3
           /\ <<a, b, c>>[1] = a /\ <<a, b, c>>[2] = b /\ <<a, b, c>>[3] = c
           /\ \A v : v # 0 => Sum5(SlotVals(<<a, b, c>>), v) = Sum3(a, b, c, v)
<1>. DEFINE q == <<a, b, c>>
<1>1. q \in Seq({a, b, c}) /\ Len(q) = 3 /\ q[1] = a /\ q[2] = b /\ q[3] = c
  OBVIOUS
<1>2. SlotVals(q)[1] = SlotOf(a) /\ SlotVals(q)[2] = SlotOf(b) /\ SlotVals(q)[3] = SlotOf(c)
      /\ SlotVals(q)[4] = 0 /\ SlotVals(q)[5] = 0
  BY <1>1 DEF SlotVals
<1>. HIDE DEF q
<1>3. \A v : v # 0 => Is(0, v) = 0
  BY DEF Is
<1>4. \A v : v # 0 => Sum5(SlotVals(q), v) = Sum3(a, b, c, v)
  BY <1>2, <1>3, IsInt DEF Sum5, Sum1, Sum2, Sum3
<1>5. IsSeq(q)
  BY <1>1, SeqIs
<1>. QED
  BY <1>1, <1>4, <1>5 DEF q, Few

LEMMA Ops4 ==
    ASSUME NEW a, NEW b, NEW c, NEW d
    PROVE  /\ Few(<<a, b, c, d>>) /\ Len(<<a, b, c, d>>) = 4
           /\ <<a, b, c, d>>[1] = a /\ <<a, b, c, d>>[2] = b /\ <<a, b, c, d>>[3] = c
           /\ <<a, b, c, d>>[4] = d
           /\ \A v : v # 0 => Sum5(SlotVals(<<a, b, c, d>>), v) = Sum4(a, b, c, d, v)
<1>. DEFINE q == <<a, b, c, d>>
<1>1. q \in Seq({a, b, c, d}) /\ Len(q) = 4 /\ q[1] = a /\ q[2] = b /\ q[3] = c /\ q[4] = d
  OBVIOUS
<1>2. SlotVals(q)[1] = SlotOf(a) /\ SlotVals(q)[2] = SlotOf(b) /\ SlotVals(q)[3] = SlotOf(c)
      /\ SlotVals(q)[4] = SlotOf(d) /\ SlotVals(q)[5] = 0
  BY <1>1 DEF SlotVals
<1>. HIDE DEF q
<1>3. \A v : v # 0 => Is(0, v) = 0
  BY DEF Is
<1>4. \A v : v # 0 => Sum5(SlotVals(q), v) = Sum4(a, b, c, d, v)
  BY <1>2, <1>3, IsInt DEF Sum5, Sum1, Sum2, Sum3, Sum4
<1>5. IsSeq(q)
  BY <1>1, SeqIs
<1>. QED
  BY <1>1, <1>4, <1>5 DEF q, Few

LEMMA Ops5 ==
    ASSUME NEW a, NEW b, NEW c, NEW d, NEW e
    PROVE  /\ Few(<<a, b, c, d, e>>) /\ Len(<<a, b, c, d, e>>) = 5
           /\ <<a, b, c, d, e>>[1] = a /\ <<a, b, c, d, e>>[2] = b /\ <<a, b, c, d, e>>[3] = c
           /\ <<a, b, c, d, e>>[4] = d /\ <<a, b, c, d, e>>[5] = e
           /\ \A v : v # 0 => Sum5(SlotVals(<<a, b, c, d, e>>), v) = Sum50(a, b, c, d, e, v)
<1>. DEFINE q == <<a, b, c, d, e>>
<1>1. q \in Seq({a, b, c, d, e}) /\ Len(q) = 5
      /\ q[1] = a /\ q[2] = b /\ q[3] = c /\ q[4] = d /\ q[5] = e
  OBVIOUS
<1>2. SlotVals(q)[1] = SlotOf(a) /\ SlotVals(q)[2] = SlotOf(b) /\ SlotVals(q)[3] = SlotOf(c)
      /\ SlotVals(q)[4] = SlotOf(d) /\ SlotVals(q)[5] = SlotOf(e)
  BY <1>1 DEF SlotVals
<1>. HIDE DEF q
<1>4. \A v : v # 0 => Sum5(SlotVals(q), v) = Sum50(a, b, c, d, e, v)
  BY <1>2, IsInt DEF Sum5, Sum1, Sum2, Sum3, Sum4, Sum50
<1>5. IsSeq(q)
  BY <1>1, SeqIs
<1>. QED
  BY <1>1, <1>4, <1>5 DEF q, Few

(* Sequences written out.                                                  *)
LEMMA JoinIs ==
    ASSUME NEW S, NEW q \in Seq(S), NEW r \in Seq(S), NEW t \in Seq(S),
           Len(t) = Len(q) + Len(r), \A k \in 1..Len(q) : t[k] = q[k],
           \A k \in 1..Len(r) : t[Len(q) + k] = r[k]
    PROVE  q \o r = t
<1>. DEFINE m == Len(q)
            n == Len(r)
<1>0. m \in Nat /\ n \in Nat
  OBVIOUS
<1>1. /\ q \o r \in Seq(S) /\ Len(q \o r) = m + n
      /\ \A i \in 1..(m + n) : (q \o r)[i] = IF i <= m THEN q[i] ELSE r[i - m]
  BY ConcatProperties
<1>. HIDE DEF m, n
<1>2. \A i \in 1..(m + n) : (q \o r)[i] = t[i]
  <2>. TAKE i \in 1..(m + n)
  <2>1. CASE i <= m
    <3>1. i \in 1..m
      BY <1>0, <2>1
    <3>. QED
      BY <1>1, <2>1, <3>1 DEF m, n
  <2>2. CASE ~(i <= m)
    <3>1. i - m \in 1..n /\ m + (i - m) = i
      BY <1>0, <2>2
    <3>. QED
      BY <1>1, <2>2, <3>1 DEF m, n
  <2>. QED
    BY <2>1, <2>2
<1>. QED
  BY <1>1, <1>2, SeqEqual DEF m, n

LEMMA AppendIs ==
    ASSUME NEW S, NEW q \in Seq(S), NEW e \in S
    PROVE  Append(q, e) = q \o <<e>>
<1>1. <<e>> \in Seq(S) /\ Len(<<e>>) = 1
  OBVIOUS
<1>2. q \o <<e>> \in Seq(S) /\ Len(q \o <<e>>) = Len(q) + 1
      /\ \A i \in 1..(Len(q) + 1) : (q \o <<e>>)[i] = IF i <= Len(q) THEN q[i] ELSE <<e>>[i - Len(q)]
  BY <1>1, ConcatProperties
<1>3. Append(q, e) \in Seq(S) /\ Len(Append(q, e)) = Len(q) + 1
      /\ \A i \in 1..(Len(q) + 1) : Append(q, e)[i] = IF i <= Len(q) THEN q[i] ELSE e
  OBVIOUS
<1>4. \A i \in 1..(Len(q) + 1) : (q \o <<e>>)[i] = Append(q, e)[i]
  <2>. TAKE i \in 1..(Len(q) + 1)
  <2>1. Len(q) \in Nat
    OBVIOUS
  <2>2. ~(i <= Len(q)) => i - Len(q) = 1
    BY <2>1
  <2>. QED
    BY <1>2, <1>3, <2>2
<1>. QED
  BY <1>2, <1>3, <1>4, SeqEqual

LEMMA Join21 ==
    ASSUME NEW a, NEW b, NEW c
    PROVE  <<a, b>> \o <<c>> = <<a, b, c>>
<1>. DEFINE S == {a, b, c}
            q == <<a, b>>
            r == <<c>>
            t == <<a, b, c>>
<1>1. q \in Seq(S) /\ r \in Seq(S) /\ t \in Seq(S) /\ Len(q) = 2 /\ Len(r) = 1 /\ Len(t) = 2 + 1
  OBVIOUS
<1>2. (\A k \in 1..2 : t[k] = q[k]) /\ (\A k \in 1..1 : t[2 + k] = r[k])
  OBVIOUS
<1>. HIDE DEF q, r, t, S
<1>3. /\ Len(t) = Len(q) + Len(r) /\ \A k \in 1..Len(q) : t[k] = q[k]
      /\ \A k \in 1..Len(r) : t[Len(q) + k] = r[k]
  BY <1>1, <1>2
<1>4. q \o r = t
  BY <1>1, <1>3, JoinIs
<1>. QED
  BY <1>4 DEF q, r, t

LEMMA Join22 ==
    ASSUME NEW a, NEW b, NEW c, NEW d
    PROVE  <<a, b>> \o <<c, d>> = <<a, b, c, d>>
<1>. DEFINE S == {a, b, c, d}
            q == <<a, b>>
            r == <<c, d>>
            t == <<a, b, c, d>>
<1>1. q \in Seq(S) /\ r \in Seq(S) /\ t \in Seq(S) /\ Len(q) = 2 /\ Len(r) = 2 /\ Len(t) = 2 + 2
  OBVIOUS
<1>2. (\A k \in 1..2 : t[k] = q[k]) /\ (\A k \in 1..2 : t[2 + k] = r[k])
  OBVIOUS
<1>. HIDE DEF q, r, t, S
<1>3. /\ Len(t) = Len(q) + Len(r) /\ \A k \in 1..Len(q) : t[k] = q[k]
      /\ \A k \in 1..Len(r) : t[Len(q) + k] = r[k]
  BY <1>1, <1>2
<1>4. q \o r = t
  BY <1>1, <1>3, JoinIs
<1>. QED
  BY <1>4 DEF q, r, t

LEMMA Join13 ==
    ASSUME NEW a, NEW b, NEW c, NEW d
    PROVE  <<a>> \o <<b, c, d>> = <<a, b, c, d>>
<1>. DEFINE S == {a, b, c, d}
            q == <<a>>
            r == <<b, c, d>>
            t == <<a, b, c, d>>
<1>1. q \in Seq(S) /\ r \in Seq(S) /\ t \in Seq(S) /\ Len(q) = 1 /\ Len(r) = 3 /\ Len(t) = 1 + 3
  OBVIOUS
<1>2. (\A k \in 1..1 : t[k] = q[k]) /\ (\A k \in 1..3 : t[1 + k] = r[k])
  OBVIOUS
<1>. HIDE DEF q, r, t, S
<1>3. /\ Len(t) = Len(q) + Len(r) /\ \A k \in 1..Len(q) : t[k] = q[k]
      /\ \A k \in 1..Len(r) : t[Len(q) + k] = r[k]
  BY <1>1, <1>2
<1>4. q \o r = t
  BY <1>1, <1>3, JoinIs
<1>. QED
  BY <1>4 DEF q, r, t

LEMMA Join23 ==
    ASSUME NEW a, NEW b, NEW c, NEW d, NEW e
    PROVE  <<a, b>> \o <<c, d, e>> = <<a, b, c, d, e>>
<1>. DEFINE S == {a, b, c, d, e}
            q == <<a, b>>
            r == <<c, d, e>>
            t == <<a, b, c, d, e>>
<1>1. q \in Seq(S) /\ r \in Seq(S) /\ t \in Seq(S) /\ Len(q) = 2 /\ Len(r) = 3 /\ Len(t) = 2 + 3
  OBVIOUS
<1>2. (\A k \in 1..2 : t[k] = q[k]) /\ (\A k \in 1..3 : t[2 + k] = r[k])
  OBVIOUS
<1>. HIDE DEF q, r, t, S
<1>3. /\ Len(t) = Len(q) + Len(r) /\ \A k \in 1..Len(q) : t[k] = q[k]
      /\ \A k \in 1..Len(r) : t[Len(q) + k] = r[k]
  BY <1>1, <1>2
<1>4. q \o r = t
  BY <1>1, <1>3, JoinIs
<1>. QED
  BY <1>4 DEF q, r, t

LEMMA Append21 == ASSUME NEW a, NEW b, NEW c PROVE Append(<<a, b>>, c) = <<a, b, c>>
<1>1. <<a, b>> \in Seq({a, b, c}) /\ c \in {a, b, c}
  OBVIOUS
<1>. QED
  BY <1>1, AppendIs, Join21

LEMMA PutOps ==
    ASSUME NEW s, NEW x, NEW y
    PROVE  /\ Iunlockput(s) \o <<x>> = << <<"iunlock", s>>, <<"iput", s>>, x>>
           /\ Append(Iunlockput(s), x) = << <<"iunlock", s>>, <<"iput", s>>, x>>
           /\ << >> \o Append(Iunlockput(s), x) = << <<"iunlock", s>>, <<"iput", s>>, x>>
           /\ <<y>> \o Append(Iunlockput(s), x) = <<y, <<"iunlock", s>>, <<"iput", s>>, x>>
           /\ << >> \o <<x>> = <<x>>
<1>. DEFINE a == <<"iunlock", s>>
            b == <<"iput", s>>
<1>1. Iunlockput(s) = <<a, b>>
  BY DEF Iunlockput
<1>. HIDE DEF a, b
<1>2. <<a, b>> \o <<x>> = <<a, b, x>>
  BY Join21
<1>3. Append(<<a, b>>, x) = <<a, b, x>>
  BY Append21
<1>5. << >> \o <<a, b, x>> = <<a, b, x>>
  OBVIOUS
<1>6. <<y>> \o <<a, b, x>> = <<y, a, b, x>>
  BY Join13
<1>7. << >> \o <<x>> = <<x>>
  OBVIOUS
<1>. QED
  BY <1>1, <1>2, <1>3, <1>5, <1>6, <1>7 DEF a, b

LEMMA PutTwo ==
    ASSUME NEW s, NEW x, NEW y
    PROVE  Iunlockput(s) \o <<x, y>> = << <<"iunlock", s>>, <<"iput", s>>, x, y>>
<1>. DEFINE a == <<"iunlock", s>>
            b == <<"iput", s>>
<1>1. Iunlockput(s) = <<a, b>>
  BY DEF Iunlockput
<1>. HIDE DEF a, b
<1>2. <<a, b>> \o <<x, y>> = <<a, b, x, y>>
  BY Join22
<1>. QED
  BY <1>1, <1>2 DEF a, b

LEMMA PutBoth ==
    ASSUME NEW s, NEW d, NEW x
    PROVE  Iunlockput(s) \o Append(Iunlockput(d), x) =
             << <<"iunlock", s>>, <<"iput", s>>, <<"iunlock", d>>, <<"iput", d>>, x>>
<1>. DEFINE a == <<"iunlock", s>>
            b == <<"iput", s>>
            c == <<"iunlock", d>>
            e == <<"iput", d>>
<1>1. Iunlockput(s) = <<a, b>> /\ Iunlockput(d) = <<c, e>>
  BY DEF Iunlockput
<1>. HIDE DEF a, b, c, e
<1>2. Append(<<c, e>>, x) = <<c, e, x>>
  BY Append21
<1>3. <<a, b>> \o <<c, e, x>> = <<a, b, c, e, x>>
  BY Join23
<1>. QED
  BY <1>1, <1>2, <1>3 DEF a, b, c, e

(* A plain section with its references.                                    *)
PlainRef(p, ops, v) ==
    icache'[v].ref = icache[v].ref - Is(SlotOf(todo[p][1]), v) + Sum5(SlotVals(ops), v)
                     - Taken(reg[p], v) + Taken(reg'[p], v)

LEMMA SectionMove ==
    ASSUME Core, NEW p \in Procs, NEW ops, After(p, ops), Plain(p, ops), FilesStay, RegMove(p),
           CacheKept, \A v \in Slots : PlainRef(p, ops, v), Shape(todo'[p], reg'[p])
    PROVE  Core'
<1>1. \A v \in Slots : RefMove(p, ops, v)
  <2>. TAKE v \in Slots
  <2>1. Types /\ SlotRefs /\ v # 0
    BY SizesAre DEF Core
  <2>2. Count(Dirs, v)' = Count(Dirs, v) /\ Count(Opened, v)' = Count(Opened, v)
    BY <2>1, DirsStay
  <2>3. Count(Dirs, v) \in Int /\ Count(Opened, v) \in Int
    BY HoldersFinite, CountNat
  <2>4. icache[v].ref \in Int /\ Taken(reg[p], v) \in Int /\ Taken(reg'[p], v) \in Int
        /\ Sum5(SlotVals(ops), v) \in Int /\ Is(SlotOf(todo[p][1]), v) \in Int
    BY <2>1, RefPositive, IsInt DEF Taken, Sum5
  <2>5. PlainRef(p, ops, v)
    OBVIOUS
  <2>. QED
    BY <2>2, <2>3, <2>4, <2>5 DEF PlainRef, RefMove
<1>. QED
  BY <1>1, PlainMove

-----------------------------------------------------------------------------
(* The inode cache.                                                        *)

(* A nonempty set of numbers has a least member.                           *)
LEMMA LeastNumber ==
    ASSUME NEW S \in SUBSET Nat, S # {}
    PROVE  \E x \in S : \A y \in S : x <= y
<1> DEFINE R == {ss \in Nat \X Nat : ss[1] < ss[2]}
<1>1. IsWellFoundedOn(R, Nat)
  BY NatLessThanWellFounded, Zenon DEF OpToRel
<1>2. \A x, y \in Nat : x < y => <<x, y>> \in R
  OBVIOUS
<1> HIDE DEF R
<1>3. PICK x \in S : \A y \in S : ~(<<y, x>> \in R)
  BY <1>1, WFMin, Zenon
<1>4. ASSUME NEW y \in S  PROVE  x <= y
  <2>1. ~(y < x)
    BY <1>2, <1>3, Zenon
  <2>. QED
    BY <2>1
<1>. QED
  BY <1>4, Zenon

LEMMA MinIn ==
    ASSUME NEW S \in SUBSET Nat, S # {}
    PROVE  Min(S) \in S
  BY LeastNumber, Zenon DEF Min

(* The entries in use keep their inodes; one gets a reference, one loses   *)
(* one, 0 if none does.                                                    *)
CacheMoves(g, d) ==
    CacheKept /\ \A v \in Slots : icache'[v].ref = icache[v].ref + Is(g, v) - Is(d, v)

LEMMA CacheSame ==
    ASSUME Types, SlotRefs, DOMAIN icache' = Slots,
           \A v \in Slots : /\ {"inum", "ref"} \subseteq DOMAIN icache'[v]
                            /\ icache'[v].ref = icache[v].ref /\ icache'[v].inum = icache[v].inum
    PROVE  CacheMoves(0, 0)
<1>1. \A v \in Slots : icache[v].ref \in Int /\ Is(0, v) \in Int
  BY RefPositive, IsInt
<1>. QED
  BY <1>1 DEF CacheMoves, CacheKept, Types

LEMMA CacheUnchanged ==
    ASSUME Types, SlotRefs, UNCHANGED icache
    PROVE  CacheMoves(0, 0)
  BY CacheSame DEF Types

LEMMA IdupMoves ==
    ASSUME Types, SlotRefs, NEW s \in Slots, icache' = Idup(s)
    PROVE  CacheMoves(s, 0)
<1>1. \A v \in Slots : icache[v].ref \in Int
  BY RefPositive
<1>2. DOMAIN icache' = Slots /\ \A v \in Slots : /\ DOMAIN icache'[v] = DOMAIN icache[v]
                                                 /\ icache'[v].inum = icache[v].inum
                                                 /\ v # s => icache'[v] = icache[v]
  BY DEF Types, Idup
<1>3. icache'[s].ref = icache[s].ref + 1
  BY <1>1 DEF Types, Idup
<1>4. \A v \in Slots : Is(0, v) = 0 /\ Is(s, v) = IF v = s THEN 1 ELSE 0
  BY SizesAre DEF Is
<1>5. CacheKept
  BY <1>2 DEF CacheKept, Types
<1>6. \A v \in Slots : icache'[v].ref = icache[v].ref + Is(s, v) - Is(0, v)
  <2>. TAKE v \in Slots
  <2>1. CASE v = s
    BY <1>1, <1>3, <1>4, <2>1
  <2>2. CASE v # s
    BY <1>1, <1>2, <1>4, <2>2
  <2>. QED
    BY <2>1, <2>2
<1>. QED
  BY <1>5, <1>6 DEF CacheMoves

LEMMA IgetMoves ==
    ASSUME Types, SlotRefs, NEW i, IgetSlot(i) # 0, icache' = Iget(i)
    PROVE  IgetSlot(i) \in Slots /\ CacheMoves(IgetSlot(i), 0)
<1>. DEFINE s == IgetSlot(i)
<1>0. Referenced(i) \in SUBSET Nat /\ Unused \in SUBSET Nat /\ DOMAIN icache = Slots
      /\ Referenced(i) \subseteq Slots /\ Unused \subseteq Slots
  BY SizesAre DEF Referenced, Unused, Types
<1>1. s \in Referenced(i) \/ s \in Unused
  BY <1>0, MinIn DEF IgetSlot
<1>2. s \in Slots
  BY <1>0, <1>1
<1>3. CASE s \in Referenced(i)
  <2>1. icache' = Idup(s)
    BY <1>3 DEF Iget, Idup
  <2>. HIDE DEF s
  <2>. QED
    BY <1>2, <2>1, IdupMoves DEF s
<1>4. CASE s \notin Referenced(i)
  <2>1. icache' = [icache EXCEPT ![s].inum = i, ![s].ref = 1, ![s].valid = FALSE]
    BY <1>4 DEF Iget
  <2>2. icache[s].ref = 0
    BY <1>1, <1>4 DEF Unused
  <2>. HIDE DEF s
  <2>3. DOMAIN icache' = Slots /\ \A v \in Slots : /\ DOMAIN icache'[v] = DOMAIN icache[v]
                                                   /\ v # s => icache'[v] = icache[v]
    BY <1>0, <1>2, <2>1
  <2>4. icache'[s].ref = 1
    BY <1>0, <1>2, <2>1 DEF Types
  <2>5. \A v \in Slots : Is(0, v) = 0 /\ Is(s, v) = IF v = s THEN 1 ELSE 0
    BY SizesAre DEF Is
  <2>6. \A v \in Slots : icache[v].ref \in Int
    BY RefPositive
  <2>7. CacheKept
    BY <2>2, <2>3 DEF CacheKept, Types
  <2>8. \A v \in Slots : icache'[v].ref = icache[v].ref + Is(s, v) - Is(0, v)
    BY <2>2, <2>3, <2>4, <2>5, <2>6
  <2>. QED
    BY <1>2, <2>7, <2>8 DEF CacheMoves, s
<1>. QED
  BY <1>2, <1>3, <1>4

(* The next section is one of those that start with local variables.       *)
LEMMA HeadMain ==
    ASSUME NEW q, IsSeq(q), q # << >>, NEW rg, Shape(q, rg), q[1][1] \in MainOps
    PROVE  /\ Holds(q[1][1], rg)
           /\ q[1][1] \notin CreateOps => Len(q) = 1
           /\ q[1][1] \in CreateOps => Len(q) = 2 /\ q[2][1] \in {"open1", "mk1"}
<1>. DEFINE L == Len(q)
            m == Mains(q)
<1>1. L \in Nat \ {0} /\ m \in 0..2 /\ m <= L
  BY SeqFacts, MainsIs
<1>2. m # 0
  <2>1. m = 0 => Outside(q[1])
    <3>1. 1 \in 1..L
      <4>. HIDE DEF L
      <4>. QED
        BY <1>1
    <3>. QED
      BY <3>1 DEF Shape
  <2>. QED
    BY <2>1, OpsApart
<1>3. ~(1 <= L - m)
  <2>1. 1 <= L - m => 1 \in 1..(L - m)
    <3>. HIDE DEF L, m
    <3>. QED
      BY <1>1
  <2>2. m > 0
    <3>. HIDE DEF L, m
    <3>. QED
      BY <1>1, <1>2
  <2>3. 1 <= L - m => Within(q[1])
    BY <2>1, <2>2 DEF Shape
  <2>. QED
    BY <2>3, OpsApart
<1>4. L = m /\ L + 1 - m = 1 /\ m > 0
  <2>. HIDE DEF L, m
  <2>. QED
    BY <1>1, <1>2, <1>3
<1>5. Needs(q) = q[1][1]
  BY <1>4 DEF Needs
<1>6. Holds(q[1][1], rg)
  BY <1>4, <1>5 DEF Shape
<1>7. CASE m = 1
  BY <1>4, <1>6, <1>7 DEF Shape
<1>8. CASE m = 2
  BY <1>4, <1>5, <1>6, <1>8, MainsIs DEF Shape
<1>. QED
  BY <1>1, <1>2, <1>7, <1>8

(* The call is done but for sections that need no local variables.         *)
LEMMA MainOut ==
    ASSUME NEW p \in Procs, NEW ops, After(p, ops), Shape(todo[p], reg[p]),
           todo[p][1][1] \in MainOps \ CreateOps,
           \A k \in 1..Len(ops) : Outside(ops[k]), NoInodes(reg'[p])
    PROVE  Shape(todo'[p], reg'[p])
<1>1. Len(todo[p]) = 1
  BY HeadMain DEF After
<1>2. Len(ops) \in 0..5 /\ IsSeq(todo'[p]) /\ Len(todo'[p]) = Len(ops)
  BY <1>1 DEF After
<1>3. \A k \in 1..Len(todo'[p]) : k <= Len(ops)
  BY <1>2
<1>4. \A k \in 1..Len(todo'[p]) : todo'[p][k] = ops[k]
  BY <1>3 DEF After
<1>5. \A k \in 1..Len(todo'[p]) : Outside(todo'[p][k])
  BY <1>2, <1>4
<1>. QED
  BY <1>2, <1>5, ShapeOutside

(* The call goes on with a section that starts with local variables.       *)
LEMMA MainOn ==
    ASSUME NEW p \in Procs, NEW ops, After(p, ops), Shape(todo[p], reg[p]),
           todo[p][1][1] \in MainOps \ CreateOps,
           NEW n \in 1..5, Len(ops) = n,
           \A k \in 1..n : k < n => Within(ops[k]), ops[n][1] \in MainOps \ CreateOps,
           Holds(ops[n][1], reg'[p]),
           \A k, l \in 1..n : ops[k][1] \in WalkOps /\ ops[l][1] \in WalkOps => k = l,
           \A k \in 1..n : ops[k][1] \in WalkOps => reg'[p].r = 0 /\ ops[n][1] \in UsesR
    PROVE  Shape(todo'[p], reg'[p])
<1>. DEFINE t == todo'[p]
<1>1. Len(todo[p]) = 1
  BY HeadMain DEF After
<1>2. IsSeq(t) /\ Len(t) = n
  BY <1>1 DEF After
<1>3. \A k \in 1..Len(t) : k <= Len(ops)
  BY <1>2
<1>4. \A k \in 1..Len(t) : t[k] = ops[k]
  BY <1>3 DEF After
<1>. HIDE DEF t
<1>5. t[Len(t) + 1 - 1] = ops[n] /\ t[Len(t)] = ops[n] /\ 1 <= Len(t)
  BY <1>2, <1>4
<1>6. \A k \in 1..(Len(t) - 1) : Within(t[k])
  BY <1>2, <1>4
<1>7. \A k \in Walking(t) : k \in 1..n /\ ops[k][1] \in WalkOps
  BY <1>2, <1>4 DEF Walking
<1>8. (\A k, l \in Walking(t) : k = l) /\ (Walking(t) # {} => reg'[p].r = 0 /\ ops[n][1] \in UsesR)
  BY <1>7
<1>. DEFINE op == ops[n][1]
<1>9. /\ op = t[Len(t) + 1 - 1][1] /\ Holds(op, reg'[p]) /\ t[Len(t)][1] \in MainOps \ CreateOps
      /\ Walking(t) # {} => reg'[p].r = 0 /\ op \in UsesR
  BY <1>5, <1>8
<1>. HIDE DEF op
<1>10. Shape(t, reg'[p])
  BY <1>2, <1>5, <1>6, <1>8, <1>9, ShapeWithin
<1>. QED
  BY <1>10 DEF t

(* create() is done, and its caller goes on.                               *)
LEMMA CreateOut ==
    ASSUME NEW p \in Procs, NEW ops, After(p, ops), Shape(todo[p], reg[p]),
           todo[p][1][1] \in CreateOps,
           \A k \in 1..Len(ops) : Within(ops[k]) /\ ops[k][1] \notin WalkOps,
           reg'[p].r \in {0} \cup Slots, reg'[p].ip = 0, reg'[p].dp = 0
    PROVE  Shape(todo'[p], reg'[p])
<1>. DEFINE t == todo'[p]
            n == Len(ops)
<1>1. Len(todo[p]) = 2 /\ todo[p][2][1] \in {"open1", "mk1"}
  BY HeadMain, OpsApart DEF After
<1>2. n \in 0..5 /\ IsSeq(t) /\ Len(t) = n + 1
  BY <1>1 DEF After
<1>3. \A k \in 1..Len(t) : t[k] = IF k <= n THEN ops[k] ELSE todo[p][k - n + 1]
  BY DEF After
<1>. HIDE DEF t, n
<1>4. t[Len(t)] = todo[p][2] /\ t[Len(t) + 1 - 1] = todo[p][2] /\ 1 <= Len(t)
  <2>1. n + 1 \in 1..Len(t) /\ ~(n + 1 <= n) /\ (n + 1) - n + 1 = 2 /\ Len(t) + 1 - 1 = Len(t)
    BY <1>2
  <2>. QED
    BY <1>2, <1>3, <2>1
<1>5. \A k \in 1..(Len(t) - 1) : k \in 1..n /\ k <= n /\ k \in 1..Len(t)
  BY <1>2
<1>6. \A k \in 1..(Len(t) - 1) : Within(t[k]) /\ t[k][1] \notin WalkOps
  BY <1>3, <1>5 DEF n
<1>7. todo[p][2][1] \in MainOps \ CreateOps /\ todo[p][2][1] \notin WalkOps
      /\ todo[p][2][1] \in UsesR /\ todo[p][2][1] \notin UsesIp /\ todo[p][2][1] \notin UsesDp
  BY <1>1 DEF MainOps, CreateOps, WalkOps, UsesR, UsesIp, UsesDp
<1>8. Walking(t) = {}
  <2>1. \A k \in 1..Len(t) : k \in 1..(Len(t) - 1) \/ k = Len(t)
    BY <1>2
  <2>. QED
    BY <1>4, <1>6, <1>7, <2>1 DEF Walking
<1>9. Holds(todo[p][2][1], reg'[p])
  BY <1>7 DEF Holds
<1>. QED
  BY <1>2, <1>4, <1>6, <1>7, <1>8, <1>9, ShapeWithin DEF t

(* create() goes on.                                                       *)
LEMMA CreateOn ==
    ASSUME NEW p \in Procs, NEW ops, After(p, ops), Shape(todo[p], reg[p]),
           todo[p][1][1] \in CreateOps,
           NEW n \in 1..5, Len(ops) = n,
           \A k \in 1..n : k < n => Within(ops[k]) /\ ops[k][1] \notin WalkOps,
           ops[n][1] \in CreateOps, Holds(ops[n][1], reg'[p])
    PROVE  Shape(todo'[p], reg'[p])
<1>. DEFINE t == todo'[p]
<1>1. Len(todo[p]) = 2 /\ todo[p][2][1] \in {"open1", "mk1"}
  BY HeadMain, OpsApart DEF After
<1>2. IsSeq(t) /\ Len(t) = n + 1
  BY <1>1 DEF After
<1>3. \A k \in 1..Len(t) : t[k] = IF k <= n THEN ops[k] ELSE todo[p][k - n + 1]
  BY DEF After
<1>. HIDE DEF t
<1>4. t[Len(t)] = todo[p][2] /\ t[Len(t) - 1] = ops[n] /\ Len(t) + 1 - 2 = Len(t) - 1 /\ 2 <= Len(t)
  <2>1. /\ n + 1 \in 1..Len(t) /\ ~(n + 1 <= n) /\ (n + 1) - n + 1 = 2 /\ Len(t) + 1 - 2 = n
        /\ n \in 1..Len(t) /\ n <= n /\ Len(t) - 1 = n
    BY <1>2
  <2>. QED
    BY <1>2, <1>3, <2>1
<1>5. \A k \in 1..(Len(t) - 2) : k \in 1..n /\ k < n /\ k <= n /\ k \in 1..Len(t)
  BY <1>2
<1>6. \A k \in 1..(Len(t) - 2) : Within(t[k]) /\ t[k][1] \notin WalkOps
  BY <1>3, <1>5
<1>7. todo[p][2][1] \in MainOps \ CreateOps /\ todo[p][2][1] \notin WalkOps
      /\ ops[n][1] \notin WalkOps
  BY <1>1, OpsApart DEF MainOps, CreateOps, WalkOps, UsesR
<1>8. Walking(t) = {}
  <2>1. \A k \in 1..Len(t) : k \in 1..(Len(t) - 2) \/ k = Len(t) \/ k = Len(t) - 1
    BY <1>2
  <2>. QED
    BY <1>4, <1>6, <1>7, <2>1 DEF Walking
<1>. QED
  BY <1>1, <1>2, <1>4, <1>6, <1>7, <1>8, ShapeWithin DEF t

-----------------------------------------------------------------------------
(* The sections of Inode.                                                  *)

(* What is taken is given.                                                 *)
Balance(p, ops, g, d, v) ==
    Is(g, v) - Is(d, v) + Is(SlotOf(todo[p][1]), v) + Taken(reg[p], v)
        = Sum5(SlotVals(ops), v) + Taken(reg'[p], v)

LEMMA Balanced ==
    ASSUME Core, NEW p \in Procs, NEW ops, After(p, ops), Plain(p, ops), FilesStay, RegMove(p),
           NEW g, NEW d, CacheMoves(g, d), \A v \in Slots : Balance(p, ops, g, d, v),
           Shape(todo'[p], reg'[p])
    PROVE  Core'
<1>1. \A v \in Slots : PlainRef(p, ops, v)
  <2>. TAKE v \in Slots
  <2>1. Balance(p, ops, g, d, v) /\ icache'[v].ref = icache[v].ref + Is(g, v) - Is(d, v)
    BY DEF CacheMoves
  <2>2. icache[v].ref \in Int /\ Is(g, v) \in Int /\ Is(d, v) \in Int
        /\ Is(SlotOf(todo[p][1]), v) \in Int
    BY RefPositive, IsInt DEF Core
  <2>3. Taken(reg[p], v) \in Int /\ Taken(reg'[p], v) \in Int /\ Sum5(SlotVals(ops), v) \in Int
    BY IsInt DEF Taken, Sum5
  <2>. DEFINE i == icache[v].ref
              x == Is(g, v)
              y == Is(d, v)
              s == Is(SlotOf(todo[p][1]), v)
              t == Taken(reg[p], v)
              u == Taken(reg'[p], v)
              m == Sum5(SlotVals(ops), v)
  <2>4. x - y + s + t = m + u /\ icache'[v].ref = i + x - y
    BY <2>1 DEF Balance
  <2>5. {i, x, y, s, t, u, m} \subseteq Int
    BY <2>2, <2>3
  <2>6. icache'[v].ref = i - s + m - t + u
    <3>. HIDE DEF i, x, y, s, t, u, m
    <3>. QED
      BY <2>4, <2>5
  <2>. QED
    BY <2>6 DEF PlainRef
<1>2. CacheKept
  BY DEF CacheMoves
<1>. QED
  BY <1>1, <1>2, SectionMove

SameInodes(p) == reg'[p].r = reg[p].r /\ reg'[p].ip = reg[p].ip /\ reg'[p].dp = reg[p].dp
SlotsEven(p, ops, g, d, v) ==
    Is(g, v) - Is(d, v) + Is(SlotOf(todo[p][1]), v) = Sum5(SlotVals(ops), v)
MayPush(p, x) ==
    x[1] \notin SpecialOps /\ IF Mains(todo[p]) = 0 THEN Outside(x) ELSE Within(x)

LEMMA InnerMove ==
    ASSUME Core, NEW p \in Procs, NEW ops, After(p, ops), FilesStay, RegMove(p), SameInodes(p),
           NEW g, NEW d, CacheMoves(g, d), \A v \in Slots : SlotsEven(p, ops, g, d, v),
           todo[p][1][1] \notin MainOps \cup SpecialOps,
           \A k \in 1..Len(ops) : MayPush(p, ops[k]),
           \A k \in 1..Len(ops) : ops[k][1] \in WalkOps => todo[p][1][1] \in WalkOps,
           \A k, l \in 1..Len(ops) : ops[k][1] \in WalkOps /\ ops[l][1] \in WalkOps => k = l
    PROVE  Core'
<1>0. Types /\ IsSeq(todo[p]) /\ todo[p] # << >> /\ Shape(todo[p], reg[p])
  BY DEF Core, Shapes, After
<1>1. Plain(p, ops)
  BY DEF Plain, MayPush
<1>2. /\ Mains(todo[p]) = 0 => NoInodes(reg'[p])
      /\ Mains(todo[p]) > 0 => Holds(Needs(todo[p]), reg'[p])
      /\ todo[p][1][1] \in WalkOps => reg'[p].r = 0
  <2>1. /\ Mains(todo[p]) = 0 => NoInodes(reg[p])
        /\ Mains(todo[p]) > 0 => Holds(Needs(todo[p]), reg[p])
        /\ Mains(todo[p]) > 0 /\ todo[p][1][1] \in WalkOps => reg[p].r = 0
    BY <1>0, HeadInner
  <2>2. Mains(todo[p]) = 0 \/ Mains(todo[p]) > 0
    BY <1>0, MainsIs
  <2>. QED
    BY <2>1, <2>2 DEF NoInodes, Holds, SameInodes
<1>3. \A k \in 1..Len(ops) : IF Mains(todo[p]) = 0 THEN Outside(ops[k]) ELSE Within(ops[k])
  BY DEF MayPush
<1>4. Shape(todo'[p], reg'[p])
  BY <1>0, <1>2, <1>3, PushInner DEF SameInodes
<1>5. \A v \in Slots : Balance(p, ops, g, d, v)
  <2>. TAKE v \in Slots
  <2>1. Taken(reg'[p], v) = Taken(reg[p], v) /\ Taken(reg[p], v) \in Int
    BY IsInt DEF Taken, SameInodes
  <2>2. Is(g, v) \in Int /\ Is(d, v) \in Int /\ Is(SlotOf(todo[p][1]), v) \in Int
    BY IsInt
  <2>3. SlotsEven(p, ops, g, d, v)
    OBVIOUS
  <2>. QED
    BY <2>1, <2>2, <2>3 DEF SlotsEven, Balance
<1>. QED
  BY <1>1, <1>4, <1>5, Balanced

(* A section that pushes nothing.                                          *)
LEMMA Pop ==
    ASSUME Core, NEW p \in Procs, todo[p] # << >>, Then(p, << >>), FilesStay, RegMove(p),
           SameInodes(p), CacheMoves(0, SlotOf(todo[p][1])),
           todo[p][1][1] \notin MainOps \cup SpecialOps
    PROVE  Core'
<1>1. Types /\ Few(<< >>) /\ Len(<< >>) = 0
  BY Ops0 DEF Core
<1>2. After(p, << >>)
  BY <1>1, ThenAfter DEF Few
<1>3. \A v \in Slots : SlotsEven(p, << >>, 0, SlotOf(todo[p][1]), v)
  <2>. TAKE v \in Slots
  <2>1. v # 0
    BY SizesAre
  <2>2. Sum5(SlotVals(<< >>), v) = 0 /\ Is(0, v) = 0 /\ Is(SlotOf(todo[p][1]), v) \in Int
    BY <2>1, Ops0, IsInt DEF Is
  <2>. QED
    BY <2>2 DEF SlotsEven
<1>. QED
  BY <1>1, <1>2, <1>3, InnerMove

(* Where the sections to come may be.                                      *)
LEMMA InodeOpsFit ==
    ASSUME NEW p, NEW x, x[1] \in InodeOps, x[2] \in Slots
    PROVE  MayPush(p, x) /\ x[1] \notin WalkOps
  BY DEF MayPush, InodeOps, WalkOps, Outside, Within, SpecialOps, LastOps

LEMMA RegSame ==
    ASSUME Types, NEW p \in Procs, UNCHANGED reg
    PROVE  RegMove(p) /\ SameInodes(p)
  BY DEF Types, RegMove, SameInodes

(* What the head of todo[p] is.                                            *)
LEMMA HeadIs ==
    ASSUME Core, NEW p \in Procs, NEW op, At(p, op), op \notin MainOps
    PROVE  /\ Mains(todo[p]) = 0 => Outside(todo[p][1]) /\ NoInodes(reg[p])
           /\ Mains(todo[p]) > 0 => Within(todo[p][1]) /\ Holds(Needs(todo[p]), reg[p])
           /\ Mains(todo[p]) > 0 /\ op \in WalkOps => reg[p].r = 0 /\ Needs(todo[p]) \in UsesR
           /\ Leaving(p) => Mains(todo[p]) = 0
           /\ Mains(todo[p]) = 0 \/ Mains(todo[p]) > 0
           /\ op \in InodeOps \cup {"walk", "step", "ilock"} => todo[p][1][2] \in Slots
           /\ op \in {"walk", "step", "namex", "ilock", "dirlink"} => Mains(todo[p]) > 0
<1>0. Types /\ Shape(todo[p], reg[p])
  BY DEF Core, Shapes
<1>1. todo[p] # << >> /\ IsSeq(todo[p]) /\ todo[p][1][1] = op
  BY <1>0, AtFacts
<1>2. Mains(todo[p]) = 0 \/ Mains(todo[p]) > 0
  BY <1>1, MainsIs
<1>3. /\ Mains(todo[p]) = 0 => Outside(todo[p][1]) /\ NoInodes(reg[p])
      /\ Mains(todo[p]) > 0 => Within(todo[p][1]) /\ Holds(Needs(todo[p]), reg[p])
      /\ Mains(todo[p]) > 0 /\ op \in WalkOps => reg[p].r = 0 /\ Needs(todo[p]) \in UsesR
      /\ todo[p][Len(todo[p])][1] \in {"chdir3", "exit2"} => Mains(todo[p]) = 0
  BY <1>0, <1>1, HeadInner
<1>4. Leaving(p) => Mains(todo[p]) = 0
  BY <1>3 DEF Leaving
<1>5. op \in InodeOps \cup {"walk", "step", "ilock"} => todo[p][1][2] \in Slots
  BY <1>1, <1>2, <1>3 DEF Outside, Within, InodeOps
<1>6. op \in {"walk", "step", "namex", "ilock", "dirlink"} => Mains(todo[p]) > 0
  BY <1>1, <1>2, <1>3 DEF Outside, InodeOps
<1>. QED
  BY <1>2, <1>3, <1>4, <1>5, <1>6

LEMMA PopOps ==
    /\ \A op \in {"begin_op", "end_op", "ilock", "iunlock", "iput", "ifree", "idrop", "dirlink",
                  "namex", "walk", "step"} : op \notin MainOps \cup SpecialOps
    /\ \A x : x[1] \in {"begin_op", "end_op", "ilock", "iunlock", "ifree", "dirlink", "namex"} =>
           SlotOf(x) = 0
<1>1. \A op \in {"begin_op", "end_op", "ilock", "iunlock", "iput", "ifree", "idrop", "dirlink",
                  "namex", "walk", "step"} : op \notin MainOps \cup SpecialOps
  BY DEF MainOps, CreateOps, UsesR, UsesIp, UsesDp, SpecialOps, LastOps
<1>. QED
  BY <1>1 DEF SlotOf

LEMMA BeginOpKeeps ==
    ASSUME Core, NEW p \in Procs, BeginOp(p), UNCHANGED fileVars
    PROVE  Core'
<1>0. Types /\ SlotRefs /\ At(p, "begin_op") /\ Then(p, << >>)
  BY DEF Core, BeginOp
<1>1. todo[p] # << >> /\ todo[p][1][1] = "begin_op"
  BY <1>0, AtFacts
<1>2. FilesStay /\ UNCHANGED icache /\ UNCHANGED reg
  BY DEF BeginOp, FilesStay, fileVars
<1>. QED
  BY <1>0, <1>1, <1>2, CacheUnchanged, RegSame, PopOps, Pop

LEMMA EndOpKeeps ==
    ASSUME Core, NEW p \in Procs, EndOp(p), UNCHANGED fileVars
    PROVE  Core'
<1>0. Types /\ SlotRefs /\ At(p, "end_op") /\ Then(p, << >>)
  BY DEF Core, EndOp
<1>1. todo[p] # << >> /\ todo[p][1][1] = "end_op" /\ "end_op" \notin MainOps
  BY <1>0, AtFacts, PopOps
<1>2. NoInodes(reg[p])
  <2>1. ~Within(todo[p][1])
    BY <1>1 DEF Within, InodeOps
  <2>. QED
    BY <1>0, <1>1, <2>1, HeadIs
<1>3. RegMove(p) /\ SameInodes(p)
  BY <1>0, <1>2 DEF EndOp, Types, RegMove, SameInodes, NoInodes, NoRegs
<1>4. FilesStay /\ UNCHANGED icache
  BY DEF EndOp, FilesStay, fileVars
<1>. QED
  BY <1>0, <1>1, <1>3, <1>4, CacheUnchanged, PopOps, Pop

LEMMA IlockKeeps ==
    ASSUME Core, NEW p \in Procs, Ilock(p), UNCHANGED fileVars
    PROVE  Core'
<1>0. Types /\ SlotRefs /\ At(p, "ilock") /\ Then(p, << >>)
  BY DEF Core, Ilock
<1>1. todo[p] # << >> /\ todo[p][1][1] = "ilock"
  BY <1>0, AtFacts
<1>2. DOMAIN icache' = Slots /\ \A v \in Slots :
        /\ DOMAIN icache'[v] = DOMAIN icache[v]
        /\ icache'[v].ref = icache[v].ref /\ icache'[v].inum = icache[v].inum
  BY <1>0 DEF Ilock, Types
<1>3. CacheMoves(0, 0)
  BY <1>0, <1>2, CacheSame DEF Types
<1>4. FilesStay /\ UNCHANGED reg
  BY DEF Ilock, FilesStay, fileVars
<1>. QED
  BY <1>0, <1>1, <1>3, <1>4, RegSame, PopOps, Pop

LEMMA IunlockKeeps ==
    ASSUME Core, NEW p \in Procs, Iunlock(p), UNCHANGED fileVars
    PROVE  Core'
<1>0. Types /\ SlotRefs /\ At(p, "iunlock") /\ Then(p, << >>)
  BY DEF Core, Iunlock
<1>1. todo[p] # << >> /\ todo[p][1][1] = "iunlock"
  BY <1>0, AtFacts
<1>2. DOMAIN icache' = Slots /\ \A v \in Slots :
        /\ DOMAIN icache'[v] = DOMAIN icache[v]
        /\ icache'[v].ref = icache[v].ref /\ icache'[v].inum = icache[v].inum
  BY <1>0 DEF Iunlock, Types
<1>3. CacheMoves(0, 0)
  BY <1>0, <1>2, CacheSame DEF Types
<1>4. FilesStay /\ UNCHANGED reg
  BY DEF Iunlock, FilesStay, fileVars
<1>. QED
  BY <1>0, <1>1, <1>3, <1>4, RegSame, PopOps, Pop

LEMMA IputFreeKeeps ==
    ASSUME Core, NEW p \in Procs, IputFree(p), UNCHANGED fileVars
    PROVE  Core'
<1>0. Types /\ SlotRefs /\ At(p, "ifree") /\ Then(p, << >>)
  BY DEF Core, IputFree
<1>1. todo[p] # << >> /\ todo[p][1][1] = "ifree"
  BY <1>0, AtFacts
<1>2. DOMAIN icache' = Slots /\ \A v \in Slots :
        /\ DOMAIN icache'[v] = DOMAIN icache[v]
        /\ icache'[v].ref = icache[v].ref /\ icache'[v].inum = icache[v].inum
  BY <1>0 DEF IputFree, Types
<1>3. CacheMoves(0, 0)
  BY <1>0, <1>2, CacheSame DEF Types
<1>4. FilesStay /\ UNCHANGED reg
  BY DEF IputFree, FilesStay, fileVars
<1>. QED
  BY <1>0, <1>1, <1>3, <1>4, RegSame, PopOps, Pop

LEMMA IputDropKeeps ==
    ASSUME Core, NEW p \in Procs, IputDrop(p), UNCHANGED fileVars
    PROVE  Core'
<1>0. Types /\ SlotRefs /\ At(p, "idrop") /\ Then(p, << >>)
  BY DEF Core, IputDrop
<1>1. todo[p] # << >> /\ todo[p][1][1] = "idrop" /\ Arg(p, 1) = todo[p][1][2]
  BY <1>0, AtFacts
<1>. DEFINE s == todo[p][1][2]
<1>2. s \in Slots /\ SlotOf(todo[p][1]) = s
  <2>1. "idrop" \in InodeOps /\ "idrop" \notin MainOps
    BY PopOps DEF InodeOps
  <2>. QED
    BY <1>0, <1>1, <2>1, HeadIs DEF SlotOf
<1>3. icache' = [icache EXCEPT ![s].ref = @ - 1]
  BY <1>1 DEF IputDrop
<1>. HIDE DEF s
<1>4. CacheMoves(0, s)
  <2>1. \A v \in Slots : icache[v].ref \in Int /\ Is(0, v) = 0 /\ Is(s, v) = IF v = s THEN 1 ELSE 0
    BY <1>0, SizesAre, RefPositive DEF Is
  <2>2. DOMAIN icache' = Slots /\ \A v \in Slots : /\ DOMAIN icache'[v] = DOMAIN icache[v]
                                                   /\ icache'[v].inum = icache[v].inum
                                                   /\ v # s => icache'[v] = icache[v]
    BY <1>0, <1>3 DEF Types
  <2>3. icache'[s].ref = icache[s].ref - 1
    BY <1>0, <1>2, <1>3 DEF Types
  <2>4. \A v \in Slots : icache'[v].ref = icache[v].ref + Is(0, v) - Is(s, v)
    BY <2>1, <2>2, <2>3
  <2>. QED
    BY <1>0, <2>2, <2>4 DEF CacheMoves, CacheKept, Types
<1>5. FilesStay /\ UNCHANGED reg
  BY DEF IputDrop, FilesStay, fileVars
<1>. QED
  BY <1>0, <1>1, <1>2, <1>4, <1>5, RegSame, PopOps, Pop

(* Sections that push one, two or three others.                            *)
Even(p, g, d, m, v) == Is(g, v) - Is(d, v) + Is(SlotOf(todo[p][1]), v) = m

LEMMA EvenSlots ==
    ASSUME NEW p, NEW g, NEW d, NEW v, NEW ops, NEW m, Even(p, g, d, m, v), Sum5(SlotVals(ops), v) = m
    PROVE  SlotsEven(p, ops, g, d, v)
  BY DEF Even, SlotsEven

LEMMA Push1 ==
    ASSUME Core, NEW p \in Procs, todo[p] # << >>, NEW a, Then(p, <<a>>), FilesStay, RegMove(p),
           SameInodes(p), NEW g, NEW d, CacheMoves(g, d),
           \A v \in Slots : Even(p, g, d, Sum1(a, v), v),
           todo[p][1][1] \notin MainOps \cup SpecialOps,
           MayPush(p, a), a[1] \in WalkOps => todo[p][1][1] \in WalkOps
    PROVE  Core'
<1>1. Types /\ Few(<<a>>) /\ Len(<<a>>) = 1 /\ <<a>>[1] = a
  BY Ops1 DEF Core
<1>2. After(p, <<a>>)
  BY <1>1, ThenAfter DEF Few
<1>3. \A v \in Slots : SlotsEven(p, <<a>>, g, d, v)
  <2>. TAKE v \in Slots
  <2>1. v # 0
    BY SizesAre
  <2>2. Sum5(SlotVals(<<a>>), v) = Sum1(a, v)
    BY <2>1, Ops1
  <2>. QED
    BY <2>2, EvenSlots
<1>4. \A k \in 1..Len(<<a>>) : <<a>>[k] = a /\ k = 1
  BY <1>1
<1>. QED
  BY <1>1, <1>2, <1>3, <1>4, InnerMove

LEMMA Push2 ==
    ASSUME Core, NEW p \in Procs, todo[p] # << >>, NEW a, NEW b, Then(p, <<a, b>>), FilesStay,
           RegMove(p), SameInodes(p), NEW g, NEW d, CacheMoves(g, d),
           \A v \in Slots : Even(p, g, d, Sum2(a, b, v), v),
           todo[p][1][1] \notin MainOps \cup SpecialOps,
           MayPush(p, a), MayPush(p, b), a[1] \notin WalkOps,
           b[1] \in WalkOps => todo[p][1][1] \in WalkOps
    PROVE  Core'
<1>. DEFINE ops == <<a, b>>
<1>1. Types /\ Few(ops) /\ Len(ops) = 2 /\ ops[1] = a /\ ops[2] = b
  BY Ops2 DEF Core
<1>2. After(p, ops)
  BY <1>1, ThenAfter DEF Few
<1>3. \A v \in Slots : SlotsEven(p, ops, g, d, v)
  <2>. TAKE v \in Slots
  <2>1. v # 0
    BY SizesAre
  <2>2. Sum5(SlotVals(ops), v) = Sum2(a, b, v)
    BY <2>1, Ops2
  <2>. HIDE DEF ops
  <2>. QED
    BY <2>2, EvenSlots
<1>4. \A k \in 1..Len(ops) : (ops[k] = a /\ k = 1) \/ (ops[k] = b /\ k = 2)
  BY <1>1
<1>. HIDE DEF ops
<1>. QED
  BY <1>1, <1>2, <1>3, <1>4, InnerMove

LEMMA Push3 ==
    ASSUME Core, NEW p \in Procs, todo[p] # << >>, NEW a, NEW b, NEW c, Then(p, <<a, b, c>>),
           FilesStay, RegMove(p), SameInodes(p), NEW g, NEW d, CacheMoves(g, d),
           \A v \in Slots : Even(p, g, d, Sum3(a, b, c, v), v),
           todo[p][1][1] \notin MainOps \cup SpecialOps,
           MayPush(p, a), MayPush(p, b), MayPush(p, c), a[1] \notin WalkOps, b[1] \notin WalkOps,
           c[1] \in WalkOps => todo[p][1][1] \in WalkOps
    PROVE  Core'
<1>. DEFINE ops == <<a, b, c>>
<1>1. Types /\ Few(ops) /\ Len(ops) = 3 /\ ops[1] = a /\ ops[2] = b /\ ops[3] = c
  BY Ops3 DEF Core
<1>2. After(p, ops)
  BY <1>1, ThenAfter DEF Few
<1>3. \A v \in Slots : SlotsEven(p, ops, g, d, v)
  <2>. TAKE v \in Slots
  <2>1. v # 0
    BY SizesAre
  <2>2. Sum5(SlotVals(ops), v) = Sum3(a, b, c, v)
    BY <2>1, Ops3
  <2>. HIDE DEF ops
  <2>. QED
    BY <2>2, EvenSlots
<1>4. \A k \in 1..Len(ops) : \/ ops[k] = a /\ k = 1
                             \/ ops[k] = b /\ k = 2
                             \/ ops[k] = c /\ k = 3
  BY <1>1
<1>. HIDE DEF ops
<1>. QED
  BY <1>1, <1>2, <1>3, <1>4, InnerMove

LEMMA IputLockKeeps ==
    ASSUME Core, NEW p \in Procs, IputLock(p), UNCHANGED fileVars
    PROVE  Core'
<1>0. Types /\ SlotRefs /\ At(p, "iput")
  BY DEF Core, IputLock
<1>1. todo[p] # << >> /\ todo[p][1][1] = "iput" /\ Arg(p, 1) = todo[p][1][2]
      /\ "iput" \notin MainOps \cup SpecialOps
  BY <1>0, AtFacts, PopOps
<1>. DEFINE s == todo[p][1][2]
            a == <<"ifree", s>>
            b == <<"idrop", s>>
<1>2. s \in Slots /\ SlotOf(todo[p][1]) = s
  <2>1. "iput" \in InodeOps
    BY DEF InodeOps
  <2>. QED
    BY <1>0, <1>1, <2>1, HeadIs DEF SlotOf
<1>3. /\ MayPush(p, a) /\ a[1] \notin WalkOps /\ SlotOf(a) = 0
      /\ MayPush(p, b) /\ b[1] \notin WalkOps /\ SlotOf(b) = s
  <2>1. a[1] \in InodeOps /\ a[2] \in Slots /\ b[1] \in InodeOps /\ b[2] \in Slots
    BY <1>2 DEF InodeOps
  <2>. QED
    BY <2>1, InodeOpsFit DEF SlotOf
<1>4. FilesStay /\ UNCHANGED reg
  BY DEF IputLock, FilesStay, fileVars
<1>5. CacheMoves(0, 0)
  <2>1. DOMAIN icache' = Slots /\ \A v \in Slots :
          /\ DOMAIN icache'[v] = DOMAIN icache[v]
          /\ icache'[v].ref = icache[v].ref /\ icache'[v].inum = icache[v].inum
    <3>1. icache' = [icache EXCEPT ![Arg(p, 1)].owner = p] \/ icache' = icache
      BY DEF IputLock
    <3>. QED
      BY <1>0, <3>1 DEF Types
  <2>. QED
    BY <1>0, <2>1, CacheSame DEF Types
<1>6. Then(p, <<a, b>>) \/ Then(p, <<b>>)
  BY <1>1 DEF IputLock
<1>. HIDE DEF a, b, s
<1>7. \A v \in Slots : Even(p, 0, 0, Sum1(b, v), v) /\ Even(p, 0, 0, Sum2(a, b, v), v)
  <2>. TAKE v \in Slots
  <2>1. Is(0, v) = 0 /\ Is(s, v) \in Int
    BY SizesAre, IsInt DEF Is
  <2>. QED
    BY <1>2, <1>3, <2>1 DEF Even, Sum1, Sum2
<1>8. RegMove(p) /\ SameInodes(p)
  BY <1>0, <1>4, RegSame
<1>9. CASE Then(p, <<a, b>>)
  BY <1>1, <1>3, <1>4, <1>5, <1>7, <1>8, <1>9, Push2
<1>10. CASE Then(p, <<b>>)
  BY <1>1, <1>3, <1>4, <1>5, <1>7, <1>8, <1>10, Push1
<1>. QED
  BY <1>6, <1>9, <1>10

LEMMA DirlinkKeeps ==
    ASSUME Core, NEW p \in Procs, Dirlink(p), UNCHANGED fileVars, panicked' = "no"
    PROVE  Core'
<1>0. Types /\ SlotRefs /\ At(p, "dirlink")
  BY DEF Core, Dirlink
<1>1. todo[p] # << >> /\ todo[p][1][1] = "dirlink" /\ SlotOf(todo[p][1]) = 0
      /\ "dirlink" \notin MainOps \cup SpecialOps
  BY <1>0, AtFacts, PopOps
<1>2. FilesStay
  BY DEF Dirlink, FilesStay, fileVars
<1>3. RegMove(p) /\ SameInodes(p)
  BY <1>0 DEF Dirlink, Types, RegMove, SameInodes, NoRegs
<1>4. CASE Then(p, << >>) /\ UNCHANGED icache
  BY <1>0, <1>1, <1>2, <1>3, <1>4, CacheUnchanged, Pop
<1>5. ASSUME NEW i, icache' = Iget(i), FullIf(IgetSlot(i) = 0), Then(p, << <<"iput", IgetSlot(i)>> >>)
      PROVE  Core'
  <2>. DEFINE s == IgetSlot(i)
              a == <<"iput", s>>
  <2>1. s # 0
    BY <1>5 DEF FullIf
  <2>2. s \in Slots /\ CacheMoves(s, 0)
    BY <1>0, <1>5, <2>1, IgetMoves
  <2>3. MayPush(p, a) /\ a[1] \notin WalkOps /\ SlotOf(a) = s
    <3>1. a[1] \in InodeOps /\ a[2] \in Slots
      BY <2>2 DEF InodeOps
    <3>. QED
      BY <3>1, InodeOpsFit DEF SlotOf
  <2>4. Then(p, <<a>>)
    BY <1>5
  <2>. HIDE DEF s, a
  <2>5. \A v \in Slots : Even(p, s, 0, Sum1(a, v), v)
    <3>. TAKE v \in Slots
    <3>1. Is(0, v) = 0 /\ Is(s, v) \in Int
      BY SizesAre, IsInt DEF Is
    <3>. QED
      BY <1>1, <2>3, <3>1 DEF Even, Sum1
  <2>. QED
    BY <1>1, <1>2, <1>3, <2>2, <2>3, <2>4, <2>5, Push1
<1>. QED
  BY <1>4, <1>5 DEF Dirlink

LEMMA NamexKeeps ==
    ASSUME Core, NEW p \in Procs, Namex(p), UNCHANGED fileVars, panicked' = "no"
    PROVE  Core'
<1>0. Types /\ SlotRefs /\ Alive /\ At(p, "namex")
  BY DEF Core, Namex
<1>1. todo[p] # << >> /\ todo[p][1][1] = "namex" /\ SlotOf(todo[p][1]) = 0
      /\ "namex" \notin MainOps \cup SpecialOps /\ "namex" \in WalkOps
  BY <1>0, AtFacts, PopOps DEF WalkOps
<1>2. FilesStay /\ UNCHANGED reg
  BY DEF Namex, FilesStay, fileVars
<1>3. RegMove(p) /\ SameInodes(p)
  BY <1>0, <1>2, RegSame
<1>4. cwd[p] \in Slots /\ Mains(todo[p]) > 0
  <2>1. Mains(todo[p]) > 0 /\ (Leaving(p) => Mains(todo[p]) = 0)
    BY <1>0, <1>1, HeadIs
  <2>2. p \in alive /\ ~Leaving(p)
    BY <1>0, <1>1, <2>1 DEF Alive
  <2>. QED
    BY <1>0, <2>1, <2>2 DEF Alive
<1>5. ASSUME NEW s \in Slots, NEW path, NEW nm, CacheMoves(s, 0), Then(p, << <<"walk", s, path, nm>> >>)
      PROVE  Core'
  <2>. DEFINE a == <<"walk", s, path, nm>>
  <2>1. MayPush(p, a) /\ SlotOf(a) = s
    <3>1. Within(a) /\ Mains(todo[p]) # 0
      BY <1>4 DEF Within, InodeOps
    <3>2. a[1] \notin SpecialOps
      BY DEF SpecialOps, LastOps
    <3>. QED
      BY <3>1, <3>2 DEF MayPush, SlotOf
  <2>2. Then(p, <<a>>)
    BY <1>5
  <2>. HIDE DEF a
  <2>3. \A v \in Slots : Even(p, s, 0, Sum1(a, v), v)
    <3>. TAKE v \in Slots
    <3>1. Is(0, v) = 0 /\ Is(s, v) \in Int
      BY SizesAre, IsInt DEF Is
    <3>. QED
      BY <1>1, <2>1, <3>1 DEF Even, Sum1
  <2>. QED
    BY <1>1, <1>2, <1>3, <1>5, <2>1, <2>2, <2>3, Push1
<1>6. CASE icache' = Iget(ROOTINO) /\ FullIf(IgetSlot(ROOTINO) = 0)
           /\ Then(p, << <<"walk", IgetSlot(ROOTINO), Tail(Arg(p, 1)), Arg(p, 2)>> >>)
  <2>1. IgetSlot(ROOTINO) # 0
    BY <1>6 DEF FullIf
  <2>2. IgetSlot(ROOTINO) \in Slots /\ CacheMoves(IgetSlot(ROOTINO), 0)
    BY <1>0, <1>6, <2>1, IgetMoves
  <2>. QED
    BY <1>5, <1>6, <2>2
<1>7. CASE icache' = Idup(cwd[p]) /\ Then(p, << <<"walk", cwd[p], Arg(p, 1), Arg(p, 2)>> >>)
  <2>1. CacheMoves(cwd[p], 0)
    BY <1>0, <1>4, <1>7, IdupMoves
  <2>. QED
    BY <1>4, <1>5, <1>7, <2>1
<1>. QED
  BY <1>6, <1>7 DEF Namex

LEMMA WalkKeeps ==
    ASSUME Core, NEW p \in Procs, Walk(p), UNCHANGED fileVars
    PROVE  Core'
<1>0. Types /\ SlotRefs /\ At(p, "walk") /\ Shape(todo[p], reg[p])
  BY DEF Core, Walk, Shapes
<1>1. todo[p] # << >> /\ IsSeq(todo[p]) /\ todo[p][1][1] = "walk" /\ Arg(p, 1) = todo[p][1][2]
      /\ "walk" \notin MainOps \cup SpecialOps /\ "walk" \in WalkOps
  BY <1>0, AtFacts, PopOps DEF WalkOps
<1>. DEFINE s == todo[p][1][2]
<1>2. /\ s \in Slots /\ SlotOf(todo[p][1]) = s
      /\ Mains(todo[p]) > 0 /\ reg[p].r = 0 /\ Needs(todo[p]) \in UsesR
      /\ Holds(Needs(todo[p]), reg[p])
  BY <1>0, <1>1, HeadIs DEF SlotOf
<1>3. FilesStay /\ UNCHANGED icache
  BY DEF Walk, FilesStay, fileVars
<1>4. CacheMoves(0, 0)
  BY <1>0, <1>3, CacheUnchanged
<1>5. CASE Then(p, << <<"ilock", s>>, <<"step", s, Arg(p, 2), Arg(p, 3)>> >>) /\ UNCHANGED reg
  <2>. DEFINE a == <<"ilock", s>>
              b == <<"step", s, Arg(p, 2), Arg(p, 3)>>
  <2>1. /\ MayPush(p, a) /\ SlotOf(a) = 0 /\ a[1] \notin WalkOps
        /\ MayPush(p, b) /\ SlotOf(b) = s
    <3>1. Within(a) /\ Within(b) /\ Mains(todo[p]) # 0
      BY <1>2 DEF Within, InodeOps
    <3>2. a[1] \notin SpecialOps /\ b[1] \notin SpecialOps /\ a[1] \notin WalkOps
      BY DEF SpecialOps, LastOps, WalkOps
    <3>. QED
      BY <3>1, <3>2 DEF MayPush, SlotOf
  <2>2. Then(p, <<a, b>>)
    BY <1>5
  <2>3. RegMove(p) /\ SameInodes(p)
    BY <1>0, <1>5, RegSame
  <2>. HIDE DEF a, b, s
  <2>4. \A v \in Slots : Even(p, 0, 0, Sum2(a, b, v), v)
    <3>. TAKE v \in Slots
    <3>1. Is(0, v) = 0 /\ Is(s, v) \in Int
      BY SizesAre, IsInt DEF Is
    <3>. QED
      BY <1>2, <2>1, <3>1 DEF Even, Sum1, Sum2
  <2>. QED
    BY <1>1, <1>3, <1>4, <2>1, <2>2, <2>3, <2>4, Push2
<1>6. CASE Then(p, << <<"iput", s>> >>) /\ reg' = [reg EXCEPT ![p].r = 0]
  <2>. DEFINE a == <<"iput", s>>
  <2>1. MayPush(p, a) /\ a[1] \notin WalkOps /\ SlotOf(a) = s
    <3>1. a[1] \in InodeOps /\ a[2] \in Slots
      BY <1>2 DEF InodeOps
    <3>. QED
      BY <3>1, InodeOpsFit DEF SlotOf
  <2>2. RegMove(p) /\ SameInodes(p)
    BY <1>0, <1>2, <1>6 DEF Types, RegMove, SameInodes, NoRegs
  <2>3. Then(p, <<a>>)
    BY <1>6
  <2>. HIDE DEF a, s
  <2>4. \A v \in Slots : Even(p, 0, 0, Sum1(a, v), v)
    <3>. TAKE v \in Slots
    <3>1. Is(0, v) = 0 /\ Is(s, v) \in Int
      BY SizesAre, IsInt DEF Is
    <3>. QED
      BY <1>2, <2>1, <3>1 DEF Even, Sum1
  <2>. QED
    BY <1>1, <1>3, <1>4, <2>1, <2>2, <2>3, <2>4, Push1
<1>7. CASE Then(p, << >>) /\ reg' = [reg EXCEPT ![p].r = s]
  <2>1. Few(<< >>) /\ Len(<< >>) = 0
    BY Ops0
  <2>2. After(p, << >>)
    BY <1>0, <1>1, <1>7, <2>1, ThenAfter DEF Few
  <2>3. Plain(p, << >>)
    BY <1>1, <2>1 DEF Plain
  <2>4. RegMove(p) /\ reg'[p].r = s /\ reg'[p].ip = reg[p].ip /\ reg'[p].dp = reg[p].dp
    BY <1>0, <1>7 DEF Types, RegMove, NoRegs
  <2>5. Holds(Needs(todo[p]), reg'[p])
    BY <1>2, <2>4 DEF Holds
  <2>6. Shape(todo'[p], reg'[p])
    BY <1>0, <1>1, <1>2, <2>1, <2>2, <2>5, PushInner
  <2>. HIDE DEF s
  <2>7. \A v \in Slots : Balance(p, << >>, 0, 0, v)
    <3>. TAKE v \in Slots
    <3>1. Is(0, v) = 0 /\ Is(s, v) \in Int /\ Is(reg[p].ip, v) \in Int /\ Is(reg[p].dp, v) \in Int
          /\ v # 0
      BY SizesAre, IsInt DEF Is
    <3>2. Sum5(SlotVals(<< >>), v) = 0
      BY <3>1, Ops0
    <3>3. Taken(reg[p], v) = Is(reg[p].ip, v) + Is(reg[p].dp, v)
      BY <1>2, <3>1 DEF Taken
    <3>4. Taken(reg'[p], v) = Is(s, v) + Is(reg[p].ip, v) + Is(reg[p].dp, v)
      BY <2>4 DEF Taken
    <3>. QED
      BY <1>2, <3>1, <3>2, <3>3, <3>4 DEF Balance
  <2>. QED
    BY <1>3, <1>4, <2>2, <2>3, <2>4, <2>6, <2>7, Balanced
<1>. QED
  BY <1>1, <1>5, <1>6, <1>7 DEF Walk, Return

LEMMA StepKeeps ==
    ASSUME Core, NEW p \in Procs, Step(p), UNCHANGED fileVars, panicked' = "no"
    PROVE  Core'
<1>0. Types /\ SlotRefs /\ At(p, "step") /\ Shape(todo[p], reg[p])
  BY DEF Core, Step, Shapes
<1>1. todo[p] # << >> /\ IsSeq(todo[p]) /\ todo[p][1][1] = "step" /\ Arg(p, 1) = todo[p][1][2]
      /\ "step" \notin MainOps \cup SpecialOps /\ "step" \in WalkOps
  BY <1>0, AtFacts, PopOps DEF WalkOps
<1>. DEFINE s == todo[p][1][2]
            a == <<"iunlock", s>>
            b == <<"iput", s>>
<1>2. /\ s \in Slots /\ SlotOf(todo[p][1]) = s
      /\ Mains(todo[p]) > 0 /\ reg[p].r = 0 /\ Needs(todo[p]) \in UsesR
      /\ Holds(Needs(todo[p]), reg[p])
  BY <1>0, <1>1, HeadIs DEF SlotOf
<1>3. FilesStay
  BY DEF Step, FilesStay, fileVars
<1>4. /\ MayPush(p, a) /\ a[1] \notin WalkOps /\ SlotOf(a) = 0
      /\ MayPush(p, b) /\ b[1] \notin WalkOps /\ SlotOf(b) = s
  <2>1. a[1] \in InodeOps /\ a[2] \in Slots /\ b[1] \in InodeOps /\ b[2] \in Slots
    BY <1>2 DEF InodeOps
  <2>. QED
    BY <2>1, InodeOpsFit DEF SlotOf
<1>5. Iunlockput(s) = <<a, b>> /\ \A x : Iunlockput(s) \o <<x>> = <<a, b, x>>
  BY PutOps DEF Iunlockput
<1>6. CASE Then(p, Iunlockput(s)) /\ reg' = [reg EXCEPT ![p].r = 0] /\ UNCHANGED icache
  <2>1. RegMove(p) /\ SameInodes(p)
    BY <1>0, <1>2, <1>6 DEF Types, RegMove, SameInodes, NoRegs
  <2>2. Then(p, <<a, b>>)
    BY <1>5, <1>6
  <2>3. CacheMoves(0, 0)
    BY <1>0, <1>6, CacheUnchanged
  <2>. HIDE DEF a, b, s
  <2>4. \A v \in Slots : Even(p, 0, 0, Sum2(a, b, v), v)
    <3>. TAKE v \in Slots
    <3>1. Is(0, v) = 0 /\ Is(s, v) \in Int
      BY SizesAre, IsInt DEF Is
    <3>. QED
      BY <1>2, <1>4, <3>1 DEF Even, Sum1, Sum2
  <2>. QED
    BY <1>1, <1>3, <1>4, <2>1, <2>2, <2>3, <2>4, Push2
<1>7. ASSUME NEW nm, reg' = [reg EXCEPT ![p].r = s, ![p].name = nm], Then(p, <<a>>), UNCHANGED icache
      PROVE  Core'
  <2>1. Few(<<a>>) /\ Len(<<a>>) = 1 /\ <<a>>[1] = a
    BY Ops1
  <2>2. After(p, <<a>>)
    BY <1>0, <1>1, <1>7, <2>1, ThenAfter DEF Few
  <2>3. \A k \in 1..Len(<<a>>) : <<a>>[k] = a /\ k = 1
    BY <2>1
  <2>4. Plain(p, <<a>>)
    BY <1>1, <1>4, <2>3 DEF Plain, MayPush
  <2>5. RegMove(p) /\ reg'[p].r = s /\ reg'[p].ip = reg[p].ip /\ reg'[p].dp = reg[p].dp
    BY <1>0, <1>7 DEF Types, RegMove, NoRegs
  <2>6. Holds(Needs(todo[p]), reg'[p])
    BY <1>2, <2>5 DEF Holds
  <2>7. CacheMoves(0, 0)
    BY <1>0, <1>7, CacheUnchanged
  <2>8. Within(a) /\ Mains(todo[p]) # 0
    BY <1>2, <1>4 DEF MayPush
  <2>. HIDE DEF a, b, s
  <2>9. Shape(todo'[p], reg'[p])
    <3>1. \A k \in 1..Len(<<a>>) : Within(<<a>>[k]) /\ <<a>>[k][1] \notin WalkOps
      BY <1>4, <2>3, <2>8
    <3>. QED
      BY <1>0, <1>1, <1>2, <2>2, <2>6, <2>8, <3>1, PushInner
  <2>10. \A v \in Slots : Balance(p, <<a>>, 0, 0, v)
    <3>. TAKE v \in Slots
    <3>1. Is(0, v) = 0 /\ Is(s, v) \in Int /\ Is(reg[p].ip, v) \in Int /\ Is(reg[p].dp, v) \in Int
          /\ v # 0
      BY SizesAre, IsInt DEF Is
    <3>2. Sum5(SlotVals(<<a>>), v) = 0
      BY <1>4, <3>1, Ops1 DEF Sum1
    <3>3. Taken(reg[p], v) = Is(reg[p].ip, v) + Is(reg[p].dp, v)
      BY <1>2, <3>1 DEF Taken
    <3>4. Taken(reg'[p], v) = Is(s, v) + Is(reg[p].ip, v) + Is(reg[p].dp, v)
      BY <2>5 DEF Taken
    <3>. QED
      BY <1>2, <3>1, <3>2, <3>3, <3>4 DEF Balance
  <2>. QED
    BY <1>3, <2>2, <2>4, <2>5, <2>7, <2>9, <2>10, Balanced
<1>8. ASSUME NEW i, icache' = Iget(i), FullIf(IgetSlot(i) = 0), NEW path, NEW nm,
             Then(p, Iunlockput(s) \o << <<"walk", IgetSlot(i), path, nm>> >>), UNCHANGED reg
      PROVE  Core'
  <2>. DEFINE t == IgetSlot(i)
              c == <<"walk", t, path, nm>>
  <2>1. t # 0
    BY <1>8 DEF FullIf
  <2>2. t \in Slots /\ CacheMoves(t, 0)
    BY <1>0, <1>8, <2>1, IgetMoves
  <2>3. MayPush(p, c) /\ SlotOf(c) = t
    <3>1. Within(c) /\ Mains(todo[p]) # 0
      BY <1>2, <2>2 DEF Within, InodeOps
    <3>2. c[1] \notin SpecialOps
      BY DEF SpecialOps, LastOps
    <3>. QED
      BY <3>1, <3>2 DEF MayPush, SlotOf
  <2>4. Then(p, <<a, b, c>>)
    BY <1>5, <1>8
  <2>5. RegMove(p) /\ SameInodes(p)
    BY <1>0, <1>8, RegSame
  <2>. HIDE DEF a, b, c, s, t
  <2>6. \A v \in Slots : Even(p, t, 0, Sum3(a, b, c, v), v)
    <3>. TAKE v \in Slots
    <3>1. Is(0, v) = 0 /\ Is(s, v) \in Int /\ Is(t, v) \in Int
      BY SizesAre, IsInt DEF Is
    <3>. QED
      BY <1>2, <1>4, <2>3, <3>1 DEF Even, Sum1, Sum2, Sum3
  <2>. QED
    BY <1>1, <1>3, <1>4, <2>2, <2>3, <2>4, <2>5, <2>6, Push3
<1>. QED
  <2>. DEFINE nm == Arg(p, 2)[1]
              i == dinode[Inum(s)].ents[Dirlookup(dinode[Inum(s)], nm)].inum
              path == Tail(Arg(p, 2))
  <2>1. \/ Then(p, Iunlockput(s)) /\ reg' = [reg EXCEPT ![p].r = 0] /\ UNCHANGED icache
        \/ Then(p, <<a>>) /\ reg' = [reg EXCEPT ![p].r = s, ![p].name = nm] /\ UNCHANGED icache
        \/ icache' = Iget(i) /\ FullIf(IgetSlot(i) = 0)
           /\ Then(p, Iunlockput(s) \o << <<"walk", IgetSlot(i), path, Arg(p, 3)>> >>) /\ UNCHANGED reg
    BY <1>1 DEF Step, Return
  <2>. HIDE DEF nm, i, path, a, b, s
  <2>. QED
    BY <1>6, <1>7, <1>8, <2>1

LEMMA InodeKeeps ==
    ASSUME Core, NEW p \in Procs, InodeStep(p), panicked' = "no"
    PROVE  Core'
<1>1. UNCHANGED fileVars
  BY DEF InodeStep
<1>. QED
  BY <1>1, BeginOpKeeps, EndOpKeeps, IlockKeeps, IunlockKeeps, IputLockKeeps, IputFreeKeeps,
     IputDropKeeps, DirlinkKeeps, NamexKeeps, WalkKeeps, StepKeeps DEF InodeStep, InodeNext

-----------------------------------------------------------------------------
(* The sections of the calls: what they have in common.                    *)

LEMMA MainAt ==
    ASSUME Core, NEW p \in Procs, NEW op, At(p, op), op \in MainOps
    PROVE  /\ Types /\ SlotRefs /\ todo[p] # << >> /\ IsSeq(todo[p]) /\ todo[p][1][1] = op
           /\ Shape(todo[p], reg[p]) /\ Holds(op, reg[p]) /\ SlotOf(todo[p][1]) = 0
           /\ op \notin SpecialOps
           /\ op \notin CreateOps => Len(todo[p]) = 1
<1>1. Types /\ SlotRefs /\ Shape(todo[p], reg[p])
  BY DEF Core, Shapes
<1>2. todo[p] # << >> /\ IsSeq(todo[p]) /\ todo[p][1][1] = op
  BY <1>1, AtFacts
<1>3. Holds(op, reg[p]) /\ (op \notin CreateOps => Len(todo[p]) = 1)
  BY <1>1, <1>2, HeadMain
<1>4. \A x \in MainOps : x \notin SpecialOps
                         /\ x \notin {"iput", "idrop", "walk", "step", "chdir3", "open4"}
  BY DEF MainOps, CreateOps, UsesR, UsesIp, UsesDp, SpecialOps, LastOps
<1>5. op \notin SpecialOps /\ SlotOf(todo[p][1]) = 0
  BY <1>2, <1>4 DEF SlotOf
<1>. QED
  BY <1>1, <1>2, <1>3, <1>5

(* What becomes of the local variables.                                    *)
LEMMA ForgetIs ==
    ASSUME Types, NEW p \in Procs, NEW xs, Forget(p, xs)
    PROVE  /\ RegMove(p)
           /\ reg'[p].r = IF "r" \in xs THEN 0 ELSE reg[p].r
           /\ reg'[p].ip = IF "ip" \in xs THEN 0 ELSE reg[p].ip
           /\ reg'[p].dp = IF "dp" \in xs THEN 0 ELSE reg[p].dp
  BY DEF Types, Forget, Gone, RegMove, NoRegs

LEMMA MoveIs ==
    ASSUME Types, NEW p \in Procs, NEW y \in {"ip", "dp"}, Move(p, "r", y)
    PROVE  /\ RegMove(p) /\ reg'[p].r = 0
           /\ reg'[p].ip = IF y = "ip" THEN reg[p].r ELSE reg[p].ip
           /\ reg'[p].dp = IF y = "dp" THEN reg[p].r ELSE reg[p].dp
  BY DEF Types, Move, Gone, RegMove, NoRegs

LEMMA ResultIs ==
    ASSUME Types, NEW p \in Procs, NEW ops, NEW s, Result(p, ops, s)
    PROVE  Then(p, ops) /\ RegMove(p) /\ reg'[p].r = s /\ reg'[p].ip = 0 /\ reg'[p].dp = 0
  BY DEF Types, Result, Gone, RegMove, NoRegs

LEMMA AddLinkMoves ==
    ASSUME Types, SlotRefs, NEW cache, NEW s \in Slots, NEW e, icache' = AddLinkMem(cache, s, e),
           DOMAIN cache = Slots,
           \A v \in Slots : /\ DOMAIN cache[v] = DOMAIN icache[v]
                            /\ cache[v].ref = icache[v].ref /\ cache[v].inum = icache[v].inum
    PROVE  CacheMoves(0, 0)
<1>1. DOMAIN icache' = Slots /\ \A v \in Slots :
        /\ DOMAIN icache'[v] = DOMAIN icache[v]
        /\ icache'[v].ref = icache[v].ref /\ icache'[v].inum = icache[v].inum
  BY DEF AddLinkMem
<1>. QED
  BY <1>1, CacheSame DEF Types

(* The call is over but for what is pushed; or it goes on.                 *)
LEMMA Done ==
    ASSUME Core, NEW p \in Procs, NEW op \in MainOps \ CreateOps, At(p, op), NEW ops, Few(ops),
           Then(p, ops), \A k \in 1..Len(ops) : Outside(ops[k]) /\ ops[k][1] \notin SpecialOps,
           FilesStay, RegMove(p), NoInodes(reg'[p]), NEW g, NEW d, CacheMoves(g, d),
           \A v \in Slots : Balance(p, ops, g, d, v)
    PROVE  Core'
<1>1. /\ Types /\ todo[p] # << >> /\ todo[p][1][1] = op /\ Shape(todo[p], reg[p])
      /\ op \notin SpecialOps
  BY MainAt
<1>2. After(p, ops)
  BY <1>1, ThenAfter DEF Few
<1>3. Plain(p, ops)
  BY <1>1 DEF Plain
<1>4. Shape(todo'[p], reg'[p])
  BY <1>1, <1>2, MainOut
<1>. QED
  BY <1>2, <1>3, <1>4, Balanced

LEMMA Goes ==
    ASSUME Core, NEW p \in Procs, NEW op \in MainOps \ CreateOps, At(p, op), NEW ops, Few(ops),
           Then(p, ops), NEW n \in 1..5, Len(ops) = n,
           \A k \in 1..n : k < n => Within(ops[k]), ops[n][1] \in MainOps \ CreateOps,
           \A k \in 1..n : ops[k][1] \notin SpecialOps,
           \A k, l \in 1..n : ops[k][1] \in WalkOps /\ ops[l][1] \in WalkOps => k = l,
           \A k \in 1..n : ops[k][1] \in WalkOps => reg'[p].r = 0 /\ ops[n][1] \in UsesR,
           FilesStay, RegMove(p), Holds(ops[n][1], reg'[p]), NEW g, NEW d, CacheMoves(g, d),
           \A v \in Slots : Balance(p, ops, g, d, v)
    PROVE  Core'
<1>1. /\ Types /\ todo[p] # << >> /\ todo[p][1][1] = op /\ Shape(todo[p], reg[p])
      /\ op \notin SpecialOps
  BY MainAt
<1>2. After(p, ops)
  BY <1>1, ThenAfter DEF Few
<1>3. Plain(p, ops)
  BY <1>1 DEF Plain
<1>4. Shape(todo'[p], reg'[p])
  BY <1>1, <1>2, MainOn
<1>. QED
  BY <1>2, <1>3, <1>4, Balanced

LEMMA Made ==
    ASSUME Core, NEW p \in Procs, NEW op \in CreateOps, At(p, op), NEW ops, Few(ops), Then(p, ops),
           \A k \in 1..Len(ops) : /\ Within(ops[k]) /\ ops[k][1] \notin WalkOps
                                  /\ ops[k][1] \notin SpecialOps,
           FilesStay, RegMove(p), reg'[p].r \in {0} \cup Slots, reg'[p].ip = 0, reg'[p].dp = 0,
           NEW g, NEW d, CacheMoves(g, d), \A v \in Slots : Balance(p, ops, g, d, v)
    PROVE  Core'
<1>1. /\ Types /\ todo[p] # << >> /\ todo[p][1][1] = op /\ Shape(todo[p], reg[p])
      /\ op \notin SpecialOps
  BY MainAt, OpsApart
<1>2. After(p, ops)
  BY <1>1, ThenAfter DEF Few
<1>3. Plain(p, ops)
  BY <1>1 DEF Plain
<1>4. Shape(todo'[p], reg'[p])
  BY <1>1, <1>2, CreateOut
<1>. QED
  BY <1>2, <1>3, <1>4, Balanced

LEMMA Makes ==
    ASSUME Core, NEW p \in Procs, NEW op \in CreateOps, At(p, op), NEW ops, Few(ops), Then(p, ops),
           NEW n \in 1..5, Len(ops) = n,
           \A k \in 1..n : k < n => Within(ops[k]) /\ ops[k][1] \notin WalkOps,
           ops[n][1] \in CreateOps, \A k \in 1..n : ops[k][1] \notin SpecialOps,
           FilesStay, RegMove(p), Holds(ops[n][1], reg'[p]),
           NEW g, NEW d, CacheMoves(g, d), \A v \in Slots : Balance(p, ops, g, d, v)
    PROVE  Core'
<1>1. /\ Types /\ todo[p] # << >> /\ todo[p][1][1] = op /\ Shape(todo[p], reg[p])
      /\ op \notin SpecialOps
  BY MainAt, OpsApart
<1>2. After(p, ops)
  BY <1>1, ThenAfter DEF Few
<1>3. Plain(p, ops)
  BY <1>1 DEF Plain
<1>4. Shape(todo'[p], reg'[p])
  BY <1>1, <1>2, CreateOn
<1>. QED
  BY <1>2, <1>3, <1>4, Balanced

(* What is pushed while nothing is taken.                                  *)
LEMMA BalanceIs ==
    ASSUME NEW p, NEW ops, NEW v \in Slots, SlotOf(todo[p][1]) = 0,
           NEW m, Sum5(SlotVals(ops), v) = m, m \in Int,
           NEW t, Taken(reg'[p], v) = t, t \in Int, Taken(reg[p], v) = m + t
    PROVE  Balance(p, ops, 0, 0, v)
<1>1. Is(0, v) = 0
  BY SizesAre DEF Is
<1>. QED
  BY <1>1 DEF Balance

(* Put the inode the call holds, and end the transaction.                  *)
LEMMA PutEnd ==
    ASSUME Core, NEW p \in Procs, NEW op \in MainOps \ CreateOps, At(p, op), NEW s \in Slots,
           Then(p, << <<"iunlock", s>>, <<"iput", s>>, <<"end_op">> >>),
           \A v \in Slots : Taken(reg[p], v) = Is(s, v),
           FilesStay, RegMove(p), NoInodes(reg'[p]), CacheMoves(0, 0)
    PROVE  Core'
<1>. DEFINE a == <<"iunlock", s>>
            b == <<"iput", s>>
            c == <<"end_op">>
            ops == <<a, b, c>>
<1>1. Few(ops) /\ Len(ops) = 3 /\ ops[1] = a /\ ops[2] = b /\ ops[3] = c
  BY Ops3
<1>2. /\ Outside(a) /\ Outside(b) /\ Outside(c)
      /\ a[1] \notin SpecialOps /\ b[1] \notin SpecialOps /\ c[1] \notin SpecialOps
      /\ SlotOf(a) = 0 /\ SlotOf(b) = s /\ SlotOf(c) = 0
  BY DEF Outside, InodeOps, SpecialOps, LastOps, SlotOf
<1>3. SlotOf(todo[p][1]) = 0
  BY MainAt
<1>4. Then(p, ops)
  OBVIOUS
<1>. HIDE DEF a, b, c
<1>5. \A v \in Slots : Balance(p, ops, 0, 0, v)
  <2>. TAKE v \in Slots
  <2>1. Is(0, v) = 0 /\ Is(s, v) \in Int /\ v # 0
    BY SizesAre, IsInt DEF Is
  <2>2. Sum5(SlotVals(ops), v) = Sum3(a, b, c, v)
    BY <2>1, Ops3
  <2>3. Sum3(a, b, c, v) = Is(s, v)
    BY <1>2, <2>1 DEF Sum1, Sum2, Sum3
  <2>4. Taken(reg'[p], v) = 0 /\ Taken(reg[p], v) = Is(s, v)
    BY <2>1 DEF Taken, NoInodes
  <2>. HIDE DEF ops
  <2>. QED
    BY <1>3, <2>1, <2>2, <2>3, <2>4 DEF Balance
<1>. HIDE DEF ops
<1>6. \A k \in 1..Len(ops) : Outside(ops[k]) /\ ops[k][1] \notin SpecialOps
  <2>1. \A k \in 1..Len(ops) : ops[k] = a \/ ops[k] = b \/ ops[k] = c
    BY <1>1
  <2>. QED
    BY <1>2, <2>1
<1>. QED
  BY <1>1, <1>4, <1>5, <1>6, Done

(* End the transaction with nothing in hand.                               *)
LEMMA JustEnd ==
    ASSUME Core, NEW p \in Procs, NEW op \in MainOps \ CreateOps, At(p, op),
           Then(p, << <<"end_op">> >>), NoInodes(reg[p]),
           FilesStay, RegMove(p), NoInodes(reg'[p]), CacheMoves(0, 0)
    PROVE  Core'
<1>. DEFINE c == <<"end_op">>
            ops == <<c>>
<1>1. Few(ops) /\ Len(ops) = 1 /\ ops[1] = c
  BY Ops1
<1>2. Outside(c) /\ c[1] \notin SpecialOps /\ SlotOf(c) = 0
  BY DEF Outside, SpecialOps, LastOps, SlotOf
<1>3. SlotOf(todo[p][1]) = 0
  BY MainAt
<1>4. Then(p, ops)
  OBVIOUS
<1>. HIDE DEF c
<1>5. \A v \in Slots : Balance(p, ops, 0, 0, v)
  <2>. TAKE v \in Slots
  <2>1. Is(0, v) = 0 /\ v # 0
    BY SizesAre DEF Is
  <2>2. Sum5(SlotVals(ops), v) = 0
    BY <1>2, <2>1, Ops1 DEF Sum1
  <2>3. Taken(reg'[p], v) = 0 /\ Taken(reg[p], v) = 0
    BY <2>1 DEF Taken, NoInodes
  <2>. HIDE DEF ops
  <2>. QED
    BY <1>3, <2>1, <2>2, <2>3 DEF Balance
<1>. HIDE DEF ops
<1>6. \A k \in 1..Len(ops) : Outside(ops[k]) /\ ops[k][1] \notin SpecialOps
  <2>1. \A k \in 1..Len(ops) : ops[k] = c
    BY <1>1
  <2>. QED
    BY <1>2, <2>1
<1>. QED
  BY <1>1, <1>4, <1>5, <1>6, Done

(* Lock an inode, and go on.                                               *)
LEMMA LockNext ==
    ASSUME Core, NEW p \in Procs, NEW op \in MainOps \ CreateOps, At(p, op), NEW s \in Slots,
           NEW b, b[1] \in MainOps \ CreateOps, Then(p, << <<"ilock", s>>, b>>),
           NEW g, CacheMoves(g, 0), \A v \in Slots : Is(g, v) + Taken(reg[p], v) = Taken(reg'[p], v),
           FilesStay, RegMove(p), Holds(b[1], reg'[p])
    PROVE  Core'
<1>. DEFINE a == <<"ilock", s>>
            ops == <<a, b>>
<1>1. Few(ops) /\ Len(ops) = 2 /\ ops[1] = a /\ ops[2] = b
  BY Ops2
<1>2. \A x \in MainOps : /\ x \notin SpecialOps /\ x \notin WalkOps
                         /\ x \notin {"iput", "idrop", "walk", "step", "chdir3", "open4"}
  BY DEF MainOps, CreateOps, UsesR, UsesIp, UsesDp, SpecialOps, LastOps, WalkOps
<1>3. /\ Within(a) /\ a[1] \notin SpecialOps /\ a[1] \notin WalkOps /\ SlotOf(a) = 0
      /\ b[1] \notin SpecialOps /\ b[1] \notin WalkOps /\ SlotOf(b) = 0
  BY <1>2 DEF Within, InodeOps, SpecialOps, LastOps, WalkOps, SlotOf
<1>4. SlotOf(todo[p][1]) = 0
  BY MainAt
<1>5. Then(p, ops)
  OBVIOUS
<1>. HIDE DEF a
<1>6. \A v \in Slots : Balance(p, ops, g, 0, v)
  <2>. TAKE v \in Slots
  <2>1. Is(0, v) = 0 /\ v # 0 /\ Is(g, v) \in Int
    BY SizesAre, IsInt DEF Is
  <2>2. Sum5(SlotVals(ops), v) = Sum2(a, b, v)
    BY <2>1, Ops2
  <2>3. Sum2(a, b, v) = 0
    BY <1>3, <2>1 DEF Sum1, Sum2
  <2>4. Taken(reg'[p], v) \in Int /\ Taken(reg[p], v) \in Int
    BY IsInt DEF Taken
  <2>. HIDE DEF ops
  <2>. QED
    BY <1>4, <2>1, <2>2, <2>3, <2>4 DEF Balance
<1>. HIDE DEF ops
<1>7. \A k \in 1..2 : /\ k < 2 => Within(ops[k])
                      /\ ops[k][1] \notin SpecialOps /\ ops[k][1] \notin WalkOps
  <2>1. \A k \in 1..2 : k = 1 \/ k = 2
    OBVIOUS
  <2>. QED
    BY <1>1, <1>3, <2>1
<1>. QED
  BY <1>1, <1>5, <1>6, <1>7, Goes

-----------------------------------------------------------------------------
(* The sections of the calls.                                              *)

LEMMA CallOps ==
    \A op \in {"open1", "open2", "open3", "link1", "link2", "link3", "link4", "link5", "unlink1",
               "unlink2", "unlink3", "unlink4", "mk1", "chdir1", "chdir2"} :
        op \in MainOps \ CreateOps
  BY DEF MainOps, CreateOps, UsesR, UsesIp, UsesDp

LEMMA Create1Keeps ==
    ASSUME Core, NEW p \in Procs, Create1(p)
    PROVE  Core'
<1>0. At(p, "create1") /\ Move(p, "r", "dp") /\ "create1" \in CreateOps /\ "create1" \in MainOps
  BY DEF Create1, CreateOps, MainOps
<1>1. Types /\ SlotRefs /\ Holds("create1", reg[p]) /\ SlotOf(todo[p][1]) = 0
  BY <1>0, MainAt
<1>2. reg[p].r \in {0} \cup Slots /\ reg[p].ip = 0 /\ reg[p].dp = 0
  BY <1>1 DEF Holds, UsesR, UsesIp, UsesDp
<1>3. RegMove(p) /\ reg'[p].r = 0 /\ reg'[p].ip = 0 /\ reg'[p].dp = reg[p].r
  BY <1>0, <1>1, <1>2, MoveIs
<1>4. FilesStay /\ UNCHANGED icache
  BY DEF Create1, FilesStay, fileVars
<1>5. CacheMoves(0, 0)
  BY <1>1, <1>4, CacheUnchanged
<1>6. \A v \in Slots : Taken(reg'[p], v) = Taken(reg[p], v) /\ Taken(reg[p], v) \in Int
  BY <1>2, <1>3, IsInt DEF Taken
<1>7. CASE reg[p].r = 0
  <2>1. Then(p, << >>)
    BY <1>7 DEF Create1
  <2>2. Few(<< >>) /\ Len(<< >>) = 0
    BY Ops0
  <2>3. \A v \in Slots : Balance(p, << >>, 0, 0, v)
    <3>. TAKE v \in Slots
    <3>1. Sum5(SlotVals(<< >>), v) = 0
      BY SizesAre, Ops0
    <3>. QED
      BY <1>1, <1>6, <3>1, BalanceIs
  <2>. QED
    BY <1>0, <1>3, <1>4, <1>5, <1>7, <2>1, <2>2, <2>3, Made
<1>8. CASE reg[p].r # 0
  <2>. DEFINE a == <<"ilock", reg[p].r>>
              b == <<"create2", Arg(p, 1)>>
              ops == <<a, b>>
  <2>1. Then(p, ops)
    BY <1>8 DEF Create1
  <2>2. Few(ops) /\ Len(ops) = 2 /\ ops[1] = a /\ ops[2] = b
    BY Ops2
  <2>3. /\ Within(a) /\ a[1] \notin WalkOps /\ a[1] \notin SpecialOps /\ SlotOf(a) = 0
        /\ b[1] = "create2" /\ b[1] \in CreateOps /\ b[1] \notin SpecialOps /\ SlotOf(b) = 0
    BY <1>2, <1>8 DEF Within, InodeOps, WalkOps, SpecialOps, LastOps, SlotOf, CreateOps
  <2>. HIDE DEF a, b
  <2>4. \A v \in Slots : Balance(p, ops, 0, 0, v)
    <3>. TAKE v \in Slots
    <3>1. v # 0 /\ Is(0, v) = 0
      BY SizesAre DEF Is
    <3>2. Sum5(SlotVals(ops), v) = Sum2(a, b, v)
      BY <3>1, Ops2
    <3>3. Sum2(a, b, v) = 0
      BY <2>3, <3>1 DEF Sum1, Sum2
    <3>. HIDE DEF ops
    <3>. QED
      BY <1>1, <1>6, <3>2, <3>3, BalanceIs
  <2>. HIDE DEF ops
  <2>5. Holds("create2", reg'[p])
    BY <1>2, <1>3, <1>8 DEF Holds, UsesR, UsesIp, UsesDp
  <2>6. \A k \in 1..2 : /\ k < 2 => Within(ops[k]) /\ ops[k][1] \notin WalkOps
                        /\ ops[k][1] \notin SpecialOps
    <3>1. \A k \in 1..2 : k = 1 \/ k = 2
      OBVIOUS
    <3>. QED
      BY <2>2, <2>3, <3>1
  <2>. QED
    BY <1>0, <1>3, <1>4, <1>5, <2>1, <2>2, <2>3, <2>4, <2>5, <2>6, Makes
<1>. QED
  BY <1>7, <1>8

LEMMA Create2Keeps ==
    ASSUME Core, NEW p \in Procs, Create2(p), panicked' = "no"
    PROVE  Core'
<1>0. At(p, "create2") /\ "create2" \in CreateOps /\ "create2" \in MainOps
  BY DEF Create2, CreateOps, MainOps
<1>1. Types /\ SlotRefs /\ Holds("create2", reg[p]) /\ SlotOf(todo[p][1]) = 0
  BY <1>0, MainAt
<1>2. reg[p].r = 0 /\ reg[p].ip = 0 /\ reg[p].dp \in Slots
  BY <1>1 DEF Holds, UsesR, UsesIp, UsesDp
<1>3. FilesStay
  BY DEF Create2, FilesStay, fileVars
<1>. DEFINE dp == reg[p].dp
            x == Arg(p, 1)
<1>4. PICK i : /\ IgetSlot(i) # 0 /\ icache' = Iget(i)
               /\ \/ /\ reg' = [reg EXCEPT ![p] = [Gone(p, {"dp"}) EXCEPT !.ip = IgetSlot(i)]]
                     /\ Then(p, Iunlockput(dp) \o << <<"ilock", IgetSlot(i)>>, <<"create3", x>> >>)
                  \/ /\ reg' = [reg EXCEPT ![p] = [Gone(p, {}) EXCEPT !.ip = IgetSlot(i)]]
                     /\ Then(p, << <<"ilock", IgetSlot(i)>>, <<"create4", x>> >>)
  <2>. DEFINE de == dinode[Inum(dp)]
              k == Dirlookup(de, reg[p].name)
              j == IF k # 0 THEN de.ents[k].inum ELSE FreeInum
  <2>1. ~(j = 0 \/ IgetSlot(j) = 0)
    BY DEF Create2, FullIf
  <2>2. /\ icache' = Iget(j)
        /\ reg' = [reg EXCEPT ![p] =
             [Gone(p, IF k # 0 THEN {"dp"} ELSE {}) EXCEPT !.ip = IgetSlot(j)]]
        /\ Then(p, IF k # 0 THEN Iunlockput(dp) \o << <<"ilock", IgetSlot(j)>>, <<"create3", x>> >>
                   ELSE << <<"ilock", IgetSlot(j)>>, <<"create4", x>> >>)
    BY <2>1 DEF Create2
  <2>. HIDE DEF k, j, dp, x
  <2>3. CASE k # 0
    BY <2>1, <2>2, <2>3
  <2>4. CASE k = 0
    BY <2>1, <2>2, <2>4
  <2>. QED
    BY <2>3, <2>4
<1>. DEFINE s == IgetSlot(i)
<1>5. s \in Slots /\ CacheMoves(s, 0)
  BY <1>1, <1>4, IgetMoves
<1>6. CASE reg' = [reg EXCEPT ![p] = [Gone(p, {"dp"}) EXCEPT !.ip = s]]
           /\ Then(p, Iunlockput(dp) \o << <<"ilock", s>>, <<"create3", x>> >>)
  <2>. DEFINE a == <<"iunlock", dp>>
              b == <<"iput", dp>>
              c == <<"ilock", s>>
              e == <<"create3", x>>
              ops == <<a, b, c, e>>
  <2>1. Then(p, ops)
    <3>1. \A w, y, z : Iunlockput(w) \o <<y, z>> = << <<"iunlock", w>>, <<"iput", w>>, y, z>>
      BY PutTwo
    <3>. QED
      BY <1>6, <3>1
  <2>2. Few(ops) /\ Len(ops) = 4 /\ ops[1] = a /\ ops[2] = b /\ ops[3] = c /\ ops[4] = e
    BY Ops4
  <2>3. /\ Within(a) /\ a[1] \notin WalkOps /\ a[1] \notin SpecialOps /\ SlotOf(a) = 0
        /\ Within(b) /\ b[1] \notin WalkOps /\ b[1] \notin SpecialOps /\ SlotOf(b) = dp
        /\ Within(c) /\ c[1] \notin WalkOps /\ c[1] \notin SpecialOps /\ SlotOf(c) = 0
        /\ e[1] = "create3" /\ e[1] \in CreateOps /\ e[1] \notin SpecialOps /\ SlotOf(e) = 0
    BY <1>2, <1>5 DEF Within, InodeOps, WalkOps, SpecialOps, LastOps, SlotOf, CreateOps
  <2>. HIDE DEF a, b, c, e
  <2>4. RegMove(p) /\ reg'[p].r = 0 /\ reg'[p].ip = s /\ reg'[p].dp = 0
    BY <1>1, <1>2, <1>6 DEF Types, Gone, RegMove, NoRegs
  <2>. HIDE DEF s, dp
  <2>5. \A v \in Slots : Balance(p, ops, s, 0, v)
    <3>. TAKE v \in Slots
    <3>1. v # 0 /\ Is(0, v) = 0 /\ Is(s, v) \in Int /\ Is(dp, v) \in Int
      BY SizesAre, IsInt DEF Is
    <3>2. Sum5(SlotVals(ops), v) = Sum4(a, b, c, e, v)
      BY <3>1, Ops4
    <3>3. Sum4(a, b, c, e, v) = Is(dp, v)
      BY <2>3, <3>1 DEF Sum1, Sum2, Sum3, Sum4
    <3>4. Taken(reg[p], v) = Is(dp, v) /\ Taken(reg'[p], v) = Is(s, v)
      BY <1>2, <2>4, <3>1 DEF Taken, dp
    <3>. HIDE DEF ops
    <3>. QED
      BY <1>1, <3>1, <3>2, <3>3, <3>4 DEF Balance
  <2>. HIDE DEF ops
  <2>6. Holds("create3", reg'[p])
    BY <1>5, <2>4 DEF Holds, UsesR, UsesIp, UsesDp
  <2>7. \A k \in 1..4 : /\ k < 4 => Within(ops[k]) /\ ops[k][1] \notin WalkOps
                        /\ ops[k][1] \notin SpecialOps
    <3>1. \A k \in 1..4 : k = 1 \/ k = 2 \/ k = 3 \/ k = 4
      OBVIOUS
    <3>. QED
      BY <2>2, <2>3, <3>1
  <2>. QED
    BY <1>0, <1>3, <1>5, <2>1, <2>2, <2>3, <2>4, <2>5, <2>6, <2>7, Makes
<1>7. CASE reg' = [reg EXCEPT ![p] = [Gone(p, {}) EXCEPT !.ip = s]]
           /\ Then(p, << <<"ilock", s>>, <<"create4", x>> >>)
  <2>. DEFINE c == <<"ilock", s>>
              e == <<"create4", x>>
              ops == <<c, e>>
  <2>1. Then(p, ops)
    BY <1>7
  <2>2. Few(ops) /\ Len(ops) = 2 /\ ops[1] = c /\ ops[2] = e
    BY Ops2
  <2>3. /\ Within(c) /\ c[1] \notin WalkOps /\ c[1] \notin SpecialOps /\ SlotOf(c) = 0
        /\ e[1] = "create4" /\ e[1] \in CreateOps /\ e[1] \notin SpecialOps /\ SlotOf(e) = 0
    BY <1>5 DEF Within, InodeOps, WalkOps, SpecialOps, LastOps, SlotOf, CreateOps
  <2>. HIDE DEF c, e
  <2>4. RegMove(p) /\ reg'[p].r = 0 /\ reg'[p].ip = s /\ reg'[p].dp = dp
    BY <1>1, <1>2, <1>7 DEF Types, Gone, RegMove, NoRegs
  <2>. HIDE DEF s, dp
  <2>5. \A v \in Slots : Balance(p, ops, s, 0, v)
    <3>. TAKE v \in Slots
    <3>1. v # 0 /\ Is(0, v) = 0 /\ Is(s, v) \in Int /\ Is(dp, v) \in Int
      BY SizesAre, IsInt DEF Is
    <3>2. Sum5(SlotVals(ops), v) = Sum2(c, e, v)
      BY <3>1, Ops2
    <3>3. Sum2(c, e, v) = 0
      BY <2>3, <3>1 DEF Sum1, Sum2
    <3>4. Taken(reg[p], v) = Is(dp, v) /\ Taken(reg'[p], v) = Is(s, v) + Is(dp, v)
      BY <1>2, <2>4, <3>1 DEF Taken, dp
    <3>. HIDE DEF ops
    <3>. QED
      BY <1>1, <3>1, <3>2, <3>3, <3>4 DEF Balance
  <2>. HIDE DEF ops
  <2>6. Holds("create4", reg'[p])
    BY <1>2, <1>5, <2>4 DEF Holds, UsesR, UsesIp, UsesDp, dp
  <2>7. \A k \in 1..2 : /\ k < 2 => Within(ops[k]) /\ ops[k][1] \notin WalkOps
                        /\ ops[k][1] \notin SpecialOps
    <3>1. \A k \in 1..2 : k = 1 \/ k = 2
      OBVIOUS
    <3>. QED
      BY <2>2, <2>3, <3>1
  <2>. QED
    BY <1>0, <1>3, <1>5, <2>1, <2>2, <2>3, <2>4, <2>5, <2>6, <2>7, Makes
<1>. QED
  BY <1>4, <1>6, <1>7

(* create() returns its result, or nothing.                                *)
LEMMA ReturnNew ==
    ASSUME Core, NEW p \in Procs, NEW op \in CreateOps, At(p, op), NEW s \in Slots, NEW r \in {0} \cup Slots,
           Then(p, Iunlockput(s)), reg'[p].r = r, reg'[p].ip = 0, reg'[p].dp = 0,
           \A v \in Slots : Taken(reg[p], v) = Is(s, v) + Is(r, v),
           FilesStay, RegMove(p), CacheMoves(0, 0)
    PROVE  Core'
<1>. DEFINE a == <<"iunlock", s>>
            b == <<"iput", s>>
            ops == <<a, b>>
<1>0. SlotOf(todo[p][1]) = 0
  BY MainAt, OpsApart
<1>1. Then(p, ops)
  BY DEF Iunlockput
<1>2. Few(ops) /\ Len(ops) = 2 /\ ops[1] = a /\ ops[2] = b
  BY Ops2
<1>3. /\ Within(a) /\ a[1] \notin WalkOps /\ a[1] \notin SpecialOps /\ SlotOf(a) = 0
      /\ Within(b) /\ b[1] \notin WalkOps /\ b[1] \notin SpecialOps /\ SlotOf(b) = s
  BY DEF Within, InodeOps, WalkOps, SpecialOps, LastOps, SlotOf
<1>. HIDE DEF a, b
<1>4. \A v \in Slots : Balance(p, ops, 0, 0, v)
  <2>. TAKE v \in Slots
  <2>1. v # 0 /\ Is(0, v) = 0 /\ Is(s, v) \in Int /\ Is(r, v) \in Int
    BY SizesAre, IsInt DEF Is
  <2>2. Sum5(SlotVals(ops), v) = Sum2(a, b, v)
    BY <2>1, Ops2
  <2>3. Sum2(a, b, v) = Is(s, v)
    BY <1>3, <2>1 DEF Sum1, Sum2
  <2>4. Taken(reg'[p], v) = Is(r, v) /\ Taken(reg[p], v) = Is(s, v) + Is(r, v)
    BY <2>1 DEF Taken
  <2>. HIDE DEF ops
  <2>. QED
    BY <1>0, <2>1, <2>2, <2>3, <2>4 DEF Balance
<1>. HIDE DEF ops
<1>5. \A k \in 1..Len(ops) : /\ Within(ops[k]) /\ ops[k][1] \notin WalkOps
                             /\ ops[k][1] \notin SpecialOps
  <2>1. \A k \in 1..Len(ops) : ops[k] = a \/ ops[k] = b
    BY <1>2
  <2>. QED
    BY <1>3, <2>1
<1>. QED
  BY <1>1, <1>2, <1>4, <1>5, Made

LEMMA Create3Keeps ==
    ASSUME Core, NEW p \in Procs, Create3(p)
    PROVE  Core'
<1>0. At(p, "create3") /\ "create3" \in CreateOps /\ "create3" \in MainOps
  BY DEF Create3, CreateOps, MainOps
<1>1. Types /\ SlotRefs /\ Holds("create3", reg[p]) /\ SlotOf(todo[p][1]) = 0
  BY <1>0, MainAt
<1>. DEFINE s == reg[p].ip
<1>2. reg[p].r = 0 /\ s \in Slots /\ reg[p].dp = 0
  BY <1>1 DEF Holds, UsesR, UsesIp, UsesDp
<1>3. FilesStay /\ UNCHANGED icache
  BY DEF Create3, FilesStay, fileVars
<1>4. CacheMoves(0, 0)
  BY <1>1, <1>3, CacheUnchanged
<1>5. \A v \in Slots : Taken(reg[p], v) = Is(s, v) + Is(0, v)
  BY <1>2, SizesAre, IsInt DEF Taken, Is
<1>6. CASE Result(p, << >>, s)
  <2>1. Then(p, << >>) /\ RegMove(p) /\ reg'[p].r = s /\ reg'[p].ip = 0 /\ reg'[p].dp = 0
    BY <1>1, <1>6, ResultIs
  <2>2. Few(<< >>) /\ Len(<< >>) = 0
    BY Ops0
  <2>. HIDE DEF s
  <2>3. \A v \in Slots : Balance(p, << >>, 0, 0, v)
    <3>. TAKE v \in Slots
    <3>1. Sum5(SlotVals(<< >>), v) = 0 /\ Is(0, v) = 0 /\ Is(s, v) \in Int
      BY SizesAre, Ops0, IsInt DEF Is
    <3>2. Taken(reg'[p], v) = Is(s, v) /\ Taken(reg[p], v) = Is(s, v)
      BY <1>5, <2>1, <3>1 DEF Taken
    <3>. QED
      BY <1>1, <3>1, <3>2, BalanceIs
  <2>. QED
    BY <1>0, <1>2, <1>3, <1>4, <2>1, <2>2, <2>3, Made
<1>7. CASE Result(p, Iunlockput(s), 0)
  <2>1. Then(p, Iunlockput(s)) /\ RegMove(p) /\ reg'[p].r = 0 /\ reg'[p].ip = 0 /\ reg'[p].dp = 0
    BY <1>1, <1>7, ResultIs
  <2>. HIDE DEF s
  <2>. QED
    BY <1>0, <1>2, <1>3, <1>4, <1>5, <2>1, ReturnNew
<1>. QED
  BY <1>6, <1>7 DEF Create3

LEMMA Create4Keeps ==
    ASSUME Core, NEW p \in Procs, Create4(p)
    PROVE  Core'
<1>0. At(p, "create4") /\ "create4" \in CreateOps /\ "create4" \in MainOps
  BY DEF Create4, CreateOps, MainOps
<1>1. Types /\ SlotRefs /\ Holds("create4", reg[p]) /\ SlotOf(todo[p][1]) = 0
  BY <1>0, MainAt
<1>. DEFINE s == reg[p].ip
            dp == reg[p].dp
<1>2. reg[p].r = 0 /\ s \in Slots /\ dp \in Slots
  BY <1>1 DEF Holds, UsesR, UsesIp, UsesDp
<1>3. FilesStay
  BY DEF Create4, FilesStay, fileVars
<1>4. CacheMoves(0, 0)
  <2>. DEFINE cache == [icache EXCEPT ![s].nlink = 1]
              up == IF Arg(p, 1) = "dir" THEN 1 ELSE 0
  <2>1. icache' = AddLinkMem(cache, dp, up)
    BY DEF Create4
  <2>2. DOMAIN cache = Slots /\ \A v \in Slots :
          /\ DOMAIN cache[v] = DOMAIN icache[v]
          /\ cache[v].ref = icache[v].ref /\ cache[v].inum = icache[v].inum
    BY <1>1 DEF Types
  <2>. HIDE DEF cache, up, s, dp
  <2>. QED
    BY <1>1, <1>2, <2>1, <2>2, AddLinkMoves
<1>5. Result(p, Iunlockput(dp), s)
  BY DEF Create4
<1>6. Then(p, Iunlockput(dp)) /\ RegMove(p) /\ reg'[p].r = s /\ reg'[p].ip = 0 /\ reg'[p].dp = 0
  BY <1>1, <1>5, ResultIs
<1>7. \A v \in Slots : Taken(reg[p], v) = Is(dp, v) + Is(s, v)
  BY <1>2, SizesAre, IsInt DEF Taken, Is
<1>. HIDE DEF s, dp
<1>. QED
  BY <1>0, <1>2, <1>3, <1>4, <1>6, <1>7, ReturnNew

LEMMA Open1Keeps ==
    ASSUME Core, NEW p \in Procs, Open1(p)
    PROVE  Core'
<1>0. At(p, "open1") /\ Move(p, "r", "ip") /\ "open1" \in MainOps \ CreateOps
  BY CallOps DEF Open1
<1>1. Types /\ SlotRefs /\ Holds("open1", reg[p]) /\ SlotOf(todo[p][1]) = 0
  BY <1>0, MainAt
<1>. DEFINE r == reg[p].r
<1>2. r \in {0} \cup Slots /\ reg[p].ip = 0 /\ reg[p].dp = 0
  BY <1>1 DEF Holds, UsesR, UsesIp, UsesDp
<1>3. RegMove(p) /\ reg'[p].r = 0 /\ reg'[p].ip = r /\ reg'[p].dp = 0
  BY <1>0, <1>1, <1>2, MoveIs
<1>4. FilesStay /\ UNCHANGED icache
  BY DEF Open1, FilesStay, fileVars
<1>5. CacheMoves(0, 0)
  BY <1>1, <1>4, CacheUnchanged
<1>6. \A v \in Slots : Is(0, v) + Taken(reg[p], v) = Taken(reg'[p], v) /\ Taken(reg[p], v) \in Int
                       /\ Taken(reg'[p], v) = Taken(reg[p], v)
  BY <1>2, <1>3, SizesAre, IsInt DEF Taken, Is
<1>7. CASE r = 0
  <2>1. Then(p, << <<"end_op">> >>)
    BY <1>7 DEF Open1
  <2>2. NoInodes(reg[p]) /\ NoInodes(reg'[p])
    BY <1>2, <1>3, <1>7 DEF NoInodes
  <2>. QED
    BY <1>0, <1>3, <1>4, <1>5, <2>1, <2>2, JustEnd
<1>8. CASE r # 0 /\ Then(p, << <<"open3">> >>)
  <2>. DEFINE a == <<"open3">>
              ops == <<a>>
  <2>1. Few(ops) /\ Len(ops) = 1 /\ ops[1] = a /\ a[1] = "open3"
    BY Ops1
  <2>2. a[1] \notin SpecialOps /\ a[1] \notin WalkOps /\ a[1] \in MainOps \ CreateOps /\ SlotOf(a) = 0
    BY CallOps DEF SpecialOps, LastOps, WalkOps, SlotOf
  <2>3. Holds("open3", reg'[p])
    BY <1>2, <1>3, <1>8 DEF Holds, UsesR, UsesIp, UsesDp
  <2>4. Then(p, ops)
    BY <1>8
  <2>. HIDE DEF a
  <2>5. \A v \in Slots : Balance(p, ops, 0, 0, v)
    <3>. TAKE v \in Slots
    <3>1. Sum5(SlotVals(ops), v) = 0
      BY <2>2, SizesAre, Ops1 DEF Sum1, Is
    <3>. HIDE DEF ops
    <3>. QED
      BY <1>1, <1>6, <3>1, BalanceIs
  <2>. HIDE DEF ops
  <2>6. \A k \in 1..1 : k = 1
    OBVIOUS
  <2>. QED
    BY <1>0, <1>3, <1>4, <1>5, <2>1, <2>2, <2>3, <2>4, <2>5, <2>6, Goes
<1>9. CASE r # 0 /\ Then(p, << <<"ilock", r>>, <<"open2", Arg(p, 1)>> >>)
  <2>. DEFINE b == <<"open2", Arg(p, 1)>>
  <2>1. b[1] = "open2" /\ b[1] \in MainOps \ CreateOps
    BY CallOps
  <2>2. Holds("open2", reg'[p]) /\ r \in Slots
    BY <1>2, <1>3, <1>9 DEF Holds, UsesR, UsesIp, UsesDp
  <2>3. Then(p, << <<"ilock", r>>, b>>)
    BY <1>9
  <2>. HIDE DEF b, r
  <2>. QED
    BY <1>0, <1>3, <1>4, <1>5, <1>6, <2>1, <2>2, <2>3, LockNext
<1>. QED
  BY <1>7, <1>8, <1>9 DEF Open1

LEMMA Open2Keeps ==
    ASSUME Core, NEW p \in Procs, Open2(p)
    PROVE  Core'
<1>0. At(p, "open2") /\ "open2" \in MainOps \ CreateOps
  BY CallOps DEF Open2
<1>1. Types /\ SlotRefs /\ Holds("open2", reg[p]) /\ SlotOf(todo[p][1]) = 0
  BY <1>0, MainAt
<1>. DEFINE s == reg[p].ip
<1>2. reg[p].r = 0 /\ s \in Slots /\ reg[p].dp = 0
  BY <1>1 DEF Holds, UsesR, UsesIp, UsesDp
<1>3. FilesStay /\ UNCHANGED icache
  BY DEF Open2, FilesStay, fileVars
<1>4. CacheMoves(0, 0)
  BY <1>1, <1>3, CacheUnchanged
<1>5. \A v \in Slots : Taken(reg[p], v) = Is(s, v)
  BY <1>2, SizesAre, IsInt DEF Taken, Is
<1>6. CASE Then(p, Append(Iunlockput(s), <<"end_op">>)) /\ Forget(p, {"ip"})
  <2>1. Then(p, << <<"iunlock", s>>, <<"iput", s>>, <<"end_op">> >>)
    BY <1>6, PutOps
  <2>2. RegMove(p) /\ NoInodes(reg'[p])
    BY <1>1, <1>2, <1>6, ForgetIs DEF NoInodes
  <2>. HIDE DEF s
  <2>. QED
    BY <1>0, <1>2, <1>3, <1>4, <1>5, <2>1, <2>2, PutEnd
<1>7. CASE Then(p, << <<"open3">> >>) /\ UNCHANGED reg
  <2>. DEFINE a == <<"open3">>
              ops == <<a>>
  <2>1. Few(ops) /\ Len(ops) = 1 /\ ops[1] = a /\ a[1] = "open3"
    BY Ops1
  <2>2. a[1] \notin SpecialOps /\ a[1] \notin WalkOps /\ a[1] \in MainOps \ CreateOps /\ SlotOf(a) = 0
    BY CallOps DEF SpecialOps, LastOps, WalkOps, SlotOf
  <2>3. Holds("open3", reg'[p])
    BY <1>2, <1>7 DEF Holds, UsesR, UsesIp, UsesDp
  <2>4. Then(p, ops)
    BY <1>7
  <2>5. RegMove(p) /\ SameInodes(p)
    BY <1>1, <1>7, RegSame
  <2>. HIDE DEF a
  <2>6. \A v \in Slots : Balance(p, ops, 0, 0, v)
    <3>. TAKE v \in Slots
    <3>1. Sum5(SlotVals(ops), v) = 0
      BY <2>2, SizesAre, Ops1 DEF Sum1, Is
    <3>2. Taken(reg'[p], v) = Taken(reg[p], v) /\ Taken(reg[p], v) \in Int
      BY <1>7, IsInt DEF Taken
    <3>. HIDE DEF ops
    <3>. QED
      BY <1>1, <3>1, <3>2, BalanceIs
  <2>. HIDE DEF ops
  <2>7. \A k \in 1..1 : k = 1
    OBVIOUS
  <2>. QED
    BY <1>0, <1>3, <1>4, <2>1, <2>2, <2>3, <2>4, <2>5, <2>6, <2>7, Goes
<1>. QED
  BY <1>6, <1>7 DEF Open2

LEMMA Link1Keeps ==
    ASSUME Core, NEW p \in Procs, Link1(p)
    PROVE  Core'
<1>0. At(p, "link1") /\ Move(p, "r", "ip") /\ "link1" \in MainOps \ CreateOps
  BY CallOps DEF Link1
<1>1. Types /\ SlotRefs /\ Holds("link1", reg[p])
  BY <1>0, MainAt
<1>. DEFINE r == reg[p].r
<1>2. r \in {0} \cup Slots /\ reg[p].ip = 0 /\ reg[p].dp = 0
  BY <1>1 DEF Holds, UsesR, UsesIp, UsesDp
<1>3. RegMove(p) /\ reg'[p].r = 0 /\ reg'[p].ip = r /\ reg'[p].dp = 0
  BY <1>0, <1>1, <1>2, MoveIs
<1>4. FilesStay /\ UNCHANGED icache
  BY DEF Link1, FilesStay, fileVars
<1>5. CacheMoves(0, 0)
  BY <1>1, <1>4, CacheUnchanged
<1>6. \A v \in Slots : Is(0, v) + Taken(reg[p], v) = Taken(reg'[p], v)
  BY <1>2, <1>3, SizesAre, IsInt DEF Taken, Is
<1>7. CASE r = 0
  <2>1. Then(p, << <<"end_op">> >>)
    BY <1>7 DEF Link1
  <2>2. NoInodes(reg[p]) /\ NoInodes(reg'[p])
    BY <1>2, <1>3, <1>7 DEF NoInodes
  <2>. QED
    BY <1>0, <1>3, <1>4, <1>5, <2>1, <2>2, JustEnd
<1>8. CASE r # 0
  <2>. DEFINE b == <<"link2", Arg(p, 1)>>
  <2>1. b[1] = "link2" /\ b[1] \in MainOps \ CreateOps
    BY CallOps
  <2>2. Holds("link2", reg'[p]) /\ r \in Slots
    BY <1>2, <1>3, <1>8 DEF Holds, UsesR, UsesIp, UsesDp
  <2>3. Then(p, << <<"ilock", r>>, b>>)
    BY <1>8 DEF Link1
  <2>. HIDE DEF b, r
  <2>. QED
    BY <1>0, <1>3, <1>4, <1>5, <1>6, <2>1, <2>2, <2>3, LockNext
<1>. QED
  BY <1>7, <1>8

LEMMA Link2Keeps ==
    ASSUME Core, NEW p \in Procs, Link2(p)
    PROVE  Core'
<1>0. At(p, "link2") /\ "link2" \in MainOps \ CreateOps
  BY CallOps DEF Link2
<1>1. Types /\ SlotRefs /\ Holds("link2", reg[p]) /\ SlotOf(todo[p][1]) = 0
  BY <1>0, MainAt
<1>. DEFINE s == reg[p].ip
<1>2. reg[p].r = 0 /\ s \in Slots /\ reg[p].dp = 0
  BY <1>1 DEF Holds, UsesR, UsesIp, UsesDp
<1>3. FilesStay
  BY DEF Link2, FilesStay, fileVars
<1>4. \A v \in Slots : Taken(reg[p], v) = Is(s, v)
  BY <1>2, SizesAre, IsInt DEF Taken, Is
<1>5. CASE Then(p, Append(Iunlockput(s), <<"end_op">>)) /\ Forget(p, {"ip"}) /\ UNCHANGED icache
  <2>1. Then(p, << <<"iunlock", s>>, <<"iput", s>>, <<"end_op">> >>)
    BY <1>5, PutOps
  <2>2. RegMove(p) /\ NoInodes(reg'[p])
    BY <1>1, <1>2, <1>5, ForgetIs DEF NoInodes
  <2>3. CacheMoves(0, 0)
    BY <1>1, <1>5, CacheUnchanged
  <2>. HIDE DEF s
  <2>. QED
    BY <1>0, <1>2, <1>3, <1>4, <2>1, <2>2, <2>3, PutEnd
<1>6. CASE icache' = AddLinkMem(icache, s, 1) /\ UNCHANGED reg
           /\ Then(p, << <<"iunlock", s>>, <<"namex", Arg(p, 1), TRUE>>, <<"link3">> >>)
  <2>. DEFINE a == <<"iunlock", s>>
              b == <<"namex", Arg(p, 1), TRUE>>
              c == <<"link3">>
              ops == <<a, b, c>>
  <2>1. Few(ops) /\ Len(ops) = 3 /\ ops[1] = a /\ ops[2] = b /\ ops[3] = c
    BY Ops3
  <2>2. /\ Within(a) /\ a[1] \notin SpecialOps /\ a[1] \notin WalkOps /\ SlotOf(a) = 0
        /\ Within(b) /\ b[1] \notin SpecialOps /\ SlotOf(b) = 0
        /\ c[1] = "link3" /\ c[1] \notin SpecialOps /\ c[1] \notin WalkOps /\ SlotOf(c) = 0
        /\ c[1] \in MainOps \ CreateOps /\ c[1] \in UsesR
    BY <1>2, CallOps DEF Within, InodeOps, SpecialOps, LastOps, WalkOps, SlotOf, UsesR
  <2>3. Then(p, ops)
    BY <1>6
  <2>4. CacheMoves(0, 0)
    BY <1>1, <1>2, <1>6, AddLinkMoves DEF Types
  <2>5. RegMove(p) /\ SameInodes(p)
    BY <1>1, <1>6, RegSame
  <2>6. Holds("link3", reg'[p]) /\ reg'[p].r = 0
    BY <1>2, <1>6 DEF Holds, UsesR, UsesIp, UsesDp
  <2>. HIDE DEF a, b, c, s
  <2>7. \A v \in Slots : Balance(p, ops, 0, 0, v)
    <3>. TAKE v \in Slots
    <3>1. v # 0 /\ Is(0, v) = 0
      BY SizesAre DEF Is
    <3>2. Sum5(SlotVals(ops), v) = Sum3(a, b, c, v)
      BY <3>1, Ops3
    <3>3. Sum3(a, b, c, v) = 0
      BY <2>2, <3>1 DEF Sum1, Sum2, Sum3
    <3>4. Taken(reg'[p], v) = Taken(reg[p], v) /\ Taken(reg[p], v) \in Int
      BY <1>6, IsInt DEF Taken
    <3>. HIDE DEF ops
    <3>. QED
      BY <1>1, <3>2, <3>3, <3>4, BalanceIs
  <2>. HIDE DEF ops
  <2>8. \A k \in 1..3 : k = 1 \/ k = 2 \/ k = 3
    OBVIOUS
  <2>9. /\ \A k \in 1..3 : k < 3 => Within(ops[k])
        /\ \A k \in 1..3 : ops[k][1] \notin SpecialOps
        /\ \A k \in 1..3 : ops[k][1] \in WalkOps => k = 2
    BY <2>1, <2>2, <2>8
  <2>. QED
    BY <1>0, <1>3, <2>1, <2>2, <2>3, <2>4, <2>5, <2>6, <2>7, <2>9, Goes
<1>. QED
  BY <1>5, <1>6 DEF Link2

LEMMA Link3Keeps ==
    ASSUME Core, NEW p \in Procs, Link3(p)
    PROVE  Core'
<1>0. At(p, "link3") /\ Move(p, "r", "dp") /\ "link3" \in MainOps \ CreateOps
  BY CallOps DEF Link3
<1>1. Types /\ SlotRefs /\ Holds("link3", reg[p]) /\ SlotOf(todo[p][1]) = 0
  BY <1>0, MainAt
<1>. DEFINE r == reg[p].r
            s == reg[p].ip
<1>2. r \in {0} \cup Slots /\ s \in Slots /\ reg[p].dp = 0
  BY <1>1 DEF Holds, UsesR, UsesIp, UsesDp
<1>3. RegMove(p) /\ reg'[p].r = 0 /\ reg'[p].ip = s /\ reg'[p].dp = r
  BY <1>0, <1>1, MoveIs
<1>4. FilesStay /\ UNCHANGED icache
  BY DEF Link3, FilesStay, fileVars
<1>5. CacheMoves(0, 0)
  BY <1>1, <1>4, CacheUnchanged
<1>6. \A v \in Slots : Is(0, v) + Taken(reg[p], v) = Taken(reg'[p], v) /\ Taken(reg[p], v) \in Int
                       /\ Taken(reg'[p], v) = Taken(reg[p], v)
  BY <1>2, <1>3, SizesAre, IsInt DEF Taken, Is
<1>7. CASE r = 0
  <2>. DEFINE b == <<"link5">>
  <2>1. b[1] = "link5" /\ b[1] \in MainOps \ CreateOps
    BY CallOps
  <2>2. Holds("link5", reg'[p])
    BY <1>2, <1>3, <1>7 DEF Holds, UsesR, UsesIp, UsesDp
  <2>3. Then(p, << <<"ilock", s>>, b>>)
    BY <1>7 DEF Link3, LinkBad
  <2>. HIDE DEF b, s
  <2>. QED
    BY <1>0, <1>2, <1>3, <1>4, <1>5, <1>6, <2>1, <2>2, <2>3, LockNext
<1>8. CASE r # 0
  <2>. DEFINE a == <<"ilock", r>>
              b == <<"dirlink", r, reg[p].name, Inum(s)>>
              c == <<"link4">>
              ops == <<a, b, c>>
  <2>1. Few(ops) /\ Len(ops) = 3 /\ ops[1] = a /\ ops[2] = b /\ ops[3] = c
    BY Ops3
  <2>2. /\ Within(a) /\ a[1] \notin SpecialOps /\ a[1] \notin WalkOps /\ SlotOf(a) = 0
        /\ Within(b) /\ b[1] \notin SpecialOps /\ b[1] \notin WalkOps /\ SlotOf(b) = 0
        /\ c[1] = "link4" /\ c[1] \notin SpecialOps /\ c[1] \notin WalkOps /\ SlotOf(c) = 0
        /\ c[1] \in MainOps \ CreateOps
    BY <1>2, <1>8, CallOps DEF Within, InodeOps, SpecialOps, LastOps, WalkOps, SlotOf
  <2>3. Then(p, ops)
    BY <1>8 DEF Link3
  <2>4. Holds("link4", reg'[p])
    BY <1>2, <1>3, <1>8 DEF Holds, UsesR, UsesIp, UsesDp
  <2>. HIDE DEF a, b, c, s, r
  <2>5. \A v \in Slots : Balance(p, ops, 0, 0, v)
    <3>. TAKE v \in Slots
    <3>1. v # 0 /\ Is(0, v) = 0
      BY SizesAre DEF Is
    <3>2. Sum5(SlotVals(ops), v) = Sum3(a, b, c, v)
      BY <3>1, Ops3
    <3>3. Sum3(a, b, c, v) = 0
      BY <2>2, <3>1 DEF Sum1, Sum2, Sum3
    <3>. HIDE DEF ops
    <3>. QED
      BY <1>1, <1>6, <3>2, <3>3, BalanceIs
  <2>. HIDE DEF ops
  <2>6. \A k \in 1..3 : k = 1 \/ k = 2 \/ k = 3
    OBVIOUS
  <2>7. /\ \A k \in 1..3 : k < 3 => Within(ops[k])
        /\ \A k \in 1..3 : ops[k][1] \notin SpecialOps /\ ops[k][1] \notin WalkOps
    BY <2>1, <2>2, <2>6
  <2>. QED
    BY <1>0, <1>3, <1>4, <1>5, <2>1, <2>2, <2>3, <2>4, <2>5, <2>7, Goes
<1>. QED
  BY <1>7, <1>8

(* Put the last inode the call holds, and go on as b says.                 *)
LEMMA PutNext ==
    ASSUME Core, NEW p \in Procs, NEW op \in MainOps \ CreateOps, At(p, op), NEW s \in Slots,
           NEW b, b[1] \in MainOps \ CreateOps, NEW ops,
           \/ ops = << <<"iunlock", s>>, <<"iput", s>>, b>>
           \/ \E t \in Slots : ops = << <<"iunlock", s>>, <<"iput", s>>, <<"ilock", t>>, b>>,
           Then(p, ops), \A v \in Slots : Taken(reg[p], v) = Is(s, v) + Taken(reg'[p], v),
           FilesStay, RegMove(p), Holds(b[1], reg'[p]), CacheMoves(0, 0)
    PROVE  Core'
<1>. DEFINE a == <<"iunlock", s>>
            c == <<"iput", s>>
<1>1. \A x \in MainOps : /\ x \notin SpecialOps /\ x \notin WalkOps
                         /\ x \notin {"iput", "idrop", "walk", "step", "chdir3", "open4"}
  BY DEF MainOps, CreateOps, UsesR, UsesIp, UsesDp, SpecialOps, LastOps, WalkOps
<1>2. /\ Within(a) /\ a[1] \notin SpecialOps /\ a[1] \notin WalkOps /\ SlotOf(a) = 0
      /\ Within(c) /\ c[1] \notin SpecialOps /\ c[1] \notin WalkOps /\ SlotOf(c) = s
      /\ b[1] \notin SpecialOps /\ b[1] \notin WalkOps /\ SlotOf(b) = 0
  BY <1>1 DEF Within, InodeOps, SpecialOps, LastOps, WalkOps, SlotOf
<1>3. SlotOf(todo[p][1]) = 0
  BY MainAt
<1>4. \A v \in Slots : /\ Taken(reg[p], v) = Is(s, v) + Taken(reg'[p], v)
                       /\ Taken(reg'[p], v) \in Int /\ Is(s, v) \in Int /\ Is(0, v) = 0 /\ v # 0
  BY SizesAre, IsInt DEF Taken, Is
<1>5. CASE ops = << <<"iunlock", s>>, <<"iput", s>>, b>>
  <2>1. ops = <<a, c, b>>
    BY <1>5
  <2>. HIDE DEF a, c
  <2>2. Few(ops) /\ Len(ops) = 3 /\ ops[1] = a /\ ops[2] = c /\ ops[3] = b
    BY <2>1, Ops3
  <2>3. \A v \in Slots : Balance(p, ops, 0, 0, v)
    <3>. TAKE v \in Slots
    <3>1. Sum5(SlotVals(ops), v) = Sum3(a, c, b, v)
      BY <1>4, <2>1, Ops3
    <3>2. Sum3(a, c, b, v) = Is(s, v)
      BY <1>2, <1>4 DEF Sum1, Sum2, Sum3
    <3>. QED
      BY <1>3, <1>4, <3>1, <3>2, BalanceIs
  <2>4. \A k \in 1..3 : k = 1 \/ k = 2 \/ k = 3
    OBVIOUS
  <2>5. /\ \A k \in 1..3 : k < 3 => Within(ops[k])
        /\ \A k \in 1..3 : ops[k][1] \notin SpecialOps /\ ops[k][1] \notin WalkOps
    BY <1>2, <2>2, <2>4
  <2>. QED
    BY <2>2, <2>3, <2>5, Goes
<1>6. ASSUME NEW t \in Slots, ops = << <<"iunlock", s>>, <<"iput", s>>, <<"ilock", t>>, b>>
      PROVE  Core'
  <2>. DEFINE d == <<"ilock", t>>
  <2>1. ops = <<a, c, d, b>>
    BY <1>6
  <2>2. Within(d) /\ d[1] \notin SpecialOps /\ d[1] \notin WalkOps /\ SlotOf(d) = 0
    BY DEF Within, InodeOps, SpecialOps, LastOps, WalkOps, SlotOf
  <2>. HIDE DEF a, c, d
  <2>3. Few(ops) /\ Len(ops) = 4 /\ ops[1] = a /\ ops[2] = c /\ ops[3] = d /\ ops[4] = b
    BY <2>1, Ops4
  <2>4. \A v \in Slots : Balance(p, ops, 0, 0, v)
    <3>. TAKE v \in Slots
    <3>1. Sum5(SlotVals(ops), v) = Sum4(a, c, d, b, v)
      BY <1>4, <2>1, Ops4
    <3>2. Sum4(a, c, d, b, v) = Is(s, v)
      BY <1>2, <1>4, <2>2 DEF Sum1, Sum2, Sum3, Sum4
    <3>. QED
      BY <1>3, <1>4, <3>1, <3>2, BalanceIs
  <2>5. \A k \in 1..4 : k = 1 \/ k = 2 \/ k = 3 \/ k = 4
    OBVIOUS
  <2>6. /\ \A k \in 1..4 : k < 4 => Within(ops[k])
        /\ \A k \in 1..4 : ops[k][1] \notin SpecialOps /\ ops[k][1] \notin WalkOps
    BY <1>2, <2>2, <2>3, <2>5
  <2>. QED
    BY <2>3, <2>4, <2>6, Goes
<1>. QED
  BY <1>5, <1>6

(* Put both inodes the call holds, and end the transaction.                *)
LEMMA PutBothEnd ==
    ASSUME Core, NEW p \in Procs, NEW op \in MainOps \ CreateOps, At(p, op), NEW s \in Slots,
           NEW t \in Slots, NEW ops, Then(p, ops),
           \/ ops = << <<"iunlock", s>>, <<"iput", s>>, <<"iput", t>>, <<"end_op">> >>
           \/ ops = << <<"iunlock", s>>, <<"iput", s>>, <<"iunlock", t>>, <<"iput", t>>, <<"end_op">> >>,
           \A v \in Slots : Taken(reg[p], v) = Is(s, v) + Is(t, v),
           FilesStay, RegMove(p), NoInodes(reg'[p]), CacheMoves(0, 0)
    PROVE  Core'
<1>. DEFINE a == <<"iunlock", s>>
            b == <<"iput", s>>
            c == <<"iunlock", t>>
            d == <<"iput", t>>
            e == <<"end_op">>
<1>1. /\ Outside(a) /\ a[1] \notin SpecialOps /\ SlotOf(a) = 0
      /\ Outside(b) /\ b[1] \notin SpecialOps /\ SlotOf(b) = s
      /\ Outside(c) /\ c[1] \notin SpecialOps /\ SlotOf(c) = 0
      /\ Outside(d) /\ d[1] \notin SpecialOps /\ SlotOf(d) = t
      /\ Outside(e) /\ e[1] \notin SpecialOps /\ SlotOf(e) = 0
  BY DEF Outside, InodeOps, SpecialOps, LastOps, SlotOf
<1>2. SlotOf(todo[p][1]) = 0
  BY MainAt
<1>3. \A v \in Slots : /\ Taken(reg[p], v) = Is(s, v) + Is(t, v) /\ Taken(reg'[p], v) = 0
                       /\ Is(t, v) \in Int /\ Is(s, v) \in Int /\ Is(0, v) = 0 /\ v # 0
  BY SizesAre, IsInt DEF Taken, Is, NoInodes
<1>4. ops = <<a, b, d, e>> \/ ops = <<a, b, c, d, e>>
  OBVIOUS
<1>. HIDE DEF a, b, c, d, e
<1>5. Few(ops) /\ \A k \in 1..Len(ops) : ops[k] \in {a, b, c, d, e}
  <2>1. CASE ops = <<a, b, d, e>>
    <3>1. Few(ops) /\ Len(ops) = 4 /\ ops[1] = a /\ ops[2] = b /\ ops[3] = d /\ ops[4] = e
      BY <2>1, Ops4
    <3>2. \A k \in 1..4 : k = 1 \/ k = 2 \/ k = 3 \/ k = 4
      OBVIOUS
    <3>. QED
      BY <3>1, <3>2
  <2>2. CASE ops = <<a, b, c, d, e>>
    <3>1. Few(ops) /\ Len(ops) = 5
          /\ ops[1] = a /\ ops[2] = b /\ ops[3] = c /\ ops[4] = d /\ ops[5] = e
      BY <2>2, Ops5
    <3>2. \A k \in 1..5 : k = 1 \/ k = 2 \/ k = 3 \/ k = 4 \/ k = 5
      OBVIOUS
    <3>. QED
      BY <3>1, <3>2
  <2>. QED
    BY <1>4, <2>1, <2>2
<1>6. \A k \in 1..Len(ops) : Outside(ops[k]) /\ ops[k][1] \notin SpecialOps
  BY <1>1, <1>5
<1>7. \A v \in Slots : Balance(p, ops, 0, 0, v)
  <2>. TAKE v \in Slots
  <2>1. CASE ops = <<a, b, d, e>>
    <3>1. Sum5(SlotVals(ops), v) = Sum4(a, b, d, e, v)
      BY <1>3, <2>1, Ops4
    <3>2. Sum4(a, b, d, e, v) = Is(s, v) + Is(t, v)
      BY <1>1, <1>3 DEF Sum1, Sum2, Sum3, Sum4
    <3>. QED
      BY <1>2, <1>3, <3>1, <3>2 DEF Balance
  <2>2. CASE ops = <<a, b, c, d, e>>
    <3>1. Sum5(SlotVals(ops), v) = Sum50(a, b, c, d, e, v)
      BY <1>3, <2>2, Ops5
    <3>2. Sum50(a, b, c, d, e, v) = Is(s, v) + Is(t, v)
      BY <1>1, <1>3 DEF Sum1, Sum2, Sum3, Sum4, Sum50
    <3>. QED
      BY <1>2, <1>3, <3>1, <3>2 DEF Balance
  <2>. QED
    BY <1>4, <2>1, <2>2
<1>. QED
  BY <1>5, <1>6, <1>7, Done

LEMMA Link4Keeps ==
    ASSUME Core, NEW p \in Procs, Link4(p)
    PROVE  Core'
<1>0. At(p, "link4") /\ "link4" \in MainOps \ CreateOps
  BY CallOps DEF Link4
<1>1. Types /\ SlotRefs /\ Holds("link4", reg[p])
  BY <1>0, MainAt
<1>. DEFINE s == reg[p].ip
            dp == reg[p].dp
<1>2. reg[p].r = 0 /\ s \in Slots /\ dp \in Slots
  BY <1>1 DEF Holds, UsesR, UsesIp, UsesDp
<1>3. FilesStay /\ UNCHANGED icache
  BY DEF Link4, FilesStay, fileVars
<1>4. CacheMoves(0, 0)
  BY <1>1, <1>3, CacheUnchanged
<1>5. \A v \in Slots : Taken(reg[p], v) = Is(dp, v) + Is(s, v)
  BY <1>2, SizesAre, IsInt DEF Taken, Is
<1>6. CASE Then(p, Iunlockput(dp) \o << <<"iput", s>>, <<"end_op">> >>) /\ Forget(p, {"ip", "dp"})
  <2>. DEFINE ops == << <<"iunlock", dp>>, <<"iput", dp>>, <<"iput", s>>, <<"end_op">> >>
  <2>1. Then(p, ops)
    BY <1>6, PutTwo
  <2>2. RegMove(p) /\ NoInodes(reg'[p])
    BY <1>1, <1>2, <1>6, ForgetIs DEF NoInodes
  <2>3. ops = << <<"iunlock", dp>>, <<"iput", dp>>, <<"iput", s>>, <<"end_op">> >>
    OBVIOUS
  <2>. HIDE DEF ops, s, dp
  <2>. QED
    BY <1>0, <1>2, <1>3, <1>4, <1>5, <2>1, <2>2, <2>3, PutBothEnd
<1>7. CASE Then(p, Iunlockput(dp) \o LinkBad(s)) /\ Forget(p, {"dp"})
  <2>. DEFINE b == <<"link5">>
              ops == << <<"iunlock", dp>>, <<"iput", dp>>, <<"ilock", s>>, b>>
  <2>1. Then(p, ops)
    BY <1>7, PutTwo DEF LinkBad
  <2>2. RegMove(p) /\ reg'[p].r = 0 /\ reg'[p].ip = s /\ reg'[p].dp = 0
    BY <1>1, <1>2, <1>7, ForgetIs
  <2>3. b[1] = "link5" /\ b[1] \in MainOps \ CreateOps
    BY CallOps
  <2>4. Holds("link5", reg'[p])
    BY <1>2, <2>2 DEF Holds, UsesR, UsesIp, UsesDp
  <2>5. \A v \in Slots : Taken(reg[p], v) = Is(dp, v) + Taken(reg'[p], v)
    BY <1>5, <2>2, SizesAre, IsInt DEF Taken, Is
  <2>6. ops = << <<"iunlock", dp>>, <<"iput", dp>>, <<"ilock", s>>, b>>
    OBVIOUS
  <2>. HIDE DEF b, ops, s, dp
  <2>. QED
    BY <1>0, <1>2, <1>3, <1>4, <2>1, <2>2, <2>3, <2>4, <2>5, <2>6, PutNext
<1>. QED
  BY <1>6, <1>7 DEF Link4

LEMMA Link5Keeps ==
    ASSUME Core, NEW p \in Procs, Link5(p)
    PROVE  Core'
<1>0. At(p, "link5") /\ "link5" \in MainOps \ CreateOps
  BY CallOps DEF Link5
<1>1. Types /\ SlotRefs /\ Holds("link5", reg[p])
  BY <1>0, MainAt
<1>. DEFINE s == reg[p].ip
<1>2. reg[p].r = 0 /\ s \in Slots /\ reg[p].dp = 0
  BY <1>1 DEF Holds, UsesR, UsesIp, UsesDp
<1>3. FilesStay
  BY DEF Link5, FilesStay, fileVars
<1>4. CacheMoves(0, 0)
  <2>1. icache' = AddLinkMem(icache, s, -1)
    BY DEF Link5
  <2>. HIDE DEF s
  <2>. QED
    BY <1>1, <1>2, <2>1, AddLinkMoves DEF Types
<1>5. \A v \in Slots : Taken(reg[p], v) = Is(s, v)
  BY <1>2, SizesAre, IsInt DEF Taken, Is
<1>6. Then(p, << <<"iunlock", s>>, <<"iput", s>>, <<"end_op">> >>) /\ Forget(p, {"ip"})
  BY PutOps DEF Link5
<1>7. RegMove(p) /\ NoInodes(reg'[p])
  BY <1>1, <1>2, <1>6, ForgetIs DEF NoInodes
<1>. HIDE DEF s
<1>. QED
  BY <1>0, <1>2, <1>3, <1>4, <1>5, <1>6, <1>7, PutEnd

LEMMA Unlink1Keeps ==
    ASSUME Core, NEW p \in Procs, Unlink1(p)
    PROVE  Core'
<1>0. At(p, "unlink1") /\ Move(p, "r", "dp") /\ "unlink1" \in MainOps \ CreateOps
  BY CallOps DEF Unlink1
<1>1. Types /\ SlotRefs /\ Holds("unlink1", reg[p])
  BY <1>0, MainAt
<1>. DEFINE r == reg[p].r
<1>2. r \in {0} \cup Slots /\ reg[p].ip = 0 /\ reg[p].dp = 0
  BY <1>1 DEF Holds, UsesR, UsesIp, UsesDp
<1>3. RegMove(p) /\ reg'[p].r = 0 /\ reg'[p].ip = 0 /\ reg'[p].dp = r
  BY <1>0, <1>1, <1>2, MoveIs
<1>4. FilesStay /\ UNCHANGED icache
  BY DEF Unlink1, FilesStay, fileVars
<1>5. CacheMoves(0, 0)
  BY <1>1, <1>4, CacheUnchanged
<1>6. \A v \in Slots : Is(0, v) + Taken(reg[p], v) = Taken(reg'[p], v)
  BY <1>2, <1>3, SizesAre, IsInt DEF Taken, Is
<1>7. CASE r = 0
  <2>1. Then(p, << <<"end_op">> >>)
    BY <1>7 DEF Unlink1
  <2>2. NoInodes(reg[p]) /\ NoInodes(reg'[p])
    BY <1>2, <1>3, <1>7 DEF NoInodes
  <2>. QED
    BY <1>0, <1>3, <1>4, <1>5, <2>1, <2>2, JustEnd
<1>8. CASE r # 0
  <2>. DEFINE b == <<"unlink2">>
  <2>1. b[1] = "unlink2" /\ b[1] \in MainOps \ CreateOps
    BY CallOps
  <2>2. Holds("unlink2", reg'[p]) /\ r \in Slots
    BY <1>2, <1>3, <1>8 DEF Holds, UsesR, UsesIp, UsesDp
  <2>3. Then(p, << <<"ilock", r>>, b>>)
    BY <1>8 DEF Unlink1
  <2>. HIDE DEF b, r
  <2>. QED
    BY <1>0, <1>3, <1>4, <1>5, <1>6, <2>1, <2>2, <2>3, LockNext
<1>. QED
  BY <1>7, <1>8

LEMMA Unlink2Keeps ==
    ASSUME Core, NEW p \in Procs, Unlink2(p), panicked' = "no"
    PROVE  Core'
<1>0. At(p, "unlink2") /\ "unlink2" \in MainOps \ CreateOps
  BY CallOps DEF Unlink2
<1>1. Types /\ SlotRefs /\ Holds("unlink2", reg[p])
  BY <1>0, MainAt
<1>. DEFINE dp == reg[p].dp
<1>2. reg[p].r = 0 /\ reg[p].ip = 0 /\ dp \in Slots
  BY <1>1 DEF Holds, UsesR, UsesIp, UsesDp
<1>3. FilesStay
  BY DEF Unlink2, FilesStay, fileVars
<1>4. CASE /\ Then(p, Append(Iunlockput(dp), <<"end_op">>)) /\ Forget(p, {"dp"}) /\ UNCHANGED icache
  <2>1. Then(p, << <<"iunlock", dp>>, <<"iput", dp>>, <<"end_op">> >>)
    BY <1>4, PutOps
  <2>2. RegMove(p) /\ NoInodes(reg'[p])
    BY <1>1, <1>2, <1>4, ForgetIs DEF NoInodes
  <2>3. CacheMoves(0, 0)
    BY <1>1, <1>4, CacheUnchanged
  <2>4. \A v \in Slots : Taken(reg[p], v) = Is(dp, v)
    BY <1>2, SizesAre, IsInt DEF Taken, Is
  <2>. HIDE DEF dp
  <2>. QED
    BY <1>0, <1>2, <1>3, <2>1, <2>2, <2>3, <2>4, PutEnd
<1>5. ASSUME NEW i, NEW k, icache' = Iget(i), FullIf(IgetSlot(i) = 0),
             reg' = [reg EXCEPT ![p].ip = IgetSlot(i)],
             Then(p, << <<"ilock", IgetSlot(i)>>, <<"unlink3", k>> >>)
      PROVE  Core'
  <2>. DEFINE s == IgetSlot(i)
              b == <<"unlink3", k>>
  <2>1. s # 0
    BY <1>5 DEF FullIf
  <2>2. s \in Slots /\ CacheMoves(s, 0)
    BY <1>1, <1>5, <2>1, IgetMoves
  <2>3. RegMove(p) /\ reg'[p].r = 0 /\ reg'[p].ip = s /\ reg'[p].dp = dp
    BY <1>1, <1>2, <1>5 DEF Types, RegMove, NoRegs
  <2>4. b[1] = "unlink3" /\ b[1] \in MainOps \ CreateOps
    BY CallOps
  <2>5. Holds("unlink3", reg'[p])
    BY <1>2, <2>2, <2>3 DEF Holds, UsesR, UsesIp, UsesDp
  <2>6. Then(p, << <<"ilock", s>>, b>>)
    BY <1>5
  <2>. HIDE DEF s, b, dp
  <2>7. \A v \in Slots : Is(s, v) + Taken(reg[p], v) = Taken(reg'[p], v)
    BY <1>2, <2>3, SizesAre, IsInt DEF Taken, Is, dp
  <2>. QED
    BY <1>0, <1>3, <2>2, <2>3, <2>4, <2>5, <2>6, <2>7, LockNext
<1>. QED
  BY <1>4, <1>5 DEF Unlink2

LEMMA Unlink3Keeps ==
    ASSUME Core, NEW p \in Procs, Unlink3(p)
    PROVE  Core'
<1>0. At(p, "unlink3") /\ "unlink3" \in MainOps \ CreateOps
  BY CallOps DEF Unlink3
<1>1. Types /\ SlotRefs /\ Holds("unlink3", reg[p])
  BY <1>0, MainAt
<1>. DEFINE s == reg[p].ip
            dp == reg[p].dp
<1>2. reg[p].r = 0 /\ s \in Slots /\ dp \in Slots
  BY <1>1 DEF Holds, UsesR, UsesIp, UsesDp
<1>3. FilesStay
  BY DEF Unlink3, FilesStay, fileVars
<1>4. \A v \in Slots : Taken(reg[p], v) = Is(s, v) + Is(dp, v)
  BY <1>2, SizesAre, IsInt DEF Taken, Is
<1>5. CASE Then(p, Iunlockput(s) \o Append(Iunlockput(dp), <<"end_op">>)) /\ Forget(p, {"ip", "dp"})
           /\ UNCHANGED icache
  <2>. DEFINE ops == << <<"iunlock", s>>, <<"iput", s>>, <<"iunlock", dp>>, <<"iput", dp>>, <<"end_op">> >>
  <2>1. Then(p, ops)
    BY <1>5, PutBoth
  <2>2. RegMove(p) /\ NoInodes(reg'[p])
    BY <1>1, <1>2, <1>5, ForgetIs DEF NoInodes
  <2>3. CacheMoves(0, 0)
    BY <1>1, <1>5, CacheUnchanged
  <2>4. ops = << <<"iunlock", s>>, <<"iput", s>>, <<"iunlock", dp>>, <<"iput", dp>>, <<"end_op">> >>
    OBVIOUS
  <2>. HIDE DEF ops, s, dp
  <2>. QED
    BY <1>0, <1>2, <1>3, <1>4, <2>1, <2>2, <2>3, <2>4, PutBothEnd
<1>6. ASSUME NEW down, icache' = AddLinkMem(icache, dp, down), Forget(p, {"dp"}),
             Then(p, Append(Iunlockput(dp), <<"unlink4">>))
      PROVE  Core'
  <2>. DEFINE b == <<"unlink4">>
              ops == << <<"iunlock", dp>>, <<"iput", dp>>, b>>
  <2>1. Then(p, ops)
    BY <1>6, PutOps
  <2>2. RegMove(p) /\ reg'[p].r = 0 /\ reg'[p].ip = s /\ reg'[p].dp = 0
    BY <1>1, <1>2, <1>6, ForgetIs
  <2>3. b[1] = "unlink4" /\ b[1] \in MainOps \ CreateOps
    BY CallOps
  <2>4. Holds("unlink4", reg'[p])
    BY <1>2, <2>2 DEF Holds, UsesR, UsesIp, UsesDp
  <2>5. \A v \in Slots : Taken(reg[p], v) = Is(dp, v) + Taken(reg'[p], v)
    BY <1>4, <2>2, SizesAre, IsInt DEF Taken, Is
  <2>6. ops = << <<"iunlock", dp>>, <<"iput", dp>>, b>>
    OBVIOUS
  <2>. HIDE DEF b, ops, s, dp
  <2>7. CacheMoves(0, 0)
    BY <1>1, <1>2, <1>6, AddLinkMoves DEF Types
  <2>. QED
    BY <1>0, <1>2, <1>3, <2>1, <2>2, <2>3, <2>4, <2>5, <2>6, <2>7, PutNext
<1>. QED
  BY <1>5, <1>6 DEF Unlink3

LEMMA Unlink4Keeps ==
    ASSUME Core, NEW p \in Procs, Unlink4(p)
    PROVE  Core'
<1>0. At(p, "unlink4") /\ "unlink4" \in MainOps \ CreateOps
  BY CallOps DEF Unlink4
<1>1. Types /\ SlotRefs /\ Holds("unlink4", reg[p])
  BY <1>0, MainAt
<1>. DEFINE s == reg[p].ip
<1>2. reg[p].r = 0 /\ s \in Slots /\ reg[p].dp = 0
  BY <1>1 DEF Holds, UsesR, UsesIp, UsesDp
<1>3. FilesStay
  BY DEF Unlink4, FilesStay, fileVars
<1>4. CacheMoves(0, 0)
  <2>1. icache' = AddLinkMem(icache, s, -1)
    BY DEF Unlink4
  <2>. HIDE DEF s
  <2>. QED
    BY <1>1, <1>2, <2>1, AddLinkMoves DEF Types
<1>5. \A v \in Slots : Taken(reg[p], v) = Is(s, v)
  BY <1>2, SizesAre, IsInt DEF Taken, Is
<1>6. Then(p, << <<"iunlock", s>>, <<"iput", s>>, <<"end_op">> >>) /\ Forget(p, {"ip"})
  BY PutOps DEF Unlink4
<1>7. RegMove(p) /\ NoInodes(reg'[p])
  BY <1>1, <1>2, <1>6, ForgetIs DEF NoInodes
<1>. HIDE DEF s
<1>. QED
  BY <1>0, <1>2, <1>3, <1>4, <1>5, <1>6, <1>7, PutEnd

LEMMA Mk1Keeps ==
    ASSUME Core, NEW p \in Procs, Mk1(p)
    PROVE  Core'
<1>0. At(p, "mk1") /\ Forget(p, {"r"}) /\ "mk1" \in MainOps \ CreateOps
  BY CallOps DEF Mk1
<1>1. Types /\ SlotRefs /\ Holds("mk1", reg[p])
  BY <1>0, MainAt
<1>. DEFINE r == reg[p].r
<1>2. r \in {0} \cup Slots /\ reg[p].ip = 0 /\ reg[p].dp = 0
  BY <1>1 DEF Holds, UsesR, UsesIp, UsesDp
<1>3. RegMove(p) /\ NoInodes(reg'[p])
  BY <1>0, <1>1, <1>2, ForgetIs DEF NoInodes
<1>4. FilesStay /\ UNCHANGED icache
  BY DEF Mk1, FilesStay, fileVars
<1>5. CacheMoves(0, 0)
  BY <1>1, <1>4, CacheUnchanged
<1>6. CASE r = 0
  <2>1. Then(p, << <<"end_op">> >>)
    BY <1>6, PutOps DEF Mk1
  <2>2. NoInodes(reg[p])
    BY <1>2, <1>6 DEF NoInodes
  <2>. QED
    BY <1>0, <1>3, <1>4, <1>5, <2>1, <2>2, JustEnd
<1>7. CASE r # 0
  <2>1. Then(p, << <<"iunlock", r>>, <<"iput", r>>, <<"end_op">> >>)
    BY <1>7, PutOps DEF Mk1
  <2>2. r \in Slots
    BY <1>2, <1>7
  <2>3. \A v \in Slots : Taken(reg[p], v) = Is(r, v)
    BY <1>2, SizesAre, IsInt DEF Taken, Is
  <2>. HIDE DEF r
  <2>. QED
    BY <1>0, <1>3, <1>4, <1>5, <2>1, <2>2, <2>3, PutEnd
<1>. QED
  BY <1>6, <1>7

LEMMA Chdir1Keeps ==
    ASSUME Core, NEW p \in Procs, Chdir1(p)
    PROVE  Core'
<1>0. At(p, "chdir1") /\ "chdir1" \in MainOps \ CreateOps
  BY CallOps DEF Chdir1
<1>1. Types /\ SlotRefs /\ Holds("chdir1", reg[p])
  BY <1>0, MainAt
<1>. DEFINE r == reg[p].r
<1>2. r \in {0} \cup Slots /\ reg[p].ip = 0 /\ reg[p].dp = 0
  BY <1>1 DEF Holds, UsesR, UsesIp, UsesDp
<1>3. FilesStay /\ UNCHANGED icache /\ UNCHANGED reg
  BY DEF Chdir1, FilesStay, fileVars
<1>4. RegMove(p)
  BY <1>1, <1>3, RegSame
<1>5. CacheMoves(0, 0)
  BY <1>1, <1>3, CacheUnchanged
<1>6. \A v \in Slots : Is(0, v) + Taken(reg[p], v) = Taken(reg'[p], v)
  BY <1>3, SizesAre, IsInt DEF Taken, Is
<1>7. CASE r = 0
  <2>1. Then(p, << <<"end_op">> >>)
    BY <1>7 DEF Chdir1
  <2>2. NoInodes(reg[p]) /\ NoInodes(reg'[p])
    BY <1>2, <1>3, <1>7 DEF NoInodes
  <2>. QED
    BY <1>0, <1>3, <1>4, <1>5, <2>1, <2>2, JustEnd
<1>8. CASE r # 0
  <2>. DEFINE b == <<"chdir2">>
  <2>1. b[1] = "chdir2" /\ b[1] \in MainOps \ CreateOps
    BY CallOps
  <2>2. Holds("chdir2", reg'[p]) /\ r \in Slots
    BY <1>2, <1>3, <1>8 DEF Holds, UsesR, UsesIp, UsesDp
  <2>3. Then(p, << <<"ilock", r>>, b>>)
    BY <1>8 DEF Chdir1
  <2>. HIDE DEF b, r
  <2>. QED
    BY <1>0, <1>3, <1>4, <1>5, <1>6, <2>1, <2>2, <2>3, LockNext
<1>. QED
  BY <1>7, <1>8

-----------------------------------------------------------------------------
(* Sections that open or close files, or come last.                        *)

(* Where the sections come from.                                           *)
LEMMA Along ==
    ASSUME NEW p \in Procs, NEW ops, After(p, ops)
    PROVE  /\ \A k \in 1..Len(todo'[p]) :
                \/ k \in 1..Len(ops) /\ todo'[p][k] = ops[k]
                \/ \E j \in 2..Len(todo[p]) : /\ todo[p][j] = todo'[p][k]
                                              /\ j = Len(todo[p]) <=> k = Len(todo'[p])
           /\ \A j \in 2..Len(todo[p]) : \E k \in 1..Len(todo'[p]) : todo'[p][k] = todo[p][j]
           /\ Len(todo[p]) = 1 => Len(todo'[p]) = Len(ops)
                                  /\ \A k \in 1..Len(ops) : todo'[p][k] = ops[k]
           /\ Len(todo[p]) # 1 => todo'[p] # << >>
                                  /\ todo'[p][Len(todo'[p])] = todo[p][Len(todo[p])]
           /\ 1 \in 1..Len(todo[p]) /\ Len(todo[p]) \in 1..Len(todo[p])
           /\ \A j \in 1..Len(todo[p]) : j = 1 \/ j \in 2..Len(todo[p])
<1>. DEFINE n == Len(ops)
            L == Len(todo[p])
            M == Len(todo'[p])
<1>1. n \in 0..5 /\ L \in Nat \ {0} /\ M = n + L - 1 /\ (todo'[p] = << >> <=> M = 0)
  BY SeqFacts DEF After
<1>2. \A k \in 1..M : todo'[p][k] = IF k <= n THEN ops[k] ELSE todo[p][k - n + 1]
  BY DEF After
<1>. HIDE DEF n, L, M
<1>3. ASSUME NEW k \in 1..M
      PROVE  \/ k \in 1..n /\ todo'[p][k] = ops[k]
             \/ \E j \in 2..L : todo[p][j] = todo'[p][k] /\ (j = L <=> k = M)
  <2>1. CASE k <= n
    BY <1>1, <1>2, <2>1
  <2>2. CASE ~(k <= n)
    <3>1. k - n + 1 \in 2..L /\ (k - n + 1 = L <=> k = M)
      BY <1>1, <2>2
    <3>. QED
      BY <1>2, <2>2, <3>1
  <2>. QED
    BY <2>1, <2>2
<1>4. ASSUME NEW j \in 2..L
      PROVE  \E k \in 1..M : todo'[p][k] = todo[p][j]
  <2>1. j + n - 1 \in 1..M /\ ~(j + n - 1 <= n) /\ (j + n - 1) - n + 1 = j
    BY <1>1
  <2>2. todo'[p][j + n - 1] = todo[p][(j + n - 1) - n + 1]
    BY <1>2, <2>1
  <2>. QED
    BY <2>1, <2>2
<1>5. L = 1 => M = n /\ \A k \in 1..n : todo'[p][k] = ops[k]
  BY <1>1, <1>2
<1>6. L # 1 => todo'[p] # << >> /\ todo'[p][M] = todo[p][L]
  <2>1. L # 1 => M \in 1..M /\ ~(M <= n) /\ M - n + 1 = L /\ M # 0
    BY <1>1
  <2>. QED
    BY <1>1, <1>2, <2>1
<1>7. 1 \in 1..L /\ L \in 1..L /\ \A j \in 1..L : j = 1 \/ j \in 2..L
  BY <1>1
<1>. QED
  BY <1>3, <1>4, <1>5, <1>6, <1>7 DEF n, L, M

(* Two places are counted twice.                                           *)
LEMMA CountTwice ==
    ASSUME NEW f, NEW v, Finite(f, v), NEW x \in DOMAIN f, NEW y \in DOMAIN f, x # y,
           f[x] = v, f[y] = v
    PROVE  Count(f, v) \in Nat /\ Count(f, v) > 1
<1>1. IsFiniteSet(Where(f, v)) /\ x \in Where(f, v) /\ y \in Where(f, v) \ {x}
  BY DEF Finite, Where
<1>2. Cardinality(Where(f, v)) \in Nat
  BY <1>1, FS_CardinalityType
<1>3. /\ IsFiniteSet(Where(f, v) \ {x})
      /\ Cardinality(Where(f, v) \ {x}) = Cardinality(Where(f, v)) - 1
  BY <1>1, FS_RemoveElement
<1>4. Cardinality(Where(f, v) \ {x}) # 0 /\ Cardinality(Where(f, v) \ {x}) \in Nat
  BY <1>1, <1>3, FS_EmptySet, FS_CardinalityType
<1>. QED
  BY <1>2, <1>3, <1>4 DEF Count

LEMMA EndAt ==
    ASSUME NEW w, NEW p \in DOMAIN w, Len(w[p]) \in Nat, NEW j \in 1..Len(w[p])
    PROVE  /\ <<p, Len(w[p]) + 1 - j>> \in DOMAIN Ends(w)
           /\ Ends(w)[<<p, Len(w[p]) + 1 - j>>] = w[p][j]
<1>. DEFINE L == Len(w[p])
            k == L + 1 - j
<1>1. k \in Nat /\ k \in 1..L /\ L + 1 - k = j
  OBVIOUS
<1>2. <<p, k>> \in (DOMAIN w) \X Nat /\ <<p, k>>[1] = p /\ <<p, k>>[2] = k
  BY <1>1
<1>. HIDE DEF k
<1>3. Ends(w)[<<p, k>>] = IF k \in 1..Len(w[p]) THEN w[p][Len(w[p]) + 1 - k] ELSE 0
  BY <1>2 DEF Ends
<1>. QED
  BY <1>1, <1>2, <1>3 DEF Ends, k

(* Who refers to a struct file.                                            *)
LEMMA FileCounts ==
    ASSUME Types, FileRefs, NEW f \in Files
    PROVE  /\ ftable[f].ref \in Nat /\ f # 0
           /\ Count(Descs, f) \in Nat /\ Count(Ends(FilesOf), f) \in Nat
           /\ Count(Ends(OthersOf), f) \in Nat
           /\ ftable[f].ref = Count(Descs, f) + Count(Ends(FilesOf), f) + Count(Ends(OthersOf), f)
<1>1. /\ Count(Descs, f) \in Nat /\ Count(Ends(FilesOf), f) \in Nat
      /\ Count(Ends(OthersOf), f) \in Nat
  BY HoldersFinite, RowsFinite, SizesAre, CountNat
<1>2. ftable[f].ref = Count(Descs, f) + Count(Ends(FilesOf), f) + Count(Ends(OthersOf), f)
  BY DEF FileRefs
<1>. QED
  BY <1>1, <1>2, SizesAre

LEMMA DescUser ==
    ASSUME Types, NEW f \in Files, NEW p \in Procs, NEW fd \in Fds, ofile[p][fd] = f
    PROVE  /\ Count(Descs, f) > 0
           /\ \A q \in Procs : \A fe \in Fds : ofile[q][fe] = f /\ ~(q = p /\ fe = fd) =>
                Count(Descs, f) > 1
<1>1. \A q \in Procs : \A fe \in Fds : <<q, fe>> \in DOMAIN Descs /\ Descs[<<q, fe>>] = ofile[q][fe]
  BY DEF Descs
<1>2. Finite(Descs, f)
  BY HoldersFinite
<1>3. Count(Descs, f) > 0
  BY <1>1, <1>2, CountPositive
<1>4. ASSUME NEW q \in Procs, NEW fe \in Fds, ofile[q][fe] = f, ~(q = p /\ fe = fd)
      PROVE  Count(Descs, f) > 1
  <2>. DEFINE x == <<p, fd>>
              y == <<q, fe>>
  <2>1. x # y
    BY <1>4
  <2>2. x \in DOMAIN Descs /\ y \in DOMAIN Descs /\ Descs[x] = f /\ Descs[y] = f
    BY <1>1, <1>4
  <2>. HIDE DEF x, y
  <2>. QED
    BY <1>2, <2>1, <2>2, CountTwice
<1>. QED
  BY <1>3, <1>4

LEMMA SectionUser ==
    ASSUME Types, NEW f \in Files, NEW w, w \in {FilesOf, OthersOf}, NEW p \in Procs,
           NEW j \in 1..Len(todo[p]), w[p][j] = f
    PROVE  /\ Count(Ends(w), f) > 0
           /\ \A q \in Procs : \A k \in 1..Len(todo[q]) : w[q][k] = f /\ ~(q = p /\ k = j) =>
                Count(Ends(w), f) > 1
<1>1. /\ DOMAIN w = Procs
      /\ \A q \in Procs : Len(w[q]) = Len(todo[q]) /\ Len(todo[q]) \in Nat
  <2>1. DOMAIN FilesOf = Procs /\ DOMAIN OthersOf = Procs
    BY DEF FilesOf, OthersOf
  <2>. QED
    BY <2>1, RowsAre
<1>2. Finite(Ends(w), f)
  BY RowsFinite, SizesAre
<1>. DEFINE at(q, k) == <<q, Len(w[q]) + 1 - k>>
<1>3. \A q \in Procs : \A k \in 1..Len(todo[q]) :
        at(q, k) \in DOMAIN Ends(w) /\ Ends(w)[at(q, k)] = w[q][k]
  BY <1>1, EndAt
<1>4. \A q \in Procs : \A k \in 1..Len(todo[q]) : at(q, k) = at(p, j) => q = p /\ k = j
  <2>. SUFFICES ASSUME NEW q \in Procs, NEW k \in 1..Len(todo[q]), at(q, k) = at(p, j)
                PROVE  q = p /\ k = j
    OBVIOUS
  <2>1. q = p
    OBVIOUS
  <2>2. Len(w[p]) + 1 - k = Len(w[p]) + 1 - j
    BY <2>1
  <2>3. Len(w[p]) \in Nat /\ k \in Int /\ j \in Int
    BY <1>1, <2>1
  <2>. QED
    BY <2>1, <2>2, <2>3
<1>. HIDE DEF at
<1>5. Count(Ends(w), f) > 0
  BY <1>2, <1>3, CountPositive
<1>6. ASSUME NEW q \in Procs, NEW k \in 1..Len(todo[q]), w[q][k] = f, ~(q = p /\ k = j)
      PROVE  Count(Ends(w), f) > 1
  <2>1. at(q, k) # at(p, j)
    BY <1>4, <1>6
  <2>. QED
    BY <1>2, <1>3, <1>6, <2>1, CountTwice
<1>. QED
  BY <1>5, <1>6

LEMMA Users ==
    ASSUME Types, FileRefs, NEW f \in Files
    PROVE  /\ ftable[f].ref \in Nat /\ f # 0
           /\ \A p \in Procs : \A fd \in Fds : ofile[p][fd] = f => ftable[f].ref > 0
           /\ \A p \in Procs : \A k \in 1..Len(todo[p]) :
                FileOf(todo[p][k]) = f \/ OtherOf(todo[p][k]) = f => ftable[f].ref > 0
<1>1. /\ ftable[f].ref \in Nat /\ f # 0
      /\ Count(Descs, f) \in Nat /\ Count(Ends(FilesOf), f) \in Nat
      /\ Count(Ends(OthersOf), f) \in Nat
      /\ ftable[f].ref = Count(Descs, f) + Count(Ends(FilesOf), f) + Count(Ends(OthersOf), f)
  BY FileCounts
<1>2. \A p \in Procs : \A fd \in Fds : ofile[p][fd] = f => Count(Descs, f) > 0
  BY DescUser
<1>3. ASSUME NEW p \in Procs, NEW k \in 1..Len(todo[p])
      PROVE  /\ FileOf(todo[p][k]) = f => Count(Ends(FilesOf), f) > 0
             /\ OtherOf(todo[p][k]) = f => Count(Ends(OthersOf), f) > 0
  <2>1. FilesOf[p][k] = FileOf(todo[p][k]) /\ OthersOf[p][k] = OtherOf(todo[p][k])
    BY RowsAre
  <2>2. FilesOf[p][k] = f => Count(Ends(FilesOf), f) > 0
    BY SectionUser
  <2>3. OthersOf[p][k] = f => Count(Ends(OthersOf), f) > 0
    BY SectionUser
  <2>. QED
    BY <2>1, <2>2, <2>3
<1>. QED
  BY <1>1, <1>2, <1>3

(* A struct file with one reference has one user.                          *)
LEMMA OneUser ==
    ASSUME Types, FileRefs, NEW f \in Files, ftable[f].ref = 1
    PROVE  /\ \A p, q \in Procs : \A fd, fe \in Fds :
                ofile[p][fd] = f /\ ofile[q][fe] = f => q = p /\ fe = fd
           /\ \A p, q \in Procs : \A fd \in Fds : \A k \in 1..Len(todo[q]) :
                ofile[p][fd] = f => FileOf(todo[q][k]) # f /\ OtherOf(todo[q][k]) # f
           /\ \A p, q \in Procs : \A j \in 1..Len(todo[p]) : \A k \in 1..Len(todo[q]) :
                /\ FileOf(todo[p][j]) = f /\ FileOf(todo[q][k]) = f => q = p /\ k = j
                /\ OtherOf(todo[p][j]) = f /\ OtherOf(todo[q][k]) = f => q = p /\ k = j
                /\ FileOf(todo[p][j]) = f => OtherOf(todo[q][k]) # f
<1>. DEFINE a == Count(Descs, f)
            b == Count(Ends(FilesOf), f)
            c == Count(Ends(OthersOf), f)
<1>1. a \in Nat /\ b \in Nat /\ c \in Nat /\ 1 = a + b + c
  BY FileCounts
<1>2. ASSUME NEW p \in Procs, NEW fd \in Fds, ofile[p][fd] = f
      PROVE  /\ a > 0
             /\ \A q \in Procs : \A fe \in Fds : ofile[q][fe] = f /\ ~(q = p /\ fe = fd) => a > 1
  BY <1>2, DescUser
<1>3. ASSUME NEW p \in Procs, NEW j \in 1..Len(todo[p])
      PROVE  /\ FileOf(todo[p][j]) = f => b > 0
             /\ OtherOf(todo[p][j]) = f => c > 0
             /\ \A q \in Procs : \A k \in 1..Len(todo[q]) :
                  /\ FileOf(todo[p][j]) = f /\ FileOf(todo[q][k]) = f /\ ~(q = p /\ k = j) => b > 1
                  /\ OtherOf(todo[p][j]) = f /\ OtherOf(todo[q][k]) = f /\ ~(q = p /\ k = j) => c > 1
  <2>1. \A q \in Procs : \A k \in 1..Len(todo[q]) :
          FilesOf[q][k] = FileOf(todo[q][k]) /\ OthersOf[q][k] = OtherOf(todo[q][k])
    BY RowsAre
  <2>2. ASSUME FilesOf[p][j] = f
        PROVE  /\ b > 0
               /\ \A q \in Procs : \A k \in 1..Len(todo[q]) :
                    FilesOf[q][k] = f /\ ~(q = p /\ k = j) => b > 1
    BY <2>2, SectionUser
  <2>3. ASSUME OthersOf[p][j] = f
        PROVE  /\ c > 0
               /\ \A q \in Procs : \A k \in 1..Len(todo[q]) :
                    OthersOf[q][k] = f /\ ~(q = p /\ k = j) => c > 1
    BY <2>3, SectionUser
  <2>. HIDE DEF b, c
  <2>. QED
    BY <2>1, <2>2, <2>3
<1>. HIDE DEF a, b, c
<1>4. ~(a > 1) /\ ~(b > 1) /\ ~(c > 1) /\ ~(a > 0 /\ b > 0) /\ ~(a > 0 /\ c > 0) /\ ~(b > 0 /\ c > 0)
  BY <1>1
<1>. QED
  BY <1>2, <1>3, <1>4

-----------------------------------------------------------------------------
(* The references to struct files move along.                              *)
FileMove(p, ops, v) ==
    ftable'[v].ref = ftable[v].ref - Is(FileOf(todo[p][1]), v) + Sum5(FileVals(ops), v)
                     - Is(OtherOf(todo[p][1]), v) + Sum5(OtherVals(ops), v)
                     + (Count(Descs, v)' - Count(Descs, v))

LEMMA FileRefsStep ==
    ASSUME Types, FileRefs, NEW p \in Procs, NEW ops, After(p, ops),
           \A v \in Files : FileMove(p, ops, v)
    PROVE  FileRefs'
<1>. SUFFICES ASSUME NEW v \in Files
              PROVE  ftable'[v].ref = Count(Descs, v)' + Count(Ends(FilesOf), v)'
                                      + Count(Ends(OthersOf), v)'
  BY DEF FileRefs, Files
<1>1. /\ MovedEnds(FilesOf, FilesOf', p, FileVals(ops), v) /\ FilesOf[p][1] = FileOf(todo[p][1])
      /\ MovedEnds(OthersOf, OthersOf', p, OtherVals(ops), v) /\ OthersOf[p][1] = OtherOf(todo[p][1])
  BY EndsMoved, SizesAre
<1>2. /\ ftable[v].ref = Count(Descs, v) + Count(Ends(FilesOf), v) + Count(Ends(OthersOf), v)
      /\ Count(Descs, v) \in Int /\ Count(Ends(FilesOf), v) \in Int /\ Count(Ends(OthersOf), v) \in Int
  BY FileCounts
<1>3. Count(Ends(FilesOf), v)' = Count(Ends(FilesOf'), v)
      /\ Count(Ends(OthersOf), v)' = Count(Ends(OthersOf'), v)
  BY DEF Count, Where, Ends
<1>4. Count(Descs, v)' \in Int
  <2>1. DOMAIN Descs' = Procs \X Fds
    BY DEF Descs
  <2>2. IsFiniteSet(Procs \X Fds)
    BY SizesAre, FS_Product
  <2>3. Count(Descs', v) \in Int
    BY <2>1, <2>2, CountFinite
  <2>4. Count(Descs, v)' = Count(Descs', v)
    BY DEF Count, Where
  <2>. QED
    BY <2>3, <2>4
<1>5. /\ Sum5(FileVals(ops), v) \in Int /\ Sum5(OtherVals(ops), v) \in Int
      /\ Is(FileOf(todo[p][1]), v) \in Int /\ Is(OtherOf(todo[p][1]), v) \in Int
  BY IsInt DEF Sum5
<1>6. FileMove(p, ops, v)
  OBVIOUS
<1>. DEFINE A == Count(Ends(FilesOf'), v)
            B == Count(Ends(OthersOf'), v)
            a == Count(Ends(FilesOf), v)
            b == Count(Ends(OthersOf), v)
            d == Count(Descs, v)
            D == Count(Descs, v)'
            e == Is(FileOf(todo[p][1]), v)
            g == Is(OtherOf(todo[p][1]), v)
            m == Sum5(FileVals(ops), v)
            n == Sum5(OtherVals(ops), v)
<1>7. A = a - e + m /\ B = b - g + n
  BY <1>1 DEF MovedEnds
<1>8. ftable[v].ref = d + a + b /\ ftable'[v].ref = ftable[v].ref - e + m - g + n + (D - d)
  BY <1>2, <1>6 DEF FileMove
<1>9. a \in Int /\ b \in Int /\ d \in Int /\ D \in Int /\ e \in Int /\ g \in Int /\ m \in Int /\ n \in Int
  BY <1>2, <1>4, <1>5
<1>. HIDE DEF A, B, a, b, d, D, e, g, m, n
<1>10. ftable'[v].ref = D + A + B
  BY <1>7, <1>8, <1>9
<1>. QED
  BY <1>3, <1>10 DEF A, B, D

(* What stays a file table.                                                *)
FilesTyped ==
    /\ ftable' = [f \in Files |-> ftable'[f]]
    /\ \A f \in Files : DOMAIN ftable'[f] = DOMAIN Closed /\ ftable'[f].end \in {"r", "w"}
    /\ ofile' \in [Procs -> [Fds -> Files \cup {0}]]
    /\ cwd' \in [Procs -> Slots \cup {0}]
    /\ DOMAIN pipes' = Files
    /\ alive' \subseteq Procs
OpenAfter(p, x) ==
    /\ x[1] = "open4" => /\ ftable'[x[2]].ref = 1 /\ ftable'[x[2]].type = "none"
                         /\ \E fd \in Fds : ofile'[p][fd] = x[2]
    /\ x[1] = "pipe1" /\ x[2] # 0 => ftable'[x[2]].ref = 1 /\ ftable'[x[2]].type = "none"
    /\ x[1] = "pipe2" => /\ ftable'[x[2]].ref = 1 /\ ftable'[x[2]].type = "none"
                         /\ ftable'[x[3]].ref = 1 /\ ftable'[x[3]].type = "none"
AliveAt(p) ==
    /\ p \notin alive => /\ todo[p] = << >> /\ cwd[p] = 0
                         /\ \A fd \in Fds : ofile[p][fd] = 0
    /\ p \in alive /\ ~Leaving(p) => cwd[p] \in Slots
ExitingAt(p) ==
    /\ todo[p] # << >> /\ todo[p][Len(todo[p])][1] = "exit2" =>
         \A fd \in Fds : ofile[p][fd] # 0 =>
             \E k \in 1..Len(todo[p]) : todo[p][k] = <<"exit1", fd>>
    /\ \A k \in 1..Len(todo[p]) : todo[p][k][1] = "exit1" =>
         todo[p][Len(todo[p])][1] = "exit2"
OthersStay(p) ==
    \A q \in Procs : q # p => /\ todo'[q] = todo[q] /\ reg'[q] = reg[q]
                              /\ cwd'[q] = cwd[q] /\ ofile'[q] = ofile[q]
                              /\ q \in alive' <=> q \in alive

(* A section of p, or the start of a call.                                 *)
LEMMA CoreMove ==
    ASSUME Core, NEW p \in Procs, IsSeq(todo'[p]), DOMAIN todo' = Procs, RegMove(p), CacheKept,
           FilesTyped, OthersStay(p), SlotRefs', FileRefs', Shape(todo'[p], reg'[p]),
           \A k \in 1..Len(todo'[p]) : todo'[p][k][1] \in LastOps => k = Len(todo'[p]),
           AliveAt(p)', ExitingAt(p)', Contents', PipeEnds',
           \A q \in Procs : \A k \in 1..Len(todo'[q]) : OpenAfter(q, todo'[q][k])
    PROVE  Core'
<1>0. Types /\ Shapes /\ Lasts /\ Alive /\ Exiting
  BY DEF Core
<1>1. Types'
  <2>1. DOMAIN todo' = Procs /\ \A q \in Procs : IsSeq(todo'[q])
    BY <1>0 DEF Types, OthersStay
  <2>2. DOMAIN reg' = Procs /\ \A q \in Procs : DOMAIN reg'[q] = DOMAIN NoRegs
    BY <1>0 DEF Types, RegMove
  <2>3. DOMAIN icache' = Slots /\ \A s \in Slots : {"inum", "ref"} \subseteq DOMAIN icache'[s]
    BY DEF CacheKept
  <2>4. \A q \in Procs : IsSeq(todo[q])'
    BY <2>1 DEF IsSeq
  <2>. QED
    BY <2>1, <2>2, <2>3, <2>4 DEF FilesTyped, Types, Slots, Files, Fds, NoRegs, Closed
<1>2. Shapes'
  <2>1. \A q \in Procs : Shape(todo'[q], reg'[q])
    BY <1>0 DEF OthersStay, Shapes
  <2>2. \A q \in Procs : Shape(todo'[q], reg'[q]) => Shape(todo[q], reg[q])'
    BY DEF Shape, Mains, Needs, Holds, Within, Outside, Walking, Slots, Files, Fds
  <2>. QED
    BY <2>1, <2>2 DEF Shapes
<1>3. Lasts'
  BY <1>0 DEF Lasts, OthersStay, LastOps
<1>4. Alive'
  <2>1. \A q \in Procs : q # p => AliveAt(q)'
    BY <1>0 DEF Alive, AliveAt, OthersStay, Leaving, Fds, Slots
  <2>. QED
    BY <2>1 DEF Alive, AliveAt
<1>5. Exiting'
  <2>1. ASSUME NEW q \in Procs, q # p
        PROVE  ExitingAt(q)'
    <3>1. todo'[q] = todo[q] /\ ofile'[q] = ofile[q]
      BY <2>1 DEF OthersStay
    <3>2. ExitingAt(q)
      BY <1>0 DEF Exiting, ExitingAt
    <3>. QED
      BY <3>1, <3>2 DEF ExitingAt, Fds
  <2>. QED
    BY <2>1 DEF Exiting, ExitingAt
<1>6. Opening'
  <2>. SUFFICES ASSUME NEW q \in Procs, NEW k \in 1..Len(todo'[q])
                PROVE  OpeningBy(q, todo[q][k])'
    BY OpeningIs
  <2>1. OpenAfter(q, todo'[q][k])
    OBVIOUS
  <2>. QED
    BY <2>1 DEF OpeningBy, OpenAfter, New, Fds
<1>. QED
  BY <1>1, <1>2, <1>3, <1>4, <1>5, <1>6 DEF Core

-----------------------------------------------------------------------------
(* How the references change in such a section.                            *)

SlotTurn(p, ops, a, b, c, d, v) ==
    Sum5(SlotVals(ops), v) + Taken(reg'[p], v) + Is(b, v) + Is(d, v)
        = Is(SlotOf(todo[p][1]), v) + Taken(reg[p], v) + Is(a, v) + Is(c, v)

LEMMA SlotRefsTurn ==
    ASSUME Core, NEW p \in Procs, NEW ops, After(p, ops), RegMove(p), UNCHANGED icache,
           \A q \in Procs : q # p => cwd'[q] = cwd[q],
           NEW f \in Files, \A g \in Files : g # f => ftable'[g].ip = ftable[g].ip,
           NEW a, NEW b, a = (IF Leaving(p) THEN 0 ELSE cwd[p]),
           b = (IF Leaving(p)' THEN 0 ELSE cwd'[p]),
           \A v \in Slots : SlotTurn(p, ops, a, b, ftable[f].ip, ftable'[f].ip, v)
    PROVE  SlotRefs'
<1>0. Types /\ SlotRefs
  BY DEF Core
<1>1. Same(Dirs, Dirs', {p}) /\ Dirs[p] = a /\ Dirs'[p] = b
  <2>1. DOMAIN Dirs = Procs /\ DOMAIN Dirs' = Procs /\ Dirs[p] = a /\ Dirs'[p] = b
    BY DEF Dirs
  <2>2. \A q \in Procs : q # p => Dirs'[q] = Dirs[q]
    BY DEF Dirs, Leaving, After
  <2>. QED
    BY <2>1, <2>2 DEF Same
<1>2. Same(Opened, Opened', {f}) /\ Opened[f] = ftable[f].ip /\ Opened'[f] = ftable'[f].ip
  BY DEF Same, Opened
<1>3. \A v \in Slots : RefMove(p, ops, v)
  <2>. TAKE v \in Slots
  <2>. DEFINE A == Count(Dirs, v)
              B == Count(Opened, v)
              C == Count(Dirs, v)'
              D == Count(Opened, v)'
              c == ftable[f].ip
              d == ftable'[f].ip
              h == Is(SlotOf(todo[p][1]), v)
              m == Sum5(SlotVals(ops), v)
              t == Taken(reg[p], v)
              u == Taken(reg'[p], v)
              r == icache[v].ref
  <2>1. Moved(Dirs, Dirs', p, v) /\ Finite(Dirs', v)
    BY <1>1, HoldersFinite, CountOne
  <2>2. Moved(Opened, Opened', f, v) /\ Finite(Opened', v)
    BY <1>2, HoldersFinite, CountOne
  <2>3. C = Count(Dirs', v) /\ D = Count(Opened', v)
    BY DEF Count, Where
  <2>4. A \in Int /\ B \in Int /\ C \in Int /\ D \in Int
    BY <2>1, <2>2, <2>3, HoldersFinite, CountNat
  <2>5. C = A - Is(a, v) + Is(b, v)
    BY <1>1, <2>1, <2>3 DEF Moved
  <2>6. D = B - Is(c, v) + Is(d, v)
    BY <1>2, <2>2, <2>3 DEF Moved
  <2>7. m + u + Is(b, v) + Is(d, v) = h + t + Is(a, v) + Is(c, v)
    <3>1. SlotTurn(p, ops, a, b, ftable[f].ip, ftable'[f].ip, v)
      OBVIOUS
    <3>. QED
      BY <3>1 DEF SlotTurn
  <2>8. h \in Int /\ m \in Int /\ t \in Int /\ u \in Int
    BY IsInt DEF Taken, Sum5
  <2>9. Is(a, v) \in Int /\ Is(b, v) \in Int /\ Is(c, v) \in Int /\ Is(d, v) \in Int /\ r \in Int
    BY <1>0, IsInt, RefPositive
  <2>10. icache'[v].ref = r
    OBVIOUS
  <2>. DEFINE ia == Is(a, v)
              ib == Is(b, v)
              ic == Is(c, v)
              id == Is(d, v)
              x == C - A
              y == D - B
  <2>. HIDE DEF A, B, C, D, c, d, h, m, t, u, r, ia, ib, ic, id
  <2>12. x = ib - ia /\ y = id - ic /\ m + u + ib + id = h + t + ia + ic
         /\ ia \in Int /\ ib \in Int /\ ic \in Int /\ id \in Int /\ x \in Int /\ y \in Int
    BY <2>4, <2>5, <2>6, <2>7, <2>9 DEF ia, ib, ic, id
  <2>. HIDE DEF x, y
  <2>13. r = r - h + m - t + u + x + y
    BY <2>8, <2>9, <2>12
  <2>11. r = r - h + m - t + u + (C - A) + (D - B)
    BY <2>13 DEF x, y
  <2>. QED
    BY <2>10, <2>11 DEF RefMove, A, B, C, D, c, d, h, m, t, u, r
<1>. QED
  BY <1>0, <1>3, SlotRefsStep

FileTurn(p, ops, a, b, v) ==
    ftable'[v].ref + Is(FileOf(todo[p][1]), v) + Is(OtherOf(todo[p][1]), v) + Is(a, v)
        = ftable[v].ref + Sum5(FileVals(ops), v) + Sum5(OtherVals(ops), v) + Is(b, v)

LEMMA FileRefsTurn ==
    ASSUME Core, NEW p \in Procs, NEW ops, After(p, ops), NEW fd \in Fds,
           \A q \in Procs : \A fe \in Fds : ~(q = p /\ fe = fd) => ofile'[q][fe] = ofile[q][fe],
           NEW a, NEW b, a = ofile[p][fd], b = ofile'[p][fd],
           \A v \in Files : ftable'[v].ref \in Int /\ FileTurn(p, ops, a, b, v)
    PROVE  FileRefs'
<1>0. Types /\ FileRefs
  BY DEF Core
<1>. DEFINE x == <<p, fd>>
<1>1. Same(Descs, Descs', {x}) /\ Descs[x] = a /\ Descs'[x] = b
  <2>1. DOMAIN Descs = Procs \X Fds /\ DOMAIN Descs' = Procs \X Fds /\ x \in Procs \X Fds
    BY DEF Descs, Fds
  <2>2. \A q \in Procs : \A fe \in Fds : Descs[<<q, fe>>] = ofile[q][fe]
                                         /\ Descs'[<<q, fe>>] = ofile'[q][fe]
    BY DEF Descs, Fds
  <2>3. \A y \in Procs \X Fds : y # x => Descs'[y] = Descs[y]
    <3>. SUFFICES ASSUME NEW q \in Procs, NEW fe \in Fds, <<q, fe>> # x
                  PROVE  Descs'[<<q, fe>>] = Descs[<<q, fe>>]
      OBVIOUS
    <3>1. ~(q = p /\ fe = fd)
      OBVIOUS
    <3>. QED
      BY <2>2, <3>1
  <2>. QED
    BY <2>1, <2>2, <2>3 DEF Same
<1>. HIDE DEF x
<1>2. \A v \in Files : FileMove(p, ops, v)
  <2>. TAKE v \in Files
  <2>. DEFINE A == Count(Descs, v)
              C == Count(Descs, v)'
              g == Is(FileOf(todo[p][1]), v)
              h == Is(OtherOf(todo[p][1]), v)
              m == Sum5(FileVals(ops), v)
              n == Sum5(OtherVals(ops), v)
              r == ftable[v].ref
              s == ftable'[v].ref
  <2>1. Moved(Descs, Descs', x, v) /\ Finite(Descs', v)
    BY <1>1, HoldersFinite, CountOne
  <2>2. C = Count(Descs', v)
    BY DEF Count, Where
  <2>3. A \in Int /\ C \in Int
    BY <2>1, <2>2, HoldersFinite, CountNat
  <2>4. C = A - Is(a, v) + Is(b, v)
    BY <1>1, <2>1, <2>2 DEF Moved
  <2>5. s + g + h + Is(a, v) = r + m + n + Is(b, v)
    <3>1. FileTurn(p, ops, a, b, v)
      OBVIOUS
    <3>. QED
      BY <3>1 DEF FileTurn
  <2>6. g \in Int /\ h \in Int /\ m \in Int /\ n \in Int /\ Is(a, v) \in Int /\ Is(b, v) \in Int
    BY IsInt DEF Sum5
  <2>7. r \in Int /\ s \in Int
    BY <1>0, FileCounts
  <2>. HIDE DEF A, C, g, h, m, n, r, s
  <2>8. s = r - g + m - h + n + (C - A)
    BY <2>3, <2>4, <2>5, <2>6, <2>7
  <2>. QED
    BY <2>8 DEF FileMove, A, C, g, h, m, n, r, s
<1>. QED
  BY <1>0, <1>2, FileRefsStep

LEMMA SumTwo ==
    ASSUME NEW m, NEW v, v # 0, m[3] = 0, m[4] = 0, m[5] = 0
    PROVE  Sum5(m, v) = Is(m[1], v) + Is(m[2], v)
  BY IsInt DEF Sum5, Is

LEMMA NoFiles ==
    ASSUME NEW ops, Few(ops), NEW v \in Files, \A k \in 1..Len(ops) : FileOf(ops[k]) = 0
    PROVE  Sum5(FileVals(ops), v) = 0
<1>1. \A k \in 1..5 : FileVals(ops)[k] = 0
  <2>. TAKE k \in 1..5
  <2>1. k <= Len(ops) => k \in 1..Len(ops)
    BY DEF Few
  <2>. QED
    BY <2>1 DEF FileVals
<1>. QED
  BY <1>1, SizesAre DEF Sum5, Is

LEMMA NoOthers ==
    ASSUME NEW ops, Few(ops), NEW v \in Files, \A k \in 1..Len(ops) : OtherOf(ops[k]) = 0
    PROVE  Sum5(OtherVals(ops), v) = 0
<1>1. \A k \in 1..5 : OtherVals(ops)[k] = 0
  <2>. TAKE k \in 1..5
  <2>1. k <= Len(ops) => k \in 1..Len(ops)
    BY DEF Few
  <2>. QED
    BY <2>1 DEF OtherVals
<1>. QED
  BY <1>1, SizesAre DEF Sum5, Is

(* The first section, or the first two, have files.                        *)
LEMMA FirstFile ==
    ASSUME NEW ops, Few(ops), Len(ops) > 0, NEW v \in Files,
           \A k \in 1..Len(ops) : k # 1 => FileOf(ops[k]) = 0
    PROVE  Sum5(FileVals(ops), v) = Is(FileOf(ops[1]), v)
<1>1. FileVals(ops)[1] = FileOf(ops[1])
  BY DEF FileVals, Few
<1>2. \A k \in 2..5 : FileVals(ops)[k] = 0
  <2>. TAKE k \in 2..5
  <2>1. k \in 1..5 /\ k # 1 /\ (k <= Len(ops) => k \in 1..Len(ops))
    BY DEF Few
  <2>. QED
    BY <2>1 DEF FileVals
<1>. QED
  BY <1>1, <1>2, SizesAre, IsInt DEF Sum5, Is

-----------------------------------------------------------------------------
(* The last sections of a call, and those of pipe() and exit().            *)
TailOps == {"fclose", "pipe1", "pipe2", "exit1", "exit2", "open4", "chdir3"}

LEMMA TailAt ==
    ASSUME Core, NEW p \in Procs, NEW op \in TailOps, At(p, op)
    PROVE  /\ Types /\ todo[p] # << >> /\ IsSeq(todo[p]) /\ todo[p][1][1] = op
           /\ Arg(p, 1) = todo[p][1][2] /\ Arg(p, 2) = todo[p][1][3]
           /\ Mains(todo[p]) = 0 /\ NoInodes(reg[p]) /\ Outside(todo[p][1])
           /\ op \in LastOps => Len(todo[p]) = 1
           /\ p \in alive /\ (~Leaving(p) => cwd[p] \in Slots)
           /\ op \notin MainOps
<1>0. Types /\ Shape(todo[p], reg[p]) /\ Lasts /\ Alive
  BY DEF Core, Shapes
<1>1. /\ todo[p] # << >> /\ IsSeq(todo[p]) /\ Len(todo[p]) \in Nat \ {0} /\ todo[p][1][1] = op
      /\ Arg(p, 1) = todo[p][1][2] /\ Arg(p, 2) = todo[p][1][3]
  BY <1>0, AtFacts
<1>2. op \notin MainOps
  BY DEF TailOps, MainOps, CreateOps, UsesR, UsesIp, UsesDp
<1>3. ~Within(todo[p][1])
  BY <1>1 DEF TailOps, Within, InodeOps
<1>4. Mains(todo[p]) = 0
  <2>1. Mains(todo[p]) \in 0..2
    BY <1>1, MainsIs
  <2>2. ~(Mains(todo[p]) > 0)
    BY <1>0, <1>1, <1>2, <1>3, HeadInner
  <2>. QED
    BY <2>1, <2>2
<1>5. NoInodes(reg[p]) /\ Outside(todo[p][1])
  BY <1>0, <1>1, <1>2, <1>4, HeadInner
<1>6. op \in LastOps => Len(todo[p]) = 1
  <2>1. 1 \in 1..Len(todo[p])
    BY <1>1
  <2>. QED
    BY <1>0, <1>1, <2>1 DEF Lasts
<1>7. p \in alive /\ (~Leaving(p) => cwd[p] \in Slots)
  BY <1>0, <1>1 DEF Alive
<1>. QED
  BY <1>0, <1>1, <1>2, <1>4, <1>5, <1>6, <1>7

LEMMA TailShape ==
    ASSUME Core, NEW p \in Procs, NEW op \in TailOps, At(p, op), NEW ops, After(p, ops),
           \A k \in 1..Len(ops) : Outside(ops[k]), UNCHANGED reg
    PROVE  /\ Shape(todo'[p], reg'[p]) /\ RegMove(p)
           /\ \A v \in Slots : Taken(reg[p], v) = 0 /\ Taken(reg'[p], v) = 0
<1>1. /\ Types /\ Shape(todo[p], reg[p]) /\ todo[p][1][1] \notin MainOps /\ Mains(todo[p]) = 0
      /\ NoInodes(reg'[p]) /\ NoInodes(reg[p])
  BY TailAt DEF Core, Shapes
<1>2. \A k \in 1..Len(ops) : ops[k][1] \notin WalkOps
  BY OpsApart
<1>3. ~(Mains(todo[p]) > 0)
  BY <1>1
<1>4. Shape(todo'[p], reg'[p])
  BY <1>1, <1>2, <1>3, PushInner
<1>5. RegMove(p)
  BY <1>1, RegSame
<1>6. \A v \in Slots : Taken(reg[p], v) = 0 /\ Taken(reg'[p], v) = 0
  BY <1>1, SizesAre DEF Taken, NoInodes, Is
<1>. QED
  BY <1>4, <1>5, <1>6

LEMMA LastsAlong ==
    ASSUME Core, NEW p \in Procs, NEW ops, After(p, ops),
           \A k \in 1..Len(ops) : ops[k][1] \in LastOps => k = Len(ops) /\ Len(todo[p]) = 1
    PROVE  \A k \in 1..Len(todo'[p]) : todo'[p][k][1] \in LastOps => k = Len(todo'[p])
<1>. SUFFICES ASSUME NEW k \in 1..Len(todo'[p]), todo'[p][k][1] \in LastOps
              PROVE  k = Len(todo'[p])
  OBVIOUS
<1>1. CASE k \in 1..Len(ops) /\ todo'[p][k] = ops[k]
  BY <1>1, Along
<1>2. ASSUME NEW j \in 2..Len(todo[p]), todo[p][j] = todo'[p][k],
             j = Len(todo[p]) <=> k = Len(todo'[p])
      PROVE  k = Len(todo'[p])
  <2>1. j \in 1..Len(todo[p])
    OBVIOUS
  <2>. QED
    BY <1>2, <2>1 DEF Core, Lasts
<1>. QED
  BY <1>1, <1>2, Along

LEMMA OpenAlong ==
    ASSUME Core, NEW p \in Procs, NEW ops, After(p, ops),
           \A k \in 1..Len(ops) : OpenAfter(p, ops[k]),
           \A q \in Procs : \A j \in 1..Len(todo[q]) :
               ~(q = p /\ j = 1) /\ OpeningBy(q, todo[q][j]) => OpenAfter(q, todo[q][j])
    PROVE  \A q \in Procs : \A k \in 1..Len(todo'[q]) : OpenAfter(q, todo'[q][k])
<1>0. \A q \in Procs : \A j \in 1..Len(todo[q]) : OpeningBy(q, todo[q][j])
  BY OpeningIs DEF Core
<1>. SUFFICES ASSUME NEW q \in Procs, NEW k \in 1..Len(todo'[q])
              PROVE  OpenAfter(q, todo'[q][k])
  OBVIOUS
<1>1. CASE q # p
  BY <1>0, <1>1 DEF After
<1>2. CASE q = p
  <2>1. CASE k \in 1..Len(ops) /\ todo'[p][k] = ops[k]
    BY <1>2, <2>1
  <2>2. ASSUME NEW j \in 2..Len(todo[p]), todo[p][j] = todo'[p][k]
        PROVE  OpenAfter(q, todo'[q][k])
    <3>1. j \in 1..Len(todo[p]) /\ j # 1
      OBVIOUS
    <3>2. OpeningBy(p, todo[p][j])
      BY <1>0, <3>1
    <3>3. OpenAfter(p, todo[p][j])
      BY <3>1, <3>2
    <3>. QED
      BY <1>2, <2>2, <3>3
  <2>. QED
    BY <1>2, <2>1, <2>2, Along
<1>. QED
  BY <1>1, <1>2

LEMMA ExitingAlong ==
    ASSUME Core, NEW p \in Procs, NEW ops, After(p, ops),
           \A k \in 1..Len(ops) : ops[k][1] \notin {"exit1", "exit2"},
           todo[p][1][1] \notin {"exit1", "exit2"},
           Len(todo[p]) = 1 \/ ofile'[p] = ofile[p]
    PROVE  ExitingAt(p)'
<1>0. ExitingAt(p)
  BY DEF Core, Exiting, ExitingAt
<1>1. CASE Len(todo[p]) = 1
  <2>1. \A k \in 1..Len(todo'[p]) : todo'[p][k][1] \notin {"exit1", "exit2"}
    BY <1>1, Along
  <2>2. todo'[p] # << >> => Len(todo'[p]) \in 1..Len(todo'[p])
    <3>1. Len(todo'[p]) \in Nat /\ (todo'[p] = << >> <=> Len(todo'[p]) = 0)
      BY SeqFacts DEF After
    <3>. QED
      BY <3>1
  <2>. QED
    BY <2>1, <2>2 DEF ExitingAt
<1>2. CASE Len(todo[p]) # 1
  <2>1. todo'[p] # << >> /\ todo'[p][Len(todo'[p])] = todo[p][Len(todo[p])] /\ ofile'[p] = ofile[p]
    BY <1>2, Along
  <2>2. todo[p] # << >>
    BY DEF After
  <2>3. ASSUME todo'[p][Len(todo'[p])][1] = "exit2", NEW fd \in Fds, ofile'[p][fd] # 0
        PROVE  \E k \in 1..Len(todo'[p]) : todo'[p][k] = <<"exit1", fd>>
    <3>1. PICK j \in 1..Len(todo[p]) : todo[p][j] = <<"exit1", fd>>
      BY <1>0, <2>1, <2>2, <2>3 DEF ExitingAt
    <3>2. todo[p][j][1] = "exit1"
      BY <3>1
    <3>3. j \in 2..Len(todo[p])
      BY <3>2, Along
    <3>4. PICK k \in 1..Len(todo'[p]) : todo'[p][k] = todo[p][j]
      BY <3>3, Along
    <3>. QED
      BY <3>1, <3>4
  <2>4. ASSUME NEW k \in 1..Len(todo'[p]), todo'[p][k][1] = "exit1"
        PROVE  todo'[p][Len(todo'[p])][1] = "exit2"
    <3>1. PICK j \in 2..Len(todo[p]) : todo[p][j] = todo'[p][k]
      BY <2>4, Along
    <3>2. j \in 1..Len(todo[p])
      BY <3>1
    <3>. QED
      BY <1>0, <2>1, <2>4, <3>1, <3>2 DEF ExitingAt
  <2>. QED
    BY <2>3, <2>4 DEF ExitingAt, Fds
<1>. QED
  BY <1>1, <1>2

LEMMA LeavingAlong ==
    ASSUME Core, NEW p \in Procs, NEW ops, After(p, ops),
           \A k \in 1..Len(ops) : ops[k][1] \notin {"chdir3", "exit2"},
           todo[p][1][1] \notin {"chdir3", "exit2"}
    PROVE  Leaving(p)' <=> Leaving(p)
<1>0. todo[p] # << >>
  BY DEF After
<1>1. CASE Len(todo[p]) = 1
  <2>1. todo'[p] # << >> => Len(todo'[p]) \in 1..Len(todo'[p])
    <3>1. Len(todo'[p]) \in Nat /\ (todo'[p] = << >> <=> Len(todo'[p]) = 0)
      BY SeqFacts DEF After
    <3>. QED
      BY <3>1
  <2>. QED
    BY <1>0, <1>1, <2>1, Along DEF Leaving
<1>2. CASE Len(todo[p]) # 1
  BY <1>0, <1>2, Along DEF Leaving
<1>. QED
  BY <1>1, <1>2

LEMMA ContentsStay ==
    ASSUME Core, CacheKept, UNCHANGED <<ftable, pipes>>
    PROVE  Contents' /\ PipeEnds'
<1>0. Types /\ SlotRefs /\ Contents /\ PipeEnds
  BY DEF Core
<1>1. \A f \in Files : ftable[f].type = "inode" => icache'[ftable[f].ip].inum = ftable[f].inum
  BY <1>0, RefPositive DEF Contents, CacheKept
<1>2. Contents'
  BY <1>0, <1>1 DEF Contents, Files, Slots, Closed
<1>. QED
  BY <1>0, <1>2 DEF PipeEnds, Files

(* Nothing becomes of the sections that open files.                        *)
LEMMA OpeningKept ==
    ASSUME NEW p \in Procs, UNCHANGED <<ftable, ofile>>
    PROVE  \A q \in Procs : \A x : OpeningBy(q, x) => OpenAfter(q, x)
  BY DEF OpeningBy, OpenAfter, New

LEMMA FreeOfFiles ==
    \A x : x[1] \notin {"fclose", "pipe1", "pipe2"} => FileOf(x) = 0 /\ OtherOf(x) = 0
  BY DEF FileOf, OtherOf

(* No struct file is opened or closed, and no descriptor changes.          *)
LEMMA NoFileTurn ==
    ASSUME Core, NEW p \in Procs, NEW ops, After(p, ops), UNCHANGED ofile,
           todo[p][1][1] \notin {"fclose", "pipe1", "pipe2"},
           \A k \in 1..Len(ops) : ops[k][1] \notin {"fclose", "pipe1", "pipe2"},
           \A v \in Files : ftable'[v].ref = ftable[v].ref
    PROVE  FileRefs'
<1>1. FileOf(todo[p][1]) = 0 /\ OtherOf(todo[p][1]) = 0 /\ Few(ops)
  BY FreeOfFiles DEF After, Few
<1>2. PICK fd \in Fds : TRUE
  <2>1. 1 \in 1..NOFILE
    BY SizesAre
  <2>. QED
    BY <2>1 DEF Fds
<1>. DEFINE a == ofile[p][fd]
<1>3. a = ofile[p][fd] /\ a = ofile'[p][fd]
  OBVIOUS
<1>. HIDE DEF a
<1>4. \A v \in Files : ftable'[v].ref \in Int /\ FileTurn(p, ops, a, a, v)
  <2>. TAKE v \in Files
  <2>1. Sum5(FileVals(ops), v) = 0
    BY <1>1, FreeOfFiles, NoFiles
  <2>2. Sum5(OtherVals(ops), v) = 0
    BY <1>1, FreeOfFiles, NoOthers
  <2>3. Is(0, v) = 0 /\ ftable[v].ref \in Int /\ Is(a, v) \in Int
    BY FileCounts, IsInt DEF Is, Core
  <2>. QED
    BY <1>1, <2>1, <2>2, <2>3 DEF FileTurn
<1>. QED
  BY <1>3, <1>4, FileRefsTurn

-----------------------------------------------------------------------------
(* The struct files that a section is about to fill in.                    *)
Concerns(x, g) ==
    \/ x[1] # "fclose" /\ FileOf(x) = g
    \/ OtherOf(x) = g
    \/ x[1] = "open4" /\ x[2] = g

LEMMA TailFits ==
    ASSUME Core, NEW q \in Procs, NEW j \in 1..Len(todo[q]), todo[q][j][1] \in TailOps
    PROVE  Outside(todo[q][j])
<1>. DEFINE t == todo[q]
            n == Mains(t)
            L == Len(t)
<1>0. IsSeq(t) /\ Shape(t, reg[q]) /\ L \in Nat
  BY SeqFacts DEF Core, Types, Shapes
<1>1. \A x \in TailOps : x \notin MainOps
  BY DEF TailOps, MainOps, CreateOps, UsesR, UsesIp, UsesDp
<1>2. \A x : x[1] \in TailOps => ~Within(x)
  BY DEF TailOps, Within, InodeOps
<1>3. n \in 0..2 /\ n <= L
  BY <1>0, MainsIs
<1>4. CASE n = 0
  BY <1>0, <1>4 DEF Shape
<1>5. CASE n > 0
  <2>1. t[L][1] \in MainOps /\ (n = 2 => t[L - 1][1] \in MainOps)
    BY <1>0, <1>5, MainsIs, OpsApart
  <2>2. \A k \in 1..(L - n) : Within(t[k])
    BY <1>0, <1>5 DEF Shape
  <2>3. t[j][1] \in TailOps
    OBVIOUS
  <2>. HIDE DEF t, n, L
  <2>4. j \in 1..L
    BY DEF L, t
  <2>5. j \in 1..(L - n) \/ j = L \/ (n = 2 /\ j = L - 1)
    BY <1>0, <1>3, <1>5, <2>4
  <2>. QED
    BY <1>1, <1>2, <2>1, <2>2, <2>3, <2>5
<1>. QED
  BY <1>3, <1>4, <1>5

LEMMA ConcernsNew ==
    ASSUME Core, NEW q \in Procs, NEW j \in 1..Len(todo[q]), NEW g \in Files,
           Concerns(todo[q][j], g)
    PROVE  /\ New(g)
           /\ FileOf(todo[q][j]) = g \/ OtherOf(todo[q][j]) = g
              \/ \E fd \in Fds : ofile[q][fd] = g
<1>1. OpeningBy(q, todo[q][j])
  BY OpeningIs DEF Core
<1>2. g # 0
  BY SizesAre
<1>. QED
  BY <1>1, <1>2 DEF Concerns, OpeningBy, FileOf, OtherOf

(* The section at the head has the only reference.                         *)
LEMMA OnlyHead ==
    ASSUME Core, NEW p \in Procs, todo[p] # << >>, NEW f \in Files, ftable[f].ref = 1,
           FileOf(todo[p][1]) = f \/ OtherOf(todo[p][1]) = f
    PROVE  \A q \in Procs : \A j \in 1..Len(todo[q]) :
               ~(q = p /\ j = 1) => ~Concerns(todo[q][j], f)
<1>1. Types /\ FileRefs /\ 1 \in 1..Len(todo[p])
  <2>1. IsSeq(todo[p])
    BY DEF Core, Types
  <2>2. Len(todo[p]) \in Nat /\ Len(todo[p]) > 0
    BY <2>1, SeqFacts
  <2>. QED
    BY <2>2 DEF Core
<1>. SUFFICES ASSUME NEW q \in Procs, NEW j \in 1..Len(todo[q]), ~(q = p /\ j = 1),
                     Concerns(todo[q][j], f)
              PROVE  FALSE
  OBVIOUS
<1>2. FileOf(todo[q][j]) = f \/ OtherOf(todo[q][j]) = f \/ \E fd \in Fds : ofile[q][fd] = f
  BY ConcernsNew
<1>3. CASE FileOf(todo[q][j]) = f
  BY <1>1, <1>3, OneUser
<1>4. CASE OtherOf(todo[q][j]) = f
  BY <1>1, <1>4, OneUser
<1>5. CASE \E fd \in Fds : ofile[q][fd] = f
  BY <1>1, <1>5, OneUser
<1>. QED
  BY <1>2, <1>3, <1>4, <1>5

LEMMA OpeningApart ==
    ASSUME Core, NEW T, NEW q \in Procs, NEW j \in 1..Len(todo[q]),
           \A g \in Files \ T : ftable'[g].ref = ftable[g].ref /\ ftable'[g].type = ftable[g].type,
           \A g \in Files \ T : \A fd \in Fds : ofile[q][fd] = g => ofile'[q][fd] = g,
           \A g \in T : ~Concerns(todo[q][j], g)
    PROVE  OpenAfter(q, todo[q][j])
<1>. DEFINE x == todo[q][j]
<1>1. OpeningBy(q, x)
  BY OpeningIs DEF Core
<1>2. x[1] \in {"open4", "pipe1", "pipe2"} => Outside(x)
  BY TailFits DEF TailOps
<1>3. x[1] = "open4" => x[2] \in Files \ T
  BY <1>2 DEF Outside, InodeOps, Concerns
<1>4. x[1] = "pipe1" /\ x[2] # 0 => x[2] \in Files \ T
  BY <1>2 DEF Outside, InodeOps, Concerns, FileOf
<1>5. x[1] = "pipe2" => x[2] \in Files \ T /\ x[3] \in Files \ T
  BY <1>2 DEF Outside, InodeOps, Concerns, FileOf, OtherOf
<1>. HIDE DEF x
<1>6. OpenAfter(q, x)
  BY <1>1, <1>3, <1>4, <1>5 DEF OpenAfter, OpeningBy, New
<1>. QED
  BY <1>6 DEF x

-----------------------------------------------------------------------------
LEMMA NothingNext ==
    ASSUME Types, NEW p \in Procs, todo[p] # << >>, Len(todo[p]) = 1, Then(p, << >>)
    PROVE  After(p, << >>) /\ todo'[p] = << >> /\ ~Leaving(p)'
<1>1. After(p, << >>)
  BY Ops0, ThenAfter DEF Few
<1>2. Len(todo'[p]) = 0
  BY <1>1, Ops0, Along
<1>3. todo'[p] = << >>
  BY <1>1, <1>2, SeqFacts DEF After
<1>. QED
  BY <1>1, <1>3 DEF Leaving

(* chdir(): the new directory, after the old one has been put.             *)
LEMMA Chdir3Keeps ==
    ASSUME Core, NEW p \in Procs, Chdir3(p)
    PROVE  Core'
<1>0. At(p, "chdir3") /\ "chdir3" \in TailOps /\ "chdir3" \in LastOps
  BY DEF Chdir3, TailOps, LastOps
<1>1. /\ Types /\ SlotRefs /\ todo[p] # << >> /\ todo[p][1][1] = "chdir3" /\ Len(todo[p]) = 1
      /\ Outside(todo[p][1]) /\ Arg(p, 1) = todo[p][1][2] /\ p \in alive
  BY <1>0, TailAt DEF Core
<1>. DEFINE s == todo[p][1][2]
            ops == << >>
<1>2. s \in Slots /\ SlotOf(todo[p][1]) = s
  BY <1>1 DEF Outside, InodeOps, SlotOf
<1>3. After(p, ops) /\ todo'[p] = << >> /\ ~Leaving(p)'
  BY <1>1, NothingNext DEF Chdir3
<1>4. Few(ops) /\ Len(ops) = 0
  BY Ops0
<1>5. /\ UNCHANGED <<icache, reg, ftable, ofile, alive, pipes>> /\ cwd' = [cwd EXCEPT ![p] = s]
  BY <1>1 DEF Chdir3, fileVars
<1>6. cwd'[p] = s /\ \A q \in Procs : q # p => cwd'[q] = cwd[q]
  BY <1>1, <1>5 DEF Types
<1>. HIDE DEF ops, s
<1>7. /\ Shape(todo'[p], reg'[p]) /\ RegMove(p)
      /\ \A v \in Slots : Taken(reg[p], v) = 0 /\ Taken(reg'[p], v) = 0
  <2>1. \A k \in 1..Len(ops) : Outside(ops[k])
    BY <1>4
  <2>. QED
    BY <1>0, <1>3, <1>5, <2>1, TailShape
<1>8. CacheKept
  BY <1>1, <1>5, CacheUnchanged DEF CacheMoves
<1>9. FilesTyped
  BY <1>1, <1>2, <1>5 DEF Types, FilesTyped
<1>10. SlotRefs'
  <2>1. 1 \in Files /\ Leaving(p)
    BY <1>1, SizesAre DEF Files, Leaving
  <2>2. \A v \in Slots : SlotTurn(p, ops, 0, s, ftable[1].ip, ftable'[1].ip, v)
    <3>. TAKE v \in Slots
    <3>1. Sum5(SlotVals(ops), v) = 0
      BY SizesAre, Ops0 DEF ops
    <3>2. Is(0, v) = 0 /\ Is(s, v) \in Int /\ Is(ftable[1].ip, v) \in Int
      BY SizesAre, IsInt DEF Is
    <3>. QED
      BY <1>2, <1>5, <1>7, <3>1, <3>2 DEF SlotTurn
  <2>. QED
    BY <1>3, <1>5, <1>6, <1>7, <2>1, <2>2, SlotRefsTurn
<1>11. FileRefs'
  BY <1>1, <1>3, <1>4, <1>5, NoFileTurn
<1>12. AliveAt(p)'
  BY <1>1, <1>2, <1>3, <1>5, <1>6 DEF AliveAt, Slots
<1>13. ExitingAt(p)'
  <2>1. \A k \in 1..Len(ops) : ops[k][1] \notin {"exit1", "exit2"}
    BY <1>4
  <2>2. todo[p][1][1] \notin {"exit1", "exit2"} /\ (Len(todo[p]) = 1 \/ ofile'[p] = ofile[p])
    BY <1>1
  <2>. QED
    BY <1>3, <2>1, <2>2, ExitingAlong
<1>14. \A q \in Procs : \A k \in 1..Len(todo'[q]) : OpenAfter(q, todo'[q][k])
  BY <1>3, <1>4, <1>5, OpeningKept, OpenAlong
<1>15. Contents' /\ PipeEnds'
  BY <1>5, <1>8, ContentsStay
<1>16. \A k \in 1..Len(todo'[p]) : todo'[p][k][1] \in LastOps => k = Len(todo'[p])
  BY <1>3, <1>4, LastsAlong
<1>17. OthersStay(p) /\ IsSeq(todo'[p]) /\ DOMAIN todo' = Procs
  BY <1>3, <1>5, <1>6 DEF OthersStay, After
<1>. QED
  BY <1>7, <1>8, <1>9, <1>10, <1>11, <1>12, <1>13, <1>14, <1>15, <1>16, <1>17, CoreMove

(* exit(): the process is gone; exit1 has closed every descriptor.         *)
LEMMA Exit2Keeps ==
    ASSUME Core, NEW p \in Procs, Exit2(p)
    PROVE  Core'
<1>0. At(p, "exit2") /\ "exit2" \in TailOps /\ "exit2" \in LastOps
  BY DEF Exit2, TailOps, LastOps
<1>1. /\ Types /\ SlotRefs /\ todo[p] # << >> /\ todo[p][1][1] = "exit2" /\ Len(todo[p]) = 1
      /\ p \in alive
  BY <1>0, TailAt DEF Core
<1>. DEFINE ops == << >>
<1>2. \A fd \in Fds : ofile[p][fd] = 0
  <2>. SUFFICES ASSUME NEW fd \in Fds, ofile[p][fd] # 0
                PROVE  FALSE
    OBVIOUS
  <2>1. PICK k \in 1..Len(todo[p]) : todo[p][k] = <<"exit1", fd>>
    BY <1>1 DEF Core, Exiting
  <2>2. k = 1 /\ todo[p][k][1] = "exit1"
    BY <1>1, <2>1
  <2>. QED
    BY <1>1, <2>2
<1>3. After(p, ops) /\ todo'[p] = << >> /\ ~Leaving(p)'
  BY <1>1, NothingNext DEF Exit2
<1>4. Few(ops) /\ Len(ops) = 0
  BY Ops0
<1>5. /\ UNCHANGED <<icache, reg, ftable, ofile, pipes>> /\ cwd' = [cwd EXCEPT ![p] = 0]
      /\ alive' = alive \ {p}
  BY <1>1 DEF Exit2
<1>6. cwd'[p] = 0 /\ \A q \in Procs : q # p => cwd'[q] = cwd[q]
  BY <1>1, <1>5 DEF Types
<1>. HIDE DEF ops
<1>7. /\ Shape(todo'[p], reg'[p]) /\ RegMove(p)
      /\ \A v \in Slots : Taken(reg[p], v) = 0 /\ Taken(reg'[p], v) = 0
  <2>1. \A k \in 1..Len(ops) : Outside(ops[k])
    BY <1>4
  <2>. QED
    BY <1>0, <1>3, <1>5, <2>1, TailShape
<1>8. CacheKept
  BY <1>1, <1>5, CacheUnchanged DEF CacheMoves
<1>9. FilesTyped
  BY <1>1, <1>5 DEF Types, FilesTyped
<1>10. SlotRefs'
  <2>1. 1 \in Files /\ Leaving(p)
    BY <1>1, SizesAre DEF Files, Leaving
  <2>2. \A v \in Slots : SlotTurn(p, ops, 0, 0, ftable[1].ip, ftable'[1].ip, v)
    <3>. TAKE v \in Slots
    <3>1. Sum5(SlotVals(ops), v) = 0
      BY SizesAre, Ops0 DEF ops
    <3>2. Is(0, v) = 0 /\ Is(ftable[1].ip, v) \in Int
      BY SizesAre, IsInt DEF Is
    <3>3. SlotOf(todo[p][1]) = 0
      BY <1>1 DEF SlotOf
    <3>. QED
      BY <1>5, <1>7, <3>1, <3>2, <3>3 DEF SlotTurn
  <2>. QED
    BY <1>3, <1>5, <1>6, <1>7, <2>1, <2>2, SlotRefsTurn
<1>11. FileRefs'
  BY <1>1, <1>3, <1>4, <1>5, NoFileTurn
<1>12. AliveAt(p)'
  BY <1>2, <1>3, <1>5, <1>6 DEF AliveAt, Fds
<1>13. ExitingAt(p)'
  <2>1. 1..Len(todo'[p]) = {}
    BY <1>3
  <2>. QED
    BY <1>3, <2>1 DEF ExitingAt
<1>14. \A q \in Procs : \A k \in 1..Len(todo'[q]) : OpenAfter(q, todo'[q][k])
  BY <1>3, <1>4, <1>5, OpeningKept, OpenAlong
<1>15. Contents' /\ PipeEnds'
  BY <1>5, <1>8, ContentsStay
<1>16. \A k \in 1..Len(todo'[p]) : todo'[p][k][1] \in LastOps => k = Len(todo'[p])
  BY <1>3, <1>4, LastsAlong
<1>17. OthersStay(p) /\ IsSeq(todo'[p]) /\ DOMAIN todo' = Procs
  BY <1>3, <1>5, <1>6 DEF OthersStay, After
<1>. QED
  BY <1>7, <1>8, <1>9, <1>10, <1>11, <1>12, <1>13, <1>14, <1>15, <1>16, <1>17, CoreMove

(* open(): the struct file is filled in; its inode is the one the section  *)
(* has kept.                                                               *)
LEMMA Open4Keeps ==
    ASSUME Core, NEW p \in Procs, Open4(p)
    PROVE  Core'
<1>0. At(p, "open4") /\ "open4" \in TailOps /\ "open4" \in LastOps
  BY DEF Open4, TailOps, LastOps
<1>1. /\ Types /\ SlotRefs /\ FileRefs /\ todo[p] # << >> /\ todo[p][1][1] = "open4"
      /\ Len(todo[p]) = 1 /\ Outside(todo[p][1]) /\ Arg(p, 1) = todo[p][1][2]
      /\ Arg(p, 2) = todo[p][1][3] /\ p \in alive /\ (~Leaving(p) => cwd[p] \in Slots)
  BY <1>0, TailAt DEF Core
<1>. DEFINE f == todo[p][1][2]
            s == todo[p][1][3]
            ops == << >>
<1>2. f \in Files /\ s \in Slots /\ SlotOf(todo[p][1]) = s
  BY <1>1 DEF Outside, InodeOps, SlotOf
<1>3. After(p, ops) /\ todo'[p] = << >> /\ ~Leaving(p)'
  BY <1>1, NothingNext DEF Open4
<1>4. Few(ops) /\ Len(ops) = 0
  BY Ops0
<1>5. /\ UNCHANGED <<icache, reg, cwd, ofile, alive, pipes>>
      /\ ftable' = [ftable EXCEPT ![f] =
                      [@ EXCEPT !.type = "inode", !.ip = s, !.inum = icache[s].inum]]
  BY <1>1 DEF Open4, Inum
<1>6. /\ New(f) /\ \E fd \in Fds : ofile[p][fd] = f
      /\ ~Leaving(p)
  <2>1. 1 \in 1..Len(todo[p])
    BY <1>1
  <2>. QED
    BY <1>1, <2>1 DEF Core, Opening, Leaving
<1>. HIDE DEF ops, s, f
<1>7. /\ ftable'[f].type = "inode" /\ ftable'[f].ip = s /\ ftable'[f].inum = icache[s].inum
      /\ ftable'[f].ref = ftable[f].ref /\ ftable'[f].pipe = ftable[f].pipe
      /\ ftable'[f].end = ftable[f].end
      /\ DOMAIN ftable'[f] = DOMAIN Closed
      /\ ftable' = [g \in Files |-> ftable'[g]]
      /\ \A g \in Files : g # f => ftable'[g] = ftable[g]
  <2>1. DOMAIN ftable = Files /\ DOMAIN ftable[f] = {"ref", "type", "ip", "inum", "pipe", "end"}
    BY <1>1, <1>2 DEF Types, Closed
  <2>2. ftable'[f] = [ftable[f] EXCEPT !.type = "inode", !.ip = s, !.inum = icache[s].inum]
    BY <1>2, <1>5, <2>1
  <2>3. \A g \in Files : g # f => ftable'[g] = ftable[g]
    BY <1>5, <2>1
  <2>4. ftable' = [g \in Files |-> ftable'[g]]
    BY <1>5, <2>1
  <2>. QED
    BY <2>1, <2>2, <2>3, <2>4 DEF Closed
<1>8. /\ Shape(todo'[p], reg'[p]) /\ RegMove(p)
      /\ \A v \in Slots : Taken(reg[p], v) = 0 /\ Taken(reg'[p], v) = 0
  <2>1. \A k \in 1..Len(ops) : Outside(ops[k])
    BY <1>4
  <2>. QED
    BY <1>0, <1>3, <1>5, <2>1, TailShape
<1>9. CacheKept
  BY <1>1, <1>5, CacheUnchanged DEF CacheMoves
<1>10. FilesTyped
  <2>1. \A g \in Files : DOMAIN ftable'[g] = DOMAIN Closed /\ ftable'[g].end \in {"r", "w"}
    BY <1>1, <1>2, <1>7 DEF Types
  <2>. QED
    BY <1>1, <1>5, <1>7, <2>1 DEF Types, FilesTyped
<1>11. SlotRefs'
  <2>. DEFINE a == cwd[p]
  <2>1. \A v \in Slots : SlotTurn(p, ops, a, a, ftable[f].ip, ftable'[f].ip, v)
    <3>. TAKE v \in Slots
    <3>1. Sum5(SlotVals(ops), v) = 0
      BY SizesAre, Ops0 DEF ops
    <3>2. Is(0, v) = 0 /\ Is(a, v) \in Int /\ Is(s, v) \in Int
      BY SizesAre, IsInt DEF Is
    <3>3. ftable[f].ip = 0
      BY <1>2, <1>6 DEF New, Core, Contents
    <3>. HIDE DEF a
    <3>. QED
      BY <1>2, <1>7, <1>8, <3>1, <3>2, <3>3 DEF SlotTurn
  <2>2. a = (IF Leaving(p) THEN 0 ELSE cwd[p]) /\ a = (IF Leaving(p)' THEN 0 ELSE cwd'[p])
    BY <1>3, <1>5, <1>6
  <2>3. \A g \in Files : g # f => ftable'[g].ip = ftable[g].ip
    BY <1>7
  <2>. HIDE DEF a
  <2>. QED
    BY <1>2, <1>3, <1>5, <1>8, <2>1, <2>2, <2>3, SlotRefsTurn
<1>12. FileRefs'
  BY <1>1, <1>3, <1>4, <1>5, <1>7, NoFileTurn
<1>13. AliveAt(p)'
  BY <1>1, <1>3, <1>5, <1>6 DEF AliveAt, Slots
<1>14. ExitingAt(p)'
  <2>1. 1..Len(todo'[p]) = {}
    BY <1>3
  <2>. QED
    BY <1>3, <2>1 DEF ExitingAt
<1>15. \A q \in Procs : \A k \in 1..Len(todo'[q]) : OpenAfter(q, todo'[q][k])
  <2>1. ASSUME NEW q \in Procs, NEW j \in 1..Len(todo[q]), ~(q = p /\ j = 1)
        PROVE  OpenAfter(q, todo[q][j])
    <3>1. ~Concerns(todo[q][j], f)
      <4>. SUFFICES ASSUME Concerns(todo[q][j], f)
                    PROVE  FALSE
        OBVIOUS
      <4>1. FileOf(todo[q][j]) = f \/ OtherOf(todo[q][j]) = f \/ \E fd \in Fds : ofile[q][fd] = f
        BY <1>2, ConcernsNew
      <4>2. FileOf(todo[q][j]) # f /\ OtherOf(todo[q][j]) # f
            /\ ((\E fd \in Fds : ofile[q][fd] = f) => q = p)
        BY <1>1, <1>2, <1>6, OneUser DEF New
      <4>3. j = 1
        BY <1>1, <4>1, <4>2
      <4>. QED
        BY <2>1, <4>1, <4>2, <4>3
    <3>. DEFINE T == {f}
    <3>2. \A g \in Files \ T : ftable'[g].ref = ftable[g].ref /\ ftable'[g].type = ftable[g].type
      BY <1>7
    <3>3. \A g \in Files \ T : \A fd \in Fds : ofile[q][fd] = g => ofile'[q][fd] = g
      BY <1>5
    <3>4. \A g \in T : ~Concerns(todo[q][j], g)
      BY <3>1
    <3>. HIDE DEF T
    <3>. QED
      BY <3>2, <3>3, <3>4, OpeningApart
  <2>. QED
    BY <1>3, <1>4, <2>1, OpenAlong
<1>16. Contents'
  <2>1. ASSUME NEW g \in Files
        PROVE  /\ ftable'[g].ref = 0 => ftable'[g] = Closed
               /\ ftable'[g].type = "inode" =>
                    ftable'[g].ip \in Slots /\ icache'[ftable'[g].ip].inum = ftable'[g].inum
               /\ ftable'[g].type # "inode" => ftable'[g].ip = 0
               /\ ftable'[g].type = "pipe" => ftable'[g].pipe \in Files
               /\ ftable'[g].type # "pipe" => ftable'[g].pipe = 0
    <3>1. CASE g = f
      BY <1>2, <1>5, <1>6, <1>7, <3>1 DEF New, Core, Contents
    <3>2. CASE g # f
      BY <1>5, <1>7, <3>2 DEF Core, Contents
    <3>. QED
      BY <3>1, <3>2
  <2>. QED
    BY <2>1 DEF Contents, Files, Slots, Closed
<1>17. PipeEnds'
  <2>1. \A g \in Files : ftable'[g].pipe = ftable[g].pipe /\ ftable'[g].end = ftable[g].end
    BY <1>2, <1>7
  <2>. QED
    BY <1>5, <2>1 DEF Core, PipeEnds, Files
<1>18. \A k \in 1..Len(todo'[p]) : todo'[p][k][1] \in LastOps => k = Len(todo'[p])
  BY <1>3, <1>4, LastsAlong
<1>19. OthersStay(p) /\ IsSeq(todo'[p]) /\ DOMAIN todo' = Procs
  BY <1>3, <1>5 DEF OthersStay, After
<1>. QED
  BY <1>8, <1>9, <1>10, <1>11, <1>12, <1>13, <1>14, <1>15, <1>16, <1>17, <1>18, <1>19, CoreMove

-----------------------------------------------------------------------------
(* The sections that open and close struct files.                          *)
FileOps == {"fclose", "pipe1", "pipe2", "exit1"}

LEMMA TailMove ==
    ASSUME Core, NEW p \in Procs, NEW op \in FileOps, At(p, op), NEW ops, After(p, ops),
           \A k \in 1..Len(ops) : /\ Outside(ops[k]) /\ ops[k][1] \notin {"chdir3", "exit2"}
                                  /\ ops[k][1] \in LastOps => k = Len(ops) /\ Len(todo[p]) = 1,
           UNCHANGED <<icache, reg, cwd, alive>>, FilesTyped,
           \A q \in Procs : q # p => ofile'[q] = ofile[q],
           SlotRefs', FileRefs', ExitingAt(p)', Contents', PipeEnds',
           \A k \in 1..Len(ops) : OpenAfter(p, ops[k]),
           \A q \in Procs : \A j \in 1..Len(todo[q]) :
               ~(q = p /\ j = 1) => OpenAfter(q, todo[q][j])
    PROVE  Core'
<1>0. op \in TailOps /\ op \notin {"chdir3", "exit2"}
  BY DEF FileOps, TailOps
<1>1. /\ Types /\ SlotRefs /\ todo[p] # << >> /\ todo[p][1][1] = op /\ p \in alive
      /\ (~Leaving(p) => cwd[p] \in Slots)
  BY <1>0, TailAt DEF Core
<1>2. Shape(todo'[p], reg'[p]) /\ RegMove(p)
  BY <1>0, TailShape
<1>3. CacheKept
  BY <1>1, CacheUnchanged DEF CacheMoves
<1>4. Leaving(p)' <=> Leaving(p)
  BY <1>0, <1>1, LeavingAlong
<1>5. AliveAt(p)'
  BY <1>1, <1>4 DEF AliveAt, Slots
<1>6. \A q \in Procs : \A k \in 1..Len(todo'[q]) : OpenAfter(q, todo'[q][k])
  BY OpenAlong
<1>7. \A k \in 1..Len(todo'[p]) : todo'[p][k][1] \in LastOps => k = Len(todo'[p])
  BY LastsAlong
<1>8. OthersStay(p) /\ IsSeq(todo'[p]) /\ DOMAIN todo' = Procs
  BY DEF OthersStay, After
<1>. QED
  BY <1>2, <1>3, <1>5, <1>6, <1>7, <1>8, CoreMove

(* The inodes of open files stay, but for one struct file.                 *)
LEMMA FileSlots ==
    ASSUME Core, NEW p \in Procs, NEW op \in FileOps, At(p, op), NEW ops, After(p, ops),
           \A k \in 1..Len(ops) : Outside(ops[k]) /\ ops[k][1] \notin {"chdir3", "exit2"},
           UNCHANGED <<icache, reg, cwd>>,
           NEW f \in Files, \A g \in Files : g # f => ftable'[g].ip = ftable[g].ip,
           \A v \in Slots : Sum5(SlotVals(ops), v) + Is(ftable'[f].ip, v) = Is(ftable[f].ip, v)
    PROVE  SlotRefs'
<1>0. op \in TailOps /\ op \notin {"chdir3", "exit2"} /\ op \notin {"iput", "idrop", "walk", "step", "open4"}
  BY DEF FileOps, TailOps
<1>1. Types /\ todo[p][1][1] = op
  BY <1>0, TailAt
<1>2. RegMove(p) /\ \A v \in Slots : Taken(reg[p], v) = 0 /\ Taken(reg'[p], v) = 0
  BY <1>0, TailShape
<1>3. Leaving(p)' <=> Leaving(p)
  BY <1>0, <1>1, LeavingAlong
<1>. DEFINE a == IF Leaving(p) THEN 0 ELSE cwd[p]
<1>4. a = (IF Leaving(p) THEN 0 ELSE cwd[p]) /\ a = (IF Leaving(p)' THEN 0 ELSE cwd'[p])
  BY <1>3
<1>. HIDE DEF a
<1>5. \A v \in Slots : SlotTurn(p, ops, a, a, ftable[f].ip, ftable'[f].ip, v)
  <2>. TAKE v \in Slots
  <2>1. SlotOf(todo[p][1]) = 0 /\ Is(0, v) = 0
    BY <1>0, <1>1, SizesAre DEF SlotOf, Is
  <2>2. /\ Is(a, v) \in Int /\ Is(ftable[f].ip, v) \in Int /\ Is(ftable'[f].ip, v) \in Int
        /\ Sum5(SlotVals(ops), v) \in Int
    BY IsInt DEF Sum5
  <2>3. Sum5(SlotVals(ops), v) + Is(ftable'[f].ip, v) = Is(ftable[f].ip, v)
    OBVIOUS
  <2>. DEFINE m == Sum5(SlotVals(ops), v)
              c == Is(ftable[f].ip, v)
              d == Is(ftable'[f].ip, v)
              e == Is(a, v)
  <2>. HIDE DEF m, c, d, e
  <2>4. m \in Int /\ c \in Int /\ d \in Int /\ e \in Int /\ m + d = c
    BY <2>2, <2>3 DEF m, c, d, e
  <2>5. m + 0 + e + d = 0 + 0 + e + c
    BY <2>4
  <2>. QED
    BY <1>2, <2>1, <2>5 DEF SlotTurn, m, c, d, e
<1>. QED
  BY <1>2, <1>4, <1>5, SlotRefsTurn DEF After

(* fileclose(): the section has had the reference it gives up.             *)
LEMMA FilecloseKeeps ==
    ASSUME Core, NEW p \in Procs, Fileclose(p)
    PROVE  Core'
<1>0. At(p, "fclose") /\ "fclose" \in FileOps /\ "fclose" \in TailOps
  BY DEF Fileclose, FileOps, TailOps
<1>1. /\ Types /\ SlotRefs /\ FileRefs /\ todo[p] # << >> /\ todo[p][1][1] = "fclose"
      /\ Outside(todo[p][1]) /\ Arg(p, 1) = todo[p][1][2]
  BY <1>0, TailAt DEF Core
<1>. DEFINE f == todo[p][1][2]
            ff == ftable[f]
            last == ff.ref = 1
            put == << <<"begin_op">>, <<"iput", ff.ip>>, <<"end_op">> >>
            ops == IF last /\ ff.type = "inode" THEN put ELSE << >>
<1>2. f \in Files /\ FileOf(todo[p][1]) = f /\ OtherOf(todo[p][1]) = 0
  BY <1>1 DEF Outside, InodeOps, FileOf, OtherOf
<1>3. /\ UNCHANGED <<icache, reg, cwd, ofile, alive>> /\ Then(p, ops)
      /\ ftable' = [ftable EXCEPT ![f] = IF last THEN Closed ELSE [ff EXCEPT !.ref = ff.ref - 1]]
      /\ pipes' = IF last /\ ff.type = "pipe"
                  THEN [pipes EXCEPT ![ff.pipe] = @ \ {ff.end}] ELSE pipes
  <2>1. UNCHANGED <<icache, reg, cwd, ofile, alive>> /\ Then(p, ops)
    BY <1>1 DEF Fileclose
  <2>2. ftable' = [ftable EXCEPT ![f] = IF last THEN Closed ELSE [ff EXCEPT !.ref = ff.ref - 1]]
    BY <1>1 DEF Fileclose
  <2>3. pipes' = IF last /\ ff.type = "pipe"
                  THEN [pipes EXCEPT ![ff.pipe] = @ \ {ff.end}] ELSE pipes
    BY <1>1 DEF Fileclose
  <2>. QED
    BY <2>1, <2>2, <2>3
<1>4. ff.ref \in Nat /\ ff.ref > 0 /\ f # 0
  <2>1. 1 \in 1..Len(todo[p])
    BY <1>1, SeqFacts DEF Types
  <2>. QED
    BY <1>1, <1>2, <2>1, Users
<1>. HIDE DEF f
<1>5. /\ DOMAIN ftable = Files /\ DOMAIN ff = {"ref", "type", "ip", "inum", "pipe", "end"}
      /\ DOMAIN pipes = Files
  BY <1>1, <1>2 DEF Types, Closed
<1>6. /\ last => ftable'[f] = Closed
      /\ ~last => ftable'[f] = [ff EXCEPT !.ref = ff.ref - 1]
      /\ ftable' = [g \in Files |-> ftable'[g]]
      /\ \A g \in Files : g # f => ftable'[g] = ftable[g]
  <2>. DEFINE t == IF last THEN Closed ELSE [ff EXCEPT !.ref = ff.ref - 1]
  <2>1. t = IF last THEN Closed ELSE [ff EXCEPT !.ref = ff.ref - 1]
    OBVIOUS
  <2>. HIDE DEF t
  <2>2. ftable' = [ftable EXCEPT ![f] = t]
    BY <1>3, <2>1
  <2>3. ftable'[f] = t /\ ftable' = [g \in Files |-> ftable'[g]]
        /\ \A g \in Files : g # f => ftable'[g] = ftable[g]
    BY <1>2, <1>5, <2>2
  <2>. QED
    BY <2>3 DEF t
<1>7. /\ ff.ref = 0 => FALSE
      /\ ff.type = "inode" => ff.ip \in Slots /\ icache[ff.ip].inum = ff.inum
      /\ ff.type # "inode" => ff.ip = 0
      /\ ff.type = "pipe" => ff.pipe \in Files
      /\ ff.type # "pipe" => ff.pipe = 0
  BY <1>2, <1>4 DEF Core, Contents
<1>8. /\ Few(ops) /\ \A k \in 1..Len(ops) : /\ Outside(ops[k]) /\ FileOf(ops[k]) = 0 /\ OtherOf(ops[k]) = 0
                                            /\ ops[k][1] \in {"begin_op", "iput", "end_op"}
  <2>1. CASE last /\ ff.type = "inode"
    <3>1. ops = put
      BY <2>1
    <3>2. /\ Few(put) /\ Len(put) = 3 /\ put[1] = <<"begin_op">> /\ put[2] = <<"iput", ff.ip>>
          /\ put[3] = <<"end_op">>
      BY Ops3
    <3>. HIDE DEF put, ops
    <3>3. \A k \in 1..Len(put) : k \in {1, 2, 3}
      BY <3>2
    <3>4. Outside(put[1]) /\ Outside(put[2]) /\ Outside(put[3])
      BY <1>7, <2>1, <3>2 DEF Outside, InodeOps
    <3>5. \A x : x[1] \in {"begin_op", "iput", "end_op"} => FileOf(x) = 0 /\ OtherOf(x) = 0
      BY DEF FileOf, OtherOf
    <3>. QED
      BY <3>1, <3>2, <3>3, <3>4, <3>5
  <2>2. CASE ~(last /\ ff.type = "inode")
    BY <2>2, Ops0
  <2>. QED
    BY <2>1, <2>2
<1>9. After(p, ops)
  BY <1>1, <1>3, <1>8, ThenAfter DEF Few
<1>10. ASSUME NEW v \in Slots
       PROVE  Sum5(SlotVals(ops), v) + Is(ftable'[f].ip, v) = Is(ff.ip, v)
  <2>0. Is(0, v) = 0 /\ Is(ff.ip, v) \in Int /\ v # 0
    BY SizesAre, IsInt DEF Is
  <2>1. CASE last /\ ff.type = "inode"
    <3>1. ops = put /\ ftable'[f].ip = 0
      BY <1>6, <2>1 DEF Closed
    <3>2. Sum5(SlotVals(put), v) = Sum3(<<"begin_op">>, <<"iput", ff.ip>>, <<"end_op">>, v)
      BY <2>0, Ops3
    <3>3. SlotOf(<<"begin_op">>) = 0 /\ SlotOf(<<"iput", ff.ip>>) = ff.ip /\ SlotOf(<<"end_op">>) = 0
      BY DEF SlotOf
    <3>. QED
      BY <2>0, <3>1, <3>2, <3>3 DEF Sum3, Sum2, Sum1
  <2>2. CASE ~(last /\ ff.type = "inode")
    <3>1. ftable'[f].ip = ff.ip
      BY <1>5, <1>6, <1>7, <2>2 DEF Closed
    <3>2. ops = << >>
      BY <2>2
    <3>. HIDE DEF ff, last, ops
    <3>3. Sum5(SlotVals(ops), v) = 0
      BY <2>0, <3>2, Ops0
    <3>. QED
      BY <2>0, <3>1, <3>3
  <2>. QED
    BY <2>1, <2>2
<1>. HIDE DEF put, ops
<1>11. SlotRefs'
  <2>1. \A g \in Files : g # f => ftable'[g].ip = ftable[g].ip
    BY <1>6
  <2>. QED
    BY <1>0, <1>2, <1>3, <1>8, <1>9, <1>10, <2>1, FileSlots
<1>12. ftable'[f].ref = ff.ref - 1 /\ \A g \in Files : g # f => ftable'[g].ref = ftable[g].ref
  BY <1>4, <1>5, <1>6 DEF Closed
<1>13. FileRefs'
  <2>1. PICK fd \in Fds : TRUE
    BY SizesAre DEF Fds
  <2>. DEFINE a == ofile[p][fd]
  <2>2. a = ofile[p][fd] /\ a = ofile'[p][fd]
        /\ \A q \in Procs : \A fe \in Fds : ~(q = p /\ fe = fd) => ofile'[q][fe] = ofile[q][fe]
    BY <1>3
  <2>. HIDE DEF a
  <2>3. \A v \in Files : ftable'[v].ref \in Int /\ FileTurn(p, ops, a, a, v)
    <3>. TAKE v \in Files
    <3>1. Sum5(FileVals(ops), v) = 0
      BY <1>8, NoFiles
    <3>2. Sum5(OtherVals(ops), v) = 0
      BY <1>8, NoOthers
    <3>3. Is(0, v) = 0 /\ ftable[v].ref \in Int /\ Is(a, v) \in Int
      BY <1>1, FileCounts, IsInt DEF Is
    <3>4. ftable'[v].ref + Is(f, v) = ftable[v].ref /\ ftable'[v].ref \in Int
      BY <1>4, <1>12, <3>3 DEF Is
    <3>5. Is(f, v) \in Int
      BY IsInt
    <3>6. ftable'[v].ref + Is(f, v) + 0 + Is(a, v) = ftable[v].ref + 0 + 0 + Is(a, v)
      BY <3>3, <3>4, <3>5
    <3>. QED
      BY <1>2, <3>1, <3>2, <3>3, <3>4, <3>6 DEF FileTurn
  <2>. QED
    BY <1>9, <2>2, <2>3, FileRefsTurn
<1>14. FilesTyped
  <2>1. \A g \in Files : DOMAIN ftable'[g] = DOMAIN Closed /\ ftable'[g].end \in {"r", "w"}
    BY <1>1, <1>2, <1>5, <1>6 DEF Types, Closed
  <2>. QED
    BY <1>1, <1>3, <1>6, <2>1 DEF Types, FilesTyped
<1>15. ExitingAt(p)'
  BY <1>1, <1>3, <1>8, <1>9, ExitingAlong
<1>16. ASSUME NEW q \in Procs, NEW j \in 1..Len(todo[q]), ~(q = p /\ j = 1)
       PROVE  OpenAfter(q, todo[q][j])
  <2>1. ~Concerns(todo[q][j], f)
    <3>1. CASE last
      BY <1>1, <1>2, <1>16, <3>1, OnlyHead
    <3>2. CASE ~last
      BY <1>2, <3>2, ConcernsNew DEF New
    <3>. QED
      BY <3>1, <3>2
  <2>. DEFINE T == {f}
  <2>2. \A g \in Files \ T : ftable'[g].ref = ftable[g].ref /\ ftable'[g].type = ftable[g].type
    BY <1>6
  <2>3. \A g \in Files \ T : \A fd \in Fds : ofile[q][fd] = g => ofile'[q][fd] = g
    BY <1>3
  <2>4. \A g \in T : ~Concerns(todo[q][j], g)
    BY <2>1
  <2>. HIDE DEF T
  <2>. QED
    BY <2>2, <2>3, <2>4, OpeningApart
<1>17. \A k \in 1..Len(ops) : OpenAfter(p, ops[k])
  BY <1>8 DEF OpenAfter
<1>18. Contents'
  <2>1. ASSUME NEW g \in Files
        PROVE  /\ ftable'[g].ref = 0 => ftable'[g] = Closed
               /\ ftable'[g].type = "inode" =>
                    ftable'[g].ip \in Slots /\ icache'[ftable'[g].ip].inum = ftable'[g].inum
               /\ ftable'[g].type # "inode" => ftable'[g].ip = 0
               /\ ftable'[g].type = "pipe" => ftable'[g].pipe \in Files
               /\ ftable'[g].type # "pipe" => ftable'[g].pipe = 0
    <3>1. CASE g # f
      BY <1>3, <1>6, <3>1 DEF Core, Contents
    <3>2. CASE g = f /\ last
      BY <1>6, <3>2 DEF Closed
    <3>3. CASE g = f /\ ~last
      <4>1. ftable'[f].ref # 0
        BY <1>4, <1>12, <3>3
      <4>2. /\ ftable'[f].type = ff.type /\ ftable'[f].ip = ff.ip /\ ftable'[f].inum = ff.inum
            /\ ftable'[f].pipe = ff.pipe
        BY <1>5, <1>6, <3>3
      <4>. QED
        BY <1>3, <1>7, <3>3, <4>1, <4>2
    <3>. QED
      BY <3>1, <3>2, <3>3
  <2>. QED
    BY <2>1 DEF Contents, Files, Slots, Closed
<1>19. PipeEnds'
  <2>. DEFINE ends(k) == {ftable'[x].end : x \in {g \in Files : ftable'[g].pipe = k}}
  <2>1. /\ \A x, y \in Files : ftable[x].pipe = ftable[y].pipe /\ ftable[x].end = ftable[y].end
                               /\ x # y => ftable[x].pipe = 0
        /\ \A k \in Files :
             pipes[k] = {ftable[x].end : x \in {g \in Files : ftable[g].pipe = k}}
    BY DEF Core, PipeEnds
  <2>2. CASE ~last \/ ff.type # "pipe"
    <3>1. \A g \in Files : /\ ftable'[g].pipe = ftable[g].pipe
                           /\ ftable[g].pipe # 0 => ftable'[g].end = ftable[g].end
      <4>1. ftable'[f].pipe = ff.pipe /\ (ff.pipe # 0 => ftable'[f].end = ff.end)
        BY <1>5, <1>6, <1>7, <2>2 DEF Closed
      <4>. QED
        BY <1>6, <4>1
    <3>2. pipes' = pipes
      BY <1>3, <2>2
    <3>3. \A k \in Files : pipes'[k] = ends(k)
      <4>. TAKE k \in Files
      <4>1. k # 0
        BY SizesAre
      <4>2. {g \in Files : ftable'[g].pipe = k} = {g \in Files : ftable[g].pipe = k}
        BY <3>1
      <4>. QED
        BY <2>1, <3>1, <3>2, <4>1, <4>2
    <3>. QED
      BY <2>1, <3>1, <3>3 DEF PipeEnds, Files
  <2>3. CASE last /\ ff.type = "pipe"
    <3>. DEFINE k0 == ff.pipe
    <3>1. k0 \in Files /\ k0 # 0 /\ ftable'[f].pipe = 0
      BY <1>6, <1>7, <2>3, SizesAre DEF Closed
    <3>2. pipes' = [pipes EXCEPT ![k0] = @ \ {ff.end}]
      BY <1>3, <2>3
    <3>3. \A k \in Files : pipes'[k] = IF k = k0 THEN pipes[k] \ {ff.end} ELSE pipes[k]
      BY <1>5, <3>2
    <3>4. \A k \in Files : pipes'[k] = ends(k)
      <4>. TAKE k \in Files
      <4>1. k # 0
        BY SizesAre
      <4>2. {g \in Files : ftable'[g].pipe = k} = {g \in Files : ftable[g].pipe = k /\ g # f}
        BY <1>2, <1>6, <3>1, <4>1
      <4>3. ends(k) = {ftable[x].end : x \in {g \in Files : ftable[g].pipe = k /\ g # f}}
        BY <1>6, <4>2
      <4>4. CASE k = k0
        <5>1. \A g \in Files : ftable[g].pipe = k /\ g # f => ftable[g].end # ff.end
          BY <1>2, <2>1, <4>1, <4>4
        <5>2. pipes'[k] = pipes[k] \ {ff.end}
          BY <3>3, <4>4
        <5>3. pipes[k] = {ftable[x].end : x \in {g \in Files : ftable[g].pipe = k}}
          BY <2>1
        <5>. HIDE DEF ends
        <5>4. \A e : e \in pipes'[k] <=> \E g \in Files : ftable[g].pipe = k /\ g # f /\ ftable[g].end = e
          BY <5>1, <5>2, <5>3
        <5>5. \A e : e \in ends(k) <=> \E g \in Files : ftable[g].pipe = k /\ g # f /\ ftable[g].end = e
          BY <4>3
        <5>6. \A e : e \in pipes'[k] <=> e \in ends(k)
          BY <5>4, <5>5
        <5>7. pipes'[k] = {e \in pipes[k] : e # ff.end}
          BY <5>2
        <5>. QED
          BY <4>3, <5>6, <5>7
      <4>5. CASE k # k0
        <5>1. pipes'[k] = pipes[k] /\ pipes[k] = {ftable[x].end : x \in {g \in Files : ftable[g].pipe = k}}
          BY <2>1, <3>3, <4>5
        <5>2. {g \in Files : ftable[g].pipe = k /\ g # f} = {g \in Files : ftable[g].pipe = k}
          BY <4>5
        <5>. QED
          BY <4>3, <5>1, <5>2
      <4>. QED
        BY <4>4, <4>5
    <3>. QED
      BY <1>6, <2>1, <3>1, <3>4 DEF PipeEnds, Files
  <2>. QED
    BY <2>2, <2>3
<1>20. \A q \in Procs : q # p => ofile'[q] = ofile[q]
  BY <1>3
<1>21. \A k \in 1..Len(ops) : /\ Outside(ops[k]) /\ ops[k][1] \notin {"chdir3", "exit2"}
                              /\ ops[k][1] \in LastOps => k = Len(ops) /\ Len(todo[p]) = 1
  BY <1>8 DEF LastOps
<1>. QED
  BY <1>0, <1>3, <1>9, <1>11, <1>13, <1>14, <1>15, <1>16, <1>17, <1>18, <1>19, <1>20, <1>21, TailMove

-----------------------------------------------------------------------------
(* filealloc() and fdalloc() find what is free, or nothing.                *)
LEMMA FileAllocIs ==
    ASSUME Types
    PROVE  FileAlloc = 0 \/ (FileAlloc \in Files /\ ftable[FileAlloc].ref = 0)
<1>1. Len(ftable) = NFILE
  <2>1. DOMAIN ftable = 1..NFILE /\ ftable = [f \in 1..NFILE |-> ftable[f]] /\ NFILE \in Nat
    BY SizesAre DEF Types, Files
  <2>. QED
    BY <2>1, LenIs
<1>. DEFINE free == {f \in 1..Len(ftable) : ftable[f].ref = 0}
<1>2. FileAlloc = IF free # {} THEN Min(free) ELSE 0
  BY DEF FileAlloc, SelectInSeq
<1>3. free \in SUBSET Nat /\ \A f \in free : f \in Files /\ ftable[f].ref = 0
  BY <1>1 DEF Files
<1>. HIDE DEF free
<1>4. free # {} => Min(free) \in free
  BY <1>3, MinIn
<1>. QED
  BY <1>2, <1>3, <1>4

LEMMA FdAllocIs ==
    ASSUME Types, NEW p \in Procs
    PROVE  FdAlloc(p) = 0 \/ (FdAlloc(p) \in Fds /\ ofile[p][FdAlloc(p)] = 0)
<1>1. Len(ofile[p]) = NOFILE
  <2>1. DOMAIN ofile[p] = 1..NOFILE /\ ofile[p] = [fd \in 1..NOFILE |-> ofile[p][fd]] /\ NOFILE \in Nat
    BY SizesAre DEF Types, Fds
  <2>. DEFINE w == ofile[p]
  <2>. HIDE DEF w
  <2>2. DOMAIN w = 1..NOFILE /\ w = [fd \in 1..NOFILE |-> w[fd]]
    BY <2>1 DEF w
  <2>3. Len(w) = NOFILE
    BY <2>1, <2>2, LenIs
  <2>. QED
    BY <2>3 DEF w
<1>. DEFINE free == {fd \in 1..Len(ofile[p]) : ofile[p][fd] = 0}
<1>2. FdAlloc(p) = IF free # {} THEN Min(free) ELSE 0
  BY DEF FdAlloc, SelectInSeq
<1>3. free \in SUBSET Nat /\ \A fd \in free : fd \in Fds /\ ofile[p][fd] = 0
  BY <1>1 DEF Fds
<1>. HIDE DEF free
<1>4. free # {} => Min(free) \in free
  BY <1>3, MinIn
<1>. QED
  BY <1>2, <1>3, <1>4

(* filealloc() takes a free struct file, if there is one.                  *)
LEMMA NewFile ==
    ASSUME Core, NEW g, g = FileAlloc,
           ftable' = IF g = 0 THEN ftable ELSE [ftable EXCEPT ![g].ref = 1]
    PROVE  /\ g = 0 \/ (g \in Files /\ ftable[g].ref = 0)
           /\ \A f \in Files : f # g => ftable'[f] = ftable[f]
           /\ g # 0 => ftable'[g] = [Closed EXCEPT !.ref = 1]
           /\ \A f \in Files : /\ ftable'[f].ref = ftable[f].ref + Is(g, f)
                               /\ ftable'[f].ref \in Int /\ ftable[f].ref \in Int
                               /\ ftable'[f].ip = ftable[f].ip
           /\ \A q \in Procs : \A j \in 1..Len(todo[q]) : g # 0 => ~Concerns(todo[q][j], g)
           /\ \A q \in Procs : \A fd \in Fds : g # 0 => ofile[q][fd] # g
           /\ ftable' = [f \in Files |-> ftable'[f]]
           /\ \A f \in Files : DOMAIN ftable'[f] = DOMAIN Closed /\ ftable'[f].end \in {"r", "w"}
<1>0. Types /\ FileRefs /\ Contents
  BY DEF Core
<1>1. g = 0 \/ (g \in Files /\ ftable[g].ref = 0)
  BY <1>0, FileAllocIs
<1>2. DOMAIN ftable = Files /\ (g # 0 => ftable[g] = Closed)
  BY <1>0, <1>1 DEF Types, Contents
<1>3. g # 0 => ftable'[g] = [ftable[g] EXCEPT !.ref = 1]
  BY <1>1, <1>2
<1>4. /\ \A f \in Files : f # g => ftable'[f] = ftable[f]
      /\ ftable' = [f \in Files |-> ftable'[f]]
      /\ g # 0 => ftable'[g] = [Closed EXCEPT !.ref = 1]
  BY <1>0, <1>1, <1>2, <1>3 DEF Types
<1>5. g # 0 => /\ ftable'[g].ref = 1 /\ ftable'[g].ip = 0 /\ DOMAIN ftable'[g] = DOMAIN Closed
               /\ ftable'[g].end = "r" /\ ftable[g].ip = 0
  BY <1>2, <1>4 DEF Closed
<1>6. \A f \in Files : f # 0 /\ ftable[f].ref \in Int /\ Is(g, f) = IF f = g THEN 1 ELSE 0
  BY <1>0, FileCounts DEF Is
<1>7. \A f \in Files : /\ ftable'[f].ref = ftable[f].ref + Is(g, f)
                       /\ ftable'[f].ref \in Int /\ ftable[f].ref \in Int
                       /\ ftable'[f].ip = ftable[f].ip
  <2>. TAKE f \in Files
  <2>1. CASE f = g
    BY <1>1, <1>5, <1>6, <2>1
  <2>2. CASE f # g
    BY <1>4, <1>6, <2>2
  <2>. QED
    BY <2>1, <2>2
<1>8. \A q \in Procs : \A j \in 1..Len(todo[q]) : g # 0 => ~Concerns(todo[q][j], g)
  BY <1>1, ConcernsNew DEF New
<1>9. \A q \in Procs : \A fd \in Fds : g # 0 => ofile[q][fd] # g
  BY <1>0, <1>1, Users
<1>10. \A f \in Files : DOMAIN ftable'[f] = DOMAIN Closed /\ ftable'[f].end \in {"r", "w"}
  <2>. TAKE f \in Files
  <2>1. CASE f = g
    BY <1>5, <1>6, <2>1
  <2>2. CASE f # g
    BY <1>0, <1>4, <2>2 DEF Types
  <2>. QED
    BY <2>1, <2>2
<1>. QED
  BY <1>1, <1>4, <1>7, <1>8, <1>9, <1>10

LEMMA NewContents ==
    ASSUME Core, NEW g, g = FileAlloc, UNCHANGED <<icache, pipes>>,
           ftable' = IF g = 0 THEN ftable ELSE [ftable EXCEPT ![g].ref = 1]
    PROVE  Contents' /\ PipeEnds'
<1>0. Contents /\ PipeEnds
  BY DEF Core
<1>1. /\ g = 0 \/ (g \in Files /\ ftable[g].ref = 0)
      /\ \A f \in Files : f # g => ftable'[f] = ftable[f]
      /\ g # 0 => ftable'[g] = [Closed EXCEPT !.ref = 1]
  BY NewFile
<1>2. g # 0 => /\ ftable'[g].ref = 1 /\ ftable'[g].ip = 0 /\ ftable'[g].type = "none"
               /\ ftable'[g].pipe = 0 /\ ftable'[g].end = "r"
  BY <1>1 DEF Closed
<1>3. Contents'
  <2>1. ASSUME NEW f \in Files
        PROVE  /\ ftable'[f].ref = 0 => ftable'[f] = Closed
               /\ ftable'[f].type = "inode" =>
                    ftable'[f].ip \in Slots /\ icache'[ftable'[f].ip].inum = ftable'[f].inum
               /\ ftable'[f].type # "inode" => ftable'[f].ip = 0
               /\ ftable'[f].type = "pipe" => ftable'[f].pipe \in Files
               /\ ftable'[f].type # "pipe" => ftable'[f].pipe = 0
    <3>1. CASE f = g
      BY <1>2, <3>1, SizesAre
    <3>2. CASE f # g
      BY <1>0, <1>1, <3>2 DEF Contents
    <3>. QED
      BY <3>1, <3>2
  <2>. QED
    BY <2>1 DEF Contents, Files, Slots, Closed
<1>4. PipeEnds'
  <2>1. \A f \in Files : ftable'[f].pipe = ftable[f].pipe /\ ftable'[f].end = ftable[f].end
    <3>. TAKE f \in Files
    <3>1. CASE f = g
      <4>1. ftable[g] = Closed
        BY <1>0, <1>1, <3>1, SizesAre DEF Contents
      <4>. QED
        BY <1>2, <3>1, <4>1, SizesAre DEF Closed
    <3>2. CASE f # g
      BY <1>1, <3>2
    <3>. QED
      BY <3>1, <3>2
  <2>. QED
    BY <1>0, <2>1 DEF PipeEnds, Files
<1>. QED
  BY <1>3, <1>4

LEMMA NewOpening ==
    ASSUME Core, NEW p \in Procs, NEW g, g = FileAlloc,
           ftable' = IF g = 0 THEN ftable ELSE [ftable EXCEPT ![g].ref = 1],
           \A q \in Procs : \A fd \in Fds : ofile[q][fd] # 0 => ofile'[q][fd] = ofile[q][fd]
    PROVE  \A q \in Procs : \A j \in 1..Len(todo[q]) : OpenAfter(q, todo[q][j])
<1>1. /\ \A f \in Files : f # g => ftable'[f] = ftable[f]
      /\ \A q \in Procs : \A j \in 1..Len(todo[q]) : g # 0 => ~Concerns(todo[q][j], g)
  BY NewFile
<1>. TAKE q \in Procs
<1>. TAKE j \in 1..Len(todo[q])
<1>. DEFINE T == {f \in Files : f = g}
<1>2. \A f \in Files \ T : ftable'[f].ref = ftable[f].ref /\ ftable'[f].type = ftable[f].type
  BY <1>1
<1>3. \A f \in Files \ T : \A fd \in Fds : ofile[q][fd] = f => ofile'[q][fd] = f
  BY SizesAre
<1>4. \A f \in T : ~Concerns(todo[q][j], f)
  BY <1>1, SizesAre
<1>. HIDE DEF T
<1>. QED
  BY <1>2, <1>3, <1>4, OpeningApart

(* One section, or none.                                                   *)
LEMMA OneOp ==
    ASSUME NEW x, NEW v, v # 0
    PROVE  /\ Few(<<x>>) /\ Len(<<x>>) = 1 /\ <<x>>[1] = x /\ \A k \in 1..Len(<<x>>) : <<x>>[k] = x
           /\ Sum5(SlotVals(<<x>>), v) = Is(SlotOf(x), v)
           /\ Sum5(FileVals(<<x>>), v) = Is(FileOf(x), v)
           /\ Sum5(OtherVals(<<x>>), v) = Is(OtherOf(x), v)
<1>. DEFINE ops == <<x>>
<1>1. Few(ops) /\ Len(ops) = 1 /\ ops[1] = x /\ Sum5(SlotVals(ops), v) = Sum1(x, v)
  BY Ops1
<1>2. \A k \in 1..Len(ops) : ops[k] = x
  BY <1>1
<1>. HIDE DEF ops
<1>3. /\ FileVals(ops)[1] = FileOf(x) /\ OtherVals(ops)[1] = OtherOf(x)
      /\ \A k \in 2..5 : FileVals(ops)[k] = 0 /\ OtherVals(ops)[k] = 0
  BY <1>1 DEF FileVals, OtherVals
<1>4. \A y : Is(y, v) \in Int
  BY IsInt
<1>5. Is(0, v) = 0
  BY DEF Is
<1>6. Sum5(FileVals(ops), v) = Is(FileOf(x), v) /\ Sum5(OtherVals(ops), v) = Is(OtherOf(x), v)
  BY <1>3, <1>4, <1>5 DEF Sum5
<1>7. Sum5(SlotVals(ops), v) = Is(SlotOf(x), v)
  BY <1>1 DEF Sum1
<1>. QED
  BY <1>1, <1>2, <1>6, <1>7 DEF ops

LEMMA NoOp ==
    ASSUME NEW v, v # 0
    PROVE  /\ Few(<< >>) /\ Len(<< >>) = 0
           /\ Sum5(SlotVals(<< >>), v) = 0 /\ Sum5(FileVals(<< >>), v) = 0
           /\ Sum5(OtherVals(<< >>), v) = 0
<1>1. Few(<< >>) /\ Len(<< >>) = 0 /\ Sum5(SlotVals(<< >>), v) = 0
  BY Ops0
<1>2. \A k \in 1..5 : FileVals(<< >>)[k] = 0 /\ OtherVals(<< >>)[k] = 0
  BY <1>1 DEF FileVals, OtherVals
<1>. QED
  BY <1>1, <1>2 DEF Sum5, Is

FileEven(p, ops, v) ==
    ftable'[v].ref + Is(FileOf(todo[p][1]), v) + Is(OtherOf(todo[p][1]), v)
        = ftable[v].ref + Sum5(FileVals(ops), v) + Sum5(OtherVals(ops), v)

LEMMA FilesEven ==
    ASSUME Core, NEW p \in Procs, NEW ops, After(p, ops), UNCHANGED ofile,
           \A v \in Files : ftable'[v].ref \in Int /\ FileEven(p, ops, v)
    PROVE  FileRefs'
<1>0. Types /\ FileRefs
  BY DEF Core
<1>1. PICK fd \in Fds : TRUE
  BY SizesAre DEF Fds
<1>. DEFINE a == ofile[p][fd]
<1>2. a = ofile[p][fd] /\ a = ofile'[p][fd]
      /\ \A q \in Procs : \A fe \in Fds : ~(q = p /\ fe = fd) => ofile'[q][fe] = ofile[q][fe]
  OBVIOUS
<1>. HIDE DEF a
<1>3. \A v \in Files : FileTurn(p, ops, a, a, v)
  <2>. TAKE v \in Files
  <2>. DEFINE r == ftable[v].ref
              s == ftable'[v].ref
              g == Is(FileOf(todo[p][1]), v)
              h == Is(OtherOf(todo[p][1]), v)
              m == Sum5(FileVals(ops), v)
              n == Sum5(OtherVals(ops), v)
              e == Is(a, v)
  <2>1. r \in Int /\ s \in Int
    BY <1>0, FileCounts
  <2>2. g \in Int /\ h \in Int /\ m \in Int /\ n \in Int /\ e \in Int
    BY IsInt DEF Sum5
  <2>3. s + g + h = r + m + n
    <3>1. FileEven(p, ops, v)
      OBVIOUS
    <3>. QED
      BY <3>1 DEF FileEven
  <2>. HIDE DEF r, s, g, h, m, n, e
  <2>4. s + g + h + e = r + m + n + e
    BY <2>1, <2>2, <2>3
  <2>. QED
    BY <2>4 DEF FileTurn, r, s, g, h, m, n, e
<1>. QED
  BY <1>2, <1>3, FileRefsTurn

(* What pipe() and exit() push refers to the struct files f and g.         *)
Fits(p, ops, f, g) ==
    /\ Few(ops)
    /\ \A k \in 1..Len(ops) : /\ Outside(ops[k]) /\ OpenAfter(p, ops[k]) /\ k = Len(ops)
                              /\ ops[k][1] \in {"fclose", "pipe1", "pipe2"}
    /\ \A v \in Slots : Sum5(SlotVals(ops), v) = 0
    /\ \A v \in Files : Sum5(FileVals(ops), v) = Is(f, v) /\ Sum5(OtherVals(ops), v) = Is(g, v)

LEMMA OneFits ==
    ASSUME NEW p, NEW x, Outside(x), OpenAfter(p, x), x[1] \in {"fclose", "pipe1", "pipe2"}
    PROVE  Fits(p, <<x>>, FileOf(x), OtherOf(x))
<1>. DEFINE ops == <<x>>
<1>1. Few(ops) /\ Len(ops) = 1 /\ ops[1] = x
  BY Ops1
<1>2. SlotOf(x) = 0
  BY DEF SlotOf
<1>3. \A v \in Slots : Sum5(SlotVals(ops), v) = 0
  <2>. TAKE v \in Slots
  <2>1. v # 0
    BY SizesAre
  <2>. HIDE DEF ops
  <2>2. Sum5(SlotVals(ops), v) = Is(SlotOf(x), v)
    BY <2>1, OneOp DEF ops
  <2>. QED
    BY <1>2, <2>1, <2>2 DEF Is
<1>4. \A v \in Files : Sum5(FileVals(ops), v) = Is(FileOf(x), v) /\ Sum5(OtherVals(ops), v) = Is(OtherOf(x), v)
  <2>. TAKE v \in Files
  <2>1. v # 0
    BY SizesAre
  <2>. QED
    BY <2>1, OneOp
<1>. HIDE DEF ops
<1>5. \A k \in 1..Len(ops) : ops[k] = x /\ k = Len(ops)
  BY <1>1
<1>6. Fits(p, ops, FileOf(x), OtherOf(x))
  BY <1>1, <1>3, <1>4, <1>5 DEF Fits
<1>. QED
  BY <1>6 DEF ops

LEMMA NoneFits ==
    ASSUME NEW p
    PROVE  Fits(p, << >>, 0, 0)
<1>1. \A v \in Slots \cup Files : v # 0
  BY SizesAre
<1>2. \A v \in Slots \cup Files : Is(0, v) = 0
  BY <1>1 DEF Is
<1>. QED
  BY <1>1, <1>2, NoOp DEF Fits

(* pipealloc(): a struct file for the next end, or give up.                *)
LEMMA Pipe1Keeps ==
    ASSUME Core, NEW p \in Procs, Pipe1(p)
    PROVE  Core'
<1>0. /\ At(p, "pipe1") /\ "pipe1" \in FileOps /\ "pipe1" \in TailOps /\ "pipe1" \in LastOps
  BY DEF Pipe1, FileOps, TailOps, LastOps
<1>1. /\ Types /\ SlotRefs /\ FileRefs /\ todo[p] # << >> /\ todo[p][1][1] = "pipe1"
      /\ Outside(todo[p][1]) /\ Arg(p, 1) = todo[p][1][2] /\ Len(todo[p]) = 1
  BY <1>0, TailAt DEF Core
<1>. DEFINE f == todo[p][1][2]
            g == FileAlloc
            ops == IF g = 0 THEN (IF f = 0 THEN << >> ELSE << <<"fclose", f>> >>)
                   ELSE IF f = 0 THEN << <<"pipe1", g>> >> ELSE << <<"pipe2", f, g>> >>
<1>2. f \in Files \cup {0} /\ FileOf(todo[p][1]) = f /\ OtherOf(todo[p][1]) = 0
  BY <1>1 DEF Outside, InodeOps, FileOf, OtherOf
<1>3. /\ UNCHANGED <<icache, reg, cwd, ofile, alive, pipes>> /\ Then(p, ops)
      /\ ftable' = IF g = 0 THEN ftable ELSE [ftable EXCEPT ![g].ref = 1]
  BY <1>1 DEF Pipe1
<1>4. f # 0 => New(f)
  <2>1. 1 \in 1..Len(todo[p])
    BY <1>1
  <2>. QED
    BY <1>1, <2>1 DEF Core, Opening
<1>. HIDE DEF f, g
<1>5. /\ g = 0 \/ (g \in Files /\ ftable[g].ref = 0)
      /\ \A x \in Files : x # g => ftable'[x] = ftable[x]
      /\ g # 0 => ftable'[g] = [Closed EXCEPT !.ref = 1]
      /\ \A x \in Files : /\ ftable'[x].ref = ftable[x].ref + Is(g, x)
                          /\ ftable'[x].ref \in Int /\ ftable[x].ref \in Int
                          /\ ftable'[x].ip = ftable[x].ip
      /\ ftable' = [x \in Files |-> ftable'[x]]
      /\ \A x \in Files : DOMAIN ftable'[x] = DOMAIN Closed /\ ftable'[x].end \in {"r", "w"}
  BY <1>1, <1>3, NewFile DEF g
<1>6. g # 0 => ftable'[g].ref = 1 /\ ftable'[g].type = "none"
  BY <1>5 DEF Closed
<1>7. f # 0 /\ g # 0 => f # g
  BY <1>4, <1>5 DEF New
<1>8. \E x, y : Fits(p, ops, x, y) /\ \A v \in Files : Is(x, v) + Is(y, v) = Is(f, v) + Is(g, v)
  <2>0. \A v \in Files : v # 0 /\ Is(0, v) = 0 /\ Is(f, v) \in Int /\ Is(g, v) \in Int
    BY SizesAre, IsInt DEF Is
  <2>1. CASE g = 0 /\ f = 0
    <3>1. ops = << >>
      BY <2>1
    <3>. HIDE DEF ops
    <3>2. Fits(p, ops, 0, 0)
      BY <3>1, NoneFits
    <3>. QED
      BY <2>0, <2>1, <3>2
  <2>2. CASE g = 0 /\ f # 0
    <3>. DEFINE x == <<"fclose", f>>
    <3>1. ops = <<x>>
      BY <2>2
    <3>2. Outside(x) /\ OpenAfter(p, x) /\ x[1] = "fclose" /\ FileOf(x) = f /\ OtherOf(x) = 0
      BY <1>2, <2>2 DEF Outside, OpenAfter, FileOf, OtherOf
    <3>. HIDE DEF x, ops
    <3>3. Fits(p, ops, f, 0)
      BY <3>1, <3>2, OneFits
    <3>. QED
      BY <2>0, <2>2, <3>3
  <2>3. CASE g # 0 /\ f = 0
    <3>. DEFINE x == <<"pipe1", g>>
    <3>1. ops = <<x>>
      BY <2>3
    <3>2. Outside(x) /\ OpenAfter(p, x) /\ x[1] = "pipe1" /\ FileOf(x) = g /\ OtherOf(x) = 0
      BY <1>5, <1>6, <2>3 DEF Outside, OpenAfter, FileOf, OtherOf
    <3>. HIDE DEF x, ops
    <3>3. Fits(p, ops, g, 0)
      BY <3>1, <3>2, OneFits
    <3>. QED
      BY <2>0, <2>3, <3>3
  <2>4. CASE g # 0 /\ f # 0
    <3>. DEFINE x == <<"pipe2", f, g>>
    <3>1. ops = <<x>>
      BY <2>4
    <3>2. f \in Files /\ ftable'[f].ref = 1 /\ ftable'[f].type = "none"
      BY <1>2, <1>4, <1>5, <1>7, <2>4 DEF New
    <3>3. Outside(x) /\ OpenAfter(p, x) /\ x[1] = "pipe2" /\ FileOf(x) = f /\ OtherOf(x) = g
      BY <1>5, <1>6, <2>4, <3>2 DEF Outside, OpenAfter, FileOf, OtherOf
    <3>. HIDE DEF x, ops
    <3>4. Fits(p, ops, f, g)
      BY <3>1, <3>3, OneFits
    <3>. QED
      BY <3>4
  <2>. QED
    BY <2>1, <2>2, <2>3, <2>4
<1>9. PICK x, y : Fits(p, ops, x, y) /\ \A v \in Files : Is(x, v) + Is(y, v) = Is(f, v) + Is(g, v)
  BY <1>8
<1>. HIDE DEF ops
<1>10. /\ Few(ops)
       /\ \A k \in 1..Len(ops) : /\ Outside(ops[k]) /\ OpenAfter(p, ops[k]) /\ k = Len(ops)
                                  /\ ops[k][1] \in {"fclose", "pipe1", "pipe2"}
       /\ \A v \in Slots : Sum5(SlotVals(ops), v) = 0
       /\ \A v \in Files : Sum5(FileVals(ops), v) = Is(x, v) /\ Sum5(OtherVals(ops), v) = Is(y, v)
  BY <1>9 DEF Fits
<1>11. After(p, ops)
  BY <1>1, <1>3, <1>10, ThenAfter DEF Few
<1>12. SlotRefs'
  <2>1. 1 \in Files
    BY SizesAre DEF Files
  <2>2. \A v \in Slots : Sum5(SlotVals(ops), v) + Is(ftable'[1].ip, v) = Is(ftable[1].ip, v)
    BY <1>5, <1>10, <2>1, IsInt
  <2>3. \A h \in Files : h # 1 => ftable'[h].ip = ftable[h].ip
    BY <1>5
  <2>4. \A k \in 1..Len(ops) : Outside(ops[k]) /\ ops[k][1] \notin {"chdir3", "exit2"}
    BY <1>10
  <2>. QED
    BY <1>0, <1>3, <1>11, <2>1, <2>2, <2>3, <2>4, FileSlots
<1>13. FileRefs'
  <2>1. \A v \in Files : ftable'[v].ref \in Int /\ FileEven(p, ops, v)
    <3>. TAKE v \in Files
    <3>1. Is(x, v) + Is(y, v) = Is(f, v) + Is(g, v)
      BY <1>9
    <3>2. /\ Is(f, v) \in Int /\ Is(g, v) \in Int /\ Is(x, v) \in Int /\ Is(y, v) \in Int
          /\ Is(0, v) = 0
      BY SizesAre, IsInt DEF Is
    <3>3. ftable'[v].ref = ftable[v].ref + Is(g, v) /\ ftable'[v].ref \in Int /\ ftable[v].ref \in Int
      BY <1>5
    <3>4. ftable'[v].ref + Is(f, v) + 0 = ftable[v].ref + Is(x, v) + Is(y, v)
      BY <3>1, <3>2, <3>3
    <3>. QED
      BY <1>2, <1>10, <3>2, <3>3, <3>4 DEF FileEven
  <2>. QED
    BY <1>3, <1>11, <2>1, FilesEven
<1>14. FilesTyped
  BY <1>1, <1>3, <1>5 DEF Types, FilesTyped
<1>15. ExitingAt(p)'
  <2>1. \A k \in 1..Len(ops) : ops[k][1] \notin {"exit1", "exit2"}
    BY <1>10
  <2>. QED
    BY <1>1, <1>3, <1>11, <2>1, ExitingAlong
<1>16. \A q \in Procs : \A j \in 1..Len(todo[q]) : OpenAfter(q, todo[q][j])
  BY <1>3, NewOpening DEF g
<1>17. Contents' /\ PipeEnds'
  BY <1>3, NewContents DEF g
<1>18. \A k \in 1..Len(ops) : /\ Outside(ops[k]) /\ ops[k][1] \notin {"chdir3", "exit2"}
                              /\ ops[k][1] \in LastOps => k = Len(ops) /\ Len(todo[p]) = 1
  BY <1>1, <1>10
<1>19. (\A k \in 1..Len(ops) : OpenAfter(p, ops[k])) /\ \A q \in Procs : q # p => ofile'[q] = ofile[q]
  BY <1>3, <1>10
<1>. QED
  BY <1>0, <1>3, <1>11, <1>12, <1>13, <1>14, <1>15, <1>16, <1>17, <1>18, <1>19, TailMove

(* exit(): one descriptor is closed.                                       *)
LEMMA Exit1Keeps ==
    ASSUME Core, NEW p \in Procs, Exit1(p)
    PROVE  Core'
<1>0. At(p, "exit1") /\ "exit1" \in FileOps /\ "exit1" \in TailOps
  BY DEF Exit1, FileOps, TailOps
<1>1. /\ Types /\ SlotRefs /\ FileRefs /\ todo[p] # << >> /\ todo[p][1][1] = "exit1"
      /\ Outside(todo[p][1]) /\ Arg(p, 1) = todo[p][1][2] /\ IsSeq(todo[p])
  BY <1>0, TailAt DEF Core
<1>. DEFINE fd == todo[p][1][2]
            f == ofile[p][fd]
            ops == IF f = 0 THEN << >> ELSE << <<"fclose", f>> >>
            last == todo[p][Len(todo[p])]
<1>2. fd \in Fds /\ FileOf(todo[p][1]) = 0 /\ OtherOf(todo[p][1]) = 0
  BY <1>1 DEF Outside, InodeOps, FileOf, OtherOf
<1>3. /\ UNCHANGED <<icache, reg, cwd, ftable, alive, pipes>> /\ Then(p, ops)
      /\ ofile' = [ofile EXCEPT ![p][fd] = 0]
  BY <1>1 DEF Exit1
<1>4. last[1] = "exit2" /\ Len(todo[p]) # 1
  <2>1. 1 \in 1..Len(todo[p])
    BY <1>1, SeqFacts
  <2>2. last[1] = "exit2"
    BY <1>1, <2>1 DEF Core, Exiting
  <2>. QED
    BY <1>1, <2>2
<1>. HIDE DEF fd, f, last
<1>5. f \in Files \cup {0} /\ (f # 0 => f \in Files /\ ofile[p][fd] = f)
  BY <1>1, <1>2 DEF Types, f
<1>6. /\ ofile'[p][fd] = 0 /\ \A fe \in Fds : fe # fd => ofile'[p][fe] = ofile[p][fe]
      /\ \A q \in Procs : q # p => ofile'[q] = ofile[q]
      /\ ofile' \in [Procs -> [Fds -> Files \cup {0}]]
  BY <1>1, <1>2, <1>3 DEF Types
<1>7. Fits(p, ops, f, 0)
  <2>1. CASE f = 0
    BY <2>1, NoneFits
  <2>2. CASE f # 0
    <3>. DEFINE x == <<"fclose", f>>
    <3>1. ops = <<x>>
      BY <2>2
    <3>2. Outside(x) /\ OpenAfter(p, x) /\ x[1] = "fclose" /\ FileOf(x) = f /\ OtherOf(x) = 0
      BY <1>5, <2>2 DEF Outside, OpenAfter, FileOf, OtherOf
    <3>. HIDE DEF x, ops
    <3>. QED
      BY <3>1, <3>2, OneFits
  <2>. QED
    BY <2>1, <2>2
<1>. HIDE DEF ops
<1>8. /\ Few(ops)
      /\ \A k \in 1..Len(ops) : /\ Outside(ops[k]) /\ OpenAfter(p, ops[k]) /\ k = Len(ops)
                                /\ ops[k][1] \in {"fclose", "pipe1", "pipe2"}
      /\ \A v \in Slots : Sum5(SlotVals(ops), v) = 0
      /\ \A v \in Files : Sum5(FileVals(ops), v) = Is(f, v) /\ Sum5(OtherVals(ops), v) = Is(0, v)
  BY <1>7 DEF Fits
<1>9. \A k \in 1..Len(ops) : ops[k][1] = "fclose"
  BY Ops0, Ops1 DEF ops
<1>10. After(p, ops)
  BY <1>1, <1>3, <1>8, ThenAfter DEF Few
<1>11. SlotRefs'
  <2>1. 1 \in Files
    BY SizesAre DEF Files
  <2>2. \A v \in Slots : Sum5(SlotVals(ops), v) + Is(ftable'[1].ip, v) = Is(ftable[1].ip, v)
    BY <1>3, <1>8, <2>1, IsInt
  <2>3. \A h \in Files : h # 1 => ftable'[h].ip = ftable[h].ip
    BY <1>3
  <2>4. \A k \in 1..Len(ops) : Outside(ops[k]) /\ ops[k][1] \notin {"chdir3", "exit2"}
    BY <1>8
  <2>. QED
    BY <1>0, <1>3, <1>10, <2>1, <2>2, <2>3, <2>4, FileSlots
<1>12. FileRefs'
  <2>1. \A v \in Files : ftable'[v].ref \in Int /\ FileTurn(p, ops, f, 0, v)
    <3>. TAKE v \in Files
    <3>1. Is(f, v) \in Int /\ Is(0, v) = 0
      BY SizesAre, IsInt DEF Is
    <3>2. ftable'[v].ref = ftable[v].ref /\ ftable[v].ref \in Int
      BY <1>1, <1>3, FileCounts
    <3>3. ftable'[v].ref + 0 + 0 + Is(f, v) = ftable[v].ref + Is(f, v) + 0 + 0
      BY <3>1, <3>2
    <3>. QED
      BY <1>2, <1>8, <3>1, <3>2, <3>3 DEF FileTurn
  <2>2. f = ofile[p][fd] /\ 0 = ofile'[p][fd]
    BY <1>6 DEF f
  <2>3. \A q \in Procs : \A fe \in Fds : ~(q = p /\ fe = fd) => ofile'[q][fe] = ofile[q][fe]
    BY <1>6
  <2>. QED
    BY <1>2, <1>10, <2>1, <2>2, <2>3, FileRefsTurn
<1>13. FilesTyped
  BY <1>1, <1>3, <1>6 DEF Types, FilesTyped
<1>14. ExitingAt(p)'
  <2>1. todo'[p] # << >> /\ todo'[p][Len(todo'[p])] = last
    BY <1>4, <1>10, Along DEF last
  <2>2. ASSUME NEW fe \in Fds, ofile'[p][fe] # 0
        PROVE  \E k \in 1..Len(todo'[p]) : todo'[p][k] = <<"exit1", fe>>
    <3>1. fe # fd /\ ofile[p][fe] # 0
      BY <1>6, <2>2
    <3>2. PICK j \in 1..Len(todo[p]) : todo[p][j] = <<"exit1", fe>>
      BY <1>1, <1>4, <3>1 DEF Core, Exiting, last
    <3>3. j # 1
      BY <3>1, <3>2 DEF fd
    <3>4. j \in 2..Len(todo[p])
      BY <1>10, <3>3, Along
    <3>5. PICK k \in 1..Len(todo'[p]) : todo'[p][k] = todo[p][j]
      BY <1>10, <3>4, Along
    <3>. QED
      BY <3>2, <3>5
  <2>. QED
    BY <1>4, <2>1, <2>2 DEF ExitingAt, Fds
<1>15. ASSUME NEW q \in Procs, NEW j \in 1..Len(todo[q])
       PROVE  OpenAfter(q, todo[q][j])
  <2>. DEFINE T == {g \in Files : g = f}
  <2>1. ASSUME f # 0, Concerns(todo[q][j], f)
        PROVE  FALSE
    <3>1. New(f) /\ (FileOf(todo[q][j]) = f \/ OtherOf(todo[q][j]) = f
                     \/ \E fe \in Fds : ofile[q][fe] = f)
      BY <1>5, <2>1, ConcernsNew
    <3>2. FileOf(todo[q][j]) # f /\ OtherOf(todo[q][j]) # f
          /\ ((\E fe \in Fds : ofile[q][fe] = f) => q = p)
      BY <1>1, <1>2, <1>5, <2>1, <3>1, OneUser DEF New
    <3>3. q = p /\ todo[q][j][1] = "open4"
      BY <2>1, <3>1, <3>2 DEF Concerns
    <3>4. j = Len(todo[p])
      BY <3>3 DEF Core, Lasts, LastOps
    <3>. QED
      BY <1>4, <3>3, <3>4 DEF last
  <2>2. \A g \in Files \ T : ftable'[g].ref = ftable[g].ref /\ ftable'[g].type = ftable[g].type
    BY <1>3
  <2>3. \A g \in Files \ T : \A fe \in Fds : ofile[q][fe] = g => ofile'[q][fe] = g
    BY <1>6 DEF f
  <2>4. \A g \in T : ~Concerns(todo[q][j], g)
    BY <2>1, SizesAre
  <2>. HIDE DEF T
  <2>. QED
    BY <2>2, <2>3, <2>4, OpeningApart
<1>16. Contents' /\ PipeEnds'
  <2>1. CacheKept
    BY <1>1, <1>3, CacheUnchanged DEF CacheMoves
  <2>. QED
    BY <1>3, <2>1, ContentsStay
<1>17. \A k \in 1..Len(ops) : /\ Outside(ops[k]) /\ ops[k][1] \notin {"chdir3", "exit2"}
                              /\ ops[k][1] \in LastOps => k = Len(ops) /\ Len(todo[p]) = 1
  BY <1>8, <1>9 DEF LastOps
<1>18. (\A k \in 1..Len(ops) : OpenAfter(p, ops[k])) /\ \A q \in Procs : q # p => ofile'[q] = ofile[q]
  BY <1>6, <1>8
<1>. QED
  BY <1>0, <1>3, <1>10, <1>11, <1>12, <1>13, <1>14, <1>15, <1>16, <1>17, <1>18, TailMove

-----------------------------------------------------------------------------
(* There is a page for a pipe when there is a struct file for its end: the *)
(* pipes in use have an end each.                                          *)
LEMMA PageFree ==
    ASSUME Core, NEW f \in Files, New(f)
    PROVE  LET k == Min({j \in DOMAIN pipes : pipes[j] = {}})
           IN  k \in Files /\ pipes[k] = {} /\ \A x \in Files : ftable[x].pipe # k
<1>0. /\ DOMAIN pipes = Files /\ IsFiniteSet(Files) /\ Files \in SUBSET Nat /\ ftable[f].pipe = 0
      /\ 0 \notin Files
  BY SizesAre DEF Core, Types, Contents, New
<1>1. \A j \in Files : pipes[j] = {ftable[x].end : x \in {g \in Files : ftable[g].pipe = j}}
  BY DEF Core, PipeEnds
<1>. DEFINE free == {j \in DOMAIN pipes : pipes[j] = {}}
<1>2. free # {}
  <2>. SUFFICES ASSUME free = {}
                PROVE  FALSE
    OBVIOUS
  <2>. DEFINE S == Files \ {f}
              h == [x \in S |-> IF ftable[x].pipe \in Files THEN ftable[x].pipe ELSE f]
  <2>1. \A j \in Files : \E x \in S : h[x] = j
    <3>. TAKE j \in Files
    <3>1. pipes[j] # {}
      BY <1>0
    <3>2. PICK x \in Files : ftable[x].pipe = j
      BY <1>1, <3>1
    <3>3. x \in S
      BY <1>0, <3>2
    <3>4. h[x] = j
      BY <3>2, <3>3
    <3>. QED
      BY <3>3, <3>4
  <2>2. h \in [S -> Files]
    OBVIOUS
  <2>. HIDE DEF h, S
  <2>3. h \in Surjection(S, Files)
    BY <2>1, <2>2 DEF Surjection
  <2>4. IsFiniteSet(S) /\ Cardinality(S) = Cardinality(Files) - 1
    BY <1>0, FS_RemoveElement DEF S
  <2>5. Cardinality(Files) <= Cardinality(S)
    BY <2>3, <2>4, FS_Surjection
  <2>6. Cardinality(Files) \in Nat
    BY <1>0, FS_CardinalityType
  <2>. QED
    BY <2>4, <2>5, <2>6
<1>3. free \in SUBSET Nat
  BY <1>0
<1>. HIDE DEF free
<1>4. Min(free) \in free
  BY <1>2, <1>3, MinIn
<1>. DEFINE k == Min(free)
<1>5. k \in Files /\ pipes[k] = {}
  BY <1>0, <1>4 DEF free
<1>. HIDE DEF k
<1>6. \A x \in Files : ftable[x].pipe # k
  BY <1>1, <1>5
<1>. QED
  BY <1>5, <1>6 DEF k, free

(* Both ends of a new pipe.                                                *)
Becomes(x, k, e) ==
    /\ ftable'[x].ref = ftable[x].ref /\ ftable'[x].ip = ftable[x].ip
    /\ ftable'[x].type = "pipe" /\ ftable'[x].pipe = k /\ ftable'[x].end = e
    /\ DOMAIN ftable'[x] = DOMAIN Closed

LEMMA BecomesPipe ==
    ASSUME Types, NEW x \in Files, NEW k, NEW e,
           ftable'[x] = [ftable[x] EXCEPT !.type = "pipe", !.pipe = k, !.end = e]
    PROVE  Becomes(x, k, e)
<1>1. DOMAIN ftable[x] = {"ref", "type", "ip", "inum", "pipe", "end"}
  BY DEF Types, Closed
<1>. QED
  BY <1>1 DEF Becomes, Closed

LEMMA PipeMade ==
    ASSUME Core, NEW f \in Files, NEW g \in Files, f # g, New(f), New(g), NEW k \in Files,
           pipes[k] = {}, \A x \in Files : ftable[x].pipe # k,
           UNCHANGED icache, pipes' = [pipes EXCEPT ![k] = {"r", "w"}],
           \A x \in Files : x # f /\ x # g => ftable'[x] = ftable[x],
           Becomes(f, k, "r"), Becomes(g, k, "w")
    PROVE  /\ \A x \in Files : /\ ftable'[x].ref = ftable[x].ref /\ ftable'[x].ip = ftable[x].ip
                               /\ DOMAIN ftable'[x] = DOMAIN Closed /\ ftable'[x].end \in {"r", "w"}
           /\ DOMAIN pipes' = Files /\ Contents' /\ PipeEnds'
<1>0. /\ \A x \in Files : DOMAIN ftable[x] = DOMAIN Closed /\ ftable[x].end \in {"r", "w"}
      /\ DOMAIN pipes = Files /\ Contents /\ PipeEnds
  BY DEF Core, Types
<1>1. k # 0
  BY SizesAre
<1>4. /\ ftable[f].ref = 1 /\ ftable[f].ip = 0 /\ ftable[f].pipe = 0
      /\ ftable[g].ref = 1 /\ ftable[g].ip = 0 /\ ftable[g].pipe = 0
  BY <1>0 DEF New, Contents
<1>2. /\ ftable'[f].ref = 1 /\ ftable'[f].type = "pipe" /\ ftable'[f].ip = 0
      /\ ftable'[f].pipe = k /\ ftable'[f].end = "r" /\ DOMAIN ftable'[f] = DOMAIN Closed
  BY <1>4 DEF Becomes
<1>3. /\ ftable'[g].ref = 1 /\ ftable'[g].type = "pipe" /\ ftable'[g].ip = 0
      /\ ftable'[g].pipe = k /\ ftable'[g].end = "w" /\ DOMAIN ftable'[g] = DOMAIN Closed
  BY <1>4 DEF Becomes
<1>5. ASSUME NEW x \in Files
      PROVE  /\ ftable'[x].ref = ftable[x].ref /\ ftable'[x].ip = ftable[x].ip
             /\ DOMAIN ftable'[x] = DOMAIN Closed /\ ftable'[x].end \in {"r", "w"}
  <2>1. CASE x # f /\ x # g
    BY <1>0, <2>1
  <2>2. CASE x = f
    BY <1>2, <1>4, <2>2
  <2>3. CASE x = g
    BY <1>3, <1>4, <2>3
  <2>. QED
    BY <2>1, <2>2, <2>3
<1>6. Contents'
  <2>1. ASSUME NEW x \in Files
        PROVE  /\ ftable'[x].ref = 0 => ftable'[x] = Closed
               /\ ftable'[x].type = "inode" =>
                    ftable'[x].ip \in Slots /\ icache'[ftable'[x].ip].inum = ftable'[x].inum
               /\ ftable'[x].type # "inode" => ftable'[x].ip = 0
               /\ ftable'[x].type = "pipe" => ftable'[x].pipe \in Files
               /\ ftable'[x].type # "pipe" => ftable'[x].pipe = 0
    <3>1. CASE x # f /\ x # g
      BY <1>0, <3>1 DEF Contents
    <3>2. CASE x = f
      BY <1>2, <3>2
    <3>3. CASE x = g
      BY <1>3, <3>3
    <3>. QED
      BY <3>1, <3>2, <3>3
  <2>. QED
    BY <2>1 DEF Contents, Files, Slots, Closed
<1>7. PipeEnds'
  <2>. DEFINE ends(j) == {ftable'[x].end : x \in {y \in Files : ftable'[y].pipe = j}}
  <2>1. /\ \A x, y \in Files : ftable[x].pipe = ftable[y].pipe /\ ftable[x].end = ftable[y].end
                               /\ x # y => ftable[x].pipe = 0
        /\ \A j \in Files :
             pipes[j] = {ftable[x].end : x \in {y \in Files : ftable[y].pipe = j}}
    BY <1>0 DEF PipeEnds
  <2>2. ASSUME NEW x \in Files, NEW y \in Files, ftable'[x].pipe = ftable'[y].pipe,
               ftable'[x].end = ftable'[y].end, x # y
        PROVE  ftable'[x].pipe = 0
    <3>1. \A z \in Files : z # f /\ z # g => ftable'[z].pipe # k /\ ftable'[z].pipe = ftable[z].pipe
                                             /\ ftable'[z].end = ftable[z].end
      OBVIOUS
    <3>2. CASE x # f /\ x # g /\ y # f /\ y # g
      BY <2>1, <2>2, <3>1, <3>2
    <3>3. CASE x = f \/ x = g
      BY <1>2, <1>3, <2>2, <3>1, <3>3
    <3>4. CASE y = f \/ y = g
      BY <1>2, <1>3, <2>2, <3>1, <3>4
    <3>. QED
      BY <3>2, <3>3, <3>4
  <2>3. \A j \in Files : pipes'[j] = ends(j)
    <3>. TAKE j \in Files
    <3>1. CASE j = k
      <4>1. {y \in Files : ftable'[y].pipe = j} = {f, g}
        BY <1>2, <1>3, <3>1
      <4>2. pipes'[j] = {"r", "w"}
        BY <1>0, <3>1
      <4>. QED
        BY <1>2, <1>3, <4>1, <4>2
    <3>2. CASE j # k
      <4>1. j # 0
        BY SizesAre
      <4>2. {y \in Files : ftable'[y].pipe = j} = {y \in Files : ftable[y].pipe = j}
        BY <1>2, <1>3, <1>4, <3>2, <4>1
      <4>3. \A y \in Files : ftable'[y].pipe = j => ftable'[y].end = ftable[y].end
        BY <1>2, <1>3, <3>2
      <4>4. pipes'[j] = pipes[j]
        BY <1>0, <3>2
      <4>. QED
        BY <2>1, <4>2, <4>3, <4>4
    <3>. QED
      BY <3>1, <3>2
  <2>. QED
    BY <2>2, <2>3 DEF PipeEnds, Files
<1>. QED
  BY <1>0, <1>5, <1>6, <1>7

(* Both files are closed again.                                            *)
LEMMA UndoFits ==
    ASSUME NEW p, NEW f \in Files, NEW g \in Files
    PROVE  LET ops == << <<"fclose", f>>, <<"fclose", g>> >> IN
           /\ Few(ops)
           /\ \A k \in 1..Len(ops) : /\ Outside(ops[k]) /\ OpenAfter(p, ops[k])
                                     /\ ops[k][1] = "fclose"
           /\ \A v \in Slots : Sum5(SlotVals(ops), v) = 0
           /\ \A v \in Files : Sum5(FileVals(ops), v) = Is(f, v) + Is(g, v)
                               /\ Sum5(OtherVals(ops), v) = 0
<1>. DEFINE x == <<"fclose", f>>
            y == <<"fclose", g>>
            ops == <<x, y>>
<1>1. /\ x[1] = "fclose" /\ y[1] = "fclose" /\ FileOf(x) = f /\ FileOf(y) = g
      /\ SlotOf(x) = 0 /\ SlotOf(y) = 0 /\ OtherOf(x) = 0 /\ OtherOf(y) = 0
      /\ Outside(x) /\ Outside(y) /\ OpenAfter(p, x) /\ OpenAfter(p, y)
  BY DEF FileOf, SlotOf, OtherOf, Outside, OpenAfter
<1>. HIDE DEF x, y
<1>2. /\ Few(ops) /\ Len(ops) = 2 /\ ops[1] = x /\ ops[2] = y
      /\ \A v : v # 0 => Sum5(SlotVals(ops), v) = Sum2(x, y, v)
  BY Ops2
<1>. HIDE DEF ops
<1>3. \A k \in 1..Len(ops) : k = 1 \/ k = 2
  BY <1>2
<1>4. \A v \in Slots \cup Files : v # 0 /\ Is(0, v) = 0
  BY SizesAre DEF Is
<1>5. \A v \in Slots : Sum5(SlotVals(ops), v) = 0
  BY <1>1, <1>2, <1>4 DEF Sum2, Sum1
<1>6. /\ FileVals(ops)[1] = f /\ FileVals(ops)[2] = g
      /\ \A k \in 3..5 : FileVals(ops)[k] = 0
  BY <1>1, <1>2 DEF FileVals
<1>7. \A v \in Files : Sum5(FileVals(ops), v) = Is(f, v) + Is(g, v)
  <2>. TAKE v \in Files
  <2>. DEFINE m == FileVals(ops)
  <2>1. v # 0 /\ m[1] = f /\ m[2] = g /\ m[3] = 0 /\ m[4] = 0 /\ m[5] = 0
    BY <1>4, <1>6
  <2>. HIDE DEF m
  <2>2. Sum5(m, v) = Is(m[1], v) + Is(m[2], v)
    BY <2>1, SumTwo
  <2>. QED
    BY <2>1, <2>2 DEF m
<1>8. \A v \in Files : Sum5(OtherVals(ops), v) = 0
  <2>1. \A k \in 1..Len(ops) : OtherOf(ops[k]) = 0
    BY <1>1, <1>2, <1>3
  <2>. QED
    BY <1>2, <2>1, NoOthers
<1>9. \A k \in 1..Len(ops) : Outside(ops[k]) /\ OpenAfter(p, ops[k]) /\ ops[k][1] = "fclose"
  BY <1>1, <1>2, <1>3
<1>. QED
  BY <1>2, <1>5, <1>7, <1>8, <1>9 DEF ops, x, y

(* The section before pipe() returns, whatever comes of it.                *)
LEMMA Pipe2Ends ==
    ASSUME Core, NEW p \in Procs, At(p, "pipe2"), NEW f, NEW g,
           f = todo[p][1][2], g = todo[p][1][3],
           NEW ops, After(p, ops),
           \A k \in 1..Len(ops) : /\ Outside(ops[k]) /\ OpenAfter(p, ops[k]) /\ ops[k][1] = "fclose",
           \A v \in Slots : Sum5(SlotVals(ops), v) = 0,
           UNCHANGED <<icache, reg, cwd, alive>>, FilesTyped, FileRefs', Contents', PipeEnds',
           \A x \in Files : ftable'[x].ip = ftable[x].ip /\ ftable'[x].ref = ftable[x].ref
                            /\ (x # f /\ x # g => ftable'[x] = ftable[x]),
           \A q \in Procs : q # p => ofile'[q] = ofile[q],
           \A fd \in Fds : ofile[p][fd] # 0 => ofile'[p][fd] = ofile[p][fd]
    PROVE  Core'
<1>0. /\ "pipe2" \in FileOps /\ "pipe2" \in TailOps /\ "pipe2" \in LastOps
  BY DEF FileOps, TailOps, LastOps
<1>1. /\ Types /\ SlotRefs /\ FileRefs /\ todo[p] # << >> /\ todo[p][1][1] = "pipe2"
      /\ Outside(todo[p][1]) /\ Len(todo[p]) = 1 /\ 1 \in 1..Len(todo[p])
  BY <1>0, TailAt DEF Core
<1>2. /\ f \in Files /\ g \in Files /\ FileOf(todo[p][1]) = f /\ OtherOf(todo[p][1]) = g
  BY <1>1 DEF Outside, InodeOps, FileOf, OtherOf
<1>3. ftable[f].ref = 1 /\ ftable[g].ref = 1
  BY <1>1 DEF Core, Opening, New
<1>4. SlotRefs'
  <2>1. 1 \in Files
    BY SizesAre DEF Files
  <2>2. \A v \in Slots : Sum5(SlotVals(ops), v) + Is(ftable'[1].ip, v) = Is(ftable[1].ip, v)
    BY <2>1, IsInt
  <2>3. \A h \in Files : h # 1 => ftable'[h].ip = ftable[h].ip
    OBVIOUS
  <2>4. \A k \in 1..Len(ops) : Outside(ops[k]) /\ ops[k][1] \notin {"chdir3", "exit2"}
    OBVIOUS
  <2>. QED
    BY <1>0, <2>1, <2>2, <2>3, <2>4, FileSlots
<1>5. ASSUME NEW q \in Procs, NEW j \in 1..Len(todo[q]), ~(q = p /\ j = 1)
      PROVE  OpenAfter(q, todo[q][j])
  <2>. DEFINE T == {x \in Files : x = f \/ x = g}
  <2>1. ~Concerns(todo[q][j], f)
    BY <1>1, <1>2, <1>3, <1>5, OnlyHead
  <2>2. ~Concerns(todo[q][j], g)
    BY <1>1, <1>2, <1>3, <1>5, OnlyHead
  <2>3. \A x \in Files \ T : ftable'[x].ref = ftable[x].ref /\ ftable'[x].type = ftable[x].type
    OBVIOUS
  <2>4. \A x \in Files \ T : \A fd \in Fds : ofile[q][fd] = x => ofile'[q][fd] = x
    BY SizesAre
  <2>5. \A x \in T : ~Concerns(todo[q][j], x)
    BY <2>1, <2>2
  <2>. HIDE DEF T
  <2>. QED
    BY <2>3, <2>4, <2>5, OpeningApart
<1>6. ExitingAt(p)'
  <2>1. \A k \in 1..Len(ops) : ops[k][1] \notin {"exit1", "exit2"}
    OBVIOUS
  <2>. QED
    BY <1>1, <2>1, ExitingAlong
<1>7. \A k \in 1..Len(ops) : /\ Outside(ops[k]) /\ ops[k][1] \notin {"chdir3", "exit2"}
                             /\ ops[k][1] \in LastOps => k = Len(ops) /\ Len(todo[p]) = 1
  BY DEF LastOps
<1>. QED
  BY <1>0, <1>4, <1>5, <1>6, <1>7, TailMove

(* pipe(): give up, or make the pipe; the last descriptor may be missing.  *)
LEMMA Pipe2Keeps ==
    ASSUME Core, NEW p \in Procs, Pipe2(p)
    PROVE  Core'
<1>0. /\ At(p, "pipe2") /\ "pipe2" \in FileOps /\ "pipe2" \in TailOps /\ "pipe2" \in LastOps
  BY DEF Pipe2, FileOps, TailOps, LastOps
<1>1. /\ Types /\ SlotRefs /\ FileRefs /\ todo[p] # << >> /\ todo[p][1][1] = "pipe2"
      /\ Outside(todo[p][1]) /\ Len(todo[p]) = 1 /\ 1 \in 1..Len(todo[p])
      /\ Arg(p, 1) = todo[p][1][2] /\ Arg(p, 2) = todo[p][1][3]
  BY <1>0, TailAt DEF Core
<1>. DEFINE f == todo[p][1][2]
            g == todo[p][1][3]
            k == Min({j \in DOMAIN pipes : pipes[j] = {}})
            fds == {fd \in 1..NOFILE : ofile[p][fd] = 0}
            fd0 == Min(fds)
            fd1 == Min(fds \ {fd0})
            undo == << <<"fclose", f>>, <<"fclose", g>> >>
            made == /\ pipes' = [pipes EXCEPT ![k] = {"r", "w"}]
                    /\ ftable' = [ftable EXCEPT
                         ![f] = [@ EXCEPT !.type = "pipe", !.pipe = k, !.end = "r"],
                         ![g] = [@ EXCEPT !.type = "pipe", !.pipe = k, !.end = "w"]]
<1>2. /\ f \in Files /\ g \in Files /\ FileOf(todo[p][1]) = f /\ OtherOf(todo[p][1]) = g
  BY <1>1 DEF Outside, InodeOps, FileOf, OtherOf
<1>3. /\ UNCHANGED <<icache, reg, cwd, alive>>
      /\ \/ Then(p, undo) /\ UNCHANGED <<ftable, ofile, pipes>>
         \/ made /\ Cardinality(fds) < 2 /\ Then(p, undo) /\ UNCHANGED ofile
         \/ /\ made /\ ~(Cardinality(fds) < 2) /\ Then(p, << >>)
            /\ ofile' = [ofile EXCEPT ![p][fd0] = f, ![p][fd1] = g]
  BY <1>1 DEF Pipe2
<1>4. New(f) /\ New(g)
  BY <1>1 DEF Core, Opening
<1>5. f # g
  BY <1>1, <1>2, <1>4, OneUser DEF New
<1>. HIDE DEF f, g
<1>6. k \in Files /\ pipes[k] = {} /\ \A x \in Files : ftable[x].pipe # k
  BY <1>2, <1>4, PageFree
<1>7. \A v \in Files : /\ ftable[v].ref \in Int
                       /\ Is(0, v) = 0 /\ Is(f, v) \in Int /\ Is(g, v) \in Int
  BY <1>1, SizesAre, FileCounts, IsInt DEF Is
<1>. HIDE DEF k
<1>8. /\ Few(undo)
      /\ \A j \in 1..Len(undo) : /\ Outside(undo[j]) /\ OpenAfter(p, undo[j])
                                 /\ undo[j][1] = "fclose"
      /\ \A v \in Slots : Sum5(SlotVals(undo), v) = 0
      /\ \A v \in Files : Sum5(FileVals(undo), v) = Is(f, v) + Is(g, v)
                          /\ Sum5(OtherVals(undo), v) = 0
  BY <1>2, UndoFits
<1>. HIDE DEF undo
<1>9. ASSUME made
      PROVE  /\ \A x \in Files : /\ ftable'[x].ref = ftable[x].ref /\ ftable'[x].ip = ftable[x].ip
                                 /\ DOMAIN ftable'[x] = DOMAIN Closed /\ ftable'[x].end \in {"r", "w"}
                                 /\ (x # f /\ x # g => ftable'[x] = ftable[x])
             /\ ftable' = [x \in Files |-> ftable'[x]]
             /\ DOMAIN pipes' = Files /\ Contents' /\ PipeEnds'
  <2>. DEFINE c == [ftable[f] EXCEPT !.type = "pipe", !.pipe = k, !.end = "r"]
              d == [ftable[g] EXCEPT !.type = "pipe", !.pipe = k, !.end = "w"]
  <2>1. DOMAIN ftable = Files
    BY <1>1 DEF Types
  <2>2. ftable' = [ftable EXCEPT ![f] = c, ![g] = d]
    BY <1>2, <1>5, <1>9, <2>1
  <2>. HIDE DEF made, c, d
  <2>3. /\ ftable'[f] = c /\ ftable'[g] = d /\ ftable' = [x \in Files |-> ftable'[x]]
        /\ \A x \in Files : x # f /\ x # g => ftable'[x] = ftable[x]
    BY <1>2, <1>5, <2>1, <2>2
  <2>4. Becomes(f, k, "r") /\ Becomes(g, k, "w")
    BY <1>1, <1>2, <2>3, BecomesPipe DEF c, d
  <2>5. pipes' = [pipes EXCEPT ![k] = {"r", "w"}]
    BY <1>9 DEF made
  <2>6. f \in Files /\ g \in Files /\ UNCHANGED icache
    BY <1>2, <1>3
  <2>7. \A x \in Files : x # f /\ x # g => ftable'[x] = ftable[x]
    BY <2>3
  <2>8. ftable' = [x \in Files |-> ftable'[x]]
    BY <2>3
  <2>9. /\ \A x \in Files : /\ ftable'[x].ref = ftable[x].ref /\ ftable'[x].ip = ftable[x].ip
                             /\ DOMAIN ftable'[x] = DOMAIN Closed /\ ftable'[x].end \in {"r", "w"}
        /\ DOMAIN pipes' = Files /\ Contents' /\ PipeEnds'
    BY <1>4, <1>5, <1>6, <2>4, <2>5, <2>6, <2>7, PipeMade
  <2>. QED
    BY <2>7, <2>8, <2>9
<1>10. ASSUME Then(p, undo), UNCHANGED ofile, FilesTyped, Contents', PipeEnds',
              \A x \in Files : /\ ftable'[x].ref = ftable[x].ref /\ ftable'[x].ip = ftable[x].ip
                               /\ (x # f /\ x # g => ftable'[x] = ftable[x])
       PROVE  Core'
  <2>1. After(p, undo)
    BY <1>1, <1>8, <1>10, ThenAfter DEF Few
  <2>2. FileRefs'
    <3>1. \A v \in Files : ftable'[v].ref \in Int /\ FileEven(p, undo, v)
      <4>. TAKE v \in Files
      <4>1. ftable'[v].ref = ftable[v].ref
        BY <1>10
      <4>2. ftable'[v].ref + Is(f, v) + Is(g, v) = ftable[v].ref + (Is(f, v) + Is(g, v)) + 0
        BY <1>7, <4>1
      <4>. QED
        BY <1>2, <1>7, <1>8, <4>1, <4>2 DEF FileEven
    <3>. QED
      BY <1>10, <2>1, <3>1, FilesEven
  <2>3. f = todo[p][1][2] /\ g = todo[p][1][3]
    BY DEF f, g
  <2>4. (\A q \in Procs : q # p => ofile'[q] = ofile[q])
        /\ \A fd \in Fds : ofile[p][fd] # 0 => ofile'[p][fd] = ofile[p][fd]
    BY <1>10
  <2>. QED
    BY <1>0, <1>3, <1>8, <1>10, <2>1, <2>2, <2>3, <2>4, Pipe2Ends
<1>. HIDE DEF made
<1>11. CASE Then(p, undo) /\ UNCHANGED <<ftable, ofile, pipes>>
  <2>1. CacheKept
    BY <1>1, <1>3, CacheUnchanged DEF CacheMoves
  <2>2. Contents' /\ PipeEnds'
    BY <1>11, <2>1, ContentsStay
  <2>3. FilesTyped
    BY <1>1, <1>3, <1>11 DEF Types, FilesTyped
  <2>. QED
    BY <1>10, <1>11, <2>2, <2>3
<1>12. CASE made /\ Cardinality(fds) < 2 /\ Then(p, undo) /\ UNCHANGED ofile
  <2>1. FilesTyped
    BY <1>1, <1>3, <1>9, <1>12 DEF Types, FilesTyped
  <2>. QED
    BY <1>9, <1>10, <1>12, <2>1
<1>13. CASE /\ made /\ ~(Cardinality(fds) < 2) /\ Then(p, << >>)
            /\ ofile' = [ofile EXCEPT ![p][fd0] = f, ![p][fd1] = g]
  <2>. DEFINE ops == << >>
  <2>1. After(p, ops)
    BY <1>1, <1>13, ThenAfter, Ops0 DEF Few
  <2>2. Few(ops) /\ Len(ops) = 0 /\ \A v : v # 0 =>
          Sum5(SlotVals(ops), v) = 0 /\ Sum5(FileVals(ops), v) = 0 /\ Sum5(OtherVals(ops), v) = 0
    BY Ops0, NoOp
  <2>. HIDE DEF ops
  <2>3. /\ fd0 \in Fds /\ fd1 \in Fds /\ fd0 # fd1 /\ ofile[p][fd0] = 0 /\ ofile[p][fd1] = 0
    <3>1. fds \in SUBSET Fds /\ fds \in SUBSET Nat /\ IsFiniteSet(Fds)
      BY SizesAre DEF Fds
    <3>2. \A x \in fds : x \in Fds /\ ofile[p][x] = 0
      BY DEF Fds
    <3>3. ~(Cardinality(fds) < 2)
      BY <1>13
    <3>. HIDE DEF fds
    <3>4. IsFiniteSet(fds) /\ Cardinality(fds) \in Nat
      BY <3>1, FS_Subset, FS_CardinalityType
    <3>5. fds # {}
      BY <3>3, FS_EmptySet
    <3>6. fd0 \in fds
      BY <3>1, <3>5, MinIn
    <3>. HIDE DEF fd0
    <3>7. IsFiniteSet(fds \ {fd0}) /\ Cardinality(fds \ {fd0}) = Cardinality(fds) - 1
      BY <3>4, <3>6, FS_RemoveElement
    <3>8. Cardinality(fds \ {fd0}) # 0
      BY <3>3, <3>4, <3>7
    <3>9. fds \ {fd0} # {} /\ fds \ {fd0} \in SUBSET Nat
      BY <3>1, <3>8, FS_EmptySet
    <3>. DEFINE rest == fds \ {fd0}
    <3>. HIDE DEF rest
    <3>10. Min(rest) \in rest
      BY <3>9, MinIn DEF rest
    <3>. QED
      BY <3>2, <3>6, <3>10 DEF rest
  <2>. HIDE DEF fd0, fd1, fds
  <2>4. /\ ofile'[p][fd0] = f /\ ofile'[p][fd1] = g
        /\ \A fd \in Fds : fd # fd0 /\ fd # fd1 => ofile'[p][fd] = ofile[p][fd]
        /\ \A q \in Procs : q # p => ofile'[q] = ofile[q]
        /\ ofile' \in [Procs -> [Fds -> Files \cup {0}]]
    BY <1>1, <1>2, <1>13, <2>3 DEF Types
  <2>5. \A x \in Files : ftable'[x].ref = ftable[x].ref
    BY <1>9, <1>13
  <2>6. FileRefs'
    <3>. DEFINE x == <<p, fd0>>
                y == <<p, fd1>>
    <3>1. x # y /\ x \in Procs \X Fds /\ y \in Procs \X Fds
      BY <2>3
    <3>2. DOMAIN Descs = Procs \X Fds /\ DOMAIN Descs' = Procs \X Fds
      BY DEF Descs, Fds
    <3>3. \A q \in Procs : \A fe \in Fds : Descs[<<q, fe>>] = ofile[q][fe]
                                           /\ Descs'[<<q, fe>>] = ofile'[q][fe]
      BY DEF Descs, Fds
    <3>4. Descs[x] = 0 /\ Descs[y] = 0 /\ Descs'[x] = f /\ Descs'[y] = g
      BY <2>3, <2>4, <3>3
    <3>5. \A z \in Procs \X Fds : z # x /\ z # y => Descs'[z] = Descs[z]
      <4>. SUFFICES ASSUME NEW q \in Procs, NEW fe \in Fds, <<q, fe>> # x, <<q, fe>> # y
                    PROVE  Descs'[<<q, fe>>] = Descs[<<q, fe>>]
        OBVIOUS
      <4>1. q # p \/ (fe # fd0 /\ fe # fd1)
        OBVIOUS
      <4>2. ofile'[q][fe] = ofile[q][fe]
        BY <2>4, <4>1
      <4>. QED
        BY <3>3, <4>2
    <3>. HIDE DEF x, y
    <3>6. Same(Descs, Descs', {x, y})
      BY <3>1, <3>2, <3>5 DEF Same
    <3>7. \A v \in Files : FileMove(p, ops, v)
      <4>. TAKE v \in Files
      <4>. DEFINE A == Count(Descs, v)
                  C == Count(Descs, v)'
                  i == Is(f, v)
                  j == Is(g, v)
                  r == ftable[v].ref
      <4>1. Moved2(Descs, Descs', x, y, v) /\ Finite(Descs', v)
        BY <3>1, <3>6, HoldersFinite, CountTwo
      <4>2. C = Count(Descs', v)
        BY DEF Count, Where
      <4>3. A \in Int /\ C \in Int
        BY <4>1, <4>2, HoldersFinite, CountNat
      <4>4. C = A - Is(0, v) - Is(0, v) + i + j
        BY <3>4, <4>1, <4>2 DEF Moved2
      <4>5. i \in Int /\ j \in Int /\ r \in Int /\ Is(0, v) = 0
        BY <1>7
      <4>. HIDE DEF A, C, i, j, r
      <4>6. r = r - i + 0 - j + 0 + (C - A)
        BY <4>3, <4>4, <4>5
      <4>7. v # 0
        BY SizesAre
      <4>. QED
        BY <1>2, <2>2, <2>5, <4>6, <4>7 DEF FileMove, A, C, i, j, r
    <3>. QED
      BY <1>1, <2>1, <3>7, FileRefsStep
  <2>7. FilesTyped
    BY <1>1, <1>3, <1>9, <1>13, <2>4 DEF Types, FilesTyped
  <2>8. /\ \A j \in 1..Len(ops) : /\ Outside(ops[j]) /\ OpenAfter(p, ops[j]) /\ ops[j][1] = "fclose"
        /\ \A v \in Slots : Sum5(SlotVals(ops), v) = 0
    BY <2>2, SizesAre
  <2>9. f = todo[p][1][2] /\ g = todo[p][1][3]
    BY DEF f, g
  <2>10. \A fd \in Fds : ofile[p][fd] # 0 => ofile'[p][fd] = ofile[p][fd]
    BY <2>3, <2>4
  <2>11. /\ \A x \in Files : /\ ftable'[x].ref = ftable[x].ref /\ ftable'[x].ip = ftable[x].ip
                             /\ (x # f /\ x # g => ftable'[x] = ftable[x])
         /\ Contents' /\ PipeEnds'
    BY <1>9, <1>13
  <2>12. UNCHANGED <<icache, reg, cwd, alive>> /\ \A q \in Procs : q # p => ofile'[q] = ofile[q]
    BY <1>3, <2>4
  <2>. HIDE DEF f, g
  <2>. QED
    BY <1>0, <2>1, <2>6, <2>7, <2>8, <2>9, <2>10, <2>11, <2>12, Pipe2Ends
<1>. QED
  BY <1>3, <1>11, <1>12, <1>13

-----------------------------------------------------------------------------
(* The end of a call that touches files or the current directory.          *)
LEMMA MainTail ==
    ASSUME Core, NEW p \in Procs, NEW op \in MainOps \ CreateOps, At(p, op), NEW ops, After(p, ops),
           \A k \in 1..Len(ops) : /\ Outside(ops[k]) /\ ops[k][1] \notin {"exit1", "exit2"}
                                  /\ ops[k][1] \in LastOps => k = Len(ops),
           NoInodes(reg'[p]), RegMove(p), UNCHANGED <<icache, cwd, alive>>, FilesTyped,
           \A q \in Procs : q # p => ofile'[q] = ofile[q],
           SlotRefs', FileRefs', Contents', PipeEnds',
           \A k \in 1..Len(ops) : OpenAfter(p, ops[k]),
           \A q \in Procs : \A j \in 1..Len(todo[q]) :
               ~(q = p /\ j = 1) => OpenAfter(q, todo[q][j])
    PROVE  Core'
<1>1. /\ Types /\ SlotRefs /\ todo[p] # << >> /\ todo[p][1][1] = op /\ Len(todo[p]) = 1
      /\ Shape(todo[p], reg[p]) /\ op \notin SpecialOps
  BY MainAt
<1>2. ~Leaving(p) /\ p \in alive /\ cwd[p] \in Slots
  <2>1. ~Leaving(p)
    BY <1>1 DEF Leaving, SpecialOps, LastOps
  <2>. QED
    BY <1>1, <2>1 DEF Core, Alive
<1>3. Shape(todo'[p], reg'[p])
  BY <1>1, MainOut
<1>4. CacheKept
  BY <1>1, CacheUnchanged DEF CacheMoves
<1>5. AliveAt(p)'
  BY <1>2 DEF AliveAt, Slots
<1>6. \A q \in Procs : \A k \in 1..Len(todo'[q]) : OpenAfter(q, todo'[q][k])
  BY OpenAlong
<1>7. \A k \in 1..Len(todo'[p]) : todo'[p][k][1] \in LastOps => k = Len(todo'[p])
  BY <1>1, LastsAlong
<1>8. OthersStay(p) /\ IsSeq(todo'[p]) /\ DOMAIN todo' = Procs
  BY DEF OthersStay, After, RegMove
<1>9. ExitingAt(p)'
  BY <1>1, ExitingAlong DEF SpecialOps, LastOps
<1>. QED
  BY <1>3, <1>4, <1>5, <1>6, <1>7, <1>8, <1>9, CoreMove

(* chdir(): put the inode, or the old directory, in which case the new one *)
(* stays with the last section.                                            *)
LEMMA Chdir2Keeps ==
    ASSUME Core, NEW p \in Procs, Chdir2(p)
    PROVE  Core'
<1>0. At(p, "chdir2") /\ "chdir2" \in MainOps \ CreateOps /\ "chdir2" \in MainOps
  BY CallOps DEF Chdir2
<1>. DEFINE r == reg[p].r
            ops == << <<"iunlock", r>>, <<"iput", cwd[p]>>, <<"end_op">>, <<"chdir3", r>> >>
<1>1. /\ Types /\ SlotRefs /\ todo[p] # << >> /\ todo[p][1][1] = "chdir2" /\ Len(todo[p]) = 1
      /\ Shape(todo[p], reg[p]) /\ Holds("chdir2", reg[p]) /\ SlotOf(todo[p][1]) = 0
  BY <1>0, MainAt
<1>2. r \in Slots /\ reg[p].ip = 0 /\ reg[p].dp = 0
  BY <1>1 DEF Holds, UsesR, UsesIp, UsesDp
<1>3. /\ Then(p, IF icache[r].type # "dir" THEN Append(Iunlockput(r), <<"end_op">>) ELSE ops)
      /\ Forget(p, {"r"}) /\ FilesStay /\ UNCHANGED icache
  BY <1>1 DEF Chdir2, FilesStay, fileVars
<1>4. RegMove(p) /\ NoInodes(reg'[p])
  BY <1>1, <1>2, <1>3, ForgetIs DEF NoInodes
<1>5. \A v \in Slots : Taken(reg[p], v) = Is(r, v) /\ Taken(reg'[p], v) = 0 /\ Is(0, v) = 0
  BY <1>2, <1>4, SizesAre, IsInt DEF Taken, NoInodes, Is
<1>6. CacheMoves(0, 0)
  BY <1>1, <1>3, CacheUnchanged
<1>. HIDE DEF r
<1>7. CASE icache[r].type # "dir"
  <2>1. Then(p, << <<"iunlock", r>>, <<"iput", r>>, <<"end_op">> >>)
    BY <1>3, <1>7, PutOps
  <2>. QED
    BY <1>0, <1>2, <1>3, <1>4, <1>5, <1>6, <2>1, PutEnd
<1>8. CASE icache[r].type = "dir"
  <2>1. ~Leaving(p) /\ p \in alive /\ cwd[p] \in Slots
    <3>1. ~Leaving(p)
      BY <1>1 DEF Leaving
    <3>. QED
      BY <1>1, <3>1 DEF Core, Alive
  <2>. DEFINE a == <<"iunlock", r>>
              b == <<"iput", cwd[p]>>
              c == <<"end_op">>
              d == <<"chdir3", r>>
  <2>2. /\ Outside(a) /\ Outside(b) /\ Outside(c) /\ Outside(d)
        /\ SlotOf(a) = 0 /\ SlotOf(b) = cwd[p] /\ SlotOf(c) = 0 /\ SlotOf(d) = r
        /\ a[1] = "iunlock" /\ b[1] = "iput" /\ c[1] = "end_op" /\ d[1] = "chdir3"
    BY <1>2, <2>1 DEF Outside, InodeOps, SlotOf
  <2>. HIDE DEF a, b, c, d
  <2>3. /\ Few(ops) /\ Len(ops) = 4 /\ ops[1] = a /\ ops[2] = b /\ ops[3] = c /\ ops[4] = d
        /\ \A v : v # 0 => Sum5(SlotVals(ops), v) = Sum4(a, b, c, d, v)
    BY Ops4 DEF a, b, c, d
  <2>4. Then(p, ops)
    BY <1>3, <1>8
  <2>. HIDE DEF ops
  <2>5. \A k \in 1..Len(ops) : k \in {1, 2, 3, 4}
    BY <2>3
  <2>6. \A k \in 1..Len(ops) : /\ Outside(ops[k]) /\ ops[k][1] \in {"iunlock", "iput", "end_op", "chdir3"}
                               /\ ops[k][1] \in LastOps => k = Len(ops)
    BY <2>2, <2>3, <2>5 DEF LastOps
  <2>7. After(p, ops)
    BY <1>1, <2>3, <2>4, ThenAfter DEF Few
  <2>8. Leaving(p)'
    <3>1. todo'[p] # << >> /\ Len(todo'[p]) = 4 /\ todo'[p][4] = d
      <4>1. Len(todo'[p]) = 4 /\ todo'[p][4] = d /\ IsSeq(todo'[p])
        BY <1>1, <2>3, <2>7, Along DEF After
      <4>. QED
        BY <4>1, SeqFacts
    <3>. QED
      BY <2>2, <3>1 DEF Leaving
  <2>9. SlotRefs'
    <3>1. 1 \in Files
      BY SizesAre DEF Files
    <3>. DEFINE e == cwd[p]
    <3>2. \A v \in Slots : SlotTurn(p, ops, e, 0, ftable[1].ip, ftable'[1].ip, v)
      <4>. TAKE v \in Slots
      <4>1. Sum5(SlotVals(ops), v) = Is(e, v) + Is(r, v)
        <5>1. Sum5(SlotVals(ops), v) = Sum4(a, b, c, d, v)
          BY <2>3, SizesAre
        <5>2. Is(e, v) \in Int /\ Is(r, v) \in Int
          BY IsInt
        <5>. QED
          BY <1>5, <2>2, <5>1, <5>2 DEF Sum4, Sum3, Sum2, Sum1
      <4>. DEFINE i == Is(e, v)
                  j == Is(r, v)
                  l == Is(ftable[1].ip, v)
      <4>2. i \in Int /\ j \in Int /\ l \in Int
        BY IsInt
      <4>. HIDE DEF i, j, l
      <4>3. (i + j) + 0 + 0 + l = 0 + j + i + l
        BY <4>2
      <4>4. ftable' = ftable
        BY <1>3 DEF FilesStay
      <4>. QED
        BY <1>1, <1>5, <4>1, <4>3, <4>4 DEF SlotTurn, i, j, l
    <3>3. e = (IF Leaving(p) THEN 0 ELSE cwd[p]) /\ 0 = (IF Leaving(p)' THEN 0 ELSE cwd'[p])
      BY <2>1, <2>8
    <3>. HIDE DEF e
    <3>4. /\ \A g \in Files : g # 1 => ftable'[g].ip = ftable[g].ip
          /\ \A q \in Procs : q # p => cwd'[q] = cwd[q]
      BY <1>3 DEF FilesStay
    <3>. QED
      BY <1>3, <1>4, <2>7, <3>1, <3>2, <3>3, <3>4, SlotRefsTurn
  <2>10. UNCHANGED <<ftable, ofile, alive, pipes, cwd>>
    BY <1>3 DEF FilesStay
  <2>11. FileRefs'
    BY <1>1, <2>6, <2>7, <2>10, NoFileTurn
  <2>12. Contents' /\ PipeEnds'
    BY <1>6, <2>10, ContentsStay DEF CacheMoves
  <2>13. FilesTyped
    BY <1>1, <2>10 DEF Types, FilesTyped
  <2>14. /\ \A q \in Procs : \A j \in 1..Len(todo[q]) : OpenAfter(q, todo[q][j])
         /\ \A k \in 1..Len(ops) : OpenAfter(p, ops[k])
    <3>1. \A q \in Procs : \A j \in 1..Len(todo[q]) : OpeningBy(q, todo[q][j])
      BY OpeningIs DEF Core
    <3>. QED
      BY <2>6, <2>10, <3>1, OpeningKept DEF OpenAfter
  <2>. QED
    BY <1>0, <1>3, <1>4, <2>6, <2>7, <2>9, <2>10, <2>11, <2>12, <2>13, <2>14, MainTail
<1>. QED
  BY <1>7, <1>8

-----------------------------------------------------------------------------
(* open() has taken a struct file, for which it may have found no place    *)
(* among the descriptors.                                                  *)
FileTaken ==
    ftable' = IF FileAlloc = 0 THEN ftable ELSE [ftable EXCEPT ![FileAlloc].ref = 1]
OpenOps(p, ops) ==
    /\ \A k \in 1..Len(ops) : /\ Outside(ops[k]) /\ OpenAfter(p, ops[k])
                              /\ ops[k][1] \in {"iunlock", "iput", "end_op", "open4", "fclose"}
                              /\ ops[k][1] = "open4" => k = Len(ops)
    /\ \A v \in Slots : Sum5(SlotVals(ops), v) = Is(reg[p].ip, v)

LEMMA OpenOpsAre ==
    ASSUME NEW p, NEW ops, OpenOps(p, ops)
    PROVE  /\ \A k \in 1..Len(ops) : /\ Outside(ops[k]) /\ OpenAfter(p, ops[k])
                                     /\ ops[k][1] \notin {"chdir3", "exit1", "exit2"}
                                     /\ ops[k][1] \in LastOps => k = Len(ops)
           /\ \A v \in Slots : Sum5(SlotVals(ops), v) = Is(reg[p].ip, v)
  BY DEF OpenOps, LastOps

LEMMA OpenTail ==
    ASSUME Core, NEW p \in Procs, At(p, "open3"), Forget(p, {"ip"}), NEW ops, After(p, ops),
           FileTaken,
           UNCHANGED <<icache, cwd, alive, pipes>>, FileRefs',
           ofile' \in [Procs -> [Fds -> Files \cup {0}]],
           \A q \in Procs : q # p => ofile'[q] = ofile[q],
           \A fd \in Fds : ofile[p][fd] # 0 => ofile'[p][fd] = ofile[p][fd],
           OpenOps(p, ops)
    PROVE  Core'
<1>0. At(p, "open3") /\ "open3" \in MainOps \ CreateOps /\ "open3" \in MainOps
  BY CallOps
<1>1. /\ Types /\ SlotRefs /\ todo[p] # << >> /\ todo[p][1][1] = "open3" /\ Len(todo[p]) = 1
      /\ Holds("open3", reg[p]) /\ SlotOf(todo[p][1]) = 0
  BY <1>0, MainAt
<1>. DEFINE s == reg[p].ip
<1>2. s \in Slots /\ reg[p].r = 0 /\ reg[p].dp = 0
  BY <1>1 DEF Holds, UsesR, UsesIp, UsesDp
<1>3. RegMove(p) /\ NoInodes(reg'[p])
  BY <1>1, <1>2, ForgetIs DEF NoInodes
<1>4. \A v \in Slots : Taken(reg[p], v) = Is(s, v) /\ Taken(reg'[p], v) = 0 /\ Is(0, v) = 0
  BY <1>2, <1>3, SizesAre, IsInt DEF Taken, NoInodes, Is
<1>5. CacheKept
  BY <1>1, CacheUnchanged DEF CacheMoves
<1>6. /\ \A g \in Files : ftable'[g].ip = ftable[g].ip
      /\ ftable' = [g \in Files |-> ftable'[g]]
      /\ \A g \in Files : DOMAIN ftable'[g] = DOMAIN Closed /\ ftable'[g].end \in {"r", "w"}
  BY NewFile DEF FileTaken
<1>7. FilesTyped
  BY <1>1, <1>6 DEF Types, FilesTyped
<1>8. Contents' /\ PipeEnds'
  BY NewContents DEF FileTaken
<1>9. \A q \in Procs : \A j \in 1..Len(todo[q]) : OpenAfter(q, todo[q][j])
  <2>1. \A q \in Procs : \A fd \in Fds : ofile[q][fd] # 0 => ofile'[q][fd] = ofile[q][fd]
    OBVIOUS
  <2>. QED
    BY <2>1, NewOpening DEF FileTaken
<1>. HIDE DEF s
<1>10. SlotRefs'
  <2>1. 1 \in Files
    BY SizesAre DEF Files
  <2>. DEFINE e == IF Leaving(p) THEN 0 ELSE cwd[p]
  <2>2. e = (IF Leaving(p)' THEN 0 ELSE cwd'[p])
    <3>1. \A k \in 1..Len(ops) : ops[k][1] \notin {"chdir3", "exit2"}
      BY OpenOpsAre
    <3>2. Leaving(p)' <=> Leaving(p)
      BY <1>1, <3>1, LeavingAlong
    <3>. QED
      BY <3>2
  <2>3. e = (IF Leaving(p) THEN 0 ELSE cwd[p])
    OBVIOUS
  <2>. HIDE DEF e
  <2>4. \A v \in Slots : SlotTurn(p, ops, e, e, ftable[1].ip, ftable'[1].ip, v)
    <3>. TAKE v \in Slots
    <3>. DEFINE i == Is(e, v)
                j == Is(s, v)
                l == Is(ftable[1].ip, v)
    <3>1. i \in Int /\ j \in Int /\ l \in Int
      BY IsInt
    <3>2. Sum5(SlotVals(ops), v) = j
      BY OpenOpsAre DEF s
    <3>. HIDE DEF i, j, l
    <3>3. j + 0 + i + l = 0 + j + i + l
      BY <3>1
    <3>4. ftable'[1].ip = ftable[1].ip
      BY <1>6, <2>1
    <3>. QED
      BY <1>1, <1>4, <3>2, <3>3, <3>4 DEF SlotTurn, i, j, l
  <2>5. \A q \in Procs : q # p => cwd'[q] = cwd[q]
    OBVIOUS
  <2>6. \A g \in Files : g # 1 => ftable'[g].ip = ftable[g].ip
    BY <1>6
  <2>. QED
    BY <1>3, <2>1, <2>2, <2>3, <2>4, <2>5, <2>6, SlotRefsTurn
<1>11. \A k \in 1..Len(ops) : /\ Outside(ops[k]) /\ ops[k][1] \notin {"exit1", "exit2"}
                              /\ ops[k][1] \in LastOps => k = Len(ops)
  BY OpenOpsAre
<1>12. /\ \A k \in 1..Len(ops) : OpenAfter(p, ops[k])
       /\ \A q \in Procs : \A j \in 1..Len(todo[q]) : ~(q = p /\ j = 1) => OpenAfter(q, todo[q][j])
       /\ UNCHANGED <<icache, cwd, alive>>
  BY <1>9, OpenOpsAre
<1>. QED
  BY <1>0, <1>3, <1>7, <1>8, <1>10, <1>11, <1>12, MainTail

(* open(): filealloc() and fdalloc().                                      *)
LEMMA Open3Keeps ==
    ASSUME Core, NEW p \in Procs, Open3(p)
    PROVE  Core'
<1>0. At(p, "open3") /\ "open3" \in MainOps \ CreateOps /\ "open3" \in MainOps
  BY CallOps DEF Open3
<1>. DEFINE s == reg[p].ip
            f == FileAlloc
            fd == FdAlloc(p)
<1>1. /\ Types /\ SlotRefs /\ FileRefs /\ todo[p] # << >> /\ todo[p][1][1] = "open3"
      /\ Len(todo[p]) = 1 /\ Holds("open3", reg[p]) /\ SlotOf(todo[p][1]) = 0
      /\ FileOf(todo[p][1]) = 0 /\ OtherOf(todo[p][1]) = 0
  BY <1>0, MainAt DEF Core, FileOf, OtherOf
<1>2. s \in Slots /\ reg[p].r = 0 /\ reg[p].dp = 0
  BY <1>1 DEF Holds, UsesR, UsesIp, UsesDp
<1>3. /\ ftable' = IF f = 0 THEN ftable ELSE [ftable EXCEPT ![f].ref = 1]
      /\ ofile' = IF f # 0 /\ fd # 0 THEN [ofile EXCEPT ![p][fd] = f] ELSE ofile
      /\ Then(p, IF f # 0 /\ fd # 0
                 THEN << <<"iunlock", s>>, <<"end_op">>, <<"open4", f, s>> >>
                 ELSE (IF f = 0 THEN << >> ELSE << <<"fclose", f>> >>)
                      \o Append(Iunlockput(s), <<"end_op">>))
      /\ Forget(p, {"ip"}) /\ UNCHANGED <<icache, cwd, alive, pipes>>
  BY <1>1 DEF Open3
<1>4. fd = 0 \/ (fd \in Fds /\ ofile[p][fd] = 0)
  BY <1>1, FdAllocIs
<1>5. /\ f = 0 \/ f \in Files
      /\ f # 0 => ftable'[f] = [Closed EXCEPT !.ref = 1]
      /\ \A x \in Files : /\ ftable'[x].ref = ftable[x].ref + Is(f, x)
                          /\ ftable'[x].ref \in Int /\ ftable[x].ref \in Int
  BY <1>3, NewFile
<1>6. f # 0 => ftable'[f].ref = 1 /\ ftable'[f].type = "none"
  BY <1>5 DEF Closed
<1>7. \A v \in Files : Is(0, v) = 0 /\ Is(f, v) \in Int
  BY SizesAre, IsInt DEF Is
<1>11. FileTaken /\ Forget(p, {"ip"}) /\ UNCHANGED <<icache, cwd, alive, pipes>>
  BY <1>3 DEF FileTaken
<1>. HIDE DEF s, f, fd
<1>8. CASE f = 0
  <2>1. FilesStay
    BY <1>3, <1>8 DEF FilesStay
  <2>2. Then(p, << <<"iunlock", s>>, <<"iput", s>>, <<"end_op">> >>)
    BY <1>3, <1>8, PutOps
  <2>3. RegMove(p) /\ NoInodes(reg'[p])
    BY <1>1, <1>2, <1>3, ForgetIs DEF NoInodes, s
  <2>4. \A v \in Slots : Taken(reg[p], v) = Is(s, v)
    BY <1>2, SizesAre, IsInt DEF Taken, Is, s
  <2>5. CacheMoves(0, 0)
    BY <1>1, <1>3, CacheUnchanged
  <2>. QED
    BY <1>0, <1>2, <2>1, <2>2, <2>3, <2>4, <2>5, PutEnd
<1>9. CASE f # 0 /\ fd # 0
  <2>. DEFINE a == <<"iunlock", s>>
              b == <<"end_op">>
              c == <<"open4", f, s>>
              ops == <<a, b, c>>
  <2>1. f \in Files /\ fd \in Fds /\ ofile[p][fd] = 0
    BY <1>4, <1>5, <1>9
  <2>2. /\ ofile' \in [Procs -> [Fds -> Files \cup {0}]]
        /\ ofile'[p][fd] = f /\ \A fe \in Fds : fe # fd => ofile'[p][fe] = ofile[p][fe]
        /\ \A q \in Procs : q # p => ofile'[q] = ofile[q]
    BY <1>1, <1>3, <1>9, <2>1 DEF Types
  <2>3. /\ Outside(a) /\ Outside(b) /\ Outside(c)
        /\ SlotOf(a) = 0 /\ SlotOf(b) = 0 /\ SlotOf(c) = s
        /\ a[1] = "iunlock" /\ b[1] = "end_op" /\ c[1] = "open4"
    BY <1>2, <2>1 DEF Outside, InodeOps, SlotOf
  <2>4. OpenAfter(p, a) /\ OpenAfter(p, b) /\ OpenAfter(p, c)
    BY <1>6, <1>9, <2>1, <2>2 DEF OpenAfter
  <2>5. /\ FileOf(a) = 0 /\ FileOf(b) = 0 /\ FileOf(c) = 0
        /\ OtherOf(a) = 0 /\ OtherOf(b) = 0 /\ OtherOf(c) = 0
    BY <2>3 DEF FileOf, OtherOf
  <2>. HIDE DEF a, b, c
  <2>6. /\ Few(ops) /\ Len(ops) = 3 /\ ops[1] = a /\ ops[2] = b /\ ops[3] = c
        /\ \A v : v # 0 => Sum5(SlotVals(ops), v) = Sum3(a, b, c, v)
    BY Ops3
  <2>7. Then(p, ops)
    BY <1>3, <1>9 DEF a, b, c
  <2>. HIDE DEF ops
  <2>8. \A k \in 1..Len(ops) : k \in {1, 2, 3}
    BY <2>6
  <2>9. \A k \in 1..Len(ops) : /\ Outside(ops[k]) /\ OpenAfter(p, ops[k])
                               /\ ops[k][1] \in {"iunlock", "iput", "end_op", "open4", "fclose"}
                               /\ ops[k][1] = "open4" => k = Len(ops)
    BY <2>3, <2>4, <2>6, <2>8
  <2>10. After(p, ops)
    BY <1>1, <2>6, <2>7, ThenAfter DEF Few
  <2>11. \A v \in Slots : Sum5(SlotVals(ops), v) = Is(reg[p].ip, v)
    <3>. TAKE v \in Slots
    <3>1. Sum5(SlotVals(ops), v) = Sum3(a, b, c, v) /\ Is(0, v) = 0 /\ Is(s, v) \in Int
      BY <2>6, SizesAre, IsInt DEF Is
    <3>. QED
      BY <2>3, <3>1 DEF Sum3, Sum2, Sum1, s
  <2>12. FileRefs'
    <3>1. \A k \in 1..Len(ops) : FileOf(ops[k]) = 0 /\ OtherOf(ops[k]) = 0
      BY <2>5, <2>6, <2>8
    <3>2. \A v \in Files : ftable'[v].ref \in Int /\ FileTurn(p, ops, 0, f, v)
      <4>. TAKE v \in Files
      <4>1. Sum5(FileVals(ops), v) = 0 /\ Sum5(OtherVals(ops), v) = 0
        BY <2>6, <3>1, NoFiles, NoOthers
      <4>2. /\ ftable'[v].ref = ftable[v].ref + Is(f, v) /\ ftable'[v].ref \in Int
            /\ ftable[v].ref \in Int /\ Is(0, v) = 0 /\ Is(f, v) \in Int
        BY <1>5, <1>7
      <4>3. ftable'[v].ref + 0 + 0 + 0 = ftable[v].ref + 0 + 0 + Is(f, v)
        BY <4>2
      <4>. QED
        BY <1>1, <4>1, <4>2, <4>3 DEF FileTurn
    <3>3. 0 = ofile[p][fd] /\ f = ofile'[p][fd]
      BY <2>1, <2>2
    <3>4. \A q \in Procs : \A fe \in Fds : ~(q = p /\ fe = fd) => ofile'[q][fe] = ofile[q][fe]
      BY <2>2
    <3>. QED
      BY <2>1, <2>10, <3>2, <3>3, <3>4, FileRefsTurn
  <2>13. \A fe \in Fds : ofile[p][fe] # 0 => ofile'[p][fe] = ofile[p][fe]
    BY <2>1, <2>2
  <2>14. OpenOps(p, ops)
    BY <2>9, <2>11 DEF OpenOps
  <2>. QED
    BY <1>0, <1>11, <2>2, <2>10, <2>12, <2>13, <2>14, OpenTail
<1>10. CASE f # 0 /\ fd = 0
  <2>. DEFINE a == <<"fclose", f>>
              b == <<"iunlock", s>>
              c == <<"iput", s>>
              d == <<"end_op">>
              ops == <<a, b, c, d>>
  <2>1. f \in Files /\ ofile' = ofile
    BY <1>3, <1>5, <1>10
  <2>2. ofile' \in [Procs -> [Fds -> Files \cup {0}]]
    BY <1>1, <2>1 DEF Types
  <2>3. /\ Outside(a) /\ Outside(b) /\ Outside(c) /\ Outside(d)
        /\ SlotOf(a) = 0 /\ SlotOf(b) = 0 /\ SlotOf(c) = s /\ SlotOf(d) = 0
        /\ a[1] = "fclose" /\ b[1] = "iunlock" /\ c[1] = "iput" /\ d[1] = "end_op"
        /\ FileOf(a) = f
    BY <1>2, <2>1 DEF Outside, InodeOps, SlotOf, FileOf
  <2>4. OpenAfter(p, a) /\ OpenAfter(p, b) /\ OpenAfter(p, c) /\ OpenAfter(p, d)
    BY <2>3 DEF OpenAfter
  <2>5. /\ FileOf(b) = 0 /\ FileOf(c) = 0 /\ FileOf(d) = 0
        /\ OtherOf(a) = 0 /\ OtherOf(b) = 0 /\ OtherOf(c) = 0 /\ OtherOf(d) = 0
    BY <2>3 DEF FileOf, OtherOf
  <2>6. /\ Few(ops) /\ Len(ops) = 4 /\ ops[1] = a /\ ops[2] = b /\ ops[3] = c /\ ops[4] = d
        /\ \A v : v # 0 => Sum5(SlotVals(ops), v) = Sum4(a, b, c, d, v)
    <3>. HIDE DEF a, b, c, d
    <3>. QED
      BY Ops4
  <2>7. Then(p, ops)
    <3>1. <<a>> \o Append(Iunlockput(s), d) = ops
      BY PutOps
    <3>. QED
      BY <1>3, <1>10, <3>1
  <2>. HIDE DEF a, b, c, d, ops
  <2>8. \A k \in 1..Len(ops) : k \in {1, 2, 3, 4}
    BY <2>6
  <2>9. \A k \in 1..Len(ops) : /\ Outside(ops[k]) /\ OpenAfter(p, ops[k])
                               /\ ops[k][1] \in {"iunlock", "iput", "end_op", "open4", "fclose"}
                               /\ ops[k][1] = "open4" => k = Len(ops)
    BY <2>3, <2>4, <2>6, <2>8
  <2>10. After(p, ops)
    BY <1>1, <2>6, <2>7, ThenAfter DEF Few
  <2>11. \A v \in Slots : Sum5(SlotVals(ops), v) = Is(reg[p].ip, v)
    <3>. TAKE v \in Slots
    <3>1. Sum5(SlotVals(ops), v) = Sum4(a, b, c, d, v) /\ Is(0, v) = 0 /\ Is(s, v) \in Int
      BY <2>6, SizesAre, IsInt DEF Is
    <3>. QED
      BY <2>3, <3>1 DEF Sum4, Sum3, Sum2, Sum1, s
  <2>12. FileRefs'
    <3>1. \A k \in 1..Len(ops) : OtherOf(ops[k]) = 0 /\ (k # 1 => FileOf(ops[k]) = 0)
      BY <2>5, <2>6, <2>8
    <3>2. \A v \in Files : ftable'[v].ref \in Int /\ FileEven(p, ops, v)
      <4>. TAKE v \in Files
      <4>1. Sum5(FileVals(ops), v) = Is(FileOf(ops[1]), v) /\ Sum5(OtherVals(ops), v) = 0
        BY <2>6, <3>1, FirstFile, NoOthers
      <4>2. /\ ftable'[v].ref = ftable[v].ref + Is(f, v) /\ ftable'[v].ref \in Int
            /\ ftable[v].ref \in Int /\ Is(0, v) = 0 /\ Is(f, v) \in Int
        BY <1>5, <1>7
      <4>3. ftable'[v].ref + 0 + 0 = ftable[v].ref + Is(f, v) + 0
        BY <4>2
      <4>. QED
        BY <1>1, <2>3, <2>6, <4>1, <4>2, <4>3 DEF FileEven
    <3>. QED
      BY <2>1, <2>10, <3>2, FilesEven
  <2>13. /\ \A fe \in Fds : ofile[p][fe] # 0 => ofile'[p][fe] = ofile[p][fe]
         /\ \A q \in Procs : q # p => ofile'[q] = ofile[q]
    BY <2>1
  <2>14. OpenOps(p, ops)
    BY <2>9, <2>11 DEF OpenOps
  <2>. QED
    BY <1>0, <1>11, <2>2, <2>10, <2>12, <2>13, <2>14, OpenTail
<1>. QED
  BY <1>8, <1>9, <1>10

-----------------------------------------------------------------------------
(* A process without a section to come starts a call: p gets the sections  *)
(* n, of which one at most, the k-th, refers to something.                 *)
Starts(p, n) ==
    /\ todo[p] = << >> /\ IsSeq(n) /\ Len(n) > 0
    /\ DOMAIN todo' = Procs /\ todo'[p] = n
    /\ \A q \in Procs : q # p => todo'[q] = todo[q]
Only(w, p, k) == \A j \in 1..Len(w[p]) : j # k => w[p][j] = 0
StartedEnds(w, w2, a, v) == Count(Ends(w2), v) = Count(Ends(w), v) + Is(a, v)

LEMMA StartCounts ==
    ASSUME NEW w, NEW w2, NEW p \in DOMAIN w, DOMAIN w2 = DOMAIN w, Len(w[p]) = 0,
           Len(w2[p]) \in Nat, NEW k \in 1..Len(w2[p]), Only(w2, p, k),
           \A q \in DOMAIN w : q # p => w2[q] = w[q], NEW v, v # 0, Finite(Ends(w), v)
    PROVE  StartedEnds(w, w2, w2[p][k], v)
<1>. DEFINE f == Ends(w)
            g == Ends(w2)
            L == Len(w2[p])
            a == <<p, L + 1 - k>>
<1>1. DOMAIN f = (DOMAIN w) \X Nat /\ DOMAIN g = DOMAIN f /\ L + 1 - k \in Nat
      /\ L + 1 - k \in 1..L /\ L + 1 - (L + 1 - k) = k /\ k \in 1..L
  BY DEF Ends
<1>2. \A q \in DOMAIN w : \A j \in Nat :
        /\ f[<<q, j>>] = IF j \in 1..Len(w[q]) THEN w[q][Len(w[q]) + 1 - j] ELSE 0
        /\ g[<<q, j>>] = IF j \in 1..Len(w2[q]) THEN w2[q][Len(w2[q]) + 1 - j] ELSE 0
  BY <1>1 DEF Ends
<1>3. \A j \in Nat : f[<<p, j>>] = 0
  <2>1. \A j \in Nat : j \notin 1..Len(w[p])
    OBVIOUS
  <2>. QED
    BY <1>2, <2>1
<1>4. g[a] = w2[p][k]
  <2>. DEFINE i == L + 1 - k
  <2>1. i \in Nat /\ i \in 1..L /\ L + 1 - i = k
    BY <1>1
  <2>. HIDE DEF i
  <2>2. g[<<p, i>>] = w2[p][L + 1 - i]
    BY <1>2, <2>1
  <2>. QED
    BY <2>1, <2>2 DEF i
<1>5. ASSUME NEW q \in DOMAIN w, NEW j \in Nat, <<q, j>> # a
      PROVE  g[<<q, j>>] = f[<<q, j>>]
  <2>1. CASE q # p
    BY <1>2, <2>1
  <2>2. CASE q = p /\ j \in 1..L
    <3>1. j # L + 1 - k
      BY <1>5, <2>2
    <3>2. L + 1 - j \in 1..L /\ L + 1 - j # k
      BY <1>1, <2>2, <3>1
    <3>3. w2[p][L + 1 - j] = 0
      BY <3>2 DEF Only
    <3>. QED
      BY <1>2, <1>3, <2>2, <3>3
  <2>3. CASE q = p /\ j \notin 1..L
    BY <1>2, <1>3, <2>3
  <2>. QED
    BY <2>1, <2>2, <2>3
<1>6. Same(f, g, {a}) /\ f[a] = 0
  <2>1. a \in DOMAIN f /\ f[a] = 0
    BY <1>1, <1>3
  <2>2. \A x \in DOMAIN f : x # a => g[x] = f[x]
    <3>. HIDE DEF a, f, g
    <3>. QED
      BY <1>1, <1>5
  <2>. QED
    BY <1>1, <2>1, <2>2 DEF Same
<1>. HIDE DEF f, g, a
<1>7. Finite(g, v) /\ Moved(f, g, a, v)
  BY <1>6, CountOne DEF f
<1>8. Count(f, v) \in Int /\ Is(0, v) = 0 /\ Is(w2[p][k], v) \in Int
  BY IsInt, CountNat DEF Is, f
<1>9. Count(g, v) = Count(f, v) + Is(w2[p][k], v)
  BY <1>4, <1>6, <1>7, <1>8 DEF Moved
<1>. QED
  BY <1>9 DEF StartedEnds, f, g

LEMMA RowsStarted ==
    ASSUME Types, NEW p \in Procs, NEW n, Starts(p, n), NEW k \in 1..Len(n), NEW v, v # 0
    PROVE  /\ (\A j \in 1..Len(n) : j # k => SlotOf(n[j]) = 0) =>
                StartedEnds(SlotsOf, SlotsOf', SlotOf(n[k]), v)
           /\ (\A j \in 1..Len(n) : j # k => FileOf(n[j]) = 0) =>
                StartedEnds(FilesOf, FilesOf', FileOf(n[k]), v)
           /\ (\A j \in 1..Len(n) : j # k => OtherOf(n[j]) = 0) =>
                StartedEnds(OthersOf, OthersOf', OtherOf(n[k]), v)
<1>1. /\ DOMAIN SlotsOf = Procs /\ DOMAIN FilesOf = Procs /\ DOMAIN OthersOf = Procs
      /\ DOMAIN SlotsOf' = Procs /\ DOMAIN FilesOf' = Procs /\ DOMAIN OthersOf' = Procs
  BY DEF SlotsOf, FilesOf, OthersOf
<1>2. \A q \in Procs : q # p => /\ SlotsOf'[q] = SlotsOf[q] /\ FilesOf'[q] = FilesOf[q]
                                /\ OthersOf'[q] = OthersOf[q]
  BY DEF SlotsOf, FilesOf, OthersOf, Starts
<1>. DEFINE M == Len(n)
<1>3. M \in Nat
  BY SeqFacts DEF Starts
<1>4. /\ SlotsOf'[p] = [j \in 1..M |-> SlotOf(n[j])]
      /\ FilesOf'[p] = [j \in 1..M |-> FileOf(n[j])]
      /\ OthersOf'[p] = [j \in 1..M |-> OtherOf(n[j])]
  BY DEF SlotsOf, FilesOf, OthersOf, Starts
<1>5. Len(SlotsOf[p]) = 0 /\ Len(FilesOf[p]) = 0 /\ Len(OthersOf[p]) = 0
  <2>1. Len(todo[p]) = 0
    BY DEF Starts
  <2>. QED
    BY <2>1, RowsAre
<1>. HIDE DEF M
<1>6. Len(SlotsOf'[p]) = M
  BY <1>3, <1>4, LenIs
<1>7. Len(FilesOf'[p]) = M
  BY <1>3, <1>4, LenIs
<1>8. Len(OthersOf'[p]) = M
  BY <1>3, <1>4, LenIs
<1>9. Finite(Ends(SlotsOf), v) /\ Finite(Ends(FilesOf), v) /\ Finite(Ends(OthersOf), v)
  BY RowsFinite
<1>10. k \in 1..M
  BY DEF M
<1>11. ASSUME \A j \in 1..M : j # k => SlotOf(n[j]) = 0
       PROVE  StartedEnds(SlotsOf, SlotsOf', SlotOf(n[k]), v)
  <2>1. Only(SlotsOf', p, k)
    BY <1>4, <1>6, <1>11 DEF Only
  <2>2. SlotsOf'[p][k] = SlotOf(n[k])
    BY <1>4, <1>10
  <2>. QED
    BY <1>1, <1>2, <1>3, <1>5, <1>6, <1>9, <1>10, <2>1, <2>2, StartCounts
<1>12. ASSUME \A j \in 1..M : j # k => FileOf(n[j]) = 0
       PROVE  StartedEnds(FilesOf, FilesOf', FileOf(n[k]), v)
  <2>1. Only(FilesOf', p, k)
    BY <1>4, <1>7, <1>12 DEF Only
  <2>2. FilesOf'[p][k] = FileOf(n[k])
    BY <1>4, <1>10
  <2>. QED
    BY <1>1, <1>2, <1>3, <1>5, <1>7, <1>9, <1>10, <2>1, <2>2, StartCounts
<1>13. ASSUME \A j \in 1..M : j # k => OtherOf(n[j]) = 0
       PROVE  StartedEnds(OthersOf, OthersOf', OtherOf(n[k]), v)
  <2>1. Only(OthersOf', p, k)
    BY <1>4, <1>8, <1>13 DEF Only
  <2>2. OthersOf'[p][k] = OtherOf(n[k])
    BY <1>4, <1>10
  <2>. QED
    BY <1>1, <1>2, <1>3, <1>5, <1>8, <1>9, <1>10, <2>1, <2>2, StartCounts
<1>. QED
  BY <1>11, <1>12, <1>13 DEF M

(* The references when a call starts: the current directory may go to a    *)
(* section, and so may the file of one descriptor.                         *)
SlotStart(p, x, b, v) == Is(SlotOf(x), v) + Is(b, v) = Is(cwd[p], v)
FileStart(x, a, b, v) == Is(FileOf(x), v) + Is(b, v) = Is(a, v)

LEMMA SlotRefsStart ==
    ASSUME Core, NEW p \in Procs, NEW n, Starts(p, n), UNCHANGED <<icache, reg, ftable, cwd>>,
           NEW k \in 1..Len(n), \A j \in 1..Len(n) : j # k => SlotOf(n[j]) = 0,
           NEW b, b = (IF Leaving(p)' THEN 0 ELSE cwd[p]),
           \A v \in Slots : SlotStart(p, n[k], b, v)
    PROVE  SlotRefs'
<1>0. Types /\ SlotRefs
  BY DEF Core
<1>1. Same(Dirs, Dirs', {p}) /\ Dirs[p] = cwd[p] /\ Dirs'[p] = b
  <2>1. DOMAIN Dirs = Procs /\ DOMAIN Dirs' = Procs /\ Dirs'[p] = b
    BY DEF Dirs
  <2>2. Dirs[p] = cwd[p]
    BY DEF Dirs, Leaving, Starts
  <2>3. \A q \in Procs : q # p => Dirs'[q] = Dirs[q]
    BY DEF Dirs, Leaving, Starts
  <2>. QED
    BY <2>1, <2>2, <2>3 DEF Same
<1>. SUFFICES ASSUME NEW v \in Slots
              PROVE  icache'[v].ref = Count(Dirs, v)' + Count(Opened, v)' + Count(Locals, v)'
                                      + Count(Ends(SlotsOf), v)'
  BY DEF SlotRefs, Slots
<1>. DEFINE A == Count(Dirs, v)
            B == Count(Opened, v)
            C == Count(Locals, v)
            D == Count(Ends(SlotsOf), v)
            E == Count(Dirs', v)
            F == Count(Ends(SlotsOf'), v)
            r == icache[v].ref
            i == Is(SlotOf(n[k]), v)
            c == Is(cwd[p], v)
            d == Is(b, v)
<1>2. Moved(Dirs, Dirs', p, v)
  BY <1>1, HoldersFinite, CountOne
<1>3. StartedEnds(SlotsOf, SlotsOf', SlotOf(n[k]), v)
  BY <1>0, RowsStarted, SizesAre
<1>4. /\ Count(Ends(SlotsOf), v)' = F /\ Count(Dirs, v)' = E
      /\ Count(Opened, v)' = B /\ Count(Locals, v)' = C
  BY DEF Count, Where, Ends, Opened, Locals
<1>5. A \in Int /\ B \in Int /\ C \in Int /\ D \in Int /\ i \in Int /\ c \in Int /\ d \in Int
  BY <1>0, HoldersFinite, RowsFinite, SizesAre, CountNat, IsInt
<1>6. r = A + B + C + D
  BY <1>0 DEF SlotRefs
<1>7. SlotStart(p, n[k], b, v)
  OBVIOUS
<1>8. E = A - c + d /\ F = D + i /\ i + d = c
  BY <1>1, <1>2, <1>3, <1>7 DEF Moved, StartedEnds, SlotStart
<1>9. icache'[v].ref = r
  OBVIOUS
<1>. HIDE DEF A, B, C, D, E, F, r, i, c, d
<1>10. r = E + B + C + F
  BY <1>5, <1>6, <1>8
<1>. QED
  BY <1>4, <1>9, <1>10

LEMMA FileRefsStart ==
    ASSUME Core, NEW p \in Procs, NEW n, Starts(p, n), UNCHANGED ftable,
           NEW k \in 1..Len(n), \A j \in 1..Len(n) : OtherOf(n[j]) = 0 /\ (j # k => FileOf(n[j]) = 0),
           NEW fd \in Fds,
           \A q \in Procs : \A fe \in Fds : ~(q = p /\ fe = fd) => ofile'[q][fe] = ofile[q][fe],
           NEW a, NEW b, a = ofile[p][fd], b = ofile'[p][fd],
           \A v \in Files : FileStart(n[k], a, b, v)
    PROVE  FileRefs'
<1>0. Types /\ FileRefs
  BY DEF Core
<1>. DEFINE x == <<p, fd>>
<1>1. Same(Descs, Descs', {x}) /\ Descs[x] = a /\ Descs'[x] = b
  <2>1. DOMAIN Descs = Procs \X Fds /\ DOMAIN Descs' = Procs \X Fds /\ x \in Procs \X Fds
    BY DEF Descs, Fds
  <2>2. \A q \in Procs : \A fe \in Fds : Descs[<<q, fe>>] = ofile[q][fe]
                                         /\ Descs'[<<q, fe>>] = ofile'[q][fe]
    BY DEF Descs, Fds
  <2>3. \A y \in Procs \X Fds : y # x => Descs'[y] = Descs[y]
    <3>. SUFFICES ASSUME NEW q \in Procs, NEW fe \in Fds, <<q, fe>> # x
                  PROVE  Descs'[<<q, fe>>] = Descs[<<q, fe>>]
      OBVIOUS
    <3>1. ~(q = p /\ fe = fd)
      OBVIOUS
    <3>. QED
      BY <2>2, <3>1
  <2>. QED
    BY <2>1, <2>2, <2>3 DEF Same
<1>. HIDE DEF x
<1>. SUFFICES ASSUME NEW v \in Files
              PROVE  ftable'[v].ref = Count(Descs, v)' + Count(Ends(FilesOf), v)'
                                      + Count(Ends(OthersOf), v)'
  BY DEF FileRefs, Files
<1>. DEFINE A == Count(Descs, v)
            B == Count(Ends(FilesOf), v)
            C == Count(Ends(OthersOf), v)
            D == Count(Descs', v)
            E == Count(Ends(FilesOf'), v)
            F == Count(Ends(OthersOf'), v)
            r == ftable[v].ref
            i == Is(FileOf(n[k]), v)
            c == Is(a, v)
            d == Is(b, v)
<1>2. Moved(Descs, Descs', x, v)
  BY <1>1, HoldersFinite, CountOne
<1>3. StartedEnds(FilesOf, FilesOf', FileOf(n[k]), v)
  BY <1>0, RowsStarted, SizesAre
<1>4. StartedEnds(OthersOf, OthersOf', OtherOf(n[k]), v)
  BY <1>0, RowsStarted, SizesAre
<1>5. /\ Count(Ends(FilesOf), v)' = E /\ Count(Ends(OthersOf), v)' = F /\ Count(Descs, v)' = D
  BY DEF Count, Where, Ends
<1>6. A \in Int /\ B \in Int /\ C \in Int /\ i \in Int /\ c \in Int /\ d \in Int /\ Is(OtherOf(n[k]), v) = 0
  <2>1. A \in Int /\ B \in Int /\ C \in Int
    BY <1>0, HoldersFinite, RowsFinite, SizesAre, CountNat
  <2>2. Is(OtherOf(n[k]), v) = 0
    BY SizesAre DEF Is
  <2>. QED
    BY <2>1, <2>2, IsInt
<1>7. r = A + B + C
  BY <1>0 DEF FileRefs
<1>8. FileStart(n[k], a, b, v)
  OBVIOUS
<1>9. D = A - c + d /\ E = B + i /\ F = C + 0 /\ i + d = c
  BY <1>1, <1>2, <1>3, <1>4, <1>6, <1>8 DEF Moved, StartedEnds, FileStart
<1>10. ftable'[v].ref = r
  OBVIOUS
<1>. HIDE DEF A, B, C, D, E, F, r, i, c, d
<1>11. r = D + E + F
  BY <1>6, <1>7, <1>9
<1>. QED
  BY <1>5, <1>10, <1>11

(* Sections that a call may start with.                                    *)
LEMMA CoreStart ==
    ASSUME Core, NEW p \in alive, NEW n, Starts(p, n),
           UNCHANGED <<icache, reg, ftable, cwd, alive, pipes>>,
           ofile' \in [Procs -> [Fds -> Files \cup {0}]],
           \A q \in Procs : q # p => ofile'[q] = ofile[q],
           SlotRefs', FileRefs', Shape(n, reg[p]), ExitingAt(p)',
           \A k \in 1..Len(n) : /\ n[k][1] \in LastOps => k = Len(n)
                                /\ n[k][1] \notin {"open4", "pipe2"}
                                /\ n[k][1] = "pipe1" => n[k][2] = 0
    PROVE  Core'
<1>0. Types /\ SlotRefs /\ p \in Procs /\ p \in alive
  BY DEF Core, Types
<1>1. RegMove(p)
  BY <1>0 DEF Types, RegMove
<1>2. CacheKept
  BY <1>0, CacheUnchanged DEF CacheMoves
<1>3. FilesTyped
  BY <1>0 DEF Types, FilesTyped
<1>4. cwd[p] \in Slots
  BY <1>0 DEF Core, Alive, Leaving, Starts
<1>5. AliveAt(p)'
  BY <1>0, <1>4 DEF AliveAt, Slots
<1>6. Contents' /\ PipeEnds'
  BY <1>2, ContentsStay
<1>7. ASSUME NEW q \in Procs, NEW k \in 1..Len(todo'[q])
      PROVE  OpenAfter(q, todo'[q][k])
  <2>1. CASE q = p
    <3>1. todo'[q] = n
      BY <2>1 DEF Starts
    <3>. QED
      BY <3>1 DEF OpenAfter
  <2>2. CASE q # p
    <3>1. todo'[q] = todo[q] /\ ofile'[q] = ofile[q]
      BY <2>2 DEF Starts
    <3>2. OpeningBy(q, todo[q][k])
      BY <3>1, OpeningIs DEF Core
    <3>. QED
      BY <3>1, <3>2 DEF OpeningBy, OpenAfter, New
  <2>. QED
    BY <2>1, <2>2
<1>8. OthersStay(p) /\ IsSeq(todo'[p]) /\ DOMAIN todo' = Procs /\ Shape(todo'[p], reg'[p])
      /\ \A k \in 1..Len(todo'[p]) : todo'[p][k][1] \in LastOps => k = Len(todo'[p])
  BY DEF OthersStay, Starts
<1>. QED
  BY <1>0, <1>1, <1>2, <1>3, <1>5, <1>6, <1>7, <1>8, CoreMove

-----------------------------------------------------------------------------
(* Between calls a process holds no inode but its current directory.       *)
LEMMA IdleIs ==
    ASSUME Core, NEW p, Running(p)
    PROVE  /\ p \in Procs /\ p \in alive /\ todo[p] = << >> /\ NoInodes(reg[p])
           /\ ~Leaving(p) /\ cwd[p] \in Slots
<1>1. p \in Procs /\ p \in alive /\ todo[p] = << >>
  BY DEF Running, Core, Types
<1>2. Shape(<< >>, reg[p]) /\ Mains(<< >>) = 0
  BY <1>1 DEF Core, Shapes, Mains
<1>3. NoInodes(reg[p])
  BY <1>2 DEF Shape, NoInodes
<1>4. ~Leaving(p)
  BY <1>1 DEF Leaving
<1>. QED
  BY <1>1, <1>3, <1>4 DEF Core, Alive

(* close(): the descriptor is free, the file is still to be closed.        *)
LEMMA CloseKeeps ==
    ASSUME Core, NEW p, NEW fd \in Fds, Close(p, fd)
    PROVE  Core'
<1>. DEFINE f == ofile[p][fd]
            x == <<"fclose", f>>
            n == <<x>>
<1>1. /\ p \in Procs /\ p \in alive /\ todo[p] = << >> /\ NoInodes(reg[p])
      /\ ~Leaving(p) /\ cwd[p] \in Slots /\ Types
  BY IdleIs DEF Close, Core
<1>2. /\ f # 0 /\ ofile' = [ofile EXCEPT ![p][fd] = 0]
      /\ todo' = [todo EXCEPT ![p] = n]
      /\ UNCHANGED <<icache, cwd, reg, ftable, alive, pipes>>
  BY DEF Close
<1>3. f \in Files
  BY <1>1, <1>2 DEF Types
<1>4. /\ ofile'[p][fd] = 0 /\ \A fe \in Fds : fe # fd => ofile'[p][fe] = ofile[p][fe]
      /\ \A q \in Procs : q # p => ofile'[q] = ofile[q]
      /\ ofile' \in [Procs -> [Fds -> Files \cup {0}]]
  BY <1>1, <1>2 DEF Types
<1>5. /\ Outside(x) /\ x[1] = "fclose" /\ SlotOf(x) = 0 /\ FileOf(x) = f /\ OtherOf(x) = 0
  BY <1>3 DEF Outside, SlotOf, FileOf, OtherOf
<1>. HIDE DEF x
<1>6. IsSeq(n) /\ Len(n) = 1 /\ n[1] = x
  BY Ops1 DEF Few
<1>. HIDE DEF n
<1>7. Starts(p, n)
  BY <1>1, <1>2, <1>6 DEF Starts, Types
<1>8. 1 \in 1..Len(n) /\ \A k \in 1..Len(n) : k = 1 /\ n[k] = x
  BY <1>6
<1>9. Shape(n, reg[p])
  BY <1>1, <1>5, <1>6, <1>8, ShapeOutside
<1>10. ~Leaving(p)'
  BY <1>5, <1>6, <1>7 DEF Leaving, Starts
<1>. HIDE DEF f
<1>11. SlotRefs'
  <2>1. \A j \in 1..Len(n) : j # 1 => SlotOf(n[j]) = 0
    BY <1>8
  <2>. DEFINE b == cwd[p]
  <2>2. b = (IF Leaving(p)' THEN 0 ELSE cwd[p])
    BY <1>10
  <2>3. \A v \in Slots : SlotStart(p, n[1], b, v)
    <3>. TAKE v \in Slots
    <3>1. Is(0, v) = 0 /\ Is(b, v) \in Int
      BY SizesAre, IsInt DEF Is
    <3>. QED
      BY <1>5, <1>6, <3>1 DEF SlotStart
  <2>. HIDE DEF b
  <2>. QED
    BY <1>1, <1>2, <1>7, <1>8, <2>1, <2>2, <2>3, SlotRefsStart
<1>12. FileRefs'
  <2>1. \A j \in 1..Len(n) : OtherOf(n[j]) = 0 /\ (j # 1 => FileOf(n[j]) = 0)
    BY <1>5, <1>8
  <2>2. \A q \in Procs : \A fe \in Fds : ~(q = p /\ fe = fd) => ofile'[q][fe] = ofile[q][fe]
    BY <1>4
  <2>3. \A v \in Files : FileStart(n[1], f, 0, v)
    <3>. TAKE v \in Files
    <3>1. Is(0, v) = 0 /\ Is(f, v) \in Int
      BY SizesAre, IsInt DEF Is
    <3>. QED
      BY <1>5, <1>6, <3>1 DEF FileStart
  <2>4. f = ofile[p][fd] /\ 0 = ofile'[p][fd]
    BY <1>4 DEF f
  <2>. QED
    BY <1>1, <1>2, <1>7, <1>8, <2>1, <2>2, <2>3, <2>4, FileRefsStart
<1>13. ExitingAt(p)'
  <2>1. todo'[p] = n
    BY <1>7 DEF Starts
  <2>. QED
    BY <1>5, <1>6, <1>8, <2>1 DEF ExitingAt
<1>14. \A k \in 1..Len(n) : /\ n[k][1] \in LastOps => k = Len(n)
                            /\ n[k][1] \notin {"open4", "pipe2"}
                            /\ n[k][1] = "pipe1" => n[k][2] = 0
  BY <1>5, <1>8 DEF LastOps
<1>. QED
  BY <1>1, <1>2, <1>4, <1>7, <1>9, <1>11, <1>12, <1>13, <1>14, CoreStart

LEMMA ConcatFacts ==
    ASSUME NEW S, NEW u \in Seq(S), NEW w \in Seq(S)
    PROVE  /\ u \o w \in Seq(S) /\ Len(u \o w) = Len(u) + Len(w)
           /\ \A k \in 1..(Len(u) + Len(w)) :
                (u \o w)[k] = IF k <= Len(u) THEN u[k] ELSE w[k - Len(u)]
  OBVIOUS

(* exit(): the descriptors one after the other, then the directory.        *)
LEMMA ExitKeeps ==
    ASSUME Core, NEW p, Exit(p)
    PROVE  Core'
<1>. DEFINE c == cwd[p]
            u == [k \in 1..NOFILE |-> <<"exit1", k>>]
            w == << <<"begin_op">>, <<"iput", c>>, <<"end_op">>, <<"exit2">> >>
            n == u \o w
            N == NOFILE
<1>1. /\ p \in Procs /\ p \in alive /\ todo[p] = << >> /\ NoInodes(reg[p])
      /\ ~Leaving(p) /\ c \in Slots /\ Types
  BY IdleIs DEF Exit, Core
<1>2. /\ todo' = [todo EXCEPT ![p] = n]
      /\ UNCHANGED <<icache, cwd, reg, ftable, ofile, alive, pipes>>
  BY DEF Exit, fileVars
<1>3. N \in Nat /\ N > 0
  BY SizesAre
<1>4. /\ Len(n) = N + 4 /\ IsSeq(n) /\ \A k \in 1..N : n[k] = <<"exit1", k>>
      /\ n[N + 1] = <<"begin_op">> /\ n[N + 2] = <<"iput", c>>
      /\ n[N + 3] = <<"end_op">> /\ n[N + 4] = <<"exit2">>
  <2>. DEFINE S == {u[k] : k \in 1..N} \cup {w[k] : k \in 1..4}
  <2>1. u \in Seq(S) /\ Len(u) = N /\ \A k \in 1..N : u[k] = <<"exit1", k>>
    <3>1. u \in [1..N -> S]
      OBVIOUS
    <3>2. DOMAIN u = 1..N /\ u = [k \in 1..N |-> u[k]] /\ \A k \in 1..N : u[k] = <<"exit1", k>>
      OBVIOUS
    <3>. HIDE DEF u, S
    <3>3. u \in Seq(S)
      BY <1>3, <3>1
    <3>4. Len(u) = N
      BY <1>3, <3>2, LenIs
    <3>. QED
      BY <3>2, <3>3, <3>4
  <2>2. /\ w \in Seq({w[k] : k \in 1..4}) /\ Len(w) = 4 /\ w[1] = <<"begin_op">>
        /\ w[2] = <<"iput", c>> /\ w[3] = <<"end_op">> /\ w[4] = <<"exit2">>
    <3>1. Len(w) = 4 /\ IsSeq(w)
      BY Ops4 DEF Few
    <3>. QED
      BY <3>1 DEF IsSeq
  <2>3. w \in Seq(S)
    BY <2>2
  <2>. HIDE DEF u, w, S
  <2>8. u \in Seq(S)
    BY <2>1
  <2>9. /\ n \in Seq(S) /\ Len(n) = Len(u) + Len(w)
        /\ \A k \in 1..(Len(u) + Len(w)) : n[k] = IF k <= Len(u) THEN u[k] ELSE w[k - Len(u)]
    BY <2>3, <2>8, ConcatFacts
  <2>. HIDE DEF n, N
  <2>4. n \in Seq(S) /\ Len(n) = N + 4
    BY <2>1, <2>2, <2>9
  <2>5. \A k \in 1..(N + 4) : n[k] = IF k <= N THEN u[k] ELSE w[k - N]
    BY <2>1, <2>2, <2>9
  <2>6. n[N + 1] = w[1] /\ n[N + 2] = w[2] /\ n[N + 3] = w[3] /\ n[N + 4] = w[4]
    BY <1>3, <2>5
  <2>7. \A k \in 1..N : n[k] = u[k]
    BY <1>3, <2>5
  <2>. QED
    BY <2>1, <2>2, <2>4, <2>6, <2>7, SeqIs
<1>. HIDE DEF n, u, w
<1>5. \A k \in 1..Len(n) : k \in 1..N \/ k \in {N + 1, N + 2, N + 3, N + 4}
  BY <1>3, <1>4
<1>6. Len(n) > 0 /\ N + 2 \in 1..Len(n) /\ 1 \in 1..Len(n) /\ 1 \in 1..N /\ 1..N \subseteq 1..Len(n)
  BY <1>3, <1>4
<1>7. Starts(p, n)
  BY <1>1, <1>2, <1>4, <1>6 DEF Starts, Types
<1>8. \A k \in 1..Len(n) : /\ Outside(n[k]) /\ FileOf(n[k]) = 0 /\ OtherOf(n[k]) = 0
                           /\ k # N + 2 => SlotOf(n[k]) = 0
                           /\ n[k][1] \in {"exit1", "begin_op", "iput", "end_op"} \/ k = N + 4
  <2>. TAKE k \in 1..Len(n)
  <2>1. CASE k \in 1..N
    <3>1. n[k] = <<"exit1", k>> /\ k \in Fds
      BY <1>4, <2>1 DEF Fds
    <3>2. Len(n[k]) = 2
      BY <3>1
    <3>. QED
      BY <3>1, <3>2 DEF Outside, FileOf, OtherOf, SlotOf
  <2>2. CASE k = N + 1
    BY <1>4, <2>2 DEF Outside, FileOf, OtherOf, SlotOf
  <2>3. CASE k = N + 2
    BY <1>1, <1>4, <2>3 DEF Outside, InodeOps, FileOf, OtherOf, SlotOf
  <2>4. CASE k = N + 3
    BY <1>4, <2>4 DEF Outside, FileOf, OtherOf, SlotOf
  <2>5. CASE k = N + 4
    BY <1>4, <2>5 DEF Outside, FileOf, OtherOf, SlotOf
  <2>. QED
    BY <1>5, <2>1, <2>2, <2>3, <2>4, <2>5
<1>9. Shape(n, reg[p])
  BY <1>1, <1>4, <1>8, ShapeOutside
<1>. DEFINE e == n[Len(n)]
<1>10. e = <<"exit2">> /\ n # << >> /\ todo'[p] = n
  <2>1. n # << >>
    BY <1>4, <1>6, SeqFacts
  <2>. QED
    BY <1>4, <1>7, <2>1 DEF Starts
<1>11. Leaving(p)'
  BY <1>10 DEF Leaving
<1>12. SlotRefs'
  <2>1. 0 = (IF Leaving(p)' THEN 0 ELSE cwd[p])
    BY <1>11
  <2>2. \A v \in Slots : SlotStart(p, n[N + 2], 0, v)
    <3>. TAKE v \in Slots
    <3>1. Is(0, v) = 0 /\ Is(c, v) \in Int /\ SlotOf(n[N + 2]) = c
      BY <1>4, SizesAre, IsInt DEF Is, SlotOf
    <3>. QED
      BY <3>1 DEF SlotStart
  <2>3. \A j \in 1..Len(n) : j # N + 2 => SlotOf(n[j]) = 0
    BY <1>8
  <2>. HIDE DEF c, N
  <2>. QED
    BY <1>1, <1>2, <1>6, <1>7, <2>1, <2>2, <2>3, SlotRefsStart
<1>13. FileRefs'
  <2>1. 1 \in Fds
    BY <1>6 DEF Fds
  <2>. DEFINE a == ofile[p][1]
  <2>2. \A v \in Files : FileStart(n[1], a, a, v)
    <3>. TAKE v \in Files
    <3>1. Is(0, v) = 0 /\ Is(a, v) \in Int /\ FileOf(n[1]) = 0
      BY <1>6, <1>8, SizesAre, IsInt DEF Is
    <3>. QED
      BY <3>1 DEF FileStart
  <2>3. a = ofile[p][1] /\ a = ofile'[p][1]
    BY <1>2
  <2>. HIDE DEF a
  <2>4. \A j \in 1..Len(n) : OtherOf(n[j]) = 0 /\ (j # 1 => FileOf(n[j]) = 0)
    BY <1>8
  <2>5. \A q \in Procs : \A fe \in Fds : ~(q = p /\ fe = 1) => ofile'[q][fe] = ofile[q][fe]
    BY <1>2
  <2>. QED
    BY <1>1, <1>2, <1>6, <1>7, <2>1, <2>2, <2>3, <2>4, <2>5, FileRefsStart
<1>14. ExitingAt(p)'
  <2>1. \A fd \in Fds : \E k \in 1..Len(n) : n[k] = <<"exit1", fd>>
    BY <1>4, <1>6 DEF Fds
  <2>2. n[Len(n)][1] = "exit2"
    BY <1>10
  <2>. QED
    BY <1>10, <2>1, <2>2 DEF ExitingAt, Fds
<1>15. \A k \in 1..Len(n) : /\ n[k][1] \in LastOps => k = Len(n)
                            /\ n[k][1] \notin {"open4", "pipe2"}
                            /\ n[k][1] = "pipe1" => n[k][2] = 0
  BY <1>4, <1>8 DEF LastOps
<1>16. /\ ofile' \in [Procs -> [Fds -> Files \cup {0}]]
       /\ \A q \in Procs : q # p => ofile'[q] = ofile[q]
  BY <1>1, <1>2 DEF Types
<1>. QED
  BY <1>1, <1>2, <1>7, <1>9, <1>12, <1>13, <1>14, <1>15, <1>16, CoreStart

-----------------------------------------------------------------------------
(* The programs of the calls: a transaction, a path, and what is done with *)
(* the inode; create() comes with two calls and open().                    *)
ProgramShape(n) ==
    /\ IsSeq(n) /\ Len(n) \in {3, 4} /\ n[1] = <<"begin_op">> /\ n[2][1] = "namex"
    /\ Len(n) = 3 => n[3][1] \in {"open1", "link1", "unlink1", "chdir1"}
    /\ Len(n) = 4 => n[3][1] = "create1" /\ n[4][1] \in {"open1", "mk1"}

LEMMA ProgramThree ==
    ASSUME NEW b, NEW c, b[1] = "namex", c[1] \in {"open1", "link1", "unlink1", "chdir1"}
    PROVE  ProgramShape(<< <<"begin_op">> >> \o <<b, c>>)
<1>. DEFINE a == <<"begin_op">>
            u == <<a>>
            w == <<b, c>>
            S == {a, b, c}
            n == u \o w
<1>1. u \in Seq(S) /\ Len(u) = 1 /\ u[1] = a
  OBVIOUS
<1>2. w \in Seq(S) /\ Len(w) = 2 /\ w[1] = b /\ w[2] = c
  OBVIOUS
<1>. HIDE DEF a, u, w, S
<1>3. /\ n \in Seq(S) /\ Len(n) = Len(u) + Len(w)
      /\ \A k \in 1..(Len(u) + Len(w)) : n[k] = IF k <= Len(u) THEN u[k] ELSE w[k - Len(u)]
  BY <1>1, <1>2, ConcatFacts
<1>. HIDE DEF n
<1>4. IsSeq(n) /\ Len(n) = 3 /\ n[1] = a /\ n[2] = b /\ n[3] = c
  BY <1>1, <1>2, <1>3, SeqIs
<1>5. ProgramShape(n)
  BY <1>4 DEF ProgramShape, a
<1>. QED
  BY <1>5 DEF n, u, w, a

LEMMA ProgramFour ==
    ASSUME NEW b, NEW c, NEW d, b[1] = "namex", c[1] = "create1", d[1] \in {"open1", "mk1"}
    PROVE  ProgramShape(<< <<"begin_op">> >> \o <<b, c, d>>)
<1>. DEFINE a == <<"begin_op">>
            u == <<a>>
            w == <<b, c, d>>
            S == {a, b, c, d}
            n == u \o w
<1>1. u \in Seq(S) /\ Len(u) = 1 /\ u[1] = a
  OBVIOUS
<1>2. w \in Seq(S) /\ Len(w) = 3 /\ w[1] = b /\ w[2] = c /\ w[3] = d
  OBVIOUS
<1>. HIDE DEF a, u, w, S
<1>3. /\ n \in Seq(S) /\ Len(n) = Len(u) + Len(w)
      /\ \A k \in 1..(Len(u) + Len(w)) : n[k] = IF k <= Len(u) THEN u[k] ELSE w[k - Len(u)]
  BY <1>1, <1>2, ConcatFacts
<1>. HIDE DEF n
<1>4. IsSeq(n) /\ Len(n) = 4 /\ n[1] = a /\ n[2] = b /\ n[3] = c /\ n[4] = d
  BY <1>1, <1>2, <1>3, SeqIs
<1>5. ProgramShape(n)
  BY <1>4 DEF ProgramShape, a
<1>. QED
  BY <1>5 DEF n, u, w, a

LEMMA ProgramIs ==
    ASSUME NEW c, c.call \in CallNames
    PROVE  Program(c) = << <<"pipe1", 0>> >> \/ ProgramShape(Program(c))
<1>1. CASE c.call = "pipe"
  BY <1>1 DEF Program
<1>2. CASE c.call = "create"
  <2>. DEFINE x == <<"namex", c.path, TRUE>>
              y == <<"create1", "file">>
              z == <<"open1", "create">>
  <2>1. Program(c) = << <<"begin_op">> >> \o <<x, y, z>>
    BY <1>2 DEF Program
  <2>2. x[1] = "namex" /\ y[1] = "create1" /\ z[1] \in {"open1", "mk1"}
    OBVIOUS
  <2>. HIDE DEF x, y, z
  <2>. QED
    BY <2>1, <2>2, ProgramFour
<1>3. CASE c.call = "mkdir"
  <2>. DEFINE x == <<"namex", c.path, TRUE>>
              y == <<"create1", "dir">>
              z == <<"mk1">>
  <2>1. Program(c) = << <<"begin_op">> >> \o <<x, y, z>>
    BY <1>3 DEF Program
  <2>2. x[1] = "namex" /\ y[1] = "create1" /\ z[1] \in {"open1", "mk1"}
    OBVIOUS
  <2>. HIDE DEF x, y, z
  <2>. QED
    BY <2>1, <2>2, ProgramFour
<1>4. CASE c.call = "mknod"
  <2>. DEFINE x == <<"namex", c.path, TRUE>>
              y == <<"create1", "dev">>
              z == <<"mk1">>
  <2>1. Program(c) = << <<"begin_op">> >> \o <<x, y, z>>
    BY <1>4 DEF Program
  <2>2. x[1] = "namex" /\ y[1] = "create1" /\ z[1] \in {"open1", "mk1"}
    OBVIOUS
  <2>. HIDE DEF x, y, z
  <2>. QED
    BY <2>1, <2>2, ProgramFour
<1>5. CASE c.call = "open"
  <2>. DEFINE x == <<"namex", c.path, FALSE>>
              y == <<"open1", c.mode>>
  <2>1. Program(c) = << <<"begin_op">> >> \o <<x, y>>
    BY <1>5 DEF Program
  <2>2. x[1] = "namex" /\ y[1] \in {"open1", "link1", "unlink1", "chdir1"}
    OBVIOUS
  <2>. HIDE DEF x, y
  <2>. QED
    BY <2>1, <2>2, ProgramThree
<1>6. CASE c.call = "link"
  <2>. DEFINE x == <<"namex", c.path, FALSE>>
              y == <<"link1", c.new>>
  <2>1. Program(c) = << <<"begin_op">> >> \o <<x, y>>
    BY <1>6 DEF Program
  <2>2. x[1] = "namex" /\ y[1] \in {"open1", "link1", "unlink1", "chdir1"}
    OBVIOUS
  <2>. HIDE DEF x, y
  <2>. QED
    BY <2>1, <2>2, ProgramThree
<1>7. CASE c.call = "unlink"
  <2>. DEFINE x == <<"namex", c.path, TRUE>>
              y == <<"unlink1">>
  <2>1. Program(c) = << <<"begin_op">> >> \o <<x, y>>
    BY <1>7 DEF Program
  <2>2. x[1] = "namex" /\ y[1] \in {"open1", "link1", "unlink1", "chdir1"}
    OBVIOUS
  <2>. HIDE DEF x, y
  <2>. QED
    BY <2>1, <2>2, ProgramThree
<1>8. CASE c.call = "chdir"
  <2>. DEFINE x == <<"namex", c.path, FALSE>>
              y == <<"chdir1">>
  <2>1. Program(c) = << <<"begin_op">> >> \o <<x, y>>
    BY <1>8 DEF Program
  <2>2. x[1] = "namex" /\ y[1] \in {"open1", "link1", "unlink1", "chdir1"}
    OBVIOUS
  <2>. HIDE DEF x, y
  <2>. QED
    BY <2>1, <2>2, ProgramThree
<1>. QED
  BY <1>1, <1>2, <1>3, <1>4, <1>5, <1>6, <1>7, <1>8 DEF CallNames

LEMMA ProgramFits ==
    ASSUME NEW n, ProgramShape(n), NEW rg, NoInodes(rg)
    PROVE  Shape(n, rg)
<1>1. /\ IsSeq(n) /\ Len(n) \in {3, 4} /\ n[1][1] = "begin_op" /\ n[2][1] = "namex"
      /\ Len(n) = 3 => n[3][1] \in {"open1", "link1", "unlink1", "chdir1"}
      /\ Len(n) = 4 => n[3][1] = "create1" /\ n[4][1] \in {"open1", "mk1"}
  BY DEF ProgramShape
<1>2. Within(n[1]) /\ Within(n[2])
  BY <1>1 DEF Within
<1>3. rg.r = 0 /\ rg.ip = 0 /\ rg.dp = 0
  BY DEF NoInodes
<1>4. \A op \in {"open1", "link1", "unlink1", "chdir1", "create1"} : Holds(op, rg) /\ op \in UsesR
  BY <1>3 DEF Holds, UsesR, UsesIp, UsesDp
<1>5. \A k \in Walking(n) : k = 2
  <2>. SUFFICES ASSUME NEW k \in 1..Len(n), n[k][1] \in WalkOps
                PROVE  k = 2
    BY DEF Walking
  <2>1. k \in {1, 2, 3, 4} /\ (k = 4 => Len(n) = 4)
    BY <1>1
  <2>. QED
    BY <1>1, <2>1 DEF WalkOps
<1>6. CASE Len(n) = 3
  <2>. DEFINE op == n[3][1]
  <2>1. op \in {"open1", "link1", "unlink1", "chdir1"} /\ op \in MainOps \ CreateOps
    BY <1>1, <1>6 DEF MainOps, CreateOps, UsesR
  <2>2. \A k \in 1..(Len(n) - 1) : Within(n[k])
    <3>1. \A k \in 1..(Len(n) - 1) : k = 1 \/ k = 2
      BY <1>6
    <3>. QED
      BY <1>2, <3>1
  <2>3. op = n[Len(n) + 1 - 1][1] /\ n[Len(n)][1] = op /\ 1 <= Len(n)
    BY <1>6
  <2>4. Holds(op, rg) /\ op \in UsesR
    BY <1>4, <2>1
  <2>. HIDE DEF op
  <2>5. \A k, l \in Walking(n) : k = l
    BY <1>5
  <2>. QED
    BY <1>1, <1>3, <2>1, <2>2, <2>3, <2>4, <2>5, ShapeWithin
<1>7. CASE Len(n) = 4
  <2>. DEFINE op == n[3][1]
  <2>1. op = "create1" /\ op \in CreateOps /\ n[Len(n)][1] \in {"open1", "mk1"}
        /\ n[Len(n)][1] \in MainOps \ CreateOps
    BY <1>1, <1>7 DEF MainOps, CreateOps, UsesR
  <2>2. \A k \in 1..(Len(n) - 2) : Within(n[k])
    <3>1. \A k \in 1..(Len(n) - 2) : k = 1 \/ k = 2
      BY <1>7
    <3>. QED
      BY <1>2, <3>1
  <2>3. op = n[Len(n) + 1 - 2][1] /\ n[Len(n) - 1][1] = op /\ 2 <= Len(n)
    BY <1>7
  <2>4. Holds(op, rg) /\ op \in UsesR
    BY <1>4, <2>1
  <2>. HIDE DEF op
  <2>5. \A k, l \in Walking(n) : k = l
    BY <1>5
  <2>. QED
    BY <1>1, <1>3, <2>1, <2>2, <2>3, <2>4, <2>5, ShapeWithin
<1>. QED
  BY <1>1, <1>6, <1>7

LEMMA CallKeeps ==
    ASSUME Core, NEW p, NEW c \in Calls, Call(p, c)
    PROVE  Core'
<1>. DEFINE n == Program(c)
            x == <<"pipe1", 0>>
<1>1. /\ p \in Procs /\ p \in alive /\ todo[p] = << >> /\ NoInodes(reg[p])
      /\ ~Leaving(p) /\ cwd[p] \in Slots /\ Types
  BY IdleIs DEF Call, Core
<1>2. /\ todo' = [todo EXCEPT ![p] = n]
      /\ UNCHANGED <<icache, cwd, reg, ftable, ofile, alive, pipes>>
  BY DEF Call
<1>3. n = <<x>> \/ ProgramShape(n)
  BY FileTableAssumption, ProgramIs
<1>. HIDE DEF n
<1>4. /\ IsSeq(n) /\ Len(n) \in {1, 3, 4} /\ Shape(n, reg[p])
      /\ \A k \in 1..Len(n) :
           /\ n[k][1] \notin {"iput", "idrop", "walk", "step", "fclose"} \cup (LastOps \ {"pipe1"})
                              \cup {"exit1"}
           /\ n[k][1] = "pipe1" => k = Len(n) /\ n[k][2] = 0
  <2>1. CASE n = <<x>>
    <3>1. Outside(x) /\ x[1] = "pipe1" /\ x[2] = 0
      BY DEF Outside
    <3>. HIDE DEF x
    <3>2. IsSeq(n) /\ Len(n) = 1 /\ n[1] = x
      BY <2>1, Ops1 DEF Few
    <3>3. \A k \in 1..Len(n) : k = 1 /\ n[k] = x
      BY <3>2
    <3>4. Shape(n, reg[p])
      BY <1>1, <3>1, <3>2, <3>3, ShapeOutside
    <3>. QED
      BY <3>1, <3>2, <3>3, <3>4 DEF LastOps
  <2>2. CASE ProgramShape(n)
    <3>1. Shape(n, reg[p])
      BY <1>1, <2>2, ProgramFits
    <3>2. IsSeq(n) /\ Len(n) \in {3, 4}
      BY <2>2 DEF ProgramShape
    <3>3. \A k \in 1..Len(n) : k \in {1, 2, 3} \/ (k = 4 /\ Len(n) = 4)
      <4>1. CASE Len(n) = 3
        BY <4>1
      <4>2. CASE Len(n) = 4
        BY <4>2
      <4>. QED
        BY <3>2, <4>1, <4>2
    <3>4. \A k \in 1..Len(n) : n[k][1] \in {"begin_op", "namex", "open1", "link1", "unlink1",
                                             "chdir1", "create1", "mk1"}
      BY <2>2, <3>3 DEF ProgramShape
    <3>. QED
      BY <3>1, <3>2, <3>4 DEF LastOps
  <2>. QED
    BY <1>3, <2>1, <2>2
<1>5. \A k \in 1..Len(n) : SlotOf(n[k]) = 0 /\ OtherOf(n[k]) = 0 /\ FileOf(n[k]) = 0
  BY <1>4 DEF SlotOf, OtherOf, FileOf, LastOps
<1>6. Len(n) > 0 /\ 1 \in 1..Len(n) /\ Len(n) \in 1..Len(n)
  <2>1. Len(n) = 1 \/ Len(n) = 3 \/ Len(n) = 4
    BY <1>4
  <2>. QED
    BY <2>1
<1>7. Starts(p, n)
  BY <1>1, <1>2, <1>4, <1>6 DEF Starts, Types
<1>8. todo'[p] = n /\ ~Leaving(p)' /\ ExitingAt(p)'
  <2>1. todo'[p] = n
    BY <1>7 DEF Starts
  <2>2. \A k \in 1..Len(n) : n[k][1] \notin {"chdir3", "exit1", "exit2"}
    BY <1>4 DEF LastOps
  <2>. QED
    BY <1>6, <2>1, <2>2 DEF Leaving, ExitingAt
<1>9. SlotRefs'
  <2>. DEFINE b == cwd[p]
  <2>1. b = (IF Leaving(p)' THEN 0 ELSE cwd[p])
    BY <1>8
  <2>2. \A v \in Slots : SlotStart(p, n[1], b, v)
    <3>. TAKE v \in Slots
    <3>1. Is(0, v) = 0 /\ Is(b, v) \in Int
      BY SizesAre, IsInt DEF Is
    <3>. QED
      BY <1>5, <1>6, <3>1 DEF SlotStart
  <2>. HIDE DEF b
  <2>. QED
    BY <1>1, <1>2, <1>5, <1>6, <1>7, <2>1, <2>2, SlotRefsStart
<1>10. FileRefs'
  <2>1. 1 \in Fds
    BY SizesAre DEF Fds
  <2>. DEFINE a == ofile[p][1]
  <2>2. \A v \in Files : FileStart(n[1], a, a, v)
    <3>. TAKE v \in Files
    <3>1. Is(0, v) = 0 /\ Is(a, v) \in Int
      BY SizesAre, IsInt DEF Is
    <3>. QED
      BY <1>5, <1>6, <3>1 DEF FileStart
  <2>3. a = ofile[p][1] /\ a = ofile'[p][1]
    BY <1>2
  <2>. HIDE DEF a
  <2>4. \A q \in Procs : \A fe \in Fds : ~(q = p /\ fe = 1) => ofile'[q][fe] = ofile[q][fe]
    BY <1>2
  <2>. QED
    BY <1>1, <1>2, <1>5, <1>6, <1>7, <2>1, <2>2, <2>3, <2>4, FileRefsStart
<1>11. \A k \in 1..Len(n) : /\ n[k][1] \in LastOps => k = Len(n)
                            /\ n[k][1] \notin {"open4", "pipe2"}
                            /\ n[k][1] = "pipe1" => n[k][2] = 0
  BY <1>4 DEF LastOps
<1>12. /\ ofile' \in [Procs -> [Fds -> Files \cup {0}]]
       /\ \A q \in Procs : q # p => ofile'[q] = ofile[q]
  BY <1>1, <1>2 DEF Types
<1>. QED
  BY <1>1, <1>2, <1>4, <1>7, <1>8, <1>9, <1>10, <1>11, <1>12, CoreStart

-----------------------------------------------------------------------------
(* dup() and fork() count references to the files of a process that is     *)
(* between two calls: no section is about to fill one of them in.          *)
LEMMA SharedFiles ==
    ASSUME Core, NEW p \in Procs, todo[p] = << >>, NEW f \in Files, NEW fd \in Fds, ofile[p][fd] = f,
           NEW q \in Procs, NEW j \in 1..Len(todo[q])
    PROVE  ~Concerns(todo[q][j], f)
<1>0. Types /\ FileRefs
  BY DEF Core
<1>. SUFFICES ASSUME Concerns(todo[q][j], f)
              PROVE  FALSE
  OBVIOUS
<1>1. /\ New(f)
      /\ FileOf(todo[q][j]) = f \/ OtherOf(todo[q][j]) = f \/ \E fe \in Fds : ofile[q][fe] = f
  BY ConcernsNew
<1>2. ftable[f].ref = 1
  BY <1>1 DEF New
<1>3. FileOf(todo[q][j]) # f /\ OtherOf(todo[q][j]) # f
  BY <1>0, <1>2, OneUser
<1>4. PICK fe \in Fds : ofile[q][fe] = f
  BY <1>1, <1>3
<1>5. q = p
  BY <1>0, <1>2, <1>4, OneUser
<1>. QED
  BY <1>5

RefOnly(f) ==
    /\ ftable'[f].type = ftable[f].type /\ ftable'[f].ip = ftable[f].ip
    /\ ftable'[f].inum = ftable[f].inum /\ ftable'[f].pipe = ftable[f].pipe
    /\ ftable'[f].end = ftable[f].end /\ DOMAIN ftable'[f] = DOMAIN ftable[f]
    /\ ftable'[f].ref = 0 => ftable'[f] = Closed
Plus(f, n) == ftable'[f].ref = ftable[f].ref + n

LEMMA RefOnlyIs ==
    ASSUME Core, NEW f \in Files, NEW n \in Nat,
           ftable'[f] = [ftable[f] EXCEPT !.ref = @ + n]
    PROVE  RefOnly(f) /\ Plus(f, n) /\ ftable'[f].ref \in Nat
<1>1. Types /\ FileRefs /\ ftable[f].ref \in Nat /\ (ftable[f].ref = 0 => ftable[f] = Closed)
  BY FileCounts DEF Core, Contents
<1>2. DOMAIN ftable[f] = {"ref", "type", "ip", "inum", "pipe", "end"}
  BY <1>1 DEF Types, Closed
<1>. DEFINE g == ftable[f]
            h == ftable'[f]
<1>3. h = [g EXCEPT !.ref = g.ref + n]
  OBVIOUS
<1>. HIDE DEF g, h
<1>4. /\ h.type = g.type /\ h.ip = g.ip /\ h.inum = g.inum /\ h.pipe = g.pipe
      /\ h.end = g.end /\ DOMAIN h = DOMAIN g /\ h.ref = g.ref + n
  BY <1>2, <1>3 DEF g
<1>5. h.ref \in Nat /\ g.ref \in Nat
  BY <1>1, <1>4 DEF g
<1>6. ASSUME h.ref = 0
      PROVE  h = Closed
  <2>1. g.ref = 0 /\ n = 0
    BY <1>4, <1>5, <1>6
  <2>2. g = Closed
    BY <1>1, <2>1 DEF g
  <2>3. h = [Closed EXCEPT !.ref = 0]
    BY <1>3, <2>1, <2>2
  <2>. QED
    BY <2>3 DEF Closed
<1>. QED
  BY <1>4, <1>5, <1>6 DEF RefOnly, Plus, g, h

LEMMA CountedKeeps ==
    ASSUME Core, NEW p \in Procs, todo[p] = << >>, NEW T \in SUBSET Files,
           \A f \in T : \E fd \in Fds : ofile[p][fd] = f,
           \A f \in Files : RefOnly(f),
           \A f \in Files \ T : ftable'[f].ref = ftable[f].ref,
           \A q \in Procs : \A fd \in Fds : ofile[q][fd] # 0 => ofile'[q][fd] = ofile[q][fd],
           CacheKept, UNCHANGED pipes
    PROVE  /\ Contents' /\ PipeEnds'
           /\ \A q \in Procs : \A j \in 1..Len(todo[q]) : OpenAfter(q, todo[q][j])
<1>0. Types /\ SlotRefs /\ Contents /\ PipeEnds
  BY DEF Core
<1>1. \A f \in Files : /\ ftable'[f].type = ftable[f].type /\ ftable'[f].ip = ftable[f].ip
                       /\ ftable'[f].inum = ftable[f].inum /\ ftable'[f].pipe = ftable[f].pipe
                       /\ ftable'[f].end = ftable[f].end
                       /\ ftable'[f].ref = 0 => ftable'[f] = Closed
  BY DEF RefOnly
<1>2. Contents'
  <2>1. ASSUME NEW f \in Files
        PROVE  /\ ftable'[f].ref = 0 => ftable'[f] = Closed
               /\ ftable'[f].type = "inode" =>
                    ftable'[f].ip \in Slots /\ icache'[ftable'[f].ip].inum = ftable'[f].inum
               /\ ftable'[f].type # "inode" => ftable'[f].ip = 0
               /\ ftable'[f].type = "pipe" => ftable'[f].pipe \in Files
               /\ ftable'[f].type # "pipe" => ftable'[f].pipe = 0
    <3>1. /\ ftable[f].type = "inode" =>
               ftable[f].ip \in Slots /\ icache[ftable[f].ip].inum = ftable[f].inum
          /\ ftable[f].type # "inode" => ftable[f].ip = 0
          /\ ftable[f].type = "pipe" => ftable[f].pipe \in Files
          /\ ftable[f].type # "pipe" => ftable[f].pipe = 0
      BY <1>0 DEF Contents
    <3>2. ftable[f].ip \in Slots => icache[ftable[f].ip].ref > 0
      BY <1>0, RefPositive
    <3>3. \A s \in Slots : icache[s].ref > 0 => icache'[s].inum = icache[s].inum
      BY DEF CacheKept
    <3>. QED
      BY <1>1, <3>1, <3>2, <3>3
  <2>. QED
    BY <2>1 DEF Contents, Files, Slots, Closed
<1>3. PipeEnds'
  <2>1. \A f \in Files : ftable'[f].pipe = ftable[f].pipe /\ ftable'[f].end = ftable[f].end
    BY <1>1
  <2>. QED
    BY <1>0, <2>1 DEF PipeEnds, Files
<1>4. ASSUME NEW q \in Procs, NEW j \in 1..Len(todo[q])
      PROVE  OpenAfter(q, todo[q][j])
  <2>1. \A f \in Files \ T : ftable'[f].ref = ftable[f].ref /\ ftable'[f].type = ftable[f].type
    BY <1>1
  <2>2. \A f \in Files \ T : \A fd \in Fds : ofile[q][fd] = f => ofile'[q][fd] = f
    BY SizesAre
  <2>3. \A f \in T : ~Concerns(todo[q][j], f)
    BY SharedFiles
  <2>. QED
    BY <2>1, <2>2, <2>3, OpeningApart
<1>. QED
  BY <1>2, <1>3, <1>4

(* Nobody's sections or local variables change.                            *)
LEMMA RowsStay ==
    ASSUME UNCHANGED <<todo, reg>>, NEW v
    PROVE  /\ Count(Ends(SlotsOf), v)' = Count(Ends(SlotsOf), v)
           /\ Count(Ends(FilesOf), v)' = Count(Ends(FilesOf), v)
           /\ Count(Ends(OthersOf), v)' = Count(Ends(OthersOf), v)
           /\ Count(Locals, v)' = Count(Locals, v)
<1>1. SlotsOf' = SlotsOf /\ FilesOf' = FilesOf /\ OthersOf' = OthersOf /\ Locals' = Locals
  BY DEF SlotsOf, FilesOf, OthersOf, Locals
<1>. QED
  BY <1>1 DEF Count, Where, Ends

LEMMA OpenedStays ==
    ASSUME \A f \in Files : ftable'[f].ip = ftable[f].ip, NEW v
    PROVE  Count(Opened, v)' = Count(Opened, v)
<1>1. Opened' = Opened
  BY DEF Opened, Files
<1>. QED
  BY <1>1 DEF Count, Where

(* dup() and fork(): a process between two calls gets descriptors.         *)
LEMMA IdleMove ==
    ASSUME Core, NEW p \in Procs, todo[p] = << >>, UNCHANGED <<todo, reg>>, CacheKept,
           FilesTyped, OthersStay(p), SlotRefs', FileRefs', AliveAt(p)', Contents', PipeEnds',
           \A q \in Procs : \A j \in 1..Len(todo[q]) : OpenAfter(q, todo[q][j])
    PROVE  Core'
<1>0. Types /\ Shapes
  BY DEF Core
<1>1. todo'[p] = << >> /\ IsSeq(todo'[p]) /\ DOMAIN todo' = Procs /\ RegMove(p)
  BY <1>0 DEF Types, RegMove
<1>2. Shape(todo'[p], reg'[p])
  BY <1>0 DEF Shapes
<1>3. \A k \in 1..Len(todo'[p]) : FALSE
  BY <1>1
<1>4. ExitingAt(p)'
  BY <1>1, <1>3 DEF ExitingAt
<1>5. \A q \in Procs : \A k \in 1..Len(todo'[q]) : OpenAfter(q, todo'[q][k])
  OBVIOUS
<1>. QED
  BY <1>1, <1>2, <1>3, <1>4, <1>5, CoreMove

LEMMA DupKeeps ==
    ASSUME Core, NEW p, NEW fd \in Fds, Dup(p, fd)
    PROVE  Core'
<1>. DEFINE f == ofile[p][fd]
            fe == FdAlloc(p)
            x == <<p, fe>>
<1>1. /\ p \in Procs /\ p \in alive /\ todo[p] = << >>
      /\ ~Leaving(p) /\ cwd[p] \in Slots /\ Types /\ SlotRefs /\ FileRefs
  BY IdleIs DEF Dup, Core
<1>2. /\ f # 0 /\ fe # 0 /\ ofile' = [ofile EXCEPT ![p][fe] = f]
      /\ ftable' = [ftable EXCEPT ![f].ref = @ + 1]
      /\ UNCHANGED <<icache, cwd, reg, todo, alive, pipes>>
  BY DEF Dup, Filedup, inodeVars
<1>3. f \in Files /\ fe \in Fds /\ ofile[p][fe] = 0
  BY <1>1, <1>2, FdAllocIs DEF Types
<1>4. /\ ftable'[f] = [ftable[f] EXCEPT !.ref = @ + 1]
      /\ \A g \in Files : g # f => ftable'[g] = ftable[g]
      /\ ftable' = [g \in Files |-> ftable'[g]]
  BY <1>1, <1>2, <1>3 DEF Types
<1>5. /\ ofile'[p][fe] = f /\ \A fc \in Fds : fc # fe => ofile'[p][fc] = ofile[p][fc]
      /\ \A q \in Procs : q # p => ofile'[q] = ofile[q]
      /\ ofile' \in [Procs -> [Fds -> Files \cup {0}]]
  BY <1>1, <1>2, <1>3 DEF Types
<1>. HIDE DEF f, fe
<1>6. RefOnly(f) /\ Plus(f, 1)
  BY <1>3, <1>4, RefOnlyIs
<1>7. \A g \in Files : RefOnly(g) /\ (g # f => ftable'[g].ref = ftable[g].ref)
  <2>. TAKE g \in Files
  <2>1. CASE g = f
    BY <1>6, <2>1
  <2>2. CASE g # f
    BY <1>4, <2>2 DEF RefOnly, Core, Contents
  <2>. QED
    BY <2>1, <2>2
<1>8. CacheKept
  BY <1>1, <1>2, CacheUnchanged DEF CacheMoves
<1>9. /\ Contents' /\ PipeEnds'
      /\ \A q \in Procs : \A j \in 1..Len(todo[q]) : OpenAfter(q, todo[q][j])
  <2>. DEFINE T == {f}
  <2>1. T \in SUBSET Files /\ \A g \in T : \E fc \in Fds : ofile[p][fc] = g
    BY <1>3 DEF f
  <2>2. \A g \in Files \ T : ftable'[g].ref = ftable[g].ref
    BY <1>7
  <2>3. \A q \in Procs : \A fc \in Fds : ofile[q][fc] # 0 => ofile'[q][fc] = ofile[q][fc]
    BY <1>3, <1>5
  <2>4. \A g \in Files : RefOnly(g)
    BY <1>7
  <2>5. UNCHANGED pipes
    BY <1>2
  <2>. HIDE DEF T
  <2>. QED
    BY <1>1, <1>8, <2>1, <2>2, <2>3, <2>4, <2>5, CountedKeeps
<1>10. SlotRefs'
  <2>. SUFFICES ASSUME NEW v \in Slots
                PROVE  icache'[v].ref = Count(Dirs, v)' + Count(Opened, v)' + Count(Locals, v)'
                                        + Count(Ends(SlotsOf), v)'
    BY DEF SlotRefs, Slots
  <2>1. Count(Dirs, v)' = Count(Dirs, v)
    BY <1>2 DEF Dirs, Leaving, Count, Where
  <2>2. Count(Opened, v)' = Count(Opened, v)
    BY <1>7, OpenedStays DEF RefOnly
  <2>3. Count(Locals, v)' = Count(Locals, v) /\ Count(Ends(SlotsOf), v)' = Count(Ends(SlotsOf), v)
    BY <1>2, RowsStay
  <2>. QED
    BY <1>1, <1>2, <2>1, <2>2, <2>3 DEF SlotRefs
<1>11. FileRefs'
  <2>. SUFFICES ASSUME NEW v \in Files
                PROVE  ftable'[v].ref = Count(Descs, v)' + Count(Ends(FilesOf), v)'
                                        + Count(Ends(OthersOf), v)'
    BY DEF FileRefs, Files
  <2>1. Same(Descs, Descs', {x}) /\ Descs[x] = 0 /\ Descs'[x] = f
    <3>1. DOMAIN Descs = Procs \X Fds /\ DOMAIN Descs' = Procs \X Fds /\ x \in Procs \X Fds
      BY <1>1, <1>3 DEF Descs, Fds
    <3>2. \A q \in Procs : \A fc \in Fds : Descs[<<q, fc>>] = ofile[q][fc]
                                           /\ Descs'[<<q, fc>>] = ofile'[q][fc]
      BY DEF Descs, Fds
    <3>3. \A y \in Procs \X Fds : y # x => Descs'[y] = Descs[y]
      <4>. SUFFICES ASSUME NEW q \in Procs, NEW fc \in Fds, <<q, fc>> # x
                    PROVE  Descs'[<<q, fc>>] = Descs[<<q, fc>>]
        OBVIOUS
      <4>1. ~(q = p /\ fc = fe)
        OBVIOUS
      <4>. QED
        BY <1>5, <3>2, <4>1
    <3>. QED
      BY <1>1, <1>3, <1>5, <3>1, <3>2, <3>3 DEF Same
  <2>. HIDE DEF x
  <2>2. Moved(Descs, Descs', x, v)
    BY <2>1, HoldersFinite, CountOne
  <2>. DEFINE A == Count(Descs, v)
              B == Count(Ends(FilesOf), v)
              C == Count(Ends(OthersOf), v)
              D == Count(Descs', v)
              r == ftable[v].ref
              s == ftable'[v].ref
              i == Is(f, v)
  <2>3. Count(Ends(FilesOf), v)' = B /\ Count(Ends(OthersOf), v)' = C /\ Count(Descs, v)' = D
    <3>1. Count(Ends(FilesOf), v)' = B /\ Count(Ends(OthersOf), v)' = C
      BY <1>2, RowsStay
    <3>2. Count(Descs, v)' = D
      BY DEF Count, Where
    <3>. QED
      BY <3>1, <3>2
  <2>4. r = A + B + C /\ r \in Nat /\ A \in Nat /\ B \in Nat /\ C \in Nat
    BY <1>1, FileCounts
  <2>5. D = A + i /\ i \in Int
    <3>1. Is(0, v) = 0
      BY SizesAre DEF Is
    <3>2. D = A - Is(0, v) + i
      BY <2>1, <2>2 DEF Moved
    <3>3. i \in Int
      BY IsInt
    <3>. QED
      BY <2>4, <3>1, <3>2, <3>3
  <2>6. s = r + i
    <3>1. CASE v = f
      BY <1>6, <3>1 DEF Plus, Is
    <3>2. CASE v # f
      <4>1. s = r /\ i = 0
        BY <1>7, <3>2 DEF Is
      <4>. QED
        BY <2>4, <4>1
    <3>. QED
      BY <3>1, <3>2
  <2>. HIDE DEF A, B, C, D, r, s, i
  <2>7. s = D + B + C
    BY <2>4, <2>5, <2>6
  <2>. QED
    BY <2>3, <2>7 DEF s
<1>12. FilesTyped
  BY <1>1, <1>2, <1>4, <1>5, <1>7 DEF Types, FilesTyped, RefOnly
<1>13. OthersStay(p)
  BY <1>2, <1>5 DEF OthersStay
<1>14. AliveAt(p)'
  BY <1>1, <1>2 DEF AliveAt, Slots
<1>. QED
  BY <1>1, <1>2, <1>8, <1>9, <1>10, <1>11, <1>12, <1>13, <1>14, IdleMove

(* fork(): as many references more as the parent has descriptors.          *)
HasFile(f, p, v) == {fd \in Fds : f[<<p, fd>>] = v}
Copied(f, g, p, q) ==
    /\ DOMAIN f = Procs \X Fds /\ DOMAIN g = Procs \X Fds
    /\ \A r \in Procs : \A fd \in Fds :
         g[<<r, fd>>] = IF r = q THEN f[<<p, fd>>] ELSE f[<<r, fd>>]

LEMMA Shares ==
    ASSUME NEW f, NEW g, NEW p \in Procs, NEW q \in Procs, NEW v, p # q, Copied(f, g, p, q),
           HasFile(f, q, v) = {}
    PROVE  /\ Count(f, v) \in Nat /\ Cardinality(HasFile(f, p, v)) \in Nat
           /\ Count(g, v) = Count(f, v) + Cardinality(HasFile(f, p, v))
<1>. DEFINE F == HasFile(f, p, v)
            A == Where(f, v)
            B == Where(g, v)
            R == {q} \X F
<1>0. /\ DOMAIN f = Procs \X Fds /\ DOMAIN g = Procs \X Fds
      /\ \A r \in Procs : \A fd \in Fds :
           g[<<r, fd>>] = IF r = q THEN f[<<p, fd>>] ELSE f[<<r, fd>>]
      /\ F \subseteq Fds /\ \A fd \in Fds : fd \in F <=> f[<<p, fd>>] = v
      /\ \A fd \in Fds : f[<<q, fd>>] # v
  BY DEF Copied, HasFile
<1>. HIDE DEF F
<1>1. IsFiniteSet(F) /\ Cardinality(F) \in Nat /\ IsFiniteSet({q}) /\ Cardinality({q}) = 1
  BY <1>0, SizesAre, FS_Subset, FS_CardinalityType, FS_Singleton
<1>2. IsFiniteSet(R) /\ Cardinality(R) = Cardinality(F)
  <2>1. IsFiniteSet(R) /\ Cardinality(R) = Cardinality({q}) * Cardinality(F)
    BY <1>1, FS_Product
  <2>. QED
    BY <1>1, <2>1
<1>3. IsFiniteSet(A) /\ Cardinality(A) \in Nat
  <2>1. IsFiniteSet(Procs \X Fds)
    BY SizesAre, FS_Product
  <2>. QED
    BY <1>0, <2>1, CountFinite DEF Finite, Count
<1>4. \A x \in Procs \X Fds : x \in B <=> x \in A \/ x \in R
  <2>. SUFFICES ASSUME NEW r \in Procs, NEW fd \in Fds
                PROVE  <<r, fd>> \in B <=> <<r, fd>> \in A \/ <<r, fd>> \in R
    OBVIOUS
  <2>1. /\ <<r, fd>> \in B <=> g[<<r, fd>>] = v
        /\ <<r, fd>> \in A <=> f[<<r, fd>>] = v
        /\ <<r, fd>> \in R <=> r = q /\ fd \in F
    BY <1>0 DEF Where
  <2>2. CASE r = q
    BY <1>0, <2>1, <2>2
  <2>3. CASE r # q
    BY <1>0, <2>1, <2>3
  <2>. QED
    BY <2>2, <2>3
<1>5. A \subseteq Procs \X Fds /\ B \subseteq Procs \X Fds /\ R \subseteq Procs \X Fds
  BY <1>0 DEF Where
<1>6. B = A \cup R
  BY <1>4, <1>5
<1>7. A \cap R = {}
  <2>. SUFFICES ASSUME NEW x \in A, x \in R
                PROVE  FALSE
    OBVIOUS
  <2>1. PICK fd \in F : x = <<q, fd>>
    OBVIOUS
  <2>2. f[x] = v
    BY DEF Where
  <2>3. fd \in Fds
    BY <1>0
  <2>. QED
    BY <1>0, <2>1, <2>2, <2>3
<1>. HIDE DEF A, B, R
<1>8. Cardinality(B) = Cardinality(A) + Cardinality(R) - Cardinality({})
  BY <1>2, <1>3, <1>6, <1>7, FS_Union
<1>9. Cardinality({}) = 0
  BY FS_EmptySet
<1>10. Cardinality(B) = Cardinality(A) + Cardinality(F)
  BY <1>1, <1>2, <1>3, <1>8, <1>9
<1>. QED
  BY <1>1, <1>3, <1>10 DEF A, B, F, Count

LEMMA ForkKeeps ==
    ASSUME Core, NEW p, NEW q \in Procs, Fork(p, q)
    PROVE  Core'
<1>. DEFINE w == cwd[p]
            F(v) == {fd \in Fds : ofile[p][fd] = v}
            n(v) == Cardinality(F(v))
<1>1. /\ p \in Procs /\ p \in alive /\ todo[p] = << >>
      /\ w \in Slots /\ Types /\ SlotRefs /\ FileRefs
  BY IdleIs DEF Fork, Core
<1>2. /\ q \notin alive /\ q # p /\ todo[q] = << >> /\ cwd[q] = 0 /\ \A fd \in Fds : ofile[q][fd] = 0
  BY <1>1 DEF Fork, Core, Alive
<1>3. /\ ofile' = [ofile EXCEPT ![q] = ofile[p]]
      /\ icache' = Idup(w) /\ cwd' = [cwd EXCEPT ![q] = w] /\ alive' = alive \cup {q}
      /\ ftable' = [f \in DOMAIN ftable |-> [ftable[f] EXCEPT !.ref = @ + n(f)]]
      /\ UNCHANGED <<todo, reg, pipes>>
  BY DEF Fork, Quantify, Fds
<1>4. \A f \in Files : n(f) \in Nat
  <2>. TAKE f \in Files
  <2>1. F(f) \subseteq Fds
    OBVIOUS
  <2>. HIDE DEF F
  <2>2. IsFiniteSet(F(f))
    BY <2>1, SizesAre, FS_Subset
  <2>. QED
    BY <2>2, FS_CardinalityType
<1>. HIDE DEF n
<1>5. /\ \A f \in Files : ftable'[f] = [ftable[f] EXCEPT !.ref = @ + n(f)]
      /\ ftable' = [f \in Files |-> ftable'[f]]
  BY <1>1, <1>3 DEF Types
<1>6. \A f \in Files : RefOnly(f) /\ Plus(f, n(f))
  BY <1>4, <1>5, RefOnlyIs
<1>7. /\ ofile'[q] = ofile[p] /\ \A r \in Procs : r # q => ofile'[r] = ofile[r]
      /\ ofile' \in [Procs -> [Fds -> Files \cup {0}]]
      /\ cwd'[q] = w /\ \A r \in Procs : r # q => cwd'[r] = cwd[r]
      /\ cwd' \in [Procs -> Slots \cup {0}]
  BY <1>1, <1>3 DEF Types
<1>8. CacheMoves(w, 0)
  BY <1>1, <1>3, IdupMoves
<1>9. CacheKept
  BY <1>8 DEF CacheMoves
<1>10. /\ Contents' /\ PipeEnds'
       /\ \A r \in Procs : \A j \in 1..Len(todo[r]) : OpenAfter(r, todo[r][j])
  <2>. DEFINE T == {f \in Files : \E fd \in Fds : ofile[p][fd] = f}
  <2>1. T \in SUBSET Files /\ \A f \in T : \E fd \in Fds : ofile[p][fd] = f
    OBVIOUS
  <2>2. \A f \in Files \ T : ftable'[f].ref = ftable[f].ref
    <3>. TAKE f \in Files \ T
    <3>1. F(f) = {}
      OBVIOUS
    <3>2. n(f) = 0
      BY <3>1, FS_EmptySet DEF n
    <3>3. ftable'[f].ref = ftable[f].ref + n(f) /\ ftable[f].ref \in Nat
      BY <1>1, <1>6, FileCounts DEF Plus
    <3>. QED
      BY <3>2, <3>3
  <2>3. \A r \in Procs : \A fd \in Fds : ofile[r][fd] # 0 => ofile'[r][fd] = ofile[r][fd]
    BY <1>2, <1>7
  <2>4. \A f \in Files : RefOnly(f)
    BY <1>6
  <2>5. UNCHANGED pipes
    BY <1>3
  <2>. HIDE DEF T
  <2>. QED
    BY <1>1, <1>9, <2>1, <2>2, <2>3, <2>4, <2>5, CountedKeeps
<1>11. Same(Dirs, Dirs', {q}) /\ Dirs[q] = 0 /\ Dirs'[q] = w
  <2>1. DOMAIN Dirs = Procs /\ DOMAIN Dirs' = Procs
    BY DEF Dirs
  <2>2. Dirs[q] = 0 /\ Dirs'[q] = w
    BY <1>2, <1>3, <1>7 DEF Dirs, Leaving
  <2>3. \A r \in Procs : r # q => Dirs'[r] = Dirs[r]
    BY <1>3, <1>7 DEF Dirs, Leaving
  <2>. QED
    BY <2>1, <2>2, <2>3 DEF Same
<1>. HIDE DEF w
<1>12. SlotRefs'
  <2>. SUFFICES ASSUME NEW v \in Slots
                PROVE  icache'[v].ref = Count(Dirs, v)' + Count(Opened, v)' + Count(Locals, v)'
                                        + Count(Ends(SlotsOf), v)'
    BY DEF SlotRefs, Slots
  <2>. DEFINE A == Count(Dirs, v)
              B == Count(Opened, v)
              C == Count(Locals, v)
              D == Count(Ends(SlotsOf), v)
              E == Count(Dirs', v)
              r == icache[v].ref
              s == icache'[v].ref
              i == Is(w, v)
  <2>1. Count(Dirs, v)' = E
    BY DEF Count, Where
  <2>2. Count(Opened, v)' = B
    BY <1>6, OpenedStays DEF RefOnly
  <2>3. Count(Locals, v)' = C /\ Count(Ends(SlotsOf), v)' = D
    BY <1>3, RowsStay
  <2>4. A \in Int /\ B \in Int /\ C \in Int /\ D \in Int /\ i \in Int /\ r \in Int
    <3>1. A \in Int /\ B \in Int /\ C \in Int /\ D \in Int
      BY <1>1, HoldersFinite, RowsFinite, SizesAre, CountNat
    <3>2. r \in Int
      BY <1>1, RefPositive
    <3>. QED
      BY <3>1, <3>2, IsInt
  <2>5. r = A + B + C + D
    BY <1>1 DEF SlotRefs
  <2>6. Is(0, v) = 0
    BY SizesAre DEF Is
  <2>7. E = A + i
    <3>1. Moved(Dirs, Dirs', q, v)
      BY <1>11, HoldersFinite, CountOne
    <3>2. E = A - Is(0, v) + i
      BY <1>11, <3>1 DEF Moved
    <3>. QED
      BY <2>4, <2>6, <3>2
  <2>8. s = r + i
    <3>1. s = r + i - Is(0, v)
      BY <1>8 DEF CacheMoves
    <3>. QED
      BY <2>4, <2>6, <3>1
  <2>. HIDE DEF A, B, C, D, E, r, s, i
  <2>9. s = E + B + C + D
    BY <2>4, <2>5, <2>7, <2>8
  <2>. QED
    BY <2>1, <2>2, <2>3, <2>9 DEF s
<1>13. FileRefs'
  <2>. SUFFICES ASSUME NEW v \in Files
                PROVE  ftable'[v].ref = Count(Descs, v)' + Count(Ends(FilesOf), v)'
                                        + Count(Ends(OthersOf), v)'
    BY DEF FileRefs, Files
  <2>1. /\ DOMAIN Descs = Procs \X Fds /\ DOMAIN Descs' = Procs \X Fds
        /\ \A r \in Procs : \A fd \in Fds :
             Descs[<<r, fd>>] = ofile[r][fd] /\ Descs'[<<r, fd>>] = ofile'[r][fd]
    BY DEF Descs, Fds
  <2>2. F(v) \in SUBSET Fds /\ F(v) = {fd \in Fds : Descs[<<p, fd>>] = v}
    BY <1>1, <2>1
  <2>3. \A r \in Procs : \A fd \in Fds :
          Descs'[<<r, fd>>] = IF r = q THEN Descs[<<p, fd>>] ELSE Descs[<<r, fd>>]
    <3>. TAKE r \in Procs
    <3>. TAKE fd \in Fds
    <3>1. /\ Descs'[<<r, fd>>] = ofile'[r][fd] /\ Descs[<<r, fd>>] = ofile[r][fd]
          /\ Descs[<<p, fd>>] = ofile[p][fd]
      BY <1>1, <2>1
    <3>2. CASE r = q
      BY <1>7, <3>1, <3>2
    <3>3. CASE r # q
      BY <1>7, <3>1, <3>3
    <3>. QED
      BY <3>2, <3>3
  <2>4. \A fd \in Fds : Descs[<<q, fd>>] # v
    BY <1>2, <2>1, SizesAre
  <2>. DEFINE A == Count(Descs, v)
              B == Count(Ends(FilesOf), v)
              C == Count(Ends(OthersOf), v)
              D == Count(Descs', v)
              r == ftable[v].ref
              s == ftable'[v].ref
              i == n(v)
  <2>5. i \in Nat /\ D = A + i
    <3>1. Copied(Descs, Descs', p, q)
      BY <2>1, <2>3 DEF Copied
    <3>2. HasFile(Descs, q, v) = {}
      BY <2>4 DEF HasFile
    <3>3. HasFile(Descs, p, v) = F(v)
      BY <2>2 DEF HasFile
    <3>. HIDE DEF F
    <3>4. /\ Cardinality(HasFile(Descs, p, v)) \in Nat
          /\ Count(Descs', v) = Count(Descs, v) + Cardinality(HasFile(Descs, p, v))
      BY <1>1, <1>2, <3>1, <3>2, Shares
    <3>. QED
      BY <3>3, <3>4 DEF n
  <2>6. Count(Ends(FilesOf), v)' = B /\ Count(Ends(OthersOf), v)' = C /\ Count(Descs, v)' = D
    <3>1. Count(Ends(FilesOf), v)' = B /\ Count(Ends(OthersOf), v)' = C
      BY <1>3, RowsStay
    <3>2. Count(Descs, v)' = D
      BY DEF Count, Where
    <3>. QED
      BY <3>1, <3>2
  <2>7. r = A + B + C /\ r \in Nat /\ A \in Nat /\ B \in Nat /\ C \in Nat
    BY <1>1, FileCounts
  <2>8. s = r + i
    BY <1>6 DEF Plus
  <2>. HIDE DEF A, B, C, D, r, s, i
  <2>9. s = D + B + C
    BY <2>5, <2>7, <2>8
  <2>. QED
    BY <2>6, <2>9 DEF s
<1>14. FilesTyped
  BY <1>1, <1>3, <1>5, <1>6, <1>7 DEF Types, FilesTyped, RefOnly
<1>15. OthersStay(q)
  BY <1>3, <1>7 DEF OthersStay
<1>16. AliveAt(q)'
  BY <1>1, <1>3, <1>7 DEF AliveAt, Slots
<1>17. UNCHANGED <<todo, reg>>
  BY <1>3
<1>. QED
  BY <1>2, <1>9, <1>10, <1>12, <1>13, <1>14, <1>15, <1>16, <1>17, IdleMove

-----------------------------------------------------------------------------
(* A value that is nowhere, and one that is at one place.                  *)
LEMMA CountNone ==
    ASSUME NEW f, NEW v, \A x \in DOMAIN f : f[x] # v
    PROVE  Count(f, v) = 0
<1>1. Where(f, v) = {}
  BY DEF Where
<1>. QED
  BY <1>1, FS_EmptySet DEF Count

LEMMA CountSingle ==
    ASSUME NEW f, NEW v, NEW a \in DOMAIN f, f[a] = v, \A x \in DOMAIN f : x # a => f[x] # v
    PROVE  Count(f, v) = 1
<1>1. Where(f, v) = {a}
  BY DEF Where
<1>. QED
  BY <1>1, FS_Singleton DEF Count

(* With nothing to do and no inode in a local variable, directories, open  *)
(* files and descriptors are the only references.                          *)
LEMMA QuietRows ==
    ASSUME \A p \in Procs : todo[p] = << >>, NEW v, v # 0
    PROVE  Count(Ends(SlotsOf), v) = 0 /\ Count(Ends(FilesOf), v) = 0 /\ Count(Ends(OthersOf), v) = 0
<1>1. ASSUME NEW w, DOMAIN w = Procs, \A p \in Procs : Len(w[p]) = 0
      PROVE  Count(Ends(w), v) = 0
  <2>1. \A x \in DOMAIN Ends(w) : Ends(w)[x] = 0
    BY <1>1 DEF Ends
  <2>. QED
    BY <2>1, CountNone
<1>2. \A p \in Procs : Len(todo[p]) = 0
  OBVIOUS
<1>3. /\ DOMAIN SlotsOf = Procs /\ \A p \in Procs : SlotsOf[p] = [k \in 1..0 |-> SlotOf(todo[p][k])]
      /\ DOMAIN FilesOf = Procs /\ \A p \in Procs : FilesOf[p] = [k \in 1..0 |-> FileOf(todo[p][k])]
      /\ DOMAIN OthersOf = Procs /\ \A p \in Procs : OthersOf[p] = [k \in 1..0 |-> OtherOf(todo[p][k])]
  BY <1>2 DEF SlotsOf, FilesOf, OthersOf
<1>4. \A p \in Procs : Len(SlotsOf[p]) = 0 /\ Len(FilesOf[p]) = 0 /\ Len(OthersOf[p]) = 0
  BY <1>3
<1>. QED
  BY <1>1, <1>3, <1>4

LEMMA QuietLocals ==
    ASSUME \A p \in Procs : NoInodes(reg[p]), NEW v, v # 0
    PROVE  Count(Locals, v) = 0
<1>1. \A x \in DOMAIN Locals : Locals[x] # v
  BY DEF Locals, NoInodes
<1>. QED
  BY <1>1, CountNone

(* In the beginning the first process is in the root directory.            *)
LEMMA InitKeeps ==
    ASSUME Init
    PROVE  Core
<1>1. PICK p \in Procs : alive = {p} /\ InodeInit(p)
  BY DEF Init
<1>2. /\ ftable = [f \in Files |-> Closed] /\ ofile = [q \in Procs |-> [fd \in Fds |-> 0]]
      /\ pipes = [k \in Files |-> {}]
  BY DEF Init, Files, Fds
<1>3. /\ icache = [s \in Slots |->
           [inum |-> IF s = 1 THEN ROOTINO ELSE 0, ref |-> IF s = 1 THEN 1 ELSE 0,
            owner |-> NoProc, valid |-> FALSE, type |-> "none", nlink |-> 0]]
      /\ cwd = [q \in Procs |-> IF q = p THEN 1 ELSE 0]
      /\ todo = [q \in Procs |-> << >>] /\ reg = [q \in Procs |-> NoRegs]
  BY <1>1 DEF InodeInit, Slots
<1>4. 1 \in Slots /\ Slots \subseteq Nat
  BY SizesAre DEF Slots
<1>5. \A q \in Procs : todo[q] = << >> /\ Len(todo[q]) = 0 /\ ~Leaving(q) /\ NoInodes(reg[q])
  BY <1>3 DEF Leaving, NoInodes, NoRegs
<1>6. Types
  <2>1. \A q \in Procs : IsSeq(todo[q])
    <3>1. << >> \in Seq(Procs)
      OBVIOUS
    <3>2. IsSeq(<< >>)
      BY <3>1, SeqIs
    <3>. QED
      BY <1>5, <3>2
  <2>2. \A f \in Files : DOMAIN ftable[f] = DOMAIN Closed /\ ftable[f].end \in {"r", "w"}
    BY <1>2 DEF Closed
  <2>3. ftable = [f \in Files |-> ftable[f]] /\ DOMAIN pipes = Files
    BY <1>2
  <2>4. \A s \in Slots : {"inum", "ref"} \subseteq DOMAIN icache[s]
    BY <1>3
  <2>5. ofile \in [Procs -> [Fds -> Files \cup {0}]] /\ cwd \in [Procs -> Slots \cup {0}]
    BY <1>2, <1>3, <1>4
  <2>6. DOMAIN todo = Procs /\ DOMAIN reg = Procs /\ DOMAIN icache = Slots
        /\ \A q \in Procs : DOMAIN reg[q] = DOMAIN NoRegs
    BY <1>3
  <2>. QED
    BY <1>1, <2>1, <2>2, <2>3, <2>4, <2>5, <2>6 DEF Types
<1>7. SlotRefs
  <2>. SUFFICES ASSUME NEW v \in Slots
                PROVE  icache[v].ref = Count(Dirs, v) + Count(Opened, v) + Count(Locals, v)
                                       + Count(Ends(SlotsOf), v)
    BY DEF SlotRefs
  <2>1. v # 0 /\ icache[v].ref = IF v = 1 THEN 1 ELSE 0
    BY <1>3, SizesAre
  <2>2. Count(Ends(SlotsOf), v) = 0 /\ Count(Locals, v) = 0
    BY <1>5, <2>1, QuietRows, QuietLocals
  <2>3. Count(Opened, v) = 0
    <3>1. \A f \in DOMAIN Opened : Opened[f] # v
      BY <1>2, <2>1 DEF Opened, Closed
    <3>. QED
      BY <3>1, CountNone
  <2>4. Dirs = [q \in Procs |-> IF q = p THEN 1 ELSE 0]
    BY <1>3, <1>5 DEF Dirs
  <2>5. Count(Dirs, v) = IF v = 1 THEN 1 ELSE 0
    <3>1. CASE v = 1
      <4>1. p \in DOMAIN Dirs /\ Dirs[p] = v /\ \A x \in DOMAIN Dirs : x # p => Dirs[x] # v
        BY <2>1, <2>4, <3>1
      <4>. QED
        BY <3>1, <4>1, CountSingle
    <3>2. CASE v # 1
      <4>1. \A x \in DOMAIN Dirs : Dirs[x] # v
        BY <2>1, <2>4, <3>2
      <4>. QED
        BY <3>2, <4>1, CountNone
    <3>. QED
      BY <3>1, <3>2
  <2>. QED
    BY <2>1, <2>2, <2>3, <2>5
<1>8. FileRefs
  <2>. SUFFICES ASSUME NEW v \in Files
                PROVE  ftable[v].ref = Count(Descs, v) + Count(Ends(FilesOf), v)
                                       + Count(Ends(OthersOf), v)
    BY DEF FileRefs
  <2>1. v # 0 /\ ftable[v].ref = 0
    BY <1>2, SizesAre DEF Closed
  <2>2. Count(Ends(FilesOf), v) = 0 /\ Count(Ends(OthersOf), v) = 0
    BY <1>5, <2>1, QuietRows
  <2>3. \A x \in DOMAIN Descs : Descs[x] # v
    BY <1>2, <2>1 DEF Descs
  <2>. QED
    BY <2>1, <2>2, <2>3, CountNone
<1>9. Shapes
  <2>. SUFFICES ASSUME NEW q \in Procs
                PROVE  Shape(todo[q], reg[q])
    BY DEF Shapes
  <2>1. Mains(todo[q]) = 0 /\ \A k \in 1..Len(todo[q]) : FALSE
    BY <1>5 DEF Mains
  <2>2. reg[q].r = 0 /\ reg[q].ip = 0 /\ reg[q].dp = 0
    BY <1>5 DEF NoInodes
  <2>. QED
    BY <2>1, <2>2 DEF Shape
<1>10. \A q \in Procs : \A k \in 1..Len(todo[q]) : FALSE
  BY <1>5
<1>11. Lasts /\ Exiting /\ Opening
  BY <1>5, <1>10 DEF Lasts, Exiting, Opening
<1>12. Alive
  BY <1>1, <1>2, <1>3, <1>4, <1>5 DEF Alive
<1>13. \A f \in Files : ftable[f] = Closed /\ pipes[f] = {}
  BY <1>2
<1>14. Contents
  BY <1>13 DEF Contents, Closed
<1>15. PipeEnds
  <2>1. \A f \in Files : ftable[f].pipe = 0
    BY <1>13 DEF Closed
  <2>. QED
    BY <1>13, <2>1, SizesAre DEF PipeEnds
<1>. QED
  BY <1>6, <1>7, <1>8, <1>9, <1>11, <1>12, <1>14, <1>15 DEF Core

LEMMA SectionKeeps ==
    ASSUME Core, NEW p \in Procs, ProcNext(p), panicked' = "no"
    PROVE  Core'
<1>1. CASE InodeStep(p)
  BY <1>1, InodeKeeps
<1>2. CASE Fileclose(p)
  BY <1>2, FilecloseKeeps
<1>3. CASE Create1(p) \/ Create2(p) \/ Create3(p) \/ Create4(p)
  BY <1>3, Create1Keeps, Create2Keeps, Create3Keeps, Create4Keeps
<1>4. CASE Open1(p) \/ Open2(p) \/ Open3(p) \/ Open4(p)
  BY <1>4, Open1Keeps, Open2Keeps, Open3Keeps, Open4Keeps
<1>5. CASE Link1(p) \/ Link2(p) \/ Link3(p) \/ Link4(p) \/ Link5(p)
  BY <1>5, Link1Keeps, Link2Keeps, Link3Keeps, Link4Keeps, Link5Keeps
<1>6. CASE Unlink1(p) \/ Unlink2(p) \/ Unlink3(p) \/ Unlink4(p)
  BY <1>6, Unlink1Keeps, Unlink2Keeps, Unlink3Keeps, Unlink4Keeps
<1>7. CASE Mk1(p) \/ Chdir1(p) \/ Chdir2(p) \/ Chdir3(p)
  BY <1>7, Mk1Keeps, Chdir1Keeps, Chdir2Keeps, Chdir3Keeps
<1>8. CASE Pipe1(p) \/ Pipe2(p) \/ Exit1(p) \/ Exit2(p)
  BY <1>8, Pipe1Keeps, Pipe2Keeps, Exit1Keeps, Exit2Keeps
<1>. QED
  BY <1>1, <1>2, <1>3, <1>4, <1>5, <1>6, <1>7, <1>8 DEF ProcNext

LEMMA NextKeeps ==
    ASSUME Core, Next, panicked' = "no"
    PROVE  Core'
<1>1. PICK p \in Procs :
        \/ ProcNext(p)
        \/ \E c \in Calls : Call(p, c)
        \/ \E fd \in Fds : Dup(p, fd) \/ Close(p, fd)
        \/ \E q \in Procs : Fork(p, q)
        \/ Exit(p)
  BY DEF Next, Fds
<1>2. CASE ProcNext(p)
  BY <1>2, SectionKeeps
<1>3. CASE \E c \in Calls : Call(p, c)
  BY <1>3, CallKeeps
<1>4. CASE \E fd \in Fds : Dup(p, fd) \/ Close(p, fd)
  BY <1>4, DupKeeps, CloseKeeps
<1>5. CASE \E q \in Procs : Fork(p, q)
  BY <1>5, ForkKeeps
<1>6. CASE Exit(p)
  BY <1>6, ExitKeeps
<1>. QED
  BY <1>1, <1>2, <1>3, <1>4, <1>5, <1>6

(* After a panic nobody moves.                                             *)
LEMMA NoStepAfterPanic ==
    ASSUME Next
    PROVE  panicked = "no"
<1>1. \A p : ProcNext(p) => panicked = "no"
  <2>. SUFFICES ASSUME NEW p, ProcNext(p)
                PROVE  \E op : At(p, op)
    BY DEF At
  <2>1. CASE InodeStep(p)
    <3>1. InodeNext(p)
      BY <2>1 DEF InodeStep
    <3>. QED
      BY <3>1 DEF InodeNext, BeginOp, EndOp, Ilock, Iunlock, IputLock, IputFree, IputDrop,
                  Dirlink, Namex, Walk, Step
  <2>2. CASE Fileclose(p) \/ Create1(p) \/ Create2(p) \/ Create3(p) \/ Create4(p)
    BY <2>2 DEF Fileclose, Create1, Create2, Create3, Create4
  <2>3. CASE Open1(p) \/ Open2(p) \/ Open3(p) \/ Open4(p)
    BY <2>3 DEF Open1, Open2, Open3, Open4
  <2>4. CASE Link1(p) \/ Link2(p) \/ Link3(p) \/ Link4(p) \/ Link5(p)
    BY <2>4 DEF Link1, Link2, Link3, Link4, Link5
  <2>5. CASE Unlink1(p) \/ Unlink2(p) \/ Unlink3(p) \/ Unlink4(p)
    BY <2>5 DEF Unlink1, Unlink2, Unlink3, Unlink4
  <2>6. CASE Mk1(p) \/ Chdir1(p) \/ Chdir2(p) \/ Chdir3(p)
    BY <2>6 DEF Mk1, Chdir1, Chdir2, Chdir3
  <2>7. CASE Pipe1(p) \/ Pipe2(p) \/ Exit1(p) \/ Exit2(p)
    BY <2>7 DEF Pipe1, Pipe2, Exit1, Exit2
  <2>. QED
    BY <2>1, <2>2, <2>3, <2>4, <2>5, <2>6, <2>7 DEF ProcNext
<1>2. \A p : \A c : Call(p, c) => panicked = "no"
  BY DEF Call, Running
<1>3. \A p : \A fd : Dup(p, fd) \/ Close(p, fd) => panicked = "no"
  BY DEF Dup, Close, Running
<1>4. \A p : \A q : Fork(p, q) \/ Exit(p) => panicked = "no"
  BY DEF Fork, Exit, Running
<1>. QED
  BY <1>1, <1>2, <1>3, <1>4 DEF Next

LEMMA StutterKeeps ==
    ASSUME Core, UNCHANGED vars
    PROVE  Core'
<1>1. UNCHANGED <<icache, cwd, todo, reg, ftable, ofile, alive, pipes>>
  BY DEF vars, inodeVars, fileVars
<1>2. Types'
  BY <1>1 DEF Core, Types, IsSeq, Slots, Files, Fds, NoRegs, Closed
<1>3. SlotRefs'
  <2>. SUFFICES ASSUME NEW v \in Slots
                PROVE  icache'[v].ref = Count(Dirs, v)' + Count(Opened, v)' + Count(Locals, v)'
                                        + Count(Ends(SlotsOf), v)'
    BY DEF SlotRefs, Slots
  <2>1. Count(Dirs, v)' = Count(Dirs, v)
    BY <1>1 DEF Dirs, Leaving, Count, Where
  <2>2. Count(Opened, v)' = Count(Opened, v)
    BY <1>1, OpenedStays
  <2>3. Count(Locals, v)' = Count(Locals, v) /\ Count(Ends(SlotsOf), v)' = Count(Ends(SlotsOf), v)
    BY <1>1, RowsStay
  <2>. QED
    BY <1>1, <2>1, <2>2, <2>3 DEF Core, SlotRefs
<1>4. FileRefs'
  <2>. SUFFICES ASSUME NEW v \in Files
                PROVE  ftable'[v].ref = Count(Descs, v)' + Count(Ends(FilesOf), v)'
                                        + Count(Ends(OthersOf), v)'
    BY DEF FileRefs, Files
  <2>1. Count(Descs, v)' = Count(Descs, v)
    BY <1>1 DEF Descs, Fds, Count, Where
  <2>2. /\ Count(Ends(FilesOf), v)' = Count(Ends(FilesOf), v)
        /\ Count(Ends(OthersOf), v)' = Count(Ends(OthersOf), v)
    BY <1>1, RowsStay
  <2>. QED
    BY <1>1, <2>1, <2>2 DEF Core, FileRefs
<1>5. Shapes'
  <2>1. \A q \in Procs : Shape(todo'[q], reg'[q])
    BY <1>1 DEF Core, Shapes
  <2>2. \A q \in Procs : Shape(todo'[q], reg'[q]) => Shape(todo[q], reg[q])'
    BY DEF Shape, Mains, Needs, Holds, Within, Outside, Walking, Slots, Files, Fds
  <2>. QED
    BY <2>1, <2>2 DEF Shapes
<1>6. Lasts' /\ Alive' /\ Exiting' /\ Opening'
  <2>1. Lasts'
    BY <1>1 DEF Core, Lasts, LastOps
  <2>2. Alive'
    BY <1>1 DEF Core, Alive, Leaving, Slots, Fds
  <2>3. Exiting'
    BY <1>1 DEF Core, Exiting, Fds
  <2>4. Opening'
    BY <1>1 DEF Core, Opening, New, Fds
  <2>. QED
    BY <2>1, <2>2, <2>3, <2>4
<1>7. Contents' /\ PipeEnds'
  BY <1>1 DEF Core, Contents, PipeEnds, Slots, Files, Closed
<1>. QED
  BY <1>2, <1>3, <1>4, <1>5, <1>6, <1>7 DEF Core

LEMMA IInvKeeps ==
    ASSUME IInv, [Next]_vars
    PROVE  IInv'
<1>. SUFFICES ASSUME panicked' = "no"
              PROVE  Core'
  BY DEF IInv
<1>1. CASE Next
  BY <1>1, NoStepAfterPanic, NextKeeps DEF IInv
<1>2. CASE UNCHANGED vars
  <2>1. panicked = "no"
    BY <1>2 DEF vars, inodeVars
  <2>. QED
    BY <1>2, <2>1, StutterKeeps DEF IInv
<1>. QED
  BY <1>1, <1>2

(* Between two calls there are no other references.                        *)
LEMMA QuietCounts ==
    ASSUME IInv
    PROVE  RefsCounted
<1>. SUFFICES ASSUME Quiet
              PROVE  /\ \A s \in Slots :
                          icache[s].ref = Quantify(Procs, LAMBDA p : cwd[p] = s) +
                            Quantify(Files, LAMBDA f : ftable[f].ref > 0 /\ ftable[f].ip = s)
                     /\ \A f \in Files :
                          ftable[f].ref = Quantify(Procs \X Fds, LAMBDA d : ofile[d[1]][d[2]] = f)
                     /\ \A k \in Files : pipes[k] =
                          {ftable[f].end : f \in {g \in Files : ftable[g].pipe = k}}
  <2>1. Quiet => DOMAIN icache = Slots /\ DOMAIN ftable = Files /\ DOMAIN pipes = Files
    BY DEF Quiet, IInv, Core, Types
  <2>. QED
    BY <2>1 DEF RefsCounted, Fds, Quantify
<1>0. Core /\ Types /\ SlotRefs /\ FileRefs /\ Shapes /\ Contents /\ PipeEnds
  BY DEF Quiet, IInv, Core
<1>1. \A p \in Procs : todo[p] = << >> /\ ~Leaving(p)
  BY DEF Quiet, Leaving
<1>2. \A p \in Procs : NoInodes(reg[p])
  <2>. TAKE p \in Procs
  <2>1. Shape(<< >>, reg[p]) /\ Mains(<< >>) = 0
    BY <1>0, <1>1 DEF Shapes, Mains
  <2>. QED
    BY <2>1 DEF Shape, NoInodes
<1>3. ASSUME NEW s \in Slots
      PROVE  icache[s].ref = Quantify(Procs, LAMBDA p : cwd[p] = s) +
               Quantify(Files, LAMBDA f : ftable[f].ref > 0 /\ ftable[f].ip = s)
  <2>. DEFINE C == {p \in Procs : cwd[p] = s}
              O == {f \in Files : ftable[f].ref > 0 /\ ftable[f].ip = s}
  <2>1. s # 0 /\ Count(Ends(SlotsOf), s) = 0 /\ Count(Locals, s) = 0
    BY <1>1, <1>2, SizesAre, QuietRows, QuietLocals
  <2>2. Where(Dirs, s) = C
    BY <1>1 DEF Where, Dirs
  <2>3. \A f \in Files : ftable[f].ip = s => ftable[f].ref > 0
    <3>. SUFFICES ASSUME NEW f \in Files, ftable[f].ip = s
                  PROVE  ftable[f].ref > 0
      OBVIOUS
    <3>1. ftable[f] # Closed
      BY <2>1 DEF Closed
    <3>2. ftable[f].ref # 0
      BY <1>0, <3>1 DEF Contents
    <3>3. ftable[f].ref \in Nat
      BY <1>0, FileCounts
    <3>. QED
      BY <3>2, <3>3
  <2>4. Where(Opened, s) = O
    BY <2>3 DEF Where, Opened
  <2>5. icache[s].ref = Count(Dirs, s) + Count(Opened, s) + 0 + 0
    BY <1>0, <2>1 DEF SlotRefs
  <2>. HIDE DEF C, O
  <2>6. Count(Dirs, s) = Cardinality(C) /\ Count(Opened, s) = Cardinality(O)
    BY <2>2, <2>4 DEF Count
  <2>7. Cardinality(C) \in Nat /\ Cardinality(O) \in Nat
    BY <2>6, HoldersFinite, CountNat
  <2>8. icache[s].ref = Cardinality(C) + Cardinality(O)
    BY <2>5, <2>6, <2>7
  <2>. QED
    BY <2>8 DEF Quantify, C, O
<1>4. ASSUME NEW f \in Files
      PROVE  ftable[f].ref = Quantify(Procs \X Fds, LAMBDA d : ofile[d[1]][d[2]] = f)
  <2>. DEFINE D == {d \in Procs \X Fds : ofile[d[1]][d[2]] = f}
  <2>1. f # 0 /\ Count(Ends(FilesOf), f) = 0 /\ Count(Ends(OthersOf), f) = 0
    BY <1>1, SizesAre, QuietRows
  <2>2. Where(Descs, f) = D
    BY DEF Where, Descs
  <2>. HIDE DEF D
  <2>3. Count(Descs, f) = Cardinality(D) /\ Cardinality(D) \in Nat
    BY <2>2, HoldersFinite, CountNat DEF Count
  <2>4. ftable[f].ref = Cardinality(D) + 0 + 0
    BY <1>0, <2>1, <2>3 DEF FileRefs
  <2>5. ftable[f].ref = Cardinality(D)
    BY <2>3, <2>4
  <2>. QED
    BY <2>5 DEF Quantify, D
<1>5. \A k \in Files : pipes[k] = {ftable[f].end : f \in {g \in Files : ftable[g].pipe = k}}
  BY <1>0 DEF PipeEnds
<1>. QED
  BY <1>3, <1>4, <1>5

(* In the middle of a call what is open or a current directory is counted, *)
(* and an end of a pipe is one struct file.                                *)
EntriesKept ==
    panicked = "no" =>
        /\ \A f \in DOMAIN ftable : ftable[f].type = "inode" =>
             icache[ftable[f].ip].ref > 0 /\ Inum(ftable[f].ip) = ftable[f].inum
        /\ \A p \in alive : ~Leaving(p) => icache[cwd[p]].ref > 0
        /\ \A f, g \in DOMAIN ftable :
             ftable[f].type = "pipe" /\ ftable[g].type = "pipe" /\
             ftable[f].pipe = ftable[g].pipe /\ ftable[f].end = ftable[g].end => f = g

LEMMA UsedEntries ==
    ASSUME IInv
    PROVE  EntriesKept
<1>. SUFFICES ASSUME panicked = "no"
              PROVE  /\ \A f \in Files : ftable[f].type = "inode" =>
                          icache[ftable[f].ip].ref > 0 /\ icache[ftable[f].ip].inum = ftable[f].inum
                     /\ \A p \in alive : ~Leaving(p) => icache[cwd[p]].ref > 0
                     /\ \A f, g \in Files :
                          ftable[f].type = "pipe" /\ ftable[g].type = "pipe" /\
                          ftable[f].pipe = ftable[g].pipe /\ ftable[f].end = ftable[g].end => f = g
  <2>1. panicked = "no" => DOMAIN ftable = Files
    BY DEF IInv, Core, Types
  <2>. QED
    BY <2>1 DEF EntriesKept, Inum
<1>0. Types /\ SlotRefs /\ Alive /\ Contents /\ PipeEnds
  BY DEF IInv, Core
<1>1. ASSUME NEW f \in Files, ftable[f].type = "inode"
      PROVE  icache[ftable[f].ip].ref > 0 /\ icache[ftable[f].ip].inum = ftable[f].inum
  <2>1. ftable[f].ip \in Slots /\ icache[ftable[f].ip].inum = ftable[f].inum
    BY <1>0, <1>1 DEF Contents
  <2>. QED
    BY <1>0, <2>1, RefPositive
<1>2. ASSUME NEW p \in alive, ~Leaving(p)
      PROVE  icache[cwd[p]].ref > 0
  <2>1. p \in Procs /\ cwd[p] \in Slots
    BY <1>0, <1>2 DEF Types, Alive
  <2>. QED
    BY <1>0, <1>2, <2>1, RefPositive
<1>3. ASSUME NEW f \in Files, NEW g \in Files, ftable[f].type = "pipe", ftable[g].type = "pipe",
             ftable[f].pipe = ftable[g].pipe, ftable[f].end = ftable[g].end
      PROVE  f = g
  <2>1. ftable[f].pipe # 0
    BY <1>0, <1>3, SizesAre DEF Contents
  <2>. QED
    BY <1>0, <1>3, <2>1 DEF PipeEnds
<1>. QED
  BY <1>1, <1>2, <1>3

-----------------------------------------------------------------------------
(* Between the system calls, whatever programs run, every reference is     *)
(* counted once: the inode cache counts current directories and open files *)
(* (iget(), idup(), iput()), the file table counts descriptors (filedup(), *)
(* fileclose(), fork(), exit()), and pipes[k] are the ends that are open.  *)
THEOREM SpecRefsCounted == Spec => []RefsCounted
<1>1. Init => IInv
  BY InitKeeps DEF IInv
<1>2. IInv /\ [Next]_vars => IInv'
  BY IInvKeeps
<1>. QED
  BY <1>1, <1>2, QuietCounts, PTL DEF Spec
=============================================================================

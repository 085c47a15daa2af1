----------------------------- MODULE InodeProofs ---------------------------
(***************************************************************************)
(* Proofs about module FileTable, continued: an inode that is open or a    *)
(* current directory is not freed, whatever the other processes unlink,    *)
(* close and give up meanwhile.                                            *)
(*                                                                         *)
(* iput() frees an inode without links when its own reference is the last  *)
(* one, and reads ref before it frees.  That nobody takes the inode into   *)
(* use in between is not a matter of one test: who makes an inode an open  *)
(* file or a current directory has locked it (Held, Created), and iput()   *)
(* has locked it too until it is free (Freeing).  What is locked was read  *)
(* from the disk and is not free (ReadIn), and there is one entry for an   *)
(* inode (Unique), so that the free of another entry is that of another    *)
(* inode.                                                                  *)
(***************************************************************************)
EXTENDS FileTableProofs

(* The users of an inode: a current directory, an open file, or a section  *)
(* to come that makes it one.                                              *)
Becoming(s, ops) ==
    \E p \in Procs : \E k \in 1..Len(todo[p]) :
        todo[p][k][1] \in ops /\ SlotOf(todo[p][k]) = s
DirUser(s) == (\E p \in Procs : Dirs[p] = s) \/ Becoming(s, {"chdir3"})
User(s) == DirUser(s) \/ (\E f \in Files : Opened[f] = s) \/ Becoming(s, {"open4"})

(* The entries of the cache: one for each inode, and what is valid is what *)
(* the disk says.                                                          *)
EntryFields == {"inum", "ref", "owner", "valid", "type", "nlink"}
CacheTyped ==
    \A s \in Slots : /\ DOMAIN icache[s] = EntryFields
                     /\ icache[s].ref > 0 => icache[s].inum \in Inums
Unique ==
    \A s, t \in Slots : icache[s].ref > 0 /\ icache[t].ref > 0 /\ icache[s].inum = icache[t].inum
                        => s = t
ReadIn ==
    \A s \in Slots : icache[s].ref > 0 /\ icache[s].valid =>
        icache[s].type = dinode[icache[s].inum].type /\ icache[s].type # "none"

(* The inodes on the disk.                                                 *)
EntsTyped(q) == IsSeq(q) /\ \A k \in 1..Len(q) : q[k].inum \in Inums \cup {0}
InodeTyped(d) == DOMAIN d = {"type", "nlink", "ents"} /\ EntsTyped(d.ents)
DiskTyped == DOMAIN dinode = Inums /\ \A i \in Inums : InodeTyped(dinode[i])

(* What has a user is not free, and a current directory is a directory.    *)
InUse ==
    \A s \in Slots : /\ User(s) => dinode[icache[s].inum].type # "none"
                     /\ DirUser(s) => dinode[icache[s].inum].type = "dir"

(* The inode that a section has locked, and read, when it comes.           *)
Locks(op, rg) ==
    IF op \in {"open2", "open3", "create3", "create4"} THEN rg.ip
    ELSE IF op = "create2" THEN rg.dp
    ELSE IF op = "chdir2" THEN rg.r ELSE 0
Locked(p, s) == icache[s].owner = p /\ icache[s].valid
Held(p) ==
    \A k \in 1..Len(todo[p]) :
        LET s == Locks(todo[p][k][1], reg[p]) IN
        s # 0 => IF k = 1 THEN Locked(p, s)
                 ELSE todo[p][k - 1][1] = "ilock" /\ todo[p][k - 1][2] = s

(* open() with O_CREATE has the inode of create() locked all the while     *)
(* create() gives the directory up, which is another inode.                *)
Created(p) ==
    LET td == todo[p]
        n == Len(td)
        r == reg[p].r IN
    n > 0 /\ td[n][1] = "open1" /\ td[n][2] = "create" /\ (n > 1 => td[n - 1][1] \notin CreateOps) =>
        /\ \A k \in 1..(n - 1) : td[k][1] \in InodeOps /\ td[k][2] # r
        /\ r # 0 => Locked(p, r)
Fresh(p) ==
    \A k \in 1..Len(todo[p]) : todo[p][k][1] = "create4" => reg[p].ip # reg[p].dp

(* iput() has locked what it frees, and nobody uses it.                    *)
Freeing(p) ==
    \A k \in 1..Len(todo[p]) : todo[p][k][1] = "ifree" =>
        LET s == todo[p][k][2] IN
        /\ k = 1 /\ Len(todo[p]) > 1 /\ todo[p][2][1] = "idrop" /\ todo[p][2][2] = s
        /\ icache[s].owner = p /\ ~User(s)

(* What link() is about to enter is an inode, and the directory is dp.     *)
Naming(p) ==
    \A k \in 1..Len(todo[p]) : todo[p][k][1] = "dirlink" =>
        todo[p][k][2] = reg[p].dp /\ reg[p].dp # 0 /\ todo[p][k][4] \in Inums

Doing(p) == Held(p) /\ Created(p) /\ Fresh(p) /\ Freeing(p) /\ Naming(p)
Inodes ==
    /\ CacheTyped /\ Unique /\ ReadIn /\ DiskTyped /\ InUse
    /\ \A p \in Procs : Doing(p)
JInv == panicked = "no" => Core /\ Inodes

-----------------------------------------------------------------------------
(* A section to come that refers to an entry is one of the ends.           *)
LEMMA PendingIs ==
    ASSUME Types, NEW p \in Procs, NEW k \in 1..Len(todo[p])
    PROVE  LET x == <<p, Len(todo[p]) + 1 - k>> IN
           x \in DOMAIN Ends(SlotsOf) /\ Ends(SlotsOf)[x] = SlotOf(todo[p][k])
<1>1. /\ Len(todo[p]) \in Nat /\ Len(SlotsOf[p]) = Len(todo[p])
      /\ \A j \in 1..Len(todo[p]) : SlotsOf[p][j] = SlotOf(todo[p][j])
  BY RowsAre
<1>2. DOMAIN SlotsOf = Procs
  BY DEF SlotsOf
<1>. DEFINE n == Len(todo[p])
            j == n + 1 - k
<1>3. n \in Nat /\ j \in 1..n /\ j \in Nat /\ n + 1 - j = k
  BY <1>1
<1>4. <<p, j>> \in (DOMAIN SlotsOf) \X Nat
  BY <1>2, <1>3
<1>5. Ends(SlotsOf)[<<p, j>>] = SlotsOf[p][n + 1 - j]
  BY <1>1, <1>3, <1>4 DEF Ends
<1>6. <<p, j>> \in DOMAIN Ends(SlotsOf)
  BY <1>4 DEF Ends
<1>. QED
  BY <1>1, <1>3, <1>5, <1>6

(* What has a user, or is referred to by a section to come, is counted.    *)
LEMMA UserCounted ==
    ASSUME Types, SlotRefs, NEW s \in Slots
    PROVE  /\ icache[s].ref \in Nat
           /\ \A p \in Procs : \A k \in 1..Len(todo[p]) :
                SlotOf(todo[p][k]) = s => icache[s].ref > 0
           /\ User(s) => icache[s].ref > 0
<1>1. /\ Count(Dirs, s) \in Nat /\ Count(Opened, s) \in Nat /\ Count(Locals, s) \in Nat
      /\ Count(Ends(SlotsOf), s) \in Nat
  BY HoldersFinite, RowsFinite, SizesAre, CountNat
<1>2. icache[s].ref = Count(Dirs, s) + Count(Opened, s) + Count(Locals, s) + Count(Ends(SlotsOf), s)
  BY DEF SlotRefs
<1>3. ASSUME NEW p \in Procs, NEW k \in 1..Len(todo[p]), SlotOf(todo[p][k]) = s
      PROVE  Count(Ends(SlotsOf), s) > 0
  BY <1>3, PendingIs, RowsFinite, SizesAre, CountPositive
<1>4. ASSUME NEW p \in Procs, Dirs[p] = s
      PROVE  Count(Dirs, s) > 0
  <2>1. p \in DOMAIN Dirs
    BY DEF Dirs
  <2>. QED
    BY <1>4, <2>1, HoldersFinite, CountPositive
<1>5. ASSUME NEW f \in Files, Opened[f] = s
      PROVE  Count(Opened, s) > 0
  <2>1. f \in DOMAIN Opened
    BY DEF Opened
  <2>. QED
    BY <1>5, <2>1, HoldersFinite, CountPositive
<1>6. User(s) => Count(Dirs, s) > 0 \/ Count(Opened, s) > 0 \/ Count(Ends(SlotsOf), s) > 0
  BY <1>3, <1>4, <1>5 DEF User, DirUser, Becoming
<1>. QED
  BY <1>1, <1>2, <1>3, <1>6

(* Two places that have a value count for two.                             *)
LEMMA CountPair ==
    ASSUME NEW f, NEW v, Finite(f, v), NEW x \in DOMAIN f, NEW y \in DOMAIN f, x # y,
           f[x] = v, f[y] = v
    PROVE  Count(f, v) \in Nat /\ Count(f, v) > 1
<1>1. IsFiniteSet(Where(f, v)) /\ {x} \subseteq Where(f, v) /\ {x} # Where(f, v)
  BY DEF Finite, Where
<1>2. Cardinality({x}) = 1 /\ IsFiniteSet({x})
  BY FS_Singleton
<1>3. Cardinality({x}) \in Nat /\ Cardinality(Where(f, v)) \in Nat
  BY <1>1, <1>2, FS_CardinalityType
<1>4. Cardinality({x}) < Cardinality(Where(f, v))
  BY <1>1, <1>3, FS_Subset
<1>. QED
  BY <1>2, <1>3, <1>4 DEF Count

(* The last reference, to be dropped, leaves no user.                      *)
LEMMA LastHasNoUser ==
    ASSUME Types, SlotRefs, NEW s \in Slots, icache[s].ref = 1, NEW p \in Procs,
           NEW k \in 1..Len(todo[p]), SlotOf(todo[p][k]) = s, todo[p][k][1] \notin {"chdir3", "open4"}
    PROVE  ~User(s)
<1>0. /\ Count(Dirs, s) \in Nat /\ Count(Opened, s) \in Nat /\ Count(Locals, s) \in Nat
      /\ Finite(Dirs, s) /\ Finite(Opened, s) /\ Finite(Ends(SlotsOf), s)
  BY HoldersFinite, RowsFinite, SizesAre, CountNat
<1>1. Count(Ends(SlotsOf), s) \in Nat /\ Count(Ends(SlotsOf), s) > 0
  BY <1>0, PendingIs, CountPositive
<1>2. icache[s].ref = Count(Dirs, s) + Count(Opened, s) + Count(Locals, s) + Count(Ends(SlotsOf), s)
  BY DEF SlotRefs
<1>3. Count(Dirs, s) = 0 /\ Count(Opened, s) = 0 /\ ~(Count(Ends(SlotsOf), s) > 1)
  BY <1>0, <1>1, <1>2
<1>4. \A q \in Procs : Dirs[q] # s
  <2>. SUFFICES ASSUME NEW q \in Procs, Dirs[q] = s
                PROVE  FALSE
    OBVIOUS
  <2>1. q \in DOMAIN Dirs
    BY DEF Dirs
  <2>. QED
    BY <1>0, <1>3, <2>1, CountPositive
<1>5. \A f \in Files : Opened[f] # s
  <2>. SUFFICES ASSUME NEW f \in Files, Opened[f] = s
                PROVE  FALSE
    OBVIOUS
  <2>1. f \in DOMAIN Opened
    BY DEF Opened
  <2>. QED
    BY <1>0, <1>3, <2>1, CountPositive
<1>6. ASSUME NEW q \in Procs, NEW j \in 1..Len(todo[q]), SlotOf(todo[q][j]) = s,
             todo[q][j][1] \in {"chdir3", "open4"}
      PROVE  FALSE
  <2>. DEFINE x == <<p, Len(todo[p]) + 1 - k>>
              y == <<q, Len(todo[q]) + 1 - j>>
  <2>1. x \in DOMAIN Ends(SlotsOf) /\ Ends(SlotsOf)[x] = s
    BY PendingIs
  <2>2. y \in DOMAIN Ends(SlotsOf) /\ Ends(SlotsOf)[y] = s
    BY <1>6, PendingIs
  <2>3. Len(todo[p]) \in Nat /\ Len(todo[q]) \in Nat
    BY RowsAre
  <2>4. q = p => j # k
    BY <1>6
  <2>5. x # y
    BY <2>3, <2>4
  <2>. HIDE DEF x, y
  <2>6. Count(Ends(SlotsOf), s) > 1
    BY <1>0, <2>1, <2>2, <2>5, CountPair
  <2>. QED
    BY <1>3, <2>6
<1>. QED
  BY <1>4, <1>5, <1>6 DEF User, DirUser, Becoming

-----------------------------------------------------------------------------
(* The cache after a section.  No inode that is there changes its type     *)
(* while the cache changes; SameEntry is what a change of ref or nlink     *)
(* leaves.                                                                 *)
TypesKept == \A i \in Inums : dinode[i].type # "none" => dinode'[i].type = dinode[i].type
SameEntry(s) ==
    /\ DOMAIN icache'[s] = DOMAIN icache[s]
    /\ icache'[s].inum = icache[s].inum /\ icache'[s].owner = icache[s].owner
    /\ icache'[s].valid = icache[s].valid /\ icache'[s].type = icache[s].type
    /\ icache'[s].ref > 0 => icache[s].ref > 0
CacheSound == CacheTyped /\ Unique /\ ReadIn

(* What is in use keeps its inode; the processes of S keep what they have  *)
(* locked.                                                                 *)
LocksKept(S) ==
    \A s \in Slots :
        /\ icache[s].ref > 0 => icache'[s].inum = icache[s].inum
        /\ \A q \in S : icache[s].owner = q =>
             /\ icache'[s].owner = q
             /\ icache[s].ref > 0 /\ icache[s].valid => icache'[s].valid

LEMMA EntriesSame ==
    ASSUME CacheSound, DOMAIN icache' = Slots, \A s \in Slots : SameEntry(s), TypesKept
    PROVE  CacheSound' /\ LocksKept(Procs)
<1>1. CacheTyped'
  BY DEF CacheSound, CacheTyped, SameEntry, Slots, Inums, EntryFields
<1>2. Unique'
  BY DEF CacheSound, Unique, SameEntry, Slots
<1>3. ReadIn'
  BY DEF CacheSound, CacheTyped, ReadIn, SameEntry, TypesKept, Slots
<1>4. LocksKept(Procs)
  BY DEF LocksKept, SameEntry
<1>. QED
  BY <1>1, <1>2, <1>3, <1>4 DEF CacheSound

LEMMA CacheSoundStays ==
    ASSUME Types, CacheSound, UNCHANGED icache, TypesKept
    PROVE  CacheSound' /\ LocksKept(Procs)
<1>1. DOMAIN icache' = Slots /\ \A s \in Slots : SameEntry(s)
  BY DEF Types, SameEntry
<1>. QED
  BY <1>1, EntriesSame

(* A reference more to an entry that has one.                              *)
LEMMA IdupSound ==
    ASSUME Types, CacheSound, NEW s \in Slots, icache[s].ref > 0, icache' = Idup(s), TypesKept
    PROVE  CacheSound' /\ LocksKept(Procs)
<1>1. DOMAIN icache' = Slots /\ \A t \in Slots : SameEntry(t)
  BY DEF Types, SameEntry, Idup
<1>. QED
  BY <1>1, EntriesSame

LEMMA AddLinkSound ==
    ASSUME Types, CacheSound, NEW cache, NEW s \in Slots, NEW e, icache' = AddLinkMem(cache, s, e),
           DOMAIN cache = Slots, TypesKept,
           \A v \in Slots : /\ DOMAIN cache[v] = DOMAIN icache[v]
                            /\ \A x \in EntryFields \ {"nlink"} : cache[v][x] = icache[v][x]
    PROVE  CacheSound' /\ LocksKept(Procs)
<1>1. DOMAIN icache' = Slots /\ \A v \in Slots :
        /\ DOMAIN icache'[v] = DOMAIN cache[v]
        /\ \A x \in EntryFields \ {"nlink"} : icache'[v][x] = cache[v][x]
  <2>1. DOMAIN icache' = Slots /\ \A v \in Slots : v # s => icache'[v] = cache[v]
    BY DEF AddLinkMem
  <2>2. icache'[s] = [cache[s] EXCEPT !.nlink = @ + e]
    BY DEF AddLinkMem
  <2>3. DOMAIN cache[s] = EntryFields
    BY DEF CacheSound, CacheTyped
  <2>4. DOMAIN icache'[s] = DOMAIN cache[s] /\ \A x \in EntryFields \ {"nlink"} : icache'[s][x] = cache[s][x]
    BY <2>2, <2>3
  <2>. QED
    BY <2>1, <2>4
<1>2. \A v \in Slots : SameEntry(v)
  <2>. TAKE v \in Slots
  <2>1. \A x \in EntryFields \ {"nlink"} : icache'[v][x] = icache[v][x]
    BY <1>1
  <2>2. /\ icache'[v].inum = icache[v].inum /\ icache'[v].owner = icache[v].owner
        /\ icache'[v].valid = icache[v].valid /\ icache'[v].type = icache[v].type
        /\ icache'[v].ref = icache[v].ref
    BY <2>1 DEF EntryFields
  <2>. QED
    BY <1>1, <2>2 DEF SameEntry
<1>. QED
  BY <1>1, <1>2, EntriesSame

(* iget() takes the entry that has the inode, or one without references.   *)
LEMMA IgetSound ==
    ASSUME Types, SlotRefs, CacheSound, NEW i \in Inums, IgetSlot(i) # 0, icache' = Iget(i), TypesKept
    PROVE  /\ CacheSound' /\ LocksKept(Procs)
           /\ IgetSlot(i) \in Slots /\ icache'[IgetSlot(i)].inum = i
           /\ icache[IgetSlot(i)].ref > 0 => icache[IgetSlot(i)].inum = i
<1>. DEFINE s == IgetSlot(i)
<1>0. Referenced(i) \in SUBSET Nat /\ Unused \in SUBSET Nat /\ DOMAIN icache = Slots
      /\ Referenced(i) \subseteq Slots /\ Unused \subseteq Slots
  BY SizesAre DEF Referenced, Unused, Types
<1>1. s \in Referenced(i) \/ (s \in Unused /\ Referenced(i) = {})
  BY <1>0, MinIn DEF IgetSlot
<1>2. s \in Slots
  BY <1>0, <1>1
<1>3. CASE s \in Referenced(i)
  <2>1. icache' = Idup(s)
    BY <1>3 DEF Iget, Idup
  <2>2. icache[s].ref > 0 /\ icache[s].inum = i
    BY <1>3 DEF Referenced, Inum
  <2>. HIDE DEF s
  <2>3. icache'[s].inum = icache[s].inum
    BY <1>0, <1>2, <2>1 DEF Idup
  <2>. QED
    BY <1>2, <2>1, <2>2, <2>3, IdupSound DEF s
<1>4. CASE s \notin Referenced(i)
  <2>1. icache' = [icache EXCEPT ![s].inum = i, ![s].ref = 1, ![s].valid = FALSE]
    BY <1>4 DEF Iget
  <2>2. icache[s].ref = 0 /\ Referenced(i) = {}
    BY <1>1, <1>4 DEF Unused
  <2>3. \A t \in Slots : icache[t].ref > 0 => icache[t].inum # i
    BY <1>0, <2>2 DEF Referenced, Inum
  <2>. HIDE DEF s
  <2>4. DOMAIN icache' = Slots /\ \A v \in Slots : v # s => icache'[v] = icache[v]
    BY <1>0, <1>2, <2>1
  <2>5. DOMAIN icache[s] = EntryFields
    BY <1>2 DEF CacheSound, CacheTyped
  <2>6. /\ DOMAIN icache'[s] = EntryFields /\ icache'[s].inum = i /\ icache'[s].ref = 1
        /\ icache'[s].valid = FALSE /\ icache'[s].owner = icache[s].owner
    BY <1>0, <1>2, <2>1, <2>5 DEF EntryFields
  <2>7. CacheTyped'
    <3>1. \A t \in Slots : /\ DOMAIN icache'[t] = EntryFields
                           /\ icache'[t].ref > 0 => icache'[t].inum \in Inums
      BY <2>4, <2>6 DEF CacheSound, CacheTyped
    <3>. QED
      BY <3>1 DEF CacheTyped, Slots, Inums, EntryFields
  <2>8. Unique'
    <3>1. \A t, u \in Slots : icache'[t].ref > 0 /\ icache'[u].ref > 0 /\ icache'[t].inum = icache'[u].inum
                              => t = u
      BY <2>3, <2>4, <2>6 DEF CacheSound, Unique
    <3>. QED
      BY <3>1 DEF Unique, Slots
  <2>9. ReadIn'
    <3>1. \A t \in Slots : icache'[t].ref > 0 /\ icache'[t].valid =>
              icache'[t].type = dinode'[icache'[t].inum].type /\ icache'[t].type # "none"
      BY <2>4, <2>6 DEF CacheSound, CacheTyped, ReadIn, TypesKept
    <3>. QED
      BY <3>1 DEF ReadIn, Slots
  <2>10. LocksKept(Procs)
    <3>1. \A t \in Slots : /\ icache'[t].owner = icache[t].owner
                           /\ icache[t].ref > 0 => /\ icache'[t].valid = icache[t].valid
                                                   /\ icache'[t].inum = icache[t].inum
      BY <2>2, <2>4, <2>6
    <3>. QED
      BY <3>1 DEF LocksKept
  <2>. QED
    BY <1>2, <2>2, <2>6, <2>7, <2>8, <2>9, <2>10 DEF CacheSound, s
<1>. QED
  BY <1>2, <1>3, <1>4

-----------------------------------------------------------------------------
(* The disk after a section.                                               *)
LEMMA DiskTypedIs ==
    /\ DiskTyped' <=> DOMAIN dinode' = Inums /\ \A i \in Inums : InodeTyped(dinode'[i])
  BY DEF DiskTyped, InodeTyped, EntsTyped, IsSeq, Inums

LEMMA DiskStays ==
    ASSUME DiskTyped, UNCHANGED dinode
    PROVE  DiskTyped' /\ TypesKept
  BY DiskTypedIs DEF DiskTyped, TypesKept

LEMMA DiskChanged ==
    ASSUME DiskTyped, DOMAIN dinode' = Inums,
           \A i \in Inums : InodeTyped(dinode'[i]) /\ dinode'[i].type = dinode[i].type
    PROVE  DiskTyped' /\ TypesKept
  BY DiskTypedIs DEF TypesKept

(* An element more, and another element.                                   *)
LEMMA AppendTyped ==
    ASSUME NEW q, EntsTyped(q), NEW e, e.inum \in Inums \cup {0}
    PROVE  EntsTyped(Append(q, e))
<1>. DEFINE S == {q[k] : k \in 1..Len(q)} \cup {e}
<1>1. q \in Seq(S) /\ e \in S /\ Len(q) \in Nat
  <2>1. q \in Seq({q[k] : k \in 1..Len(q)})
    BY DEF EntsTyped, IsSeq
  <2>2. Len(q) \in Nat /\ DOMAIN q = 1..Len(q) /\ q = [k \in 1..Len(q) |-> q[k]]
    BY <2>1
  <2>3. \A k \in 1..Len(q) : q[k] \in S
    OBVIOUS
  <2>. HIDE DEF S
  <2>4. [k \in 1..Len(q) |-> q[k]] \in Seq(S)
    BY <2>2, <2>3
  <2>. QED
    BY <2>2, <2>4 DEF S
<1>. HIDE DEF S
<1>2. /\ Append(q, e) \in Seq(S) /\ Len(Append(q, e)) = Len(q) + 1
      /\ \A k \in 1..Len(q) : Append(q, e)[k] = q[k]
      /\ Append(q, e)[Len(q) + 1] = e
  BY <1>1
<1>3. \A k \in 1..Len(Append(q, e)) : Append(q, e)[k].inum \in Inums \cup {0}
  BY <1>1, <1>2 DEF EntsTyped
<1>. QED
  BY <1>2, <1>3, SeqIs DEF EntsTyped

LEMMA SetTyped ==
    ASSUME NEW q, EntsTyped(q), NEW j, NEW e, e.inum \in Inums \cup {0}
    PROVE  EntsTyped([q EXCEPT ![j] = e])
<1>. DEFINE S == {q[k] : k \in 1..Len(q)} \cup {e}
            t == [q EXCEPT ![j] = e]
<1>1. Len(q) \in Nat /\ DOMAIN q = 1..Len(q)
  <2>1. q \in Seq({q[k] : k \in 1..Len(q)})
    BY DEF EntsTyped, IsSeq
  <2>. QED
    BY <2>1
<1>2. t = [k \in 1..Len(q) |-> t[k]] /\ \A k \in 1..Len(q) : t[k] = IF k = j THEN e ELSE q[k]
  BY <1>1
<1>3. \A k \in 1..Len(q) : t[k] \in S
  BY <1>2
<1>. HIDE DEF S, t
<1>4. t \in Seq(S) /\ Len(t) = Len(q)
  <2>1. [k \in 1..Len(q) |-> t[k]] \in Seq(S)
    BY <1>1, <1>3
  <2>2. t \in Seq(S) /\ DOMAIN t = 1..Len(q)
    BY <1>2, <2>1
  <2>. QED
    BY <1>1, <2>2
<1>5. \A k \in 1..Len(t) : t[k].inum \in Inums \cup {0}
  BY <1>2, <1>4 DEF EntsTyped
<1>. QED
  BY <1>4, <1>5, SeqIs DEF EntsTyped, t

LEMMA WithEntryTyped ==
    ASSUME NEW d, InodeTyped(d), NEW name, NEW i \in Inums
    PROVE  InodeTyped(WithEntry(d, name, i)) /\ WithEntry(d, name, i).type = d.type
<1>. DEFINE k == SelectInSeq(d.ents, LAMBDA e : e.inum = 0)
            x == [name |-> name, inum |-> i]
            t == IF k = 0 THEN Append(d.ents, x) ELSE [d.ents EXCEPT ![k] = x]
<1>1. EntsTyped(t)
  BY AppendTyped, SetTyped DEF InodeTyped
<1>2. WithEntry(d, name, i) = [d EXCEPT !.ents = t]
  BY DEF WithEntry
<1>. HIDE DEF t
<1>. QED
  BY <1>1, <1>2 DEF InodeTyped

(* The entry found leads to an inode.                                      *)
LEMMA DirlookupIs ==
    ASSUME NEW d, InodeTyped(d), NEW name, Dirlookup(d, name) # 0
    PROVE  d.ents[Dirlookup(d, name)].inum \in Inums
<1>. DEFINE found == {k \in 1..Len(d.ents) : d.ents[k].inum # 0 /\ d.ents[k].name = name}
<1>1. Dirlookup(d, name) = IF found # {} THEN Min(found) ELSE 0
  BY DEF Dirlookup, SelectInSeq
<1>2. found \in SUBSET Nat
  OBVIOUS
<1>3. Min(found) \in found
  <2>. HIDE DEF found
  <2>. QED
    BY <1>1, <1>2, MinIn
<1>. QED
  BY <1>1, <1>3 DEF InodeTyped, EntsTyped

LEMMA FreeInumIs ==
    ASSUME FreeInum # 0
    PROVE  FreeInum \in Inums /\ dinode[FreeInum].type = "none"
<1>. DEFINE free == {i \in Inums : dinode[i].type = "none"}
<1>1. FreeInum = IF free = {} THEN 0 ELSE Min(free)
  BY DEF FreeInum
<1>2. free \in SUBSET Nat
  BY InodeAssumption DEF Inums
<1>3. Min(free) \in free
  <2>. HIDE DEF free
  <2>. QED
    BY <1>1, <1>2, MinIn
<1>. QED
  BY <1>1, <1>3

LEMMA IallocTyped ==
    ASSUME DiskTyped, NEW i \in Inums, dinode[i].type = "none", NEW type, dinode' = Ialloc(i, type)
    PROVE  DiskTyped' /\ TypesKept
<1>1. EntsTyped(<< >>)
  BY DEF EntsTyped, IsSeq
<1>2. DOMAIN dinode' = Inums /\ \A j \in Inums :
        dinode'[j] = IF j = i THEN [type |-> type, nlink |-> 0, ents |-> << >>] ELSE dinode[j]
  BY DEF Ialloc, DiskTyped
<1>3. \A j \in Inums : InodeTyped(dinode'[j])
  BY <1>1, <1>2 DEF DiskTyped, InodeTyped
<1>4. TypesKept
  BY <1>2 DEF TypesKept
<1>. QED
  BY <1>2, <1>3, <1>4, DiskTypedIs

-----------------------------------------------------------------------------
(* Who uses an inode after a section.  A new user is a process that has    *)
(* the inode locked; as its current directory it takes a directory.        *)
Taking(p, s) == icache[s].ref > 0 /\ Locked(p, s)
UsersFrom(p) ==
    \A s \in Slots :
        /\ User(s)' => User(s) \/ Taking(p, s)
        /\ DirUser(s)' => DirUser(s) \/ (Taking(p, s) /\ icache[s].type = "dir")

LEMMA BecomingFrom ==
    ASSUME NEW p \in Procs, NEW ops, After(p, ops), NEW s, NEW S, Becoming(s, S)'
    PROVE  Becoming(s, S) \/ \E k \in 1..Len(ops) : ops[k][1] \in S /\ SlotOf(ops[k]) = s
<1>0. PICK q \in Procs :
        \E k \in 1..Len(todo'[q]) : todo'[q][k][1] \in S /\ SlotOf(todo'[q][k]) = s
  BY DEF Becoming, SlotOf
<1>1. PICK k \in 1..Len(todo'[q]) : todo'[q][k][1] \in S /\ SlotOf(todo'[q][k]) = s
  BY <1>0
<1>2. CASE q # p
  BY <1>1, <1>2 DEF After, Becoming
<1>3. CASE q = p /\ k <= Len(ops)
  BY <1>1, <1>3 DEF After
<1>4. CASE q = p /\ ~(k <= Len(ops))
  <2>1. Len(todo[p]) \in Nat
    BY SeqFacts DEF After
  <2>2. k - Len(ops) + 1 \in 1..Len(todo[p]) /\ todo'[p][k] = todo[p][k - Len(ops) + 1]
    BY <1>4, <2>1 DEF After
  <2>. QED
    BY <1>1, <1>4, <2>2 DEF Becoming
<1>. QED
  BY <1>2, <1>3, <1>4

(* What the users of files and directories were before, and the sections   *)
(* pushed.                                                                 *)
LEMMA UsersAre ==
    ASSUME NEW p \in Procs, NEW ops, After(p, ops),
           \A s \in Slots : \A q \in Procs : Dirs'[q] = s => DirUser(s),
           \A s \in Slots : \A f \in Files : Opened'[f] = s => User(s),
           \A k \in 1..Len(ops) : ops[k][1] \in {"chdir3", "open4"} => Taking(p, SlotOf(ops[k])),
           \A k \in 1..Len(ops) : ops[k][1] = "chdir3" => icache[SlotOf(ops[k])].type = "dir"
    PROVE  UsersFrom(p)
<1>. SUFFICES ASSUME NEW s \in Slots
              PROVE  /\ User(s)' => User(s) \/ Taking(p, s)
                     /\ DirUser(s)' => DirUser(s) \/ (Taking(p, s) /\ icache[s].type = "dir")
  BY DEF UsersFrom
<1>1. ASSUME DirUser(s)'
      PROVE  DirUser(s) \/ (Taking(p, s) /\ icache[s].type = "dir")
  <2>1. CASE \E q \in Procs : Dirs'[q] = s
    BY <2>1
  <2>2. CASE Becoming(s, {"chdir3"})'
    BY <2>2, BecomingFrom DEF DirUser
  <2>. QED
    BY <1>1, <2>1, <2>2 DEF DirUser
<1>2. ASSUME User(s)'
      PROVE  User(s) \/ Taking(p, s)
  <2>1. CASE DirUser(s)'
    BY <1>1, <2>1 DEF User
  <2>2. CASE \E f \in Files : Opened'[f] = s
    BY <2>2
  <2>3. CASE Becoming(s, {"open4"})'
    BY <2>3, BecomingFrom DEF User
  <2>. QED
    BY <1>2, <2>1, <2>2, <2>3 DEF User, Files
<1>. QED
  BY <1>1, <1>2

(* A process that is about to leave its directory stays so until it has.   *)
LEMMA UsersStay ==
    ASSUME Types, NEW p \in Procs, NEW ops, After(p, ops), UNCHANGED cwd,
           todo[p][1][1] \notin {"chdir3", "exit2"},
           \A f \in Files : ftable'[f].ip = ftable[f].ip \/ ftable'[f].ip = 0,
           \A k \in 1..Len(ops) : ops[k][1] \in {"chdir3", "open4"} => Taking(p, SlotOf(ops[k])),
           \A k \in 1..Len(ops) : ops[k][1] = "chdir3" => icache[SlotOf(ops[k])].type = "dir"
    PROVE  UsersFrom(p)
<1>0. 0 \notin Slots
  BY SizesAre
<1>1. ASSUME Leaving(p)
      PROVE  Leaving(p)'
  <2>1. Len(todo[p]) \in Nat /\ Len(todo[p]) > 0 /\ Len(todo[p]) # 1 /\ Len(ops) \in Nat
    BY <1>1, SeqFacts DEF After, Leaving
  <2>2. Len(todo'[p]) > Len(ops) /\ Len(todo'[p]) \in Nat
        /\ Len(todo'[p]) - Len(ops) + 1 = Len(todo[p])
    <3>1. Len(todo'[p]) = Len(ops) + Len(todo[p]) - 1
      BY DEF After
    <3>2. \A m, n \in Nat : n > 0 /\ n # 1 => /\ m + n - 1 > m /\ m + n - 1 \in Nat
                                              /\ (m + n - 1) - m + 1 = n
      OBVIOUS
    <3>. QED
      BY <2>1, <3>1, <3>2
  <2>3. todo'[p][Len(todo'[p])] = todo[p][Len(todo[p])]
    BY <2>1, <2>2 DEF After
  <2>4. todo'[p] # << >>
    BY <2>1, <2>2, SeqFacts DEF After
  <2>. QED
    BY <1>1, <2>3, <2>4 DEF Leaving
<1>2. \A q \in Procs : q # p => (Leaving(q)' <=> Leaving(q))
  BY DEF After, Leaving
<1>3. \A q \in Procs : Dirs'[q] = Dirs[q] \/ Dirs'[q] = 0
  BY <1>1, <1>2 DEF Dirs
<1>4. \A s \in Slots : \A q \in Procs : Dirs'[q] = s => DirUser(s)
  BY <1>0, <1>3 DEF DirUser
<1>5. \A s \in Slots : \A f \in Files : Opened'[f] = s => User(s)
  BY <1>0 DEF User, Opened, Files
<1>. QED
  BY <1>4, <1>5, UsersAre

-----------------------------------------------------------------------------
(* What the processes are doing after a section of p.  The others notice   *)
(* nothing.                                                                *)
LEMMA OthersDo ==
    ASSUME Types, SlotRefs, Shapes, NEW p \in Procs, NEW q \in Procs, q # p, Doing(q),
           LocksKept({q}), UsersFrom(p), todo'[q] = todo[q], reg'[q] = reg[q]
    PROVE  Doing(q)'
<1>1. \A s \in Slots : icache[s].owner = q /\ icache[s].valid /\ icache[s].ref > 0 => Locked(q, s)'
  BY DEF LocksKept, Locked
<1>2. \A s \in Slots : reg[q].r = s \/ reg[q].ip = s \/ reg[q].dp = s => icache[s].ref > 0
  BY RefPositive
<1>3. \A s \in Slots : (reg[q].r = s \/ reg[q].ip = s \/ reg[q].dp = s) /\ Locked(q, s) => Locked(q, s)'
  BY <1>1, <1>2 DEF Locked
<1>4. \A op : Locks(op, reg[q]) # 0 => Locks(op, reg[q]) \in {reg[q].r, reg[q].ip, reg[q].dp}
  BY DEF Locks
<1>5. {reg[q].r, reg[q].ip, reg[q].dp} \subseteq {0} \cup Slots
  <2>1. Shape(todo[q], reg[q])
    BY DEF Shapes
  <2>2. Mains(todo[q]) \in 0..2
    BY MainsIs DEF Types
  <2>3. Mains(todo[q]) = 0 \/ Mains(todo[q]) > 0
    BY <2>2
  <2>. QED
    BY <2>1, <2>3 DEF Shape, Holds
<1>6. Held(q)'
  <2>. SUFFICES ASSUME NEW k \in 1..Len(todo[q]), Locks(todo[q][k][1], reg[q]) # 0
                PROVE  IF k = 1 THEN Locked(q, Locks(todo[q][k][1], reg[q]))'
                       ELSE todo[q][k - 1][1] = "ilock"
                            /\ todo[q][k - 1][2] = Locks(todo[q][k][1], reg[q])
    BY DEF Held, Locks, Locked
  <2>. DEFINE s == Locks(todo[q][k][1], reg[q])
  <2>1. s \in Slots /\ (reg[q].r = s \/ reg[q].ip = s \/ reg[q].dp = s)
    BY <1>4, <1>5
  <2>2. IF k = 1 THEN Locked(q, s)
        ELSE todo[q][k - 1][1] = "ilock" /\ todo[q][k - 1][2] = s
    BY DEF Doing, Held
  <2>. QED
    BY <1>3, <2>1, <2>2
<1>7. Created(q)'
  <2>1. reg[q].r # 0 /\ Locked(q, reg[q].r) => Locked(q, reg[q].r)'
    BY <1>3, <1>5
  <2>. QED
    BY <2>1 DEF Doing, Created, Locked, CreateOps, InodeOps
<1>8. Fresh(q)' /\ Naming(q)'
  BY DEF Doing, Fresh, Naming, Inums
<1>9. Freeing(q)'
  <2>. SUFFICES ASSUME NEW k \in 1..Len(todo[q]), todo[q][k][1] = "ifree"
                PROVE  /\ k = 1 /\ Len(todo[q]) > 1 /\ todo[q][2][1] = "idrop"
                       /\ todo[q][2][2] = todo[q][k][2]
                       /\ icache'[todo[q][k][2]].owner = q /\ ~User(todo[q][k][2])'
    BY DEF Freeing
  <2>. DEFINE s == todo[q][k][2]
  <2>1. /\ k = 1 /\ Len(todo[q]) > 1 /\ todo[q][2][1] = "idrop" /\ todo[q][2][2] = s
        /\ icache[s].owner = q /\ ~User(s)
    BY DEF Doing, Freeing
  <2>2. s \in Slots
    <3>1. IsSeq(todo[q]) /\ todo[q] # << >> /\ Shape(todo[q], reg[q]) /\ todo[q][1][1] = "ifree"
      BY <2>1 DEF Types, Shapes
    <3>2. todo[q][1][1] \notin MainOps
      BY <3>1, PopOps
    <3>3. (Mains(todo[q]) = 0 => Outside(todo[q][1])) /\ (Mains(todo[q]) > 0 => Within(todo[q][1]))
      BY <3>1, <3>2, HeadInner
    <3>4. Mains(todo[q]) = 0 \/ Mains(todo[q]) > 0
      BY <3>1, MainsIs
    <3>. QED
      BY <2>1, <3>1, <3>3, <3>4 DEF Outside, Within, InodeOps
  <2>3. icache'[s].owner = q
    BY <2>1, <2>2 DEF LocksKept
  <2>4. ~User(s)'
    BY <2>1, <2>2 DEF UsersFrom, Taking, Locked
  <2>. QED
    BY <2>1, <2>3, <2>4
<1>. QED
  BY <1>6, <1>7, <1>8, <1>9 DEF Doing

(* Sections that neither rest on a lock nor free, enter or open anything.  *)
Watched == {"open1", "open2", "open3", "create2", "create3", "create4", "chdir2", "ifree", "dirlink"}
LEMMA PlainDo ==
    ASSUME NEW p \in Procs, Types', \A k \in 1..Len(todo'[p]) : todo'[p][k][1] \notin Watched
    PROVE  Doing(p)'
<1>1. Held(p)' /\ Fresh(p)' /\ Naming(p)' /\ Freeing(p)'
  BY DEF Held, Locks, Fresh, Naming, Freeing, Watched
<1>2. Created(p)'
  <2>1. IsSeq(todo'[p])
    BY DEF Types, IsSeq
  <2>2. Len(todo'[p]) \in Nat
    BY <2>1, SeqFacts
  <2>. QED
    BY <2>2 DEF Created, Watched
<1>. QED
  BY <1>1, <1>2 DEF Doing

(* The whole invariant: what is left to show of a section.                 *)
LEMMA InodesKeep ==
    ASSUME Core, Inodes, NEW p \in Procs, CacheSound', DiskTyped', LocksKept(Procs \ {p}),
           UsersFrom(p), Doing(p)',
           \A s \in Slots : icache[s].ref > 0 /\ User(s)' =>
               dinode'[icache[s].inum].type = dinode[icache[s].inum].type,
           \A q \in Procs : q # p => todo'[q] = todo[q] /\ reg'[q] = reg[q]
    PROVE  Inodes'
<1>1. Types /\ SlotRefs /\ Shapes
  BY DEF Core
<1>2. ASSUME NEW q \in Procs
      PROVE  Doing(q)'
  <2>1. CASE q = p
    BY <2>1
  <2>2. CASE q # p
    <3>1. LocksKept({q})
      BY <2>2 DEF LocksKept
    <3>. QED
      BY <1>1, <2>2, <3>1, OthersDo DEF Inodes
  <2>. QED
    BY <2>1, <2>2
<1>3. InUse'
  <2>1. ASSUME NEW s \in Slots, User(s)'
        PROVE  dinode'[icache'[s].inum].type # "none"
    <3>1. User(s) \/ Taking(p, s)
      BY <2>1 DEF UsersFrom
    <3>2. icache[s].ref > 0 /\ (User(s) \/ Locked(p, s))
      BY <1>1, <3>1, UserCounted DEF Taking
    <3>3. icache'[s].inum = icache[s].inum
      BY <3>2 DEF LocksKept
    <3>4. dinode[icache[s].inum].type # "none"
      BY <3>2 DEF Inodes, InUse, ReadIn, Locked
    <3>. QED
      BY <2>1, <3>2, <3>3, <3>4
  <2>2. ASSUME NEW s \in Slots, DirUser(s)'
        PROVE  dinode'[icache'[s].inum].type = "dir"
    <3>1. DirUser(s) \/ (Taking(p, s) /\ icache[s].type = "dir")
      BY <2>2 DEF UsersFrom
    <3>2. icache[s].ref > 0 /\ (User(s) \/ Locked(p, s))
      BY <1>1, <3>1, UserCounted DEF Taking, User
    <3>3. icache'[s].inum = icache[s].inum
      BY <3>2 DEF LocksKept
    <3>4. dinode[icache[s].inum].type = "dir"
      BY <3>1, <3>2 DEF Inodes, InUse, ReadIn, Locked, Taking
    <3>5. User(s)'
      BY <2>2 DEF User
    <3>. QED
      BY <3>2, <3>3, <3>4, <3>5
  <2>. QED
    BY <2>1, <2>2 DEF InUse, Slots
<1>. QED
  BY <1>2, <1>3 DEF Inodes, CacheSound

-----------------------------------------------------------------------------
(* The sections of fs.c, with others to come.                              *)
LEMMA ChdirPlace ==
    ASSUME NEW q, IsSeq(q), NEW rg, Shape(q, rg), NEW k \in 1..Len(q), q[k][1] = "chdir2"
    PROVE  Mains(q) > 0 /\ Needs(q) = "chdir2"
<1>1. Mains(q) \in 0..2 /\ Mains(q) <= Len(q) /\ Len(q) \in Nat
  BY MainsIs, SeqFacts
<1>2. "chdir2" \in MainOps /\ "chdir2" \notin CreateOps /\ "chdir2" \notin {"open1", "mk1"}
  BY DEF MainOps, CreateOps
<1>3. Mains(q) # 0
  <2>1. ~Outside(q[k])
    BY <1>2, OpsApart
  <2>. QED
    BY <2>1 DEF Shape
<1>4. ~(k \in 1..(Len(q) - Mains(q)))
  <2>1. ~Within(q[k])
    BY <1>2, OpsApart
  <2>. QED
    BY <1>1, <1>3, <2>1 DEF Shape
<1>5. CASE Mains(q) = 1
  <2>1. k = Len(q)
    BY <1>1, <1>4, <1>5
  <2>. QED
    BY <1>5, <2>1, MainsIs
<1>6. CASE Mains(q) = 2
  <2>1. k = Len(q) \/ k = Len(q) - 1
    BY <1>1, <1>4, <1>6
  <2>2. q[Len(q)][1] \in {"open1", "mk1"} /\ q[Len(q) - 1][1] \in CreateOps
    BY <1>6, MainsIs DEF Shape
  <2>. QED
    BY <1>2, <2>1, <2>2
<1>. QED
  BY <1>1, <1>3, <1>5, <1>6

(* Where the elements after the section are from.                          *)
LEMMA AfterIs ==
    ASSUME NEW p, NEW ops, After(p, ops)
    PROVE  /\ Len(todo[p]) \in Nat /\ Len(todo[p]) > 0 /\ Len(ops) \in Nat
           /\ Len(todo'[p]) = Len(ops) + Len(todo[p]) - 1
           /\ \A k \in 1..Len(todo'[p]) :
                \/ k <= Len(ops) /\ todo'[p][k] = ops[k]
                \/ /\ k > Len(ops) /\ k - Len(ops) + 1 \in 2..Len(todo[p])
                   /\ todo'[p][k] = todo[p][k - Len(ops) + 1]
<1>1. Len(todo[p]) \in Nat /\ Len(todo[p]) > 0 /\ Len(ops) \in Nat
  BY SeqFacts DEF After
<1>2. Len(todo'[p]) = Len(ops) + Len(todo[p]) - 1
  BY DEF After
<1>3. \A m, n \in Nat : n > 0 => \A k \in 1..(m + n - 1) : k <= m \/ (k > m /\ k - m + 1 \in 2..n)
  OBVIOUS
<1>. QED
  BY <1>1, <1>2, <1>3 DEF After

LockedAfter(p, s) == icache'[s].owner = p /\ icache'[s].valid

LEMMA InnerDo ==
    ASSUME Core, NEW p \in Procs, NEW ops, After(p, ops), Doing(p), todo[p][1][1] \notin MainOps,
           \A k \in 1..Len(ops) : ops[k][1] \notin MainOps /\ ops[k][1] # "dirlink",
           todo[p][1][1] = "ilock" => Len(ops) = 0 /\ LockedAfter(p, todo[p][1][2]),
           reg'[p].ip = reg[p].ip, reg'[p].dp = reg[p].dp,
           todo[p][1][1] \notin WalkOps => reg'[p].r = reg[p].r,
           todo[p][1][1] \in InodeOps =>
               /\ \A k \in 1..Len(ops) : ops[k][1] \in InodeOps /\ ops[k][2] = todo[p][1][2]
               /\ \A s \in Slots : Taking(p, s) /\ s # todo[p][1][2] => LockedAfter(p, s)
    PROVE  Held(p)' /\ Created(p)' /\ Fresh(p)' /\ Naming(p)'
<1>. DEFINE td == todo[p]
            m == Len(ops)
            n == Len(todo[p])
<1>0. /\ Types /\ SlotRefs /\ Shape(td, reg[p]) /\ IsSeq(td) /\ td # << >>
      /\ n \in Nat /\ n > 0 /\ m \in Nat /\ Len(todo'[p]) = m + n - 1
  BY AfterIs DEF Core, Shapes, Types, After
<1>1. \A k \in 1..Len(todo'[p]) :
        \/ k <= m /\ todo'[p][k] = ops[k]
        \/ k > m /\ k - m + 1 \in 2..n /\ todo'[p][k] = td[k - m + 1]
  BY AfterIs
<1>2. "chdir2" \in MainOps /\ "create4" \in MainOps /\ "open1" \in MainOps
      /\ \A op, rg : op \notin MainOps => Locks(op, rg) = 0
  BY DEF MainOps, CreateOps, UsesIp, UsesDp, UsesR, Locks
<1>3. Fresh(p)' /\ Naming(p)'
  <2>1. Fresh(p)'
    <3>. SUFFICES ASSUME NEW k \in 1..Len(todo'[p]), todo'[p][k][1] = "create4"
                  PROVE  reg'[p].ip # reg'[p].dp
      BY DEF Fresh
    <3>1. \A j \in 1..n : td[j][1] = "create4" => reg[p].ip # reg[p].dp
      BY DEF Doing, Fresh
    <3>2. ~(k <= m)
      BY <1>0, <1>1, <1>2
    <3>3. k - m + 1 \in 1..n /\ todo'[p][k] = td[k - m + 1]
      BY <1>0, <1>1, <3>2
    <3>. QED
      BY <3>1, <3>3
  <2>2. Naming(p)'
    <3>. SUFFICES ASSUME NEW k \in 1..Len(todo'[p]), todo'[p][k][1] = "dirlink"
                  PROVE  todo'[p][k][2] = reg'[p].dp /\ reg'[p].dp # 0 /\ todo'[p][k][4] \in Inums
      BY DEF Naming, Inums
    <3>1. \A j \in 1..n : td[j][1] = "dirlink" =>
            td[j][2] = reg[p].dp /\ reg[p].dp # 0 /\ td[j][4] \in Inums
      BY DEF Doing, Naming
    <3>2. ~(k <= m)
      BY <1>0, <1>1
    <3>3. k - m + 1 \in 1..n /\ todo'[p][k] = td[k - m + 1]
      BY <1>0, <1>1, <3>2
    <3>. QED
      BY <3>1, <3>3
  <2>. QED
    BY <2>1, <2>2
<1>4. Held(p)'
  <2>. SUFFICES ASSUME NEW k \in 1..Len(todo'[p]), Locks(todo'[p][k][1], reg'[p]) # 0
                PROVE  IF k = 1 THEN LockedAfter(p, Locks(todo'[p][k][1], reg'[p]))
                       ELSE todo'[p][k - 1][1] = "ilock"
                            /\ todo'[p][k - 1][2] = Locks(todo'[p][k][1], reg'[p])
    BY DEF Held, Locks, Locked, LockedAfter
  <2>. DEFINE j == k - m + 1
              s == Locks(todo'[p][k][1], reg'[p])
  <2>1. k > m /\ j \in 2..n /\ todo'[p][k] = td[j]
    BY <1>1, <1>2
  <2>2. s = Locks(td[j][1], reg[p])
    <3>1. CASE td[j][1] = "chdir2"
      <4>1. Mains(td) > 0 /\ Needs(td) = "chdir2"
        BY <1>0, <2>1, <3>1, ChdirPlace
      <4>2. td[1][1] \notin WalkOps
        <5>1. Mains(td) > 0 /\ td[1][1] \in WalkOps => Needs(td) \in UsesR
          BY <1>0, HeadInner
        <5>. QED
          BY <4>1, <5>1 DEF UsesR
      <4>. QED
        BY <2>1, <4>2 DEF Locks
    <3>2. CASE td[j][1] # "chdir2"
      BY <2>1, <3>2 DEF Locks
    <3>. QED
      BY <3>1, <3>2
  <2>3. td[j - 1][1] = "ilock" /\ td[j - 1][2] = s
    BY <2>1, <2>2 DEF Doing, Held
  <2>4. CASE k = 1
    <3>1. m = 0 /\ j = 2
      BY <1>0, <2>1, <2>4
    <3>. QED
      BY <2>3, <2>4, <3>1
  <2>5. CASE k # 1
    <3>1. CASE j = 2
      <4>0. td[1][1] = "ilock"
        <5>1. j - 1 = 1
          BY <3>1
        <5>. HIDE DEF j
        <5>. QED
          BY <2>3, <5>1
      <4>1. m = 0
        BY <4>0
      <4>. QED
        BY <2>1, <2>5, <3>1, <4>1
    <3>2. CASE j # 2
      <4>1. k - 1 \in 1..Len(todo'[p]) /\ k - 1 > m /\ (k - 1) - m + 1 = j - 1
        <5>1. \A x, y, z \in Nat : x \in 1..(y + z - 1) /\ x > y /\ x # 1 /\ x - y + 1 # 2 =>
                x - 1 \in 1..(y + z - 1) /\ x - 1 > y /\ (x - 1) - y + 1 = (x - y + 1) - 1
          OBVIOUS
        <5>2. k \in Nat
          BY <1>0
        <5>. HIDE DEF m, n
        <5>. QED
          BY <1>0, <2>1, <2>5, <3>2, <5>1, <5>2
      <4>2. todo'[p][k - 1] = td[j - 1]
        <5>1. \A i \in 1..Len(todo'[p]) : i > m => todo'[p][i] = td[i - m + 1]
          <6>1. \A i \in 1..Len(todo'[p]) : i > m => ~(i <= m)
            BY <1>0
          <6>. HIDE DEF m, n, td
          <6>. QED
            BY <1>1, <6>1, Zenon
        <5>. HIDE DEF m, n, td, j
        <5>. QED
          BY <4>1, <5>1, Zenon
      <4>. QED
        BY <2>3, <2>5, <4>2
    <3>. QED
      BY <3>1, <3>2
  <2>. HIDE DEF s, j
  <2>. QED
    BY <2>4, <2>5 DEF s
<1>5. Created(p)'
  <2>. DEFINE n2 == Len(todo'[p])
              r == reg[p].r
  <2>. SUFFICES ASSUME n2 > 0, todo'[p][n2][1] = "open1", todo'[p][n2][2] = "create",
                       n2 > 1 => todo'[p][n2 - 1][1] \notin CreateOps
                PROVE  /\ \A k \in 1..(n2 - 1) : todo'[p][k][1] \in InodeOps /\ todo'[p][k][2] # reg'[p].r
                       /\ reg'[p].r # 0 => LockedAfter(p, reg'[p].r)
    BY DEF Created, InodeOps, CreateOps, Locked, LockedAfter
  <2>0. n2 \in Nat /\ n2 \in 1..n2
    BY <1>0
  <2>1. n2 > m /\ n > 1 /\ todo'[p][n2] = td[n]
    <3>1. n2 - m + 1 = n
      BY <1>0
    <3>2. ~(n2 <= m)
      BY <1>1, <1>2, <2>0
    <3>3. n2 > m /\ n2 - m + 1 \in 2..n /\ todo'[p][n2] = td[n2 - m + 1]
      BY <1>1, <2>0, <3>2
    <3>4. n \in 2..n /\ todo'[p][n2] = td[n]
      <4>. HIDE DEF n, m, n2
      <4>. QED
        BY <3>1, <3>3
    <3>. QED
      BY <1>0, <3>3, <3>4
  <2>2. td[n - 1][1] \notin CreateOps
    <3>1. CASE n = 2
      BY <3>1 DEF MainOps
    <3>2. CASE n # 2
      <4>1. n2 - 1 \in 1..n2 /\ n2 - 1 > m /\ (n2 - 1) - m + 1 = n - 1 /\ n2 > 1
        <5>1. \A x, y, z \in Nat : x = y + z - 1 /\ z > 1 /\ z # 2 =>
                x - 1 \in 1..x /\ x - 1 > y /\ (x - 1) - y + 1 = z - 1 /\ x > 1
          OBVIOUS
        <5>. HIDE DEF m, n, n2
        <5>. QED
          BY <1>0, <2>0, <2>1, <3>2, <5>1 DEF n2
      <4>2. todo'[p][n2 - 1] = td[n - 1]
        <5>1. todo'[p][n2 - 1] = td[(n2 - 1) - m + 1]
          <6>. DEFINE k == n2 - 1
          <6>1. k \in 1..Len(todo'[p]) /\ ~(k <= m)
            BY <1>0, <4>1
          <6>. HIDE DEF k, m, n, n2
          <6>2. todo'[p][k] = td[k - m + 1]
            BY <1>1, <6>1
          <6>. QED
            BY <6>2 DEF k
        <5>. HIDE DEF m, n, n2
        <5>. QED
          BY <4>1, <5>1
      <4>. QED
        BY <4>1, <4>2
    <3>. QED
      BY <3>1, <3>2
  <2>3. /\ \A k \in 1..(n - 1) : td[k][1] \in InodeOps /\ td[k][2] # r
        /\ r # 0 => Locked(p, r)
    BY <1>0, <2>1, <2>2 DEF Doing, Created
  <2>4. td[1][1] \in InodeOps /\ td[1][2] # r /\ reg'[p].r = r
    <3>1. 1 \in 1..(n - 1)
      BY <1>0, <2>1
    <3>. QED
      BY <2>3, <3>1 DEF InodeOps, WalkOps
  <2>5. ASSUME NEW k \in 1..(n2 - 1)
        PROVE  todo'[p][k][1] \in InodeOps /\ todo'[p][k][2] # r
    <3>1. CASE k <= m
      <4>1. k \in 1..m /\ k \in 1..n2 /\ todo'[p][k] = ops[k]
        BY <1>0, <1>1, <2>0, <3>1
      <4>. QED
        BY <2>4, <4>1
    <3>2. CASE k > m
      <4>1. k \in 1..n2 /\ k - m + 1 \in 1..(n - 1)
        BY <1>0, <3>2
      <4>2. todo'[p][k] = td[k - m + 1]
        BY <1>0, <1>1, <3>2, <4>1
      <4>. QED
        BY <2>3, <4>1, <4>2
    <3>. QED
      BY <1>0, <3>1, <3>2
  <2>6. ASSUME r # 0
        PROVE  LockedAfter(p, r)
    <3>1. r \in Slots
      <4>1. Mains(td) \in 0..2
        BY <1>0, MainsIs
      <4>2. Mains(td) = 0 \/ Mains(td) > 0
        BY <4>1
      <4>. QED
        BY <1>0, <2>6, <4>2 DEF Shape, Holds
    <3>2. Taking(p, r)
      BY <1>0, <2>3, <2>6, <3>1, RefPositive DEF Taking
    <3>. QED
      BY <2>4, <3>1, <3>2
  <2>. QED
    BY <2>4, <2>5, <2>6
<1>. QED
  BY <1>3, <1>4, <1>5

(* No free is to come after a section that pushes none.                    *)
LEMMA NoneFreed ==
    ASSUME NEW p \in Procs, NEW ops, After(p, ops), Doing(p),
           \A k \in 1..Len(ops) : ops[k][1] # "ifree"
    PROVE  Freeing(p)' /\ \A k \in 1..Len(todo'[p]) : todo'[p][k][1] # "ifree"
<1>1. \A k \in 1..Len(todo'[p]) : todo'[p][k][1] # "ifree"
  <2>. SUFFICES ASSUME NEW k \in 1..Len(todo'[p]), todo'[p][k][1] = "ifree"
                PROVE  FALSE
    OBVIOUS
  <2>1. k - Len(ops) + 1 \in 2..Len(todo[p]) /\ todo'[p][k] = todo[p][k - Len(ops) + 1]
    BY AfterIs
  <2>2. k - Len(ops) + 1 \in 1..Len(todo[p]) /\ k - Len(ops) + 1 # 1
    BY <2>1, AfterIs
  <2>. QED
    BY <2>1, <2>2 DEF Doing, Freeing
<1>. QED
  BY <1>1 DEF Freeing

(* No inode in use is freed by a section that only adds inodes.            *)
LEMMA TypesKeptIs ==
    ASSUME Core, Inodes, TypesKept, NEW p, UsersFrom(p), NEW s \in Slots, icache[s].ref > 0, User(s)'
    PROVE  dinode'[icache[s].inum].type = dinode[icache[s].inum].type
<1>1. icache[s].inum \in Inums
  BY DEF Inodes, CacheTyped
<1>2. dinode[icache[s].inum].type # "none"
  BY DEF Inodes, InUse, ReadIn, Locked, UsersFrom, Taking
<1>. QED
  BY <1>1, <1>2 DEF TypesKept

LEMMA InnerStep ==
    ASSUME Core, Core', Inodes, NEW p \in Procs, NEW ops, After(p, ops), FilesStay,
           todo[p][1][1] \notin MainOps \cup LastOps,
           \A k \in 1..Len(ops) : ops[k][1] \notin MainOps \cup LastOps \cup {"dirlink"},
           todo[p][1][1] = "ilock" => Len(ops) = 0 /\ LockedAfter(p, todo[p][1][2]),
           \A q \in Procs : q # p => reg'[q] = reg[q],
           reg'[p].ip = reg[p].ip, reg'[p].dp = reg[p].dp,
           todo[p][1][1] \notin WalkOps => reg'[p].r = reg[p].r,
           todo[p][1][1] \in InodeOps =>
               /\ \A k \in 1..Len(ops) : ops[k][1] \in InodeOps /\ ops[k][2] = todo[p][1][2]
               /\ \A s \in Slots : Taking(p, s) /\ s # todo[p][1][2] => LockedAfter(p, s),
           CacheSound', LocksKept(Procs \ {p}), DiskTyped', TypesKept, Freeing(p)'
    PROVE  Inodes'
<1>1. Doing(p) /\ Types /\ SlotRefs
  BY DEF Inodes, Core
<1>2. Held(p)' /\ Created(p)' /\ Fresh(p)' /\ Naming(p)'
  BY <1>1, InnerDo
<1>3. Doing(p)'
  BY <1>2 DEF Doing
<1>4. UsersFrom(p)
  <2>1. UNCHANGED cwd /\ \A f \in Files : ftable'[f].ip = ftable[f].ip
    BY DEF FilesStay
  <2>2. todo[p][1][1] \notin {"chdir3", "exit2"}
        /\ \A k \in 1..Len(ops) : ops[k][1] \notin {"chdir3", "open4"}
    BY DEF LastOps
  <2>. QED
    BY <1>1, <2>1, <2>2, UsersStay
<1>5. \A q \in Procs : q # p => todo'[q] = todo[q]
  BY DEF After
<1>. QED
  BY <1>3, <1>4, <1>5, TypesKeptIs, InodesKeep

LEMMA EmptyAfter ==
    ASSUME Types, NEW p \in Procs, todo[p] # << >>, Then(p, << >>)
    PROVE  After(p, << >>) /\ Len(<< >>) = 0 /\ \A k \in 1..Len(<< >>) : FALSE
<1>1. Few(<< >>) /\ Len(<< >>) = 0
  BY Ops0
<1>. QED
  BY <1>1, ThenAfter DEF Few

LEMMA Disjoint ==
    /\ \A op \in {"begin_op", "end_op", "ilock", "iunlock", "iput", "ifree", "idrop", "dirlink",
                  "namex", "walk", "step"} : op \notin MainOps \cup LastOps
    /\ InodeOps = {"iunlock", "iput", "ifree", "idrop"} /\ WalkOps = {"namex", "walk", "step"}
  BY DEF MainOps, LastOps, CreateOps, UsesR, UsesIp, UsesDp, InodeOps, WalkOps

LEMMA BeginOpSound ==
    ASSUME Core, Core', Inodes, NEW p \in Procs, BeginOp(p), UNCHANGED fileVars
    PROVE  Inodes'
<1>0. Types /\ At(p, "begin_op") /\ Then(p, << >>) /\ FilesStay /\ UNCHANGED <<dinode, icache, reg>>
  BY DEF Core, BeginOp, FilesStay, fileVars
<1>1. todo[p] # << >> /\ todo[p][1][1] = "begin_op"
  BY <1>0, AtFacts
<1>2. After(p, << >>) /\ Len(<< >>) = 0 /\ \A k \in 1..Len(<< >>) : FALSE
  BY <1>0, <1>1, EmptyAfter
<1>3. DiskTyped' /\ TypesKept
  BY <1>0, DiskStays DEF Inodes
<1>4. CacheSound' /\ LocksKept(Procs \ {p})
  BY <1>0, <1>3, CacheSoundStays DEF Inodes, CacheSound, LocksKept
<1>5. Freeing(p)'
  BY <1>2, NoneFreed DEF Inodes
<1>. QED
  BY <1>0, <1>1, <1>2, <1>3, <1>4, <1>5, Disjoint, InnerStep

LEMMA IlockSound ==
    ASSUME Core, Core', Inodes, NEW p \in Procs, Ilock(p), UNCHANGED fileVars, panicked' = "no"
    PROVE  Inodes'
<1>0. Types /\ At(p, "ilock") /\ Then(p, << >>) /\ FilesStay /\ UNCHANGED <<dinode, reg>>
      /\ CacheSound
  BY DEF Core, Ilock, FilesStay, fileVars, Inodes, CacheSound
<1>1. todo[p] # << >> /\ todo[p][1][1] = "ilock" /\ Arg(p, 1) = todo[p][1][2]
  BY <1>0, AtFacts
<1>2. After(p, << >>) /\ Len(<< >>) = 0 /\ \A k \in 1..Len(<< >>) : FALSE
  BY <1>0, <1>1, EmptyAfter
<1>3. DiskTyped' /\ TypesKept
  BY <1>0, DiskStays DEF Inodes
<1>. DEFINE s == todo[p][1][2]
            d == dinode[icache[s].inum]
<1>4. s \in Slots
  BY <1>0, HeadIs, Disjoint
<1>5. /\ icache[s].owner = NoProc
      /\ icache' = [icache EXCEPT ![s] =
             IF @.valid THEN [@ EXCEPT !.owner = p]
             ELSE [@ EXCEPT !.owner = p, !.valid = TRUE, !.type = d.type, !.nlink = d.nlink]]
      /\ ~(icache[s].ref < 1) /\ (icache[s].valid \/ d.type # "none")
  BY <1>1 DEF Ilock, PanicIf, Inum
<1>6. DOMAIN icache' = Slots /\ \A t \in Slots : t # s => icache'[t] = icache[t]
  BY <1>0, <1>5 DEF Types
<1>7. DOMAIN icache[s] = EntryFields
  BY <1>0, <1>4 DEF CacheSound, CacheTyped
<1>8. icache'[s] = IF icache[s].valid THEN [icache[s] EXCEPT !.owner = p]
                   ELSE [icache[s] EXCEPT !.owner = p, !.valid = TRUE, !.type = d.type, !.nlink = d.nlink]
  BY <1>0, <1>4, <1>5 DEF Types
<1>9. /\ DOMAIN icache'[s] = EntryFields /\ icache'[s].inum = icache[s].inum
      /\ icache'[s].ref = icache[s].ref /\ icache'[s].owner = p /\ icache'[s].valid
      /\ icache'[s].type = IF icache[s].valid THEN icache[s].type ELSE d.type
  <2>1. CASE icache[s].valid
    BY <1>7, <1>8, <2>1 DEF EntryFields
  <2>2. CASE ~icache[s].valid
    BY <1>7, <1>8, <2>2 DEF EntryFields
  <2>. QED
    BY <2>1, <2>2
<1>10. CacheSound'
  <2>. HIDE DEF s, d
  <2>1. \A t \in Slots : /\ DOMAIN icache'[t] = EntryFields /\ icache'[t].inum = icache[t].inum
                         /\ icache'[t].ref = icache[t].ref
    BY <1>0, <1>6, <1>7, <1>9 DEF CacheSound, CacheTyped
  <2>2. CacheTyped'
    BY <1>0, <2>1 DEF CacheSound, CacheTyped, Slots, Inums, EntryFields
  <2>3. Unique'
    BY <1>0, <2>1 DEF CacheSound, Unique, Slots
  <2>4. ReadIn'
    <3>1. \A t \in Slots : icache'[t].ref > 0 /\ icache'[t].valid =>
              icache'[t].type = dinode'[icache'[t].inum].type /\ icache'[t].type # "none"
      <4>. TAKE t \in Slots
      <4>1. CASE t = s
        BY <1>0, <1>5, <1>9, <4>1, <2>1 DEF CacheSound, ReadIn, d
      <4>2. CASE t # s
        BY <1>0, <1>6, <4>2 DEF CacheSound, ReadIn
      <4>. QED
        BY <4>1, <4>2
    <3>. QED
      BY <3>1 DEF ReadIn, Slots
  <2>. QED
    BY <2>2, <2>3, <2>4 DEF CacheSound
<1>11. LocksKept(Procs \ {p})
  <2>1. NoProc \notin Procs
    BY InodeAssumption
  <2>. HIDE DEF s, d
  <2>2. \A t \in Slots : icache'[t].inum = icache[t].inum
    BY <1>6, <1>9
  <2>3. \A t \in Slots : icache[t].owner \in Procs => t # s /\ icache'[t] = icache[t]
    BY <1>5, <1>6, <2>1
  <2>. QED
    BY <2>2, <2>3 DEF LocksKept
<1>12. LockedAfter(p, s)
  BY <1>9 DEF LockedAfter
<1>13. Freeing(p)'
  BY <1>2, NoneFreed DEF Inodes
<1>. HIDE DEF s, d
<1>14. todo[p][1][1] = "ilock" => Len(<< >>) = 0 /\ LockedAfter(p, todo[p][1][2])
  BY <1>2, <1>12 DEF s
<1>. QED
  BY <1>0, <1>1, <1>2, <1>3, <1>10, <1>11, <1>13, <1>14, Disjoint, InnerStep

(* After end_op() there is no inode in the local variables.                *)
LEMMA EndOpSound ==
    ASSUME Core, Core', Inodes, NEW p \in Procs, EndOp(p), UNCHANGED fileVars
    PROVE  Inodes'
<1>0. Types /\ At(p, "end_op") /\ Then(p, << >>) /\ FilesStay /\ UNCHANGED <<dinode, icache>>
      /\ \A q \in Procs : q # p => reg'[q] = reg[q]
  BY DEF Core, EndOp, FilesStay, fileVars, Types
<1>1. todo[p] # << >> /\ todo[p][1][1] = "end_op"
  BY <1>0, AtFacts
<1>2. After(p, << >>) /\ Len(<< >>) = 0 /\ \A k \in 1..Len(<< >>) : FALSE
  BY <1>0, <1>1, EmptyAfter
<1>3. DiskTyped' /\ TypesKept
  BY <1>0, DiskStays DEF Inodes
<1>4. CacheSound' /\ LocksKept(Procs \ {p})
  BY <1>0, <1>3, CacheSoundStays DEF Inodes, CacheSound, LocksKept
<1>5. \A k \in 1..Len(todo'[p]) : todo'[p][k][1] # "ifree"
  BY <1>2, NoneFreed DEF Inodes
<1>6. \A k \in 1..Len(todo[p]) : Outside(todo[p][k])
  <2>1. Shape(todo[p], reg[p]) /\ todo[p][1][1] \notin MainOps /\ IsSeq(todo[p])
    BY <1>0, <1>1, Disjoint DEF Core, Shapes, Types
  <2>2. Mains(todo[p]) = 0 \/ Mains(todo[p]) > 0
    BY <2>1, MainsIs
  <2>3. ~Within(todo[p][1])
    BY <1>1 DEF Within, InodeOps
  <2>4. Mains(todo[p]) = 0
    BY <1>1, <2>1, <2>2, <2>3, HeadInner
  <2>. QED
    BY <2>1, <2>4 DEF Shape
<1>7. \A x : Outside(x) /\ x[1] # "ifree" => x[1] \notin Watched
  BY DEF Outside, Watched, InodeOps
<1>8. \A k \in 1..Len(todo'[p]) : todo'[p][k][1] \notin Watched
  <2>. SUFFICES ASSUME NEW k \in 1..Len(todo'[p])
                PROVE  Outside(todo'[p][k])
    BY <1>5, <1>7
  <2>1. k - 0 + 1 \in 2..Len(todo[p]) /\ todo'[p][k] = todo[p][k - 0 + 1]
    BY <1>2, AfterIs
  <2>2. k + 1 \in 1..Len(todo[p]) /\ todo'[p][k] = todo[p][k + 1]
    BY <2>1
  <2>. QED
    BY <1>6, <2>2
<1>9. Doing(p)'
  BY <1>8, PlainDo DEF Core
<1>10. UsersFrom(p)
  <2>1. UNCHANGED cwd /\ \A f \in Files : ftable'[f].ip = ftable[f].ip
    BY <1>0 DEF FilesStay
  <2>. QED
    BY <1>0, <1>1, <1>2, <2>1, UsersStay
<1>11. \A q \in Procs : q # p => todo'[q] = todo[q]
  BY <1>2 DEF After
<1>. QED
  BY <1>0, <1>3, <1>4, <1>9, <1>10, <1>11, TypesKeptIs, InodesKeep

(* A change of who has an inode locked, or of ref.                         *)
LEMMA LocksSound ==
    ASSUME CacheSound, TypesKept,
           \A t \in Slots : /\ DOMAIN icache'[t] = EntryFields /\ icache'[t].inum = icache[t].inum
                            /\ icache'[t].valid = icache[t].valid /\ icache'[t].type = icache[t].type
                            /\ icache'[t].ref > 0 => icache[t].ref > 0
    PROVE  CacheSound'
<1>1. CacheTyped'
  BY DEF CacheSound, CacheTyped, Slots, Inums, EntryFields
<1>2. Unique'
  BY DEF CacheSound, Unique, Slots
<1>3. ReadIn'
  BY DEF CacheSound, CacheTyped, ReadIn, TypesKept, Slots
<1>. QED
  BY <1>1, <1>2, <1>3 DEF CacheSound

LEMMA IunlockSound ==
    ASSUME Core, Core', Inodes, NEW p \in Procs, Iunlock(p), UNCHANGED fileVars, panicked' = "no"
    PROVE  Inodes'
<1>0. Types /\ At(p, "iunlock") /\ Then(p, << >>) /\ FilesStay /\ UNCHANGED <<dinode, reg>>
      /\ CacheSound
  BY DEF Core, Iunlock, FilesStay, fileVars, Inodes, CacheSound
<1>1. todo[p] # << >> /\ todo[p][1][1] = "iunlock" /\ Arg(p, 1) = todo[p][1][2]
  BY <1>0, AtFacts
<1>2. After(p, << >>) /\ Len(<< >>) = 0 /\ \A k \in 1..Len(<< >>) : FALSE
  BY <1>0, <1>1, EmptyAfter
<1>3. DiskTyped' /\ TypesKept
  BY <1>0, DiskStays DEF Inodes
<1>. DEFINE s == todo[p][1][2]
<1>4. s \in Slots
  BY <1>0, <1>1, HeadIs, Disjoint
<1>5. icache' = [icache EXCEPT ![s].owner = NoProc] /\ icache[s].owner = p
  BY <1>1 DEF Iunlock, PanicIf
<1>. HIDE DEF s
<1>6. \A t \in Slots : DOMAIN icache[t] = EntryFields
  BY <1>0 DEF CacheSound, CacheTyped
<1>7. \A t \in Slots : /\ DOMAIN icache'[t] = EntryFields /\ icache'[t].inum = icache[t].inum
                       /\ icache'[t].valid = icache[t].valid /\ icache'[t].type = icache[t].type
                       /\ icache'[t].ref = icache[t].ref
                       /\ t # s => icache'[t] = icache[t]
  BY <1>0, <1>4, <1>5, <1>6 DEF Types, EntryFields
<1>8. CacheSound'
  BY <1>0, <1>3, <1>7, LocksSound
<1>9. LocksKept(Procs \ {p})
  BY <1>5, <1>7 DEF LocksKept
<1>10. \A t \in Slots : Taking(p, t) /\ t # s => LockedAfter(p, t)
  BY <1>7 DEF Taking, Locked, LockedAfter
<1>11. Freeing(p)'
  BY <1>2, NoneFreed DEF Inodes
<1>12. \A t \in Slots : Taking(p, t) /\ t # todo[p][1][2] => LockedAfter(p, t)
  BY <1>10 DEF s
<1>. QED
  BY <1>0, <1>1, <1>2, <1>3, <1>8, <1>9, <1>11, <1>12, Disjoint, InnerStep

LEMMA IputDropSound ==
    ASSUME Core, Core', Inodes, NEW p \in Procs, IputDrop(p), UNCHANGED fileVars
    PROVE  Inodes'
<1>0. Types /\ SlotRefs /\ At(p, "idrop") /\ Then(p, << >>) /\ FilesStay /\ UNCHANGED <<dinode, reg>>
      /\ CacheSound
  BY DEF Core, IputDrop, FilesStay, fileVars, Inodes, CacheSound
<1>1. todo[p] # << >> /\ todo[p][1][1] = "idrop" /\ Arg(p, 1) = todo[p][1][2]
  BY <1>0, AtFacts
<1>2. After(p, << >>) /\ Len(<< >>) = 0 /\ \A k \in 1..Len(<< >>) : FALSE
  BY <1>0, <1>1, EmptyAfter
<1>3. DiskTyped' /\ TypesKept
  BY <1>0, DiskStays DEF Inodes
<1>. DEFINE s == todo[p][1][2]
<1>4. s \in Slots
  BY <1>0, <1>1, HeadIs, Disjoint
<1>5. icache' = [icache EXCEPT ![s].ref = @ - 1]
  BY <1>1 DEF IputDrop
<1>. HIDE DEF s
<1>6. \A t \in Slots : DOMAIN icache[t] = EntryFields /\ icache[t].ref \in Nat
  BY <1>0, RefPositive DEF CacheSound, CacheTyped
<1>7. DOMAIN icache' = Slots /\ \A t \in Slots : SameEntry(t)
  BY <1>0, <1>4, <1>5, <1>6 DEF Types, EntryFields, SameEntry
<1>8. CacheSound' /\ LocksKept(Procs)
  BY <1>0, <1>3, <1>7, EntriesSame
<1>9. LocksKept(Procs \ {p}) /\ \A t \in Slots : Taking(p, t) => LockedAfter(p, t)
  BY <1>8 DEF LocksKept, Taking, Locked, LockedAfter
<1>10. Freeing(p)'
  BY <1>2, NoneFreed DEF Inodes
<1>. QED
  BY <1>0, <1>1, <1>2, <1>3, <1>8, <1>9, <1>10, Disjoint, InnerStep

(* iput() locks what it frees: its reference is the last one, and there is *)
(* no user.                                                                *)
LEMMA IputLockSound ==
    ASSUME Core, Core', Inodes, NEW p \in Procs, IputLock(p), UNCHANGED fileVars
    PROVE  Inodes'
<1>0. Types /\ SlotRefs /\ At(p, "iput") /\ FilesStay /\ UNCHANGED <<dinode, reg>> /\ CacheSound
  BY DEF Core, IputLock, FilesStay, fileVars, Inodes, CacheSound
<1>1. todo[p] # << >> /\ todo[p][1][1] = "iput" /\ Arg(p, 1) = todo[p][1][2]
  BY <1>0, AtFacts
<1>s. PICK s : s = todo[p][1][2]
  OBVIOUS
<1>. DEFINE a == <<"ifree", s>>
            b == <<"idrop", s>>
<1>2. s \in Slots
  BY <1>0, <1>1, <1>s, HeadIs, Disjoint
<1>3. DiskTyped' /\ TypesKept
  BY <1>0, DiskStays DEF Inodes
<1>4. icache[s].owner = NoProc
  BY <1>1, <1>s DEF IputLock
<1>5. \A t \in Slots : DOMAIN icache[t] = EntryFields
  BY <1>0 DEF CacheSound, CacheTyped
<1>6. CASE LastLink(s)
  <2>1. icache' = [icache EXCEPT ![s].owner = p] /\ Then(p, <<a, b>>)
    BY <1>1, <1>6, <1>s DEF IputLock
  <2>2. Few(<<a, b>>) /\ Len(<<a, b>>) = 2 /\ <<a, b>>[1] = a /\ <<a, b>>[2] = b
    BY Ops2
  <2>3. After(p, <<a, b>>)
    BY <1>0, <1>1, <2>1, <2>2, ThenAfter DEF Few
  <2>4. /\ a[1] \in InodeOps /\ b[1] \in InodeOps /\ a[2] = s /\ b[2] = s
        /\ a[1] \notin MainOps \cup LastOps \cup {"dirlink"} /\ b[1] \notin MainOps \cup LastOps \cup {"dirlink"}
        /\ b[1] # "ifree" /\ b[1] = "idrop" /\ a[1] = "ifree"
    BY Disjoint
  <2>5. icache[s].ref = 1
    BY <1>6 DEF LastLink
  <2>6. ~User(s)
    <3>1. SlotOf(todo[p][1]) = s /\ 1 \in 1..Len(todo[p])
      BY <1>0, <1>1, <1>s, AtFacts DEF SlotOf
    <3>. QED
      BY <1>0, <1>1, <1>2, <2>5, <3>1, LastHasNoUser
  <2>. HIDE DEF a, b
  <2>7. \A t \in Slots : /\ DOMAIN icache'[t] = EntryFields /\ icache'[t].inum = icache[t].inum
                         /\ icache'[t].valid = icache[t].valid /\ icache'[t].type = icache[t].type
                         /\ icache'[t].ref = icache[t].ref
                         /\ t # s => icache'[t] = icache[t]
    BY <1>0, <1>2, <1>5, <2>1 DEF Types, EntryFields
  <2>8. icache'[s].owner = p
    BY <1>0, <1>2, <1>5, <2>1 DEF Types, EntryFields
  <2>9. CacheSound'
    BY <1>0, <1>3, <2>7, LocksSound
  <2>10. LocksKept(Procs) /\ NoProc \notin Procs
    BY <1>4, <2>7, InodeAssumption DEF LocksKept
  <2>11. LocksKept(Procs \ {p}) /\ \A t \in Slots : Taking(p, t) => LockedAfter(p, t)
    BY <2>10 DEF LocksKept, Taking, Locked, LockedAfter
  <2>12. UsersFrom(p)
    <3>1. UNCHANGED cwd /\ \A f \in Files : ftable'[f].ip = ftable[f].ip
      BY <1>0 DEF FilesStay
    <3>2. todo[p][1][1] \notin {"chdir3", "exit2"}
          /\ \A k \in 1..Len(<<a, b>>) : <<a, b>>[k][1] \notin {"chdir3", "open4"}
      BY <1>1, <2>2, <2>4 DEF LastOps
    <3>. QED
      BY <1>0, <2>3, <3>1, <3>2, UsersStay
  <2>13. ~User(s)'
    BY <1>2, <1>4, <2>6, <2>10, <2>12 DEF UsersFrom, Taking, Locked
  <2>14. Freeing(p)'
    <3>0. Len(todo[p]) \in Nat /\ Len(todo[p]) > 0 /\ Len(todo'[p]) = 2 + Len(todo[p]) - 1
      BY <2>2, <2>3, AfterIs
    <3>1. Len(todo'[p]) > 1
      BY <3>0
    <3>2. todo'[p][1] = a /\ todo'[p][2] = b
      BY <2>2, <2>3, <3>0 DEF After
    <3>3. ASSUME NEW k \in 1..Len(todo'[p]), todo'[p][k][1] = "ifree"
          PROVE  k = 1
      <4>1. CASE k <= 2
        BY <2>4, <3>0, <3>2, <3>3, <4>1
      <4>2. CASE k > 2
        <5>1. k - 1 \in 2..Len(todo[p]) /\ todo'[p][k] = todo[p][k - 1]
          <6>. DEFINE ops == <<a, b>>
          <6>1. Len(ops) = 2 /\ After(p, ops)
            BY <2>2, <2>3
          <6>. HIDE DEF ops
          <6>2. ~(k <= Len(ops))
            BY <3>0, <4>2, <6>1
          <6>3. k - Len(ops) + 1 \in 2..Len(todo[p]) /\ todo'[p][k] = todo[p][k - Len(ops) + 1]
            BY <6>1, <6>2, AfterIs
          <6>4. k - Len(ops) + 1 = k - 1
            BY <3>0, <6>1
          <6>. QED
            BY <6>3, <6>4
        <5>2. k - 1 \in 1..Len(todo[p]) /\ k - 1 # 1
          BY <3>0, <5>1
        <5>. QED
          BY <3>3, <5>1, <5>2 DEF Inodes, Doing, Freeing
      <4>. QED
        BY <3>0, <4>1, <4>2
    <3>4. ASSUME NEW k \in 1..Len(todo'[p]), todo'[p][k][1] = "ifree"
          PROVE  todo'[p][k][2] = s
      BY <2>4, <3>2, <3>3, <3>4
    <3>. QED
      BY <2>4, <2>8, <2>13, <3>1, <3>2, <3>3, <3>4 DEF Freeing
  <2>15. \A k \in 1..Len(<<a, b>>) :
           /\ <<a, b>>[k][1] \notin MainOps \cup LastOps \cup {"dirlink"}
           /\ <<a, b>>[k][1] \in InodeOps /\ <<a, b>>[k][2] = todo[p][1][2]
    BY <1>s, <2>2, <2>4
  <2>. QED
    BY <1>0, <1>1, <1>3, <2>3, <2>9, <2>11, <2>14, <2>15, Disjoint, InnerStep
<1>7. CASE ~LastLink(s)
  <2>1. UNCHANGED icache /\ Then(p, <<b>>)
    BY <1>1, <1>7, <1>s DEF IputLock
  <2>2. Few(<<b>>) /\ Len(<<b>>) = 1 /\ <<b>>[1] = b
    BY Ops1
  <2>3. After(p, <<b>>)
    BY <1>0, <1>1, <2>1, <2>2, ThenAfter DEF Few
  <2>4. b[1] \in InodeOps /\ b[2] = s /\ b[1] \notin MainOps \cup LastOps \cup {"dirlink"} /\ b[1] # "ifree"
    BY Disjoint
  <2>. HIDE DEF b
  <2>5. \A k \in 1..Len(<<b>>) :
           /\ <<b>>[k][1] \notin MainOps \cup LastOps \cup {"dirlink"} /\ <<b>>[k][1] # "ifree"
           /\ <<b>>[k][1] \in InodeOps /\ <<b>>[k][2] = todo[p][1][2]
    BY <1>s, <2>2, <2>4
  <2>6. CacheSound' /\ LocksKept(Procs)
    BY <1>0, <1>3, <2>1, CacheSoundStays
  <2>7. LocksKept(Procs \ {p}) /\ \A t \in Slots : Taking(p, t) => LockedAfter(p, t)
    BY <2>6 DEF LocksKept, Taking, Locked, LockedAfter
  <2>8. Freeing(p)'
    BY <2>3, <2>5, NoneFreed DEF Inodes
  <2>. QED
    BY <1>0, <1>1, <1>3, <2>3, <2>5, <2>6, <2>7, <2>8, Disjoint, InnerStep
<1>. QED
  BY <1>6, <1>7

(* The users after a section that pushes no new one.                       *)
LEMMA UsersNone ==
    ASSUME NEW p \in Procs, NEW ops, After(p, ops), UsersFrom(p), UNCHANGED <<cwd, ftable>>,
           \A q \in Procs : Leaving(q)' <=> Leaving(q),
           \A k \in 1..Len(ops) : ops[k][1] \notin {"chdir3", "open4"}, NEW s, User(s)'
    PROVE  User(s)
<1>1. CASE \E q \in Procs : Dirs'[q] = s
  BY <1>1 DEF Dirs, User, DirUser
<1>2. CASE Becoming(s, {"chdir3"})'
  BY <1>2, BecomingFrom DEF User, DirUser
<1>3. CASE \E f \in Files : Opened'[f] = s
  BY <1>3 DEF Opened, User
<1>4. CASE Becoming(s, {"open4"})'
  BY <1>4, BecomingFrom DEF User
<1>. QED
  BY <1>1, <1>2, <1>3, <1>4 DEF User, DirUser, Files

(* iput() frees an inode that nobody uses, and the cache has it once.      *)
LEMMA IputFreeSound ==
    ASSUME Core, Core', Inodes, NEW p \in Procs, IputFree(p), UNCHANGED fileVars
    PROVE  Inodes'
<1>0. Types /\ SlotRefs /\ At(p, "ifree") /\ Then(p, << >>) /\ FilesStay /\ UNCHANGED reg
      /\ CacheSound /\ Doing(p) /\ DiskTyped
  BY DEF Core, IputFree, FilesStay, fileVars, Inodes, CacheSound
<1>1. todo[p] # << >> /\ todo[p][1][1] = "ifree" /\ Arg(p, 1) = todo[p][1][2] /\ 1 \in 1..Len(todo[p])
  BY <1>0, AtFacts
<1>2. After(p, << >>) /\ Len(<< >>) = 0 /\ \A k \in 1..Len(<< >>) : FALSE
  BY <1>0, <1>1, EmptyAfter
<1>s. PICK s : s = todo[p][1][2]
  OBVIOUS
<1>i. PICK i : i = icache[s].inum
  OBVIOUS
<1>3. s \in Slots
  BY <1>0, <1>1, <1>s, HeadIs, Disjoint
<1>4. /\ Len(todo[p]) > 1 /\ todo[p][2][1] = "idrop" /\ todo[p][2][2] = s
      /\ icache[s].owner = p /\ ~User(s)
  BY <1>0, <1>1, <1>s DEF Doing, Freeing
<1>5. icache[s].ref > 0
  <2>1. 2 \in 1..Len(todo[p]) /\ SlotOf(todo[p][2]) = s
    BY <1>0, <1>4, AtFacts DEF SlotOf
  <2>. QED
    BY <1>0, <1>3, <2>1, UserCounted
<1>6. /\ dinode' = [dinode EXCEPT ![i] = [@ EXCEPT !.type = "none", !.ents = << >>]]
      /\ icache' = [icache EXCEPT ![s].type = "none", ![s].valid = FALSE, ![s].owner = NoProc]
  BY <1>1, <1>s, <1>i DEF IputFree, Inum
<1>7. i \in Inums
  BY <1>0, <1>3, <1>5, <1>i DEF CacheSound, CacheTyped
<1>8. \A t \in Slots : DOMAIN icache[t] = EntryFields
  BY <1>0 DEF CacheSound, CacheTyped
<1>9. \A t \in Slots : /\ DOMAIN icache'[t] = EntryFields /\ icache'[t].inum = icache[t].inum
                       /\ icache'[t].ref = icache[t].ref
                       /\ t # s => icache'[t] = icache[t]
                       /\ t = s => icache'[t].valid = FALSE
  BY <1>0, <1>3, <1>6, <1>8 DEF Types, EntryFields
<1>10. DOMAIN dinode' = Inums /\ \A j \in Inums :
         dinode'[j] = IF j = i THEN [dinode[j] EXCEPT !.type = "none", !.ents = << >>] ELSE dinode[j]
  BY <1>0, <1>6 DEF DiskTyped
<1>11. \A t \in Slots : icache[t].ref > 0 /\ icache[t].inum = i => t = s
  BY <1>0, <1>3, <1>5, <1>i DEF CacheSound, Unique
<1>12. DiskTyped'
  <2>1. EntsTyped(<< >>)
    BY DEF EntsTyped, IsSeq
  <2>2. \A j \in Inums : InodeTyped(dinode[j])
    BY <1>0 DEF DiskTyped
  <2>3. \A j \in Inums : InodeTyped(dinode'[j])
    BY <1>10, <2>1, <2>2 DEF InodeTyped
  <2>. QED
    BY <1>10, <2>3, DiskTypedIs
<1>13. CacheSound'
  <2>1. CacheTyped'
    BY <1>0, <1>9 DEF CacheSound, CacheTyped, Slots, Inums, EntryFields
  <2>2. Unique'
    BY <1>0, <1>9 DEF CacheSound, Unique, Slots
  <2>3. ReadIn'
    <3>1. \A t \in Slots : icache'[t].ref > 0 /\ icache'[t].valid =>
              icache'[t].type = dinode'[icache'[t].inum].type /\ icache'[t].type # "none"
      <4>. SUFFICES ASSUME NEW t \in Slots, icache'[t].ref > 0 /\ icache'[t].valid
                    PROVE  icache'[t].type = dinode'[icache'[t].inum].type /\ icache'[t].type # "none"
        OBVIOUS
      <4>1. t # s /\ icache'[t] = icache[t]
        BY <1>9
      <4>2. icache[t].inum # i /\ icache[t].inum \in Inums
        BY <1>0, <1>11, <4>1 DEF CacheSound, CacheTyped
      <4>3. dinode'[icache[t].inum] = dinode[icache[t].inum]
        BY <1>10, <4>2
      <4>4. icache[t].ref > 0 /\ icache[t].valid
        BY <4>1
      <4>5. icache[t].type = dinode[icache[t].inum].type /\ icache[t].type # "none"
        BY <1>0, <4>4 DEF CacheSound, ReadIn
      <4>. QED
        BY <4>1, <4>3, <4>5
    <3>. QED
      BY <3>1 DEF ReadIn, Slots
  <2>. QED
    BY <2>1, <2>2, <2>3 DEF CacheSound
<1>14. LocksKept(Procs \ {p}) /\ \A t \in Slots : Taking(p, t) /\ t # s => LockedAfter(p, t)
  <2>1. icache[s].owner = p
    BY <1>4
  <2>. QED
    BY <1>9, <2>1 DEF LocksKept, Taking, Locked, LockedAfter
<1>15. Freeing(p)'
  BY <1>0, <1>2, NoneFreed
<1>16. Doing(p)'
  <2>1. \A t \in Slots : Taking(p, t) /\ t # todo[p][1][2] => LockedAfter(p, t)
    BY <1>14, <1>s
  <2>2. Held(p)' /\ Created(p)' /\ Fresh(p)' /\ Naming(p)'
    BY <1>0, <1>1, <1>2, <2>1, Disjoint, InnerDo
  <2>. QED
    BY <1>15, <2>2 DEF Doing
<1>17. UsersFrom(p)
  <2>1. UNCHANGED cwd /\ \A f \in Files : ftable'[f].ip = ftable[f].ip
    BY <1>0 DEF FilesStay
  <2>. QED
    BY <1>0, <1>1, <1>2, <2>1, UsersStay
<1>18. \A q \in Procs : Leaving(q)' <=> Leaving(q)
  <2>1. Plain(p, << >>)
    BY <1>1, <1>2, Disjoint, PopOps DEF Plain, MainOps
  <2>. QED
    BY <1>0, <1>2, <2>1, DirsStay
<1>19. ASSUME NEW t \in Slots, icache[t].ref > 0, User(t)'
       PROVE  dinode'[icache[t].inum].type = dinode[icache[t].inum].type
  <2>1. UNCHANGED <<cwd, ftable>>
    BY <1>0 DEF FilesStay
  <2>2. User(t)
    BY <1>2, <1>17, <1>18, <1>19, <2>1, UsersNone
  <2>3. t # s
    BY <1>4, <2>2
  <2>4. icache[t].inum # i /\ icache[t].inum \in Inums
    BY <1>0, <1>11, <1>19, <2>3 DEF CacheSound, CacheTyped
  <2>. QED
    BY <1>10, <2>4
<1>20. \A q \in Procs : q # p => todo'[q] = todo[q] /\ reg'[q] = reg[q]
  BY <1>0, <1>2 DEF After
<1>. QED
  BY <1>12, <1>13, <1>14, <1>16, <1>17, <1>19, <1>20, InodesKeep


-----------------------------------------------------------------------------
(* namei() and dirlink(): sections of fs.c that lock, walk and put.        *)
LEMMA WalkOn ==
    ASSUME Core, Core', Inodes, NEW p \in Procs, NEW ops, Few(ops), Then(p, ops), todo[p] # << >>,
           todo[p][1][1] \in WalkOps \cup {"dirlink"}, FilesStay, RegMove(p),
           \A k \in 1..Len(ops) : ops[k][1] \in {"iunlock", "iput", "ilock", "walk", "step"},
           reg'[p].ip = reg[p].ip, reg'[p].dp = reg[p].dp,
           todo[p][1][1] = "dirlink" => reg'[p].r = reg[p].r,
           CacheSound', LocksKept(Procs), DiskTyped', TypesKept
    PROVE  Inodes'
<1>0. Types
  BY DEF Core
<1>1. After(p, ops)
  BY <1>0, ThenAfter DEF Few
<1>2. Freeing(p)'
  BY <1>1, NoneFreed DEF Inodes
<1>3. LocksKept(Procs \ {p})
  BY DEF LocksKept
<1>4. /\ todo[p][1][1] \notin MainOps \cup LastOps \cup InodeOps \cup {"ilock"}
      /\ \A k \in 1..Len(ops) : ops[k][1] \notin MainOps \cup LastOps \cup {"dirlink"}
  BY Disjoint
<1>5. \A q \in Procs : q # p => reg'[q] = reg[q]
  BY DEF RegMove
<1>. QED
  BY <1>1, <1>2, <1>3, <1>4, <1>5, Disjoint, InnerStep

LEMMA DirlinkSound ==
    ASSUME Core, Core', Inodes, NEW p \in Procs, Dirlink(p), UNCHANGED fileVars, panicked' = "no"
    PROVE  Inodes'
<1>0. Types /\ SlotRefs /\ Shape(todo[p], reg[p]) /\ At(p, "dirlink") /\ FilesStay /\ CacheSound
      /\ DiskTyped /\ CacheTyped
  BY DEF Core, Shapes, Dirlink, FilesStay, fileVars, Inodes, CacheSound
<1>1. /\ todo[p] # << >> /\ todo[p][1][1] = "dirlink" /\ 1 \in 1..Len(todo[p])
      /\ Arg(p, 1) = todo[p][1][2] /\ Arg(p, 2) = todo[p][1][3] /\ Arg(p, 3) = todo[p][1][4]
  BY <1>0, AtFacts
<1>2. RegMove(p) /\ reg'[p].ip = reg[p].ip /\ reg'[p].dp = reg[p].dp /\ reg'[p].r = reg[p].r
  BY <1>0 DEF Dirlink, Types, RegMove, NoRegs
<1>s. PICK s : s = todo[p][1][2]
  OBVIOUS
<1>3. s = reg[p].dp /\ s # 0 /\ todo[p][1][4] \in Inums
  BY <1>1, <1>s DEF Inodes, Doing, Naming
<1>4. s \in Slots
  <2>1. Mains(todo[p]) = 0 \/ Mains(todo[p]) > 0
    BY <1>0, <1>1, Disjoint, HeadIs
  <2>. QED
    BY <1>0, <1>3, <2>1 DEF Shape, Holds
<1>5. icache[s].inum \in Inums
  BY <1>0, <1>3, <1>4, RefPositive DEF CacheTyped
<1>. DEFINE d == dinode[icache[s].inum]
            k == Dirlookup(d, todo[p][1][3])
            i == d.ents[k].inum
<1>6. InodeTyped(d)
  BY <1>0, <1>5 DEF DiskTyped
<1>7. \/ /\ dinode' = [dinode EXCEPT ![icache[s].inum] = WithEntry(d, todo[p][1][3], todo[p][1][4])]
         /\ Then(p, << >>) /\ UNCHANGED icache
      \/ /\ k # 0 /\ icache' = Iget(i) /\ FullIf(IgetSlot(i) = 0)
         /\ Then(p, << <<"iput", IgetSlot(i)>> >>) /\ UNCHANGED dinode
  <2>1. /\ Arg(p, 1) = s /\ Inum(s) = icache[s].inum
    BY <1>1, <1>s DEF Inum
  <2>. HIDE DEF At
  <2>. QED
    BY <1>1, <2>1 DEF Dirlink
<1>. HIDE DEF d, k, i
<1>8. CASE /\ dinode' = [dinode EXCEPT ![icache[s].inum] = WithEntry(d, todo[p][1][3], todo[p][1][4])]
           /\ Then(p, << >>) /\ UNCHANGED icache
  <2>1. InodeTyped(WithEntry(d, todo[p][1][3], todo[p][1][4]))
        /\ WithEntry(d, todo[p][1][3], todo[p][1][4]).type = d.type
    BY <1>3, <1>6, WithEntryTyped
  <2>2. DOMAIN dinode' = Inums /\ \A j \in Inums :
          InodeTyped(dinode'[j]) /\ dinode'[j].type = dinode[j].type
    BY <1>0, <1>8, <2>1 DEF DiskTyped, d
  <2>3. DiskTyped' /\ TypesKept
    BY <1>0, <2>2, DiskChanged
  <2>4. CacheSound' /\ LocksKept(Procs)
    BY <1>0, <1>8, <2>3, CacheSoundStays
  <2>5. Few(<< >>) /\ Len(<< >>) = 0
    BY Ops0
  <2>. QED
    BY <1>0, <1>1, <1>2, <1>8, <2>3, <2>4, <2>5, WalkOn
<1>9. CASE /\ k # 0 /\ icache' = Iget(i) /\ FullIf(IgetSlot(i) = 0)
           /\ Then(p, << <<"iput", IgetSlot(i)>> >>) /\ UNCHANGED dinode
  <2>1. i \in Inums
    BY <1>6, <1>9, DirlookupIs DEF i, k
  <2>2. DiskTyped' /\ TypesKept
    BY <1>0, <1>9, DiskStays
  <2>3. CacheSound' /\ LocksKept(Procs)
    BY <1>0, <1>9, <2>1, <2>2, IgetSound DEF FullIf
  <2>. DEFINE a == <<"iput", IgetSlot(i)>>
  <2>4. Few(<<a>>) /\ Len(<<a>>) = 1 /\ <<a>>[1] = a
    BY Ops1
  <2>5. Then(p, <<a>>) /\ a[1] = "iput"
    BY <1>9
  <2>. HIDE DEF a
  <2>. QED
    BY <1>0, <1>1, <1>2, <2>2, <2>3, <2>4, <2>5, WalkOn
<1>. QED
  BY <1>7, <1>8, <1>9

LEMMA NamexSound ==
    ASSUME Core, Core', Inodes, NEW p \in Procs, Namex(p), UNCHANGED fileVars, panicked' = "no"
    PROVE  Inodes'
<1>0. Types /\ SlotRefs /\ Alive /\ At(p, "namex") /\ FilesStay /\ UNCHANGED <<reg, dinode>>
      /\ CacheSound /\ DiskTyped
  BY DEF Core, Namex, FilesStay, fileVars, Inodes, CacheSound
<1>1. todo[p] # << >> /\ todo[p][1][1] = "namex"
  BY <1>0, AtFacts
<1>2. RegMove(p)
  BY <1>0, RegSame
<1>3. cwd[p] \in Slots /\ ~Leaving(p)
  <2>1. Mains(todo[p]) > 0 /\ (Leaving(p) => Mains(todo[p]) = 0)
    BY <1>0, <1>1, Disjoint, HeadIs
  <2>2. p \in alive /\ ~Leaving(p)
    BY <1>0, <1>1, <2>1 DEF Alive
  <2>. QED
    BY <1>0, <2>2 DEF Alive
<1>4. DiskTyped' /\ TypesKept
  BY <1>0, DiskStays
<1>5. ASSUME NEW a, Then(p, <<a>>), a[1] = "walk", CacheSound', LocksKept(Procs)
      PROVE  Inodes'
  <2>1. Few(<<a>>) /\ Len(<<a>>) = 1 /\ <<a>>[1] = a
    BY Ops1
  <2>. QED
    BY <1>0, <1>1, <1>2, <1>4, <1>5, <2>1, Disjoint, WalkOn
<1>6. CASE icache' = Iget(ROOTINO) /\ FullIf(IgetSlot(ROOTINO) = 0)
           /\ Then(p, << <<"walk", IgetSlot(ROOTINO), Tail(Arg(p, 1)), Arg(p, 2)>> >>)
  <2>1. ROOTINO \in Inums
    BY InodeAssumption DEF ROOTINO, Inums
  <2>2. CacheSound' /\ LocksKept(Procs)
    BY <1>0, <1>4, <1>6, <2>1, IgetSound DEF FullIf
  <2>. QED
    BY <1>5, <1>6, <2>2
<1>7. CASE icache' = Idup(cwd[p]) /\ Then(p, << <<"walk", cwd[p], Arg(p, 1), Arg(p, 2)>> >>)
  <2>1. icache[cwd[p]].ref > 0
    BY <1>0, <1>3, RefPositive
  <2>2. CacheSound' /\ LocksKept(Procs)
    BY <1>0, <1>3, <1>4, <1>7, <2>1, IdupSound
  <2>. QED
    BY <1>5, <1>7, <2>2
<1>. QED
  BY <1>6, <1>7 DEF Namex

LEMMA WalkSound ==
    ASSUME Core, Core', Inodes, NEW p \in Procs, Walk(p), UNCHANGED fileVars
    PROVE  Inodes'
<1>0. Types /\ SlotRefs /\ At(p, "walk") /\ FilesStay /\ UNCHANGED <<icache, dinode>>
      /\ CacheSound /\ DiskTyped
  BY DEF Core, Walk, FilesStay, fileVars, Inodes, CacheSound
<1>1. todo[p] # << >> /\ todo[p][1][1] = "walk"
  BY <1>0, AtFacts
<1>2. DiskTyped' /\ TypesKept
  BY <1>0, DiskStays
<1>3. CacheSound' /\ LocksKept(Procs)
  BY <1>0, <1>2, CacheSoundStays
<1>4. RegMove(p) /\ reg'[p].ip = reg[p].ip /\ reg'[p].dp = reg[p].dp
  BY <1>0 DEF Walk, Return, Types, RegMove, NoRegs
<1>. DEFINE s == Arg(p, 1)
            a == <<"ilock", s>>
            b == <<"step", s, Arg(p, 2), Arg(p, 3)>>
            c == <<"iput", s>>
<1>5. Then(p, <<a, b>>) \/ Then(p, <<c>>) \/ Then(p, << >>)
  BY DEF Walk, Return
<1>6. /\ Few(<<a, b>>) /\ Len(<<a, b>>) = 2 /\ <<a, b>>[1] = a /\ <<a, b>>[2] = b
      /\ Few(<<c>>) /\ Len(<<c>>) = 1 /\ <<c>>[1] = c /\ Few(<< >>) /\ Len(<< >>) = 0
  BY Ops0, Ops1, Ops2
<1>7. a[1] = "ilock" /\ b[1] = "step" /\ c[1] = "iput"
  OBVIOUS
<1>. HIDE DEF a, b, c
<1>8. CASE Then(p, <<a, b>>)
  BY <1>0, <1>1, <1>2, <1>3, <1>4, <1>6, <1>7, <1>8, Disjoint, WalkOn
<1>9. CASE Then(p, <<c>>)
  BY <1>0, <1>1, <1>2, <1>3, <1>4, <1>6, <1>7, <1>9, Disjoint, WalkOn
<1>10. CASE Then(p, << >>)
  BY <1>0, <1>1, <1>2, <1>3, <1>4, <1>6, <1>10, Disjoint, WalkOn
<1>. QED
  BY <1>5, <1>8, <1>9, <1>10

LEMMA StepSound ==
    ASSUME Core, Core', Inodes, NEW p \in Procs, Step(p), UNCHANGED fileVars, panicked' = "no"
    PROVE  Inodes'
<1>0. Types /\ SlotRefs /\ At(p, "step") /\ FilesStay /\ UNCHANGED dinode
      /\ CacheSound /\ CacheTyped /\ DiskTyped
  BY DEF Core, Step, FilesStay, fileVars, Inodes, CacheSound
<1>1. todo[p] # << >> /\ todo[p][1][1] = "step" /\ Arg(p, 1) = todo[p][1][2] /\ 1 \in 1..Len(todo[p])
  BY <1>0, AtFacts
<1>2. DiskTyped' /\ TypesKept
  BY <1>0, DiskStays
<1>s. PICK s : s = todo[p][1][2]
  OBVIOUS
<1>3. s \in Slots /\ SlotOf(todo[p][1]) = s
  BY <1>0, <1>1, <1>s, Disjoint, HeadIs DEF SlotOf
<1>4. RegMove(p) /\ reg'[p].ip = reg[p].ip /\ reg'[p].dp = reg[p].dp
  BY <1>0 DEF Step, Return, Types, RegMove, NoRegs
<1>5. icache[s].inum \in Inums
  BY <1>0, <1>1, <1>3, UserCounted DEF CacheTyped
<1>. DEFINE d == dinode[icache[s].inum]
            k == Dirlookup(d, Arg(p, 2)[1])
            i == d.ents[k].inum
            a == <<"iunlock", s>>
            b == <<"iput", s>>
            c == <<"walk", IgetSlot(i), Tail(Arg(p, 2)), Arg(p, 3)>>
<1>6. InodeTyped(d)
  BY <1>0, <1>5 DEF DiskTyped
<1>7. Iunlockput(s) = <<a, b>> /\ \A x : Iunlockput(s) \o <<x>> = <<a, b, x>>
  BY PutOps DEF Iunlockput
<1>8. \/ Then(p, <<a, b>>) /\ UNCHANGED icache
      \/ Then(p, <<a>>) /\ UNCHANGED icache
      \/ k # 0 /\ icache' = Iget(i) /\ FullIf(IgetSlot(i) = 0) /\ Then(p, <<a, b, c>>)
  <2>1. Arg(p, 1) = s /\ Inum(s) = icache[s].inum
    BY <1>1, <1>s DEF Inum
  <2>2. \/ Then(p, Iunlockput(s)) /\ UNCHANGED icache
        \/ Then(p, <<a>>) /\ UNCHANGED icache
        \/ k # 0 /\ icache' = Iget(i) /\ FullIf(IgetSlot(i) = 0) /\ Then(p, Iunlockput(s) \o <<c>>)
    BY <2>1 DEF Step, Return
  <2>. HIDE DEF a, b, c, k, i
  <2>. QED
    BY <1>7, <2>2
<1>9. /\ Few(<<a, b>>) /\ Len(<<a, b>>) = 2 /\ <<a, b>>[1] = a /\ <<a, b>>[2] = b
      /\ Few(<<a>>) /\ Len(<<a>>) = 1 /\ <<a>>[1] = a
      /\ Few(<<a, b, c>>) /\ Len(<<a, b, c>>) = 3 /\ <<a, b, c>>[1] = a /\ <<a, b, c>>[2] = b
      /\ <<a, b, c>>[3] = c
  BY Ops1, Ops2, Ops3
<1>10. a[1] = "iunlock" /\ b[1] = "iput" /\ c[1] = "walk"
  OBVIOUS
<1>. HIDE DEF a, b, c, d, k, i
<1>11. ASSUME UNCHANGED icache
       PROVE  CacheSound' /\ LocksKept(Procs)
  BY <1>0, <1>2, <1>11, CacheSoundStays
<1>12. CASE Then(p, <<a, b>>) /\ UNCHANGED icache
  <2>1. \A j \in 1..Len(<<a, b>>) : <<a, b>>[j][1] \in {"iunlock", "iput"}
    BY <1>9, <1>10
  <2>. QED
    BY <1>0, <1>1, <1>2, <1>4, <1>9, <1>11, <1>12, <2>1, Disjoint, WalkOn
<1>13. CASE Then(p, <<a>>) /\ UNCHANGED icache
  BY <1>0, <1>1, <1>2, <1>4, <1>9, <1>10, <1>11, <1>13, Disjoint, WalkOn
<1>14. CASE k # 0 /\ icache' = Iget(i) /\ FullIf(IgetSlot(i) = 0) /\ Then(p, <<a, b, c>>)
  <2>1. i \in Inums
    BY <1>6, <1>14, DirlookupIs DEF i, k
  <2>2. CacheSound' /\ LocksKept(Procs)
    BY <1>0, <1>2, <1>14, <2>1, IgetSound DEF FullIf
  <2>3. \A j \in 1..Len(<<a, b, c>>) : <<a, b, c>>[j][1] \in {"iunlock", "iput", "walk"}
    BY <1>9, <1>10
  <2>. QED
    BY <1>0, <1>1, <1>2, <1>4, <1>9, <1>14, <2>2, <2>3, Disjoint, WalkOn
<1>. QED
  BY <1>8, <1>12, <1>13, <1>14

LEMMA InodeSound ==
    ASSUME Core, Core', Inodes, NEW p \in Procs, InodeStep(p), panicked' = "no"
    PROVE  Inodes'
<1>1. UNCHANGED fileVars
  BY DEF InodeStep
<1>. QED
  BY <1>1, BeginOpSound, EndOpSound, IlockSound, IunlockSound, IputLockSound, IputFreeSound,
     IputDropSound, DirlinkSound, NamexSound, WalkSound, StepSound DEF InodeStep, InodeNext

-----------------------------------------------------------------------------
(* The sections of the calls.  Most of them push nothing that rests on a   *)
(* lock or opens something.                                                *)
Calm(x) == x[1] \notin Watched \cup {"chdir3", "open4"}
CalmSeq(ops) == Few(ops) /\ \A k \in 1..Len(ops) : Calm(ops[k])

LEMMA CalmMany ==
    /\ CalmSeq(<< >>)
    /\ \A a : Calm(a) => CalmSeq(<<a>>)
    /\ \A a, b : Calm(a) /\ Calm(b) => CalmSeq(<<a, b>>)
    /\ \A a, b, c : Calm(a) /\ Calm(b) /\ Calm(c) => CalmSeq(<<a, b, c>>)
    /\ \A a, b, c, d : Calm(a) /\ Calm(b) /\ Calm(c) /\ Calm(d) => CalmSeq(<<a, b, c, d>>)
    /\ \A a, b, c, d, e : Calm(a) /\ Calm(b) /\ Calm(c) /\ Calm(d) /\ Calm(e)
                          => CalmSeq(<<a, b, c, d, e>>)
<1>0. CalmSeq(<< >>)
  BY Ops0 DEF CalmSeq
<1>1. ASSUME NEW a, Calm(a)
      PROVE  CalmSeq(<<a>>)
  <2>1. \A k \in 1..1 : k = 1
    OBVIOUS
  <2>. QED
    BY <1>1, <2>1, Ops1 DEF CalmSeq
<1>2. ASSUME NEW a, NEW b, Calm(a), Calm(b)
      PROVE  CalmSeq(<<a, b>>)
  <2>1. \A k \in 1..2 : k = 1 \/ k = 2
    OBVIOUS
  <2>. QED
    BY <1>2, <2>1, Ops2 DEF CalmSeq
<1>3. ASSUME NEW a, NEW b, NEW c, Calm(a), Calm(b), Calm(c)
      PROVE  CalmSeq(<<a, b, c>>)
  <2>1. \A k \in 1..3 : k = 1 \/ k = 2 \/ k = 3
    OBVIOUS
  <2>. QED
    BY <1>3, <2>1, Ops3 DEF CalmSeq
<1>4. ASSUME NEW a, NEW b, NEW c, NEW d, Calm(a), Calm(b), Calm(c), Calm(d)
      PROVE  CalmSeq(<<a, b, c, d>>)
  <2>1. \A k \in 1..4 : k = 1 \/ k = 2 \/ k = 3 \/ k = 4
    OBVIOUS
  <2>. QED
    BY <1>4, <2>1, Ops4 DEF CalmSeq
<1>5. ASSUME NEW a, NEW b, NEW c, NEW d, NEW e, Calm(a), Calm(b), Calm(c), Calm(d), Calm(e)
      PROVE  CalmSeq(<<a, b, c, d, e>>)
  <2>1. \A k \in 1..5 : k = 1 \/ k = 2 \/ k = 3 \/ k = 4 \/ k = 5
    OBVIOUS
  <2>. QED
    BY <1>5, <2>1, Ops5 DEF CalmSeq
<1>. QED
  BY <1>0, <1>1, <1>2, <1>3, <1>4, <1>5

LEMMA CalmAre ==
    /\ \A x : x[1] \in {"begin_op", "end_op", "ilock", "iunlock", "iput", "idrop", "namex", "walk",
                        "step", "fclose", "pipe1", "pipe2", "exit1", "exit2", "create1", "link1",
                        "link2", "link3", "link4", "link5", "unlink1", "unlink2", "unlink3",
                        "unlink4", "mk1", "chdir1"} => Calm(x)
  BY DEF Calm, Watched

LEMMA CalmCalls ==
    ASSUME NEW s, NEW t, NEW x
    PROVE  /\ CalmSeq(<< >>) /\ CalmSeq(<< <<"end_op">> >>)
           /\ CalmSeq(Iunlockput(s)) /\ CalmSeq(Append(Iunlockput(s), <<"end_op">>))
           /\ CalmSeq(<< <<"ilock", s>>, <<"link2", x>> >>)
           /\ CalmSeq(<< <<"ilock", s>>, <<"link5">> >>)
           /\ CalmSeq(<< <<"ilock", s>>, <<"unlink2">> >>)
           /\ CalmSeq(<< <<"ilock", s>>, <<"unlink3", x>> >>)
           /\ CalmSeq(<< <<"iunlock", s>>, <<"namex", x, TRUE>>, <<"link3">> >>)
           /\ CalmSeq(Iunlockput(s) \o << <<"iput", t>>, <<"end_op">> >>)
           /\ CalmSeq(Iunlockput(s) \o << <<"ilock", t>>, <<"link5">> >>)
           /\ CalmSeq(Iunlockput(s) \o Append(Iunlockput(t), <<"end_op">>))
           /\ CalmSeq(Append(Iunlockput(s), <<"unlink4">>))
           /\ CalmSeq(<< >> \o << <<"end_op">> >>)
           /\ CalmSeq(Iunlockput(s) \o << <<"end_op">> >>)
<1>. DEFINE us == <<"iunlock", s>>
            ps == <<"iput", s>>
            ut == <<"iunlock", t>>
            pt == <<"iput", t>>
            ls == <<"ilock", s>>
            lt == <<"ilock", t>>
            e == <<"end_op">>
            l2 == <<"link2", x>>
            l3 == <<"link3">>
            l5 == <<"link5">>
            u2 == <<"unlink2">>
            u3 == <<"unlink3", x>>
            u4 == <<"unlink4">>
            nm == <<"namex", x, TRUE>>
<1>1. /\ Calm(us) /\ Calm(ps) /\ Calm(ut) /\ Calm(pt) /\ Calm(ls) /\ Calm(lt) /\ Calm(e) /\ Calm(l2)
      /\ Calm(l3) /\ Calm(l5) /\ Calm(u2) /\ Calm(u3) /\ Calm(u4) /\ Calm(nm)
  BY CalmAre
<1>2. /\ Iunlockput(s) = <<us, ps>> /\ Append(Iunlockput(s), e) = <<us, ps, e>>
      /\ Append(Iunlockput(s), u4) = <<us, ps, u4>>
      /\ Iunlockput(s) \o <<pt, e>> = <<us, ps, pt, e>>
      /\ Iunlockput(s) \o <<lt, l5>> = <<us, ps, lt, l5>>
      /\ Iunlockput(s) \o Append(Iunlockput(t), e) = <<us, ps, ut, pt, e>>
      /\ << >> \o <<e>> = <<e>> /\ Iunlockput(s) \o <<e>> = <<us, ps, e>>
  <2>1. Iunlockput(s) = <<us, ps>>
    BY DEF Iunlockput
  <2>. HIDE DEF e, u4, lt, l5
  <2>2. /\ Append(Iunlockput(s), e) = <<us, ps, e>> /\ Append(Iunlockput(s), u4) = <<us, ps, u4>>
        /\ << >> \o <<e>> = <<e>> /\ Iunlockput(s) \o <<e>> = <<us, ps, e>>
    BY PutOps
  <2>3. /\ Iunlockput(s) \o <<pt, e>> = <<us, ps, pt, e>>
        /\ Iunlockput(s) \o <<lt, l5>> = <<us, ps, lt, l5>>
    BY PutTwo
  <2>4. Iunlockput(s) \o Append(Iunlockput(t), e) = <<us, ps, ut, pt, e>>
    BY PutBoth
  <2>. QED
    BY <2>1, <2>2, <2>3, <2>4
<1>. HIDE DEF us, ps, ut, pt, ls, lt, e, l2, l3, l5, u2, u3, u4, nm
<1>3. /\ CalmSeq(<< >>) /\ CalmSeq(<<e>>) /\ CalmSeq(<<us, ps>>) /\ CalmSeq(<<us, ps, e>>)
      /\ CalmSeq(<<ls, l2>>) /\ CalmSeq(<<ls, l5>>) /\ CalmSeq(<<ls, u2>>) /\ CalmSeq(<<ls, u3>>)
      /\ CalmSeq(<<us, nm, l3>>) /\ CalmSeq(<<us, ps, pt, e>>) /\ CalmSeq(<<us, ps, lt, l5>>)
      /\ CalmSeq(<<us, ps, ut, pt, e>>) /\ CalmSeq(<<us, ps, u4>>)
  BY <1>1, CalmMany
<1>4. /\ CalmSeq(<< >>) /\ CalmSeq(<<e>>)
      /\ CalmSeq(Iunlockput(s)) /\ CalmSeq(Append(Iunlockput(s), e))
      /\ CalmSeq(<<ls, l2>>) /\ CalmSeq(<<ls, l5>>) /\ CalmSeq(<<ls, u2>>) /\ CalmSeq(<<ls, u3>>)
      /\ CalmSeq(<<us, nm, l3>>)
      /\ CalmSeq(Iunlockput(s) \o <<pt, e>>) /\ CalmSeq(Iunlockput(s) \o <<lt, l5>>)
      /\ CalmSeq(Iunlockput(s) \o Append(Iunlockput(t), e))
      /\ CalmSeq(Append(Iunlockput(s), u4)) /\ CalmSeq(<< >> \o <<e>>)
      /\ CalmSeq(Iunlockput(s) \o <<e>>)
  BY <1>2, <1>3
<1>. QED
  BY <1>4 DEF us, ps, ut, pt, ls, lt, e, l2, l3, l5, u2, u3, u4, nm

(* What a section leaves that frees nothing and gives up no lock.          *)
Undisturbed == CacheSound' /\ LocksKept(Procs) /\ DiskTyped' /\ TypesKept

LEMMA Unmoved ==
    ASSUME Core, Inodes, UNCHANGED <<dinode, icache>>
    PROVE  Undisturbed
<1>1. Types /\ DiskTyped /\ CacheSound
  BY DEF Core, Inodes, CacheSound
<1>. QED
  BY <1>1, DiskStays, CacheSoundStays DEF Undisturbed

LEMMA SectionSound ==
    ASSUME Core, Core', Inodes, NEW p \in Procs, NEW ops, After(p, ops), UNCHANGED cwd,
           todo[p][1][1] \notin {"chdir3", "exit2"},
           \A f \in Files : ftable'[f].ip = ftable[f].ip \/ ftable'[f].ip = 0,
           \A k \in 1..Len(ops) : ops[k][1] \in {"chdir3", "open4"} => Taking(p, SlotOf(ops[k])),
           \A k \in 1..Len(ops) : ops[k][1] = "chdir3" => icache[SlotOf(ops[k])].type = "dir",
           \A q \in Procs : q # p => reg'[q] = reg[q],
           Undisturbed, Doing(p)'
    PROVE  Inodes'
<1>1. Types
  BY DEF Core
<1>2. UsersFrom(p)
  BY <1>1, UsersStay
<1>3. LocksKept(Procs \ {p})
  BY DEF Undisturbed, LocksKept
<1>4. \A q \in Procs : q # p => todo'[q] = todo[q]
  BY DEF After
<1>. QED
  BY <1>2, <1>3, <1>4, TypesKeptIs, InodesKeep DEF Undisturbed

(* No section watched is to come after a calm one that comes last, or      *)
(* that rests on no local variable.                                        *)
LEMMA CalmSound ==
    ASSUME Core, Core', Inodes, NEW p \in Procs, NEW ops, CalmSeq(ops), Then(p, ops), todo[p] # << >>,
           Mains(todo[p]) = 0 \/ Len(todo[p]) = 1, UNCHANGED cwd,
           todo[p][1][1] \notin {"chdir3", "exit2"},
           \A f \in Files : ftable'[f].ip = ftable[f].ip \/ ftable'[f].ip = 0,
           \A q \in Procs : q # p => reg'[q] = reg[q], Undisturbed
    PROVE  Inodes'
<1>0. Types /\ Shape(todo[p], reg[p]) /\ Types'
  BY DEF Core, Shapes
<1>1. After(p, ops)
  BY <1>0, ThenAfter DEF CalmSeq, Few
<1>2. \A j \in 2..Len(todo[p]) : todo[p][j][1] \notin Watched
  <2>. SUFFICES ASSUME NEW j \in 2..Len(todo[p])
                PROVE  todo[p][j][1] \notin Watched
    OBVIOUS
  <2>0. Len(todo[p]) \in Nat
    BY <1>1, AfterIs
  <2>1. j \in 1..Len(todo[p]) /\ j # 1 /\ Len(todo[p]) # 1
    <3>1. \A n \in Nat : \A i \in 2..n : i \in 1..n /\ i # 1 /\ n # 1
      OBVIOUS
    <3>. QED
      BY <2>0, <3>1
  <2>2. Outside(todo[p][j])
    BY <1>0, <2>1 DEF Shape
  <2>3. todo[p][j][1] # "ifree"
    BY <2>1 DEF Inodes, Doing, Freeing
  <2>. QED
    BY <2>2, <2>3 DEF Outside, Watched, InodeOps
<1>3. \A k \in 1..Len(todo'[p]) : todo'[p][k][1] \notin Watched
  <2>. SUFFICES ASSUME NEW k \in 1..Len(todo'[p])
                PROVE  todo'[p][k][1] \notin Watched
    OBVIOUS
  <2>1. \/ k \in 1..Len(ops) /\ todo'[p][k] = ops[k]
        \/ \E j \in 2..Len(todo[p]) : todo[p][j] = todo'[p][k]
    BY <1>1, Along
  <2>. QED
    BY <1>2, <2>1 DEF CalmSeq, Calm
<1>4. Doing(p)'
  BY <1>0, <1>3, PlainDo
<1>5. \A k \in 1..Len(ops) : ops[k][1] \notin {"chdir3", "open4"}
  BY DEF CalmSeq, Calm
<1>. QED
  BY <1>1, <1>4, <1>5, SectionSound

(* The disk changed step by step: no inode is freed or made.               *)
Kin(disk) ==
    DOMAIN disk = Inums
    /\ \A i \in Inums : InodeTyped(disk[i]) /\ disk[i].type = dinode[i].type

LEMMA KinIs ==
    ASSUME DiskTyped
    PROVE  Kin(dinode)
  BY DEF Kin, DiskTyped

LEMMA KinDisk ==
    ASSUME DiskTyped, NEW disk, Kin(disk), dinode' = disk
    PROVE  DiskTyped' /\ TypesKept
  BY DiskChanged DEF Kin

LEMMA KinSet ==
    ASSUME NEW disk, Kin(disk), NEW i, NEW d, i \in Inums => InodeTyped(d) /\ d.type = dinode[i].type
    PROVE  Kin([disk EXCEPT ![i] = d])
  BY DEF Kin

LEMMA KinLink ==
    ASSUME NEW disk, Kin(disk), NEW s, NEW e
    PROVE  Kin(AddLink(disk, s, e))
<1>1. PICK i : i = Inum(s)
  OBVIOUS
<1>2. PICK d : d = [disk[i] EXCEPT !.nlink = @ + e]
  OBVIOUS
<1>3. AddLink(disk, s, e) = [disk EXCEPT ![i] = d]
  BY <1>1, <1>2 DEF AddLink
<1>4. i \in Inums => InodeTyped(d) /\ d.type = dinode[i].type
  BY <1>2 DEF Kin, InodeTyped
<1>5. Kin([disk EXCEPT ![i] = d])
  BY <1>4, KinSet
<1>. QED
  BY <1>3, <1>5

LEMMA KinEntry ==
    ASSUME NEW disk, Kin(disk), NEW i, NEW name, NEW j \in Inums
    PROVE  Kin([disk EXCEPT ![i] = WithEntry(@, name, j)])
<1>1. PICK d : d = WithEntry(disk[i], name, j)
  OBVIOUS
<1>2. i \in Inums => InodeTyped(d) /\ d.type = dinode[i].type
  BY <1>1, WithEntryTyped DEF Kin
<1>3. Kin([disk EXCEPT ![i] = d])
  BY <1>2, KinSet
<1>. QED
  BY <1>1, <1>3

LEMMA KinClear ==
    ASSUME NEW disk, Kin(disk), NEW i, NEW k
    PROVE  Kin([disk EXCEPT ![i] = [@ EXCEPT !.ents[k] = [name |-> "", inum |-> 0]]])
<1>1. PICK e : e = [name |-> "", inum |-> 0]
  OBVIOUS
<1>2. PICK d : d = [disk[i] EXCEPT !.ents[k] = e]
  OBVIOUS
<1>3. [disk EXCEPT ![i] = [@ EXCEPT !.ents[k] = e]] = [disk EXCEPT ![i] = d]
  BY <1>2
<1>4. i \in Inums => InodeTyped(d) /\ d.type = dinode[i].type
  <2>. SUFFICES ASSUME i \in Inums
                PROVE  InodeTyped(d) /\ d.type = dinode[i].type
    OBVIOUS
  <2>1. InodeTyped(disk[i]) /\ disk[i].type = dinode[i].type
    BY DEF Kin
  <2>2. EntsTyped([disk[i].ents EXCEPT ![k] = e])
    BY <1>1, <2>1, SetTyped DEF InodeTyped
  <2>3. DOMAIN d = DOMAIN disk[i] /\ d.type = disk[i].type
        /\ d.ents = [disk[i].ents EXCEPT ![k] = e]
    BY <1>2, <2>1 DEF InodeTyped
  <2>. QED
    BY <2>1, <2>2, <2>3 DEF InodeTyped
<1>5. Kin([disk EXCEPT ![i] = d])
  BY <1>4, KinSet
<1>6. Kin([disk EXCEPT ![i] = [@ EXCEPT !.ents[k] = e]])
  BY <1>3, <1>5, Zenon
<1>. QED
  BY <1>1, <1>6, Zenon

(* A change of nlink.                                                      *)
LEMMA LinkUndisturbed ==
    ASSUME Core, Inodes, NEW s \in Slots, NEW e, icache' = AddLinkMem(icache, s, e),
           DiskTyped', TypesKept
    PROVE  Undisturbed
<1>1. Types /\ CacheSound
  BY DEF Core, Inodes, CacheSound
<1>2. DOMAIN icache = Slots
  BY <1>1 DEF Types
<1>. QED
  BY <1>1, <1>2, AddLinkSound DEF Undisturbed

(* Calls that go on calmly.                                                *)
LEMMA CallSound ==
    ASSUME Core, Core', Inodes, NEW p \in Procs, NEW op \in MainOps \ CreateOps, At(p, op),
           NEW ops, CalmSeq(ops), Then(p, ops), FilesStay, RegMove(p), Undisturbed
    PROVE  Inodes'
<1>1. todo[p] # << >> /\ todo[p][1][1] = op /\ Len(todo[p]) = 1
  BY MainAt
<1>2. op \notin {"chdir3", "exit2"}
  BY DEF MainOps, CreateOps, UsesR, UsesIp, UsesDp
<1>3. UNCHANGED cwd /\ \A f \in Files : ftable'[f].ip = ftable[f].ip
  BY DEF FilesStay
<1>. QED
  BY <1>1, <1>2, <1>3, CalmSound DEF RegMove

LEMMA Link1Sound ==
    ASSUME Core, Core', Inodes, NEW p \in Procs, Link1(p)
    PROVE  Inodes'
<1>0. At(p, "link1") /\ Move(p, "r", "ip") /\ "link1" \in MainOps \ CreateOps
  BY CallOps DEF Link1
<1>1. RegMove(p)
  BY <1>0, MainAt, MoveIs
<1>2. FilesStay /\ Undisturbed
  BY Unmoved DEF Link1, FilesStay, fileVars
<1>3. Then(p, << <<"end_op">> >>)
      \/ Then(p, << <<"ilock", reg[p].r>>, <<"link2", Arg(p, 1)>> >>)
  BY DEF Link1
<1>4. ASSUME NEW ops, CalmSeq(ops), Then(p, ops)
      PROVE  Inodes'
  BY <1>0, <1>1, <1>2, <1>4, CallSound
<1>. QED
  BY <1>3, <1>4, CalmCalls

LEMMA Link2Sound ==
    ASSUME Core, Core', Inodes, NEW p \in Procs, Link2(p)
    PROVE  Inodes'
<1>0. At(p, "link2") /\ "link2" \in MainOps \ CreateOps
  BY CallOps DEF Link2
<1>1. Types /\ Holds("link2", reg[p]) /\ DiskTyped
  BY <1>0, MainAt DEF Inodes
<1>2. reg[p].ip \in Slots
  BY <1>1 DEF Holds, UsesIp
<1>3. FilesStay /\ RegMove(p)
  BY <1>1, ForgetIs, RegSame DEF Link2, FilesStay, fileVars
<1>4. Undisturbed
  <2>1. CASE UNCHANGED <<dinode, icache>>
    BY <2>1, Unmoved
  <2>2. CASE dinode' = AddLink(dinode, reg[p].ip, 1) /\ icache' = AddLinkMem(icache, reg[p].ip, 1)
    <3>1. DiskTyped' /\ TypesKept
      BY <1>1, <2>2, KinIs, KinLink, KinDisk
    <3>. QED
      BY <1>2, <2>2, <3>1, LinkUndisturbed
  <2>. QED
    BY <2>1, <2>2 DEF Link2
<1>5. Then(p, Append(Iunlockput(reg[p].ip), <<"end_op">>))
      \/ Then(p, << <<"iunlock", reg[p].ip>>, <<"namex", Arg(p, 1), TRUE>>, <<"link3">> >>)
  BY DEF Link2
<1>6. ASSUME NEW ops, CalmSeq(ops), Then(p, ops)
      PROVE  Inodes'
  BY <1>0, <1>3, <1>4, <1>6, CallSound
<1>. QED
  BY <1>5, <1>6, CalmCalls

LEMMA Link4Sound ==
    ASSUME Core, Core', Inodes, NEW p \in Procs, Link4(p)
    PROVE  Inodes'
<1>0. At(p, "link4") /\ "link4" \in MainOps \ CreateOps
  BY CallOps DEF Link4
<1>1. RegMove(p)
  BY <1>0, MainAt, ForgetIs DEF Link4
<1>2. FilesStay /\ Undisturbed
  BY Unmoved DEF Link4, FilesStay, fileVars
<1>3. Then(p, Iunlockput(reg[p].dp) \o << <<"iput", reg[p].ip>>, <<"end_op">> >>)
      \/ Then(p, Iunlockput(reg[p].dp) \o << <<"ilock", reg[p].ip>>, <<"link5">> >>)
  BY DEF Link4, LinkBad
<1>4. ASSUME NEW ops, CalmSeq(ops), Then(p, ops)
      PROVE  Inodes'
  BY <1>0, <1>1, <1>2, <1>4, CallSound
<1>. QED
  BY <1>3, <1>4, CalmCalls

(* link() and unlink() take a link back.                                   *)
LEMMA UnlinkSound ==
    ASSUME Core, Core', Inodes, NEW p \in Procs, NEW op \in {"link5", "unlink4"}, At(p, op),
           dinode' = AddLink(dinode, reg[p].ip, -1), icache' = AddLinkMem(icache, reg[p].ip, -1),
           Then(p, Append(Iunlockput(reg[p].ip), <<"end_op">>)), Forget(p, {"ip"}), FilesStay
    PROVE  Inodes'
<1>0. op \in MainOps \ CreateOps
  BY CallOps
<1>1. Types /\ Holds(op, reg[p]) /\ DiskTyped
  BY <1>0, MainAt DEF Inodes
<1>2. reg[p].ip \in Slots /\ RegMove(p)
  BY <1>1, ForgetIs DEF Holds, UsesIp
<1>3. DiskTyped' /\ TypesKept
  BY <1>1, KinIs, KinLink, KinDisk
<1>4. Undisturbed
  BY <1>2, <1>3, LinkUndisturbed
<1>. QED
  BY <1>0, <1>2, <1>4, CalmCalls, CallSound

LEMMA Link5Sound ==
    ASSUME Core, Core', Inodes, NEW p \in Procs, Link5(p)
    PROVE  Inodes'
  BY UnlinkSound DEF Link5, FilesStay, fileVars

LEMMA Unlink4Sound ==
    ASSUME Core, Core', Inodes, NEW p \in Procs, Unlink4(p)
    PROVE  Inodes'
  BY UnlinkSound DEF Unlink4, FilesStay, fileVars

LEMMA Unlink1Sound ==
    ASSUME Core, Core', Inodes, NEW p \in Procs, Unlink1(p)
    PROVE  Inodes'
<1>0. At(p, "unlink1") /\ Move(p, "r", "dp") /\ "unlink1" \in MainOps \ CreateOps
  BY CallOps DEF Unlink1
<1>1. RegMove(p)
  BY <1>0, MainAt, MoveIs
<1>2. FilesStay /\ Undisturbed
  BY Unmoved DEF Unlink1, FilesStay, fileVars
<1>3. Then(p, << <<"end_op">> >>) \/ Then(p, << <<"ilock", reg[p].r>>, <<"unlink2">> >>)
  BY DEF Unlink1
<1>4. ASSUME NEW ops, CalmSeq(ops), Then(p, ops)
      PROVE  Inodes'
  BY <1>0, <1>1, <1>2, <1>4, CallSound
<1>. QED
  BY <1>3, <1>4, CalmCalls

(* iget() of an inode that a directory names or create() allocates.        *)
LEMMA FoundSound ==
    ASSUME Core, Inodes, NEW i \in Inums, IgetSlot(i) # 0, icache' = Iget(i), DiskTyped', TypesKept
    PROVE  /\ Undisturbed /\ IgetSlot(i) \in Slots
           /\ icache[IgetSlot(i)].ref > 0 => icache[IgetSlot(i)].inum = i
<1>1. Types /\ SlotRefs /\ CacheSound
  BY DEF Core, Inodes, CacheSound
<1>. QED
  BY <1>1, IgetSound DEF Undisturbed

(* The directory or the inode in a local variable has a number.            *)
LEMMA InumIs ==
    ASSUME Core, Inodes, NEW p \in Procs, NEW s \in Slots,
           reg[p].r = s \/ reg[p].ip = s \/ reg[p].dp = s
    PROVE  icache[s].ref > 0 /\ Inum(s) \in Inums
<1>1. icache[s].ref > 0
  BY RefPositive DEF Core
<1>. QED
  BY <1>1 DEF Inum, Inodes, CacheTyped

LEMMA Unlink2Sound ==
    ASSUME Core, Core', Inodes, NEW p \in Procs, Unlink2(p), panicked' = "no"
    PROVE  Inodes'
<1>0. At(p, "unlink2") /\ "unlink2" \in MainOps \ CreateOps
  BY CallOps DEF Unlink2
<1>1. Types /\ Holds("unlink2", reg[p]) /\ DiskTyped
  BY <1>0, MainAt DEF Inodes
<1>2. FilesStay /\ UNCHANGED dinode
  BY DEF Unlink2, FilesStay, fileVars
<1>. DEFINE dp == reg[p].dp
            d == dinode[Inum(dp)]
            k == Dirlookup(d, reg[p].name)
            i == d.ents[k].inum
            s == IgetSlot(i)
<1>3. dp \in Slots /\ Inum(dp) \in Inums
  BY <1>1, InumIs DEF Holds, UsesDp
<1>4. CASE Then(p, Append(Iunlockput(dp), <<"end_op">>)) /\ Forget(p, {"dp"}) /\ UNCHANGED icache
  <2>1. RegMove(p) /\ Undisturbed
    BY <1>1, <1>2, <1>4, ForgetIs, Unmoved
  <2>. QED
    BY <1>0, <1>2, <1>4, <2>1, CalmCalls, CallSound
<1>5. CASE /\ k # 0 /\ icache' = Iget(i) /\ FullIf(s = 0) /\ reg' = [reg EXCEPT ![p].ip = s]
           /\ Then(p, << <<"ilock", s>>, <<"unlink3", k>> >>)
  <2>1. InodeTyped(d)
    BY <1>1, <1>3 DEF DiskTyped
  <2>2. RegMove(p)
    BY <1>1, <1>5 DEF Types, RegMove, NoRegs
  <2>. HIDE DEF d
  <2>3. i \in Inums
    BY <1>5, <2>1, DirlookupIs
  <2>4. DiskTyped' /\ TypesKept
    BY <1>1, <1>2, DiskStays
  <2>5. IgetSlot(i) # 0
    BY <1>5 DEF FullIf
  <2>. HIDE DEF i, k
  <2>6. Undisturbed
    BY <1>5, <2>3, <2>4, <2>5, FoundSound
  <2>7. CalmSeq(<< <<"ilock", s>>, <<"unlink3", k>> >>)
    BY CalmCalls
  <2>. QED
    BY <1>0, <1>2, <1>5, <2>2, <2>6, <2>7, CallSound
<1>. QED
  BY <1>4, <1>5 DEF Unlink2

LEMMA Unlink3Sound ==
    ASSUME Core, Core', Inodes, NEW p \in Procs, Unlink3(p)
    PROVE  Inodes'
<1>0. At(p, "unlink3") /\ "unlink3" \in MainOps \ CreateOps
  BY CallOps DEF Unlink3
<1>1. Types /\ Holds("unlink3", reg[p]) /\ DiskTyped
  BY <1>0, MainAt DEF Inodes
<1>2. FilesStay
  BY DEF Unlink3, FilesStay, fileVars
<1>. DEFINE dp == reg[p].dp
            s == reg[p].ip
<1>3. dp \in Slots
  BY <1>1 DEF Holds, UsesDp
<1>4. CASE /\ Then(p, Iunlockput(s) \o Append(Iunlockput(dp), <<"end_op">>))
           /\ Forget(p, {"ip", "dp"}) /\ UNCHANGED <<dinode, icache>>
  <2>1. RegMove(p) /\ Undisturbed
    BY <1>1, <1>4, ForgetIs, Unmoved
  <2>. QED
    BY <1>0, <1>2, <1>4, <2>1, CalmCalls, CallSound
<1>5. ASSUME NEW down, Forget(p, {"dp"}), icache' = AddLinkMem(icache, dp, down),
             dinode' = [AddLink(dinode, dp, down) EXCEPT ![Inum(dp)] =
                     [@ EXCEPT !.ents[Arg(p, 1)] = [name |-> "", inum |-> 0]]],
             Then(p, Append(Iunlockput(dp), <<"unlink4">>))
      PROVE  Inodes'
  <2>1. RegMove(p)
    BY <1>1, <1>5, ForgetIs
  <2>2. Kin(AddLink(dinode, dp, down))
    BY <1>1, KinIs, KinLink
  <2>3. DiskTyped' /\ TypesKept
    BY <1>1, <1>5, <2>2, KinClear, KinDisk
  <2>4. Undisturbed
    BY <1>3, <1>5, <2>3, LinkUndisturbed
  <2>. QED
    BY <1>0, <1>2, <1>5, <2>1, <2>4, CalmCalls, CallSound
<1>. QED
  BY <1>4, <1>5 DEF Unlink3

LEMMA Mk1Sound ==
    ASSUME Core, Core', Inodes, NEW p \in Procs, Mk1(p)
    PROVE  Inodes'
<1>0. At(p, "mk1") /\ "mk1" \in MainOps \ CreateOps
  BY CallOps DEF Mk1
<1>1. RegMove(p)
  BY <1>0, MainAt, ForgetIs DEF Mk1
<1>2. FilesStay /\ Undisturbed
  BY Unmoved DEF Mk1, FilesStay, fileVars
<1>3. Then(p, << >> \o << <<"end_op">> >>) \/ Then(p, Iunlockput(reg[p].r) \o << <<"end_op">> >>)
  BY DEF Mk1
<1>4. ASSUME NEW ops, CalmSeq(ops), Then(p, ops)
      PROVE  Inodes'
  BY <1>0, <1>1, <1>2, <1>4, CallSound
<1>. QED
  BY <1>3, <1>4, CalmCalls

(* Closing files, and the calls that do nothing with an inode.             *)
LEMMA TailSound ==
    ASSUME Core, Core', Inodes, NEW p \in Procs, NEW op \in {"fclose", "pipe1", "pipe2", "exit1"},
           At(p, op), NEW ops, CalmSeq(ops), Then(p, ops), UNCHANGED <<dinode, icache, cwd, reg>>,
           \A f \in Files : ftable'[f].ip = ftable[f].ip \/ ftable'[f].ip = 0
    PROVE  Inodes'
<1>1. op \in TailOps
  BY DEF TailOps
<1>2. todo[p] # << >> /\ todo[p][1][1] = op /\ Mains(todo[p]) = 0
  BY <1>1, TailAt
<1>3. Undisturbed
  BY Unmoved
<1>. QED
  BY <1>2, <1>3, CalmSound

LEMMA FilecloseSound ==
    ASSUME Core, Core', Inodes, NEW p \in Procs, Fileclose(p)
    PROVE  Inodes'
<1>. DEFINE f == Arg(p, 1)
            put == << <<"begin_op">>, <<"iput", ftable[f].ip>>, <<"end_op">> >>
<1>0. Types /\ Types'
  BY DEF Core
<1>1. At(p, "fclose") /\ UNCHANGED <<dinode, icache, cwd, reg>>
  BY DEF Fileclose
<1>2. ASSUME NEW g \in Files
      PROVE  ftable'[g].ip = ftable[g].ip \/ ftable'[g].ip = 0
  <2>1. g \in DOMAIN ftable /\ DOMAIN ftable[g] = DOMAIN Closed /\ "ip" \in DOMAIN Closed
    BY <1>0 DEF Types, Closed
  <2>. HIDE DEF f
  <2>2. PICK last \in BOOLEAN : ftable' = [ftable EXCEPT ![f] = IF last THEN Closed
                                             ELSE [ftable[f] EXCEPT !.ref = ftable[f].ref - 1]]
    BY DEF Fileclose, f
  <2>3. Closed.ip = 0
    BY DEF Closed
  <2>. QED
    BY <2>1, <2>2, <2>3
<1>3. Then(p, put) \/ Then(p, << >>)
  BY DEF Fileclose
<1>4. CalmSeq(put) /\ CalmSeq(<< >>)
  <2>. DEFINE a == <<"begin_op">>
              b == <<"iput", ftable[f].ip>>
              c == <<"end_op">>
  <2>1. Calm(a) /\ Calm(b) /\ Calm(c)
    BY CalmAre
  <2>. HIDE DEF a, b, c
  <2>2. CalmSeq(<<a, b, c>>) /\ CalmSeq(<< >>)
    BY <2>1, CalmMany
  <2>. QED
    BY <2>2 DEF a, b, c
<1>. HIDE DEF put
<1>. QED
  BY <1>1, <1>2, <1>3, <1>4, TailSound

(* A new struct file has no inode yet.                                     *)
LEMMA NewFileIp ==
    ASSUME Core, NEW g, g = FileAlloc,
           ftable' = IF g = 0 THEN ftable ELSE [ftable EXCEPT ![g].ref = 1]
    PROVE  \A f \in Files : ftable'[f].ip = ftable[f].ip
  BY NewFile

LEMMA Pipe1Sound ==
    ASSUME Core, Core', Inodes, NEW p \in Procs, Pipe1(p)
    PROVE  Inodes'
<1>1. At(p, "pipe1") /\ UNCHANGED <<dinode, icache, cwd, reg>>
  BY DEF Pipe1
<1>2. PICK f, g : f = Arg(p, 1) /\ g = FileAlloc
  OBVIOUS
<1>3. ftable' = IF g = 0 THEN ftable ELSE [ftable EXCEPT ![g].ref = 1]
  BY <1>2 DEF Pipe1
<1>4. \A h \in Files : ftable'[h].ip = ftable[h].ip
  BY <1>2, <1>3, NewFileIp
<1>5. Then(p, << >>) \/ Then(p, << <<"fclose", f>> >>) \/ Then(p, << <<"pipe1", g>> >>)
      \/ Then(p, << <<"pipe2", f, g>> >>)
  BY <1>2 DEF Pipe1
<1>6. /\ Calm(<<"fclose", f>>) /\ Calm(<<"pipe1", g>>) /\ Calm(<<"pipe2", f, g>>)
  BY CalmAre
<1>7. CalmSeq(<< >>) /\ CalmSeq(<< <<"fclose", f>> >>) /\ CalmSeq(<< <<"pipe1", g>> >>)
      /\ CalmSeq(<< <<"pipe2", f, g>> >>)
  BY <1>6, CalmMany
<1>. QED
  BY <1>1, <1>4, <1>5, <1>7, TailSound

LEMMA Exit1Sound ==
    ASSUME Core, Core', Inodes, NEW p \in Procs, Exit1(p)
    PROVE  Inodes'
<1>1. At(p, "exit1") /\ UNCHANGED <<dinode, icache, cwd, reg, ftable>>
  BY DEF Exit1
<1>2. PICK f : f = ofile[p][Arg(p, 1)]
  OBVIOUS
<1>3. Then(p, << >>) \/ Then(p, << <<"fclose", f>> >>)
  BY <1>2 DEF Exit1
<1>4. Calm(<<"fclose", f>>)
  BY CalmAre
<1>5. CalmSeq(<< >>) /\ CalmSeq(<< <<"fclose", f>> >>)
  BY <1>4, CalmMany
<1>. QED
  BY <1>1, <1>3, <1>5, TailSound

LEMMA Pipe2Files ==
    ASSUME Core, NEW p \in Procs, At(p, "pipe2")
    PROVE  Arg(p, 1) \in Files /\ Arg(p, 2) \in Files /\ Arg(p, 1) # Arg(p, 2)
<1>0. "pipe2" \in TailOps /\ "pipe2" \in LastOps
  BY DEF TailOps, LastOps
<1>1. /\ Types /\ FileRefs /\ Opening /\ todo[p][1][1] = "pipe2" /\ Outside(todo[p][1])
      /\ Len(todo[p]) = 1 /\ 1 \in 1..Len(todo[p])
      /\ Arg(p, 1) = todo[p][1][2] /\ Arg(p, 2) = todo[p][1][3]
  BY <1>0, TailAt DEF Core
<1>2. PICK f, g : f = Arg(p, 1) /\ g = Arg(p, 2)
  OBVIOUS
<1>3. f \in Files /\ g \in Files /\ FileOf(todo[p][1]) = f /\ OtherOf(todo[p][1]) = g
  BY <1>1, <1>2 DEF Outside, InodeOps, FileOf, OtherOf
<1>4. New(f)
  BY <1>1, <1>2 DEF Opening
<1>5. f # g
  BY <1>1, <1>3, <1>4, OneUser DEF New
<1>. QED
  BY <1>2, <1>3, <1>5

LEMMA Pipe2Sound ==
    ASSUME Core, Core', Inodes, NEW p \in Procs, Pipe2(p)
    PROVE  Inodes'
<1>0. Types
  BY DEF Core
<1>1. At(p, "pipe2") /\ UNCHANGED <<dinode, icache, cwd, reg>>
  BY DEF Pipe2
<1>2. PICK f, g : f = Arg(p, 1) /\ g = Arg(p, 2)
  OBVIOUS
<1>3. ASSUME NEW h \in Files
      PROVE  ftable'[h].ip = ftable[h].ip
  <2>1. PICK k : k = Min({j \in DOMAIN pipes : pipes[j] = {}})
    OBVIOUS
  <2>2. \/ UNCHANGED ftable
        \/ ftable' = [ftable EXCEPT
                ![f] = [@ EXCEPT !.type = "pipe", !.pipe = k, !.end = "r"],
                ![g] = [@ EXCEPT !.type = "pipe", !.pipe = k, !.end = "w"]]
    BY <1>2, <2>1 DEF Pipe2
  <2>3. h \in DOMAIN ftable /\ DOMAIN ftable[h] = DOMAIN Closed /\ "ip" \in DOMAIN Closed
    BY <1>0 DEF Types, Closed
  <2>4. f \in Files /\ g \in Files /\ f # g /\ DOMAIN ftable = Files
    BY <1>0, <1>1, <1>2, Pipe2Files DEF Types
  <2>5. PICK c, d : /\ c = [ftable[f] EXCEPT !.type = "pipe", !.pipe = k, !.end = "r"]
                    /\ d = [ftable[g] EXCEPT !.type = "pipe", !.pipe = k, !.end = "w"]
    OBVIOUS
  <2>6. c.ip = ftable[f].ip /\ d.ip = ftable[g].ip
    BY <1>0, <2>4, <2>5 DEF Types, Closed
  <2>7. UNCHANGED ftable \/ ftable' = [ftable EXCEPT ![f] = c, ![g] = d]
    BY <2>2, <2>4, <2>5
  <2>. QED
    BY <2>4, <2>6, <2>7
<1>4. Then(p, << >>) \/ Then(p, << <<"fclose", f>>, <<"fclose", g>> >>)
  <2>. PICK k : k = Min({j \in DOMAIN pipes : pipes[j] = {}})
    OBVIOUS
  <2>. QED
    BY <1>2 DEF Pipe2
<1>5. Calm(<<"fclose", f>>) /\ Calm(<<"fclose", g>>)
  BY CalmAre
<1>6. CalmSeq(<< >>) /\ CalmSeq(<< <<"fclose", f>>, <<"fclose", g>> >>)
  BY <1>5, CalmMany
<1>. QED
  BY <1>1, <1>3, <1>4, <1>6, TailSound

-----------------------------------------------------------------------------
(* Sections that rest on a lock.  The sections that are pushed end in one   *)
(* that needs an inode locked, behind the lock itself, or the process has   *)
(* the lock already.                                                        *)
LEMMA NextLocked ==
    ASSUME NEW p \in Procs, NEW ops, After(p, ops), NEW n \in 1..5, Len(ops) = n,
           NEW op \in {"open2", "open3", "create2", "create3", "create4", "chdir2"},
           \A k \in 1..n : k < n => ops[k][1] \notin Watched, ops[n][1] = op,
           Len(todo[p]) = 1 \/ (Len(todo[p]) = 2 /\ todo[p][2][1] \in {"open1", "mk1"}
                                /\ op \in CreateOps),
           NEW s, s = Locks(op, reg'[p]),
           IF n = 1 THEN LockedAfter(p, s) ELSE ops[n - 1][1] = "ilock" /\ ops[n - 1][2] = s,
           op = "create4" => reg'[p].ip # reg'[p].dp
    PROVE  Doing(p)'
<1>. DEFINE m == Len(todo'[p])
<1>1. /\ m \in Nat /\ m \in {n, n + 1} /\ n \in Nat /\ n > 0
      /\ m = n + 1 => todo[p][2][1] \in {"open1", "mk1"} /\ op \in CreateOps
  <2>1. m = n + Len(todo[p]) - 1
    BY AfterIs
  <2>2. n \in Nat /\ n > 0 /\ n + 1 - 1 = n /\ n + 2 - 1 = n + 1 /\ n # n + 1
    OBVIOUS
  <2>. HIDE DEF m
  <2>3. CASE Len(todo[p]) = 1
    BY <2>1, <2>2, <2>3
  <2>4. CASE Len(todo[p]) = 2 /\ todo[p][2][1] \in {"open1", "mk1"} /\ op \in CreateOps
    BY <2>1, <2>2, <2>4
  <2>. QED
    BY <2>3, <2>4
<1>2. \A k \in 1..m : \/ k < n /\ k \in 1..n /\ todo'[p][k] = ops[k] /\ ops[k][1] \notin Watched
                      \/ k = n /\ todo'[p][k] = ops[n]
                      \/ k = n + 1 /\ todo'[p][k] = todo[p][2] /\ m = n + 1
  <2>. SUFFICES ASSUME NEW k \in 1..m
                PROVE  \/ k < n /\ k \in 1..n /\ todo'[p][k] = ops[k] /\ ops[k][1] \notin Watched
                       \/ k = n /\ todo'[p][k] = ops[n]
                       \/ k = n + 1 /\ todo'[p][k] = todo[p][2] /\ m = n + 1
    OBVIOUS
  <2>1. \/ k <= n /\ todo'[p][k] = ops[k]
        \/ k > n /\ k - n + 1 \in 2..Len(todo[p]) /\ todo'[p][k] = todo[p][k - n + 1]
    BY AfterIs
  <2>2. CASE k <= n /\ todo'[p][k] = ops[k]
    BY <1>1, <2>2
  <2>3. CASE k > n /\ k - n + 1 \in 2..Len(todo[p]) /\ todo'[p][k] = todo[p][k - n + 1]
    <3>1. k = n + 1 /\ k - n + 1 = 2 /\ m = n + 1
      BY <1>1, <2>3
    <3>. QED
      BY <2>3, <3>1
  <2>. QED
    BY <2>1, <2>2, <2>3
<1>3. \A x, rg : x \notin Watched \/ x \in {"open1", "mk1"} => Locks(x, rg) = 0
  BY DEF Locks, Watched
<1>. HIDE DEF m
<1>4. Held(p)'
  <2>. SUFFICES ASSUME NEW k \in 1..m, Locks(todo'[p][k][1], reg'[p]) # 0
                PROVE  IF k = 1 THEN LockedAfter(p, Locks(todo'[p][k][1], reg'[p]))
                       ELSE todo'[p][k - 1][1] = "ilock"
                            /\ todo'[p][k - 1][2] = Locks(todo'[p][k][1], reg'[p])
    BY DEF Held, Locks, Locked, LockedAfter, m
  <2>1. k = n /\ Locks(todo'[p][k][1], reg'[p]) = s
    BY <1>1, <1>2, <1>3
  <2>2. CASE n = 1
    BY <2>1, <2>2
  <2>3. CASE n # 1
    <3>1. k - 1 \in 1..m /\ k - 1 < n
      BY <1>1, <2>1, <2>3
    <3>2. todo'[p][k - 1] = ops[n - 1]
      <4>1. \A j \in 1..m : j < n => todo'[p][j] = ops[j]
        BY <1>1, <1>2
      <4>. QED
        BY <2>1, <3>1, <4>1
    <3>. QED
      BY <2>1, <2>3, <3>2
  <2>. QED
    BY <2>2, <2>3
<1>5. Fresh(p)' /\ Naming(p)' /\ Freeing(p)'
  <2>1. ASSUME NEW k \in 1..m
        PROVE  /\ todo'[p][k][1] = "create4" => op = "create4"
               /\ todo'[p][k][1] # "dirlink" /\ todo'[p][k][1] # "ifree"
    BY <1>1, <1>2 DEF Watched
  <2>. QED
    BY <2>1 DEF Fresh, Naming, Freeing, m
<1>6. Created(p)'
  <2>. SUFFICES ASSUME m > 0, todo'[p][m][1] = "open1",
                       m > 1 => todo'[p][m - 1][1] \notin CreateOps
                PROVE  FALSE
    BY DEF Created, CreateOps, m
  <2>1. m = n + 1 /\ op \in CreateOps
    BY <1>1, <1>2 DEF Watched
  <2>2. n \in 1..m /\ m - 1 = n /\ m > 1
    BY <1>1, <2>1
  <2>3. todo'[p][n] = ops[n]
    BY <1>1, <1>2, <2>2
  <2>. QED
    BY <2>1, <2>2, <2>3
<1>. QED
  BY <1>4, <1>5, <1>6 DEF Doing

(* ops, and one operation that was waiting.                                *)
LEMMA AfterTwo ==
    ASSUME NEW p, NEW ops, After(p, ops), Len(todo[p]) = 2
    PROVE  /\ Len(ops) \in Nat /\ Len(todo'[p]) = Len(ops) + 1
           /\ \A k \in 1..Len(todo'[p]) :
                \/ k <= Len(ops) /\ k \in 1..Len(ops) /\ todo'[p][k] = ops[k]
                \/ k = Len(todo'[p]) /\ todo'[p][k] = todo[p][2]
<1>. DEFINE m == Len(todo'[p])
<1>0. PICK n \in Nat : n = Len(ops)
  BY AfterIs
<1>1. m = n + 1
  <2>1. m = n + Len(todo[p]) - 1
    BY <1>0, AfterIs
  <2>. HIDE DEF m
  <2>. QED
    BY <2>1
<1>2. \A k \in 1..m :
        \/ k <= n /\ todo'[p][k] = ops[k]
        \/ k > n /\ k - n + 1 \in 2..Len(todo[p]) /\ todo'[p][k] = todo[p][k - n + 1]
  BY <1>0, AfterIs
<1>. HIDE DEF m
<1>3. ASSUME NEW k \in 1..m
      PROVE  \/ k <= n /\ k \in 1..n /\ todo'[p][k] = ops[k]
             \/ k = m /\ todo'[p][k] = todo[p][2]
  <2>2. CASE k <= n /\ todo'[p][k] = ops[k]
    BY <1>1, <2>2
  <2>3. CASE k > n /\ k - n + 1 \in 2..Len(todo[p]) /\ todo'[p][k] = todo[p][k - n + 1]
    <3>1. k = m /\ k - n + 1 = 2
      BY <1>1, <2>3
    <3>. QED
      BY <2>3, <3>1
  <2>. QED
    BY <1>2, <2>2, <2>3
<1>. QED
  BY <1>0, <1>1, <1>3 DEF m

(* create() returns: its inode is locked, or it has none.                  *)
LEMMA Returned ==
    ASSUME NEW p \in Procs, NEW ops, After(p, ops),
           Len(todo[p]) = 2, todo[p][2][1] \in {"open1", "mk1"},
           \A k \in 1..Len(ops) : ops[k][1] \in {"iunlock", "iput"} /\ ops[k][2] # reg'[p].r,
           reg'[p].r # 0 => LockedAfter(p, reg'[p].r)
    PROVE  Doing(p)'
<1>. DEFINE m == Len(todo'[p])
<1>9. /\ Len(ops) \in Nat /\ m = Len(ops) + 1
      /\ \A k \in 1..m : \/ k <= Len(ops) /\ k \in 1..Len(ops) /\ todo'[p][k] = ops[k]
                         \/ k = m /\ todo'[p][k] = todo[p][2]
  BY AfterTwo, Zenon
<1>. HIDE DEF m
<1>0. PICK n \in Nat : n = Len(ops)
  BY <1>9
<1>1. m \in Nat /\ n \in Nat /\ m = n + 1
  BY <1>0, <1>9
<1>2. \A k \in 1..m : \/ k <= n /\ k \in 1..n /\ todo'[p][k] = ops[k]
                      \/ k = m /\ todo'[p][k] = todo[p][2]
  BY <1>0, <1>9, Zenon
<1>3. \A k \in 1..m : todo'[p][k][1] \in {"iunlock", "iput", "open1", "mk1"}
  BY <1>0, <1>2
<1>4. Held(p)' /\ Fresh(p)' /\ Naming(p)' /\ Freeing(p)'
  BY <1>3 DEF Held, Locks, Fresh, Naming, Freeing, m
<1>5. Created(p)'
  <2>1. ASSUME NEW k \in 1..(m - 1)
        PROVE  todo'[p][k][1] \in InodeOps /\ todo'[p][k][2] # reg'[p].r
    <3>1. k \in 1..m /\ k # m
      BY <1>1
    <3>. QED
      BY <1>0, <1>2, <3>1 DEF InodeOps
  <2>. QED
    BY <2>1 DEF Created, LockedAfter, Locked, InodeOps, CreateOps, m
<1>. QED
  BY <1>4, <1>5 DEF Doing

(* link() locks the directory and enters the name.                         *)
LEMMA Enters ==
    ASSUME NEW p \in Procs, NEW a, NEW b, NEW c, After(p, <<a, b, c>>), Len(todo[p]) = 1,
           a[1] = "ilock", b[1] = "dirlink", c[1] = "link4",
           b[2] = reg'[p].dp, reg'[p].dp # 0, b[4] \in Inums
    PROVE  Doing(p)'
<1>. DEFINE m == Len(todo'[p])
<1>1. /\ Len(<<a, b, c>>) = 3 /\ <<a, b, c>>[1] = a /\ <<a, b, c>>[2] = b /\ <<a, b, c>>[3] = c
  BY Ops3
<1>2. m = 3
  BY <1>1, AfterIs
<1>3. todo'[p][1] = a /\ todo'[p][2] = b /\ todo'[p][3] = c
  BY <1>1, <1>2 DEF After
<1>4. \A k \in 1..m : todo'[p][k] \in {a, b, c}
  <2>1. \A k \in 1..3 : k = 1 \/ k = 2 \/ k = 3
    OBVIOUS
  <2>. QED
    BY <1>2, <1>3, <2>1
<1>5. Held(p)' /\ Fresh(p)' /\ Freeing(p)' /\ Naming(p)'
  BY <1>4 DEF Held, Locks, Fresh, Naming, Freeing, Inums
<1>6. Created(p)'
  BY <1>2, <1>3 DEF Created
<1>. QED
  BY <1>5, <1>6 DEF Doing

LEMMA MainSound ==
    ASSUME Core, Core', Inodes, NEW p \in Procs, NEW op \in MainOps, At(p, op),
           NEW ops, After(p, ops), FilesStay, RegMove(p), Undisturbed, Doing(p)',
           \A k \in 1..Len(ops) : ops[k][1] \notin {"chdir3", "open4"}
    PROVE  Inodes'
<1>1. todo[p][1][1] = op
  BY MainAt
<1>2. op \notin {"chdir3", "exit2"}
  BY DEF MainOps, CreateOps, UsesR, UsesIp, UsesDp
<1>3. UNCHANGED cwd /\ \A f \in Files : ftable'[f].ip = ftable[f].ip
  BY DEF FilesStay
<1>. QED
  BY <1>1, <1>2, <1>3, SectionSound DEF RegMove

(* The section of create() that comes first, and its caller behind it.     *)
LEMMA CreateAt ==
    ASSUME Core, NEW p \in Procs, NEW op \in CreateOps, At(p, op)
    PROVE  /\ op \in MainOps /\ Types /\ SlotRefs /\ todo[p] # << >> /\ IsSeq(todo[p])
           /\ todo[p][1][1] = op /\ Holds(op, reg[p])
           /\ Len(todo[p]) = 2 /\ todo[p][2][1] \in {"open1", "mk1"}
<1>1. op \in MainOps
  BY DEF MainOps
<1>2. /\ Types /\ SlotRefs /\ todo[p] # << >> /\ IsSeq(todo[p]) /\ todo[p][1][1] = op
      /\ Shape(todo[p], reg[p]) /\ Holds(op, reg[p])
  BY <1>1, MainAt
<1>. QED
  BY <1>1, <1>2, HeadMain

(* What a process has locked stays locked.                                 *)
LEMMA StaysLocked ==
    ASSUME LocksKept(Procs), NEW p \in Procs, NEW s \in Slots, icache[s].ref > 0, Locked(p, s)
    PROVE  LockedAfter(p, s)
  BY DEF LocksKept, Locked, LockedAfter

LEMMA HeldNow ==
    ASSUME Core, Inodes, NEW p \in Procs, todo[p] # << >>, NEW s \in Slots,
           s = Locks(todo[p][1][1], reg[p]), s \in {reg[p].r, reg[p].ip, reg[p].dp}
    PROVE  Taking(p, s)
<1>0. Types /\ SlotRefs /\ IsSeq(todo[p])
  BY DEF Core, Types
<1>1. 1 \in 1..Len(todo[p])
  BY <1>0, SeqFacts
<1>2. s # 0
  BY SizesAre
<1>3. Locked(p, s)
  BY <1>1, <1>2 DEF Inodes, Doing, Held
<1>4. icache[s].ref > 0
  BY <1>0, RefPositive
<1>. QED
  BY <1>3, <1>4 DEF Taking

LEMMA TwoNext ==
    ASSUME Types, NEW p \in Procs, todo[p] # << >>, NEW a, NEW b, Then(p, <<a, b>>)
    PROVE  /\ After(p, <<a, b>>) /\ Len(<<a, b>>) = 2
           /\ \A k \in 1..2 : (k < 2 => <<a, b>>[k] = a) /\ <<a, b>>[k] \in {a, b}
           /\ <<a, b>>[1] = a /\ <<a, b>>[2] = b /\ <<a, b>>[2 - 1] = a
<1>1. /\ Few(<<a, b>>) /\ Len(<<a, b>>) = 2 /\ <<a, b>>[1] = a /\ <<a, b>>[2] = b
  BY Ops2
<1>2. \A k \in 1..2 : k = 1 \/ k = 2
  OBVIOUS
<1>. QED
  BY <1>1, <1>2, ThenAfter DEF Few

LEMMA Create1Sound ==
    ASSUME Core, Core', Inodes, NEW p \in Procs, Create1(p)
    PROVE  Inodes'
<1>0. At(p, "create1") /\ Move(p, "r", "dp") /\ "create1" \in CreateOps
  BY DEF Create1, CreateOps
<1>1. /\ "create1" \in MainOps /\ Types /\ todo[p] # << >> /\ Holds("create1", reg[p])
      /\ Len(todo[p]) = 2 /\ todo[p][2][1] \in {"open1", "mk1"}
  BY <1>0, CreateAt
<1>2. RegMove(p) /\ reg'[p].r = 0 /\ reg'[p].dp = reg[p].r
  BY <1>0, <1>1, MoveIs
<1>3. FilesStay /\ Undisturbed
  BY Unmoved DEF Create1, FilesStay, fileVars
<1>4. CASE reg[p].r = 0
  <2>1. Then(p, << >>)
    BY <1>4 DEF Create1
  <2>2. After(p, << >>) /\ \A k \in 1..Len(<< >>) : FALSE
    BY <1>1, <2>1, EmptyAfter
  <2>3. Doing(p)'
    BY <1>1, <1>2, <2>2, Returned
  <2>. QED
    BY <1>0, <1>1, <1>2, <1>3, <2>2, <2>3, MainSound
<1>5. CASE reg[p].r # 0
  <2>1. PICK a, b : a = <<"ilock", reg[p].r>> /\ b = <<"create2", Arg(p, 1)>>
    OBVIOUS
  <2>2. Then(p, <<a, b>>)
    BY <1>5, <2>1 DEF Create1
  <2>3. /\ After(p, <<a, b>>) /\ Len(<<a, b>>) = 2
        /\ \A k \in 1..2 : (k < 2 => <<a, b>>[k] = a) /\ <<a, b>>[k] \in {a, b}
        /\ <<a, b>>[1] = a /\ <<a, b>>[2] = b /\ <<a, b>>[2 - 1] = a
    BY <1>1, <2>2, TwoNext
  <2>4. a[1] = "ilock" /\ a[2] = reg[p].r /\ b[1] = "create2" /\ a[1] \notin Watched
    BY <2>1 DEF Watched
  <2>5. Locks("create2", reg'[p]) = reg[p].r
    BY <1>2 DEF Locks
  <2>6. PICK ops : ops = <<a, b>>
    OBVIOUS
  <2>7. /\ After(p, ops) /\ Len(ops) = 2 /\ \A k \in 1..2 : k < 2 => ops[k][1] \notin Watched
        /\ ops[2][1] = "create2" /\ ops[2 - 1][1] = "ilock" /\ ops[2 - 1][2] = reg[p].r
        /\ \A k \in 1..2 : ops[k][1] \notin {"chdir3", "open4"}
    BY <2>3, <2>4, <2>6
  <2>8. Doing(p)'
    BY <1>1, <2>5, <2>7, NextLocked DEF CreateOps
  <2>. QED
    BY <1>0, <1>1, <1>2, <1>3, <2>7, <2>8, MainSound
<1>. QED
  BY <1>4, <1>5

(* A section that goes on with the lock of an inode it has found.          *)
LEMMA LockThen ==
    ASSUME Core, Core', Inodes, NEW p \in Procs, NEW op \in MainOps, At(p, op),
           NEW s, NEW b, b[1] \in {"open2", "create2", "create4", "chdir2"},
           Len(todo[p]) = 1 \/ (Len(todo[p]) = 2 /\ todo[p][2][1] \in {"open1", "mk1"}
                                /\ b[1] \in CreateOps),
           Then(p, << <<"ilock", s>>, b>>), s = Locks(b[1], reg'[p]),
           b[1] = "create4" => reg'[p].ip # reg'[p].dp,
           FilesStay, RegMove(p), Undisturbed
    PROVE  Inodes'
<1>1. Types /\ todo[p] # << >>
  BY MainAt
<1>2. PICK a : a = <<"ilock", s>>
  OBVIOUS
<1>3. a[1] = "ilock" /\ a[2] = s /\ a[1] \notin Watched
  BY <1>2 DEF Watched
<1>4. /\ After(p, <<a, b>>) /\ Len(<<a, b>>) = 2
      /\ \A k \in 1..2 : (k < 2 => <<a, b>>[k] = a) /\ <<a, b>>[k] \in {a, b}
      /\ <<a, b>>[2] = b /\ <<a, b>>[2 - 1] = a
  BY <1>1, <1>2, TwoNext
<1>5. PICK ops : ops = <<a, b>>
  OBVIOUS
<1>6. /\ After(p, ops) /\ Len(ops) = 2 /\ \A k \in 1..2 : k < 2 => ops[k][1] \notin Watched
      /\ ops[2][1] = b[1] /\ ops[2 - 1][1] = "ilock" /\ ops[2 - 1][2] = s
      /\ \A k \in 1..2 : ops[k][1] \notin {"chdir3", "open4"}
  BY <1>3, <1>4, <1>5
<1>7. Doing(p)'
  BY <1>6, NextLocked
<1>. QED
  BY <1>6, <1>7, MainSound

LEMMA Create2Sound ==
    ASSUME Core, Core', Inodes, NEW p \in Procs, Create2(p), panicked' = "no"
    PROVE  Inodes'
<1>0. At(p, "create2") /\ "create2" \in CreateOps
  BY DEF Create2, CreateOps
<1>1. /\ "create2" \in MainOps /\ Types /\ SlotRefs /\ todo[p] # << >> /\ Holds("create2", reg[p])
      /\ todo[p][1][1] = "create2"
      /\ Len(todo[p]) = 2 /\ todo[p][2][1] \in {"open1", "mk1"}
  BY <1>0, CreateAt
<1>2. reg[p].r = 0 /\ reg[p].ip = 0 /\ reg[p].dp \in Slots
  BY <1>1 DEF Holds, UsesR, UsesIp, UsesDp
<1>3. FilesStay
  BY DEF Create2, FilesStay, fileVars
<1>4. PICK dp, x : dp = reg[p].dp /\ x = Arg(p, 1)
  OBVIOUS
<1>5. Taking(p, dp) /\ dp # 0
  BY <1>1, <1>2, <1>4, SizesAre, HeldNow DEF Locks
<1>6. /\ Inum(dp) \in Inums /\ InodeTyped(dinode[Inum(dp)])
      /\ dinode[Inum(dp)].type # "none" /\ DiskTyped
  BY <1>2, <1>4, <1>5 DEF Inodes, CacheTyped, DiskTyped, ReadIn, Taking, Locked, Inum
<1>7. ASSUME NEW i \in Inums, IgetSlot(i) # 0, icache' = Iget(i), UNCHANGED dinode,
             NEW s, s = IgetSlot(i),
             reg' = [reg EXCEPT ![p] = [Gone(p, {"dp"}) EXCEPT !.ip = s]],
             Then(p, Iunlockput(dp) \o << <<"ilock", s>>, <<"create3", x>> >>)
      PROVE  Inodes'
  <2>1. DiskTyped' /\ TypesKept
    BY <1>6, <1>7, DiskStays
  <2>2. Undisturbed
    BY <1>7, <2>1, FoundSound
  <2>3. RegMove(p) /\ reg'[p].ip = s
    BY <1>1, <1>2, <1>7 DEF Types, Gone, RegMove, NoRegs
  <2>4. PICK a, b, c, e : a = <<"iunlock", dp>> /\ b = <<"iput", dp>> /\ c = <<"ilock", s>>
                          /\ e = <<"create3", x>>
    OBVIOUS
  <2>5. Then(p, <<a, b, c, e>>)
    <3>1. \A w, y, z : Iunlockput(w) \o <<y, z>> = << <<"iunlock", w>>, <<"iput", w>>, y, z>>
      BY PutTwo
    <3>. QED
      BY <1>7, <2>4, <3>1
  <2>6. /\ Few(<<a, b, c, e>>) /\ Len(<<a, b, c, e>>) = 4 /\ <<a, b, c, e>>[1] = a
        /\ <<a, b, c, e>>[2] = b /\ <<a, b, c, e>>[3] = c /\ <<a, b, c, e>>[4] = e
    BY Ops4
  <2>7. PICK ops : ops = <<a, b, c, e>>
    OBVIOUS
  <2>8. /\ After(p, ops) /\ Len(ops) = 4 /\ ops[4][1] = "create3"
        /\ ops[4 - 1][1] = "ilock" /\ ops[4 - 1][2] = s
        /\ \A k \in 1..4 : /\ k < 4 => ops[k][1] \notin Watched
                           /\ ops[k][1] \notin {"chdir3", "open4"}
    <3>1. \A k \in 1..4 : k = 1 \/ k = 2 \/ k = 3 \/ k = 4
      OBVIOUS
    <3>2. After(p, ops)
      BY <1>1, <2>5, <2>6, <2>7, ThenAfter DEF Few
    <3>3. 4 - 1 = 3 /\ ~(4 < 4)
      OBVIOUS
    <3>4. /\ a[1] \notin Watched /\ b[1] \notin Watched /\ c[1] \notin Watched
          /\ {a[1], b[1], c[1], e[1]} \cap {"chdir3", "open4"} = {}
          /\ c[1] = "ilock" /\ c[2] = s /\ e[1] = "create3"
      BY <2>4 DEF Watched
    <3>. QED
      BY <2>6, <2>7, <3>1, <3>2, <3>3, <3>4
  <2>9. s = Locks("create3", reg'[p])
    BY <2>3 DEF Locks
  <2>10. Doing(p)'
    BY <1>1, <2>8, <2>9, NextLocked DEF CreateOps
  <2>. QED
    BY <1>0, <1>1, <1>3, <2>2, <2>3, <2>8, <2>10, MainSound
<1>8. ASSUME NEW i \in Inums, dinode[i].type = "none", IgetSlot(i) # 0, icache' = Iget(i),
             dinode' = Ialloc(i, x), NEW s, s = IgetSlot(i),
             reg' = [reg EXCEPT ![p] = [Gone(p, {}) EXCEPT !.ip = s]],
             Then(p, << <<"ilock", s>>, <<"create4", x>> >>)
      PROVE  Inodes'
  <2>1. DiskTyped' /\ TypesKept
    BY <1>6, <1>8, IallocTyped
  <2>2. Undisturbed /\ s \in Slots /\ (icache[s].ref > 0 => icache[s].inum = i)
    BY <1>8, <2>1, FoundSound
  <2>3. RegMove(p) /\ reg'[p].ip = s /\ reg'[p].dp = dp
    BY <1>1, <1>2, <1>4, <1>8 DEF Types, Gone, RegMove, NoRegs
  <2>4. s # dp
    <3>1. icache[dp].ref > 0 /\ dinode[icache[dp].inum].type # "none"
      BY <1>5, <1>6 DEF Taking, Inum
    <3>2. icache[s].ref > 0 => icache[s].inum = i
      BY <2>2
    <3>3. dinode[i].type = "none"
      BY <1>8
    <3>. QED
      BY <3>1, <3>2, <3>3
  <2>5. PICK b : b = <<"create4", x>>
    OBVIOUS
  <2>6. b[1] = "create4" /\ Then(p, << <<"ilock", s>>, b>>)
    BY <1>8, <2>5
  <2>7. s = Locks(b[1], reg'[p])
    BY <2>3, <2>6 DEF Locks
  <2>8. b[1] \in {"open2", "create2", "create4", "chdir2"} /\ b[1] \in CreateOps
    BY <2>6 DEF CreateOps
  <2>9. reg'[p].ip # reg'[p].dp
    BY <2>3, <2>4
  <2>10. Undisturbed /\ RegMove(p) /\ Then(p, << <<"ilock", s>>, b>>)
    BY <2>2, <2>3, <2>6
  <2>11. "create2" \in MainOps /\ Len(todo[p]) = 2 /\ todo[p][2][1] \in {"open1", "mk1"}
    BY <1>1
  <2>. QED
    BY <1>0, <1>3, <2>7, <2>8, <2>9, <2>10, <2>11, LockThen
<1>. DEFINE de == dinode[Inum(dp)]
            k == Dirlookup(de, reg[p].name)
            j == IF k # 0 THEN de.ents[k].inum ELSE FreeInum
<1>9. ~(j = 0 \/ IgetSlot(j) = 0)
  BY <1>4 DEF Create2, FullIf
<1>10. /\ icache' = Iget(j)
       /\ reg' = [reg EXCEPT ![p] =
            [Gone(p, IF k # 0 THEN {"dp"} ELSE {}) EXCEPT !.ip = IgetSlot(j)]]
       /\ dinode' = IF k # 0 THEN dinode ELSE Ialloc(j, x)
       /\ Then(p, IF k # 0 THEN Iunlockput(dp) \o << <<"ilock", IgetSlot(j)>>, <<"create3", x>> >>
                  ELSE << <<"ilock", IgetSlot(j)>>, <<"create4", x>> >>)
  BY <1>4, <1>9 DEF Create2
<1>11. /\ k # 0 => j \in Inums
       /\ k = 0 => j \in Inums /\ dinode[j].type = "none"
  BY <1>6, <1>9, DirlookupIs, FreeInumIs
<1>. HIDE DEF k, j
<1>12. CASE k # 0
  BY <1>7, <1>9, <1>10, <1>11, <1>12
<1>13. CASE k = 0
  BY <1>8, <1>9, <1>10, <1>11, <1>13
<1>. QED
  BY <1>12, <1>13

LEMMA PutIs ==
    ASSUME Types, NEW p \in Procs, todo[p] # << >>, NEW s, Then(p, Iunlockput(s))
    PROVE  LET ops == Iunlockput(s) IN
           /\ After(p, ops)
           /\ \A k \in 1..Len(ops) : ops[k][1] \in {"iunlock", "iput"} /\ ops[k][2] = s
<1>1. PICK a, b : a = <<"iunlock", s>> /\ b = <<"iput", s>>
  OBVIOUS
<1>2. Iunlockput(s) = <<a, b>>
  BY <1>1 DEF Iunlockput
<1>3. /\ After(p, <<a, b>>) /\ Len(<<a, b>>) = 2 /\ \A k \in 1..2 : <<a, b>>[k] \in {a, b}
  BY <1>2, TwoNext
<1>4. \A x \in {a, b} : x[1] \in {"iunlock", "iput"} /\ x[2] = s
  BY <1>1
<1>. QED
  BY <1>2, <1>3, <1>4

LEMMA ReturnSound ==
    ASSUME Core, Core', Inodes, NEW p \in Procs, NEW op \in CreateOps, At(p, op),
           NEW ops, After(p, ops), NEW s,
           \A k \in 1..Len(ops) : ops[k][1] \in {"iunlock", "iput"} /\ ops[k][2] = s,
           s # reg'[p].r, reg'[p].r # 0 => LockedAfter(p, reg'[p].r),
           FilesStay, RegMove(p), Undisturbed
    PROVE  Inodes'
<1>1. op \in MainOps /\ Len(todo[p]) = 2 /\ todo[p][2][1] \in {"open1", "mk1"}
  BY CreateAt
<1>2. Doing(p)'
  BY <1>1, Returned
<1>. QED
  BY <1>1, <1>2, MainSound

LEMMA Create3Sound ==
    ASSUME Core, Core', Inodes, NEW p \in Procs, Create3(p)
    PROVE  Inodes'
<1>0. At(p, "create3") /\ "create3" \in CreateOps
  BY DEF Create3, CreateOps
<1>1. /\ Types /\ todo[p] # << >> /\ todo[p][1][1] = "create3" /\ Holds("create3", reg[p])
  BY <1>0, CreateAt
<1>2. PICK s : s = reg[p].ip
  OBVIOUS
<1>3. s \in Slots /\ s # 0
  BY <1>1, <1>2, SizesAre DEF Holds, UsesIp
<1>4. FilesStay /\ Undisturbed
  BY Unmoved DEF Create3, FilesStay, fileVars
<1>5. Taking(p, s)
  BY <1>1, <1>2, <1>3, HeldNow DEF Locks
<1>6. LockedAfter(p, s)
  BY <1>3, <1>4, <1>5, StaysLocked DEF Undisturbed, Taking
<1>7. Result(p, << >>, s) \/ Result(p, Iunlockput(s), 0)
  BY <1>2 DEF Create3
<1>8. CASE Result(p, << >>, s)
  <2>1. Then(p, << >>) /\ RegMove(p) /\ reg'[p].r = s
    BY <1>1, <1>8, ResultIs
  <2>2. After(p, << >>) /\ \A k \in 1..Len(<< >>) : FALSE
    BY <1>1, <2>1, EmptyAfter
  <2>. QED
    BY <1>0, <1>3, <1>4, <1>6, <2>1, <2>2, ReturnSound
<1>9. CASE Result(p, Iunlockput(s), 0)
  <2>1. Then(p, Iunlockput(s)) /\ RegMove(p) /\ reg'[p].r = 0
    BY <1>1, <1>9, ResultIs
  <2>2. PICK ops : /\ ops = Iunlockput(s) /\ After(p, ops)
                   /\ \A k \in 1..Len(ops) : ops[k][1] \in {"iunlock", "iput"} /\ ops[k][2] = s
    BY <1>1, <2>1, PutIs
  <2>3. s # reg'[p].r /\ (reg'[p].r # 0 => LockedAfter(p, reg'[p].r))
    BY <1>3, <2>1
  <2>4. \A k \in 1..Len(ops) : ops[k][1] \in {"iunlock", "iput"} /\ ops[k][2] = s
    BY <2>2
  <2>5. After(p, ops) /\ RegMove(p) /\ FilesStay /\ Undisturbed
    BY <1>4, <2>1, <2>2
  <2>. QED
    BY <1>0, <2>3, <2>4, <2>5, ReturnSound
<1>. QED
  BY <1>7, <1>8, <1>9

LEMMA Create4Sound ==
    ASSUME Core, Core', Inodes, NEW p \in Procs, Create4(p)
    PROVE  Inodes'
<1>0. At(p, "create4") /\ "create4" \in CreateOps
  BY DEF Create4, CreateOps
<1>1. /\ Types /\ IsSeq(todo[p]) /\ todo[p] # << >> /\ todo[p][1][1] = "create4"
      /\ Holds("create4", reg[p])
  BY <1>0, CreateAt
<1>2. PICK s, dp, nm, x : s = reg[p].ip /\ dp = reg[p].dp /\ nm = reg[p].name /\ x = Arg(p, 1)
  OBVIOUS
<1>3. s \in Slots /\ s # 0 /\ dp \in Slots
  BY <1>1, <1>2, SizesAre DEF Holds, UsesIp, UsesDp
<1>4. FilesStay
  BY DEF Create4, FilesStay, fileVars
<1>5. Taking(p, s)
  BY <1>1, <1>2, <1>3, HeldNow DEF Locks
<1>6. s # dp
  <2>1. 1 \in 1..Len(todo[p])
    BY <1>1, SeqFacts
  <2>. QED
    BY <1>1, <1>2, <2>1 DEF Inodes, Doing, Fresh
<1>7. icache[dp].ref > 0
  BY <1>1, <1>2, <1>3, RefPositive DEF Core
<1>8. PICK i, j : i = Inum(s) /\ j = Inum(dp)
  OBVIOUS
<1>9. i \in Inums /\ j \in Inums
  BY <1>3, <1>5, <1>7, <1>8 DEF Inodes, CacheTyped, Taking, Inum
<1>10. PICK up : up = IF x = "dir" THEN 1 ELSE 0
  OBVIOUS
<1>11. PICK new : new = IF up = 1 THEN WithEntry(WithEntry(dinode[i], ".", i), "..", j) ELSE dinode[i]
  OBVIOUS
<1>12. PICK d : d = [new EXCEPT !.nlink = 1]
  OBVIOUS
<1>13. PICK made : made = [dinode EXCEPT ![i] = d]
  OBVIOUS
<1>14. /\ dinode' = [AddLink(made, dp, up) EXCEPT ![j] = WithEntry(@, nm, i)]
       /\ icache' = AddLinkMem([icache EXCEPT ![s].nlink = 1], dp, up)
       /\ Result(p, Iunlockput(dp), s)
  BY <1>2, <1>8, <1>10, <1>11, <1>12, <1>13 DEF Create4
<1>15. DiskTyped' /\ TypesKept
  <2>1. DiskTyped
    BY DEF Inodes
  <2>2. InodeTyped(new) /\ new.type = dinode[i].type
    <3>1. InodeTyped(dinode[i])
      BY <1>9, <2>1 DEF DiskTyped
    <3>2. PICK n1 : n1 = WithEntry(dinode[i], ".", i)
      OBVIOUS
    <3>3. InodeTyped(n1) /\ n1.type = dinode[i].type
      BY <1>9, <3>1, <3>2, WithEntryTyped
    <3>4. InodeTyped(WithEntry(n1, "..", j)) /\ WithEntry(n1, "..", j).type = n1.type
      BY <1>9, <3>3, WithEntryTyped
    <3>. QED
      BY <1>11, <3>1, <3>2, <3>3, <3>4
  <2>3. InodeTyped(d) /\ d.type = dinode[i].type
    BY <1>12, <2>2 DEF InodeTyped
  <2>4. Kin(made)
    BY <1>13, <2>1, <2>3, KinIs, KinSet
  <2>5. Kin(AddLink(made, dp, up))
    BY <2>4, KinLink
  <2>6. PICK disk : disk = AddLink(made, dp, up)
    OBVIOUS
  <2>7. Kin([disk EXCEPT ![j] = WithEntry(@, nm, i)])
    BY <1>9, <2>5, <2>6, KinEntry
  <2>8. dinode' = [disk EXCEPT ![j] = WithEntry(@, nm, i)]
    BY <1>14, <2>6
  <2>. QED
    BY <2>1, <2>7, <2>8, KinDisk
<1>16. Undisturbed
  <2>1. Types /\ CacheSound
    BY <1>1 DEF Inodes, CacheSound
  <2>2. PICK cache : cache = [icache EXCEPT ![s].nlink = 1]
    OBVIOUS
  <2>3. DOMAIN icache = Slots
    BY <1>1 DEF Types
  <2>4. DOMAIN cache = Slots
    BY <2>2, <2>3
  <2>5. \A v \in Slots : /\ DOMAIN cache[v] = DOMAIN icache[v]
                         /\ \A y \in EntryFields \ {"nlink"} : cache[v][y] = icache[v][y]
    <3>1. PICK e : e = [icache[s] EXCEPT !.nlink = 1]
      OBVIOUS
    <3>2. cache = [icache EXCEPT ![s] = e]
      BY <2>2, <3>1
    <3>3. DOMAIN icache[s] = EntryFields
      BY <1>3, <2>1 DEF CacheSound, CacheTyped
    <3>4. DOMAIN e = DOMAIN icache[s] /\ \A y \in EntryFields \ {"nlink"} : e[y] = icache[s][y]
      BY <3>1, <3>3
    <3>5. cache[s] = e /\ \A v \in Slots : v # s => cache[v] = icache[v]
      BY <1>3, <2>3, <3>2
    <3>. QED
      BY <3>4, <3>5
  <2>6. icache' = AddLinkMem(cache, dp, up)
    BY <1>14, <2>2
  <2>7. CacheSound' /\ LocksKept(Procs)
    BY <1>3, <1>15, <2>1, <2>4, <2>5, <2>6, AddLinkSound
  <2>. QED
    BY <1>15, <2>7 DEF Undisturbed
<1>17. LockedAfter(p, s)
  BY <1>3, <1>5, <1>16, StaysLocked DEF Undisturbed, Taking
<1>18. Then(p, Iunlockput(dp)) /\ RegMove(p) /\ reg'[p].r = s
  BY <1>1, <1>14, ResultIs
<1>19. PICK ops : /\ ops = Iunlockput(dp) /\ After(p, ops)
                  /\ \A k \in 1..Len(ops) : ops[k][1] \in {"iunlock", "iput"} /\ ops[k][2] = dp
  BY <1>1, <1>18, PutIs
<1>. QED
  BY <1>0, <1>4, <1>6, <1>16, <1>17, <1>18, <1>19, ReturnSound

LEMMA Locked1 ==
    ASSUME Core, Core', Inodes, NEW p \in Procs, NEW op \in MainOps \ CreateOps, At(p, op),
           Then(p, << <<"open3">> >>), FilesStay, RegMove(p), Undisturbed,
           LockedAfter(p, reg'[p].ip)
    PROVE  Inodes'
<1>1. Types /\ todo[p] # << >> /\ Len(todo[p]) = 1
  BY MainAt
<1>2. PICK b : b = <<"open3">>
  OBVIOUS
<1>3. Few(<<b>>) /\ Len(<<b>>) = 1 /\ <<b>>[1] = b
  BY Ops1
<1>4. PICK ops : ops = <<b>>
  OBVIOUS
<1>5. /\ After(p, ops) /\ Len(ops) = 1 /\ ops[1][1] = "open3"
      /\ \A k \in 1..1 : ~(k < 1) /\ ops[k][1] \notin {"chdir3", "open4"}
  BY <1>1, <1>2, <1>3, <1>4, ThenAfter DEF Few
<1>6. Locks("open3", reg'[p]) = reg'[p].ip
  BY DEF Locks
<1>7. Doing(p)'
  BY <1>1, <1>5, <1>6, NextLocked
<1>. QED
  BY <1>5, <1>7, MainSound

LEMMA Open1Sound ==
    ASSUME Core, Core', Inodes, NEW p \in Procs, Open1(p)
    PROVE  Inodes'
<1>0. At(p, "open1") /\ Move(p, "r", "ip") /\ "open1" \in MainOps \ CreateOps
  BY CallOps DEF Open1
<1>1. /\ Types /\ SlotRefs /\ IsSeq(todo[p]) /\ todo[p] # << >> /\ todo[p][1][1] = "open1"
      /\ Holds("open1", reg[p]) /\ Len(todo[p]) = 1
  BY <1>0, MainAt
<1>2. RegMove(p) /\ reg'[p].ip = reg[p].r
  BY <1>0, <1>1, MoveIs
<1>3. FilesStay /\ Undisturbed
  BY Unmoved DEF Open1, FilesStay, fileVars
<1>4. CASE reg[p].r = 0
  <2>1. Then(p, << <<"end_op">> >>)
    BY <1>4 DEF Open1
  <2>. QED
    BY <1>0, <1>2, <1>3, <2>1, CalmCalls, CallSound
<1>5. CASE reg[p].r # 0 /\ Arg(p, 1) = "create"
  <2>1. Then(p, << <<"open3">> >>)
    BY <1>5 DEF Open1
  <2>2. todo[p][1][2] = "create"
    BY <1>0, <1>1, <1>5, AtFacts
  <2>3. Locked(p, reg[p].r)
    BY <1>1, <1>5, <2>2 DEF Inodes, Doing, Created
  <2>4. reg[p].r \in Slots
    BY <1>1, <1>5 DEF Holds, UsesR
  <2>5. LockedAfter(p, reg[p].r)
    BY <1>1, <1>3, <2>3, <2>4, RefPositive, StaysLocked DEF Undisturbed
  <2>. QED
    BY <1>0, <1>2, <1>3, <2>1, <2>5, Locked1
<1>6. CASE reg[p].r # 0 /\ Arg(p, 1) # "create"
  <2>1. PICK b : b = <<"open2", Arg(p, 1)>>
    OBVIOUS
  <2>2. Then(p, << <<"ilock", reg[p].r>>, b>>) /\ b[1] = "open2"
    BY <1>6, <2>1 DEF Open1
  <2>3. reg[p].r = Locks(b[1], reg'[p])
    BY <1>2, <2>2 DEF Locks
  <2>4. b[1] \in {"open2", "create2", "create4", "chdir2"} /\ b[1] # "create4"
    BY <2>2
  <2>. QED
    BY <1>0, <1>1, <1>2, <1>3, <2>2, <2>3, <2>4, LockThen
<1>. QED
  BY <1>4, <1>5, <1>6

LEMMA Open2Sound ==
    ASSUME Core, Core', Inodes, NEW p \in Procs, Open2(p)
    PROVE  Inodes'
<1>0. At(p, "open2") /\ "open2" \in MainOps \ CreateOps
  BY CallOps DEF Open2
<1>1. /\ Types /\ todo[p] # << >> /\ todo[p][1][1] = "open2" /\ Holds("open2", reg[p])
  BY <1>0, MainAt
<1>2. PICK s : s = reg[p].ip
  OBVIOUS
<1>3. s \in Slots
  BY <1>1, <1>2 DEF Holds, UsesIp
<1>4. FilesStay /\ Undisturbed
  BY Unmoved DEF Open2, FilesStay, fileVars
<1>5. CASE Then(p, Append(Iunlockput(s), <<"end_op">>)) /\ Forget(p, {"ip"})
  <2>1. RegMove(p)
    BY <1>1, <1>5, ForgetIs
  <2>. QED
    BY <1>0, <1>4, <1>5, <2>1, CalmCalls, CallSound
<1>6. CASE Then(p, << <<"open3">> >>) /\ UNCHANGED reg
  <2>1. RegMove(p) /\ reg'[p].ip = s
    BY <1>1, <1>2, <1>6, RegSame
  <2>2. Taking(p, s)
    BY <1>1, <1>2, <1>3, HeldNow DEF Locks
  <2>3. LockedAfter(p, s)
    BY <1>3, <1>4, <2>2, StaysLocked DEF Undisturbed, Taking
  <2>. QED
    BY <1>0, <1>4, <1>6, <2>1, <2>3, Locked1
<1>. QED
  BY <1>2, <1>5, <1>6 DEF Open2

(* A section that comes last and makes the inode it has locked an open      *)
(* file or the current directory.                                          *)
LEMMA TakeSound ==
    ASSUME Core, Core', Inodes, NEW p \in Procs, NEW op \in MainOps \ CreateOps, At(p, op),
           NEW ops, Few(ops), Then(p, ops), \A k \in 1..Len(ops) : ops[k][1] \notin Watched,
           \A k \in 1..Len(ops) : ops[k][1] \in {"chdir3", "open4"} => Taking(p, SlotOf(ops[k])),
           \A k \in 1..Len(ops) : ops[k][1] = "chdir3" => icache[SlotOf(ops[k])].type = "dir",
           UNCHANGED cwd, \A f \in Files : ftable'[f].ip = ftable[f].ip,
           RegMove(p), Undisturbed
    PROVE  Inodes'
<1>1. Types /\ todo[p] # << >> /\ todo[p][1][1] = op /\ Len(todo[p]) = 1
  BY MainAt
<1>2. op \notin {"chdir3", "exit2"}
  BY DEF MainOps, CreateOps, UsesR, UsesIp, UsesDp
<1>3. After(p, ops)
  BY <1>1, ThenAfter DEF Few
<1>4. \A k \in 1..Len(todo'[p]) : todo'[p][k][1] \notin Watched
  BY <1>1, <1>3, Along
<1>5. Doing(p)'
  BY <1>4, PlainDo DEF Core
<1>. QED
  BY <1>1, <1>2, <1>3, <1>5, SectionSound DEF RegMove

LEMMA CalmTake ==
    ASSUME Core, Core', Inodes, NEW p \in Procs, NEW op \in MainOps \ CreateOps, At(p, op),
           NEW ops, CalmSeq(ops), Then(p, ops), UNCHANGED cwd,
           \A f \in Files : ftable'[f].ip = ftable[f].ip, RegMove(p), Undisturbed
    PROVE  Inodes'
<1>1. Few(ops) /\ \A k \in 1..Len(ops) : ops[k][1] \notin Watched \cup {"chdir3", "open4"}
  BY DEF CalmSeq, Calm
<1>. QED
  BY <1>1, TakeSound

LEMMA Open3Sound ==
    ASSUME Core, Core', Inodes, NEW p \in Procs, Open3(p)
    PROVE  Inodes'
<1>0. At(p, "open3") /\ "open3" \in MainOps \ CreateOps
  BY CallOps DEF Open3
<1>1. /\ Types /\ todo[p] # << >> /\ todo[p][1][1] = "open3" /\ Holds("open3", reg[p])
  BY <1>0, MainAt
<1>2. PICK s, f, fd : s = reg[p].ip /\ f = FileAlloc /\ fd = FdAlloc(p)
  OBVIOUS
<1>3. s \in Slots
  BY <1>1, <1>2 DEF Holds, UsesIp
<1>4. /\ ftable' = IF f = 0 THEN ftable ELSE [ftable EXCEPT ![f].ref = 1]
      /\ Then(p, IF f # 0 /\ fd # 0
                 THEN << <<"iunlock", s>>, <<"end_op">>, <<"open4", f, s>> >>
                 ELSE (IF f = 0 THEN << >> ELSE << <<"fclose", f>> >>)
                      \o Append(Iunlockput(s), <<"end_op">>))
      /\ Forget(p, {"ip"}) /\ UNCHANGED <<dinode, icache, cwd>>
  BY <1>2 DEF Open3
<1>5. UNCHANGED cwd /\ \A g \in Files : ftable'[g].ip = ftable[g].ip
  BY <1>2, <1>4, NewFileIp
<1>6. RegMove(p) /\ Undisturbed
  BY <1>1, <1>4, ForgetIs, Unmoved
<1>7. Taking(p, s)
  BY <1>1, <1>2, <1>3, HeldNow DEF Locks
<1>8. CASE f # 0 /\ fd # 0
  <2>1. PICK a, b, c : a = <<"iunlock", s>> /\ b = <<"end_op">> /\ c = <<"open4", f, s>>
    OBVIOUS
  <2>2. Then(p, <<a, b, c>>)
    BY <1>4, <1>8, <2>1
  <2>3. /\ Few(<<a, b, c>>) /\ Len(<<a, b, c>>) = 3 /\ <<a, b, c>>[1] = a /\ <<a, b, c>>[2] = b
        /\ <<a, b, c>>[3] = c
    BY Ops3
  <2>4. PICK ops : ops = <<a, b, c>>
    OBVIOUS
  <2>5. \A k \in 1..3 : ops[k] \in {a, b, c}
    <3>1. \A k \in 1..3 : k = 1 \/ k = 2 \/ k = 3
      OBVIOUS
    <3>. QED
      BY <2>3, <2>4, <3>1
  <2>6. \A y \in {a, b, c} : /\ y[1] \notin Watched /\ y[1] # "chdir3"
                             /\ y[1] = "open4" => SlotOf(y) = s
    BY <2>1 DEF Watched, SlotOf
  <2>7. /\ Few(ops) /\ Then(p, ops) /\ Len(ops) = 3
        /\ \A k \in 1..Len(ops) : ops[k][1] \notin Watched
        /\ \A k \in 1..Len(ops) : ops[k][1] \in {"chdir3", "open4"} => Taking(p, SlotOf(ops[k]))
        /\ \A k \in 1..Len(ops) : ops[k][1] # "chdir3"
    BY <1>7, <2>2, <2>3, <2>4, <2>5, <2>6
  <2>. QED
    BY <1>0, <1>5, <1>6, <2>7, TakeSound
<1>9. ASSUME NEW ops, CalmSeq(ops), Then(p, ops)
      PROVE  Inodes'
  BY <1>0, <1>5, <1>6, <1>9, CalmTake
<1>10. CASE f = 0
  <2>1. Then(p, << >> \o Append(Iunlockput(s), <<"end_op">>))
    BY <1>4, <1>10
  <2>2. << >> \o Append(Iunlockput(s), <<"end_op">>) = Append(Iunlockput(s), <<"end_op">>)
    BY PutOps
  <2>3. Then(p, Append(Iunlockput(s), <<"end_op">>))
    BY <2>1, <2>2
  <2>. QED
    BY <1>9, <2>3, CalmCalls
<1>11. CASE f # 0 /\ fd = 0
  <2>1. PICK a, b, c, e : a = <<"fclose", f>> /\ b = <<"iunlock", s>> /\ c = <<"iput", s>>
                          /\ e = <<"end_op">>
    OBVIOUS
  <2>2. Then(p, <<a>> \o Append(Iunlockput(s), e))
    BY <1>4, <1>11, <2>1
  <2>3. <<a>> \o Append(Iunlockput(s), e) = <<a, b, c, e>>
    BY <2>1, PutOps
  <2>4. Calm(a) /\ Calm(b) /\ Calm(c) /\ Calm(e)
    BY <2>1, CalmAre
  <2>5. CalmSeq(<<a, b, c, e>>)
    BY <2>4, CalmMany
  <2>. QED
    BY <1>9, <2>2, <2>3, <2>5
<1>. QED
  BY <1>8, <1>10, <1>11

LEMMA Link3Sound ==
    ASSUME Core, Core', Inodes, NEW p \in Procs, Link3(p)
    PROVE  Inodes'
<1>0. At(p, "link3") /\ Move(p, "r", "dp") /\ "link3" \in MainOps \ CreateOps
  BY CallOps DEF Link3
<1>1. /\ Types /\ todo[p] # << >> /\ Holds("link3", reg[p]) /\ Len(todo[p]) = 1
  BY <1>0, MainAt
<1>2. RegMove(p) /\ reg'[p].dp = reg[p].r
  BY <1>0, <1>1, MoveIs
<1>3. FilesStay /\ Undisturbed
  BY Unmoved DEF Link3, FilesStay, fileVars
<1>4. PICK s, dp : s = reg[p].ip /\ dp = reg[p].r
  OBVIOUS
<1>5. s \in Slots
  BY <1>1, <1>4 DEF Holds, UsesIp
<1>6. CASE dp = 0
  <2>1. Then(p, << <<"ilock", s>>, <<"link5">> >>)
    BY <1>4, <1>6 DEF Link3, LinkBad
  <2>. QED
    BY <1>0, <1>2, <1>3, <2>1, CalmCalls, CallSound
<1>7. CASE dp # 0
  <2>1. PICK a, b, c : a = <<"ilock", dp>> /\ b = <<"dirlink", dp, reg[p].name, Inum(s)>>
                       /\ c = <<"link4">>
    OBVIOUS
  <2>2. Then(p, <<a, b, c>>)
    BY <1>4, <1>7, <2>1 DEF Link3
  <2>3. /\ Few(<<a, b, c>>) /\ Len(<<a, b, c>>) = 3 /\ <<a, b, c>>[1] = a /\ <<a, b, c>>[2] = b
        /\ <<a, b, c>>[3] = c
    BY Ops3
  <2>4. After(p, <<a, b, c>>)
    BY <1>1, <2>2, <2>3, ThenAfter DEF Few
  <2>5. /\ a[1] = "ilock" /\ b[1] = "dirlink" /\ c[1] = "link4" /\ b[2] = dp /\ b[4] = Inum(s)
    BY <2>1
  <2>6. Inum(s) \in Inums
    BY <1>4, <1>5, InumIs
  <2>7. Doing(p)'
    BY <1>1, <1>2, <1>4, <1>7, <2>4, <2>5, <2>6, Enters
  <2>8. \A k \in 1..Len(<<a, b, c>>) : <<a, b, c>>[k][1] \notin {"chdir3", "open4"}
    <3>1. \A k \in 1..3 : k = 1 \/ k = 2 \/ k = 3
      OBVIOUS
    <3>. QED
      BY <2>3, <2>5, <3>1
  <2>. QED
    BY <1>0, <1>2, <1>3, <2>4, <2>7, <2>8, MainSound
<1>. QED
  BY <1>6, <1>7

LEMMA Chdir1Sound ==
    ASSUME Core, Core', Inodes, NEW p \in Procs, Chdir1(p)
    PROVE  Inodes'
<1>0. At(p, "chdir1") /\ "chdir1" \in MainOps \ CreateOps
  BY CallOps DEF Chdir1
<1>1. Types /\ todo[p] # << >> /\ Len(todo[p]) = 1
  BY <1>0, MainAt
<1>2. RegMove(p) /\ reg'[p].r = reg[p].r
  BY <1>1, RegSame DEF Chdir1
<1>3. FilesStay /\ Undisturbed
  BY Unmoved DEF Chdir1, FilesStay, fileVars
<1>4. CASE reg[p].r = 0
  <2>1. Then(p, << <<"end_op">> >>)
    BY <1>4 DEF Chdir1
  <2>. QED
    BY <1>0, <1>2, <1>3, <2>1, CalmCalls, CallSound
<1>5. CASE reg[p].r # 0
  <2>1. PICK b : b = <<"chdir2">>
    OBVIOUS
  <2>2. Then(p, << <<"ilock", reg[p].r>>, b>>) /\ b[1] = "chdir2"
    BY <1>5, <2>1 DEF Chdir1
  <2>3. reg[p].r = Locks(b[1], reg'[p])
    BY <1>2, <2>2 DEF Locks
  <2>4. b[1] \in {"open2", "create2", "create4", "chdir2"} /\ b[1] # "create4"
    BY <2>2
  <2>. QED
    BY <1>0, <1>1, <1>2, <1>3, <2>2, <2>3, <2>4, LockThen
<1>. QED
  BY <1>4, <1>5

LEMMA Chdir2Sound ==
    ASSUME Core, Core', Inodes, NEW p \in Procs, Chdir2(p)
    PROVE  Inodes'
<1>0. At(p, "chdir2") /\ "chdir2" \in MainOps \ CreateOps
  BY CallOps DEF Chdir2
<1>1. Types /\ todo[p] # << >> /\ todo[p][1][1] = "chdir2" /\ Holds("chdir2", reg[p])
  BY <1>0, MainAt
<1>2. PICK r, d : r = reg[p].r /\ d = cwd[p]
  OBVIOUS
<1>3. r \in Slots
  BY <1>1, <1>2 DEF Holds, UsesR
<1>4. FilesStay /\ Undisturbed /\ RegMove(p)
  BY <1>1, ForgetIs, Unmoved DEF Chdir2, FilesStay, fileVars
<1>5. Taking(p, r)
  BY <1>1, <1>2, <1>3, HeldNow DEF Locks
<1>6. CASE icache[r].type # "dir"
  <2>1. Then(p, Append(Iunlockput(r), <<"end_op">>))
    BY <1>2, <1>6 DEF Chdir2
  <2>. QED
    BY <1>0, <1>4, <2>1, CalmCalls, CallSound
<1>7. CASE icache[r].type = "dir"
  <2>1. PICK a, b, c, e : a = <<"iunlock", r>> /\ b = <<"iput", d>> /\ c = <<"end_op">>
                          /\ e = <<"chdir3", r>>
    OBVIOUS
  <2>2. Then(p, <<a, b, c, e>>)
    BY <1>2, <1>7, <2>1 DEF Chdir2
  <2>3. /\ Few(<<a, b, c, e>>) /\ Len(<<a, b, c, e>>) = 4 /\ <<a, b, c, e>>[1] = a
        /\ <<a, b, c, e>>[2] = b /\ <<a, b, c, e>>[3] = c /\ <<a, b, c, e>>[4] = e
    BY Ops4
  <2>4. PICK ops : ops = <<a, b, c, e>>
    OBVIOUS
  <2>5. \A k \in 1..4 : ops[k] \in {a, b, c, e}
    <3>1. \A k \in 1..4 : k = 1 \/ k = 2 \/ k = 3 \/ k = 4
      OBVIOUS
    <3>. QED
      BY <2>3, <2>4, <3>1
  <2>6. \A y \in {a, b, c, e} : /\ y[1] \notin Watched /\ y[1] # "open4"
                                /\ y[1] = "chdir3" => SlotOf(y) = r
    BY <2>1 DEF Watched, SlotOf
  <2>7. /\ Few(ops) /\ Then(p, ops) /\ Len(ops) = 4
        /\ \A k \in 1..Len(ops) : ops[k][1] \notin Watched
        /\ \A k \in 1..Len(ops) : ops[k][1] \in {"chdir3", "open4"} => Taking(p, SlotOf(ops[k]))
        /\ \A k \in 1..Len(ops) : ops[k][1] = "chdir3" => icache[SlotOf(ops[k])].type = "dir"
    BY <1>5, <1>7, <2>2, <2>3, <2>4, <2>5, <2>6
  <2>8. UNCHANGED cwd /\ \A g \in Files : ftable'[g].ip = ftable[g].ip
    BY <1>4 DEF FilesStay
  <2>. QED
    BY <1>0, <1>4, <2>7, <2>8, TakeSound
<1>. QED
  BY <1>6, <1>7

(* The sections that come last.                                            *)
LEMMA LastSound ==
    ASSUME Core, Core', Inodes, NEW p \in Procs, NEW op \in {"open4", "chdir3", "exit2"}, At(p, op),
           Then(p, << >>), UNCHANGED <<dinode, icache, reg>>,
           \A s \in Slots : \A q \in Procs : Dirs'[q] = s => DirUser(s),
           \A s \in Slots : \A f \in Files : Opened'[f] = s => User(s)
    PROVE  Inodes'
<1>1. op \in TailOps /\ op \in LastOps
  BY DEF TailOps, LastOps
<1>2. Types /\ todo[p] # << >> /\ Len(todo[p]) = 1
  BY <1>1, TailAt
<1>3. After(p, << >>) /\ Len(<< >>) = 0 /\ \A k \in 1..Len(<< >>) : FALSE
  BY <1>2, EmptyAfter
<1>4. UsersFrom(p)
  BY <1>3, UsersAre
<1>5. \A k \in 1..Len(todo'[p]) : FALSE
  BY <1>2, <1>3, Along
<1>6. Doing(p)'
  BY <1>5, PlainDo DEF Core
<1>7. CacheSound' /\ LocksKept(Procs \ {p}) /\ DiskTyped' /\ TypesKept
  BY Unmoved DEF Undisturbed, LocksKept
<1>8. \A q \in Procs : q # p => todo'[q] = todo[q] /\ reg'[q] = reg[q]
  BY <1>3 DEF After
<1>. QED
  BY <1>4, <1>6, <1>7, <1>8, TypesKeptIs, InodesKeep

LEMMA LastIs ==
    ASSUME Core, NEW p \in Procs, NEW op \in {"open4", "chdir3", "exit2"}, At(p, op), Then(p, << >>)
    PROVE  /\ Types /\ 1 \in 1..Len(todo[p]) /\ todo[p][1][1] = op
           /\ Arg(p, 1) = todo[p][1][2] /\ Arg(p, 2) = todo[p][1][3]
           /\ Leaving(p) <=> op \in {"chdir3", "exit2"}
           /\ ~Leaving(p)' /\ \A q \in Procs : q # p => (Leaving(q)' <=> Leaving(q))
<1>1. op \in TailOps /\ op \in LastOps
  BY DEF TailOps, LastOps
<1>2. /\ Types /\ todo[p] # << >> /\ Len(todo[p]) = 1 /\ todo[p][1][1] = op
      /\ Arg(p, 1) = todo[p][1][2] /\ Arg(p, 2) = todo[p][1][3]
  BY <1>1, TailAt
<1>3. After(p, << >>) /\ Len(<< >>) = 0
  BY <1>2, EmptyAfter
<1>4. Len(todo'[p]) = 0 /\ IsSeq(todo'[p]) /\ \A q \in Procs : q # p => todo'[q] = todo[q]
  BY <1>2, <1>3 DEF After
<1>5. todo'[p] = << >>
  BY <1>4, SeqFacts
<1>. QED
  BY <1>2, <1>4, <1>5 DEF Leaving

LEMMA Open4Sound ==
    ASSUME Core, Core', Inodes, NEW p \in Procs, Open4(p)
    PROVE  Inodes'
<1>1. At(p, "open4") /\ Then(p, << >>) /\ UNCHANGED <<dinode, icache, reg, cwd>>
  BY DEF Open4
<1>2. /\ Types /\ 1 \in 1..Len(todo[p]) /\ todo[p][1][1] = "open4"
      /\ Arg(p, 1) = todo[p][1][2] /\ Arg(p, 2) = todo[p][1][3] /\ ~Leaving(p)
      /\ ~Leaving(p)' /\ \A q \in Procs : q # p => (Leaving(q)' <=> Leaving(q))
  BY <1>1, LastIs
<1>3. \A q \in Procs : Dirs'[q] = Dirs[q]
  BY <1>1, <1>2 DEF Dirs
<1>4. PICK f, s : f = Arg(p, 1) /\ s = Arg(p, 2)
  OBVIOUS
<1>5. PICK i : i = Inum(s)
  OBVIOUS
<1>6. ftable' = [ftable EXCEPT ![f] = [@ EXCEPT !.type = "inode", !.ip = s, !.inum = i]]
  BY <1>4, <1>5 DEF Open4
<1>7. \A g \in Files : Opened'[g] = Opened[g] \/ Opened'[g] = s
  BY <1>2, <1>6 DEF Opened, Types, Closed
<1>8. s \in Slots => User(s)
  BY <1>2, <1>4 DEF User, Becoming, SlotOf
<1>9. \A t \in Slots : \A q \in Procs : Dirs'[q] = t => DirUser(t)
  BY <1>3 DEF DirUser
<1>10. \A t \in Slots : \A g \in Files : Opened'[g] = t => User(t)
  BY <1>7, <1>8 DEF User
<1>. QED
  BY <1>1, <1>9, <1>10, LastSound

LEMMA Chdir3Sound ==
    ASSUME Core, Core', Inodes, NEW p \in Procs, Chdir3(p)
    PROVE  Inodes'
<1>1. /\ At(p, "chdir3") /\ Then(p, << >>) /\ UNCHANGED <<dinode, icache, reg, ftable>>
      /\ cwd' = [cwd EXCEPT ![p] = Arg(p, 1)]
  BY DEF Chdir3, fileVars
<1>2. /\ Types /\ 1 \in 1..Len(todo[p]) /\ todo[p][1][1] = "chdir3" /\ Arg(p, 1) = todo[p][1][2]
      /\ ~Leaving(p)' /\ \A q \in Procs : q # p => (Leaving(q)' <=> Leaving(q))
  BY <1>1, LastIs
<1>3. Dirs'[p] = Arg(p, 1) /\ \A q \in Procs : q # p => Dirs'[q] = Dirs[q]
  BY <1>1, <1>2 DEF Dirs, Types
<1>4. Arg(p, 1) \in Slots => DirUser(Arg(p, 1))
  BY <1>2 DEF DirUser, Becoming, SlotOf
<1>5. \A t \in Slots : \A q \in Procs : Dirs'[q] = t => DirUser(t)
  BY <1>3, <1>4 DEF DirUser
<1>6. \A t \in Slots : \A g \in Files : Opened'[g] = t => User(t)
  BY <1>1 DEF User, Opened
<1>. QED
  BY <1>1, <1>5, <1>6, LastSound

LEMMA Exit2Sound ==
    ASSUME Core, Core', Inodes, NEW p \in Procs, Exit2(p)
    PROVE  Inodes'
<1>1. /\ At(p, "exit2") /\ Then(p, << >>) /\ UNCHANGED <<dinode, icache, reg, ftable>>
      /\ cwd' = [cwd EXCEPT ![p] = 0]
  BY DEF Exit2
<1>2. /\ Types /\ ~Leaving(p)' /\ \A q \in Procs : q # p => (Leaving(q)' <=> Leaving(q))
  BY <1>1, LastIs
<1>3. Dirs'[p] = 0 /\ \A q \in Procs : q # p => Dirs'[q] = Dirs[q]
  BY <1>1, <1>2 DEF Dirs, Types
<1>4. \A t \in Slots : \A q \in Procs : Dirs'[q] = t => DirUser(t)
  BY <1>3, SizesAre DEF DirUser
<1>5. \A t \in Slots : \A g \in Files : Opened'[g] = t => User(t)
  BY <1>1 DEF User, Opened
<1>. QED
  BY <1>1, <1>4, <1>5, LastSound
-----------------------------------------------------------------------------
(* A process between two calls does not use an inode that nobody used.     *)
LEMMA IdleSound ==
    ASSUME Core, Core', Inodes, NEW p \in Procs, todo[p] = << >>,
           CacheSound', LocksKept(Procs), UNCHANGED <<dinode, reg>>,
           \A q \in Procs : q # p => todo'[q] = todo[q],
           \A k \in 1..Len(todo'[p]) : todo'[p][k][1] \notin {"chdir3", "open4"},
           \A s \in Slots : \A q \in Procs : Dirs'[q] = s => DirUser(s),
           \A f \in Files : ftable'[f].ip = ftable[f].ip,
           Doing(p)'
    PROVE  Inodes'
<1>1. ASSUME NEW s, NEW S \in {{"chdir3"}, {"open4"}}, Becoming(s, S)'
      PROVE  Becoming(s, S)
  <2>1. PICK q \in Procs :
          \E k \in 1..Len(todo'[q]) : todo'[q][k][1] \in S /\ SlotOf(todo'[q][k]) = s
    BY <1>1 DEF Becoming, SlotOf
  <2>2. q # p
    BY <2>1
  <2>. QED
    BY <2>1, <2>2 DEF Becoming
<1>2. UsersFrom(p)
  <2>. SUFFICES ASSUME NEW s \in Slots
                PROVE  (User(s)' => User(s)) /\ (DirUser(s)' => DirUser(s))
    BY DEF UsersFrom
  <2>1. DirUser(s)' => DirUser(s)
    <3>1. CASE \E q \in Procs : Dirs'[q] = s
      BY <3>1
    <3>2. CASE Becoming(s, {"chdir3"})'
      BY <1>1, <3>2 DEF DirUser
    <3>. QED
      BY <3>1, <3>2 DEF DirUser
  <2>2. User(s)' => User(s)
    <3>1. CASE DirUser(s)'
      BY <2>1, <3>1 DEF User
    <3>2. CASE \E f \in Files : Opened'[f] = s
      BY <3>2 DEF User, Opened, Files
    <3>3. CASE Becoming(s, {"open4"})'
      BY <1>1, <3>3 DEF User
    <3>. QED
      BY <3>1, <3>2, <3>3 DEF User, Files
  <2>. QED
    BY <2>1, <2>2
<1>3. DiskTyped' /\ TypesKept
  BY DiskStays DEF Inodes
<1>4. LocksKept(Procs \ {p})
  BY DEF LocksKept
<1>. QED
  BY <1>2, <1>3, <1>4, TypesKeptIs, InodesKeep

(* The users of a directory stay who they are while no directory changes.  *)
LEMMA DirsIdle ==
    ASSUME Core, NEW p \in Procs, todo[p] = << >>, cwd'[p] = cwd[p],
           \A v \in Procs : v # p => todo'[v] = todo[v] /\ cwd'[v] = cwd[v],
           NEW s \in Slots, NEW q \in Procs, Dirs'[q] = s
    PROVE  DirUser(s)
<1>1. /\ Dirs'[q] = (IF Leaving(q)' THEN 0 ELSE cwd'[q])
      /\ Dirs[q] = (IF Leaving(q) THEN 0 ELSE cwd[q])
  BY DEF Dirs
<1>2. ~Leaving(q)' /\ cwd'[q] = s
  BY <1>1, SizesAre
<1>3. ~Leaving(q) /\ cwd[q] = s
  BY <1>2 DEF Leaving
<1>4. Dirs[q] = s
  BY <1>1, <1>3
<1>. QED
  BY <1>4 DEF DirUser

(* dup(), close(), exit() and the start of a call touch no inode.          *)
LEMMA StartSound ==
    ASSUME Core, Core', Inodes, NEW p \in Procs, todo[p] = << >>,
           UNCHANGED <<dinode, icache, cwd, reg>>,
           \A q \in Procs : q # p => todo'[q] = todo[q],
           \A k \in 1..Len(todo'[p]) : todo'[p][k][1] \notin {"chdir3", "open4"},
           \A f \in Files : ftable'[f].ip = ftable[f].ip,
           Doing(p)'
    PROVE  Inodes'
<1>1. Types /\ CacheSound /\ TypesKept
  BY DiskStays DEF Core, Inodes, CacheSound
<1>2. CacheSound' /\ LocksKept(Procs)
  BY <1>1, CacheSoundStays
<1>3. ASSUME NEW s \in Slots, NEW q \in Procs, Dirs'[q] = s
      PROVE  DirUser(s)
  <2>1. cwd'[p] = cwd[p] /\ \A v \in Procs : v # p => todo'[v] = todo[v] /\ cwd'[v] = cwd[v]
    OBVIOUS
  <2>. QED
    BY <1>3, <2>1, DirsIdle
<1>. QED
  BY <1>2, <1>3, IdleSound

LEMMA DupSound ==
    ASSUME Core, Core', Inodes, NEW p \in Procs, NEW fd \in Fds, Dup(p, fd)
    PROVE  Inodes'
<1>1. Types /\ todo[p] = << >> /\ UNCHANGED <<dinode, icache, cwd, todo, reg>>
  BY DEF Core, Dup, Running, inodeVars
<1>2. \A f \in Files : ftable'[f].ip = ftable[f].ip
  <2>. SUFFICES ASSUME NEW f \in Files
                PROVE  ftable'[f].ip = ftable[f].ip
    OBVIOUS
  <2>. DEFINE g == ofile[p][fd]
  <2>1. ftable' = [ftable EXCEPT ![g] = [ftable[g] EXCEPT !.ref = ftable[g].ref + 1]]
    BY DEF Dup, Filedup
  <2>. HIDE DEF g
  <2>2. f \in DOMAIN ftable
    BY <1>1 DEF Types
  <2>. QED
    BY <2>1, <2>2
<1>3. \A k \in 1..Len(todo'[p]) : FALSE
  BY <1>1
<1>4. Doing(p)'
  BY <1>3, PlainDo DEF Core
<1>. QED
  BY <1>1, <1>2, <1>3, <1>4, StartSound

LEMMA CloseSound ==
    ASSUME Core, Core', Inodes, NEW p \in Procs, NEW fd \in Fds, Close(p, fd)
    PROVE  Inodes'
<1>. DEFINE x == <<"fclose", ofile[p][fd]>>
            n == <<x>>
<1>1. Types /\ todo[p] = << >> /\ UNCHANGED <<dinode, icache, cwd, reg, ftable>>
      /\ todo' = [todo EXCEPT ![p] = n]
  BY DEF Core, Close, Running
<1>2. x[1] = "fclose"
  OBVIOUS
<1>. HIDE DEF x
<1>3. todo'[p] = n /\ \A q \in Procs : q # p => todo'[q] = todo[q]
  BY <1>1 DEF Types
<1>4. \A k \in 1..Len(todo'[p]) : todo'[p][k][1] = "fclose"
  BY <1>2, <1>3, Ops1
<1>5. Doing(p)'
  BY <1>4, PlainDo DEF Core, Watched
<1>. QED
  BY <1>1, <1>3, <1>4, <1>5, StartSound

LEMMA ExitOps ==
    ASSUME NEW c
    PROVE  LET n == [k \in 1..NOFILE |-> <<"exit1", k>>] \o
                    << <<"begin_op">>, <<"iput", c>>, <<"end_op">>, <<"exit2">> >> IN
           \A k \in 1..Len(n) : n[k][1] \in {"exit1", "begin_op", "iput", "end_op", "exit2"}
<1>. DEFINE u == [k \in 1..NOFILE |-> <<"exit1", k>>]
            w == << <<"begin_op">>, <<"iput", c>>, <<"end_op">>, <<"exit2">> >>
            S == {u[k] : k \in 1..NOFILE} \cup {w[k] : k \in 1..4}
            n == u \o w
<1>1. NOFILE \in Nat
  BY SizesAre
<1>2. u \in Seq(S) /\ \A k \in 1..NOFILE : u[k][1] = "exit1"
  <2>1. u \in [1..NOFILE -> S]
    OBVIOUS
  <2>2. \A k \in 1..NOFILE : u[k][1] = "exit1"
    OBVIOUS
  <2>. HIDE DEF u, S
  <2>. QED
    BY <1>1, <2>1, <2>2
<1>3. Len(w) = 4 /\ IsSeq(w) /\ \A k \in 1..4 : w[k][1] \in {"begin_op", "iput", "end_op", "exit2"}
  <2>1. /\ Len(w) = 4 /\ IsSeq(w) /\ w[1] = <<"begin_op">> /\ w[2] = <<"iput", c>>
        /\ w[3] = <<"end_op">> /\ w[4] = <<"exit2">>
    BY Ops4 DEF Few
  <2>. HIDE DEF w
  <2>. QED
    BY <2>1
<1>4. w \in Seq(S)
  <2>. HIDE DEF w
  <2>1. w \in Seq({w[k] : k \in 1..4})
    BY <1>3 DEF IsSeq
  <2>. QED
    BY <2>1
<1>5. \A x \in S : x[1] \in {"exit1", "begin_op", "iput", "end_op", "exit2"}
  <2>. HIDE DEF u, w
  <2>. QED
    BY <1>2, <1>3
<1>. HIDE DEF u, w, S
<1>6. n \in Seq(S)
  BY <1>2, <1>4, ConcatFacts
<1>. HIDE DEF n
<1>7. \A k \in 1..Len(n) : n[k][1] \in {"exit1", "begin_op", "iput", "end_op", "exit2"}
  BY <1>5, <1>6
<1>. QED
  BY <1>7 DEF n, u, w

LEMMA ExitSound ==
    ASSUME Core, Core', Inodes, NEW p \in Procs, Exit(p)
    PROVE  Inodes'
<1>. DEFINE n == [k \in 1..NOFILE |-> <<"exit1", k>>] \o
                 << <<"begin_op">>, <<"iput", cwd[p]>>, <<"end_op">>, <<"exit2">> >>
<1>1. Types /\ todo[p] = << >> /\ UNCHANGED <<dinode, icache, cwd, reg, ftable>>
      /\ todo' = [todo EXCEPT ![p] = n]
  BY DEF Core, Exit, Running, fileVars
<1>2. \A k \in 1..Len(n) : n[k][1] \in {"exit1", "begin_op", "iput", "end_op", "exit2"}
  BY ExitOps
<1>. HIDE DEF n
<1>3. todo'[p] = n /\ \A q \in Procs : q # p => todo'[q] = todo[q]
  BY <1>1 DEF Types
<1>4. \A k \in 1..Len(todo'[p]) : todo'[p][k][1] \in {"exit1", "begin_op", "iput", "end_op", "exit2"}
  BY <1>2, <1>3
<1>5. Doing(p)'
  BY <1>4, PlainDo DEF Core, Watched
<1>. QED
  BY <1>1, <1>3, <1>4, <1>5, StartSound

(* fork(): the child uses the current directory of its parent.             *)
LEMMA ForkSound ==
    ASSUME Core, Core', Inodes, NEW p \in Procs, NEW q \in Procs, Fork(p, q)
    PROVE  Inodes'
<1>1. /\ Types /\ SlotRefs /\ todo[p] = << >> /\ ~Leaving(p) /\ cwd[p] \in Slots
  BY IdleIs DEF Core, Fork
<1>2. /\ icache' = Idup(cwd[p]) /\ cwd' = [cwd EXCEPT ![q] = cwd[p]]
      /\ UNCHANGED <<dinode, todo, reg>>
      /\ \A f \in DOMAIN ftable : \E n : ftable'[f] = [ftable[f] EXCEPT !.ref = n]
  BY DEF Fork
<1>3. CacheSound /\ TypesKept /\ icache[cwd[p]].ref > 0
  BY <1>1, <1>2, DiskStays, RefPositive DEF Inodes, CacheSound
<1>4. CacheSound' /\ LocksKept(Procs)
  BY <1>1, <1>2, <1>3, IdupSound
<1>5. ASSUME NEW f \in Files
      PROVE  ftable'[f].ip = ftable[f].ip
  <2>1. f \in DOMAIN ftable /\ DOMAIN ftable[f] = DOMAIN Closed
    BY <1>1 DEF Types
  <2>2. PICK n : ftable'[f] = [ftable[f] EXCEPT !.ref = n]
    BY <1>2, <2>1
  <2>. QED
    BY <2>1, <2>2 DEF Closed
<1>6. \A k \in 1..Len(todo'[p]) : FALSE
  BY <1>1, <1>2
<1>7. Doing(p)'
  BY <1>6, PlainDo DEF Core
<1>8. ASSUME NEW s \in Slots, NEW v \in Procs, Dirs'[v] = s
      PROVE  DirUser(s)
  <2>1. Dirs'[v] = (IF Leaving(v)' THEN 0 ELSE cwd'[v]) /\ Dirs[v] = (IF Leaving(v) THEN 0 ELSE cwd[v])
        /\ Dirs[p] = cwd[p]
    BY <1>1 DEF Dirs
  <2>2. ~Leaving(v) /\ cwd'[v] = s
    <3>1. ~Leaving(v)' /\ cwd'[v] = s
      BY <1>8, <2>1, SizesAre
    <3>. QED
      BY <1>2, <3>1 DEF Leaving
  <2>3. Dirs[v] = s \/ Dirs[p] = s
    BY <1>1, <1>2, <2>1, <2>2 DEF Types
  <2>. QED
    BY <2>3 DEF DirUser
<1>. QED
  BY <1>1, <1>2, <1>4, <1>5, <1>6, <1>7, <1>8, IdleSound
-----------------------------------------------------------------------------
(* The program of a call: open() with O_CREATE comes after create().       *)
StartOps == {"begin_op", "namex", "create1", "open1", "mk1", "link1", "unlink1", "chdir1", "pipe1"}
SafeProgram(n) ==
    /\ IsSeq(n) /\ \A k \in 1..Len(n) : n[k][1] \in StartOps
    /\ \A k \in 1..Len(n) : n[k][1] = "open1" /\ n[k][2] = "create" =>
         k > 1 /\ n[k - 1][1] = "create1"

LEMMA ThreeOps ==
    ASSUME NEW b, NEW c, b[1] = "namex", c[1] \in StartOps, c[1] = "open1" => c[2] # "create"
    PROVE  SafeProgram(<< <<"begin_op">> >> \o <<b, c>>)
<1>. DEFINE a == <<"begin_op">>
            u == <<a>>
            w == <<b, c>>
            S == {a, b, c}
            n == u \o w
<1>1. u \in Seq(S) /\ Len(u) = 1 /\ u[1] = a /\ w \in Seq(S) /\ Len(w) = 2 /\ w[1] = b /\ w[2] = c
  OBVIOUS
<1>2. a[1] = "begin_op"
  OBVIOUS
<1>. HIDE DEF a, u, w, S
<1>3. IsSeq(n) /\ Len(n) = 3 /\ n[1] = a /\ n[2] = b /\ n[3] = c
  <2>1. /\ n \in Seq(S) /\ Len(n) = Len(u) + Len(w)
        /\ \A k \in 1..(Len(u) + Len(w)) : n[k] = IF k <= Len(u) THEN u[k] ELSE w[k - Len(u)]
    BY <1>1, ConcatFacts
  <2>. HIDE DEF n
  <2>. QED
    BY <1>1, <2>1, SeqIs
<1>. HIDE DEF n
<1>4. \A k \in 1..Len(n) : k = 1 \/ k = 2 \/ k = 3
  BY <1>3
<1>5. SafeProgram(n)
  BY <1>2, <1>3, <1>4 DEF SafeProgram, StartOps
<1>. QED
  BY <1>5 DEF n, u, w, a

LEMMA FourOps ==
    ASSUME NEW b, NEW c, NEW d, b[1] = "namex", c[1] = "create1", d[1] \in {"open1", "mk1"}
    PROVE  SafeProgram(<< <<"begin_op">> >> \o <<b, c, d>>)
<1>. DEFINE n == << <<"begin_op">> >> \o <<b, c, d>>
<1>1. ProgramShape(n)
  BY ProgramFour
<1>2. n[4] = d /\ Len(n) = 4
  OBVIOUS
<1>. HIDE DEF n
<1>3. \A k \in 1..Len(n) : k = 1 \/ k = 2 \/ k = 3 \/ k = 4
  BY <1>2
<1>4. IsSeq(n) /\ n[1] = <<"begin_op">> /\ n[2][1] = "namex" /\ n[3][1] = "create1"
      /\ n[4][1] \in {"open1", "mk1"}
  BY <1>1, <1>2 DEF ProgramShape
<1>5. n[1][1] = "begin_op"
  BY <1>4
<1>6. SafeProgram(n)
  BY <1>3, <1>4, <1>5 DEF SafeProgram, StartOps
<1>. QED
  BY <1>6 DEF n

LEMMA ProgramSafe ==
    ASSUME NEW c \in Calls
    PROVE  SafeProgram(Program(c))
<1>0. c.call \in CallNames /\ (c.call = "open" => c.mode # "create")
  BY FileTableAssumption
<1>1. CASE c.call = "pipe"
  <2>. DEFINE x == <<"pipe1", 0>>
              n == <<x>>
  <2>1. n = Program(c) /\ x[1] = "pipe1"
    BY <1>1 DEF Program
  <2>. HIDE DEF x
  <2>2. IsSeq(n) /\ Len(n) = 1 /\ n[1] = x
    BY Ops1 DEF Few
  <2>. HIDE DEF n
  <2>3. \A k \in 1..Len(n) : k = 1
    BY <2>2
  <2>4. SafeProgram(n)
    BY <2>1, <2>2, <2>3 DEF SafeProgram, StartOps
  <2>. QED
    BY <2>1, <2>4
<1>2. CASE c.call \in {"create", "mkdir", "mknod"}
  <2>1. \E x, y, z : /\ Program(c) = << <<"begin_op">> >> \o <<x, y, z>>
                     /\ x[1] = "namex" /\ y[1] = "create1" /\ z[1] \in {"open1", "mk1"}
    <3>. DEFINE x == <<"namex", c.path, TRUE>>
                y(t) == <<"create1", t>>
                t == IF c.call = "create" THEN "file" ELSE IF c.call = "mkdir" THEN "dir" ELSE "dev"
                z == IF c.call = "create" THEN <<"open1", "create">> ELSE <<"mk1">>
    <3>1. x[1] = "namex" /\ y(t)[1] = "create1" /\ z[1] \in {"open1", "mk1"}
      OBVIOUS
    <3>2. Program(c) = << <<"begin_op">> >> \o <<x, y(t), z>>
      <4>1. CASE c.call = "create"
        BY <4>1 DEF Program
      <4>2. CASE c.call = "mkdir"
        BY <4>2 DEF Program
      <4>3. CASE c.call = "mknod"
        BY <4>3 DEF Program
      <4>. QED
        BY <1>2, <4>1, <4>2, <4>3
    <3>. HIDE DEF x, y, z, t
    <3>. QED
      BY <3>1, <3>2
  <2>. QED
    BY <2>1, FourOps
<1>3. CASE c.call \in {"open", "link", "unlink", "chdir"}
  <2>1. \E x, y : /\ Program(c) = << <<"begin_op">> >> \o <<x, y>>
                  /\ x[1] = "namex" /\ y[1] \in StartOps /\ (y[1] = "open1" => y[2] # "create")
    <3>. DEFINE x(b) == <<"namex", c.path, b>>
    <3>1. \A b : x(b)[1] = "namex"
      OBVIOUS
    <3>2. CASE c.call = "open"
      <4>. DEFINE y == <<"open1", c.mode>>
      <4>1. y[1] = "open1" /\ y[2] # "create" /\ y[1] \in StartOps
        BY <1>0, <3>2 DEF StartOps
      <4>2. Program(c) = << <<"begin_op">> >> \o <<x(FALSE), y>>
        BY <3>2 DEF Program
      <4>. HIDE DEF x, y
      <4>. QED
        BY <3>1, <4>1, <4>2
    <3>3. CASE c.call = "link"
      <4>. DEFINE y == <<"link1", c.new>>
      <4>1. y[1] = "link1" /\ y[1] \in StartOps
        BY DEF StartOps
      <4>2. Program(c) = << <<"begin_op">> >> \o <<x(FALSE), y>>
        BY <3>3 DEF Program
      <4>. HIDE DEF x, y
      <4>. QED
        BY <3>1, <4>1, <4>2
    <3>4. CASE c.call = "unlink"
      <4>. DEFINE y == <<"unlink1">>
      <4>1. y[1] = "unlink1" /\ y[1] \in StartOps
        BY DEF StartOps
      <4>2. Program(c) = << <<"begin_op">> >> \o <<x(TRUE), y>>
        BY <3>4 DEF Program
      <4>. HIDE DEF x, y
      <4>. QED
        BY <3>1, <4>1, <4>2
    <3>5. CASE c.call = "chdir"
      <4>. DEFINE y == <<"chdir1">>
      <4>1. y[1] = "chdir1" /\ y[1] \in StartOps
        BY DEF StartOps
      <4>2. Program(c) = << <<"begin_op">> >> \o <<x(FALSE), y>>
        BY <3>5 DEF Program
      <4>. HIDE DEF x, y
      <4>. QED
        BY <3>1, <4>1, <4>2
    <3>. QED
      BY <1>3, <3>2, <3>3, <3>4, <3>5
  <2>. QED
    BY <2>1, ThreeOps
<1>. QED
  BY <1>0, <1>1, <1>2, <1>3 DEF CallNames

LEMMA CallStartSound ==
    ASSUME Core, Core', Inodes, NEW p \in Procs, NEW c \in Calls, Call(p, c)
    PROVE  Inodes'
<1>. DEFINE n == Program(c)
<1>1. Types /\ todo[p] = << >> /\ UNCHANGED <<dinode, icache, cwd, reg, ftable>>
      /\ todo' = [todo EXCEPT ![p] = n]
  BY DEF Core, Call, Running
<1>2. SafeProgram(n)
  BY ProgramSafe
<1>. HIDE DEF n
<1>3. todo'[p] = n /\ \A q \in Procs : q # p => todo'[q] = todo[q]
  BY <1>1 DEF Types
<1>4. \A k \in 1..Len(todo'[p]) : todo'[p][k][1] \in StartOps
  BY <1>2, <1>3 DEF SafeProgram
<1>5. Held(p)' /\ Fresh(p)' /\ Naming(p)' /\ Freeing(p)'
  BY <1>4 DEF Held, Locks, Fresh, Naming, Freeing, StartOps
<1>6. Created(p)'
  <2>1. Len(n) \in Nat
    BY <1>2, SeqFacts DEF SafeProgram
  <2>2. Len(n) > 0 /\ n[Len(n)][1] = "open1" /\ n[Len(n)][2] = "create" =>
          Len(n) > 1 /\ n[Len(n) - 1][1] \in CreateOps
    BY <1>2, <2>1 DEF SafeProgram, CreateOps
  <2>. QED
    BY <1>3, <2>2 DEF Created, CreateOps
<1>7. Doing(p)'
  BY <1>5, <1>6 DEF Doing
<1>. QED
  BY <1>1, <1>3, <1>4, <1>7, StartSound DEF StartOps

-----------------------------------------------------------------------------
LEMMA SectionsSound ==
    ASSUME Core, Core', Inodes, NEW p \in Procs, ProcNext(p), panicked' = "no"
    PROVE  Inodes'
<1>1. CASE InodeStep(p)
  BY <1>1, InodeSound
<1>2. CASE Fileclose(p)
  BY <1>2, FilecloseSound
<1>3. CASE Create1(p) \/ Create2(p) \/ Create3(p) \/ Create4(p)
  BY <1>3, Create1Sound, Create2Sound, Create3Sound, Create4Sound
<1>4. CASE Open1(p) \/ Open2(p) \/ Open3(p) \/ Open4(p)
  BY <1>4, Open1Sound, Open2Sound, Open3Sound, Open4Sound
<1>5. CASE Link1(p) \/ Link2(p) \/ Link3(p) \/ Link4(p) \/ Link5(p)
  BY <1>5, Link1Sound, Link2Sound, Link3Sound, Link4Sound, Link5Sound
<1>6. CASE Unlink1(p) \/ Unlink2(p) \/ Unlink3(p) \/ Unlink4(p)
  BY <1>6, Unlink1Sound, Unlink2Sound, Unlink3Sound, Unlink4Sound
<1>7. CASE Mk1(p) \/ Chdir1(p) \/ Chdir2(p) \/ Chdir3(p)
  BY <1>7, Mk1Sound, Chdir1Sound, Chdir2Sound, Chdir3Sound
<1>8. CASE Pipe1(p) \/ Pipe2(p) \/ Exit1(p) \/ Exit2(p)
  BY <1>8, Pipe1Sound, Pipe2Sound, Exit1Sound, Exit2Sound
<1>. QED
  BY <1>1, <1>2, <1>3, <1>4, <1>5, <1>6, <1>7, <1>8 DEF ProcNext

LEMMA NextSound ==
    ASSUME Core, Core', Inodes, Next, panicked' = "no"
    PROVE  Inodes'
<1>1. PICK p \in Procs :
        \/ ProcNext(p)
        \/ \E c \in Calls : Call(p, c)
        \/ \E fd \in Fds : Dup(p, fd) \/ Close(p, fd)
        \/ \E q \in Procs : Fork(p, q)
        \/ Exit(p)
  BY DEF Next, Fds
<1>2. CASE ProcNext(p)
  BY <1>2, SectionsSound
<1>3. CASE \E c \in Calls : Call(p, c)
  BY <1>3, CallStartSound
<1>4. CASE \E fd \in Fds : Dup(p, fd) \/ Close(p, fd)
  BY <1>4, DupSound, CloseSound
<1>5. CASE \E q \in Procs : Fork(p, q)
  BY <1>5, ForkSound
<1>6. CASE Exit(p)
  BY <1>6, ExitSound
<1>. QED
  BY <1>1, <1>2, <1>3, <1>4, <1>5, <1>6

LEMMA StutterSound ==
    ASSUME Inodes, UNCHANGED vars
    PROVE  Inodes'
<1>1. UNCHANGED <<dinode, icache, cwd, todo, reg, ftable>>
  BY DEF vars, inodeVars, fileVars
<1>2. \A s : (User(s)' <=> User(s)) /\ (DirUser(s)' <=> DirUser(s))
  BY <1>1 DEF User, DirUser, Becoming, Dirs, Leaving, Opened, SlotOf, Files
<1>3. CacheTyped' /\ Unique' /\ ReadIn' /\ DiskTyped'
  <2>1. CacheTyped' /\ Unique' /\ ReadIn'
    BY <1>1 DEF Inodes, CacheTyped, Unique, ReadIn, EntryFields, Slots, Inums
  <2>2. DiskTyped'
    BY <1>1, DiskStays DEF Inodes
  <2>. QED
    BY <2>1, <2>2
<1>4. InUse'
  BY <1>1, <1>2 DEF Inodes, InUse, Slots
<1>5. ASSUME NEW p \in Procs
      PROVE  Doing(p)'
  <2>1. Held(p)' /\ Created(p)'
    BY <1>1 DEF Inodes, Doing, Held, Created, Locks, Locked, CreateOps, InodeOps
  <2>2. Fresh(p)' /\ Naming(p)'
    BY <1>1 DEF Inodes, Doing, Fresh, Naming, Inums
  <2>3. Freeing(p)'
    BY <1>1, <1>2 DEF Inodes, Doing, Freeing
  <2>. QED
    BY <2>1, <2>2, <2>3 DEF Doing
<1>. QED
  BY <1>3, <1>4, <1>5 DEF Inodes

(* In the beginning the root directory is in use, and nothing else.        *)
LEMMA InitSound ==
    ASSUME Init
    PROVE  Inodes
<1>1. PICK p \in Procs : alive = {p} /\ InodeInit(p)
  BY DEF Init
<1>2. /\ icache = [s \in Slots |->
           [inum |-> IF s = 1 THEN ROOTINO ELSE 0, ref |-> IF s = 1 THEN 1 ELSE 0,
            owner |-> NoProc, valid |-> FALSE, type |-> "none", nlink |-> 0]]
      /\ cwd = [q \in Procs |-> IF q = p THEN 1 ELSE 0]
      /\ todo = [q \in Procs |-> << >>]
      /\ ftable = [f \in Files |-> Closed]
  BY <1>1 DEF Init, InodeInit, Slots, Files
<1>3. /\ dinode = [i \in Inums |-> IF i = ROOTINO
           THEN [type |-> "dir", nlink |-> 1,
                 ents |-> <<[name |-> ".", inum |-> ROOTINO], [name |-> "..", inum |-> ROOTINO]>>]
           ELSE [type |-> "none", nlink |-> 0, ents |-> << >>]]
  BY <1>1 DEF InodeInit
<1>4. ROOTINO \in Inums /\ 1 \in Slots
  <2>1. ROOTINO \in Inums
    BY InodeAssumption DEF Inums, ROOTINO
  <2>2. 1 \in Slots
    BY SizesAre DEF Slots
  <2>. QED
    BY <2>1, <2>2
<1>5. CacheTyped /\ Unique /\ ReadIn
  BY <1>2, <1>4 DEF CacheTyped, Unique, ReadIn, EntryFields
<1>6. DiskTyped
  <2>. SUFFICES ASSUME NEW i \in Inums
                PROVE  InodeTyped(dinode[i])
    BY <1>3 DEF DiskTyped
  <2>1. EntsTyped(<< >>)
    <3>1. << >> \in Seq(Procs)
      OBVIOUS
    <3>2. IsSeq(<< >>)
      BY <3>1, SeqIs
    <3>. QED
      BY <3>2 DEF EntsTyped
  <2>. DEFINE a == [name |-> ".", inum |-> ROOTINO]
              b == [name |-> "..", inum |-> ROOTINO]
              n == <<a, b>>
  <2>2. a.inum = ROOTINO /\ b.inum = ROOTINO
    OBVIOUS
  <2>3. EntsTyped(n)
    <3>. HIDE DEF a, b
    <3>1. n \in Seq({a, b}) /\ Len(n) = 2 /\ n[1] = a /\ n[2] = b
      OBVIOUS
    <3>. HIDE DEF n
    <3>2. \A k \in 1..Len(n) : k = 1 \/ k = 2
      BY <3>1
    <3>. QED
      BY <1>4, <2>2, <3>1, <3>2, SeqIs DEF EntsTyped
  <2>4. \/ dinode[i] = [type |-> "dir", nlink |-> 1, ents |-> n]
        \/ dinode[i] = [type |-> "none", nlink |-> 0, ents |-> << >>]
    BY <1>3
  <2>. HIDE DEF n
  <2>. QED
    BY <2>1, <2>3, <2>4 DEF InodeTyped
<1>7. \A q \in Procs : todo[q] = << >> /\ Len(todo[q]) = 0
  BY <1>2
<1>8. InUse
  <2>. SUFFICES ASSUME NEW s \in Slots, User(s)
                PROVE  dinode[icache[s].inum].type = "dir"
    BY DEF InUse, User
  <2>1. \A S : ~Becoming(s, S)
    BY <1>7 DEF Becoming
  <2>2. \A f \in Files : Opened[f] = 0
    BY <1>2 DEF Opened, Closed
  <2>3. PICK q \in Procs : Dirs[q] = s
    BY <2>1, <2>2, SizesAre DEF User, DirUser
  <2>4. s = 1
    BY <1>2, <2>3, SizesAre DEF Dirs
  <2>5. icache[s].inum = ROOTINO
    BY <1>2, <2>4
  <2>6. dinode[ROOTINO].type = "dir"
    BY <1>3, <1>4
  <2>. QED
    BY <2>5, <2>6
<1>9. ASSUME NEW q \in Procs
      PROVE  Doing(q)
  BY <1>7 DEF Doing, Held, Created, Fresh, Freeing, Naming
<1>. QED
  BY <1>5, <1>6, <1>8, <1>9 DEF Inodes

LEMMA JInvKeeps ==
    ASSUME JInv, [Next]_vars
    PROVE  JInv'
<1>. SUFFICES ASSUME panicked' = "no"
              PROVE  Core' /\ Inodes'
  BY DEF JInv
<1>1. panicked = "no"
  BY NoStepAfterPanic DEF vars, inodeVars
<1>2. Core /\ Inodes
  BY <1>1 DEF JInv
<1>3. Core'
  BY <1>2, IInvKeeps DEF IInv
<1>4. CASE Next
  BY <1>2, <1>3, <1>4, NextSound
<1>5. CASE UNCHANGED vars
  BY <1>2, <1>3, <1>5, StutterSound
<1>. QED
  BY <1>3, <1>4, <1>5

(* What is open or a current directory has a user, which is not free.      *)
LEMMA UsedStay ==
    ASSUME JInv
    PROVE  InUseStays
<1>. SUFFICES ASSUME panicked = "no"
              PROVE  /\ \A f \in DOMAIN ftable : ftable[f].type = "inode" =>
                          /\ icache[ftable[f].ip].ref > 0
                          /\ Inum(ftable[f].ip) = ftable[f].inum
                          /\ dinode[ftable[f].inum].type # "none"
                     /\ \A p \in alive : ~Leaving(p) =>
                          icache[cwd[p]].ref > 0 /\ dinode[Inum(cwd[p])].type = "dir"
                     /\ \A f, g \in DOMAIN ftable :
                          ftable[f].type = "pipe" /\ ftable[g].type = "pipe" /\
                          ftable[f].pipe = ftable[g].pipe /\ ftable[f].end = ftable[g].end => f = g
  BY DEF InUseStays
<1>1. Core /\ Inodes /\ Types /\ Alive /\ Contents
  BY DEF JInv, Core
<1>2. /\ \A f \in DOMAIN ftable : ftable[f].type = "inode" =>
           icache[ftable[f].ip].ref > 0 /\ Inum(ftable[f].ip) = ftable[f].inum
      /\ \A p \in alive : ~Leaving(p) => icache[cwd[p]].ref > 0
      /\ \A f, g \in DOMAIN ftable :
           ftable[f].type = "pipe" /\ ftable[g].type = "pipe" /\
           ftable[f].pipe = ftable[g].pipe /\ ftable[f].end = ftable[g].end => f = g
  BY <1>1, UsedEntries DEF IInv, EntriesKept
<1>3. ASSUME NEW f \in DOMAIN ftable, ftable[f].type = "inode"
      PROVE  dinode[ftable[f].inum].type # "none"
  <2>1. f \in Files
    BY <1>1 DEF Types
  <2>2. ftable[f].ip \in Slots /\ icache[ftable[f].ip].inum = ftable[f].inum
    BY <1>1, <1>3, <2>1 DEF Contents
  <2>3. User(ftable[f].ip)
    BY <2>1 DEF User, Opened
  <2>. QED
    BY <1>1, <2>2, <2>3 DEF Inodes, InUse
<1>4. ASSUME NEW p \in alive, ~Leaving(p)
      PROVE  dinode[Inum(cwd[p])].type = "dir"
  <2>1. p \in Procs /\ cwd[p] \in Slots
    BY <1>1, <1>4 DEF Types, Alive
  <2>2. DirUser(cwd[p])
    BY <1>4, <2>1 DEF DirUser, Dirs
  <2>. QED
    BY <1>1, <2>1, <2>2 DEF Inodes, InUse, Inum
<1>. QED
  BY <1>2, <1>3, <1>4

-----------------------------------------------------------------------------
(* Whatever programs run, and however their calls interleave, every        *)
(* reference is counted once between the calls, and in the middle of them  *)
(* too an open file keeps its inode and a current directory its directory: *)
(* iput() frees only what nobody has open or works in.                     *)
THEOREM SpecReferencesSound == Spec => []ReferencesSound
<1>1. Init => JInv
  BY InitKeeps, InitSound DEF JInv
<1>2. JInv /\ [Next]_vars => JInv'
  BY JInvKeeps
<1>3. JInv => ReferencesSound
  BY QuietCounts, UsedStay DEF JInv, IInv, ReferencesSound
<1>. QED
  BY <1>1, <1>2, <1>3, PTL DEF Spec
=============================================================================

---------------------------- MODULE MachineProofs --------------------------
(***************************************************************************)
(* Proofs about what the processors of the machine share: module Boot,     *)
(* their start, module SpinLock and module Clock, for any number of        *)
(* processors, pages, locks and processes; and about module Log, the disk  *)
(* through crashes of the machine, for any number of operations and blocks.*)
(*                                                                         *)
(* PagesGivenOnce is not inductive: kalloc() and kfree() read the head of  *)
(* the list and write it later, at first without a lock, and the stack of  *)
(* a processor passes through the one word at code - 4.  IInv adds how far *)
(* each processor is when CPU 0 is at a line of main(), who is between its *)
(* read and its write of the list, and that every page is in one place.    *)
(*                                                                         *)
(* Nor is exclusion: it depends on what each call of acquire() and         *)
(* release() has done so far.  SpinIInv relates ncli, the interrupt flag,  *)
(* locked and cpu to the calls that are under way.                         *)
(*                                                                         *)
(* ClockIInv says that the unsigned difference of ticks and ticks0 is at   *)
(* most the ticks that have passed since the call of sleep().              *)
(*                                                                         *)
(* LogInv says, for each phase of commit() and of the recovery, which      *)
(* blocks of the cache, the log and the disk agree, and that the log does  *)
(* not outgrow what begin_op() has reserved.                               *)
(***************************************************************************)
EXTENDS Boot, SpinLock, Clock, Log, FiniteSetTheorems, FunctionTheorems,
        SequenceTheorems, TLAPS

Pages == 1..(Early + Late)

(* The first processor frees the pages of kinit1().                        *)
Kinit1At == {"kinit1", "kfree1"}

(* kinit2() and what comes after it                                        *)
Kinit2At == {"startothers", "kfree2"}
AfterKinit2 == {"userinit", "mpmain", "scheduler", "work"}

(* Between the read and the write of the head of the list.                 *)
InList == {"kfree1", "kalloc", "kfree2", "work"}

Types ==
    /\ doing \in [CPUs -> Kinit1At \cup Kinit2At \cup AfterKinit2 \cup
                        {"off", "kalloc", "wait", "entry"}]
    /\ tmp \in [CPUs -> Seq(Pages)] /\ freelist \in Seq(Pages) /\ todo \in Seq(Pages)
    /\ started \in SUBSET CPUs /\ slot \in 0..(Early + Late)
    /\ stack \in [CPUs -> -1..(Early + Late)] /\ pages \in [CPUs -> SUBSET Pages]
    /\ useLock \in BOOLEAN /\ lock \in CPUs \cup {-1}
    /\ next \in 0..NCPU /\ ready \in BOOLEAN

(* CPU 0: what it has done when it is at a line of main().                 *)
FirstAt ==
    /\ doing[0] \in Kinit1At \cup Kinit2At \cup AfterKinit2 \cup {"kalloc", "wait"}
    /\ doing[0] \in Kinit1At <=> next = 0
    /\ doing[0] \in {"kalloc", "wait"} => next < NCPU
    /\ doing[0] \in AfterKinit2 \cup {"kfree2"} => next = NCPU
    /\ doing[0] \in AfterKinit2 <=> useLock
    /\ ready => doing[0] \in {"mpmain", "scheduler", "work"}
    /\ doing[0] \in Kinit1At => \A c \in CPUs : stack[c] <= 0

(* The others: started one by one, and the last has said that it is up     *)
(* before CPU 0 goes on.                                                   *)
OthersAt ==
    /\ \A c \in CPUs \ {0} :
         /\ c < next => doing[c] \in {"scheduler", "work"}
         /\ c = next => doing[c] \in IF doing[0] = "wait" THEN {"entry", "mpmain", "scheduler"}
                                   ELSE {"off"}
         /\ c > next => doing[c] = "off"
    /\ \A c \in started : doing[c] \in {"scheduler", "work"}
    /\ \A c \in CPUs : doing[c] = "work" => ready
    /\ ~ready => \A c \in CPUs : pages[c] = {}

(* One processor at a time is in kalloc() or kfree(), the one that has the *)
(* lock once there is one, and what it has read is still the list.         *)
OneInList ==
    /\ \A c \in CPUs : doing[c] \in InList => tmp[c] = freelist
    /\ \A c \in CPUs : useLock => (doing[c] \in InList <=> lock = c)
    /\ ~useLock => lock = -1
    /\ \A c \in CPUs : doing[c] = "work" => freelist # << >>
    /\ doing[0] \in {"kfree1", "kfree2"} => todo # << >>

(* Every page is in one place: in the list, still to be freed, in the word *)
(* at code - 4, the stack of a processor, or in use.                       *)
InSlot == \E c \in CPUs : doing[c] = "entry"
Given(g) ==
    \/ \E c \in CPUs : stack[c] = g \/ g \in pages[c]
    \/ InSlot /\ slot = g
Distinct(s) == \A i, j \in 1..Len(s) : s[i] = s[j] => i = j
OnePlace ==
    /\ Distinct(freelist) /\ Distinct(todo)
    /\ \A i \in 1..Len(freelist), j \in 1..Len(todo) : freelist[i] # todo[j]
    /\ \A i \in 1..Len(freelist) : ~Given(freelist[i])
    /\ \A i \in 1..Len(todo) : ~Given(todo[i])
    /\ \A c, d \in CPUs : c # d => (stack[c] > 0 => stack[c] # stack[d])
                                   /\ pages[c] \cap pages[d] = {}
    /\ \A c, d \in CPUs : stack[c] \notin pages[d]
    /\ InSlot => slot \in Pages /\ \A c \in CPUs : stack[c] # slot /\ slot \notin pages[c]
    /\ doing[0] \in Kinit1At =>
         /\ \A i \in 1..Len(freelist) : freelist[i] <= Early
         /\ \A i \in 1..Len(todo) : todo[i] <= Early

IInv == Types /\ FirstAt /\ OthersAt /\ OneInList /\ OnePlace


-----------------------------------------------------------------------------
(* <<g>> \o s, as kfree() makes it.                                        *)
LEMMA ConsIs ==
    ASSUME NEW S, NEW s \in Seq(S), NEW g \in S
    PROVE  /\ <<g>> \o s \in Seq(S) /\ Len(<<g>> \o s) = Len(s) + 1
           /\ (<<g>> \o s)[1] = g
           /\ \A i \in 1..Len(s) : (<<g>> \o s)[i + 1] = s[i]
           /\ \A i \in 2..(Len(s) + 1) : (<<g>> \o s)[i] = s[i - 1] /\ i - 1 \in 1..Len(s)
<1>1. <<g>> \in Seq(S) /\ Len(<<g>>) = 1 /\ <<g>>[1] = g
  OBVIOUS
<1> QED  BY <1>1

(* The list without its head, as kalloc() leaves it.                       *)
LEMMA TailIs ==
    ASSUME NEW S, NEW s \in Seq(S), s # << >>
    PROVE  /\ Head(s) = s[1] /\ Head(s) \in S /\ 1 \in 1..Len(s)
           /\ Tail(s) \in Seq(S) /\ Len(Tail(s)) = Len(s) - 1 /\ Len(s) \in Nat
           /\ \A i \in 1..(Len(s) - 1) : Tail(s)[i] = s[i + 1] /\ i + 1 \in 1..Len(s)
  OBVIOUS

(* No two places of a list without repetitions hold the same page after    *)
(* one is taken from the front or put there.                               *)
LEMMA DistinctTail ==
    ASSUME NEW S, NEW s \in Seq(S), s # << >>, Distinct(s)
    PROVE  Distinct(Tail(s)) /\ \A i \in 1..Len(Tail(s)) : Tail(s)[i] # Head(s)
  BY TailIs DEF Distinct
LEMMA DistinctCons ==
    ASSUME NEW S, NEW s \in Seq(S), NEW g \in S, Distinct(s), \A i \in 1..Len(s) : s[i] # g
    PROVE  Distinct(<<g>> \o s)
<1> DEFINE t == <<g>> \o s
<1>1. /\ Len(t) = Len(s) + 1 /\ t[1] = g /\ Len(s) \in Nat
      /\ \A i \in 2..(Len(s) + 1) : t[i] = s[i - 1] /\ i - 1 \in 1..Len(s)
  BY ConsIs
<1> HIDE DEF t
<1>2. ASSUME NEW i \in 1..Len(t), NEW j \in 1..Len(t), t[i] = t[j]
      PROVE  i = j
  <2>1. CASE i = 1 /\ j = 1  BY <2>1
  <2>2. CASE i = 1 /\ j # 1
    <3>1. j \in 2..(Len(s) + 1)  BY <1>1, <2>2
    <3> QED  BY <1>1, <1>2, <2>2, <3>1
  <2>3. CASE i # 1 /\ j = 1
    <3>1. i \in 2..(Len(s) + 1)  BY <1>1, <2>3
    <3> QED  BY <1>1, <1>2, <2>3, <3>1
  <2>4. CASE i # 1 /\ j # 1
    <3>1. i \in 2..(Len(s) + 1) /\ j \in 2..(Len(s) + 1)  BY <1>1, <2>4
    <3>2. s[i - 1] = s[j - 1] /\ i - 1 \in 1..Len(s) /\ j - 1 \in 1..Len(s)
      BY <1>1, <1>2, <3>1
    <3>3. i - 1 = j - 1  BY <3>2 DEF Distinct
    <3> QED  BY <3>1, <3>3
  <2> QED  BY <2>1, <2>2, <2>3, <2>4
<1> QED  BY <1>2 DEF Distinct, t

(* The processors are numbered from 0.                                     *)
LEMMA FirstCpu ==
    ASSUME BootAssumption
    PROVE  /\ NCPU \in Nat \ {0} /\ Early \in Nat /\ Late \in Nat
           /\ 0 \in CPUs /\ CPUs \subseteq Nat /\ \A c \in CPUs : c < NCPU
           /\ Pages \subseteq Nat \ {0}
  BY DEF BootAssumption, CPUs, Pages

-----------------------------------------------------------------------------
(* freerange() has its pages in order.                                     *)
LEMMA FirstIs ==
    ASSUME BootAssumption
    PROVE  /\ First \in Seq(Pages) /\ Distinct(First)
           /\ Len(First) = Early /\ \A i \in 1..Early : First[i] = i
<1>1. First \in [1..Early -> Pages]
  BY FirstCpu DEF First, Pages
<1>2. First \in Seq(Pages) /\ Len(First) = Early
  BY <1>1, FirstCpu
<1> QED  BY <1>2 DEF First, Distinct
LEMMA SecondIs ==
    ASSUME BootAssumption
    PROVE  /\ Second \in Seq(Pages) /\ Distinct(Second)
           /\ Len(Second) = Late /\ \A i \in 1..Late : Second[i] = Early + i
<1>1. Second \in [1..Late -> Pages]
  BY FirstCpu DEF Second, Pages
<1>2. Second \in Seq(Pages) /\ Len(Second) = Late
  BY <1>1, FirstCpu
<1> QED  BY <1>2, FirstCpu DEF Second, Distinct

LEMMA InitIInv == BootAssumption /\ BootInit => IInv
<1> SUFFICES ASSUME BootAssumption, BootInit
             PROVE  IInv
  OBVIOUS
<1> USE FirstCpu
<1>0. freelist = << >> /\ Len(freelist) = 0  BY DEF BootInit
<1>1. Types
  <2>1. << >> \in Seq(Pages)  OBVIOUS
  <2>2. /\ doing \in [CPUs -> Kinit1At \cup Kinit2At \cup AfterKinit2 \cup
                            {"off", "kalloc", "wait", "entry"}]
        /\ stack \in [CPUs -> -1..(Early + Late)] /\ pages \in [CPUs -> SUBSET Pages]
    BY DEF BootInit, Kinit1At
  <2>3. tmp \in [CPUs -> Seq(Pages)] /\ freelist \in Seq(Pages) /\ todo \in Seq(Pages)
    BY <2>1, FirstIs DEF BootInit
  <2>4. /\ started \in SUBSET CPUs /\ slot \in 0..(Early + Late)
        /\ useLock \in BOOLEAN /\ lock \in CPUs \cup {-1}
        /\ next \in 0..NCPU /\ ready \in BOOLEAN
    <3>1. started \in SUBSET CPUs /\ lock \in CPUs \cup {-1}  BY DEF BootInit
    <3>2. slot \in 0..(Early + Late) /\ next \in 0..NCPU  BY DEF BootInit
    <3>3. useLock \in BOOLEAN /\ ready \in BOOLEAN  BY Zenon DEF BootInit
    <3> QED  BY <3>1, <3>2, <3>3
  <2> QED  BY <2>2, <2>3, <2>4, Zenon DEF Types
<1>2. FirstAt  BY DEF BootInit, FirstAt, Kinit1At, Kinit2At, AfterKinit2
<1>3. OthersAt  BY DEF BootInit, OthersAt
<1>4. OneInList  BY DEF BootInit, OneInList, InList
<1>5. OnePlace
  <2>1. ~InSlot  BY DEF InSlot, BootInit
  <2>2. \A c \in CPUs : stack[c] \in {-1, 0} /\ pages[c] = {}  BY DEF BootInit
  <2>3. todo = First  BY DEF BootInit
  <2>4. \A i \in 1..Len(todo) : todo[i] = i /\ i <= Early /\ i \in Nat /\ i # 0
    BY <2>3, FirstIs
  <2>5. \A i \in 1..Len(todo) : ~Given(todo[i])  BY <2>1, <2>2, <2>4 DEF Given
  <2>6. Distinct(freelist)  BY <1>0 DEF Distinct
  <2> QED  BY <1>0, <2>1, <2>2, <2>3, <2>4, <2>5, <2>6, FirstIs DEF OnePlace
<1> QED  BY <1>1, <1>2, <1>3, <1>4, <1>5 DEF IInv

-----------------------------------------------------------------------------
(* The other processors are never where main() of CPU 0 is.                *)
LEMMA OtherPlaces ==
    ASSUME BootAssumption, Types, OthersAt, NEW c \in CPUs, c # 0
    PROVE  doing[c] \in {"off", "entry", "mpmain", "scheduler", "work"}
<1>1. next \in Nat /\ c \in Nat  BY FirstCpu DEF Types
<1>2. c < next \/ c = next \/ c > next  BY <1>1
<1> QED  BY <1>2 DEF OthersAt

(* Before kinit2() has switched the lock on, only CPU 0 has to do with the *)
(* list.                                                                   *)
LEMMA AloneInList ==
    ASSUME BootAssumption, Types, FirstAt, OthersAt, ~useLock, NEW c \in CPUs, c # 0
    PROVE  doing[c] \notin InList
<1>1. ~ready  BY DEF FirstAt, AfterKinit2
<1>2. doing[c] # "work"  BY <1>1 DEF OthersAt
<1> QED  BY <1>2, OtherPlaces DEF InList

(* Who is in kalloc() or kfree() is alone there.                           *)
LEMMA NobodyElse ==
    ASSUME BootAssumption, IInv, NEW c \in CPUs, NEW d \in CPUs, doing[c] \in InList,
           doing[d] \in InList
    PROVE  c = d
<1>1. CASE useLock  BY <1>1 DEF IInv, OneInList
<1>2. CASE ~useLock
  <2>1. Types /\ FirstAt /\ OthersAt  BY DEF IInv
  <2>2. c = 0 /\ d = 0  BY <1>2, <2>1, AloneInList
  <2> QED  BY <2>2
<1> QED  BY <1>1, <1>2

(* Steps that move no page.                                                *)
LEMMA OnePlaceSame ==
    ASSUME OnePlace, UNCHANGED <<freelist, slot, stack, todo, pages>>,
           InSlot' => InSlot, doing'[0] \in Kinit1At => doing[0] \in Kinit1At
    PROVE  OnePlace'
<1>1. \A g : Given(g)' => Given(g)  BY DEF Given
<1> QED  BY <1>1 DEF OnePlace, Distinct

(* kalloc() and kfree() read the head of the list.                         *)
LEMMA ReadsStep ==
    ASSUME BootAssumption, IInv, NEW c \in CPUs, NEW from, NEW to, Reads(c, from, to),
           \/ c = 0 /\ from = "kinit1" /\ to = "kfree1" /\ todo # << >>
           \/ c = 0 /\ from = "startothers" /\ to = "kalloc" /\ next < NCPU
           \/ c = 0 /\ from = "startothers" /\ to = "kfree2" /\ next = NCPU /\ todo # << >>
           \/ from = "scheduler" /\ to = "work" /\ ready /\ freelist # << >>
    PROVE  IInv'
<1>1. Types /\ FirstAt /\ OthersAt /\ OneInList /\ OnePlace  BY DEF IInv
<1>2. /\ doing[c] = from /\ doing' = [doing EXCEPT ![c] = to]
      /\ useLock => lock = -1
      /\ lock' = IF useLock THEN c ELSE lock
      /\ tmp' = [tmp EXCEPT ![c] = freelist]
      /\ UNCHANGED <<started, slot, stack, freelist, useLock, todo, next, ready, pages>>
  BY DEF Reads, Goes
<1>3. /\ doing'[c] = to /\ \A d \in CPUs : d # c => doing'[d] = doing[d] /\ tmp'[d] = tmp[d]
      /\ tmp'[c] = freelist
  BY <1>1, <1>2 DEF Types
<1>4. Types'
  <2>1. doing' \in [CPUs -> Kinit1At \cup Kinit2At \cup AfterKinit2 \cup
                          {"off", "kalloc", "wait", "entry"}]
    BY <1>1, <1>2 DEF Types, Kinit1At, Kinit2At, AfterKinit2
  <2>2. tmp' \in [CPUs -> Seq(Pages)]  BY <1>1, <1>2 DEF Types
  <2>3. lock' \in CPUs \cup {-1}  BY <1>1, <1>2 DEF Types
  <2> QED  BY <1>1, <1>2, <2>1, <2>2, <2>3 DEF Types
<1>5. from # to /\ from \notin InList /\ to \in InList /\ from # "entry" /\ to # "entry"
      /\ (to = "work" => from = "scheduler" /\ ready)
  BY DEF InList
<1>6. FirstAt'
  <2>1. CASE c # 0
    <3>1. doing'[0] = doing[0]  BY <1>3, <2>1, FirstCpu
    <3> QED  BY <1>1, <1>2, <3>1 DEF FirstAt
  <2>2. CASE c = 0
    BY <1>1, <1>2, <1>3, <2>2 DEF FirstAt, Kinit1At, Kinit2At, AfterKinit2
  <2> QED  BY <2>1, <2>2
<1>7. OthersAt'
  <2>1. \A d \in CPUs : d # 0 =>
          doing'[d] = doing[d] \/ (doing[d] = "scheduler" /\ doing'[d] = "work" /\ ready)
    <3>1. c # 0 => from = "scheduler" /\ to = "work" /\ ready  OBVIOUS
    <3>2. ASSUME NEW d \in CPUs, d # 0, d = c
          PROVE  doing[d] = "scheduler" /\ doing'[d] = "work" /\ ready
      BY <1>2, <1>3, <3>1, <3>2
    <3>3. ASSUME NEW d \in CPUs, d # c
          PROVE  doing'[d] = doing[d]
      BY <1>3, <3>3
    <3> QED  BY <3>2, <3>3
  <2>2. doing'[0] = "wait" <=> doing[0] = "wait"
    BY <1>2, <1>3, FirstCpu
  <2>3. \A d \in CPUs : doing[d] \in {"scheduler", "work"} => doing'[d] \in {"scheduler", "work"}
    BY <1>2, <1>3
  <2>4. ready => doing[0] # "wait" /\ next = NCPU
    BY <1>1 DEF FirstAt, AfterKinit2
  <2>5. \A d \in CPUs : doing'[d] = "work" => ready
    BY <1>1, <1>2, <1>3, <1>5 DEF OthersAt
  <2>6. ASSUME NEW d \in CPUs \ {0}
        PROVE  /\ d < next => doing'[d] \in {"scheduler", "work"}
               /\ d = next => doing'[d] \in IF doing'[0] = "wait" THEN {"entry", "mpmain", "scheduler"}
                                          ELSE {"off"}
               /\ d > next => doing'[d] = "off"
    <3>1. CASE doing'[d] = doing[d]  BY <1>1, <2>2, <3>1 DEF OthersAt
    <3>2. CASE doing'[d] # doing[d]
      <4>1. d < next /\ next = NCPU /\ d \in Nat
        BY <2>1, <2>4, <2>6, <3>2, FirstCpu
      <4> QED  BY <2>1, <2>6, <3>2, <4>1, FirstCpu
    <3> QED  BY <3>1, <3>2
  <2> QED  BY <1>1, <1>2, <2>3, <2>5, <2>6 DEF OthersAt
<1>8. \A d \in CPUs : doing[d] \notin InList
  <2>1. CASE useLock
    BY <1>1, <1>2, <2>1, FirstCpu DEF OneInList
  <2>2. CASE ~useLock
    <3>1. c = 0  BY <1>1, <2>2 DEF FirstAt, AfterKinit2
    <3> QED  BY <1>1, <1>2, <1>5, <2>2, <3>1, AloneInList
  <2> QED  BY <2>1, <2>2
<1>9. OneInList'
  <2>1. \A d \in CPUs : d # c => doing'[d] \notin InList  BY <1>3, <1>8
  <2>2. \A d \in CPUs : doing'[d] \in InList => tmp'[d] = freelist'  BY <1>2, <1>3, <2>1
  <2>3. \A d \in CPUs : useLock' => (doing'[d] \in InList <=> lock' = d)
    BY <1>2, <1>3, <1>5, <2>1
  <2>4. ~useLock' => lock' = -1  BY <1>1, <1>2 DEF OneInList
  <2>5. \A d \in CPUs : doing'[d] = "work" => freelist' # << >>
    BY <1>2, <1>3, <2>1 DEF InList
  <2>6. doing'[0] \in {"kfree1", "kfree2"} => todo' # << >>
    BY <1>2, <1>3, <2>1, FirstCpu DEF InList
  <2> QED  BY <2>2, <2>3, <2>4, <2>5, <2>6 DEF OneInList
<1>10. OnePlace'
  <2>1. InSlot' => InSlot  BY <1>2, <1>3, <1>5 DEF InSlot
  <2>2. doing'[0] \in Kinit1At => doing[0] \in Kinit1At  BY <1>2, <1>3, FirstCpu DEF Kinit1At
  <2> QED  BY <1>1, <1>2, <2>1, <2>2, OnePlaceSame
<1> QED  BY <1>4, <1>6, <1>7, <1>9, <1>10 DEF IInv

(* kfree() puts the page in front of the list it has read.                 *)
LEMMA KfreeStep ==
    ASSUME BootAssumption, IInv, NEW from, NEW to, Kfree(from, to),
           <<from, to>> \in {<<"kfree1", "kinit1">>, <<"kfree2", "startothers">>}
    PROVE  IInv'
<1> DEFINE g == Head(todo)
<1>1. Types /\ FirstAt /\ OthersAt /\ OneInList /\ OnePlace  BY DEF IInv
<1>2. \/ from = "kfree1" /\ to = "kinit1"
      \/ from = "kfree2" /\ to = "startothers"
  OBVIOUS
<1>3. /\ doing[0] = from /\ doing' = [doing EXCEPT ![0] = to] /\ todo # << >>
      /\ freelist' = <<g>> \o tmp[0] /\ todo' = Tail(todo)
      /\ UNCHANGED <<tmp, started, slot, stack, useLock, next, ready, pages>>
  BY DEF Kfree, Goes
<1>4. ~useLock /\ lock' = lock /\ ~ready /\ lock = -1
  BY <1>1, <1>2, <1>3 DEF Kfree, Unlocked, FirstAt, AfterKinit2, OneInList
<1>5. freelist' = <<g>> \o freelist
  BY <1>1, <1>2, <1>3, FirstCpu DEF OneInList, InList
<1>6. freelist \in Seq(Pages) /\ todo \in Seq(Pages)  BY <1>1 DEF Types
<1>7. /\ g = todo[1] /\ g \in Pages /\ 1 \in 1..Len(todo)
      /\ todo' \in Seq(Pages) /\ Len(todo') = Len(todo) - 1 /\ Len(todo) \in Nat
      /\ \A i \in 1..Len(todo') : todo'[i] = todo[i + 1] /\ i + 1 \in 1..Len(todo)
  BY <1>3, <1>6, TailIs
<1>8. /\ freelist' \in Seq(Pages) /\ Len(freelist') = Len(freelist) + 1
      /\ freelist'[1] = g /\ Len(freelist) \in Nat
      /\ \A i \in 2..Len(freelist') : freelist'[i] = freelist[i - 1] /\ i - 1 \in 1..Len(freelist)
  BY <1>5, <1>6, <1>7, ConsIs
<1> HIDE DEF g
<1>9. /\ doing'[0] = to /\ \A d \in CPUs : d # 0 => doing'[d] = doing[d]
  BY <1>1, <1>3, FirstCpu DEF Types
<1>10. Types'
  <2>1. doing' \in [CPUs -> Kinit1At \cup Kinit2At \cup AfterKinit2 \cup
                          {"off", "kalloc", "wait", "entry"}]
    BY <1>1, <1>2, <1>3 DEF Types, Kinit1At, Kinit2At
  <2> QED  BY <1>1, <1>3, <1>4, <1>7, <1>8, <2>1 DEF Types
<1>11. FirstAt'
  BY <1>1, <1>2, <1>3, <1>4, <1>9 DEF FirstAt, Kinit1At, Kinit2At, AfterKinit2
<1>12. OthersAt'
  <2>1. \A c \in started : doing'[c] \in {"scheduler", "work"}
    BY <1>1, <1>2, <1>3, <1>9 DEF OthersAt, Types
  <2>2. \A c \in CPUs : doing'[c] # "work"  BY <1>1, <1>2, <1>4, <1>9 DEF OthersAt
  <2>3. doing'[0] # "wait" /\ doing[0] # "wait"  BY <1>2, <1>3, <1>9
  <2> QED  BY <1>1, <1>3, <1>9, <2>1, <2>2, <2>3 DEF OthersAt
<1>13. OneInList'
  <2>1. \A c \in CPUs : doing'[c] \notin InList
    <3>1. to \notin InList  BY <1>2 DEF InList
    <3> QED  BY <1>1, <1>4, <1>9, <3>1, AloneInList
  <2>2. \A c \in CPUs : doing'[c] # "work"  BY <2>1 DEF InList
  <2>3. doing'[0] \notin {"kfree1", "kfree2"}  BY <1>2, <1>9
  <2> QED  BY <1>3, <1>4, <2>1, <2>2, <2>3 DEF OneInList
<1>14. OnePlace'
  <2>1. InSlot' <=> InSlot
    BY <1>2, <1>3, <1>9, FirstCpu DEF InSlot
  <2>2. \A h : Given(h)' <=> Given(h)  BY <1>3, <2>1 DEF Given
  <2>3. Distinct(freelist)' /\ Distinct(todo)'
    <3>1. \A i \in 1..Len(freelist) : freelist[i] # g  BY <1>1, <1>7 DEF OnePlace
    <3>2. Distinct(Tail(todo))  BY <1>1, <1>3, <1>6, DistinctTail DEF OnePlace
    <3>3. Distinct(<<g>> \o freelist)  BY <1>1, <1>6, <1>7, <3>1, DistinctCons DEF OnePlace
    <3> QED  BY <1>3, <1>5, <3>2, <3>3
  <2>4. \A i \in 1..Len(freelist') : freelist'[i] = g \/ \E j \in 1..Len(freelist) : freelist'[i] = freelist[j]
    <3>1. ASSUME NEW i \in 1..Len(freelist'), i # 1
          PROVE  \E j \in 1..Len(freelist) : freelist'[i] = freelist[j]
      <4>1. i \in 2..Len(freelist')  BY <1>8, <3>1
      <4> QED  BY <1>8, <4>1
    <3> QED  BY <1>8, <3>1
  <2>5. \A i \in 1..Len(todo') : todo'[i] # g
    BY <1>1, <1>3, <1>6, TailIs, DistinctTail DEF g, OnePlace
  <2>6. \A i \in 1..Len(freelist'), j \in 1..Len(todo') : freelist'[i] # todo'[j]
    BY <1>1, <1>7, <2>4, <2>5 DEF OnePlace
  <2>7. \A i \in 1..Len(freelist') : ~Given(freelist'[i])
    BY <1>1, <1>7, <2>4 DEF OnePlace
  <2>8. \A i \in 1..Len(todo') : ~Given(todo'[i])
    BY <1>1, <1>7 DEF OnePlace
  <2>9. doing'[0] \in Kinit1At =>
          /\ \A i \in 1..Len(freelist') : freelist'[i] <= Early
          /\ \A i \in 1..Len(todo') : todo'[i] <= Early
    <3> SUFFICES ASSUME doing'[0] \in Kinit1At
                 PROVE  /\ \A i \in 1..Len(freelist') : freelist'[i] <= Early
                        /\ \A i \in 1..Len(todo') : todo'[i] <= Early
      OBVIOUS
    <3>1. doing[0] \in Kinit1At  BY <1>2, <1>3, <1>9 DEF Kinit1At
    <3>2. /\ \A i \in 1..Len(freelist) : freelist[i] <= Early
          /\ \A i \in 1..Len(todo) : todo[i] <= Early
      BY <1>1, <3>1 DEF OnePlace
    <3> QED  BY <1>7, <2>4, <3>2
  <2>10. /\ \A c, d \in CPUs : c # d => (stack'[c] > 0 => stack'[c] # stack'[d])
                                   /\ pages'[c] \cap pages'[d] = {}
         /\ \A c, d \in CPUs : stack'[c] \notin pages'[d]
         /\ InSlot' => slot' \in Pages /\ \A c \in CPUs : stack'[c] # slot' /\ slot' \notin pages'[c]
    BY <1>1, <1>3, <2>1 DEF OnePlace
  <2> QED  BY <2>2, <2>3, <2>6, <2>7, <2>8, <2>9, <2>10 DEF OnePlace
<1> QED  BY <1>10, <1>11, <1>12, <1>13, <1>14 DEF IInv

(* kinit1() is done: startothers() begins with processor 1.                *)
LEMMA StartothersStep ==
    ASSUME BootAssumption, IInv, Startothers
    PROVE  IInv'
<1>1. Types /\ FirstAt /\ OthersAt /\ OneInList /\ OnePlace  BY DEF IInv
<1>2. /\ doing[0] = "kinit1" /\ todo = << >> /\ doing' = [doing EXCEPT ![0] = "startothers"]
      /\ next' = 1 /\ todo' = Second
      /\ UNCHANGED <<tmp, started, slot, stack, freelist, useLock, lock, ready, pages>>
  BY DEF Startothers, Goes
<1>3. next = 0 /\ ~useLock /\ ~ready /\ \A c \in CPUs : pages[c] = {} /\ stack[c] <= 0
  BY <1>1, <1>2 DEF FirstAt, OthersAt, Kinit1At, AfterKinit2
<1>4. /\ doing'[0] = "startothers" /\ \A d \in CPUs : d # 0 => doing'[d] = doing[d]
  BY <1>1, <1>2, FirstCpu DEF Types
<1>5. \A c \in CPUs : c # 0 => doing[c] = "off"
  BY <1>1, <1>3, FirstCpu DEF OthersAt
<1>6. Types'
  <2>1. doing' \in [CPUs -> Kinit1At \cup Kinit2At \cup AfterKinit2 \cup
                          {"off", "kalloc", "wait", "entry"}]
    BY <1>1, <1>2 DEF Types, Kinit2At
  <2>2. next' \in 0..NCPU  BY <1>2, FirstCpu
  <2> QED  BY <1>1, <1>2, <2>1, <2>2, SecondIs DEF Types
<1>7. FirstAt'
  BY <1>1, <1>2, <1>3, <1>4 DEF FirstAt, Kinit1At, Kinit2At, AfterKinit2
<1>8. OthersAt'
  <2>1. started = {}  BY <1>1, <1>2, <1>5 DEF OthersAt, Types
  <2>2. \A c \in CPUs \ {0} : ~(c < 1)  BY FirstCpu
  <2> QED  BY <1>2, <1>3, <1>4, <1>5, <2>1, <2>2 DEF OthersAt
<1>9. OneInList'
  BY <1>1, <1>2, <1>3, <1>4, <1>5 DEF OneInList, InList
<1>10. OnePlace'
  <2>1. ~InSlot'  BY <1>4, <1>5 DEF InSlot
  <2>2. \A i \in 1..Len(todo') : todo'[i] > Early
    BY <1>2, SecondIs, FirstCpu
  <2>3. \A i \in 1..Len(freelist) : freelist[i] <= Early /\ freelist[i] \in Nat
    <3>1. freelist \in Seq(Pages)  BY <1>1 DEF Types
    <3> QED  BY <1>1, <1>2, <3>1, FirstCpu DEF OnePlace, Kinit1At
  <2>4. \A h \in Pages : ~Given(h)'
    BY <1>1, <1>2, <1>3, <2>1, FirstCpu DEF Given
  <2>5. /\ \A i \in 1..Len(freelist) : freelist[i] \in Pages
        /\ \A i \in 1..Len(todo') : todo'[i] \in Pages
    <3>1. freelist \in Seq(Pages) /\ todo' \in Seq(Pages)  BY <1>1, <1>6 DEF Types
    <3> QED  BY <3>1
  <2>6. Distinct(todo)'  BY <1>2, SecondIs
  <2>7. \A i \in 1..Len(freelist'), j \in 1..Len(todo') : freelist'[i] # todo'[j]
    BY <1>2, <2>2, <2>3, <2>5, FirstCpu
  <2>8. doing'[0] \notin Kinit1At  BY <1>4 DEF Kinit1At
  <2>9. /\ Distinct(freelist)'
        /\ \A c, d \in CPUs : c # d => (stack'[c] > 0 => stack'[c] # stack'[d])
                                   /\ pages'[c] \cap pages'[d] = {}
        /\ \A c, d \in CPUs : stack'[c] \notin pages'[d]
    BY <1>1, <1>2 DEF OnePlace, Distinct
  <2> QED  BY <1>2, <2>1, <2>4, <2>5, <2>6, <2>7, <2>8, <2>9 DEF OnePlace
<1> QED  BY <1>6, <1>7, <1>8, <1>9, <1>10 DEF IInv

(* What kalloc() takes from the list is nowhere else.                      *)
LEMMA HeadIs ==
    ASSUME Types, OnePlace, freelist # << >>
    PROVE  /\ Head(freelist) \in Pages /\ ~Given(Head(freelist))
           /\ Tail(freelist) \in Seq(Pages) /\ Distinct(Tail(freelist))
           /\ \A i \in 1..Len(Tail(freelist)) :
                /\ Tail(freelist)[i] # Head(freelist)
                /\ \E j \in 1..Len(freelist) : Tail(freelist)[i] = freelist[j]
           /\ \A i \in 1..Len(todo) : todo[i] # Head(freelist)
<1>1. freelist \in Seq(Pages)  BY DEF Types
<1>2. /\ Head(freelist) = freelist[1] /\ Head(freelist) \in Pages /\ 1 \in 1..Len(freelist)
      /\ Tail(freelist) \in Seq(Pages) /\ Len(Tail(freelist)) = Len(freelist) - 1
      /\ \A i \in 1..(Len(freelist) - 1) : Tail(freelist)[i] = freelist[i + 1] /\ i + 1 \in 1..Len(freelist)
  BY <1>1, TailIs
<1>3. Distinct(Tail(freelist)) /\ \A i \in 1..Len(Tail(freelist)) : Tail(freelist)[i] # Head(freelist)
  BY <1>1, DistinctTail DEF OnePlace
<1>4. \A i \in 1..Len(todo) : todo[i] # Head(freelist)
  BY <1>2 DEF OnePlace
<1>5. ~Given(Head(freelist))  BY <1>2 DEF OnePlace
<1> QED  BY <1>2, <1>3, <1>4, <1>5

(* startothers(): the stack is in the word at code - 4, the processor on.  *)
LEMMA StartStep ==
    ASSUME BootAssumption, IInv, Start
    PROVE  IInv'
<1>1. Types /\ FirstAt /\ OthersAt /\ OneInList /\ OnePlace  BY DEF IInv
<1>2. /\ doing[0] = "kalloc" /\ tmp[0] # << >>
      /\ freelist' = Tail(tmp[0]) /\ slot' = Head(tmp[0])
      /\ doing' = [doing EXCEPT ![0] = "wait", ![next] = "entry"]
      /\ UNCHANGED <<tmp, started, stack, useLock, todo, next, ready, pages>>
  BY DEF Start
<1>3. tmp[0] = freelist  BY <1>1, <1>2, FirstCpu DEF OneInList, InList
<1>4. ~useLock /\ ~ready /\ next # 0 /\ next < NCPU /\ lock' = lock
  BY <1>1, <1>2 DEF Start, Unlocked, FirstAt, Kinit1At, AfterKinit2
<1>5. next \in CPUs  BY <1>1, <1>4, FirstCpu DEF Types, CPUs
<1>6. /\ doing'[0] = "wait" /\ doing'[next] = "entry"
      /\ \A d \in CPUs : d # 0 /\ d # next => doing'[d] = doing[d]
  BY <1>1, <1>2, <1>4, <1>5, FirstCpu DEF Types
<1>7. /\ Head(freelist) \in Pages /\ ~Given(Head(freelist))
      /\ Tail(freelist) \in Seq(Pages) /\ Distinct(Tail(freelist))
      /\ \A i \in 1..Len(Tail(freelist)) :
           /\ Tail(freelist)[i] # Head(freelist)
           /\ \E j \in 1..Len(freelist) : Tail(freelist)[i] = freelist[j]
      /\ \A i \in 1..Len(todo) : todo[i] # Head(freelist)
  BY <1>1, <1>2, <1>3, HeadIs
<1>8. doing[next] = "off"  BY <1>1, <1>2, <1>4, <1>5 DEF OthersAt
<1>9. Types'
  <2>1. doing' \in [CPUs -> Kinit1At \cup Kinit2At \cup AfterKinit2 \cup
                          {"off", "kalloc", "wait", "entry"}]
    BY <1>1, <1>2 DEF Types
  <2>2. slot' \in 0..(Early + Late)  BY <1>2, <1>3, <1>7, FirstCpu DEF Pages
  <2> QED  BY <1>1, <1>2, <1>3, <1>4, <1>7, <2>1, <2>2 DEF Types
<1>10. FirstAt'
  BY <1>1, <1>2, <1>4, <1>6 DEF FirstAt, Kinit1At, Kinit2At, AfterKinit2
<1>11. OthersAt'
  <2>1. \A c \in started : doing'[c] \in {"scheduler", "work"}
    <3>1. 0 \notin started /\ next \notin started  BY <1>1, <1>2, <1>8 DEF OthersAt
    <3> QED  BY <1>1, <1>6, <3>1 DEF OthersAt, Types
  <2>2. \A c \in CPUs : doing'[c] # "work"  BY <1>1, <1>4, <1>6 DEF OthersAt
  <2>3. \A c \in CPUs \ {0} : c # next => doing'[c] = doing[c]  BY <1>6
  <2>4. \A c \in CPUs \ {0} : /\ c < next => doing[c] \in {"scheduler", "work"}
                              /\ c > next => doing[c] = "off"
    BY <1>1 DEF OthersAt
  <2>5. \A c \in CPUs \ {0} : c < next \/ c > next => c # next  BY <1>5, FirstCpu
  <2>6. \A c \in CPUs : pages'[c] = {}  BY <1>1, <1>2, <1>4 DEF OthersAt
  <2>7. ASSUME NEW c \in CPUs \ {0}
        PROVE  /\ c < next => doing'[c] \in {"scheduler", "work"}
               /\ c = next => doing'[c] \in {"entry", "mpmain", "scheduler"}
               /\ c > next => doing'[c] = "off"
    BY <1>6, <2>3, <2>4, <2>5, <2>7
  <2> QED  BY <1>2, <1>6, <2>1, <2>2, <2>6, <2>7 DEF OthersAt
<1>12. OneInList'
  <2>1. \A c \in CPUs : doing'[c] \notin InList
    BY <1>1, <1>4, <1>6, AloneInList DEF InList
  <2>2. \A c \in CPUs : doing'[c] # "work"  BY <2>1 DEF InList
  <2> QED  BY <1>1, <1>2, <1>4, <1>6, <2>1, <2>2 DEF OneInList
<1>13. OnePlace'
  <2>1. \A h : Given(h)' => Given(h) \/ h = Head(freelist)
    BY <1>2, <1>3 DEF Given
  <2>2. /\ Distinct(freelist)' /\ Distinct(todo)'
    BY <1>1, <1>2, <1>3, <1>7 DEF OnePlace
  <2>3. \A i \in 1..Len(freelist'), j \in 1..Len(todo') : freelist'[i] # todo'[j]
    BY <1>1, <1>2, <1>3, <1>7 DEF OnePlace
  <2>4. \A i \in 1..Len(freelist') : ~Given(freelist'[i]) /\ freelist'[i] # Head(freelist)
    BY <1>1, <1>2, <1>3, <1>7 DEF OnePlace
  <2>5. \A i \in 1..Len(todo') : ~Given(todo'[i]) /\ todo'[i] # Head(freelist)
    BY <1>1, <1>2, <1>7 DEF OnePlace
  <2>6. slot' \in Pages /\ \A c \in CPUs : stack'[c] # slot' /\ slot' \notin pages'[c]
    BY <1>2, <1>3, <1>7 DEF Given
  <2>7. doing'[0] \notin Kinit1At  BY <1>6 DEF Kinit1At
  <2>8. /\ \A c, d \in CPUs : c # d => (stack'[c] > 0 => stack'[c] # stack'[d])
                                   /\ pages'[c] \cap pages'[d] = {}
        /\ \A c, d \in CPUs : stack'[c] \notin pages'[d]
    BY <1>1, <1>2 DEF OnePlace
  <2> QED  BY <2>1, <2>2, <2>3, <2>4, <2>5, <2>6, <2>7, <2>8 DEF OnePlace
<1> QED  BY <1>9, <1>10, <1>11, <1>12, <1>13 DEF IInv

(* startothers(): the processor is up.                                     *)
LEMMA WaitStep ==
    ASSUME BootAssumption, IInv, Wait
    PROVE  IInv'
<1>1. Types /\ FirstAt /\ OthersAt /\ OneInList /\ OnePlace  BY DEF IInv
<1>2. /\ doing[0] = "wait" /\ next \in started /\ doing' = [doing EXCEPT ![0] = "startothers"]
      /\ next' = next + 1
      /\ UNCHANGED <<tmp, started, slot, stack, freelist, useLock, lock, todo, ready, pages>>
  BY DEF Wait, Up, Goes
<1>3. /\ next \in Nat /\ next < NCPU /\ next # 0 /\ ~useLock /\ ~ready
  BY <1>1, <1>2, FirstCpu DEF Types, FirstAt, Kinit1At, AfterKinit2
<1>4. /\ doing'[0] = "startothers" /\ \A d \in CPUs : d # 0 => doing'[d] = doing[d]
  BY <1>1, <1>2, FirstCpu DEF Types
<1>5. Types'
  <2>1. doing' \in [CPUs -> Kinit1At \cup Kinit2At \cup AfterKinit2 \cup
                          {"off", "kalloc", "wait", "entry"}]
    BY <1>1, <1>2 DEF Types, Kinit2At
  <2>2. next' \in 0..NCPU  BY <1>2, <1>3, FirstCpu
  <2> QED  BY <1>1, <1>2, <2>1, <2>2 DEF Types
<1>6. FirstAt'
  BY <1>1, <1>2, <1>3, <1>4 DEF FirstAt, Kinit1At, Kinit2At, AfterKinit2
<1>7. OthersAt'
  <2>1. doing[next] \in {"scheduler", "work"}  BY <1>1, <1>2 DEF OthersAt
  <2>2. ASSUME NEW c \in CPUs \ {0}
        PROVE  /\ c < next' => doing'[c] \in {"scheduler", "work"}
               /\ c >= next' => doing'[c] = "off"
    <3>1. c \in Nat /\ next' = next + 1  BY <1>2, FirstCpu
    <3>2. /\ c < next' => c < next \/ c = next
          /\ c >= next' => c > next
      BY <1>3, <3>1
    <3> QED  BY <1>1, <1>4, <2>1, <3>2 DEF OthersAt
  <2>3. \A c \in CPUs \ {0} : c = next' \/ c > next' => c >= next'
    BY <1>2, <1>3, FirstCpu
  <2>4. 0 \notin started  BY <1>1, <1>2 DEF OthersAt
  <2>5. /\ \A c \in started : doing'[c] \in {"scheduler", "work"}
        /\ \A c \in CPUs : doing'[c] # "work"
        /\ \A c \in CPUs : pages'[c] = {}
    BY <1>1, <1>2, <1>3, <1>4, <2>4 DEF OthersAt, Types
  <2> QED  BY <1>2, <1>4, <2>2, <2>3, <2>5 DEF OthersAt
<1>8. OneInList'
  BY <1>1, <1>2, <1>3, <1>4 DEF OneInList, InList
<1>9. OnePlace'
  <2>1. InSlot' => InSlot  BY <1>2, <1>4 DEF InSlot
  <2> QED  BY <1>1, <1>2, <1>4, <2>1, OnePlaceSame DEF Kinit1At
<1> QED  BY <1>5, <1>6, <1>7, <1>8, <1>9 DEF IInv

(* kinit2() switches the lock on, and userinit() makes the first process.  *)
LEMMA UserinitStep ==
    ASSUME BootAssumption, IInv,
           \/ /\ doing[0] = "startothers" /\ next = NCPU /\ Goes(0, "userinit") /\ useLock' = TRUE
              /\ UNCHANGED ready
           \/ /\ doing[0] = "userinit" /\ Goes(0, "mpmain") /\ ready' = TRUE
              /\ UNCHANGED useLock,
           UNCHANGED <<tmp, started, slot, stack, freelist, lock, todo, next, pages>>
    PROVE  IInv'
<1>1. Types /\ FirstAt /\ OthersAt /\ OneInList /\ OnePlace  BY DEF IInv
<1>2. /\ next = NCPU /\ useLock' /\ doing[0] \notin InList /\ doing[0] \in {"startothers", "userinit"}
      /\ \E to \in {"userinit", "mpmain"} : doing' = [doing EXCEPT ![0] = to]
      /\ ready' => doing' = [doing EXCEPT ![0] = "mpmain"]
      /\ ready => ready'
  BY <1>1 DEF FirstAt, AfterKinit2, InList, Goes
<1>3. /\ doing'[0] \in {"userinit", "mpmain"} /\ \A d \in CPUs : d # 0 => doing'[d] = doing[d]
      /\ ready' => doing'[0] = "mpmain"
  BY <1>1, <1>2, FirstCpu DEF Types
<1>4. Types'
  <2>1. doing' \in [CPUs -> Kinit1At \cup Kinit2At \cup AfterKinit2 \cup
                          {"off", "kalloc", "wait", "entry"}]
    BY <1>1, <1>2 DEF Types, AfterKinit2
  <2>2. useLock' \in BOOLEAN /\ ready' \in BOOLEAN  BY <1>1 DEF Types
  <2> QED  BY <1>1, <2>1, <2>2 DEF Types
<1>5. FirstAt'
  BY <1>1, <1>2, <1>3, FirstCpu DEF FirstAt, Kinit1At, Kinit2At, AfterKinit2
<1>6. OthersAt'
  <2>1. 0 \notin started  BY <1>1, <1>2 DEF OthersAt
  <2>2. doing'[0] # "wait" /\ doing[0] # "wait"  BY <1>2, <1>3
  <2>3. \A c \in started : doing'[c] \in {"scheduler", "work"}
    BY <1>1, <1>3, <2>1 DEF OthersAt, Types
  <2>4. ~ready' => ~ready  BY <1>2
  <2>5. \A c \in CPUs : doing'[c] = "work" => ready'  BY <1>1, <1>2, <1>3 DEF OthersAt
  <2> QED  BY <1>1, <1>3, <2>2, <2>3, <2>4, <2>5 DEF OthersAt
<1>7. OneInList'
  <2>1. \A c \in CPUs : doing'[c] \in InList <=> doing[c] \in InList
    BY <1>2, <1>3 DEF InList
  <2>2. ~useLock => \A c \in CPUs : doing[c] \notin InList
    BY <1>1, <1>2, AloneInList
  <2>3. \A c \in CPUs : doing[c] \in InList <=> lock = c
    BY <1>1, <2>2, FirstCpu DEF OneInList
  <2>4. \A c \in CPUs : doing'[c] = "work" => doing[c] = "work"  BY <1>3
  <2> QED  BY <1>1, <1>2, <1>3, <2>1, <2>3, <2>4 DEF OneInList
<1>8. OnePlace'
  <2>1. InSlot' => InSlot  BY <1>2, <1>3 DEF InSlot
  <2> QED  BY <1>1, <1>3, <2>1, OnePlaceSame DEF Kinit1At
<1> QED  BY <1>4, <1>5, <1>6, <1>7, <1>8 DEF IInv

(* entryother.S takes the stack.                                           *)
LEMMA EntryStep ==
    ASSUME BootAssumption, IInv, NEW c \in CPUs, Entry(c)
    PROVE  IInv'
<1>1. Types /\ FirstAt /\ OthersAt /\ OneInList /\ OnePlace  BY DEF IInv
<1>2. /\ doing[c] = "entry" /\ doing' = [doing EXCEPT ![c] = "mpmain"]
      /\ stack' = [stack EXCEPT ![c] = slot]
      /\ UNCHANGED <<tmp, started, slot, freelist, useLock, lock, todo, next, ready, pages>>
  BY DEF Entry, Goes
<1>3. /\ doing'[c] = "mpmain" /\ \A d \in CPUs : d # c => doing'[d] = doing[d]
      /\ stack'[c] = slot /\ \A d \in CPUs : d # c => stack'[d] = stack[d]
  BY <1>1, <1>2 DEF Types
<1>4. c # 0  BY <1>1, <1>2 DEF FirstAt, Kinit1At, Kinit2At, AfterKinit2
<1>5. \A d \in CPUs : doing[d] = "entry" => d = next /\ doing[0] = "wait"
  <2> SUFFICES ASSUME NEW d \in CPUs, doing[d] = "entry"
               PROVE  d = next /\ doing[0] = "wait"
    OBVIOUS
  <2>1. d # 0  BY <1>1 DEF FirstAt, Kinit1At, Kinit2At, AfterKinit2
  <2>2. d < next \/ d = next \/ d > next  BY <1>1, FirstCpu DEF Types
  <2> QED  BY <1>1, <2>1, <2>2 DEF OthersAt
<1>6. c = next /\ doing[0] = "wait" /\ doing'[0] = "wait"  BY <1>2, <1>3, <1>4, <1>5, FirstCpu
<1>7. Types'
  <2>1. doing' \in [CPUs -> Kinit1At \cup Kinit2At \cup AfterKinit2 \cup
                          {"off", "kalloc", "wait", "entry"}]
    BY <1>1, <1>2 DEF Types, AfterKinit2
  <2>2. stack' \in [CPUs -> -1..(Early + Late)]
    BY <1>1, <1>2, FirstCpu DEF Types
  <2> QED  BY <1>1, <1>2, <2>1, <2>2 DEF Types
<1>8. FirstAt'
  BY <1>1, <1>2, <1>6 DEF FirstAt, Kinit1At
<1>9. OthersAt'
  <2>1. c \notin started  BY <1>1, <1>2 DEF OthersAt
  <2>2. \A d \in started : doing'[d] \in {"scheduler", "work"}
    BY <1>1, <1>3, <2>1 DEF OthersAt, Types
  <2>3. \A d \in CPUs : doing'[d] = "work" => doing[d] = "work"  BY <1>3
  <2>4. \A d \in CPUs : d < next \/ d > next => d # c  BY <1>6, FirstCpu
  <2> QED  BY <1>1, <1>2, <1>3, <1>6, <2>2, <2>3, <2>4 DEF OthersAt
<1>10. OneInList'
  BY <1>1, <1>2, <1>3, <1>6 DEF OneInList, InList
<1>11. OnePlace'
  <2>1. InSlot /\ ~InSlot'  BY <1>2, <1>3, <1>5, <1>6 DEF InSlot
  <2>2. slot \in Pages /\ \A d \in CPUs : stack[d] # slot /\ slot \notin pages[d]
    BY <1>1, <2>1 DEF OnePlace
  <2>3. \A h : Given(h)' => Given(h)
    BY <1>2, <1>3, <2>1 DEF Given
  <2>4. \A d, f \in CPUs : d # f => (stack'[d] > 0 => stack'[d] # stack'[f])
                                    /\ pages'[d] \cap pages'[f] = {}
    BY <1>1, <1>2, <1>3, <2>2 DEF OnePlace
  <2>5. \A d, f \in CPUs : stack'[d] \notin pages'[f]
    BY <1>1, <1>2, <1>3, <2>2 DEF OnePlace
  <2>6. doing'[0] \notin Kinit1At  BY <1>6 DEF Kinit1At
  <2> QED  BY <1>1, <1>2, <2>1, <2>3, <2>4, <2>5, <2>6 DEF OnePlace, Distinct
<1> QED  BY <1>7, <1>8, <1>9, <1>10, <1>11 DEF IInv

(* mpmain(): the processor says that it is up.                             *)
LEMMA MpmainStep ==
    ASSUME BootAssumption, IInv, NEW c \in CPUs, Mpmain(c)
    PROVE  IInv'
<1>1. Types /\ FirstAt /\ OthersAt /\ OneInList /\ OnePlace  BY DEF IInv
<1>2. /\ doing[c] = "mpmain" /\ doing' = [doing EXCEPT ![c] = "scheduler"]
      /\ started' = started \cup {c}
      /\ UNCHANGED <<tmp, slot, stack, freelist, useLock, lock, todo, next, ready, pages>>
  BY DEF Mpmain, Goes
<1>3. doing'[c] = "scheduler" /\ \A d \in CPUs : d # c => doing'[d] = doing[d]
  BY <1>1, <1>2 DEF Types
<1>4. c # 0 => c = next /\ doing[0] = "wait"
  <2>1. c < next \/ c = next \/ c > next  BY <1>1, FirstCpu DEF Types
  <2> QED  BY <1>1, <1>2, <2>1 DEF OthersAt
<1>5. doing'[0] = doing[0] \/ (c = 0 /\ doing[0] = "mpmain" /\ doing'[0] = "scheduler")
  BY <1>2, <1>3, FirstCpu
<1>6. Types'
  <2>1. doing' \in [CPUs -> Kinit1At \cup Kinit2At \cup AfterKinit2 \cup
                          {"off", "kalloc", "wait", "entry"}]
    BY <1>1, <1>2 DEF Types, AfterKinit2
  <2> QED  BY <1>1, <1>2, <2>1 DEF Types
<1>7. FirstAt'
  BY <1>1, <1>2, <1>5 DEF FirstAt, Kinit1At, Kinit2At, AfterKinit2
<1>8. OthersAt'
  <2>1. \A d \in started' : doing'[d] \in {"scheduler", "work"}
    BY <1>1, <1>2, <1>3 DEF OthersAt, Types
  <2>2. \A d \in CPUs : doing'[d] = "work" => doing[d] = "work"  BY <1>3
  <2>3. doing'[0] = "wait" <=> doing[0] = "wait"  BY <1>5
  <2>4. ASSUME NEW d \in CPUs \ {0}
        PROVE  /\ d < next => doing'[d] \in {"scheduler", "work"}
               /\ d = next => doing'[d] \in IF doing'[0] = "wait" THEN {"entry", "mpmain", "scheduler"}
                                          ELSE {"off"}
               /\ d > next => doing'[d] = "off"
    <3>1. CASE d # c  BY <1>1, <1>3, <2>3, <3>1 DEF OthersAt
    <3>2. CASE d = c
      <4>1. d = next /\ doing'[0] = "wait" /\ ~(d < next) /\ ~(d > next)
        BY <1>4, <2>3, <2>4, <3>2, FirstCpu
      <4> QED  BY <1>3, <3>2, <4>1
    <3> QED  BY <3>1, <3>2
  <2> QED  BY <1>1, <1>2, <2>1, <2>2, <2>4 DEF OthersAt
<1>9. OneInList'
  <2>1. \A d \in CPUs : doing'[d] \in InList <=> doing[d] \in InList  BY <1>2, <1>3 DEF InList
  <2>2. \A d \in CPUs : doing'[d] = "work" => doing[d] = "work"  BY <1>3
  <2>3. doing'[0] \in {"kfree1", "kfree2"} => doing'[0] = doing[0]  BY <1>5
  <2> QED  BY <1>1, <1>2, <2>1, <2>2, <2>3 DEF OneInList
<1>10. OnePlace'
  <2>1. InSlot' => InSlot  BY <1>2, <1>3 DEF InSlot
  <2> QED  BY <1>1, <1>2, <1>5, <2>1, OnePlaceSame DEF Kinit1At
<1> QED  BY <1>6, <1>7, <1>8, <1>9, <1>10 DEF IInv

(* kalloc() on behalf of a process: it takes the head of the list.         *)
LEMMA WorkStep ==
    ASSUME BootAssumption, IInv, NEW c \in CPUs,
           doing[c] = "work", Goes(c, "scheduler"),
           freelist' = Tail(tmp[c]), pages' = [pages EXCEPT ![c] = @ \cup {Head(tmp[c])}],
           Unlocked,
           UNCHANGED <<tmp, started, slot, stack, useLock, todo, next, ready>>
    PROVE  IInv'
<1>1. Types /\ FirstAt /\ OthersAt /\ OneInList /\ OnePlace  BY DEF IInv
<1>2. /\ ready /\ useLock /\ tmp[c] = freelist /\ freelist # << >>
      /\ doing' = [doing EXCEPT ![c] = "scheduler"] /\ lock' = -1
  BY <1>1 DEF OthersAt, FirstAt, AfterKinit2, OneInList, InList, Goes, Unlocked
<1>3. doing'[c] = "scheduler" /\ \A d \in CPUs : d # c => doing'[d] = doing[d]
  BY <1>1, <1>2 DEF Types
<1>4. /\ Head(freelist) \in Pages /\ ~Given(Head(freelist))
      /\ Tail(freelist) \in Seq(Pages) /\ Distinct(Tail(freelist))
      /\ \A i \in 1..Len(Tail(freelist)) :
           /\ Tail(freelist)[i] # Head(freelist)
           /\ \E j \in 1..Len(freelist) : Tail(freelist)[i] = freelist[j]
      /\ \A i \in 1..Len(todo) : todo[i] # Head(freelist)
  BY <1>1, <1>2, HeadIs
<1>5. /\ pages'[c] = pages[c] \cup {Head(freelist)}
      /\ \A d \in CPUs : d # c => pages'[d] = pages[d]
  BY <1>1, <1>2 DEF Types
<1>6. doing[0] \in {"mpmain", "scheduler", "work"} /\ next = NCPU
  BY <1>1, <1>2 DEF FirstAt, AfterKinit2
<1>7. doing'[0] = doing[0] \/ (c = 0 /\ doing'[0] = "scheduler")
  BY <1>3, FirstCpu
<1>8. Types'
  <2>1. doing' \in [CPUs -> Kinit1At \cup Kinit2At \cup AfterKinit2 \cup
                          {"off", "kalloc", "wait", "entry"}]
    BY <1>1, <1>2 DEF Types, AfterKinit2
  <2>2. pages' \in [CPUs -> SUBSET Pages]  BY <1>1, <1>2, <1>4 DEF Types
  <2> QED  BY <1>1, <1>2, <1>4, <2>1, <2>2 DEF Types
<1>9. FirstAt'
  <2>1. doing'[0] \in {"mpmain", "scheduler", "work"}  BY <1>6, <1>7
  <2> QED  BY <1>1, <1>2, <1>6, <2>1 DEF FirstAt, Kinit1At, Kinit2At, AfterKinit2
<1>10. OthersAt'
  <2>1. \A d \in started : doing'[d] \in {"scheduler", "work"}
    BY <1>1, <1>3 DEF OthersAt, Types
  <2>2. \A d \in CPUs \ {0} : d < next /\ ~(d = next) /\ ~(d > next)
    BY <1>6, FirstCpu
  <2>3. \A d \in CPUs \ {0} : doing'[d] \in {"scheduler", "work"}
    BY <1>1, <1>3, <2>2 DEF OthersAt
  <2> QED  BY <1>2, <2>1, <2>2, <2>3 DEF OthersAt
<1>11. OneInList'
  <2>1. \A d \in CPUs : doing'[d] \notin InList
    <3>1. \A d \in CPUs : d # c => doing[d] \notin InList
      BY NobodyElse DEF InList
    <3> QED  BY <1>3, <3>1 DEF InList
  <2>2. \A d \in CPUs : doing'[d] # "work"  BY <2>1 DEF InList
  <2>3. doing'[0] \notin {"kfree1", "kfree2"}  BY <1>6, <1>7
  <2> QED  BY <1>2, <2>1, <2>2, <2>3, FirstCpu DEF OneInList
<1>12. OnePlace'
  <2>1. InSlot' => InSlot  BY <1>2, <1>3 DEF InSlot
  <2>2. \A h : Given(h)' => Given(h) \/ h = Head(freelist)
    BY <1>5, <2>1 DEF Given
  <2>3. Distinct(freelist)' /\ Distinct(todo)'
    BY <1>1, <1>2, <1>4 DEF OnePlace
  <2>4. \A i \in 1..Len(freelist'), j \in 1..Len(todo') : freelist'[i] # todo'[j]
    BY <1>1, <1>2, <1>4 DEF OnePlace
  <2>5. \A i \in 1..Len(freelist') : ~Given(freelist'[i]) /\ freelist'[i] # Head(freelist)
    BY <1>1, <1>2, <1>4 DEF OnePlace
  <2>6. \A i \in 1..Len(todo') : ~Given(todo'[i]) /\ todo'[i] # Head(freelist)
    BY <1>1, <1>4 DEF OnePlace
  <2>7. \A d \in CPUs : stack[d] # Head(freelist) /\ Head(freelist) \notin pages[d]
    BY <1>4 DEF Given
  <2>8. \A d, f \in CPUs : d # f => (stack'[d] > 0 => stack'[d] # stack'[f])
                                    /\ pages'[d] \cap pages'[f] = {}
    BY <1>1, <1>5, <2>7 DEF OnePlace
  <2>9. \A d, f \in CPUs : stack'[d] \notin pages'[f]
    BY <1>1, <1>5, <2>7 DEF OnePlace
  <2>10. InSlot' => slot' \in Pages /\ \A d \in CPUs : stack'[d] # slot' /\ slot' \notin pages'[d]
    <3>1. InSlot => slot # Head(freelist)  BY <1>4 DEF Given
    <3> QED  BY <1>1, <1>5, <2>1, <3>1 DEF OnePlace
  <2>11. doing'[0] \notin Kinit1At  BY <1>6, <1>7 DEF Kinit1At
  <2> QED  BY <2>2, <2>3, <2>4, <2>5, <2>6, <2>8, <2>9, <2>10, <2>11 DEF OnePlace
<1> QED  BY <1>8, <1>9, <1>10, <1>11, <1>12 DEF IInv

-----------------------------------------------------------------------------
(* Every step of main() and of the other processors.                       *)
LEMMA NextIInv == BootAssumption /\ IInv /\ [BootNext]_bootVars => IInv'
<1> SUFFICES ASSUME BootAssumption, IInv, [BootNext]_bootVars
             PROVE  IInv'
  OBVIOUS
<1>1. CASE Kinit1
  <2>1. CASE todo # << >> /\ Reads(0, "kinit1", "kfree1")  BY <2>1, ReadsStep, FirstCpu
  <2>2. CASE Kfree("kfree1", "kinit1")  BY <2>2, KfreeStep
  <2> QED  BY <1>1, <2>1, <2>2 DEF Kinit1
<1>2. CASE Startothers  BY <1>2, StartothersStep
<1>3. CASE Stack
  <2>1. next < NCPU /\ Reads(0, "startothers", "kalloc")  BY <1>3 DEF Stack
  <2> QED  BY <2>1, ReadsStep, FirstCpu
<1>4. CASE Start  BY <1>4, StartStep
<1>5. CASE Wait  BY <1>5, WaitStep
<1>6. CASE Kinit2
  <2>1. CASE next = NCPU /\ todo # << >> /\ Reads(0, "startothers", "kfree2")
    BY <2>1, ReadsStep, FirstCpu
  <2>2. CASE Kfree("kfree2", "startothers")  BY <2>2, KfreeStep
  <2>3. CASE /\ doing[0] = "startothers" /\ next = NCPU /\ todo = << >> /\ Goes(0, "userinit")
             /\ useLock' = TRUE
             /\ UNCHANGED <<tmp, started, slot, stack, freelist, lock, todo, next, ready, pages>>
    BY <2>3, UserinitStep
  <2> QED  BY <1>6, <2>1, <2>2, <2>3 DEF Kinit2
<1>7. CASE Userinit  BY <1>7, UserinitStep DEF Userinit
<1>8. ASSUME NEW c \in CPUs, Entry(c)  PROVE IInv'  BY <1>8, EntryStep
<1>9. ASSUME NEW c \in CPUs, Mpmain(c)  PROVE IInv'  BY <1>9, MpmainStep
<1>10. ASSUME NEW c \in CPUs, Work(c)  PROVE IInv'
  <2>1. CASE ready /\ freelist # << >> /\ Reads(c, "scheduler", "work")
    BY <2>1, ReadsStep
  <2>2. CASE /\ doing[c] = "work" /\ Goes(c, "scheduler")
             /\ freelist' = Tail(tmp[c]) /\ pages' = [pages EXCEPT ![c] = @ \cup {Head(tmp[c])}]
             /\ Unlocked
             /\ UNCHANGED <<tmp, started, slot, stack, useLock, todo, next, ready>>
    BY <2>2, WorkStep
  <2> QED  BY <1>10, <2>1, <2>2 DEF Work
<1>11. CASE UNCHANGED bootVars
  <2>1. UNCHANGED <<doing, tmp, started, slot, stack, freelist, useLock, lock, todo, next, ready, pages>>
    BY <1>11 DEF bootVars
  <2>2. Types /\ FirstAt /\ OthersAt /\ OneInList /\ OnePlace  BY DEF IInv
  <2>3. OnePlace'  BY <2>1, <2>2, OnePlaceSame DEF InSlot
  <2> QED  BY <2>1, <2>2, <2>3 DEF IInv, Types, FirstAt, OthersAt, OneInList
<1> QED
  BY <1>1, <1>2, <1>3, <1>4, <1>5, <1>6, <1>7, <1>8, <1>9, <1>10, <1>11 DEF BootNext

(* No page is used twice, however the processors start and whoever         *)
(* allocates: the lists of kinit1() and kinit2() are free of races because *)
(* startothers() waits for c->started and userinit() comes last.           *)
THEOREM SpecPagesGivenOnce ==
    ASSUME BootAssumption
    PROVE  BootSpec => []PagesGivenOnce
<1>1. IInv => PagesGivenOnce
  <2> SUFFICES ASSUME IInv
               PROVE  PagesGivenOnce
    OBVIOUS
  <2> DEFINE stacks == {c \in CPUs : stack[c] > 0}
  <2>1. Types /\ OnePlace  BY DEF IInv
  <2>2. IsInjective([c \in stacks |-> stack[c]])
    <3> DEFINE f == [c \in stacks |-> stack[c]]
    <3>1. DOMAIN f = stacks /\ \A c \in stacks : f[c] = stack[c]  OBVIOUS
    <3>2. \A c, d \in stacks : stack[c] = stack[d] => c = d
      BY <2>1 DEF OnePlace
    <3> HIDE DEF f
    <3> QED  BY <3>1, <3>2 DEF IsInjective
  <2>3. \A c, d \in CPUs : c # d => pages[c] \cap pages[d] = {}
    BY <2>1 DEF OnePlace
  <2>4. \A g \in Range(freelist) : ~Given(g)
    <3>1. freelist \in Seq(Pages)  BY <2>1 DEF Types
    <3>2. \A g \in Range(freelist) : \E i \in 1..Len(freelist) : g = freelist[i]
      BY <3>1 DEF Range
    <3> QED  BY <2>1, <3>2 DEF OnePlace
  <2>5. \A c \in CPUs : Range(freelist) \cap pages[c] = {} /\ stack[c] \notin Range(freelist)
    BY <2>4 DEF Given
  <2>6. \A c, d \in CPUs : stack[c] \notin pages[d]
    BY <2>1 DEF OnePlace
  <2> QED  BY <2>2, <2>3, <2>5, <2>6 DEF PagesGivenOnce
<1>2. BootInit => IInv  BY InitIInv
<1>3. IInv /\ [BootNext]_bootVars => IInv'  BY NextIInv
<1> QED  BY <1>1, <1>2, <1>3, PTL DEF BootSpec

-----------------------------------------------------------------------------
(* Spin locks.                                                             *)

Steps == (Acquiring \cup Releasing) \X Locks

(* Past its pushcli() and not yet past its popcli().                       *)
Started == {"notholding", "xchg", "own", "release", "disown", "unlock", "popcli"}

(* Matched calls, of which only the first can be under way.                *)
List(q) ==
    /\ q \in Seq(Steps) /\ Matched(q)
    /\ \A i \in 2..Len(q) : q[i][1] \in {"acquire", "release"}

(* The list of a processor, and at most one that an interrupt has put      *)
(* aside, with no call under way and no lock held.                         *)
Lists ==
    \A c \in Processors :
        /\ List(task[c])
        /\ \/ below[c] = << >>
           \/ \E q : /\ below[c] = <<q>> /\ List(q)
                     /\ \A l \in Locks : ~Comes(q, l, Started)

(* Every lock that is held or being taken or given up counts in ncli.      *)
Pushed(c) == {l \in Locks : Comes(task[c], l, Started)}
Depth ==
    \A c \in Processors :
        IsFiniteSet(Pushed(c)) /\ ncli[c] = Cardinality(Pushed(c))

(* Interrupts are off in a handler and while a lock counts, and intena     *)
(* says which of the two it was before.                                    *)
Flags ==
    \A c \in Processors :
        /\ intr[c] <=> Pushed(c) = {} /\ below[c] = << >>
        /\ Pushed(c) # {} => (intena[c] <=> below[c] = << >>)

(* locked and cpu say which processor is inside.                           *)
Owners ==
    /\ \A l \in Locks : locked[l] <=> \E c \in Processors : Comes(task[c], l, Inside)
    /\ \A l \in Locks : \A c, d \in Processors :
         Comes(task[c], l, Inside) /\ Comes(task[d], l, Inside) => c = d
    /\ \A l \in Locks : \A c \in Processors :
         cpu[l] = c <=> Comes(task[c], l, {"release", "disown"})

SpinTypes ==
    /\ task \in [Processors -> Seq(Steps)] /\ below \in [Processors -> Seq(Seq(Steps))]
    /\ intr \in [Processors -> BOOLEAN] /\ intena \in [Processors -> BOOLEAN]
    /\ ncli \in [Processors -> Nat]
    /\ locked \in [Locks -> BOOLEAN] /\ cpu \in [Locks -> Processors \cup {NoCpu}]
    /\ stopped = FALSE

SpinIInv == SpinTypes /\ Lists /\ Depth /\ Flags /\ Owners

-----------------------------------------------------------------------------
(* Lists of calls: what is left of the first one takes its place.          *)

LEMMA ReplacedIs ==
    ASSUME NEW q \in Seq(Steps), q # << >>, NEW s \in Steps
    PROVE  LET r == <<s>> \o Tail(q)
           IN  /\ r \in Seq(Steps) /\ Len(r) = Len(q) /\ Len(q) \in Nat \ {0}
               /\ r[1] = s /\ Head(q) = q[1]
               /\ \A i \in 2..Len(q) : r[i] = q[i]
<1> DEFINE r == <<s>> \o Tail(q)
<1>1. /\ Tail(q) \in Seq(Steps) /\ Len(Tail(q)) = Len(q) - 1
      /\ \A i \in 1..(Len(q) - 1) : Tail(q)[i] = q[i + 1]
      /\ Len(q) \in Nat \ {0} /\ Head(q) = q[1]
  BY SMT
<1>2. <<s>> \in Seq(Steps) /\ Len(<<s>>) = 1 /\ <<s>>[1] = s
  OBVIOUS
<1> HIDE DEF Steps
<1>3. /\ r \in Seq(Steps) /\ Len(r) = Len(q)
      /\ \A i \in 1..Len(r) : r[i] = IF i <= 1 THEN <<s>>[i] ELSE Tail(q)[i - 1]
  BY <1>1, <1>2, ConcatProperties, SMT
<1>4. \A i \in 2..Len(q) : r[i] = q[i]  BY <1>1, <1>3, SMT
<1> QED  BY <1>1, <1>2, <1>3, <1>4, SMT

LEMMA ReturnedIs ==
    ASSUME NEW q \in Seq(Steps), q # << >>
    PROVE  /\ Tail(q) \in Seq(Steps) /\ Len(Tail(q)) = Len(q) - 1
           /\ Len(q) \in Nat \ {0} /\ Head(q) = q[1]
           /\ \A i \in 1..(Len(q) - 1) : Tail(q)[i] = q[i + 1]
  BY SMT

(* What comes of a lock whose call is the first of the list.               *)
LEMMA FirstComes ==
    ASSUME NEW q \in Seq(Steps), q # << >>, NEW op1, NEW l \in Locks, q[1] = <<op1, l>>,
           NEW ops
    PROVE  Comes(q, l, ops) <=> op1 \in ops
<1>1. Len(q) \in Nat \ {0}  BY SMT
<1>2. ASSUME Comes(q, l, ops)  PROVE op1 \in ops
  <2>1. PICK i \in 1..Len(q) : q[i] \in ops \X {l} /\ \A j \in 1..(i - 1) : q[j][2] # l
    BY <1>2, Zenon DEF Comes
  <2>2. q[1][2] = l  OBVIOUS
  <2>3. i = 1  BY <2>1, <2>2, <1>1, SMT
  <2> QED  BY <2>1, <2>3
<1>3. ASSUME op1 \in ops  PROVE Comes(q, l, ops)
  <2>1. q[1] \in ops \X {l}  BY <1>3
  <2>2. 1 \in 1..Len(q) /\ 1..(1 - 1) = {}  BY <1>1, SMT
  <2> QED  BY <2>1, <2>2, Zenon DEF Comes
<1> QED  BY <1>2, <1>3

LEMMA ReplacedComes ==
    ASSUME NEW q \in Seq(Steps), q # << >>, NEW op1, NEW l \in Locks, q[1] = <<op1, l>>,
           NEW op2, <<op2, l>> \in Steps, NEW m \in Locks, m # l, NEW ops
    PROVE  Comes(<<<<op2, l>>>> \o Tail(q), m, ops) <=> Comes(q, m, ops)
<1> DEFINE r == <<<<op2, l>>>> \o Tail(q)
<1>1. /\ Len(r) = Len(q) /\ Len(q) \in Nat \ {0} /\ r[1] = <<op2, l>>
      /\ \A i \in 2..Len(q) : r[i] = q[i]
  BY ReplacedIs
<1> HIDE DEF r
<1>2. r[1][2] = l /\ q[1][2] = l  BY <1>1
<1>3. \A i \in 1..Len(q) : r[i][2] = q[i][2]  BY <1>1, <1>2, SMT
<1>4. \A i \in 1..Len(q) : r[i] \in ops \X {m} <=> q[i] \in ops \X {m}
  <2> SUFFICES ASSUME NEW i \in 1..Len(q)  PROVE r[i] \in ops \X {m} <=> q[i] \in ops \X {m}
    OBVIOUS
  <2>1. CASE i = 1
    <3>1. ~(r[1] \in ops \X {m}) /\ ~(q[1] \in ops \X {m})  BY <1>2
    <3> QED  BY <2>1, <3>1
  <2>2. CASE i # 1
    <3>1. i \in 2..Len(q)  BY <2>2, <1>1, SMT
    <3> QED  BY <1>1, <3>1
  <2> QED  BY <2>1, <2>2
<1>5. \A i \in 1..Len(q) : \A j \in 1..(i - 1) : j \in 1..Len(q)  BY <1>1, SMT
<1>6. Comes(r, m, ops) <=> Comes(q, m, ops)
  BY <1>1, <1>3, <1>4, <1>5, Zenon DEF Comes
<1> QED  BY <1>6 DEF r

LEMMA ReturnedComes ==
    ASSUME NEW q \in Seq(Steps), q # << >>, NEW op1, NEW l \in Locks, q[1] = <<op1, l>>,
           NEW m \in Locks, m # l, NEW ops
    PROVE  Comes(Tail(q), m, ops) <=> Comes(q, m, ops)
<1> DEFINE r == Tail(q)
<1>1. /\ Len(r) = Len(q) - 1 /\ Len(q) \in Nat \ {0}
      /\ \A i \in 1..(Len(q) - 1) : r[i] = q[i + 1]
  BY ReturnedIs
<1> HIDE DEF r
<1>2. q[1][2] = l /\ ~(q[1] \in ops \X {m})  OBVIOUS
<1>3. ASSUME Comes(r, m, ops)  PROVE Comes(q, m, ops)
  <2>1. PICK i \in 1..Len(r) : r[i] \in ops \X {m} /\ \A j \in 1..(i - 1) : r[j][2] # m
    BY <1>3, Zenon DEF Comes
  <2>2. i + 1 \in 1..Len(q) /\ q[i + 1] \in ops \X {m}  BY <2>1, <1>1, SMT
  <2>3. ASSUME NEW j \in 1..((i + 1) - 1)  PROVE q[j][2] # m
    <3>1. CASE j = 1  BY <3>1, <1>2
    <3>2. CASE j # 1
      <4>1. j - 1 \in 1..(i - 1) /\ j - 1 \in 1..(Len(q) - 1) /\ (j - 1) + 1 = j
        BY <3>2, <2>1, <1>1, SMT
      <4> QED  BY <4>1, <2>1, <1>1
    <3> QED  BY <3>1, <3>2
  <2> QED  BY <2>2, <2>3, Zenon DEF Comes
<1>4. ASSUME Comes(q, m, ops)  PROVE Comes(r, m, ops)
  <2>1. PICK i \in 1..Len(q) : q[i] \in ops \X {m} /\ \A j \in 1..(i - 1) : q[j][2] # m
    BY <1>4, Zenon DEF Comes
  <2>2. i # 1  BY <2>1, <1>2
  <2>3. i - 1 \in 1..Len(r) /\ i - 1 \in 1..(Len(q) - 1) /\ (i - 1) + 1 = i
    BY <2>1, <2>2, <1>1, SMT
  <2>4. r[i - 1] \in ops \X {m}  BY <2>3, <1>1, <2>1
  <2>5. ASSUME NEW j \in 1..((i - 1) - 1)  PROVE r[j][2] # m
    <3>1. j + 1 \in 1..(i - 1) /\ j \in 1..(Len(q) - 1)  BY <2>1, <1>1, SMT
    <3> QED  BY <3>1, <2>1, <1>1
  <2> QED  BY <2>3, <2>4, <2>5, Zenon DEF Comes
<1> QED  BY <1>3, <1>4 DEF r

(* A call that goes on is of the same kind, and the list stays matched.    *)
LEMMA ReplacedList ==
    ASSUME NEW q, List(q), q # << >>, NEW op1, NEW l \in Locks, q[1] = <<op1, l>>,
           NEW op2, <<op2, l>> \in Steps,
           op1 \in Acquiring <=> op2 \in Acquiring, op1 \in Releasing <=> op2 \in Releasing
    PROVE  List(<<<<op2, l>>>> \o Tail(q))
<1> DEFINE r == <<<<op2, l>>>> \o Tail(q)
<1>1. /\ r \in Seq(Steps) /\ Len(r) = Len(q) /\ Len(q) \in Nat \ {0} /\ r[1] = <<op2, l>>
      /\ \A i \in 2..Len(q) : r[i] = q[i]
  BY ReplacedIs DEF List
<1> HIDE DEF r
<1>2. \A i \in 1..Len(q) : r[i][2] = q[i][2]
  BY <1>1, SMT
<1>3. \A i \in 1..Len(q) : /\ r[i][1] \in Acquiring <=> q[i][1] \in Acquiring
                           /\ r[i][1] \in Releasing <=> q[i][1] \in Releasing
  <2> SUFFICES ASSUME NEW i \in 1..Len(q)
               PROVE  /\ r[i][1] \in Acquiring <=> q[i][1] \in Acquiring
                      /\ r[i][1] \in Releasing <=> q[i][1] \in Releasing
    OBVIOUS
  <2>1. CASE i = 1  BY <2>1, <1>1
  <2>2. CASE i # 1
    <3>1. i \in 2..Len(q)  BY <2>2, <1>1, SMT
    <3> QED  BY <3>1, <1>1
  <2> QED  BY <2>1, <2>2
<1>4. \A i \in 1..Len(q) : \A j \in (i + 1)..Len(q) :
        j \in 2..Len(q) /\ \A k \in (i + 1)..(j - 1) : k \in 2..Len(q)
  BY <1>1, SMT
<1>5. ASSUME NEW i \in 1..Len(r), r[i][1] \in Acquiring
      PROVE  \E j \in (i + 1)..Len(r) :
                r[j] = <<"release", r[i][2]>> /\ \A k \in (i + 1)..(j - 1) : r[k][2] # r[i][2]
  <2>1. PICK j \in (i + 1)..Len(q) :
           q[j] = <<"release", q[i][2]>> /\ \A k \in (i + 1)..(j - 1) : q[k][2] # q[i][2]
    BY <1>5, <1>1, <1>3, Zenon DEF List, Matched
  <2>2. r[j] = <<"release", r[i][2]>> /\ \A k \in (i + 1)..(j - 1) : r[k][2] # r[i][2]
    BY <2>1, <1>1, <1>2, <1>4
  <2> QED  BY <2>2, <1>1
<1>6. ASSUME NEW i \in 1..Len(r), r[i][1] \in Releasing,
             NEW j \in (i + 1)..Len(r), r[j] = <<"release", r[i][2]>>
      PROVE  \E k \in (i + 1)..(j - 1) : r[k] = <<"acquire", r[i][2]>>
  <2>1. q[j] = <<"release", q[i][2]>>  BY <1>6, <1>1, <1>2, <1>4
  <2>2. PICK k \in (i + 1)..(j - 1) : q[k] = <<"acquire", q[i][2]>>
    BY <1>6, <2>1, <1>1, <1>3, Zenon DEF List, Matched
  <2>3. r[k] = <<"acquire", r[i][2]>>  BY <2>2, <1>1, <1>2, <1>4
  <2> QED  BY <2>3
<1>7. Matched(r)  BY <1>5, <1>6 DEF Matched
<1>8. \A i \in 2..Len(r) : r[i][1] \in {"acquire", "release"}  BY <1>1 DEF List
<1>9. List(r)  BY <1>1, <1>7, <1>8 DEF List
<1> QED  BY <1>9 DEF r

LEMMA ReturnedList ==
    ASSUME NEW q, List(q), q # << >>
    PROVE  List(Tail(q))
<1> DEFINE r == Tail(q)
<1>1. /\ r \in Seq(Steps) /\ Len(r) = Len(q) - 1 /\ Len(q) \in Nat \ {0}
      /\ \A i \in 1..(Len(q) - 1) : r[i] = q[i + 1]
  BY ReturnedIs DEF List
<1> HIDE DEF r
<1>2. ASSUME NEW i \in 1..Len(r), r[i][1] \in Acquiring
      PROVE  \E j \in (i + 1)..Len(r) :
                r[j] = <<"release", r[i][2]>> /\ \A k \in (i + 1)..(j - 1) : r[k][2] # r[i][2]
  <2>1. i + 1 \in 1..Len(q) /\ r[i] = q[i + 1]  BY <1>1, SMT
  <2>2. PICK j \in ((i + 1) + 1)..Len(q) :
           /\ q[j] = <<"release", q[i + 1][2]>>
           /\ \A k \in ((i + 1) + 1)..(j - 1) : q[k][2] # q[i + 1][2]
    BY <1>2, <2>1, Zenon DEF List, Matched
  <2>3. j - 1 \in (i + 1)..Len(r) /\ j - 1 \in 1..(Len(q) - 1) /\ (j - 1) + 1 = j
    BY <1>1, SMT
  <2>4. r[j - 1] = <<"release", r[i][2]>>  BY <2>1, <2>2, <2>3, <1>1
  <2>5. ASSUME NEW k \in (i + 1)..((j - 1) - 1)  PROVE r[k][2] # r[i][2]
    <3>1. k + 1 \in ((i + 1) + 1)..(j - 1) /\ k \in 1..(Len(q) - 1)  BY <1>1, SMT
    <3> QED  BY <3>1, <2>1, <2>2, <1>1
  <2> QED  BY <2>3, <2>4, <2>5, Zenon
<1>3. ASSUME NEW i \in 1..Len(r), r[i][1] \in Releasing,
             NEW j \in (i + 1)..Len(r), r[j] = <<"release", r[i][2]>>
      PROVE  \E k \in (i + 1)..(j - 1) : r[k] = <<"acquire", r[i][2]>>
  <2>1. /\ i + 1 \in 1..Len(q) /\ r[i] = q[i + 1]
        /\ j + 1 \in ((i + 1) + 1)..Len(q) /\ r[j] = q[j + 1]
    BY <1>1, SMT
  <2>2. PICK k \in ((i + 1) + 1)..((j + 1) - 1) : q[k] = <<"acquire", q[i + 1][2]>>
    BY <1>3, <2>1, Zenon DEF List, Matched
  <2>3. k - 1 \in (i + 1)..(j - 1) /\ k - 1 \in 1..(Len(q) - 1) /\ (k - 1) + 1 = k
    BY <1>1, SMT
  <2>4. r[k - 1] = <<"acquire", r[i][2]>>  BY <2>1, <2>2, <2>3, <1>1
  <2> QED  BY <2>3, <2>4, Zenon
<1>4. Matched(r)  BY <1>2, <1>3 DEF Matched
<1>5. ASSUME NEW i \in 2..Len(r)  PROVE r[i][1] \in {"acquire", "release"}
  <2>1. i + 1 \in 2..Len(q) /\ r[i] = q[i + 1]  BY <1>1, SMT
  <2> QED  BY <2>1 DEF List
<1>6. List(r)  BY <1>1, <1>4, <1>5 DEF List
<1> QED  BY <1>6 DEF r

(* After acquire() the release() of that lock comes.                       *)
LEMMA AcquiredComes ==
    ASSUME NEW q, List(q), q # << >>, NEW op1 \in Acquiring, NEW l \in Locks,
           q[1] = <<op1, l>>, NEW ops
    PROVE  Comes(Tail(q), l, ops) <=> "release" \in ops
<1> DEFINE r == Tail(q)
<1>1. /\ r \in Seq(Steps) /\ Len(r) = Len(q) - 1 /\ Len(q) \in Nat \ {0}
      /\ \A i \in 1..(Len(q) - 1) : r[i] = q[i + 1]
  BY ReturnedIs DEF List
<1> HIDE DEF r
<1>2. 1 \in 1..Len(q) /\ q[1][1] \in Acquiring /\ q[1][2] = l  BY <1>1, SMT
<1>3. PICK j \in (1 + 1)..Len(q) :
         q[j] = <<"release", q[1][2]>> /\ \A k \in (1 + 1)..(j - 1) : q[k][2] # q[1][2]
  BY <1>2, Zenon DEF List, Matched
<1>4. j - 1 \in 1..Len(r) /\ j - 1 \in 1..(Len(q) - 1) /\ (j - 1) + 1 = j  BY <1>1, SMT
<1>5. r[j - 1] = <<"release", l>>  BY <1>1, <1>2, <1>3, <1>4
<1>6. ASSUME NEW k \in 1..((j - 1) - 1)  PROVE r[k][2] # l
  <2>1. k + 1 \in (1 + 1)..(j - 1) /\ k \in 1..(Len(q) - 1)  BY <1>1, SMT
  <2> QED  BY <2>1, <1>1, <1>2, <1>3
<1>7. ASSUME "release" \in ops  PROVE Comes(r, l, ops)
  <2>1. r[j - 1] \in ops \X {l}  BY <1>5, <1>7
  <2> QED  BY <2>1, <1>4, <1>6, Zenon DEF Comes
<1>8. ASSUME Comes(r, l, ops)  PROVE "release" \in ops
  <2>1. PICK i \in 1..Len(r) : r[i] \in ops \X {l} /\ \A k \in 1..(i - 1) : r[k][2] # l
    BY <1>8, Zenon DEF Comes
  <2>2. r[i][2] = l /\ r[j - 1][2] = l  BY <2>1, <1>5
  <2>3. ~(i \in 1..((j - 1) - 1)) /\ ~((j - 1) \in 1..(i - 1))  BY <2>1, <2>2, <1>6
  <2>4. i = j - 1  BY <2>3, <1>4, <1>1, SMT
  <2> QED  BY <2>1, <2>4, <1>5
<1> QED  BY <1>7, <1>8 DEF r

(* After release() an acquire() is the next call on that lock.             *)
LEMMA ReleasedComes ==
    ASSUME NEW q, List(q), q # << >>, NEW op1 \in Releasing, NEW l \in Locks,
           q[1] = <<op1, l>>, NEW ops, "acquire" \notin ops
    PROVE  ~Comes(Tail(q), l, ops)
<1> DEFINE r == Tail(q)
<1>1. /\ r \in Seq(Steps) /\ Len(r) = Len(q) - 1 /\ Len(q) \in Nat \ {0}
      /\ \A i \in 1..(Len(q) - 1) : r[i] = q[i + 1]
  BY ReturnedIs DEF List
<1> HIDE DEF r
<1> SUFFICES ASSUME Comes(r, l, ops)  PROVE FALSE
  BY DEF r
<1>2. PICK i \in 1..Len(r) : r[i] \in ops \X {l} /\ \A k \in 1..(i - 1) : r[k][2] # l
  BY Zenon DEF Comes
<1>3. /\ i + 1 \in (1 + 1)..Len(q) /\ i + 1 \in 2..Len(q) /\ r[i] = q[i + 1]
      /\ 1 \in 1..Len(q) /\ q[1][1] \in Releasing /\ q[1][2] = l
  BY <1>1, SMT
<1>4. q[i + 1][1] = "release"  BY <1>2, <1>3 DEF List
<1>5. q[i + 1] = <<"release", q[1][2]>>  BY <1>2, <1>3, <1>4
<1>6. PICK k \in (1 + 1)..((i + 1) - 1) : q[k] = <<"acquire", q[1][2]>>
  BY <1>3, <1>5, Zenon DEF List, Matched
<1>7. k - 1 \in 1..(i - 1) /\ k - 1 \in 1..(Len(q) - 1) /\ (k - 1) + 1 = k  BY <1>1, SMT
<1>8. r[k - 1][2] = l  BY <1>1, <1>3, <1>6, <1>7
<1> QED  BY <1>2, <1>7, <1>8

(* The code of a path has nothing under way.                               *)
LEMMA PathList ==
    ASSUME SpinAssumption, NEW path \in Paths \cup Handlers
    PROVE  /\ List(path)
           /\ \A l \in Locks : \A ops : ops \subseteq Started => ~Comes(path, l, ops)
<1>1. path \in Seq({"acquire", "release"} \X Locks) /\ Matched(path)
  BY DEF SpinAssumption
<1>2. path \in Seq(Steps)  BY <1>1 DEF Steps, Acquiring, Releasing
<1>3. \A i \in 1..Len(path) : path[i][1] \in {"acquire", "release"}  BY <1>1
<1>4. \A i \in 2..Len(path) : i \in 1..Len(path)  BY <1>1, SMT
<1>5. List(path)  BY <1>1, <1>2, <1>3, <1>4 DEF List
<1>6. ASSUME NEW l \in Locks, NEW ops, ops \subseteq Started, Comes(path, l, ops)
      PROVE  FALSE
  <2>1. PICK i \in 1..Len(path) : path[i] \in ops \X {l} /\ \A j \in 1..(i - 1) : path[j][2] # l
    BY <1>6, Zenon DEF Comes
  <2>2. path[i] \in {"release"} \X {l}  BY <2>1, <1>3, <1>6 DEF Started
  <2>3. Comes(path, l, {"release"})  BY <2>1, <2>2, Zenon DEF Comes
  <2> QED  BY <2>3 DEF SpinAssumption
<1> QED  BY <1>5, <1>6

-----------------------------------------------------------------------------
(* A step of the call on l takes it from op1 to op2; op2 is "acquire" when  *)
(* nothing is left of it and the lock is free for the next call.           *)
Moves(c, l, op1, op2) ==
    /\ task' \in [Processors -> Seq(Steps)] /\ \A d \in Processors : List(task'[d])
    /\ \A d \in Processors, m \in Locks : d # c \/ m # l =>
         \A ops : Comes(task'[d], m, ops) <=> Comes(task[d], m, ops)
    /\ \A ops : Comes(task[c], l, ops) <=> op1 \in ops
    /\ \A ops : "acquire" \notin ops => (Comes(task'[c], l, ops) <=> op2 \in ops)

LEMMA ThenMoves ==
    ASSUME SpinTypes, Lists, NEW c \in Processors, NEW l \in Locks, NEW op1, NEW op2,
           At(c, op1, l), Then(c, op2, l), <<op2, l>> \in Steps,
           op1 \in Acquiring <=> op2 \in Acquiring, op1 \in Releasing <=> op2 \in Releasing
    PROVE  Moves(c, l, op1, op2)
<1> DEFINE q == task[c]
           r == <<<<op2, l>>>> \o Tail(q)
<1>1. q \in Seq(Steps) /\ q # << >> /\ List(q) /\ q[1] = <<op1, l>>
  <2>1. q \in Seq(Steps) /\ q # << >> /\ List(q) /\ Head(q) = <<op1, l>>
    BY DEF SpinTypes, Lists, At
  <2> QED  BY <2>1, ReturnedIs
<1>2. r \in Seq(Steps) /\ r # << >> /\ r[1] = <<op2, l>>
  <2>1. /\ r \in Seq(Steps) /\ Len(r) = Len(q) /\ Len(q) \in Nat \ {0} /\ r[1] = <<op2, l>>
    BY <1>1, ReplacedIs
  <2> HIDE DEF r, q
  <2> QED  BY <2>1, SMT
<1>3. List(r)  BY <1>1, ReplacedList
<1>4. task' = [task EXCEPT ![c] = r] /\ task \in [Processors -> Seq(Steps)]
  BY DEF Then, SpinTypes
<1>5. \A ops : Comes(q, l, ops) <=> op1 \in ops
  BY <1>1, FirstComes
<1>6. \A m \in Locks : m # l => \A ops : Comes(r, m, ops) <=> Comes(q, m, ops)
  BY <1>1, ReplacedComes
<1> HIDE DEF r, q
<1>7. \A ops : Comes(r, l, ops) <=> op2 \in ops
  BY <1>2, FirstComes
<1>8. task'[c] = r /\ \A d \in Processors : d # c => task'[d] = task[d]
  BY <1>4
<1>9. task' \in [Processors -> Seq(Steps)]  BY <1>2, <1>4
<1>10. \A d \in Processors : List(task'[d])
  BY <1>3, <1>8 DEF Lists
<1>11. \A d \in Processors, m \in Locks : d # c \/ m # l =>
         \A ops : Comes(task'[d], m, ops) <=> Comes(task[d], m, ops)
  BY <1>6, <1>8, Zenon DEF q
<1> QED  BY <1>5, <1>7, <1>8, <1>9, <1>10, <1>11, Zenon DEF Moves, q

LEMMA ReturnMoves ==
    ASSUME SpinTypes, Lists, NEW c \in Processors, NEW l \in Locks, NEW op1,
           At(c, op1, l), Return(c), op1 \in Acquiring \cup Releasing,
           NEW op2, op1 \in Acquiring => op2 = "release", op1 \in Releasing => op2 = "acquire"
    PROVE  Moves(c, l, op1, op2)
<1> DEFINE q == task[c]
           r == Tail(q)
<1>1. q \in Seq(Steps) /\ q # << >> /\ List(q) /\ q[1] = <<op1, l>>
  <2>1. q \in Seq(Steps) /\ q # << >> /\ List(q) /\ Head(q) = <<op1, l>>
    BY DEF SpinTypes, Lists, At
  <2> QED  BY <2>1, ReturnedIs
<1>2. r \in Seq(Steps)  BY <1>1, ReturnedIs
<1>3. List(r)  BY <1>1, ReturnedList
<1>4. task' = [task EXCEPT ![c] = r] /\ task \in [Processors -> Seq(Steps)]
  BY DEF Return, SpinTypes
<1>5. \A ops : Comes(q, l, ops) <=> op1 \in ops
  BY <1>1, FirstComes
<1>6. \A m \in Locks : m # l => \A ops : Comes(r, m, ops) <=> Comes(q, m, ops)
  BY <1>1, ReturnedComes
<1>7. \A ops : "acquire" \notin ops => (Comes(r, l, ops) <=> op2 \in ops)
  <2> SUFFICES ASSUME NEW ops, "acquire" \notin ops  PROVE Comes(r, l, ops) <=> op2 \in ops
    OBVIOUS
  <2>1. CASE op1 \in Acquiring
    <3>1. Comes(r, l, ops) <=> "release" \in ops  BY <1>1, <2>1, AcquiredComes
    <3> QED  BY <2>1, <3>1
  <2>2. CASE op1 \in Releasing
    <3>1. ~Comes(r, l, ops)  BY <1>1, <2>2, ReleasedComes
    <3> QED  BY <2>2, <3>1
  <2> QED  BY <2>1, <2>2
<1> HIDE DEF r, q
<1>8. task'[c] = r /\ \A d \in Processors : d # c => task'[d] = task[d]
  BY <1>4
<1>9. task' \in [Processors -> Seq(Steps)]  BY <1>2, <1>4
<1>10. \A d \in Processors : List(task'[d])
  BY <1>3, <1>8 DEF Lists
<1>11. \A d \in Processors, m \in Locks : d # c \/ m # l =>
         \A ops : Comes(task'[d], m, ops) <=> Comes(task[d], m, ops)
  BY <1>6, <1>8, Zenon DEF q
<1> QED  BY <1>5, <1>7, <1>8, <1>9, <1>10, <1>11, Zenon DEF Moves, q

(* What the steps of a call look like in the three sets of the invariant.  *)
Has == {"release", "disown"}
LEMMA MovesTell ==
    ASSUME NEW c \in Processors, NEW l \in Locks, NEW op1, NEW op2, Moves(c, l, op1, op2),
           NEW ops \in {Started, Inside, Has}
    PROVE  /\ \A d \in Processors, m \in Locks : d # c \/ m # l =>
                (Comes(task'[d], m, ops) <=> Comes(task[d], m, ops))
           /\ Comes(task[c], l, ops) <=> op1 \in ops
           /\ Comes(task'[c], l, ops) <=> op2 \in ops
<1>1. "acquire" \notin ops  BY DEF Started, Inside, Has
<1> QED  BY <1>1, Zenon DEF Moves

LEMMA ComesMore ==
    ASSUME NEW q, NEW l, NEW ops, NEW more, ops \subseteq more, Comes(q, l, ops)
    PROVE  Comes(q, l, more)
<1>1. PICK i \in 1..Len(q) : q[i] \in ops \X {l} /\ \A j \in 1..(i - 1) : q[j][2] # l
  BY Zenon DEF Comes
<1>2. q[i] \in more \X {l}  BY <1>1
<1> QED  BY <1>1, <1>2, Zenon DEF Comes

LEMMA EmptyComes ==
    ASSUME NEW l, NEW ops
    PROVE  ~Comes(<< >>, l, ops)
<1>1. 1..Len(<< >>) = {}  BY SMT
<1> QED  BY <1>1, Zenon DEF Comes

-----------------------------------------------------------------------------
(* Conjuncts that a step does not disturb.                                 *)

(* Nothing has changed in the calls under way.                             *)
Same(ops) == \A d \in Processors, m \in Locks : Comes(task'[d], m, ops) <=> Comes(task[d], m, ops)

LEMMA MovesSame ==
    ASSUME NEW c \in Processors, NEW l \in Locks, NEW op1, NEW op2, Moves(c, l, op1, op2),
           NEW ops \in {Started, Inside, Has}, op1 \in ops <=> op2 \in ops
    PROVE  Same(ops)
<1>1. /\ \A d \in Processors, m \in Locks : d # c \/ m # l =>
           (Comes(task'[d], m, ops) <=> Comes(task[d], m, ops))
      /\ Comes(task[c], l, ops) <=> op1 \in ops
      /\ Comes(task'[c], l, ops) <=> op2 \in ops
  BY MovesTell
<1> QED  BY <1>1, Zenon DEF Same

LEMMA PushedSame ==
    ASSUME Same(Started), NEW c \in Processors
    PROVE  Pushed(c)' = Pushed(c)
<1>1. \A m \in Locks : Comes(task'[c], m, Started) <=> Comes(task[c], m, Started)
  BY Zenon DEF Same
<1>2. Pushed(c)' = {m \in Locks : Comes(task'[c], m, Started)}
  BY DEF Pushed, Comes, Started
<1>3. Pushed(c) = {m \in Locks : Comes(task[c], m, Started)}
  BY Zenon DEF Pushed
<1> QED  BY <1>1, <1>2, <1>3

LEMMA DepthSame ==
    ASSUME Depth, Same(Started), UNCHANGED ncli
    PROVE  Depth'
<1> SUFFICES ASSUME NEW c \in Processors
             PROVE  IsFiniteSet(Pushed(c)') /\ ncli'[c] = Cardinality(Pushed(c)')
  BY DEF Depth
<1>1. Pushed(c)' = Pushed(c)  BY PushedSame
<1> QED  BY <1>1, Zenon DEF Depth

LEMMA FlagsSame ==
    ASSUME Flags, Same(Started), UNCHANGED <<below, intr, intena>>
    PROVE  Flags'
<1> SUFFICES ASSUME NEW c \in Processors
             PROVE  /\ intr'[c] <=> Pushed(c)' = {} /\ below'[c] = << >>
                    /\ Pushed(c)' # {} => (intena'[c] <=> below'[c] = << >>)
  BY DEF Flags
<1>1. Pushed(c)' = Pushed(c)  BY PushedSame
<1> QED  BY <1>1, Zenon DEF Flags

LEMMA OwnersSame ==
    ASSUME Owners, Same(Inside), Same(Has), UNCHANGED <<locked, cpu>>
    PROVE  Owners'
<1>1. \A d \in Processors, m \in Locks :
        /\ Comes(task'[d], m, Inside) <=> Comes(task[d], m, Inside)
        /\ Comes(task'[d], m, Has) <=> Comes(task[d], m, Has)
  BY Zenon DEF Same
<1>2. Owners' = ( /\ \A l \in Locks : locked'[l] <=> \E c \in Processors : Comes(task'[c], l, Inside)
                  /\ \A l \in Locks : \A c, d \in Processors :
                       Comes(task'[c], l, Inside) /\ Comes(task'[d], l, Inside) => c = d
                  /\ \A l \in Locks : \A c \in Processors :
                       cpu'[l] = c <=> Comes(task'[c], l, Has))
  BY DEF Owners, Comes, Inside, Has
<1> QED  BY <1>1, <1>2, Zenon DEF Owners, Has

LEMMA ListsSame ==
    ASSUME Lists, \A d \in Processors : List(task'[d]), UNCHANGED below
    PROVE  Lists'
<1> SUFFICES ASSUME NEW d \in Processors
             PROVE  List(task'[d]) /\ (\/ below'[d] = << >>
                       \/ \E q : /\ below'[d] = <<q>> /\ List(q)
                                 /\ \A l \in Locks : ~Comes(q, l, Started))
  BY DEF Lists, List, Matched, Comes, Started, Steps
<1> QED  BY Zenon DEF Lists

(* The sets that op1 and op2 are in, for the steps of a call.               *)
LEMMA MembersOf ==
    /\ "acquire" \notin Started /\ "acquire" \notin Inside /\ "acquire" \notin Has
    /\ "notholding" \in Started /\ "notholding" \notin Inside /\ "notholding" \notin Has
    /\ "xchg" \in Started /\ "xchg" \notin Inside /\ "xchg" \notin Has
    /\ "own" \in Started /\ "own" \in Inside /\ "own" \notin Has
    /\ "release" \in Started /\ "release" \in Inside /\ "release" \in Has
    /\ "disown" \in Started /\ "disown" \in Inside /\ "disown" \in Has
    /\ "unlock" \in Started /\ "unlock" \in Inside /\ "unlock" \notin Has
    /\ "popcli" \in Started /\ "popcli" \notin Inside /\ "popcli" \notin Has
  BY DEF Started, Inside, Has

-----------------------------------------------------------------------------
(* pushcli() adds the lock to those that count, popcli() takes it away.    *)
LEMMA PushcliStep ==
    ASSUME SpinIInv, NEW c \in Processors, NEW l \in Locks, Pushcli(c, l)
    PROVE  SpinIInv'
<1>1. SpinTypes /\ Lists /\ Depth /\ Flags /\ Owners  BY DEF SpinIInv
<1>2. Moves(c, l, "acquire", "notholding")
  <2>1. At(c, "acquire", l) /\ Then(c, "notholding", l)  BY DEF Pushcli
  <2>2. /\ <<"notholding", l>> \in Steps
        /\ "acquire" \in Acquiring <=> "notholding" \in Acquiring
        /\ "acquire" \in Releasing <=> "notholding" \in Releasing
    BY DEF Steps, Acquiring, Releasing
  <2> QED  BY <1>1, <2>1, <2>2, ThenMoves
<1>3. /\ intr' = [intr EXCEPT ![c] = FALSE]
      /\ intena' = [intena EXCEPT ![c] = IF ncli[c] = 0 THEN intr[c] ELSE @]
      /\ ncli' = [ncli EXCEPT ![c] = @ + 1]
      /\ UNCHANGED <<below, locked, cpu, stopped>>
  BY DEF Pushcli
<1>4. Same(Inside) /\ Same(Has)
  <2>1. Same(Inside)  BY <1>2, MovesSame, MembersOf
  <2>2. Same(Has)  BY <1>2, MovesSame, MembersOf
  <2> QED  BY <2>1, <2>2
<1>5. /\ \A d \in Processors, m \in Locks : d # c \/ m # l =>
           (Comes(task'[d], m, Started) <=> Comes(task[d], m, Started))
      /\ ~Comes(task[c], l, Started) /\ Comes(task'[c], l, Started)
  BY <1>2, MovesTell, MembersOf
<1>6. \A d \in Processors : Pushed(d)' = {m \in Locks : Comes(task'[d], m, Started)}
  BY DEF Pushed, Comes, Started
<1>7. /\ Pushed(c)' = Pushed(c) \cup {l} /\ l \notin Pushed(c)
      /\ \A d \in Processors : d # c => Pushed(d)' = Pushed(d)
  BY <1>5, <1>6 DEF Pushed
<1>8. SpinTypes'
  <2>1. task' \in [Processors -> Seq(Steps)]  BY <1>2 DEF Moves
  <2>2. intr' \in [Processors -> BOOLEAN] /\ intena' \in [Processors -> BOOLEAN]
    BY <1>1, <1>3 DEF SpinTypes
  <2>3. ncli' \in [Processors -> Nat]
    <3>1. ncli \in [Processors -> Nat] /\ ncli[c] + 1 \in Nat  BY <1>1 DEF SpinTypes
    <3> QED  BY <3>1, <1>3
  <2> QED  BY <1>1, <1>3, <2>1, <2>2, <2>3 DEF SpinTypes, Steps
<1>9. Lists'
  <2>1. \A d \in Processors : List(task'[d])  BY <1>2 DEF Moves
  <2> QED  BY <1>1, <1>3, <2>1, ListsSame
<1>10. Depth'
  <2> SUFFICES ASSUME NEW d \in Processors
               PROVE  IsFiniteSet(Pushed(d)') /\ ncli'[d] = Cardinality(Pushed(d)')
    BY DEF Depth
  <2>1. IsFiniteSet(Pushed(d)) /\ ncli[d] = Cardinality(Pushed(d))  BY <1>1 DEF Depth
  <2>2. CASE d = c
    <3>1. /\ IsFiniteSet(Pushed(c) \cup {l})
          /\ Cardinality(Pushed(c) \cup {l}) = Cardinality(Pushed(c)) + 1
      BY <2>1, <2>2, <1>7, FS_AddElement
    <3>2. ncli'[c] = ncli[c] + 1  BY <1>1, <1>3 DEF SpinTypes
    <3> QED  BY <2>1, <2>2, <3>1, <3>2, <1>7
  <2>3. CASE d # c
    <3>1. ncli'[d] = ncli[d]  BY <1>1, <1>3, <2>3 DEF SpinTypes
    <3>2. Pushed(d)' = Pushed(d)  BY <1>7, <2>3
    <3> QED  BY <2>1, <3>1, <3>2, Zenon
  <2> QED  BY <2>2, <2>3
<1>11. Flags'
  <2> SUFFICES ASSUME NEW d \in Processors
               PROVE  /\ intr'[d] <=> Pushed(d)' = {} /\ below'[d] = << >>
                      /\ Pushed(d)' # {} => (intena'[d] <=> below'[d] = << >>)
    BY DEF Flags
  <2>1. /\ intr[d] <=> Pushed(d) = {} /\ below[d] = << >>
        /\ Pushed(d) # {} => (intena[d] <=> below[d] = << >>)
    BY <1>1, Zenon DEF Flags
  <2>2. CASE d = c
    <3>1. ~intr'[c] /\ Pushed(c)' # {}  BY <1>1, <1>3, <1>7 DEF SpinTypes
    <3>2. below'[c] = below[c]  BY <1>3
    <3>3. ncli[c] = 0 <=> Pushed(c) = {}
      BY <1>1, FS_EmptySet, Zenon DEF Depth
    <3>4. intena'[c] = IF ncli[c] = 0 THEN intr[c] ELSE intena[c]
      BY <1>1, <1>3 DEF SpinTypes
    <3>5. intena'[c] <=> below[c] = << >>
      BY <2>1, <2>2, <3>3, <3>4
    <3> QED  BY <2>2, <3>1, <3>2, <3>5, Zenon
  <2>3. CASE d # c
    <3>1. intr'[d] = intr[d] /\ intena'[d] = intena[d]  BY <1>1, <1>3, <2>3 DEF SpinTypes
    <3>2. Pushed(d)' = Pushed(d) /\ below'[d] = below[d]  BY <1>3, <1>7, <2>3
    <3> QED  BY <2>1, <3>1, <3>2, Zenon
  <2> QED  BY <2>2, <2>3
<1>12. Owners'  BY <1>1, <1>3, <1>4, OwnersSame
<1> QED  BY <1>8, <1>9, <1>10, <1>11, <1>12 DEF SpinIInv

LEMMA PopcliStep ==
    ASSUME SpinIInv, NEW c \in Processors, NEW l \in Locks, Popcli(c, l)
    PROVE  SpinIInv'
<1>1. SpinTypes /\ Lists /\ Depth /\ Flags /\ Owners  BY DEF SpinIInv
<1>2. Moves(c, l, "popcli", "acquire")
  <2>1. At(c, "popcli", l) /\ Return(c)  BY DEF Popcli
  <2>2. "popcli" \in Releasing /\ "popcli" \notin Acquiring  BY DEF Acquiring, Releasing
  <2> QED  BY <1>1, <2>1, <2>2, ReturnMoves
<1>3. /\ stopped' = (intr[c] \/ ncli[c] = 0)
      /\ ncli' = [ncli EXCEPT ![c] = IF @ = 0 THEN 0 ELSE @ - 1]
      /\ intr' = [intr EXCEPT ![c] = ncli[c] = 1 /\ intena[c]]
      /\ UNCHANGED <<below, intena, locked, cpu>>
  BY DEF Popcli
<1>4. Same(Inside) /\ Same(Has)
  <2>1. Same(Inside)  BY <1>2, MovesSame, MembersOf
  <2>2. Same(Has)  BY <1>2, MovesSame, MembersOf
  <2> QED  BY <2>1, <2>2
<1>5. /\ \A d \in Processors, m \in Locks : d # c \/ m # l =>
           (Comes(task'[d], m, Started) <=> Comes(task[d], m, Started))
      /\ Comes(task[c], l, Started) /\ ~Comes(task'[c], l, Started)
  BY <1>2, MovesTell, MembersOf
<1>6. \A d \in Processors : Pushed(d)' = {m \in Locks : Comes(task'[d], m, Started)}
  BY DEF Pushed, Comes, Started
<1>7. /\ Pushed(c)' = Pushed(c) \ {l} /\ l \in Pushed(c)
      /\ \A d \in Processors : d # c => Pushed(d)' = Pushed(d)
  BY <1>5, <1>6 DEF Pushed
<1>8. /\ IsFiniteSet(Pushed(c)) /\ ncli[c] = Cardinality(Pushed(c))
      /\ IsFiniteSet(Pushed(c)') /\ Cardinality(Pushed(c)') = ncli[c] - 1
      /\ ncli[c] \in Nat \ {0}
  <2>1. IsFiniteSet(Pushed(c)) /\ ncli[c] = Cardinality(Pushed(c))  BY <1>1 DEF Depth
  <2>2. IsFiniteSet(Pushed(c) \ {l}) /\ Cardinality(Pushed(c) \ {l}) = Cardinality(Pushed(c)) - 1
    BY <2>1, <1>7, FS_RemoveElement
  <2>3. ncli[c] # 0  BY <2>1, <1>7, FS_EmptySet, Zenon
  <2>4. ncli[c] \in Nat  BY <1>1 DEF SpinTypes
  <2> QED  BY <2>1, <2>2, <2>3, <2>4, <1>7
<1>9. stopped' = FALSE
  <2>1. ~intr[c]  BY <1>1, <1>7, Zenon DEF Flags
  <2> QED  BY <2>1, <1>3, <1>8
<1>10. ncli'[c] = ncli[c] - 1 /\ \A d \in Processors : d # c => ncli'[d] = ncli[d]
  BY <1>1, <1>3, <1>8 DEF SpinTypes
<1>11. SpinTypes'
  <2>1. task' \in [Processors -> Seq(Steps)]  BY <1>2 DEF Moves
  <2>2. intr' \in [Processors -> BOOLEAN] /\ intena' \in [Processors -> BOOLEAN]
    BY <1>1, <1>3 DEF SpinTypes
  <2>3. ncli' \in [Processors -> Nat]
    <3>1. ncli \in [Processors -> Nat] /\ ncli[c] - 1 \in Nat /\ ncli[c] # 0
      BY <1>1, <1>8 DEF SpinTypes
    <3>2. ncli' = [ncli EXCEPT ![c] = ncli[c] - 1]  BY <1>3, <3>1
    <3> QED  BY <3>1, <3>2
  <2> QED  BY <1>1, <1>3, <1>9, <2>1, <2>2, <2>3 DEF SpinTypes, Steps
<1>12. Lists'
  <2>1. \A d \in Processors : List(task'[d])  BY <1>2 DEF Moves
  <2> QED  BY <1>1, <1>3, <2>1, ListsSame
<1>13. Depth'
  <2> SUFFICES ASSUME NEW d \in Processors
               PROVE  IsFiniteSet(Pushed(d)') /\ ncli'[d] = Cardinality(Pushed(d)')
    BY DEF Depth
  <2>1. CASE d = c  BY <2>1, <1>8, <1>10
  <2>2. CASE d # c
    <3>1. IsFiniteSet(Pushed(d)) /\ ncli[d] = Cardinality(Pushed(d))  BY <1>1 DEF Depth
    <3>2. Pushed(d)' = Pushed(d) /\ ncli'[d] = ncli[d]  BY <1>7, <1>10, <2>2
    <3> QED  BY <3>1, <3>2, Zenon
  <2> QED  BY <2>1, <2>2
<1>14. Flags'
  <2> SUFFICES ASSUME NEW d \in Processors
               PROVE  /\ intr'[d] <=> Pushed(d)' = {} /\ below'[d] = << >>
                      /\ Pushed(d)' # {} => (intena'[d] <=> below'[d] = << >>)
    BY DEF Flags
  <2>1. /\ intr[d] <=> Pushed(d) = {} /\ below[d] = << >>
        /\ Pushed(d) # {} => (intena[d] <=> below[d] = << >>)
    BY <1>1, Zenon DEF Flags
  <2>2. CASE d = c
    <3>1. intena[c] <=> below[c] = << >>  BY <2>1, <2>2, <1>7
    <3>2. below'[c] = below[c] /\ intena'[c] = intena[c]  BY <1>3
    <3>3. Pushed(c)' = {} <=> ncli[c] = 1
      <4>1. Cardinality(Pushed(c)') = 0 <=> Pushed(c)' = {}  BY <1>8, FS_EmptySet, Zenon
      <4> QED  BY <4>1, <1>8
    <3>4. intr'[c] = (ncli[c] = 1 /\ intena[c])  BY <1>1, <1>3 DEF SpinTypes
    <3> QED  BY <2>2, <3>1, <3>2, <3>3, <3>4, Zenon
  <2>3. CASE d # c
    <3>1. intr'[d] = intr[d] /\ intena'[d] = intena[d]  BY <1>1, <1>3, <2>3 DEF SpinTypes
    <3>2. Pushed(d)' = Pushed(d) /\ below'[d] = below[d]  BY <1>3, <1>7, <2>3
    <3> QED  BY <2>1, <3>1, <3>2, Zenon
  <2> QED  BY <2>2, <2>3
<1>15. Owners'  BY <1>1, <1>3, <1>4, OwnersSame
<1> QED  BY <1>11, <1>12, <1>13, <1>14, <1>15 DEF SpinIInv

-----------------------------------------------------------------------------
(* The steps inside a call: a lock that counts goes on to.                 *)

(* What all of them have in common.                                        *)
LEMMA CallStep ==
    ASSUME SpinIInv, NEW c \in Processors, NEW l \in Locks,
           NEW op1 \in Started, NEW op2 \in Started, Moves(c, l, op1, op2),
           UNCHANGED <<below, intr, ncli, intena>>
    PROVE  /\ task' \in [Processors -> Seq(Steps)] /\ Lists' /\ Depth' /\ Flags'
<1>1. SpinTypes /\ Lists /\ Depth /\ Flags  BY DEF SpinIInv
<1>2. Same(Started)  BY MovesSame
<1>3. task' \in [Processors -> Seq(Steps)] /\ \A d \in Processors : List(task'[d])
  BY DEF Moves
<1>4. Lists'  BY <1>1, <1>3, ListsSame
<1>5. Depth'  BY <1>1, <1>2, DepthSame
<1>6. Flags'  BY <1>1, <1>2, FlagsSame
<1> QED  BY <1>3, <1>4, <1>5, <1>6

LEMMA TypesThen ==
    ASSUME SpinTypes, task' \in [Processors -> Seq(Steps)],
           UNCHANGED <<below, intr, ncli, intena>>, stopped' = FALSE,
           locked' \in [Locks -> BOOLEAN], cpu' \in [Locks -> Processors \cup {NoCpu}]
    PROVE  SpinTypes'
  BY DEF SpinTypes, Steps

LEMMA CheckHoldingStep ==
    ASSUME SpinIInv, NEW c \in Processors, NEW l \in Locks, CheckHolding(c, l)
    PROVE  SpinIInv'
<1>1. SpinTypes /\ Lists /\ Depth /\ Flags /\ Owners  BY DEF SpinIInv
<1>2. UNCHANGED <<below, intr, ncli, intena, locked, cpu>>  BY DEF CheckHolding
<1>3. ASSUME NEW op1 \in Started, NEW op2 \in Started, Moves(c, l, op1, op2),
             op1 \in Inside <=> op2 \in Inside, op1 \in Has <=> op2 \in Has, stopped' = FALSE
      PROVE  SpinIInv'
  <2>1. task' \in [Processors -> Seq(Steps)] /\ Lists' /\ Depth' /\ Flags'
    BY <1>2, <1>3, CallStep
  <2>2. Same(Inside) /\ Same(Has)
    <3>1. Same(Inside)  BY <1>3, MovesSame
    <3>2. Same(Has)  BY <1>3, MovesSame
    <3> QED  BY <3>1, <3>2
  <2>3. Owners'  BY <1>1, <1>2, <2>2, OwnersSame
  <2>4. locked' \in [Locks -> BOOLEAN] /\ cpu' \in [Locks -> Processors \cup {NoCpu}]
    BY <1>1, <1>2 DEF SpinTypes
  <2>5. SpinTypes'  BY <1>1, <1>2, <1>3, <2>1, <2>4, TypesThen
  <2> QED  BY <2>1, <2>3, <2>5 DEF SpinIInv
<1>4. Comes(task[c], l, Has) <=> cpu[l] = c  BY <1>1, Zenon DEF Owners, Has
<1>5. locked[l] <=> \E d \in Processors : Comes(task[d], l, Inside)
  BY <1>1, Zenon DEF Owners
<1>6. CASE At(c, "notholding", l) /\ Then(c, "xchg", l) /\ stopped' = Holding(c, l)
  <2>1. /\ <<"xchg", l>> \in Steps
        /\ "notholding" \in Acquiring <=> "xchg" \in Acquiring
        /\ "notholding" \in Releasing <=> "xchg" \in Releasing
    BY DEF Steps, Acquiring, Releasing
  <2>2. Moves(c, l, "notholding", "xchg")  BY <1>1, <1>6, <2>1, ThenMoves
  <2>3. ~Comes(task[c], l, Has)  BY <2>2, MovesTell, MembersOf
  <2>4. stopped' = FALSE  BY <1>4, <1>6, <2>3 DEF Holding
  <2> QED  BY <1>3, <2>2, <2>4, MembersOf
<1>7. CASE At(c, "release", l) /\ Then(c, "disown", l) /\ stopped' = ~Holding(c, l)
  <2>1. /\ <<"disown", l>> \in Steps
        /\ "release" \in Acquiring <=> "disown" \in Acquiring
        /\ "release" \in Releasing <=> "disown" \in Releasing
    BY DEF Steps, Acquiring, Releasing
  <2>2. Moves(c, l, "release", "disown")  BY <1>1, <1>7, <2>1, ThenMoves
  <2>3. Comes(task[c], l, Has)  BY <2>2, MovesTell, MembersOf
  <2>4. Comes(task[c], l, Inside)  BY <2>2, MovesTell, MembersOf
  <2>5. stopped' = FALSE  BY <1>4, <1>5, <1>7, <2>3, <2>4 DEF Holding
  <2> QED  BY <1>3, <2>2, <2>5, MembersOf
<1> QED  BY <1>6, <1>7 DEF CheckHolding

(* Owners in the next state, with its sets by name.                        *)
OwnersThen ==
    /\ \A l \in Locks : locked'[l] <=> \E c \in Processors : Comes(task'[c], l, Inside)
    /\ \A l \in Locks : \A c, d \in Processors :
         Comes(task'[c], l, Inside) /\ Comes(task'[d], l, Inside) => c = d
    /\ \A l \in Locks : \A c \in Processors : cpu'[l] = c <=> Comes(task'[c], l, Has)

LEMMA OwnersNext ==
    ASSUME OwnersThen
    PROVE  Owners'
  BY DEF OwnersThen, Owners, Comes, Inside, Has

(* Whoever has a lock is inside.                                           *)
LEMMA HasInside ==
    ASSUME NEW q, NEW l, Comes(q, l, Has)
    PROVE  Comes(q, l, Inside)
<1>1. Has \subseteq Inside  BY DEF Has, Inside
<1> QED  BY <1>1, ComesMore

LEMMA XchgStep ==
    ASSUME SpinIInv, NEW c \in Processors, NEW l \in Locks, Xchg(c, l)
    PROVE  SpinIInv'
<1>1. SpinTypes /\ Lists /\ Depth /\ Flags /\ Owners  BY DEF SpinIInv
<1>2. /\ UNCHANGED <<below, intr, ncli, intena, cpu, stopped>> /\ ~locked[l]
      /\ locked' = [locked EXCEPT ![l] = TRUE]
  BY DEF Xchg
<1>3. Moves(c, l, "xchg", "own")
  <2>1. /\ <<"own", l>> \in Steps
        /\ "xchg" \in Acquiring <=> "own" \in Acquiring
        /\ "xchg" \in Releasing <=> "own" \in Releasing
    BY DEF Steps, Acquiring, Releasing
  <2>2. At(c, "xchg", l) /\ Then(c, "own", l)  BY DEF Xchg
  <2> QED  BY <1>1, <2>1, <2>2, ThenMoves
<1>4. task' \in [Processors -> Seq(Steps)] /\ Lists' /\ Depth' /\ Flags'
  BY <1>2, <1>3, CallStep, MembersOf
<1>5. SpinTypes'
  <2>1. locked' \in [Locks -> BOOLEAN] /\ cpu' \in [Locks -> Processors \cup {NoCpu}]
        /\ stopped' = FALSE
    BY <1>1, <1>2 DEF SpinTypes
  <2> QED  BY <1>1, <1>2, <1>4, <2>1, TypesThen
<1>6. /\ \A d \in Processors, m \in Locks : d # c \/ m # l =>
           (Comes(task'[d], m, Inside) <=> Comes(task[d], m, Inside))
      /\ Comes(task'[c], l, Inside)
  BY <1>3, MovesTell, MembersOf
<1>7. \A d \in Processors, m \in Locks : Comes(task'[d], m, Has) <=> Comes(task[d], m, Has)
  <2>1. Same(Has)  BY <1>3, MovesSame, MembersOf
  <2> QED  BY <2>1, Zenon DEF Same
<1>8. \A d \in Processors : ~Comes(task[d], l, Inside)
  BY <1>1, <1>2, Zenon DEF Owners
<1>9. locked'[l] = TRUE /\ \A m \in Locks : m # l => locked'[m] = locked[m]
  BY <1>1, <1>2 DEF SpinTypes
<1>10. \A m \in Locks : locked'[m] <=> \E d \in Processors : Comes(task'[d], m, Inside)
  <2> SUFFICES ASSUME NEW m \in Locks
               PROVE  locked'[m] <=> \E d \in Processors : Comes(task'[d], m, Inside)
    OBVIOUS
  <2>1. CASE m = l  BY <2>1, <1>6, <1>9
  <2>2. CASE m # l
    <3>1. locked[m] <=> \E d \in Processors : Comes(task[d], m, Inside)
      BY <1>1, Zenon DEF Owners
    <3> QED  BY <2>2, <3>1, <1>6, <1>9, Zenon
  <2> QED  BY <2>1, <2>2
<1>11. \A m \in Locks : \A d, f \in Processors :
         Comes(task'[d], m, Inside) /\ Comes(task'[f], m, Inside) => d = f
  <2> SUFFICES ASSUME NEW m \in Locks, NEW d \in Processors, NEW f \in Processors,
                      Comes(task'[d], m, Inside), Comes(task'[f], m, Inside)
               PROVE  d = f
    OBVIOUS
  <2>1. CASE m = l  BY <2>1, <1>6, <1>8, Zenon
  <2>2. CASE m # l
    <3>1. Comes(task[d], m, Inside) /\ Comes(task[f], m, Inside)  BY <2>2, <1>6, Zenon
    <3> QED  BY <1>1, <3>1, Zenon DEF Owners
  <2> QED  BY <2>1, <2>2
<1>12. \A m \in Locks : \A d \in Processors : cpu'[m] = d <=> Comes(task'[d], m, Has)
  <2>1. \A m \in Locks : \A d \in Processors : cpu[m] = d <=> Comes(task[d], m, Has)
    BY <1>1, Zenon DEF Owners, Has
  <2>2. cpu' = cpu  BY <1>2
  <2> QED  BY <1>7, <2>1, <2>2, Zenon
<1>13. Owners'  BY <1>10, <1>11, <1>12, OwnersNext DEF OwnersThen
<1> QED  BY <1>4, <1>5, <1>13 DEF SpinIInv

LEMMA UnlockStep ==
    ASSUME SpinIInv, NEW c \in Processors, NEW l \in Locks, Unlock(c, l)
    PROVE  SpinIInv'
<1>1. SpinTypes /\ Lists /\ Depth /\ Flags /\ Owners  BY DEF SpinIInv
<1>2. /\ UNCHANGED <<below, intr, ncli, intena, cpu, stopped>>
      /\ locked' = [locked EXCEPT ![l] = FALSE]
  BY DEF Unlock
<1>3. Moves(c, l, "unlock", "popcli")
  <2>1. /\ <<"popcli", l>> \in Steps
        /\ "unlock" \in Acquiring <=> "popcli" \in Acquiring
        /\ "unlock" \in Releasing <=> "popcli" \in Releasing
    BY DEF Steps, Acquiring, Releasing
  <2>2. At(c, "unlock", l) /\ Then(c, "popcli", l)  BY DEF Unlock
  <2> QED  BY <1>1, <2>1, <2>2, ThenMoves
<1>4. task' \in [Processors -> Seq(Steps)] /\ Lists' /\ Depth' /\ Flags'
  BY <1>2, <1>3, CallStep, MembersOf
<1>5. SpinTypes'
  <2>1. locked' \in [Locks -> BOOLEAN] /\ cpu' \in [Locks -> Processors \cup {NoCpu}]
        /\ stopped' = FALSE
    BY <1>1, <1>2 DEF SpinTypes
  <2> QED  BY <1>1, <1>2, <1>4, <2>1, TypesThen
<1>6. /\ \A d \in Processors, m \in Locks : d # c \/ m # l =>
           (Comes(task'[d], m, Inside) <=> Comes(task[d], m, Inside))
      /\ Comes(task[c], l, Inside) /\ ~Comes(task'[c], l, Inside)
  BY <1>3, MovesTell, MembersOf
<1>7. \A d \in Processors, m \in Locks : Comes(task'[d], m, Has) <=> Comes(task[d], m, Has)
  <2>1. Same(Has)  BY <1>3, MovesSame, MembersOf
  <2> QED  BY <2>1, Zenon DEF Same
<1>8. \A d \in Processors : ~Comes(task'[d], l, Inside)
  <2> SUFFICES ASSUME NEW d \in Processors, Comes(task'[d], l, Inside)  PROVE FALSE
    OBVIOUS
  <2>1. d # c  BY <1>6
  <2>2. Comes(task[d], l, Inside)  BY <2>1, <1>6, Zenon
  <2> QED  BY <1>1, <1>6, <2>1, <2>2, Zenon DEF Owners
<1>9. locked'[l] = FALSE /\ \A m \in Locks : m # l => locked'[m] = locked[m]
  BY <1>1, <1>2 DEF SpinTypes
<1>10. \A m \in Locks : locked'[m] <=> \E d \in Processors : Comes(task'[d], m, Inside)
  <2> SUFFICES ASSUME NEW m \in Locks
               PROVE  locked'[m] <=> \E d \in Processors : Comes(task'[d], m, Inside)
    OBVIOUS
  <2>1. CASE m = l  BY <2>1, <1>8, <1>9
  <2>2. CASE m # l
    <3>1. locked[m] <=> \E d \in Processors : Comes(task[d], m, Inside)
      BY <1>1, Zenon DEF Owners
    <3> QED  BY <2>2, <3>1, <1>6, <1>9, Zenon
  <2> QED  BY <2>1, <2>2
<1>11. \A m \in Locks : \A d, f \in Processors :
         Comes(task'[d], m, Inside) /\ Comes(task'[f], m, Inside) => d = f
  <2> SUFFICES ASSUME NEW m \in Locks, NEW d \in Processors, NEW f \in Processors,
                      Comes(task'[d], m, Inside), Comes(task'[f], m, Inside)
               PROVE  d = f
    OBVIOUS
  <2>1. m # l  BY <1>8
  <2>2. Comes(task[d], m, Inside) /\ Comes(task[f], m, Inside)  BY <2>1, <1>6, Zenon
  <2> QED  BY <1>1, <2>2, Zenon DEF Owners
<1>12. \A m \in Locks : \A d \in Processors : cpu'[m] = d <=> Comes(task'[d], m, Has)
  <2>1. \A m \in Locks : \A d \in Processors : cpu[m] = d <=> Comes(task[d], m, Has)
    BY <1>1, Zenon DEF Owners, Has
  <2>2. cpu' = cpu  BY <1>2
  <2> QED  BY <1>7, <2>1, <2>2, Zenon
<1>13. Owners'  BY <1>10, <1>11, <1>12, OwnersNext DEF OwnersThen
<1> QED  BY <1>4, <1>5, <1>13 DEF SpinIInv

LEMMA SetCpuStep ==
    ASSUME SpinIInv, SpinAssumption, NEW c \in Processors, NEW l \in Locks, SetCpu(c, l)
    PROVE  SpinIInv'
<1>1. SpinTypes /\ Lists /\ Depth /\ Flags /\ Owners  BY DEF SpinIInv
<1>2. UNCHANGED <<below, intr, ncli, intena, locked, stopped>>  BY DEF SetCpu
<1>3. ASSUME NEW op1 \in Started, NEW op2 \in Started, Moves(c, l, op1, op2),
             op1 \in Inside, op2 \in Inside,
             NEW v \in {c, NoCpu}, cpu' = [cpu EXCEPT ![l] = v], op2 \in Has <=> v = c
      PROVE  SpinIInv'
  <2>1. task' \in [Processors -> Seq(Steps)] /\ Lists' /\ Depth' /\ Flags'
    BY <1>2, <1>3, CallStep
  <2>2. \A d \in Processors, m \in Locks :
           Comes(task'[d], m, Inside) <=> Comes(task[d], m, Inside)
    <3>1. Same(Inside)  BY <1>3, MovesSame
    <3> QED  BY <3>1, Zenon DEF Same
  <2>3. /\ \A d \in Processors, m \in Locks : d # c \/ m # l =>
             (Comes(task'[d], m, Has) <=> Comes(task[d], m, Has))
        /\ Comes(task'[c], l, Has) <=> v = c
    BY <1>3, MovesTell
  <2>4. Comes(task[c], l, Inside)  BY <1>3, MovesTell
  <2>5. cpu'[l] = v /\ \A m \in Locks : m # l => cpu'[m] = cpu[m]
    BY <1>1, <1>3 DEF SpinTypes
  <2>6. ASSUME NEW d \in Processors, d # c  PROVE ~Comes(task'[d], l, Has)
    <3>1. ~Comes(task[d], l, Inside)  BY <1>1, <2>4, <2>6, Zenon DEF Owners
    <3>2. ~Comes(task[d], l, Has)  BY <3>1, HasInside
    <3> QED  BY <2>3, <2>6, <3>2, Zenon
  <2>7. \A m \in Locks : \A d \in Processors : cpu'[m] = d <=> Comes(task'[d], m, Has)
    <3> SUFFICES ASSUME NEW m \in Locks, NEW d \in Processors
                 PROVE  cpu'[m] = d <=> Comes(task'[d], m, Has)
      OBVIOUS
    <3>1. CASE m = l /\ d = c  BY <3>1, <2>3, <2>5
    <3>2. CASE m = l /\ d # c
      <4>1. v # d  BY <3>2 DEF SpinAssumption
      <4> QED  BY <3>2, <4>1, <2>5, <2>6
    <3>3. CASE m # l
      <4>1. cpu[m] = d <=> Comes(task[d], m, Has)  BY <1>1, Zenon DEF Owners, Has
      <4> QED  BY <3>3, <4>1, <2>3, <2>5, Zenon
    <3> QED  BY <3>1, <3>2, <3>3
  <2>8. OwnersThen
    <3>1. locked' = locked  BY <1>2
    <3>2. \A m \in Locks : locked[m] <=> \E d \in Processors : Comes(task[d], m, Inside)
      BY <1>1, Zenon DEF Owners
    <3>3. \A m \in Locks : \A d, f \in Processors :
             Comes(task[d], m, Inside) /\ Comes(task[f], m, Inside) => d = f
      BY <1>1, Zenon DEF Owners
    <3> QED  BY <2>2, <2>7, <3>1, <3>2, <3>3, Zenon DEF OwnersThen
  <2>9. locked' \in [Locks -> BOOLEAN] /\ cpu' \in [Locks -> Processors \cup {NoCpu}]
        /\ stopped' = FALSE
    BY <1>1, <1>2, <1>3 DEF SpinTypes
  <2>10. SpinTypes'  BY <1>1, <1>2, <2>1, <2>9, TypesThen
  <2> QED  BY <2>1, <2>8, <2>10, OwnersNext DEF SpinIInv
<1>4. CASE At(c, "own", l) /\ Return(c) /\ cpu' = [cpu EXCEPT ![l] = c]
  <2>1. "own" \in Acquiring /\ "own" \notin Releasing  BY DEF Acquiring, Releasing
  <2>2. Moves(c, l, "own", "release")  BY <1>1, <1>4, <2>1, ReturnMoves
  <2> QED  BY <1>3, <1>4, <2>2, MembersOf
<1>5. CASE At(c, "disown", l) /\ Then(c, "unlock", l) /\ cpu' = [cpu EXCEPT ![l] = NoCpu]
  <2>1. /\ <<"unlock", l>> \in Steps
        /\ "disown" \in Acquiring <=> "unlock" \in Acquiring
        /\ "disown" \in Releasing <=> "unlock" \in Releasing
    BY DEF Steps, Acquiring, Releasing
  <2>2. Moves(c, l, "disown", "unlock")  BY <1>1, <1>5, <2>1, ThenMoves
  <2>3. NoCpu # c  BY DEF SpinAssumption
  <2> QED  BY <1>3, <1>5, <2>2, <2>3, MembersOf
<1> QED  BY <1>4, <1>5 DEF SetCpu

-----------------------------------------------------------------------------
(* Lists of calls come and go only while none is under way.                *)

(* What the three actions have in common: processor c has a new list in    *)
(* which, as in the old one, no call is under way.                         *)
LEMMA NewList ==
    ASSUME SpinIInv, NEW c \in Processors, NEW r, task' = [task EXCEPT ![c] = r],
           List(r), \A l \in Locks : ~Comes(r, l, Started), Pushed(c) = {},
           UNCHANGED <<ncli, intena, locked, cpu, stopped>>
    PROVE  /\ task' \in [Processors -> Seq(Steps)] /\ task'[c] = r
           /\ \A d \in Processors : List(task'[d]) /\ Pushed(d)' = Pushed(d)
           /\ \A d \in Processors : d # c => task'[d] = task[d]
           /\ Depth' /\ Owners'
<1>1. SpinTypes /\ Lists /\ Depth /\ Flags /\ Owners  BY DEF SpinIInv
<1>2. task'[c] = r /\ \A d \in Processors : d # c => task'[d] = task[d]
  BY <1>1 DEF SpinTypes
<1>3. ASSUME NEW ops, ops \subseteq Started  PROVE Same(ops)
  <2>1. \A l \in Locks : ~Comes(r, l, ops)  BY <1>3, ComesMore
  <2>2. \A l \in Locks : ~Comes(task[c], l, Started)  BY DEF Pushed
  <2>3. \A l \in Locks : ~Comes(task[c], l, ops)  BY <1>3, <2>2, ComesMore
  <2> QED  BY <1>2, <2>1, <2>3, Zenon DEF Same
<1>4. Same(Started) /\ Same(Inside) /\ Same(Has)
  <2>1. Inside \subseteq Started /\ Has \subseteq Started  BY DEF Inside, Has, Started
  <2> QED  BY <1>3, <2>1
<1>5. r \in Seq(Steps)  BY DEF List
<1>6. task' \in [Processors -> Seq(Steps)]  BY <1>1, <1>5 DEF SpinTypes
<1>7. \A d \in Processors : List(task'[d])  BY <1>1, <1>2 DEF Lists
<1>8. \A d \in Processors : Pushed(d)' = Pushed(d)  BY <1>4, PushedSame
<1>9. Depth'  BY <1>1, <1>4, DepthSame
<1>10. Owners'  BY <1>1, <1>4, OwnersSame
<1> QED  BY <1>2, <1>6, <1>7, <1>8, <1>9, <1>10

(* Lists in the next state.                                                *)
LEMMA ListsNext ==
    ASSUME \A c \in Processors :
              /\ List(task'[c])
              /\ \/ below'[c] = << >>
                 \/ \E q : /\ below'[c] = <<q>> /\ List(q)
                           /\ \A l \in Locks : ~Comes(q, l, Started)
    PROVE  Lists'
  BY DEF Lists, List, Matched, Comes, Started, Steps

LEMMA FlagsNext ==
    ASSUME \A c \in Processors :
              /\ intr'[c] <=> Pushed(c)' = {} /\ below'[c] = << >>
              /\ Pushed(c)' # {} => (intena'[c] <=> below'[c] = << >>)
    PROVE  Flags'
  BY DEF Flags

LEMMA EnterStep ==
    ASSUME SpinIInv, SpinAssumption, NEW c \in Processors, NEW path \in Paths, Enter(c, path)
    PROVE  SpinIInv'
<1>1. SpinTypes /\ Lists /\ Depth /\ Flags /\ Owners  BY DEF SpinIInv
<1>2. /\ task[c] = << >> /\ task' = [task EXCEPT ![c] = path]
      /\ UNCHANGED <<below, intr, ncli, intena, locked, cpu, stopped>>
  BY DEF Enter
<1>3. List(path) /\ \A l \in Locks : ~Comes(path, l, Started)  BY PathList
<1>4. Pushed(c) = {}  BY <1>2, EmptyComes DEF Pushed
<1>5. /\ task' \in [Processors -> Seq(Steps)] /\ Depth' /\ Owners'
      /\ \A d \in Processors : List(task'[d]) /\ Pushed(d)' = Pushed(d)
  BY <1>2, <1>3, <1>4, NewList
<1>6. Lists'  BY <1>1, <1>2, <1>5, ListsSame
<1>7. Flags'
  <2>1. ASSUME NEW d \in Processors
        PROVE  /\ intr'[d] <=> Pushed(d)' = {} /\ below'[d] = << >>
               /\ Pushed(d)' # {} => (intena'[d] <=> below'[d] = << >>)
    <3>1. intr' = intr /\ below' = below /\ intena' = intena  BY <1>2
    <3>2. Pushed(d)' = Pushed(d)  BY <1>5
    <3> QED  BY <1>1, <3>1, <3>2, Zenon DEF Flags
  <2> QED  BY <2>1, FlagsNext
<1>8. SpinTypes'
  <2>1. locked' \in [Locks -> BOOLEAN] /\ cpu' \in [Locks -> Processors \cup {NoCpu}]
        /\ stopped' = FALSE
    BY <1>1, <1>2 DEF SpinTypes
  <2> QED  BY <1>1, <1>2, <1>5, <2>1, TypesThen
<1> QED  BY <1>5, <1>6, <1>7, <1>8 DEF SpinIInv

LEMMA InterruptStep ==
    ASSUME SpinIInv, SpinAssumption, NEW c \in Processors, NEW path \in Handlers,
           Interrupt(c, path)
    PROVE  SpinIInv'
<1>1. SpinTypes /\ Lists /\ Depth /\ Flags /\ Owners  BY DEF SpinIInv
<1>2. /\ intr[c] /\ task' = [task EXCEPT ![c] = path]
      /\ below' = [below EXCEPT ![c] = <<task[c]>> \o @]
      /\ intr' = [intr EXCEPT ![c] = FALSE]
      /\ UNCHANGED <<ncli, intena, locked, cpu, stopped>>
  BY DEF Interrupt
<1>3. List(path) /\ \A l \in Locks : ~Comes(path, l, Started)  BY PathList
<1>4. Pushed(c) = {} /\ below[c] = << >>  BY <1>1, <1>2, Zenon DEF Flags
<1>5. /\ task' \in [Processors -> Seq(Steps)] /\ Depth' /\ Owners'
      /\ \A d \in Processors : List(task'[d]) /\ Pushed(d)' = Pushed(d)
  BY <1>2, <1>3, <1>4, NewList
<1>6. below'[c] = <<task[c]>> /\ \A d \in Processors : d # c => below'[d] = below[d]
  <2>1. <<task[c]>> \o << >> = <<task[c]>>  BY SMT
  <2> QED  BY <1>1, <1>2, <1>4, <2>1 DEF SpinTypes
<1>7. List(task[c]) /\ \A l \in Locks : ~Comes(task[c], l, Started)
  BY <1>1, <1>4 DEF Lists, Pushed
<1>8. Lists'
  <2>1. ASSUME NEW d \in Processors
        PROVE  /\ List(task'[d])
               /\ \/ below'[d] = << >>
                  \/ \E q : /\ below'[d] = <<q>> /\ List(q)
                            /\ \A l \in Locks : ~Comes(q, l, Started)
    <3>1. CASE d = c  BY <3>1, <1>5, <1>6, <1>7, Zenon
    <3>2. CASE d # c
      <4>1. below'[d] = below[d]  BY <3>2, <1>6
      <4> QED  BY <4>1, <1>1, <1>5, Zenon DEF Lists
    <3> QED  BY <3>1, <3>2
  <2> QED  BY <2>1, ListsNext
<1>9. Flags'
  <2>1. ASSUME NEW d \in Processors
        PROVE  /\ intr'[d] <=> Pushed(d)' = {} /\ below'[d] = << >>
               /\ Pushed(d)' # {} => (intena'[d] <=> below'[d] = << >>)
    <3>1. Pushed(d)' = Pushed(d)  BY <1>5
    <3>2. CASE d = c
      <4>1. intr'[c] = FALSE  BY <1>1, <1>2 DEF SpinTypes
      <4>2. below'[c] # << >>  BY <1>6
      <4> QED  BY <3>1, <3>2, <4>1, <4>2, <1>4
    <3>3. CASE d # c
      <4>1. intr'[d] = intr[d] /\ below'[d] = below[d] /\ intena'[d] = intena[d]
        BY <1>1, <1>2, <1>6, <3>3 DEF SpinTypes
      <4> QED  BY <1>1, <3>1, <4>1, Zenon DEF Flags
    <3> QED  BY <3>2, <3>3
  <2> QED  BY <2>1, FlagsNext
<1>10. SpinTypes'
  <2>1. task[c] \in Seq(Steps) /\ below \in [Processors -> Seq(Seq(Steps))]
    BY <1>1 DEF SpinTypes
  <2>2. below' \in [Processors -> Seq(Seq(Steps))]
    <3>1. <<task[c]>> \in Seq(Seq(Steps))  BY <2>1
    <3>2. below' = [below EXCEPT ![c] = <<task[c]>>]
      <4>1. <<task[c]>> \o << >> = <<task[c]>>  BY SMT
      <4> QED  BY <1>2, <1>4, <4>1
    <3> QED  BY <2>1, <3>1, <3>2
  <2>3. intr' \in [Processors -> BOOLEAN]  BY <1>1, <1>2 DEF SpinTypes
  <2> QED  BY <1>1, <1>2, <1>5, <2>2, <2>3 DEF SpinTypes, Steps
<1> QED  BY <1>5, <1>8, <1>9, <1>10 DEF SpinIInv

LEMMA IretStep ==
    ASSUME SpinIInv, NEW c \in Processors, Iret(c)
    PROVE  SpinIInv'
<1>1. SpinTypes /\ Lists /\ Depth /\ Flags /\ Owners  BY DEF SpinIInv
<1>2. /\ task[c] = << >> /\ below[c] # << >>
      /\ task' = [task EXCEPT ![c] = Head(below[c])]
      /\ below' = [below EXCEPT ![c] = Tail(@)]
      /\ intr' = [intr EXCEPT ![c] = TRUE]
      /\ UNCHANGED <<ncli, intena, locked, cpu, stopped>>
  BY DEF Iret
<1>3. PICK q : below[c] = <<q>> /\ List(q) /\ \A l \in Locks : ~Comes(q, l, Started)
  BY <1>1, <1>2, Zenon DEF Lists
<1>4. Head(below[c]) = q /\ Tail(below[c]) = << >>  BY <1>3
<1>5. Pushed(c) = {}  BY <1>2, EmptyComes DEF Pushed
<1>6. task' = [task EXCEPT ![c] = q]  BY <1>2, <1>4
<1>7. /\ task' \in [Processors -> Seq(Steps)] /\ Depth' /\ Owners'
      /\ \A d \in Processors : List(task'[d]) /\ Pushed(d)' = Pushed(d)
  BY <1>2, <1>3, <1>5, <1>6, NewList
<1>8. below'[c] = << >> /\ \A d \in Processors : d # c => below'[d] = below[d]
  BY <1>1, <1>2, <1>4 DEF SpinTypes
<1>9. Lists'
  <2>1. ASSUME NEW d \in Processors
        PROVE  /\ List(task'[d])
               /\ \/ below'[d] = << >>
                  \/ \E s : /\ below'[d] = <<s>> /\ List(s)
                            /\ \A l \in Locks : ~Comes(s, l, Started)
    <3>1. CASE d = c  BY <3>1, <1>7, <1>8
    <3>2. CASE d # c
      <4>1. below'[d] = below[d]  BY <3>2, <1>8
      <4> QED  BY <4>1, <1>1, <1>7, Zenon DEF Lists
    <3> QED  BY <3>1, <3>2
  <2> QED  BY <2>1, ListsNext
<1>10. Flags'
  <2>1. ASSUME NEW d \in Processors
        PROVE  /\ intr'[d] <=> Pushed(d)' = {} /\ below'[d] = << >>
               /\ Pushed(d)' # {} => (intena'[d] <=> below'[d] = << >>)
    <3>1. Pushed(d)' = Pushed(d)  BY <1>7
    <3>2. CASE d = c
      <4>1. intr'[c] = TRUE  BY <1>1, <1>2 DEF SpinTypes
      <4> QED  BY <3>1, <3>2, <4>1, <1>5, <1>8
    <3>3. CASE d # c
      <4>1. intr'[d] = intr[d] /\ below'[d] = below[d] /\ intena'[d] = intena[d]
        BY <1>1, <1>2, <1>8, <3>3 DEF SpinTypes
      <4> QED  BY <1>1, <3>1, <4>1, Zenon DEF Flags
    <3> QED  BY <3>2, <3>3
  <2> QED  BY <2>1, FlagsNext
<1>11. SpinTypes'
  <2>1. below' \in [Processors -> Seq(Seq(Steps))]
    <3>1. below \in [Processors -> Seq(Seq(Steps))] /\ << >> \in Seq(Seq(Steps))
      BY <1>1 DEF SpinTypes
    <3>2. below' = [below EXCEPT ![c] = << >>]  BY <1>2, <1>4
    <3> QED  BY <3>1, <3>2
  <2>2. intr' \in [Processors -> BOOLEAN]  BY <1>1, <1>2 DEF SpinTypes
  <2> QED  BY <1>1, <1>2, <1>7, <2>1, <2>2 DEF SpinTypes, Steps
<1> QED  BY <1>7, <1>9, <1>10, <1>11 DEF SpinIInv

-----------------------------------------------------------------------------
LEMMA SpinInitIInv ==
    ASSUME SpinAssumption, SpinInit
    PROVE  SpinIInv
<1> USE DEF SpinInit
<1>1. SpinTypes  BY DEF SpinTypes
<1>2. List(<< >>)
  <2>1. 1..Len(<< >>) = {} /\ 2..Len(<< >>) = {}  BY SMT
  <2>2. << >> \in Seq(Steps)  BY SMT
  <2> QED  BY <2>1, <2>2, Zenon DEF List, Matched
<1>3. \A c \in Processors : task[c] = << >> /\ below[c] = << >>  OBVIOUS
<1>4. Lists  BY <1>2, <1>3, Zenon DEF Lists
<1>5. \A c \in Processors, l \in Locks : \A ops : ~Comes(task[c], l, ops)
  BY <1>3, EmptyComes, Zenon
<1>6. \A c \in Processors : Pushed(c) = {}  BY <1>5 DEF Pushed
<1>7. Depth  BY <1>6, FS_EmptySet DEF Depth
<1>8. Flags  BY <1>3, <1>6 DEF Flags
<1>9. \A l \in Locks, c \in Processors : ~locked[l] /\ cpu[l] # c
  BY DEF SpinAssumption
<1>10. Owners  BY <1>5, <1>9, Zenon DEF Owners
<1> QED  BY <1>1, <1>4, <1>7, <1>8, <1>10 DEF SpinIInv

LEMMA SpinUnchanged ==
    ASSUME SpinIInv, UNCHANGED spinVars
    PROVE  SpinIInv'
<1>1. SpinTypes /\ Lists /\ Depth /\ Flags /\ Owners  BY DEF SpinIInv
<1>2. UNCHANGED <<task, below, intr, ncli, intena, locked, cpu, stopped>>  BY DEF spinVars
<1>3. Same(Started) /\ Same(Inside) /\ Same(Has)
  <2>1. task' = task  BY <1>2
  <2> QED  BY <2>1, Zenon DEF Same
<1>4. \A d \in Processors : List(task'[d])  BY <1>1, <1>2 DEF Lists
<1>5. SpinTypes'  BY <1>1, <1>2 DEF SpinTypes, Steps
<1>6. Lists'  BY <1>1, <1>2, <1>4, ListsSame
<1>7. Depth'  BY <1>1, <1>2, <1>3, DepthSame
<1>8. Flags'  BY <1>1, <1>2, <1>3, FlagsSame
<1>9. Owners'  BY <1>1, <1>2, <1>3, OwnersSame
<1> QED  BY <1>5, <1>6, <1>7, <1>8, <1>9 DEF SpinIInv

LEMMA SpinNextIInv ==
    ASSUME SpinAssumption, SpinIInv, [SpinNext]_spinVars
    PROVE  SpinIInv'
<1>1. CASE UNCHANGED spinVars  BY <1>1, SpinUnchanged
<1>2. CASE SpinNext
  <2>1. PICK c \in Processors :
          \/ \E path \in Paths : Enter(c, path)
          \/ \E path \in Handlers : Interrupt(c, path)
          \/ Iret(c)
          \/ \E l \in Locks : Pushcli(c, l) \/ Popcli(c, l) \/
                 CheckHolding(c, l) \/ Xchg(c, l) \/ Unlock(c, l) \/ SetCpu(c, l)
    BY <1>2, Zenon DEF SpinNext
  <2>2. ASSUME NEW path \in Paths, Enter(c, path)  PROVE SpinIInv'
    BY <2>2, EnterStep
  <2>3. ASSUME NEW path \in Handlers, Interrupt(c, path)  PROVE SpinIInv'
    BY <2>3, InterruptStep
  <2>4. CASE Iret(c)  BY <2>4, IretStep
  <2>5. ASSUME NEW l \in Locks, Pushcli(c, l)  PROVE SpinIInv'
    BY <2>5, PushcliStep
  <2>6. ASSUME NEW l \in Locks, Popcli(c, l)  PROVE SpinIInv'
    BY <2>6, PopcliStep
  <2>7. ASSUME NEW l \in Locks, CheckHolding(c, l)  PROVE SpinIInv'
    BY <2>7, CheckHoldingStep
  <2>8. ASSUME NEW l \in Locks, Xchg(c, l)  PROVE SpinIInv'
    BY <2>8, XchgStep
  <2>9. ASSUME NEW l \in Locks, Unlock(c, l)  PROVE SpinIInv'
    BY <2>9, UnlockStep
  <2>10. ASSUME NEW l \in Locks, SetCpu(c, l)  PROVE SpinIInv'
    BY <2>10, SetCpuStep
  <2> QED
    BY <2>1, <2>2, <2>3, <2>4, <2>5, <2>6, <2>7, <2>8, <2>9, <2>10
<1> QED  BY <1>1, <1>2

(* What the invariant says of exclusion: the code that was interrupted has *)
(* no lock, and locked and cpu follow the calls.                           *)
LEMMA SpinSound ==
    ASSUME SpinIInv
    PROVE  SpinLocksSound
<1>1. SpinTypes /\ Lists /\ Depth /\ Flags /\ Owners  BY DEF SpinIInv
<1>2. ASSUME NEW c \in Processors, NEW l \in Locks
      PROVE  InSection(c, l) <=> Comes(task[c], l, Inside)
  <2>1. ASSUME NEW q \in Interrupted(c)  PROVE ~Comes(q, l, Inside)
    <3>1. PICK i \in 1..Len(below[c]) : q = below[c][i]  BY <2>1, Zenon DEF Interrupted
    <3>2. below[c] # << >>
      <4>1. 1..Len(<< >>) = {}  BY SMT
      <4> QED  BY <3>1, <4>1
    <3>3. PICK s : below[c] = <<s>> /\ \A m \in Locks : ~Comes(s, m, Started)
      BY <1>1, <3>2, Zenon DEF Lists
    <3>4. q = s
      <4>1. Len(<<s>>) = 1 /\ <<s>>[1] = s  OBVIOUS
      <4>2. i = 1  BY <3>1, <3>3, <4>1, SMT
      <4> QED  BY <3>1, <3>3, <4>1, <4>2
    <3>5. Inside \subseteq Started  BY DEF Inside, Started
    <3> QED  BY <3>3, <3>4, <3>5, ComesMore
  <2> QED  BY <2>1, Zenon DEF InSection
<1>3. SpinExclusion
  <2>1. ~stopped  BY <1>1 DEF SpinTypes
  <2>2. \A l \in Locks : \A c, d \in Processors : InSection(c, l) /\ InSection(d, l) => c = d
    BY <1>1, <1>2, Zenon DEF Owners
  <2>3. ASSUME NEW c \in Processors, task[c] = << >>, below[c] = << >>
        PROVE  intr[c] /\ ncli[c] = 0
    <3>1. Pushed(c) = {}  BY <2>3, EmptyComes DEF Pushed
    <3>2. intr[c]  BY <1>1, <2>3, <3>1, Zenon DEF Flags
    <3>3. ncli[c] = Cardinality({})  BY <1>1, <3>1 DEF Depth
    <3> QED  BY <3>2, <3>3, FS_EmptySet
  <2> QED  BY <2>1, <2>2, <2>3, Zenon DEF SpinExclusion
<1>4. HandlerNeverSpins
  <2> SUFFICES ASSUME NEW c \in Processors, NEW l \in Locks,
                      task[c] # << >>, Head(task[c]) = <<"xchg", l>>
               PROVE  ~InSection(c, l)
    BY DEF HandlerNeverSpins
  <2>1. task[c] \in Seq(Steps)  BY <1>1 DEF SpinTypes
  <2>2. task[c][1] = <<"xchg", l>>  BY <2>1, ReturnedIs
  <2>3. ~Comes(task[c], l, Inside)  BY <2>1, <2>2, FirstComes, MembersOf
  <2> QED  BY <1>2, <2>3
<1> QED  BY <1>3, <1>4 DEF SpinLocksSound

(* spinlock.c, for any number of processors and locks, locks that nest and *)
(* are released in any order, and handlers that take locks: one processor  *)
(* at a time is inside, acquire(), release() and popcli() never panic, the *)
(* interrupt flag is restored, and no handler spins on a lock of the code  *)
(* it has interrupted.                                                     *)
THEOREM SpecSpinLocksSound ==
    ASSUME SpinAssumption
    PROVE  SpinSpec => []SpinLocksSound
<1>1. SpinInit => SpinIInv  BY SpinInitIInv
<1>2. SpinIInv /\ [SpinNext]_spinVars => SpinIInv'  BY SpinNextIInv
<1>3. SpinIInv => SpinLocksSound  BY SpinSound
<1> QED  BY <1>1, <1>2, <1>3, PTL DEF SpinSpec

-----------------------------------------------------------------------------
(* The clock.  The difference of two values of the counter is never more   *)
(* than the ticks that have passed between them, wherever it wrapped.      *)
Records == [at : {"user", "loop", "sleep", "sleeping", "woken"},
            t0 : 0..(WORD - 1), n : Int, killed : BOOLEAN, ret : {-1, 0}]

ClockTypes ==
    /\ ticks \in 0..(WORD - 1)
    /\ pr \in [Procs -> Records]
    /\ age \in [Procs -> 0..WORD]

Elapsed == \A p \in Procs : pr[p].at # "user" => U(ticks - pr[p].t0) <= age[p]

ClockIInv == ClockTypes /\ Elapsed

(* The difference of two counter values, as unsigned.                      *)
LEMMA Difference ==
    ASSUME NEW m \in Nat \ {0}, NEW a \in 0..(m - 1), NEW b \in 0..(m - 1)
    PROVE  (a - b) % m = IF a >= b THEN a - b ELSE a - b + m
<1>1. CASE a >= b
  BY <1>1, SMT
<1>2. CASE a < b
  <2>1. a - b + m \in 0..(m - 1) /\ a - b = m * (-1) + (a - b + m)
    BY <1>2, SMT
  <2>. QED
    BY <2>1, <1>2, SMT
<1>. QED
  BY <1>1, <1>2

(* The next value of the counter.                                          *)
LEMMA NextTick ==
    ASSUME NEW m \in Nat \ {0}, NEW a \in 0..(m - 1)
    PROVE  (a + 1) % m = IF a + 1 = m THEN 0 ELSE a + 1
  BY SMT

(* A tick moves the difference by one, or back to nothing.                 *)
LEMMA TickDifference ==
    ASSUME ClockAssumption, NEW a \in 0..(WORD - 1), NEW b \in 0..(WORD - 1)
    PROVE  /\ U(a + 1) \in 0..(WORD - 1)
           /\ U(a - b) \in 0..(WORD - 1)
           /\ U(U(a + 1) - b) <= U(a - b) + 1
           /\ U(U(a + 1) - b) <= WORD
<1>. WORD \in Nat \ {0}
  BY DEF ClockAssumption
<1>1. U(a + 1) = (IF a + 1 = WORD THEN 0 ELSE a + 1) /\ U(a + 1) \in 0..(WORD - 1)
  BY NextTick DEF U
<1>2. U(a - b) = IF a >= b THEN a - b ELSE a - b + WORD
  BY Difference DEF U
<1>3. U(U(a + 1) - b) = IF U(a + 1) >= b THEN U(a + 1) - b ELSE U(a + 1) - b + WORD
  BY <1>1, Difference DEF U
<1>. QED
  BY <1>1, <1>2, <1>3

LEMMA MinOfTwo ==
    ASSUME NEW a \in Int, NEW b \in Int
    PROVE  Min({a, b}) = IF a <= b THEN a ELSE b
<1>. DEFINE x == IF a <= b THEN a ELSE b
<1>1. x \in {a, b} /\ \A y \in {a, b} : x <= y
  OBVIOUS
<1>2. \A z \in {a, b} : (\A y \in {a, b} : z <= y) => z = x
  OBVIOUS
<1>. QED
  BY <1>1, <1>2 DEF Min

LEMMA ClockStart ==
    ASSUME ClockAssumption, ClockInit PROVE ClockIInv
  BY DEF ClockAssumption, ClockInit, ClockIInv, ClockTypes, Records, Elapsed

LEMMA ClockStep ==
    ASSUME ClockAssumption, ClockIInv, [ClockNext]_clockVars
    PROVE  ClockIInv'
<1>. WORD \in Nat \ {0} /\ Naps \in [Procs -> SUBSET Int]
  BY DEF ClockAssumption
<1>. USE DEF ClockIInv, ClockTypes, Records, Elapsed
<1>1. ASSUME Tick PROVE ClockIInv'
  <2>1. ticks' \in 0..(WORD - 1)
    BY <1>1, TickDifference DEF Tick
  <2>2. pr' \in [Procs -> Records]
    BY <1>1 DEF Tick, Wakened
  <2>3. ASSUME NEW p \in Procs
        PROVE  /\ pr'[p].t0 = pr[p].t0 /\ (pr'[p].at = "user" <=> pr[p].at = "user")
               /\ age'[p] = IF pr[p].at = "user" THEN 0
                            ELSE IF age[p] + 1 <= WORD THEN age[p] + 1 ELSE WORD
    <3>1. age[p] + 1 \in Int /\ WORD \in Int
      OBVIOUS
    <3>2. Min({age[p] + 1, WORD}) = IF age[p] + 1 <= WORD THEN age[p] + 1 ELSE WORD
      BY <3>1, MinOfTwo
    <3>3. age'[p] = IF pr[p].at = "user" THEN 0 ELSE Min({age[p] + 1, WORD})
      BY <1>1 DEF Tick
    <3>4. pr'[p].t0 = pr[p].t0 /\ (pr'[p].at = "user" <=> pr[p].at = "user")
      BY <1>1 DEF Tick, Wakened
    <3>. QED
      BY <3>2, <3>3, <3>4
  <2>4. age' \in [Procs -> 0..WORD]
    <3>1. age' = [p \in Procs |-> age'[p]]
      BY <1>1 DEF Tick
    <3>. QED
      BY <2>3, <3>1
  <2>5. ASSUME NEW p \in Procs, pr'[p].at # "user"
        PROVE  U(ticks' - pr'[p].t0) <= age'[p]
    <3>1. U(ticks - pr[p].t0) <= age[p]
      BY <2>3, <2>5
    <3>2. ticks' = U(ticks + 1) /\ pr[p].t0 \in 0..(WORD - 1) /\ age[p] \in 0..WORD
      BY <1>1 DEF Tick
    <3>3. /\ U(ticks' - pr[p].t0) <= U(ticks - pr[p].t0) + 1
          /\ U(ticks' - pr[p].t0) <= WORD
          /\ U(ticks - pr[p].t0) \in 0..(WORD - 1)
          /\ U(ticks + 1) \in 0..(WORD - 1)
      BY <3>2, TickDifference
    <3>4. U(ticks' - pr[p].t0) \in Int
      BY <3>2, <3>3 DEF U
    <3>. QED
      BY <2>3, <2>5, <3>1, <3>2, <3>3, <3>4
  <2>. QED
    BY <2>1, <2>2, <2>4, <2>5
<1>2. ASSUME NEW p \in Procs, NEW n \in Naps[p], SysSleep(p, n) PROVE ClockIInv'
  <2>1. n \in Int
    BY <1>2
  <2>2. U(ticks - ticks) = 0
    BY Difference DEF U
  <2>3. ticks' = ticks /\ age' = [age EXCEPT ![p] = 0]
        /\ pr' = [pr EXCEPT ![p] = [pr[p] EXCEPT !.at = "loop", !.t0 = ticks, !.n = n]]
    BY <1>2 DEF SysSleep
  <2>4. ClockTypes'
    <3>1. [pr[p] EXCEPT !.at = "loop", !.t0 = ticks, !.n = n] \in Records
      BY <2>1
    <3>. QED
      BY <2>3, <3>1
  <2>5. ASSUME NEW q \in Procs, pr'[q].at # "user" PROVE U(ticks' - pr'[q].t0) <= age'[q]
    <3>1. CASE q = p
      BY <2>2, <2>3, <3>1
    <3>2. CASE q # p
      BY <2>3, <2>5, <3>2
    <3>. QED
      BY <3>1, <3>2
  <2>. QED
    BY <2>4, <2>5
<1>3. ASSUME NEW p \in Procs, Step(p) \/ Kill(p) PROVE ClockIInv'
  <2>1. CASE Test(p)
    BY <2>1 DEF Test
  <2>2. CASE Sleep(p)
    BY <2>2 DEF Sleep
  <2>3. CASE Awake(p)
    BY <2>3 DEF Awake
  <2>4. CASE Kill(p)
    <3>1. /\ ticks' = ticks /\ age' = age
          /\ pr' = [Wakened({p}) EXCEPT ![p].killed = TRUE]
      BY <2>4 DEF Kill
    <3>2. pr' \in [Procs -> Records]
      <4>1. Wakened({p}) \in [Procs -> Records]
        BY DEF Wakened
      <4>. QED
        BY <3>1, <4>1
    <3>3. \A q \in Procs : /\ pr'[q].t0 = pr[q].t0
                           /\ pr'[q].at # "user" => pr[q].at # "user"
      BY <3>1 DEF Wakened
    <3>. QED
      BY <3>1, <3>2, <3>3
  <2>5. CASE Exit(p)
    BY <2>5 DEF Exit
  <2>. QED
    BY <1>3, <2>1, <2>2, <2>3, <2>4, <2>5 DEF Step
<1>4. CASE UNCHANGED clockVars
  BY <1>4 DEF clockVars
<1>. QED
  BY <1>1, <1>2, <1>3, <1>4 DEF ClockNext

(* sleep(n) does not return 0 before n ticks have passed (sys_sleep()),    *)
(* for any number of processes, any n and any width of the counter: the    *)
(* unsigned difference of ticks and ticks0 is right across the wrap.       *)
THEOREM SpecSleepsLongEnough ==
    ASSUME ClockAssumption PROVE ClockSpec => SleepsLongEnough
<1>. DEFINE Returns == \A p \in Procs :
       pr[p].at = "loop" /\ pr'[p].at = "user" /\ pr'[p].ret = 0 => age[p] >= U(pr[p].n)
<1>1. ClockInit => ClockIInv
  BY ClockStart
<1>2. ClockIInv /\ [ClockNext]_clockVars => ClockIInv'
  BY ClockStep
<1>3. ClockIInv /\ [ClockNext]_clockVars => [Returns]_clockVars
  <2>. SUFFICES ASSUME ClockIInv, ClockNext, NEW p \in Procs,
                       pr[p].at = "loop", pr'[p].at = "user", pr'[p].ret = 0
                PROVE  age[p] >= U(pr[p].n)
    OBVIOUS
  <2>. WORD \in Nat \ {0}
    BY DEF ClockAssumption
  <2>1. ~Asleep(p)
    <3>. USE DEF ClockIInv, ClockTypes, Records
    <3>1. ~Tick
      BY DEF Tick, Wakened
    <3>2. ASSUME NEW q \in Procs, Sleep(q) \/ Awake(q) \/ Exit(q) PROVE FALSE
      BY <3>2 DEF Sleep, Awake, Exit
    <3>3. ASSUME NEW q \in Procs, NEW n \in Naps[q], SysSleep(q, n) PROVE FALSE
      BY <3>3 DEF SysSleep
    <3>4. ASSUME NEW q \in Procs, Kill(q) PROVE FALSE
      BY <3>4 DEF Kill, Wakened
    <3>5. PICK q \in Procs : Test(q)
      BY <3>1, <3>2, <3>3, <3>4 DEF ClockNext, Step
    <3>6. q = p
      BY <3>5 DEF Test
    <3>. QED
      BY <3>5, <3>6 DEF Test
  <2>2. /\ U(ticks - pr[p].t0) <= age[p] /\ age[p] \in Int
        /\ U(ticks - pr[p].t0) \in Int /\ U(pr[p].n) \in Int
    BY DEF ClockIInv, ClockTypes, Records, Elapsed, U
  <2>. QED
    BY <2>1, <2>2 DEF Asleep
<1>. QED
  BY <1>1, <1>2, <1>3, PTL DEF ClockSpec, SleepsLongEnough

-----------------------------------------------------------------------------
(* Log: it implements AtomicDisk.                                          *)
(* Operations run only while no transaction is being written, and a log    *)
(* that has entries has an operation or a commit.                          *)
Turns ==
    /\ Active # {} => phase = "none"
    /\ phase \in {"log", "head", "finish"} => committing
    /\ phase \in {"none", "read"} => ~committing
    /\ phase = "none" /\ lh # << >> => Active # {}
    /\ phase \in {"log", "head", "install"} => lh # << >>
    /\ phase \in {"read", "finish"} => lh = << >>
    /\ phase \in {"log", "install"} => tail <= Len(lh)
    /\ phase \notin {"log", "install"} => tail = 1

(* What an operation has written is of that operation.                     *)
Writers ==
    /\ \A p \in Ops : op[p] # "in" => pend[p] = NoBlock /\ wrote[p] = {}
    /\ \A p \in Ops : pend[p] # NoBlock => pend[p] \in wrote[p]

(* The header on the disk is empty, or it is that of memory, which is      *)
(* installed, or it waits for recovery.                                    *)
Header ==
    /\ phase \in {"none", "log", "head", "finish"} => hdr = << >>
    /\ phase \in {"install", "clear"} => hdr = lh
    /\ \A i, j \in 1..Len(hdr) : hdr[i] = hdr[j] => i = j

(* Before the blocks of the log are installed, the cache differs from the  *)
(* disk in blocks of the log and in those about to be put in it only.      *)
Clean ==
    phase = "none" \/ committing =>
        \A b \in Blocks : b \in RangeOf(lh) \/ (\E p \in Ops : pend[p] = b)
                          \/ cache[b] = home[b]

(* Copies made so far: cache to log, log to disk; recovery has a cache     *)
(* that is read from the disk.                                             *)
Copies ==
    /\ phase = "log" => \A i \in 1..Len(lh) : i < tail => logblk[i] = cache[lh[i]]
    /\ phase = "head" \/ (committing /\ phase \in {"install", "clear"}) =>
           \A i \in 1..Len(lh) : logblk[i] = cache[lh[i]]
    /\ phase = "install" => \A i \in 1..Len(lh) : i < tail => home[lh[i]] = logblk[i]
    /\ phase = "clear" => \A i \in 1..Len(lh) : home[lh[i]] = logblk[i]
    /\ Recovering => cache = home

(* What operations have put in the log, each on its own account.           *)
Paid == {t \in Ops \X Blocks : t[2] \in wrote[t[1]] /\ t[2] \in RangeOf(lh)}

(* The log holds what the running operations put there at most, and they   *)
(* do not write more than OpBlocks blocks each.                            *)
Accounts ==
    /\ \A p \in Ops : IsFiniteSet(wrote[p]) /\ Cardinality(wrote[p]) <= OpBlocks
    /\ Len(lh) + outstanding * MAXOPBLOCKS <= LOGSIZE + Cardinality(Paid)
    /\ Len(lh) <= LOGSIZE /\ Len(hdr) <= LOGSIZE

LogInv == TypeOK /\ Turns /\ Writers /\ Header /\ Clean /\ Copies /\ Accounts

-----------------------------------------------------------------------------
LEMMA MoreIsMore ==
    ASSUME NEW k \in Nat, NEW m \in Nat, NEW n \in Nat, m <= n
    PROVE  k * m <= k * n
  OBVIOUS

(* Points most n second halves for each of the first halves make so many pairs.*)
LEMMA PairsBound ==
    ASSUME NEW S, IsFiniteSet(S), NEW w, NEW n \in Nat,
           \A p \in S : IsFiniteSet(w[p]) /\ Cardinality(w[p]) <= n,
           NEW Q, \A t \in Q : \E p \in S : \E b \in w[p] : t = <<p, b>>
    PROVE  /\ IsFiniteSet(Q) /\ Cardinality(Q) \in Nat
           /\ Cardinality(Q) <= Cardinality(S) * n
  <1> DEFINE Inj(p) == {h \in [w[p] -> 1..n] : \A a, b \in w[p] : h[a] = h[b] => a = b}
             f == [p \in S |-> CHOOSE h \in Inj(p) : TRUE]
             g == [t \in Q |-> <<t[1], f[t[1]][t[2]]>>]
  <1>1. ASSUME NEW p \in S PROVE f[p] \in Inj(p)
    <2>1. /\ Cardinality(w[p]) \in Nat /\ Cardinality(w[p]) <= n
          /\ ExistsBijection(1..Cardinality(w[p]), w[p])
        BY FS_CardinalityType
    <2>2. ExistsBijection(w[p], 1..Cardinality(w[p]))
        BY <2>1, Fun_ExistsBijSymmetric
    <2>3. PICK h \in [w[p] -> 1..Cardinality(w[p])] :
            \A a, b \in w[p] : h[a] = h[b] => a = b
        BY <2>2 DEF ExistsBijection, Bijection, Injection, IsInjective
    <2>4. 1..Cardinality(w[p]) \subseteq 1..n
        BY <2>1
    <2>5. h \in [w[p] -> 1..n]
        BY <2>3, <2>4
    <2> QED BY <2>3, <2>5
  <1>2. ASSUME NEW t \in Q
        PROVE  /\ t[1] \in S /\ t[2] \in w[t[1]] /\ t = <<t[1], t[2]>>
      OBVIOUS
  <1>3. g \in [Q -> S \X (1..n)]
    <2>1. ASSUME NEW t \in Q PROVE f[t[1]][t[2]] \in 1..n
      <3>1. f[t[1]] \in [w[t[1]] -> 1..n]
          BY <1>1, <1>2
      <3> QED BY <3>1, <1>2
    <2> QED BY <1>2, <2>1
  <1>4. \A t, u \in Q : g[t] = g[u] => t = u
    <2> SUFFICES ASSUME NEW t \in Q, NEW u \in Q, g[t] = g[u] PROVE t = u
        OBVIOUS
    <2>1. <<t[1], f[t[1]][t[2]]>> = <<u[1], f[u[1]][u[2]]>>
        BY Zenon
    <2>2. \A p \in S : \A a, b \in w[p] : f[p][a] = f[p][b] => a = b
        BY <1>1
    <2> HIDE DEF f
    <2>3. t[1] = u[1] /\ f[t[1]][t[2]] = f[t[1]][u[2]]
        BY <2>1
    <2>4. t[2] = u[2]
        BY <2>2, <2>3, <1>2
    <2> QED BY <2>3, <2>4, <1>2
  <1>5. g \in Injection(Q, S \X (1..n))
      BY <1>3, <1>4, Fun_IsInj
  <1>6. IsFiniteSet(1..n) /\ Cardinality(1..n) = n
      BY FS_Interval
  <1>7. /\ IsFiniteSet(S \X (1..n))
        /\ Cardinality(S \X (1..n)) = Cardinality(S) * n
      BY <1>6, FS_Product
  <1>8. IsFiniteSet(Q) /\ Cardinality(Q) <= Cardinality(S \X (1..n))
      BY <1>5, <1>7, FS_Injection
  <1> QED BY <1>7, <1>8, FS_CardinalityType

(* The operations that run are finitely many, and outstanding counts them. *)
LEMMA ActiveCounted ==
    ASSUME SizesAssumption, TypeOK
    PROVE  /\ IsFiniteSet(Active) /\ outstanding \in Nat
           /\ outstanding = Cardinality(Active)
           /\ outstanding = 0 <=> Active = {}
  <1>1. IsFiniteSet(Active)
      BY FS_Subset DEF SizesAssumption, Active
  <1> QED BY <1>1, FS_CardinalityType, FS_EmptySet DEF TypeOK

(* The log cannot outgrow the reservations of the running operations.      *)
LEMMA PaidBound ==
    ASSUME SizesAssumption, TypeOK, Writers,
           \A p \in Ops : IsFiniteSet(wrote[p]) /\ Cardinality(wrote[p]) <= OpBlocks
    PROVE  /\ IsFiniteSet(Paid) /\ Cardinality(Paid) \in Nat
           /\ Cardinality(Paid) <= outstanding * OpBlocks
  <1>1. \A t \in Paid : \E p \in Active : \E b \in wrote[p] : t = <<p, b>>
      BY DEF Paid, Active, Writers
  <1>2. Active \subseteq Ops /\ OpBlocks \in Nat
      BY DEF Active, SizesAssumption
  <1> QED BY <1>1, <1>2, ActiveCounted, PairsBound

(* The disk that a crash would leave: the blocks of the header come from   *)
(* the log, each from its own copy.                                        *)
LEMMA DurableOf ==
    ASSUME SizesAssumption, TypeOK, Header, Len(hdr) <= LOGSIZE
    PROVE  /\ Durable \in [Blocks -> Vals]
           /\ \A i \in 1..Len(hdr) : hdr[i] \in Blocks /\ Durable[hdr[i]] = logblk[i]
           /\ \A b \in Blocks : b \notin RangeOf(hdr) => Durable[b] = home[b]
           /\ hdr = << >> => Durable = home
  <1> DEFINE Points(b) == CHOOSE i \in 1..Len(hdr) : hdr[i] = b
  <1>1. Len(hdr) \in Nat /\ \A i \in 1..Len(hdr) : hdr[i] \in Blocks
      BY DEF TypeOK
  <1>2. ASSUME NEW b \in RangeOf(hdr)
        PROVE  Points(b) \in 1..Len(hdr) /\ hdr[Points(b)] = b
      BY DEF RangeOf
  <1>3. ASSUME NEW i \in 1..Len(hdr) PROVE Points(hdr[i]) = i
    <2>1. hdr[i] \in RangeOf(hdr)
        BY DEF RangeOf
    <2> QED BY <2>1, <1>2 DEF Header
  <1> HIDE DEF Points
  <1>4. Durable = [b \in Blocks |-> IF b \in RangeOf(hdr) THEN logblk[Points(b)] ELSE home[b]]
      BY DEF Durable, Points
  <1>5. ASSUME NEW b \in RangeOf(hdr) PROVE Points(b) \in 1..LOGSIZE
    <2>1. Points(b) \in 1..Len(hdr)
        BY <1>2
    <2>2. LOGSIZE \in Nat
        BY DEF SizesAssumption
    <2> QED BY <1>1, <2>1, <2>2
  <1>6. Durable \in [Blocks -> Vals]
      BY <1>4, <1>5 DEF TypeOK
  <1>7. ASSUME NEW i \in 1..Len(hdr) PROVE hdr[i] \in Blocks /\ Durable[hdr[i]] = logblk[i]
    <2>1. hdr[i] \in RangeOf(hdr) /\ hdr[i] \in Blocks
        BY <1>1 DEF RangeOf
    <2> QED BY <2>1, <1>3, <1>4
  <1>8. \A b \in Blocks : b \notin RangeOf(hdr) => Durable[b] = home[b]
      BY <1>4
  <1>9. ASSUME hdr = << >> PROVE Durable = home
    <2>1. RangeOf(hdr) = {}
        BY <1>9 DEF RangeOf
    <2> QED BY <2>1, <1>4 DEF TypeOK
  <1> QED BY <1>6, <1>7, <1>8, <1>9

(* initlog() on a clean disk: nothing runs and nothing is in the log.      *)
LEMMA InitLogInv ==
    ASSUME SizesAssumption, NoBlockAssumption
    PROVE  Init => LogInv
  <1> SUFFICES ASSUME Init PROVE LogInv
      OBVIOUS
  <1> USE DEF Init
  <1>1. Active = {} /\ Paid = {} /\ RangeOf(lh) = {}
      BY DEF Active, Paid, RangeOf
  <1>2. TypeOK
    <2>1. outstanding = Cardinality(Active)
        BY <1>1, FS_EmptySet
    <2>2. lh \in Seq(Blocks) /\ hdr \in Seq(Blocks)
        OBVIOUS
    <2>3. logblk \in [1..LOGSIZE -> Vals] /\ cache \in [Blocks -> Vals]
        OBVIOUS
    <2>4. op \in [Ops -> {"idle", "asleep", "woken", "in", "commit"}]
        OBVIOUS
    <2>5. /\ pend \in [Ops -> Blocks \cup {NoBlock}]
          /\ wrote \in [Ops -> SUBSET Blocks]
        OBVIOUS
    <2>6. tail \in 1..(Len(lh) + 1)
        OBVIOUS
    <2>7. \A i, j \in 1..Len(lh) : lh[i] = lh[j] => i = j
        OBVIOUS
    <2>8. /\ committing \in BOOLEAN /\ panicked \in BOOLEAN
          /\ phase \in {"none", "read", "log", "head", "install", "clear", "finish"}
          /\ home \in [Blocks -> Vals]
        OBVIOUS
    <2> HIDE DEF Init
    <2> QED BY <2>1, <2>2, <2>3, <2>4, <2>5, <2>6, <2>7, <2>8 DEF TypeOK
  <1>3. Turns /\ Header
      BY <1>1 DEF Turns, Header
  <1>4. Writers /\ Clean /\ Copies
      BY DEF Writers, Clean, Copies, Recovering
  <1>5. Accounts
      BY <1>1, FS_EmptySet DEF Accounts, SizesAssumption
  <1> QED BY <1>2, <1>3, <1>4, <1>5 DEF LogInv

-----------------------------------------------------------------------------
(* begin_op(): waiting changes nothing but op.                             *)
LEMMA BeginWaitIInv ==
    ASSUME SizesAssumption, LogInv, NEW p \in Ops, BeginWait(p)
    PROVE  LogInv'
  <1> USE DEF LogInv, BeginWait, disk
  <1>1. \A q \in Ops : op'[q] = IF q = p THEN "asleep" ELSE op[q]
      BY DEF TypeOK
  <1>2. Active' = Active
      BY <1>1 DEF Active
  <1>3. TypeOK'
    <2>1. op' \in [Ops -> {"idle", "asleep", "woken", "in", "commit"}]
        BY DEF TypeOK
    <2> QED BY <1>2, <2>1 DEF TypeOK
  <1>4. Turns' /\ Header'
      BY <1>2 DEF Turns, Header
  <1>5. Writers'
      BY <1>1 DEF Writers
  <1>6. Clean' /\ Copies'
      BY DEF Clean, Copies, Recovering, RangeOf
  <1>7. Accounts'
      BY DEF Accounts, Paid, RangeOf
  <1> QED BY <1>3, <1>4, <1>5, <1>6, <1>7

(* begin_op(): the reservation is what the test found room for.            *)
LEMMA BeginOpIInv ==
    ASSUME SizesAssumption, LogInv, NEW p \in Ops, BeginOp(p)
    PROVE  LogInv'
  <1> USE DEF LogInv, BeginOp, disk
  <1>1. \A q \in Ops : op'[q] = IF q = p THEN "in" ELSE op[q]
      BY DEF TypeOK
  <1>2. p \notin Active /\ Active' = Active \cup {p}
      BY <1>1 DEF Active
  <1>3. TypeOK'
    <2>1. op' \in [Ops -> {"idle", "asleep", "woken", "in", "commit"}]
        BY DEF TypeOK
    <2>2. outstanding' = Cardinality(Active')
        BY <1>2, ActiveCounted, FS_AddElement
    <2> QED BY <2>1, <2>2 DEF TypeOK
  <1>4. phase = "none"
      BY DEF Serving, Recovering
  <1>5. Turns'
      BY <1>2, <1>4 DEF Turns
  <1>6. Header' /\ Copies'
      BY DEF Header, Copies, Recovering
  <1>7. Writers'
      BY <1>1 DEF Writers
  <1>8. Clean'
      BY DEF Clean, RangeOf
  <1>9. Accounts'
    <2>1. Paid' = Paid
        BY DEF Paid, RangeOf
    <2>2. Len(lh) + (outstanding + 1) * MAXOPBLOCKS <= LOGSIZE
        BY ActiveCounted DEF NoRoom, TypeOK, SizesAssumption
    <2>3. Cardinality(Paid) \in Nat
        BY PaidBound DEF Accounts
    <2>4. Len(lh') + outstanding' * MAXOPBLOCKS <= LOGSIZE + Cardinality(Paid')
        BY <2>1, <2>2, <2>3, ActiveCounted DEF TypeOK, SizesAssumption
    <2> QED BY <2>4 DEF Accounts
  <1> QED BY <1>3, <1>5, <1>6, <1>7, <1>8, <1>9

(* An operation that runs is in no transaction that is being written.      *)
LEMMA InOp ==
    ASSUME SizesAssumption, LogInv, NEW p \in Ops, op[p] = "in"
    PROVE  /\ phase = "none" /\ ~committing /\ hdr = << >> /\ tail = 1
           /\ outstanding \in Nat \ {0}
  <1>1. p \in Active
      BY DEF Active
  <1>2. phase = "none" /\ ~committing /\ hdr = << >> /\ tail = 1
      BY <1>1 DEF LogInv, Turns, Header
  <1> QED BY <1>1, <1>2, ActiveCounted DEF LogInv

(* While a transaction is written, or recovered, no operation runs.        *)
LEMMA Quiet ==
    ASSUME SizesAssumption, LogInv, phase # "none"
    PROVE  /\ Active = {} /\ outstanding = 0 /\ Paid = {}
           /\ \A p \in Ops : pend[p] = NoBlock /\ wrote[p] = {}
  <1>1. Active = {}
      BY DEF LogInv, Turns
  <1>2. outstanding = 0
      BY <1>1, ActiveCounted DEF LogInv
  <1>3. \A p \in Ops : pend[p] = NoBlock /\ wrote[p] = {}
      BY <1>1 DEF LogInv, Writers, Active
  <1> QED BY <1>1, <1>2, <1>3 DEF Paid

(* log_write(): the tests.  The block is announced in pend before the      *)
(* cache differs from the disk in it.                                      *)
LEMMA LogWriteCheckIInv ==
    ASSUME SizesAssumption, NoBlockAssumption, LogInv,
           NEW p \in Ops, NEW b \in Blocks, NEW v \in Vals, LogWriteCheck(p, b, v)
    PROVE  LogInv'
  <1>1. CASE Len(lh) >= LOGSIZE \/ Len(lh) >= LogSize - 1 \/ outstanding < 1
    <2>1. panicked' = TRUE /\ UNCHANGED <<pend, wrote, cache>>
        BY <1>1 DEF LogWriteCheck
    <2>2. UNCHANGED <<op, outstanding, committing, lh, home, logblk, hdr, phase, tail>>
        BY DEF LogWriteCheck, disk
    <2>3. TypeOK'
        BY <2>1, <2>2 DEF LogInv, TypeOK, Active
    <2>4. Turns' /\ Writers' /\ Header' /\ Clean'
        BY <2>1, <2>2 DEF LogInv, Turns, Writers, Header, Clean, Active, RangeOf
    <2>5. Copies' /\ Accounts'
        BY <2>1, <2>2 DEF LogInv, Copies, Accounts, Paid, RangeOf, Recovering
    <2> QED BY <2>3, <2>4, <2>5 DEF LogInv
  <1>2. CASE ~(Len(lh) >= LOGSIZE \/ Len(lh) >= LogSize - 1 \/ outstanding < 1)
    <2>1. /\ pend' = [pend EXCEPT ![p] = b]
          /\ wrote' = [wrote EXCEPT ![p] = @ \cup {b}]
          /\ cache' = [cache EXCEPT ![b] = v]
          /\ panicked' = panicked
        BY <1>2, Zenon DEF LogWriteCheck
    <2>2. UNCHANGED <<op, outstanding, committing, lh, home, logblk, hdr, phase, tail>>
        BY DEF LogWriteCheck, disk
    <2>3. op[p] = "in" /\ pend[p] = NoBlock
        BY DEF LogWriteCheck
    <2>4. phase = "none" /\ ~committing
        BY <2>3, InOp
    <2>5. /\ \A q \in Ops : pend'[q] = IF q = p THEN b ELSE pend[q]
          /\ \A q \in Ops : wrote'[q] = IF q = p THEN wrote[q] \cup {b} ELSE wrote[q]
          /\ \A c \in Blocks : cache'[c] = IF c = b THEN v ELSE cache[c]
        BY <2>1 DEF LogInv, TypeOK
    <2>6. Active' = Active /\ RangeOf(lh') = RangeOf(lh)
        BY <2>2 DEF Active, RangeOf
    <2>7. TypeOK'
      <3>1. pend' \in [Ops -> Blocks \cup {NoBlock}] /\ wrote' \in [Ops -> SUBSET Blocks]
          BY <2>1 DEF LogInv, TypeOK
      <3>2. cache' \in [Blocks -> Vals]
          BY <2>1 DEF LogInv, TypeOK
      <3> QED BY <2>1, <2>2, <2>6, <3>1, <3>2 DEF LogInv, TypeOK
    <2>8. Turns' /\ Header'
        BY <2>2, <2>6 DEF LogInv, Turns, Header
    <2>9. Writers'
        BY <2>2, <2>3, <2>5 DEF LogInv, Writers
    <2>10. Clean'
      <3> SUFFICES ASSUME NEW c \in Blocks
                   PROVE  \/ c \in RangeOf(lh') \/ \E q \in Ops : pend'[q] = c
                          \/ cache'[c] = home'[c]
          BY DEF Clean
      <3>1. CASE c = b
          BY <2>5, <3>1
      <3>2. CASE c # b
        <4>1. c \in RangeOf(lh) \/ (\E q \in Ops : pend[q] = c) \/ cache[c] = home[c]
            BY <2>4 DEF LogInv, Clean
        <4>2. ASSUME NEW q \in Ops, pend[q] = c PROVE pend'[q] = c
            BY <2>3, <2>5, <4>2 DEF NoBlockAssumption
        <4> QED BY <2>2, <2>5, <2>6, <3>2, <4>1, <4>2
      <3> QED BY <3>1, <3>2
    <2>11. Copies'
        BY <2>2, <2>4 DEF Copies, Recovering
    <2>12. Accounts'
      <3>1. \A q \in Ops : IsFiniteSet(wrote'[q]) /\ Cardinality(wrote'[q]) <= OpBlocks
        <4>1. IsFiniteSet(wrote[p] \cup {b})
            BY FS_AddElement DEF LogInv, Accounts
        <4>2. Cardinality(wrote[p] \cup {b}) <= OpBlocks
            BY DEF LogWriteCheck
        <4> QED BY <2>5, <4>1, <4>2 DEF LogInv, Accounts
      <3>2. Paid \subseteq Paid'
          BY <2>5, <2>6 DEF Paid
      <3>3. \A t \in Paid' : \E q \in Active : \E c \in wrote'[q] : t = <<q, c>>
        <4>1. \A q \in Ops : op[q] # "in" => wrote'[q] = {}
            BY <2>3, <2>5 DEF LogInv, Writers
        <4> QED BY <4>1 DEF Paid, Active
      <3>4. IsFiniteSet(Paid')
        <4>1. IsFiniteSet(Active) /\ OpBlocks \in Nat /\ Active \subseteq Ops
            BY ActiveCounted DEF LogInv, SizesAssumption, Active
        <4> QED BY <3>1, <3>3, <4>1, PairsBound
      <3>5. /\ Cardinality(Paid) <= Cardinality(Paid')
            /\ Cardinality(Paid) \in Nat /\ Cardinality(Paid') \in Nat
          BY <3>2, <3>4, FS_Subset, FS_CardinalityType
      <3>6. /\ Len(lh) \in Nat /\ outstanding \in Nat /\ MAXOPBLOCKS \in Nat
            /\ LOGSIZE \in Nat /\ outstanding * MAXOPBLOCKS \in Nat
          BY ActiveCounted DEF LogInv, TypeOK, SizesAssumption
      <3>7. Len(lh) + outstanding * MAXOPBLOCKS <= LOGSIZE + Cardinality(Paid)
          BY DEF LogInv, Accounts
      <3>8. Len(lh) + outstanding * MAXOPBLOCKS <= LOGSIZE + Cardinality(Paid')
          BY <3>5, <3>6, <3>7
      <3> QED BY <2>2, <3>1, <3>8 DEF LogInv, Accounts
    <2> QED BY <2>7, <2>8, <2>9, <2>10, <2>11, <2>12 DEF LogInv
  <1> QED BY <1>1, <1>2

(* log_write(): the entry is paid for by the block the operation announced,*)
(* so that the log stays within what is reserved.                          *)
LEMMA LogWriteAppendIInv ==
    ASSUME SizesAssumption, NoBlockAssumption, LogInv, NEW p \in Ops, LogWriteAppend(p)
    PROVE  LogInv'
  <1> DEFINE b == pend[p]
  <1>1. b \in Blocks /\ b \in wrote[p] /\ op[p] = "in"
      BY DEF LogWriteAppend, LogInv, TypeOK, Writers
  <1>2. /\ phase = "none" /\ ~committing /\ hdr = << >> /\ tail = 1
        /\ outstanding \in Nat \ {0}
      BY <1>1, InOp
  <1>3. /\ lh' = IF b \in RangeOf(lh) THEN lh ELSE Append(lh, b)
        /\ pend' = [pend EXCEPT ![p] = NoBlock]
        /\ UNCHANGED <<op, wrote, outstanding, committing, cache, home, logblk, hdr,
                       phase, tail, panicked>>
      BY DEF LogWriteAppend, disk
  <1> HIDE DEF b
  <1>4. \A q \in Ops : pend'[q] = IF q = p THEN NoBlock ELSE pend[q]
      BY <1>3 DEF LogInv, TypeOK
  <1>5. Active' = Active
      BY <1>3 DEF Active
  <1>6. /\ lh \in Seq(Blocks) /\ Len(lh) \in Nat
        /\ \A i, j \in 1..Len(lh) : lh[i] = lh[j] => i = j
      BY DEF LogInv, TypeOK
  <1>7. /\ lh' \in Seq(Blocks) /\ lh' # << >>
        /\ RangeOf(lh') = RangeOf(lh) \cup {b}
        /\ \A i, j \in 1..Len(lh') : lh'[i] = lh'[j] => i = j
        /\ Len(lh') = IF b \in RangeOf(lh) THEN Len(lh) ELSE Len(lh) + 1
    <2>1. CASE b \in RangeOf(lh)
        BY <1>3, <1>6, <2>1 DEF RangeOf
    <2>2. CASE b \notin RangeOf(lh)
      <3>1. lh' = Append(lh, b)
          BY <1>3, <2>2
      <3>2. /\ lh' \in Seq(Blocks) /\ Len(lh') = Len(lh) + 1 /\ lh'[Len(lh) + 1] = b
            /\ \A i \in 1..Len(lh) : lh'[i] = lh[i]
          BY <1>1, <1>6, <3>1
      <3>3. \A i \in 1..Len(lh) : lh[i] # b
          BY <2>2 DEF RangeOf
      <3>4. 1..Len(lh') = 1..Len(lh) \cup {Len(lh) + 1}
          BY <1>6, <3>2
      <3>5. RangeOf(lh') = RangeOf(lh) \cup {b}
          BY <3>2, <3>4 DEF RangeOf
      <3>6. \A i, j \in 1..Len(lh') : lh'[i] = lh'[j] => i = j
          BY <1>6, <3>2, <3>3, <3>4
      <3>7. lh' # << >>
          BY <1>6, <3>2
      <3> QED BY <2>2, <3>2, <3>5, <3>6, <3>7
    <2> QED BY <2>1, <2>2
  <1>8. TypeOK'
    <2>1. pend' \in [Ops -> Blocks \cup {NoBlock}]
        BY <1>3 DEF LogInv, TypeOK
    <2>2. tail' \in 1..(Len(lh') + 1)
        BY <1>2, <1>3, <1>6, <1>7
    <2> QED BY <1>3, <1>5, <1>7, <2>1, <2>2 DEF LogInv, TypeOK
  <1>9. Turns'
    <2>1. p \in Active
        BY <1>1 DEF Active
    <2> QED BY <1>2, <1>3, <1>5, <2>1 DEF Turns
  <1>10. Header' /\ Copies'
      BY <1>2, <1>3 DEF Header, Copies, Recovering
  <1>11. Writers'
      BY <1>3, <1>4 DEF LogInv, Writers
  <1>12. Clean'
    <2> SUFFICES ASSUME NEW c \in Blocks
                 PROVE  \/ c \in RangeOf(lh') \/ \E q \in Ops : pend'[q] = c
                        \/ cache'[c] = home'[c]
        BY DEF Clean
    <2>1. c \in RangeOf(lh) \/ (\E q \in Ops : pend[q] = c) \/ cache[c] = home[c]
        BY <1>2 DEF LogInv, Clean
    <2>2. ASSUME NEW q \in Ops, pend[q] = c PROVE c = b \/ pend'[q] = c
        BY <1>4, <2>2 DEF b
    <2> QED BY <1>3, <1>7, <2>1, <2>2
  <1>13. Accounts'
    <2>1. Paid \subseteq Paid' /\ (b \notin RangeOf(lh) => <<p, b>> \in Paid' \ Paid)
        BY <1>1, <1>3, <1>7 DEF Paid
    <2>2. \A t \in Paid' : \E q \in Active : \E c \in wrote[q] : t = <<q, c>>
        BY <1>3 DEF Paid, Active, LogInv, Writers
    <2>3. /\ IsFiniteSet(Active) /\ Active \subseteq Ops
          /\ outstanding = Cardinality(Active)
        BY ActiveCounted DEF LogInv, Active
    <2>4. /\ IsFiniteSet(Paid') /\ Cardinality(Paid') \in Nat
          /\ Cardinality(Paid') <= outstanding * OpBlocks
        BY <2>2, <2>3, PairsBound DEF LogInv, Accounts, SizesAssumption
    <2>5. Cardinality(Paid) \in Nat /\ Cardinality(Paid) <= Cardinality(Paid')
        BY <2>1, <2>4, FS_Subset, FS_CardinalityType
    <2>6. ASSUME b \notin RangeOf(lh) PROVE Cardinality(Paid) + 1 <= Cardinality(Paid')
      <3>1. IsFiniteSet(Paid)
          BY <2>1, <2>4, FS_Subset
      <3>2. /\ IsFiniteSet(Paid \cup {<<p, b>>})
            /\ Cardinality(Paid \cup {<<p, b>>}) = Cardinality(Paid) + 1
          BY <2>1, <2>6, <3>1, FS_AddElement
      <3>3. Cardinality(Paid \cup {<<p, b>>}) <= Cardinality(Paid')
          BY <2>1, <2>4, <2>6, FS_Subset
      <3> QED BY <3>2, <3>3
    <2>7. Len(lh) + outstanding * MAXOPBLOCKS <= LOGSIZE + Cardinality(Paid)
        BY DEF LogInv, Accounts
    <2>8. Len(lh') + outstanding * MAXOPBLOCKS <= LOGSIZE + Cardinality(Paid')
      <3>1. outstanding * MAXOPBLOCKS \in Nat /\ LOGSIZE \in Nat
          BY <1>2 DEF SizesAssumption
      <3> QED BY <1>6, <1>7, <2>4, <2>5, <2>6, <2>7, <3>1
    <2>9. Len(lh') <= LOGSIZE
      <3>1. outstanding * OpBlocks <= outstanding * MAXOPBLOCKS
          BY <1>2, MoreIsMore DEF SizesAssumption
      <3>2. /\ outstanding * MAXOPBLOCKS \in Nat /\ outstanding * OpBlocks \in Nat
            /\ LOGSIZE \in Nat /\ Len(lh') \in Nat
          BY <1>2, <1>7 DEF SizesAssumption
      <3> QED BY <2>4, <2>8, <3>1, <3>2
    <2> QED BY <1>3, <2>8, <2>9 DEF LogInv, Accounts
  <1> QED BY <1>8, <1>9, <1>10, <1>11, <1>12, <1>13 DEF LogInv

(* end_op(): what the operation has put in the log, it no longer pays for, *)
(* and that is OpBlocks blocks at most, not more than was reserved.        *)
LEMMA EndOpIInv ==
    ASSUME SizesAssumption, NoBlockAssumption, LogInv, NEW p \in Ops, EndOp(p)
    PROVE  LogInv'
  <1>1. op[p] = "in" /\ pend[p] = NoBlock
      BY DEF EndOp
  <1>2. /\ phase = "none" /\ ~committing /\ hdr = << >> /\ tail = 1
        /\ outstanding \in Nat \ {0}
      BY <1>1, InOp
  <1>3. /\ outstanding' = outstanding - 1
        /\ wrote' = [wrote EXCEPT ![p] = {}]
        /\ panicked' = FALSE
        /\ UNCHANGED <<pend, lh, cache, home, logblk, hdr>>
      BY <1>2 DEF EndOp, disk
  <1>4. /\ \/ /\ outstanding = 1 /\ committing' = TRUE /\ tail' = 1
              /\ phase' = IF lh = << >> THEN "finish" ELSE "log"
           \/ outstanding # 1 /\ UNCHANGED <<committing, phase, tail>>
        /\ op' \in [Ops -> {"idle", "asleep", "woken", "in", "commit"}]
        /\ \A q \in Ops : op'[q] = "in" <=> op[q] = "in" /\ q # p
    <2>1. CASE outstanding = 1
      <3>1. /\ committing' = TRUE /\ tail' = 1
            /\ phase' = IF lh = << >> THEN "finish" ELSE "log"
            /\ op' = [op EXCEPT ![p] = "commit"]
          BY <2>1 DEF EndOp
      <3> QED BY <2>1, <3>1 DEF LogInv, TypeOK
    <2>2. CASE outstanding # 1
      <3>1. /\ UNCHANGED <<committing, phase, tail>>
            /\ op' = WakeAll([op EXCEPT ![p] = "idle"])
          BY <2>2 DEF EndOp
      <3>2. op \in [Ops -> {"idle", "asleep", "woken", "in", "commit"}]
          BY DEF LogInv, TypeOK
      <3>3. op' = [q \in Ops |-> IF q # p /\ op[q] = "asleep" THEN "woken"
                                 ELSE IF q = p THEN "idle" ELSE op[q]]
          BY <3>1, <3>2 DEF WakeAll
      <3> QED BY <2>2, <3>1, <3>2, <3>3
    <2> QED BY <2>1, <2>2
  <1>5. p \in Active /\ Active' = Active \ {p}
      BY <1>1, <1>4 DEF Active
  <1>6. IsFiniteSet(Active) /\ outstanding = Cardinality(Active)
      BY ActiveCounted DEF LogInv
  <1>7. /\ outstanding' = Cardinality(Active') /\ IsFiniteSet(Active')
        /\ outstanding' = 0 <=> Active' = {}
    <2>1. IsFiniteSet(Active') /\ Cardinality(Active') = Cardinality(Active) - 1
        BY <1>5, <1>6, FS_RemoveElement
    <2> QED BY <1>3, <1>6, <2>1, FS_EmptySet
  <1>8. /\ \A q \in Ops : wrote'[q] = IF q = p THEN {} ELSE wrote[q]
        /\ RangeOf(lh') = RangeOf(lh)
      BY <1>3 DEF LogInv, TypeOK, RangeOf
  <1>9. TypeOK'
    <2>1. wrote' \in [Ops -> SUBSET Blocks]
        BY <1>3 DEF LogInv, TypeOK
    <2>2. committing' \in BOOLEAN /\ panicked' \in BOOLEAN
        BY <1>3, <1>4 DEF LogInv, TypeOK
    <2>3. tail' \in 1..(Len(lh') + 1)
        BY <1>2, <1>3, <1>4 DEF LogInv, TypeOK
    <2>4. phase' \in {"none", "read", "log", "head", "install", "clear", "finish"}
        BY <1>2, <1>4
    <2> QED BY <1>3, <1>4, <1>7, <2>1, <2>2, <2>3, <2>4 DEF LogInv, TypeOK
  <1>10. Turns'
    <2>1. CASE outstanding = 1
      <3>1. /\ Active' = {} /\ committing' /\ tail' = 1
            /\ phase' = IF lh = << >> THEN "finish" ELSE "log"
          BY <1>3, <1>4, <1>7, <2>1
      <3>2. lh # << >> => 1 <= Len(lh)
          BY DEF LogInv, TypeOK
      <3> QED BY <1>3, <3>1, <3>2 DEF Turns
    <2>2. CASE outstanding # 1
      <3>1. Active' # {} /\ phase' = "none" /\ ~committing' /\ tail' = 1
          BY <1>2, <1>3, <1>4, <1>7, <2>2
      <3> QED BY <3>1 DEF Turns
    <2> QED BY <2>1, <2>2
  <1>11. Writers'
      BY <1>1, <1>3, <1>4, <1>8 DEF LogInv, Writers, NoBlockAssumption
  <1>12. Header'
      BY <1>2, <1>3, <1>4 DEF Header
  <1>13. Clean'
      BY <1>2, <1>3, <1>8 DEF LogInv, Clean
  <1>14. Copies'
      BY <1>2, <1>3, <1>4 DEF Copies, Recovering
  <1>15. Accounts'
    <2> DEFINE Lost == Paid \ Paid'
    <2>1. Paid' \subseteq Paid
        BY <1>8 DEF Paid
    <2>2. IsFiniteSet(Paid) /\ Cardinality(Paid) \in Nat
        BY PaidBound DEF LogInv, Accounts
    <2>3. Cardinality(Lost) \in Nat /\ Cardinality(Lost) <= OpBlocks
      <3>1. \A t \in Lost : \E q \in {p} : \E c \in wrote[q] : t = <<q, c>>
          BY <1>8 DEF Paid
      <3>2. IsFiniteSet({p}) /\ Cardinality({p}) = 1
          BY FS_Singleton
      <3>3. \A q \in {p} : IsFiniteSet(wrote[q]) /\ Cardinality(wrote[q]) <= OpBlocks
          BY DEF LogInv, Accounts
      <3>4. OpBlocks \in Nat
          BY DEF SizesAssumption
      <3> HIDE DEF Lost
      <3>5. Cardinality(Lost) \in Nat /\ Cardinality(Lost) <= 1 * OpBlocks
          BY <3>1, <3>2, <3>3, <3>4, PairsBound
      <3> QED BY <3>4, <3>5
    <2>4. Cardinality(Paid') \in Nat /\ Cardinality(Paid') = Cardinality(Paid) - Cardinality(Lost)
      <3>1. Paid' = Paid \ Lost /\ Paid \cap Lost = Lost
          BY <2>1
      <3>2. IsFiniteSet(Paid') /\ Cardinality(Paid \ Lost) = Cardinality(Paid) - Cardinality(Paid \cap Lost)
          BY <2>1, <2>2, FS_Subset, FS_Difference
      <3> QED BY <3>1, <3>2, FS_CardinalityType
    <2>5. Len(lh) + outstanding * MAXOPBLOCKS <= LOGSIZE + Cardinality(Paid)
        BY DEF LogInv, Accounts
    <2>6. outstanding' * MAXOPBLOCKS = outstanding * MAXOPBLOCKS - MAXOPBLOCKS
        BY <1>2, <1>3 DEF SizesAssumption
    <2>7. Len(lh') + outstanding' * MAXOPBLOCKS <= LOGSIZE + Cardinality(Paid')
      <3> HIDE DEF Lost
      <3>1. /\ MAXOPBLOCKS \in Nat /\ OpBlocks \in Nat /\ OpBlocks <= MAXOPBLOCKS
            /\ LOGSIZE \in Nat /\ Len(lh) \in Nat /\ outstanding * MAXOPBLOCKS \in Nat
          BY <1>2 DEF SizesAssumption, LogInv, TypeOK
      <3> QED BY <1>3, <2>2, <2>3, <2>4, <2>5, <2>6, <3>1
    <2>8. \A q \in Ops : IsFiniteSet(wrote'[q]) /\ Cardinality(wrote'[q]) <= OpBlocks
        BY <1>8, FS_EmptySet DEF LogInv, Accounts, SizesAssumption
    <2> QED BY <1>3, <2>7, <2>8 DEF LogInv, Accounts
  <1> QED BY <1>9, <1>10, <1>11, <1>12, <1>13, <1>14, <1>15 DEF LogInv

-----------------------------------------------------------------------------
(* write_log(): one more block of the log is a copy of the cache.          *)
LEMMA WriteLogIInv ==
    ASSUME SizesAssumption, NoBlockAssumption, LogInv, WriteLog
    PROVE  LogInv'
  <1>1. /\ phase = "log" /\ committing /\ lh # << >> /\ tail \in 1..Len(lh)
        /\ hdr = << >>
      BY DEF WriteLog, LogInv, TypeOK, Turns, Header
  <1>2. /\ UNCHANGED <<op, pend, wrote, outstanding, committing, panicked, lh, cache,
                       home, hdr>>
        /\ logblk' = [logblk EXCEPT ![tail] = cache[lh[tail]]]
        /\ \/ tail = Len(lh) /\ phase' = "head" /\ tail' = 1
           \/ tail # Len(lh) /\ phase' = "log" /\ tail' = tail + 1
      BY DEF WriteLog, Memory, Advance
  <1>3. /\ Active' = Active /\ Active = {} /\ Paid' = Paid /\ RangeOf(lh') = RangeOf(lh)
        /\ \A p \in Ops : pend[p] = NoBlock
      BY <1>1, <1>2, Quiet DEF Active, Paid, RangeOf
  <1>4. Len(lh) \in Nat /\ LOGSIZE \in Nat /\ Len(lh) <= LOGSIZE
      BY DEF LogInv, TypeOK, Accounts, SizesAssumption
  <1>5. \A i \in 1..Len(lh) : lh[i] \in Blocks
      BY DEF LogInv, TypeOK
  <1>6. /\ logblk' \in [1..LOGSIZE -> Vals]
        /\ \A i \in 1..LOGSIZE : logblk'[i] = IF i = tail THEN cache[lh[tail]] ELSE logblk[i]
    <2>1. cache[lh[tail]] \in Vals
        BY <1>1, <1>5 DEF LogInv, TypeOK
    <2> QED BY <1>2, <2>1 DEF LogInv, TypeOK
  <1>7. TypeOK'
    <2>1. tail' \in 1..(Len(lh') + 1)
        BY <1>1, <1>2, <1>4
    <2>2. phase' \in {"none", "read", "log", "head", "install", "clear", "finish"}
        BY <1>2
    <2> QED BY <1>2, <1>3, <1>6, <2>1, <2>2 DEF LogInv, TypeOK
  <1>8. Turns'
      BY <1>1, <1>2, <1>3, <1>4 DEF Turns
  <1>9. Writers' /\ Header' /\ Accounts'
      BY <1>1, <1>2, <1>3 DEF LogInv, Writers, Header, Accounts
  <1>10. Clean'
      BY <1>1, <1>2, <1>3 DEF LogInv, Clean, NoBlockAssumption
  <1>11. Copies'
    <2>1. ASSUME NEW i \in 1..Len(lh), i < tail \/ i = tail
          PROVE  logblk'[i] = cache'[lh'[i]]
      <3>1. i # tail => logblk[i] = cache[lh[i]]
          BY <1>1, <2>1 DEF LogInv, Copies
      <3> QED BY <1>2, <1>4, <1>6, <3>1
    <2>2. CASE phase' = "head"
      <3>1. \A i \in 1..Len(lh) : i < tail \/ i = tail
          BY <1>1, <1>2, <1>4, <2>2
      <3>2. \A i \in 1..Len(lh') : logblk'[i] = cache'[lh'[i]]
          BY <1>2, <2>1, <3>1
      <3> QED BY <1>1, <1>2, <2>2, <3>2 DEF Copies, Recovering
    <2>3. CASE phase' = "log"
      <3>1. \A i \in 1..Len(lh) : i < tail' => i < tail \/ i = tail
          BY <1>1, <1>2, <1>4, <2>3
      <3>2. \A i \in 1..Len(lh') : i < tail' => logblk'[i] = cache'[lh'[i]]
          BY <1>2, <2>1, <3>1
      <3> QED BY <1>1, <1>2, <2>3, <3>2 DEF Copies, Recovering
    <2> QED BY <1>2, <2>2, <2>3
  <1> QED BY <1>7, <1>8, <1>9, <1>10, <1>11 DEF LogInv

(* write_head(): the header on the disk is that of memory.                 *)
LEMMA WriteHeadIInv ==
    ASSUME SizesAssumption, NoBlockAssumption, LogInv, WriteHead
    PROVE  LogInv'
  <1>1. /\ phase = "head" /\ committing /\ lh # << >> /\ tail = 1
      BY DEF WriteHead, LogInv, Turns
  <1>2. /\ UNCHANGED <<op, pend, wrote, outstanding, committing, panicked, lh, cache,
                       home, logblk, tail>>
        /\ hdr' = lh /\ phase' = "install"
      BY DEF WriteHead, Memory
  <1>3. Active' = Active /\ Active = {} /\ Paid' = Paid /\ RangeOf(lh') = RangeOf(lh)
      BY <1>1, <1>2, Quiet DEF Active, Paid, RangeOf
  <1>4. lh \in Seq(Blocks) /\ 1 <= Len(lh) /\ Len(lh) <= LOGSIZE
      BY <1>1 DEF LogInv, TypeOK, Accounts
  <1>5. TypeOK'
      BY <1>2, <1>3, <1>4 DEF LogInv, TypeOK
  <1>6. Turns'
      BY <1>1, <1>2, <1>3, <1>4 DEF Turns
  <1>7. Writers' /\ Header' /\ Accounts'
      BY <1>2, <1>3, <1>4 DEF LogInv, TypeOK, Writers, Header, Accounts
  <1>8. Clean'
      BY <1>1, <1>2, <1>3 DEF LogInv, Clean, NoBlockAssumption
  <1>9. Copies'
      BY <1>1, <1>2, <1>4 DEF LogInv, Copies, Recovering
  <1> QED BY <1>5, <1>6, <1>7, <1>8, <1>9 DEF LogInv

(* install_trans(): one more block is home.                                *)
LEMMA InstallTransIInv ==
    ASSUME SizesAssumption, NoBlockAssumption, LogInv, InstallTrans
    PROVE  LogInv'
  <1>1. /\ phase = "install" /\ lh # << >> /\ tail \in 1..Len(lh) /\ hdr = lh
      BY DEF InstallTrans, LogInv, TypeOK, Turns, Header
  <1>2. /\ UNCHANGED <<op, pend, wrote, outstanding, committing, panicked, lh, logblk, hdr>>
        /\ home' = [home EXCEPT ![lh[tail]] = logblk[tail]]
        /\ cache' = [cache EXCEPT ![lh[tail]] = logblk[tail]]
        /\ \/ tail = Len(lh) /\ phase' = "clear" /\ tail' = 1
           \/ tail # Len(lh) /\ phase' = "install" /\ tail' = tail + 1
      BY DEF InstallTrans, Memory, Advance
  <1>3. /\ Active' = Active /\ Active = {} /\ Paid' = Paid /\ RangeOf(lh') = RangeOf(lh)
        /\ \A p \in Ops : pend[p] = NoBlock
      BY <1>1, <1>2, Quiet DEF Active, Paid, RangeOf
  <1>4. Len(lh) \in Nat /\ LOGSIZE \in Nat /\ Len(lh) <= LOGSIZE
      BY DEF LogInv, TypeOK, Accounts, SizesAssumption
  <1>5. /\ \A i \in 1..Len(lh) : lh[i] \in Blocks
        /\ \A i, j \in 1..Len(lh) : lh[i] = lh[j] => i = j
      BY DEF LogInv, TypeOK
  <1>6. /\ home' \in [Blocks -> Vals] /\ cache' \in [Blocks -> Vals]
        /\ \A b \in Blocks : home'[b] = IF b = lh[tail] THEN logblk[tail] ELSE home[b]
        /\ \A b \in Blocks : cache'[b] = IF b = lh[tail] THEN logblk[tail] ELSE cache[b]
    <2>1. logblk[tail] \in Vals
        BY <1>1, <1>4 DEF LogInv, TypeOK
    <2>2. home \in [Blocks -> Vals] /\ cache \in [Blocks -> Vals]
        BY DEF LogInv, TypeOK
    <2> QED BY <1>2, <2>1, <2>2
  <1>7. TypeOK'
    <2>1. tail' \in 1..(Len(lh') + 1)
        BY <1>1, <1>2, <1>4
    <2>2. phase' \in {"none", "read", "log", "head", "install", "clear", "finish"}
        BY <1>2
    <2> QED BY <1>2, <1>3, <1>6, <2>1, <2>2 DEF LogInv, TypeOK
  <1>8. Turns'
      BY <1>1, <1>2, <1>3, <1>4 DEF Turns
  <1>9. Writers' /\ Header' /\ Accounts'
      BY <1>1, <1>2, <1>3 DEF LogInv, Writers, Header, Accounts
  <1>10. Clean'
    <2> SUFFICES ASSUME committing, NEW b \in Blocks, b \notin RangeOf(lh)
                 PROVE  cache'[b] = home'[b]
        BY <1>1, <1>2, <1>3 DEF Clean
    <2>1. cache[b] = home[b]
        BY <1>3 DEF LogInv, Clean, NoBlockAssumption
    <2>2. b # lh[tail]
        BY <1>1 DEF RangeOf
    <2> QED BY <1>6, <2>1, <2>2
  <1>11. Copies'
    <2>1. ASSUME NEW i \in 1..Len(lh), i < tail \/ i = tail
          PROVE  home'[lh[i]] = logblk[i]
      <3>1. i # tail => home[lh[i]] = logblk[i] /\ lh[i] # lh[tail]
          BY <1>1, <1>5, <2>1 DEF LogInv, Copies
      <3> QED BY <1>5, <1>6, <3>1
    <2>2. ASSUME committing, NEW i \in 1..Len(lh) PROVE logblk'[i] = cache'[lh'[i]]
      <3>1. logblk[i] = cache[lh[i]]
          BY <1>1, <2>2 DEF LogInv, Copies
      <3>2. lh[i] = lh[tail] => i = tail
          BY <1>1, <1>5
      <3> QED BY <1>2, <1>5, <1>6, <3>1, <3>2
    <2>3. ASSUME ~committing PROVE cache' = home'
      <3>1. cache = home
          BY <1>1, <2>3 DEF LogInv, Copies, Recovering
      <3> QED BY <1>2, <3>1
    <2>4. CASE phase' = "clear"
      <3>1. \A i \in 1..Len(lh) : i < tail \/ i = tail
          BY <1>1, <1>2, <1>4, <2>4
      <3>2. \A i \in 1..Len(lh') : home'[lh'[i]] = logblk'[i]
          BY <1>2, <2>1, <3>1
      <3> QED BY <1>2, <2>2, <2>3, <2>4, <3>2 DEF Copies, Recovering
    <2>5. CASE phase' = "install"
      <3>1. \A i \in 1..Len(lh) : i < tail' => i < tail \/ i = tail
          BY <1>1, <1>2, <1>4, <2>5
      <3>2. \A i \in 1..Len(lh') : i < tail' => home'[lh'[i]] = logblk'[i]
          BY <1>2, <2>1, <3>1
      <3> QED BY <1>2, <2>2, <2>3, <2>5, <3>2 DEF Copies, Recovering
    <2> QED BY <1>2, <2>4, <2>5
  <1> QED BY <1>7, <1>8, <1>9, <1>10, <1>11 DEF LogInv

(* write_head() of an empty header: the transaction is erased.             *)
LEMMA ClearHeadIInv ==
    ASSUME SizesAssumption, NoBlockAssumption, LogInv, ClearHead
    PROVE  LogInv'
  <1>1. phase = "clear" /\ hdr = lh /\ tail = 1
      BY DEF ClearHead, LogInv, Turns, Header
  <1>2. /\ UNCHANGED <<op, pend, wrote, outstanding, committing, panicked, cache, home,
                       logblk, tail>>
        /\ lh' = << >> /\ hdr' = << >>
        /\ phase' = IF committing THEN "finish" ELSE "none"
      BY DEF ClearHead, Memory
  <1>3. /\ Active' = Active /\ Active = {} /\ outstanding = 0
        /\ Paid' = {} /\ RangeOf(lh') = {}
        /\ \A p \in Ops : pend[p] = NoBlock
      BY <1>1, <1>2, Quiet DEF Active, Paid, RangeOf
  <1>4. TypeOK'
    <2>1. tail' \in 1..(Len(lh') + 1)
        BY <1>1, <1>2
    <2>2. lh' \in Seq(Blocks) /\ hdr' \in Seq(Blocks)
        BY <1>2
    <2>3. \A i, j \in 1..Len(lh') : lh'[i] = lh'[j] => i = j
        BY <1>2
    <2> QED BY <1>2, <1>3, <2>1, <2>2, <2>3 DEF LogInv, TypeOK
  <1>5. Turns'
      BY <1>1, <1>2, <1>3 DEF Turns
  <1>6. Writers' /\ Header'
      BY <1>1, <1>2, <1>3 DEF LogInv, Writers, Header
  <1>7. Accounts'
    <2>1. Cardinality(Paid') = 0 /\ Len(lh') = 0 /\ Len(hdr') = 0
        BY <1>2, <1>3, FS_EmptySet
    <2>2. \A p \in Ops : IsFiniteSet(wrote'[p]) /\ Cardinality(wrote'[p]) <= OpBlocks
        BY <1>2 DEF LogInv, Accounts
    <2>3. 0 * MAXOPBLOCKS = 0 /\ LOGSIZE \in Nat
        BY DEF SizesAssumption
    <2> QED BY <1>2, <1>3, <2>1, <2>2, <2>3 DEF Accounts
  <1>8. \A b \in Blocks : cache[b] = home[b]
    <2>1. CASE committing
      <3> SUFFICES ASSUME NEW b \in Blocks PROVE cache[b] = home[b]
          OBVIOUS
      <3>1. CASE b \in RangeOf(lh)
        <4>1. PICK i \in 1..Len(lh) : lh[i] = b
            BY <3>1 DEF RangeOf
        <4> QED BY <1>1, <2>1, <4>1 DEF LogInv, Copies
      <3>2. CASE b \notin RangeOf(lh)
          BY <1>3, <2>1, <3>2 DEF LogInv, Clean, NoBlockAssumption
      <3> QED BY <3>1, <3>2
    <2>2. CASE ~committing
        BY <1>1, <2>2 DEF LogInv, Copies, Recovering
    <2> QED BY <2>1, <2>2
  <1>9. Clean'
      BY <1>2, <1>8 DEF Clean
  <1>10. Copies'
      BY <1>2 DEF Copies, Recovering
  <1> QED BY <1>4, <1>5, <1>6, <1>7, <1>9, <1>10 DEF LogInv

(* end_op() after commit(): operations may begin again.                    *)
LEMMA CommitDoneIInv ==
    ASSUME SizesAssumption, NoBlockAssumption, LogInv, CommitDone
    PROVE  LogInv'
  <1>1. phase = "finish" /\ committing /\ lh = << >> /\ hdr = << >> /\ tail = 1
      BY DEF CommitDone, LogInv, Turns, Header
  <1>2. /\ UNCHANGED <<pend, wrote, outstanding, lh, cache, home, logblk, hdr, tail,
                       panicked>>
        /\ committing' = FALSE /\ phase' = "none"
      BY DEF CommitDone, disk
  <1>3. /\ op' \in [Ops -> {"idle", "asleep", "woken", "in", "commit"}]
        /\ \A p \in Ops : op'[p] = "in" <=> op[p] = "in"
      BY DEF CommitDone, WakeAll, LogInv, TypeOK
  <1>4. Active' = Active /\ Active = {} /\ Paid' = Paid /\ RangeOf(lh') = RangeOf(lh)
      BY <1>1, <1>2, <1>3, Quiet DEF Active, Paid, RangeOf
  <1>5. TypeOK'
      BY <1>2, <1>3, <1>4 DEF LogInv, TypeOK
  <1>6. Turns'
      BY <1>1, <1>2, <1>4 DEF Turns
  <1>7. Writers' /\ Header' /\ Accounts'
      BY <1>1, <1>2, <1>3, <1>4 DEF LogInv, Writers, Header, Accounts
  <1>8. Clean'
      BY <1>1, <1>2, <1>4 DEF LogInv, Clean
  <1>9. Copies'
      BY <1>2 DEF Copies, Recovering
  <1> QED BY <1>5, <1>6, <1>7, <1>8, <1>9 DEF LogInv

(* A crash at any moment leaves the disk, and a cache that is read from it.*)
LEMMA CrashIInv ==
    ASSUME SizesAssumption, NoBlockAssumption, LogInv, Crash
    PROVE  LogInv'
  <1>1. /\ op' = [p \in Ops |-> "idle"] /\ pend' = [p \in Ops |-> NoBlock]
        /\ wrote' = [p \in Ops |-> {}] /\ outstanding' = 0 /\ committing' = FALSE
        /\ lh' = << >> /\ cache' = home /\ phase' = "read" /\ tail' = 1
        /\ panicked' = FALSE /\ UNCHANGED <<home, logblk, hdr>>
      BY DEF Crash, disk
  <1>2. Active' = {} /\ Paid' = {}
      BY <1>1 DEF Active, Paid
  <1>3. TypeOK'
    <2>1. outstanding' = Cardinality(Active')
        BY <1>1, <1>2, FS_EmptySet
    <2>2. tail' \in 1..(Len(lh') + 1) /\ lh' \in Seq(Blocks)
        BY <1>1
    <2>3. \A i, j \in 1..Len(lh') : lh'[i] = lh'[j] => i = j
        BY <1>1
    <2>4. /\ op' \in [Ops -> {"idle", "asleep", "woken", "in", "commit"}]
          /\ pend' \in [Ops -> Blocks \cup {NoBlock}]
          /\ wrote' \in [Ops -> SUBSET Blocks]
        BY <1>1
    <2> QED BY <1>1, <2>1, <2>2, <2>3, <2>4 DEF LogInv, TypeOK
  <1>4. Turns' /\ Header'
      BY <1>1, <1>2 DEF LogInv, Turns, Header
  <1>5. Writers' /\ Clean' /\ Copies'
      BY <1>1 DEF Writers, Clean, Copies, Recovering
  <1>6. Accounts'
    <2>1. Cardinality(Paid') = 0 /\ Len(lh') = 0
        BY <1>1, <1>2, FS_EmptySet
    <2>2. \A p \in Ops : IsFiniteSet(wrote'[p]) /\ Cardinality(wrote'[p]) <= OpBlocks
        BY <1>1, FS_EmptySet DEF SizesAssumption
    <2>3. 0 * MAXOPBLOCKS = 0 /\ LOGSIZE \in Nat
        BY DEF SizesAssumption
    <2> QED BY <1>1, <2>1, <2>2, <2>3 DEF LogInv, Accounts
  <1> QED BY <1>3, <1>4, <1>5, <1>6 DEF LogInv

(* read_head(): memory learns what the header on the disk names.           *)
LEMMA ReadHeadIInv ==
    ASSUME SizesAssumption, NoBlockAssumption, LogInv, ReadHead
    PROVE  LogInv'
  <1>1. phase = "read" /\ ~committing /\ lh = << >> /\ tail = 1
      BY DEF ReadHead, LogInv, Turns
  <1>2. /\ UNCHANGED <<op, pend, wrote, outstanding, committing, panicked, cache, home,
                       logblk, hdr, tail>>
        /\ lh' = hdr
        /\ phase' = IF hdr = << >> THEN "clear" ELSE "install"
      BY DEF ReadHead, Memory, disk
  <1>3. /\ Active' = Active /\ Active = {} /\ outstanding = 0
        /\ \A p \in Ops : wrote[p] = {}
      BY <1>1, <1>2, Quiet DEF Active
  <1>4. /\ hdr \in Seq(Blocks) /\ Len(hdr) \in Nat /\ Len(hdr) <= LOGSIZE
        /\ hdr # << >> => 1 <= Len(hdr)
      BY DEF LogInv, TypeOK, Accounts
  <1>5. TypeOK'
    <2>1. tail' \in 1..(Len(lh') + 1)
        BY <1>1, <1>2, <1>4
    <2>2. \A i, j \in 1..Len(lh') : lh'[i] = lh'[j] => i = j
        BY <1>2 DEF LogInv, Header
    <2> QED BY <1>2, <1>3, <1>4, <2>1, <2>2 DEF LogInv, TypeOK
  <1>6. Turns'
      BY <1>1, <1>2, <1>3, <1>4 DEF Turns
  <1>7. Writers' /\ Header'
      BY <1>2 DEF LogInv, Writers, Header
  <1>8. Clean'
      BY <1>1, <1>2 DEF Clean
  <1>9. Copies'
      BY <1>1, <1>2 DEF LogInv, Copies, Recovering
  <1>10. Accounts'
    <2>1. Paid' = {}
        BY <1>2, <1>3 DEF Paid
    <2>2. Cardinality(Paid') = 0
        BY <2>1, FS_EmptySet
    <2>3. 0 * MAXOPBLOCKS = 0 /\ LOGSIZE \in Nat
        BY DEF SizesAssumption
    <2> QED BY <1>2, <1>3, <1>4, <2>2, <2>3 DEF LogInv, Accounts
  <1> QED BY <1>5, <1>6, <1>7, <1>8, <1>9, <1>10 DEF LogInv

(* Every step keeps LogInv.                                                  *)
LEMMA NextLogInv ==
    ASSUME SizesAssumption, NoBlockAssumption, LogInv, [Next]_vars
    PROVE  LogInv'
  <1>1. ASSUME NEW p \in Ops, OpStep(p) PROVE LogInv'
      BY <1>1, BeginWaitIInv, BeginOpIInv, LogWriteAppendIInv, EndOpIInv,
         LogWriteCheckIInv DEF OpStep
  <1>2. ASSUME LogStep PROVE LogInv'
      BY <1>2, WriteLogIInv, WriteHeadIInv, InstallTransIInv, ClearHeadIInv,
         CommitDoneIInv, ReadHeadIInv DEF LogStep
  <1>3. CASE UNCHANGED vars
    <2>1. UNCHANGED <<op, pend, wrote, outstanding, committing, lh, cache, home, logblk,
                      hdr, phase, tail, panicked>>
        BY <1>3 DEF vars
    <2>2. TypeOK' /\ Turns' /\ Writers' /\ Header'
        BY <2>1 DEF LogInv, TypeOK, Turns, Writers, Header, Active
    <2>3. Clean' /\ Copies' /\ Accounts'
        BY <2>1 DEF LogInv, Clean, Copies, Accounts, Paid, RangeOf, Recovering
    <2> QED BY <2>2, <2>3 DEF LogInv
  <1> QED BY <1>1, <1>2, <1>3, CrashIInv DEF Next

-----------------------------------------------------------------------------
(* An action that leaves the disk alone leaves what a crash would find.    *)
LEMMA SameDisk ==
    ASSUME UNCHANGED <<home, logblk, hdr>>
    PROVE  Durable' = Durable
  BY DEF Durable, RangeOf

(* The calls of begin_op(), log_write() and end_op() are those of the      *)
(* abstract disk; waiting and the bookkeeping of the log do not show.      *)
LEMMA CallsSimulate ==
    ASSUME SizesAssumption, NoBlockAssumption, LogInv, NEW p \in Ops, OpStep(p)
    PROVE  [AD!Next]_(AD!vars)
  <1>1. CASE BeginWait(p)
    <2>1. UNCHANGED <<home, logblk, hdr, cache, phase, committing>>
        BY <1>1 DEF BeginWait, disk
    <2>2. Durable' = Durable /\ View' = View
        BY <2>1, SameDisk DEF View, Recovering
    <2>3. \A q \in Ops : op'[q] = "in" <=> op[q] = "in"
        BY <1>1 DEF BeginWait, LogInv, TypeOK
    <2>4. Active' = Active
        BY <2>3 DEF Active
    <2> QED BY <2>2, <2>4 DEF AD!vars
  <1>2. CASE BeginOp(p)
    <2>1. UNCHANGED <<home, logblk, hdr, cache, phase, committing>>
        BY <1>2 DEF BeginOp, disk
    <2>2. Durable' = Durable /\ View' = View
        BY <2>1, SameDisk DEF View, Recovering
    <2>3. \A q \in Ops : op'[q] = IF q = p THEN "in" ELSE op[q]
        BY <1>2 DEF BeginOp, LogInv, TypeOK
    <2>4. p \notin Active /\ Active' = Active \cup {p}
        BY <1>2, <2>3 DEF Active, BeginOp
    <2> QED BY <2>2, <2>4 DEF AD!Next, AD!Begin
  <1>3. CASE LogWriteAppend(p)
    <2>1. UNCHANGED <<home, logblk, hdr, cache, phase, committing, op>>
        BY <1>3 DEF LogWriteAppend, disk
    <2>2. Durable' = Durable /\ View' = View /\ Active' = Active
        BY <2>1, SameDisk DEF View, Recovering, Active
    <2> QED BY <2>2 DEF AD!vars
  <1>4. CASE EndOp(p)
    <2>1. op[p] = "in" /\ phase = "none" /\ ~committing
        BY <1>4, InOp DEF EndOp
    <2>2. UNCHANGED <<home, logblk, hdr, cache>>
        BY <1>4 DEF EndOp, disk
    <2>3. /\ \A q \in Ops : op'[q] = "in" <=> op[q] = "in" /\ q # p
          /\ ~Recovering'
      <3>1. CASE outstanding = 1
          BY <1>4, <3>1 DEF EndOp, Recovering, LogInv, TypeOK
      <3>2. CASE outstanding # 1
        <4>1. op' = WakeAll([op EXCEPT ![p] = "idle"]) /\ phase' = phase
            BY <1>4, <3>2 DEF EndOp
        <4>2. op' = [q \in Ops |-> IF q # p /\ op[q] = "asleep" THEN "woken"
                                   ELSE IF q = p THEN "idle" ELSE op[q]]
            BY <4>1 DEF WakeAll, LogInv, TypeOK
        <4> QED BY <2>1, <4>1, <4>2 DEF Recovering
      <3> QED BY <3>1, <3>2
    <2>4. Durable' = Durable /\ View' = View
        BY <2>1, <2>2, <2>3, SameDisk DEF View, Recovering
    <2>5. p \in Active /\ Active' = Active \ {p}
        BY <2>1, <2>3 DEF Active
    <2> QED BY <2>4, <2>5 DEF AD!Next, AD!End
  <1>5. CASE \E b \in Blocks, v \in Vals : LogWriteCheck(p, b, v)
    <2>1. PICK b \in Blocks, v \in Vals : LogWriteCheck(p, b, v)
        BY <1>5
    <2>2. /\ UNCHANGED <<home, logblk, hdr, phase, committing, op>>
          /\ ~Recovering /\ p \in Active
        BY <2>1 DEF LogWriteCheck, disk, Serving, Active
    <2>3. Durable' = Durable /\ Active' = Active /\ View = cache /\ View' = cache'
        BY <2>2, SameDisk DEF View, Recovering, Active
    <2>4. CASE UNCHANGED cache
        BY <2>3, <2>4 DEF AD!vars
    <2>5. CASE cache' = [cache EXCEPT ![b] = v]
        BY <2>2, <2>3, <2>5 DEF AD!Next, AD!Write
    <2> QED BY <2>1, <2>4, <2>5 DEF LogWriteCheck
  <1> QED BY <1>1, <1>2, <1>3, <1>4, <1>5 DEF OpStep

(* The header that names no block leaves the home of every block.          *)
LEMMA EmptyHeader ==
    ASSUME home \in [Blocks -> Vals], hdr = << >>
    PROVE  Durable = home
  <1>1. RangeOf(hdr) = {}
      BY DEF RangeOf
  <1> QED BY <1>1 DEF Durable

(* The write of the header makes all that operations wrote durable: a      *)
(* block that it names is in the log, and every other one is at home.      *)
LEMMA WriteHeadCommits ==
    ASSUME SizesAssumption, NoBlockAssumption, LogInv, WriteHead
    PROVE  AD!Commit
  <1>1. phase = "head" /\ committing
      BY DEF WriteHead, LogInv, Turns
  <1>2. /\ UNCHANGED <<op, committing, cache, home, logblk>>
        /\ hdr' = lh /\ phase' = "install"
      BY DEF WriteHead, Memory
  <1>3. /\ Active' = Active /\ Active = {}
        /\ \A p \in Ops : pend[p] = NoBlock
      BY <1>1, <1>2, Quiet DEF Active
  <1>4. View = cache /\ View' = View
      BY <1>1, <1>2 DEF View, Recovering
  <1> DEFINE Points(b) == CHOOSE i \in 1..Len(lh) : lh[i] = b
  <1>5. Durable' = [b \in Blocks |-> IF b \in RangeOf(lh) THEN logblk[Points(b)] ELSE home[b]]
      BY <1>2 DEF Durable, RangeOf
  <1>6. ASSUME NEW b \in RangeOf(lh) PROVE Points(b) \in 1..Len(lh) /\ lh[Points(b)] = b
      BY DEF RangeOf
  <1> HIDE DEF Points
  <1>7. ASSUME NEW b \in Blocks
        PROVE  (IF b \in RangeOf(lh) THEN logblk[Points(b)] ELSE home[b]) = cache[b]
    <2>1. CASE b \in RangeOf(lh)
      <3>1. logblk[Points(b)] = cache[lh[Points(b)]]
          BY <1>1, <1>6, <2>1 DEF LogInv, Copies
      <3> QED BY <1>6, <2>1, <3>1
    <2>2. CASE b \notin RangeOf(lh)
        BY <1>1, <1>3, <2>2 DEF LogInv, Clean, NoBlockAssumption
    <2> QED BY <2>1, <2>2
  <1>8. Durable' = [b \in Blocks |-> cache[b]]
      BY <1>5, <1>7, Zenon
  <1>9. Durable' = cache
      BY <1>8 DEF LogInv, TypeOK
  <1> QED BY <1>3, <1>4, <1>9 DEF AD!Commit

(* Installing a block that the header names changes nothing a crash would  *)
(* find, nor what is read.                                                 *)
LEMMA InstallHidden ==
    ASSUME SizesAssumption, NoBlockAssumption, LogInv, InstallTrans
    PROVE  UNCHANGED AD!vars
  <1>1. /\ phase = "install" /\ tail \in 1..Len(lh) /\ hdr = lh
      BY DEF InstallTrans, LogInv, TypeOK, Turns, Header
  <1>2. /\ UNCHANGED <<op, committing, logblk, hdr>>
        /\ home' = [home EXCEPT ![lh[tail]] = logblk[tail]]
        /\ cache' = [cache EXCEPT ![lh[tail]] = logblk[tail]]
        /\ phase' \in {"clear", "install"}
      BY DEF InstallTrans, Memory, Advance
  <1>3. Active' = Active
      BY <1>2 DEF Active
  <1>4. lh[tail] \in RangeOf(hdr) /\ lh[tail] \in Blocks
      BY <1>1 DEF RangeOf, LogInv, TypeOK
  <1>5. \A b \in Blocks : b \notin RangeOf(hdr) => home'[b] = home[b]
      BY <1>2, <1>4 DEF LogInv, TypeOK
  <1>6. Durable' = Durable
      BY <1>2, <1>5 DEF Durable, RangeOf
  <1>7. committing => cache' = cache
    <2>1. committing => logblk[tail] = cache[lh[tail]]
        BY <1>1 DEF LogInv, Copies
    <2> QED BY <1>2, <2>1 DEF LogInv, TypeOK
  <1>8. View' = View
      BY <1>1, <1>2, <1>6, <1>7 DEF View, Recovering
  <1> QED BY <1>3, <1>6, <1>8 DEF AD!vars

(* The header is cleared when every block that it names is home.           *)
LEMMA ClearHidden ==
    ASSUME SizesAssumption, NoBlockAssumption, LogInv, ClearHead
    PROVE  UNCHANGED AD!vars
  <1>1. phase = "clear" /\ hdr = lh
      BY DEF ClearHead, LogInv, Header
  <1>2. /\ UNCHANGED <<op, committing, cache, home, logblk>>
        /\ hdr' = << >>
        /\ phase' = IF committing THEN "finish" ELSE "none"
      BY DEF ClearHead, Memory
  <1>3. Active' = Active
      BY <1>2 DEF Active
  <1>4. /\ home \in [Blocks -> Vals] /\ Durable \in [Blocks -> Vals]
        /\ \A i \in 1..Len(hdr) : hdr[i] \in Blocks /\ Durable[hdr[i]] = logblk[i]
        /\ \A b \in Blocks : b \notin RangeOf(hdr) => Durable[b] = home[b]
      BY DurableOf DEF LogInv, TypeOK, Accounts
  <1>5. ASSUME NEW b \in Blocks PROVE Durable[b] = home[b]
    <2>1. CASE b \in RangeOf(hdr)
      <3>1. PICK i \in 1..Len(hdr) : hdr[i] = b
          BY <2>1 DEF RangeOf
      <3>2. home[lh[i]] = logblk[i]
          BY <1>1, <3>1 DEF LogInv, Copies
      <3> QED BY <1>1, <1>4, <3>1, <3>2
    <2> QED BY <1>4, <2>1
  <1>6. Durable = home
      BY <1>4, <1>5
  <1>7. Durable' = home'
    <2>1. RangeOf(hdr') = {}
        BY <1>2 DEF RangeOf
    <2> QED BY <1>2, <1>4, <2>1 DEF Durable
  <1>8. View' = View
    <2>1. ~committing => cache = home
        BY <1>1 DEF LogInv, Copies, Recovering
    <2> QED BY <1>1, <1>2, <1>6, <2>1 DEF View, Recovering
  <1> QED BY <1>2, <1>3, <1>6, <1>7, <1>8 DEF AD!vars

(* A step of commit() or of recovery makes the writes durable, or does not *)
(* show.                                                                   *)
LEMMA LogSimulates ==
    ASSUME SizesAssumption, NoBlockAssumption, LogInv, LogStep
    PROVE  [AD!Next]_(AD!vars)
  <1>1. CASE WriteLog
    <2>1. phase = "log" /\ committing /\ hdr = << >>
        BY <1>1 DEF WriteLog, LogInv, Turns, Header
    <2>2. /\ UNCHANGED <<op, committing, cache, home, hdr>>
        BY <1>1 DEF WriteLog, Memory
    <2>3. Durable = [b \in Blocks |-> home[b]] /\ Durable' = [b \in Blocks |-> home'[b]]
      <3>1. RangeOf(hdr) = {} /\ RangeOf(hdr') = {}
          BY <2>1, <2>2 DEF RangeOf
      <3> QED BY <3>1 DEF Durable
    <2>4. View' = View /\ Active' = Active
        BY <2>1, <2>2 DEF View, Recovering, Active
    <2> QED BY <2>2, <2>3, <2>4 DEF AD!vars
  <1>2. CASE WriteHead
      BY <1>2, WriteHeadCommits DEF AD!Next
  <1>3. CASE InstallTrans
      BY <1>3, InstallHidden
  <1>4. CASE ClearHead
      BY <1>4, ClearHidden
  <1>5. CASE CommitDone
    <2>1. phase = "finish" /\ committing
        BY <1>5 DEF CommitDone, LogInv, Turns
    <2>2. UNCHANGED <<home, logblk, hdr, cache>> /\ phase' = "none"
        BY <1>5 DEF CommitDone, disk
    <2>3. \A p \in Ops : op'[p] = "in" <=> op[p] = "in"
        BY <1>5 DEF CommitDone, WakeAll, LogInv, TypeOK
    <2>4. Durable' = Durable /\ View' = View /\ Active' = Active
        BY <2>1, <2>2, <2>3, SameDisk DEF View, Recovering, Active
    <2> QED BY <2>4 DEF AD!vars
  <1>6. CASE ReadHead
    <2>1. phase = "read" /\ ~committing
        BY <1>6 DEF ReadHead, LogInv, Turns
    <2>2. /\ UNCHANGED <<op, committing, home, logblk, hdr, cache>>
          /\ phase' \in {"clear", "install"}
        BY <1>6 DEF ReadHead, Memory, disk
    <2>3. Durable' = Durable /\ View' = View /\ Active' = Active
        BY <2>1, <2>2, SameDisk DEF View, Recovering, Active
    <2> QED BY <2>3 DEF AD!vars
  <1> QED BY <1>1, <1>2, <1>3, <1>4, <1>5, <1>6 DEF LogStep

(* A crash falls back to the durable disk.                                 *)
LEMMA CrashSimulates ==
    ASSUME Crash
    PROVE  AD!Crash
  <1>1. /\ op' = [p \in Ops |-> "idle"] /\ committing' = FALSE /\ phase' = "read"
        /\ UNCHANGED <<home, logblk, hdr>>
      BY DEF Crash, disk
  <1>2. Durable' = Durable /\ View' = Durable' /\ Active' = {}
      BY <1>1, SameDisk DEF View, Recovering, Active
  <1> QED BY <1>2 DEF AD!Crash

(* Every step of the log is a step of the abstract disk, or a stutter.     *)
LEMMA StepSimulates ==
    ASSUME SizesAssumption, NoBlockAssumption, LogInv, [Next]_vars
    PROVE  [AD!Next]_(AD!vars)
  <1>1. CASE UNCHANGED vars
    <2>1. UNCHANGED <<op, committing, cache, home, logblk, hdr, phase>>
        BY <1>1 DEF vars
    <2>2. Durable' = Durable /\ View' = View /\ Active' = Active
        BY <2>1, SameDisk DEF View, Recovering, Active
    <2> QED BY <2>2 DEF AD!vars
  <1>2. CASE Crash
      BY <1>2, CrashSimulates DEF AD!Next
  <1> QED BY <1>1, <1>2, CallsSimulate, LogSimulates DEF Next

-----------------------------------------------------------------------------
(* The inductive invariant of the log: in each phase of commit() and of    *)
(* recovery, what the cache, the log and the disk agree on.                *)
THEOREM SpecIInv ==
    ASSUME SizesAssumption, NoBlockAssumption
    PROVE  Spec => []LogInv
  <1>1. Init => LogInv
      BY InitLogInv
  <1>2. LogInv /\ [Next]_vars => LogInv'
      BY NextLogInv
  <1> QED BY <1>1, <1>2, PTL DEF Spec

(* outstanding counts the operations between begin_op() and end_op(), and  *)
(* no block is twice in log.lh.                                            *)
THEOREM SpecTypeOK ==
    ASSUME SizesAssumption, NoBlockAssumption
    PROVE  Spec => []TypeOK
  <1>1. LogInv => TypeOK
      BY DEF LogInv
  <1> QED BY <1>1, SpecIInv, PTL

(* With no operation running and no commit in progress, everything that    *)
(* was written is on the disk.                                             *)
THEOREM SpecQuietIsDurable ==
    ASSUME SizesAssumption, NoBlockAssumption
    PROVE  Spec => []QuietIsDurable
  <1>1. ASSUME LogInv PROVE QuietIsDurable
    <2> SUFFICES ASSUME phase = "none", Active = {}
                 PROVE  cache = Durable /\ lh = << >>
        BY DEF QuietIsDurable
    <2> USE <1>1
    <2>1. lh = << >> /\ hdr = << >>
        BY DEF LogInv, Turns, Header
    <2>2. Durable = home
        BY <2>1, EmptyHeader DEF LogInv, TypeOK
    <2>3. \A b \in Blocks : cache[b] = home[b]
      <3>1. RangeOf(lh) = {}
          BY <2>1 DEF RangeOf
      <3>2. \A p \in Ops : pend[p] = NoBlock
          BY DEF LogInv, Writers, Active
      <3> QED BY <3>1, <3>2 DEF LogInv, Clean, NoBlockAssumption
    <2> QED BY <2>1, <2>2, <2>3 DEF LogInv, TypeOK
  <1> QED BY <1>1, SpecIInv, PTL

(* Log implements AtomicDisk: operations work on one view of the disk, and *)
(* a crash at any moment, also during recovery, leaves every operation     *)
(* done completely or not at all.                                          *)
THEOREM SpecCrashAtomic ==
    ASSUME SizesAssumption, NoBlockAssumption
    PROVE  Spec => CrashAtomic
  <1>1. Init => AD!Init
    <2> SUFFICES ASSUME Init PROVE AD!Init
        OBVIOUS
    <2>1. hdr = << >> /\ home \in [Blocks -> Vals] /\ cache = home /\ phase = "none"
        BY DEF Init
    <2>2. Durable = home
        BY <2>1, EmptyHeader
    <2>3. View = home /\ Active = {}
        BY <2>1 DEF View, Recovering, Active, Init
    <2> QED BY <2>1, <2>2, <2>3 DEF AD!Init
  <1>2. LogInv /\ [Next]_vars => [AD!Next]_(AD!vars)
      BY StepSimulates
  <1> QED BY <1>1, <1>2, SpecIInv, PTL DEF Spec, CrashAtomic, AD!Spec

-----------------------------------------------------------------------------
(* The sizes of the kernel: LOGSIZE is 30, mkfs makes as many log blocks,  *)
(* and no operation writes more than 8 of the 10 blocks it reserves.       *)
KernelSizes == LOGSIZE <= LogSize /\ OpBlocks + 2 <= MAXOPBLOCKS

(* The log stays inside its blocks, in memory and on the disk.             *)
Fits == NoPanic /\ LogFits /\ Len(hdr) <= LogSize - 1

(* While operations run, the log has more than one free block.             *)
LEMMA RoomLeft ==
    ASSUME SizesAssumption, KernelSizes, LogInv, Active # {}
    PROVE  /\ Len(lh) < LogSize - 1 /\ Len(lh) < LOGSIZE
           /\ outstanding \in Nat /\ outstanding >= 1
  <1>1. outstanding \in Nat /\ outstanding >= 1
      BY ActiveCounted DEF LogInv
  <1>2. Cardinality(Paid) \in Nat /\ Cardinality(Paid) <= outstanding * OpBlocks
      BY PaidBound DEF LogInv, Accounts
  <1>3. Len(lh) + outstanding * MAXOPBLOCKS <= LOGSIZE + Cardinality(Paid)
      BY DEF LogInv, Accounts
  <1>4. /\ OpBlocks \in Nat /\ MAXOPBLOCKS \in Nat /\ LOGSIZE \in Nat /\ LogSize \in Nat
        /\ Len(lh) \in Nat
      BY DEF SizesAssumption, LogInv, TypeOK
  <1>5. outstanding * (OpBlocks + 2) <= outstanding * MAXOPBLOCKS
      BY <1>1, <1>4, MoreIsMore DEF KernelSizes
  <1>6. outstanding * (OpBlocks + 2) = outstanding * OpBlocks + 2 * outstanding
      BY <1>1, <1>4
  <1>7. outstanding * OpBlocks \in Nat /\ outstanding * MAXOPBLOCKS \in Nat
      BY <1>1, <1>4
  <1>8. Len(lh) + 2 * outstanding <= LOGSIZE
      BY <1>1, <1>2, <1>3, <1>4, <1>5, <1>6, <1>7
  <1> QED BY <1>1, <1>4, <1>8 DEF KernelSizes

(* The reservations of begin_op() suffice, although log_write() tests the  *)
(* size before it takes log.lock: no panic of log.c is reached, and the    *)
(* log fits its blocks, however many operations run together.              *)
THEOREM SpecNoPanic ==
    ASSUME SizesAssumption, NoBlockAssumption, KernelSizes
    PROVE  Spec => [](NoPanic /\ LogFits)
  <1> USE DEF Fits, NoPanic, LogFits
  <1>1. LogSize \in Nat /\ LogSize >= 1
      BY DEF SizesAssumption
  <1>2. Init => Fits
      BY <1>1 DEF Init
  <1>3. LogInv /\ Fits /\ LogInv' /\ [Next]_vars => Fits'
    <2> SUFFICES ASSUME LogInv, Fits, LogInv', [Next]_vars PROVE Fits'
        OBVIOUS
    <2>1. ASSUME NEW p \in Ops, OpStep(p) PROVE Fits'
      <3>1. CASE BeginWait(p) \/ BeginOp(p)
          BY <3>1 DEF BeginWait, BeginOp, disk
      <3>2. CASE LogWriteAppend(p)
        <4>1. op[p] = "in" /\ pend[p] \in Blocks
            BY <3>2 DEF LogWriteAppend, LogInv, Writers, TypeOK
        <4>2. Len(lh) < LogSize - 1
            BY <4>1, RoomLeft DEF Active
        <4>3. Len(lh') <= Len(lh) + 1
            BY <3>2, <4>1 DEF LogWriteAppend, LogInv, TypeOK
        <4>4. panicked' = panicked /\ hdr' = hdr
            BY <3>2 DEF LogWriteAppend, disk
        <4>5. Len(lh) \in Nat /\ Len(lh') \in Nat
            BY DEF LogInv, TypeOK
        <4> QED BY <1>1, <4>2, <4>3, <4>4, <4>5
      <3>3. CASE EndOp(p)
        <4>1. ~committing
            BY <3>3, InOp DEF EndOp
        <4> QED BY <3>3, <4>1 DEF EndOp, disk
      <3>4. CASE \E b \in Blocks, v \in Vals : LogWriteCheck(p, b, v)
        <4>1. PICK b \in Blocks, v \in Vals : LogWriteCheck(p, b, v)
            BY <3>4
        <4>2. p \in Active
            BY <4>1 DEF LogWriteCheck, Active
        <4>3. /\ Len(lh) < LogSize - 1 /\ Len(lh) < LOGSIZE
              /\ outstanding \in Nat /\ outstanding >= 1
            BY <4>2, RoomLeft
        <4>4. ~(Len(lh) >= LOGSIZE \/ Len(lh) >= LogSize - 1 \/ outstanding < 1)
            BY <1>1, <4>3 DEF SizesAssumption, LogInv, TypeOK
        <4>5. UNCHANGED <<panicked, lh, hdr>>
            BY <4>1, <4>4, Zenon DEF LogWriteCheck, disk
        <4> QED BY <4>5
      <3> QED BY <2>1, <3>1, <3>2, <3>3, <3>4 DEF OpStep
    <2>2. ASSUME LogStep PROVE Fits'
      <3>1. CASE WriteLog
          BY <3>1 DEF WriteLog, Memory
      <3>2. CASE WriteHead
          BY <3>2 DEF WriteHead, Memory
      <3>3. CASE InstallTrans
          BY <3>3 DEF InstallTrans, Memory
      <3>4. CASE ClearHead
          BY <1>1, <3>4 DEF ClearHead, Memory
      <3>5. CASE CommitDone
          BY <3>5 DEF CommitDone, disk
      <3>6. CASE ReadHead
          BY <3>6 DEF ReadHead, Memory, disk
      <3> QED BY <2>2, <3>1, <3>2, <3>3, <3>4, <3>5, <3>6 DEF LogStep
    <2>3. CASE Crash
        BY <1>1, <2>3 DEF Crash, disk
    <2>4. CASE UNCHANGED vars
        BY <2>4 DEF vars
    <2> QED BY <2>1, <2>2, <2>3, <2>4 DEF Next
  <1>4. Fits => NoPanic /\ LogFits
      OBVIOUS
  <1> QED BY <1>2, <1>3, <1>4, SpecIInv, PTL DEF Spec

(* All that the run checks of the log at once: the types, that what is     *)
(* quiet is on the disk, that log.c does not panic and that the log fits.  *)
THEOREM SpecLogSound ==
    ASSUME SizesAssumption, NoBlockAssumption, KernelSizes
    PROVE  Spec => []LogSound
  <1>1. TypeOK /\ QuietIsDurable /\ NoPanic /\ LogFits => LogSound
      BY DEF LogSound
  <1> QED BY <1>1, SpecTypeOK, SpecQuietIsDurable, SpecNoPanic, PTL
=============================================================================

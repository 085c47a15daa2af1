------------------------------- MODULE Library ------------------------------
(***************************************************************************)
(* The functions the kernel and the programs share: strings and memory     *)
(* (string.c, ulib.c), the arguments of system calls (syscall.c), and      *)
(* formatted output (console.c, printf.c).  Memory is a function m from    *)
(* addresses to bytes; integers have W bits.                               *)
(***************************************************************************)
EXTENDS Integers, FiniteSetsExt, SequencesExt

CONSTANTS W, WORD       \* bits of an int; bytes of an int (4)

LibraryAssumption == W \in Nat \ {0} /\ WORD \in Nat \ {0}

U(n) == n % 2^W                                     \* (uint)n
S(n) == IF U(n) >= 2^(W - 1) THEN U(n) - 2^W ELSE U(n)  \* (int)n
Sign(n) == IF n > 0 THEN 1 ELSE IF n < 0 THEN -1 ELSE 0

-----------------------------------------------------------------------------
(* memset(): by words when it can.                                         *)
Memset(m, dst, c, n) ==
    LET stosl(k) == [a \in DOMAIN m |-> IF dst <= a /\ a < dst + WORD * k THEN c % 256 ELSE m[a]]
        stosb(k) == [a \in DOMAIN m |-> IF dst <= a /\ a < dst + k THEN c % 256 ELSE m[a]]
    IN  IF dst % WORD = 0 /\ n % WORD = 0 THEN stosl(n \div WORD) ELSE stosb(n)

(* memmove() of ulib.c: one byte after the other, upwards.                 *)
MemmoveUp(m, dst, src, n) ==
    FoldLeft(LAMBDA r, i : [r EXCEPT ![dst + i] = r[src + i]], m, [i \in 1..n |-> i - 1])

(* memmove() of string.c: downwards when the end of src is in dst.         *)
Memmove(m, dst, src, n) ==
    IF src < dst /\ src + n > dst
    THEN FoldLeft(LAMBDA r, i : [r EXCEPT ![dst + i] = r[src + i]], m, [i \in 1..n |-> n - i])
    ELSE MemmoveUp(m, dst, src, n)

(* memcmp(): the first difference decides.                                 *)
Memcmp(m, p, q, n) ==
    LET diff == {i \in 0..(n - 1) : m[p + i] # m[q + i]} IN
    IF diff = {} THEN 0 ELSE m[p + Min(diff)] - m[q + Min(diff)]

(* strncmp(); strcmp() has no n.                                           *)
RECURSIVE Strncmp(_, _, _, _)
Strncmp(m, p, q, n) ==
    IF n > 0 /\ m[p] # 0 /\ m[p] = m[q] THEN Strncmp(m, p + 1, q + 1, n - 1)
    ELSE IF n = 0 THEN 0 ELSE m[p] - m[q]

RECURSIVE Strcmp(_, _, _)
Strcmp(m, p, q) ==
    IF m[p] # 0 /\ m[p] = m[q] THEN Strcmp(m, p + 1, q + 1) ELSE m[p] - m[q]

(* strlen()                                                                *)
RECURSIVE Strlen(_, _)
Strlen(m, s) == IF m[s] = 0 THEN 0 ELSE 1 + Strlen(m, s + 1)

(* strchr(): the address, or -1 for 0; the NUL itself is not found.        *)
RECURSIVE Strchr(_, _, _)
Strchr(m, s, c) ==
    IF m[s] = 0 THEN -1 ELSE IF m[s] = c THEN s ELSE Strchr(m, s + 1, c)

(* strcpy()                                                                *)
Strcpy(m, s, t) == MemmoveUp(m, s, t, Strlen(m, t) + 1)

(* strncpy(): its second loop fills with NULs.                             *)
RECURSIVE Strncpy(_, _, _, _)
Strncpy(m, s, t, n) ==
    IF n <= 0 THEN m
    ELSE IF m[t] = 0 THEN [a \in DOMAIN m |-> IF s <= a /\ a < s + n THEN 0 ELSE m[a]]
    ELSE Strncpy([m EXCEPT ![s] = m[t]], s + 1, t + 1, n - 1)

(* Mutant of Safestrcpy: no room is kept for the NUL.                      *)
RECURSIVE SafestrcpyWhole(_, _, _, _)
SafestrcpyWhole(m, s, t, n) ==
    IF n <= 0 THEN m
    ELSE IF m[t] = 0 THEN [m EXCEPT ![s] = 0]
    ELSE SafestrcpyWhole([m EXCEPT ![s] = m[t]], s + 1, t + 1, n - 1)

(* safestrcpy(): the last byte is kept for the NUL.                        *)
RECURSIVE Safestrcpy(_, _, _, _)
Safestrcpy(m, s, t, n) ==
    IF n <= 0 THEN m
    ELSE IF n = 1 \/ m[t] = 0 THEN [m EXCEPT ![s] = 0]
    ELSE Safestrcpy([m EXCEPT ![s] = m[t]], s + 1, t + 1, n - 1)

(* atoi() of the digits ds; a character that is none is negative.          *)
RECURSIVE Atoi(_, _)
Atoi(n, ds) ==
    IF ds = << >> \/ Head(ds) < 0 THEN n ELSE Atoi(S(n * 10 + Head(ds)), Tail(ds))

(* Characters are the values of their digits; two more that are none.      *)
Dash == -1
NewLine == -2

(* gets(): the characters read() gave, up to the end of the line.          *)
RECURSIVE Gets(_, _, _)
Gets(buf, max, input) ==
    IF Len(buf) + 1 >= max \/ input = << >> THEN buf
    ELSE IF Head(input) = NewLine THEN Append(buf, NewLine)
    ELSE Gets(Append(buf, Head(input)), max, Tail(input))

-----------------------------------------------------------------------------
(* fetchint(): whether the address is taken; sz is the process's size.     *)
Fetchint(addr, sz) == ~(addr >= sz \/ U(addr + WORD) > sz)

(* argint(): the address of the n'th argument, below the return address    *)
ArgAddr(esp, n) == U(esp + WORD + WORD * n)
Argint(esp, n, sz) == Fetchint(ArgAddr(esp, n), sz)

(* fetchstr(): the length, or -1, from addr on with n bytes counted.       *)
RECURSIVE Fetchstr(_, _, _, _)
Fetchstr(m, addr, sz, n) ==
    IF addr + n >= sz THEN -1
    ELSE IF m[addr + n] = 0 THEN n ELSE Fetchstr(m, addr, sz, n + 1)

(* argptr(): its test of the pointer it fetched.                           *)
Argptr(i, size, sz) == ~(size < 0 \/ U(i) >= sz \/ U(U(i) + size) > sz)

-----------------------------------------------------------------------------
(* printint(): the digits are made from the last one and put out from the  *)
(* first one.                                                              *)
RECURSIVE Digits(_, _)
Digits(x, base) == (IF x \div base = 0 THEN << >> ELSE Digits(x \div base, base)) \o <<x % base>>
Printint(xx, base, sign) ==
    IF sign /\ xx < 0 THEN <<Dash>> \o Digits(U(-xx), base) ELSE Digits(U(xx), base)

(* What a conversion puts out: the argument it took, or itself.            *)
Num(base, k) == <<"int", base, k>>
Str(k) == <<"str", k>>
Chr(k) == <<"chr", k>>

(* cprintf() from fmt[i], with k arguments taken.                          *)
RECURSIVE Cprintf(_, _, _)
Cprintf(fmt, i, k) ==
    LET c == fmt[i + 1] IN
    IF i > Len(fmt) THEN << >>
    ELSE IF fmt[i] # "%" THEN <<fmt[i]>> \o Cprintf(fmt, i + 1, k)
    ELSE IF i = Len(fmt) THEN << >>
    ELSE CASE c = "d" -> <<Num(10, k)>> \o Cprintf(fmt, i + 2, k + 1)
           [] c \in {"x", "p"} -> <<Num(16, k)>> \o Cprintf(fmt, i + 2, k + 1)
           [] c = "s" -> <<Str(k)>> \o Cprintf(fmt, i + 2, k + 1)
           [] c = "%" -> <<"%">> \o Cprintf(fmt, i + 2, k)
           [] OTHER -> <<"%", c>> \o Cprintf(fmt, i + 2, k)

(* printf(): its state is whether the last character was the percent sign. *)
RECURSIVE Printf(_, _, _)
Printf(fmt, state, k) ==
    LET c == Head(fmt)
        Out(o, n) == o \o Printf(Tail(fmt), "", n) IN
    IF fmt = << >> THEN << >>
    ELSE IF state = "" THEN IF c = "%" THEN Printf(Tail(fmt), "%", k) ELSE Out(<<c>>, k)
    ELSE CASE c = "d" -> Out(<<Num(10, k)>>, k + 1)
           [] c \in {"x", "p"} -> Out(<<Num(16, k)>>, k + 1)
           [] c = "s" -> Out(<<Str(k)>>, k + 1)
           [] c = "c" -> Out(<<Chr(k)>>, k + 1)
           [] c = "%" -> Out(<<"%">>, k)
           [] OTHER -> Out(<<"%", c>>, k)

-----------------------------------------------------------------------------
(* The functions on memory against what their names promise, for blocks of *)
(* n bytes at d and s that may overlap and contents that may have no NUL:  *)
(* memmove() copies whatever the overlap is (that of ulib.c only towards   *)
(* lower addresses), the comparisons order strings by their first          *)
(* difference, and the bounded copies write n bytes and leave a string.    *)
MemoryAgrees(m, d, s, n) ==
    LET copied == [a \in DOMAIN m |-> IF a \in d..(d + n - 1) THEN m[s + a - d] ELSE m[a]]
        string(p) == \E a \in DOMAIN m : a >= p /\ m[a] = 0
        len(p) == Min({a - p : a \in {b \in DOMAIN m : b >= p /\ m[b] = 0}})
        text(p, k) == SubSeq([i \in 1..(k + 1) |-> IF i > k THEN 0 ELSE m[p + i - 1]], 1,
                             IF string(p) THEN Min({len(p) + 1, k + 1}) ELSE k + 1)
        less(u, v) == \E i \in 1..Min({Len(u), Len(v)}) :
                        u[i] < v[i] /\ \A j \in 1..(i - 1) : u[j] = v[j]
        apart == d + n <= s \/ s + n <= d
        cpy == Strncpy(m, d, s, n)
        safe == Safestrcpy(m, d, s, n)
    IN  /\ Memmove(m, d, s, n) = copied
        /\ d <= s \/ apart => MemmoveUp(m, d, s, n) = copied
        /\ \A c \in {0, 257} : \A a \in DOMAIN m : Memset(m, d, c, n)[a] =
             IF a \in d..(d + n - 1) THEN c % 256 ELSE m[a]
        /\ Memcmp(m, d, s, n) = 0 <=> \A i \in 0..(n - 1) : m[d + i] = m[s + i]
        /\ LET u == text(d, n)
               v == text(s, n) IN
           Sign(Strncmp(m, d, s, n)) = IF less(u, v) THEN -1 ELSE IF less(v, u) THEN 1 ELSE 0
        /\ string(d) /\ string(s) => Strcmp(m, d, s) = Strncmp(m, d, s, Cardinality(DOMAIN m))
        /\ string(s) => /\ Strlen(m, s) = len(s)
                        /\ \A c \in {1, 2} : Strchr(m, s, c) = LET at ==
                             {a \in s..(s + len(s)) : m[a] = c} IN IF at = {} THEN -1 ELSE Min(at)
        /\ \A sz \in 0..Cardinality(DOMAIN m) :
             Fetchstr(m, s, sz, 0) = IF string(s) /\ s + len(s) < sz THEN len(s) ELSE -1
        /\ apart /\ string(s) => \A i \in 0..(n - 1) :
             /\ cpy[d + i] = IF i < len(s) THEN m[s + i] ELSE 0
             /\ len(s) < n => Strcpy(m, d, s)[d + i] = IF i <= len(s) THEN m[s + i] ELSE m[d + i]
        /\ apart /\ n > 0 => /\ \E i \in 0..(n - 1) : safe[d + i] = 0
                             /\ \A a \in DOMAIN m \ d..(d + n - 1) : safe[a] = m[a] /\ cpy[a] = m[a]

(* What the system calls take as an argument lies inside the process,      *)
(* whatever the address is, although addresses and sizes wrap: sz is at    *)
(* most KERNBASE, half of the address space.                               *)
ArgumentsInside(addr, size, sz) ==
    /\ Fetchint(addr, sz) <=> addr + WORD <= sz
    /\ \A k \in 0..2 : Argint(addr, k, sz) => ArgAddr(addr, k) + WORD <= sz
    /\ Argptr(S(addr), S(size), sz) <=> S(size) >= 0 /\ addr < sz /\ addr + S(size) <= sz

(* Numbers come out as they are, the smallest one included, in at most     *)
(* sixteen characters; and gets() leaves room for the NUL.                 *)
NumbersAgree(x, base) ==
    LET ds == Digits(U(IF x < 0 THEN -x ELSE x), base) IN
    /\ FoldLeft(LAMBDA n, c : n * base + c, 0, ds) = (IF x < 0 THEN -x ELSE x)
    /\ Len(ds) > 1 => ds[1] # 0
    /\ Printint(x, base, TRUE) = (IF x < 0 THEN <<Dash>> ELSE << >>) \o ds
    /\ \A max \in 1..3 : Len(Gets(<< >>, max, Printint(x, base, TRUE) \o <<NewLine>>)) < max
    /\ base = 10 /\ x >= 0 => Atoi(0, ds \o <<Dash, 1>>) = x

(* The two printf()s put out the same for a format both know, and take as  *)
(* many arguments.                                                         *)
FormatsAgree(fmt) ==
    (\A i \in 1..(Len(fmt) - 1) : fmt[i] = "%" => fmt[i + 1] # "c") =>
        Cprintf(fmt, 1, 1) = Printf(fmt, "", 1)
=============================================================================

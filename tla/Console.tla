-------------------------------- MODULE Console -----------------------------
(***************************************************************************)
(* The console: the keyboard (kbd.c) and the serial line (uart.c), the     *)
(* line editor and its ring, and the processes that read (console.c).      *)
(*                                                                         *)
(* consoleintr() runs once for each character, in one step under           *)
(* cons.lock; so does each part of consoleread() between two moments when  *)
(* the lock is free or another processor can change what it has read       *)
(* (kill() does not take cons.lock).  The indices r, w and e are counted   *)
(* modulo WORD, which INPUT_BUF divides, as it divides 2^32.               *)
(***************************************************************************)
EXTENDS Integers, Sequences, FiniteSetsExt

CONSTANTS
    Readers,            \* processes that read the console
    Letters,            \* letter keys, each with its three characters
    Modifiers,          \* among "ctl", "rightctl", "shift", "rightshift"
    Serial,             \* characters that come over the serial line
    Sizes,              \* sizes of read()
    INPUT_BUF, WORD,
    COLS, ROWS          \* 80 and 24

NL == "\n"
EOT == "^D"
KILL == "^U"
BACKSPACE == "^H"
Chars == (UNION {{k.normal, k.shift, k.ctl} : k \in Letters}) \cup Serial \cup {NL}

ConsoleAssumption ==
    /\ {INPUT_BUF, WORD, COLS, ROWS} \subseteq Nat \ {0} /\ Sizes \subseteq Nat \ {0}
    /\ WORD > INPUT_BUF /\ WORD % INPUT_BUF = 0

VARIABLES
    shift,              \* kbdgetc()'s idea of the modifiers
    held,               \* the modifier keys that are down
    both,               \* history: the kinds of which two keys have been down
    buf, r, w, e,       \* input
    pos,                \* the cursor
    pc, n, target,      \* consoleread() of each reader
    killed

consoleVars == <<shift, held, both, buf, r, w, e, pos, pc, n, target, killed>>
ring == <<buf, r, w, e>>
readers == <<pc, n, target, killed>>

ConsoleInit ==
    /\ shift = {} /\ held = {} /\ both = {}
    /\ buf = [i \in 0..(INPUT_BUF - 1) |-> NL] /\ r = 0 /\ w = 0 /\ e = 0
    /\ pos = 0
    /\ pc = [p \in Readers |-> "idle"]
    /\ n = [p \in Readers |-> 0] /\ target = [p \in Readers |-> 0]
    /\ killed = [p \in Readers |-> FALSE]

-----------------------------------------------------------------------------
Minus(a, b) == (a - b) % WORD
At(i) == buf[i % INPUT_BUF]

(* cgaputc(): the screen moves up.                                         *)
Scrolled(q) == IF q \div COLS >= ROWS THEN q - COLS ELSE q

(* consputc(), cgaputc(): where the cursor goes after a character ...      *)
Consputc(q, c) == Scrolled(IF c = NL THEN q + COLS - (q % COLS) ELSE q + 1)

(* ... and after consputc(BACKSPACE), count times.                         *)
Backspaces(q, count) == IF q > count THEN q - count ELSE 0

(* wakeup(&input.r)                                                        *)
Woken == [p \in Readers |-> IF pc[p] = "asleep" THEN "loop" ELSE pc[p]]

(* The lock is free: no reader is between its test and its sleep.          *)
LockFree == \A p \in Readers : pc[p] # "tested"

(* Mutant of Finishes: a full ring is not handed over.                     *)
FinishesLine(c) == c \in {NL, EOT}

(* consoleintr(): the character finishes the line.                         *)
Finishes(c) == c \in {NL, EOT} \/ (e + 1) % WORD = (r + INPUT_BUF) % WORD

(* consoleintr(): a character that is not an editing key.                  *)
Ordinary(c) ==
    IF c = "NO" \/ Minus(e, r) >= INPUT_BUF THEN UNCHANGED <<ring, pos, pc>>
    ELSE /\ buf' = [buf EXCEPT ![e % INPUT_BUF] = c]
         /\ e' = (e + 1) % WORD
         /\ pos' = Consputc(pos, c)
         /\ IF Finishes(c) THEN w' = e' /\ pc' = Woken ELSE UNCHANGED <<w, pc>>
         /\ UNCHANGED r

(* consoleintr(): the characters ^U and ^H erase, with their echo.         *)
Erase(count) ==
    /\ e' = Minus(e, count)
    /\ pos' = Backspaces(pos, count)
    /\ UNCHANGED <<buf, r, w, pc>>

(* consoleintr(): ^U erases back to a NL or to w.                          *)
ToErase ==
    LET stops(k) == k = Minus(e, w) \/ At(Minus(e, k + 1)) = NL
    IN  Min({k \in 0..Minus(e, w) : stops(k)})

Consoleintr(c) ==
    /\ LockFree
    /\ CASE c = KILL -> Erase(ToErase)
         [] c = BACKSPACE -> Erase(IF e # w THEN 1 ELSE 0)
         [] OTHER -> Ordinary(c)
    /\ UNCHANGED <<n, target, killed>>

-----------------------------------------------------------------------------
(* kbd.h: the bit of a modifier in shiftcode; whether it sends 0xE0 first.  *)
Bit(k) == IF k \in {"shift", "rightshift"} THEN "SHIFT" ELSE "CTL"
Escaped(k) == k = "rightctl"

(* kbdgetc(): 0xE0.                                                        *)
KeyEscape(k) ==
    /\ LockFree /\ Escaped(k) /\ "E0ESC" \notin shift
    /\ shift' = shift \cup {"E0ESC"}
    /\ UNCHANGED <<held, both, ring, pos, readers>>

(* Mutant of Codes: the release of the right control key is looked up      *)
(* among the keys without 0xE0.                                            *)
CodesPlain(k) == IF Escaped(k) THEN {} ELSE {Bit(k)}

(* kbdgetc(): the bits shiftcode has for the code of a key that is         *)
(* released; bit 7 of the code is kept if 0xE0 came before.                *)
Codes(k) == {Bit(k)}

(* kbdgetc(): a modifier is pressed, or the keyboard repeats it, or it is  *)
(* released.  There is one bit for the two keys of a kind.                 *)
Others(k) == {j \in held \ {k} : Bit(j) = Bit(k)}
Modifier(k) ==
    /\ LockFree /\ (Escaped(k) <=> "E0ESC" \in shift)
    /\ \/ /\ held' = held \cup {k}
          /\ shift' = (shift \ {"E0ESC"}) \cup {Bit(k)}
          /\ both' = IF Others(k) = {} THEN both ELSE both \cup {Bit(k)}
       \/ /\ k \in held /\ held' = held \ {k}
          /\ shift' = shift \ (Codes(k) \cup {"E0ESC"})
          /\ both' = IF Others(k) = {} THEN both \ {Bit(k)} ELSE both
    /\ UNCHANGED <<ring, pos, readers>>

CapsLock ==
    /\ LockFree /\ "E0ESC" \notin shift
    /\ shift' = IF "CAPSLOCK" \in shift THEN shift \ {"CAPSLOCK"}
                ELSE shift \cup {"CAPSLOCK"}
    /\ UNCHANGED <<held, both, ring, pos, readers>>

(* kbdgetc(): the character of a letter key.                               *)
CharOf(k) ==
    IF "CTL" \in shift THEN k.ctl
    ELSE IF ("SHIFT" \in shift) # ("CAPSLOCK" \in shift) THEN k.shift ELSE k.normal

(* kbdintr(), uartintr()                                                   *)
Kbdintr(k) ==
    /\ "E0ESC" \notin shift
    /\ Consoleintr(CharOf(k))
    /\ UNCHANGED <<shift, held, both>>
Enter == "E0ESC" \notin shift /\ Consoleintr(NL) /\ UNCHANGED <<shift, held, both>>
Uartintr(c) == Consoleintr(c) /\ UNCHANGED <<shift, held, both>>

-----------------------------------------------------------------------------
(* consoleread() is called: it gives up the lock of the inode.             *)
Call(p, size) ==
    /\ pc[p] = "idle" /\ ~killed[p]
    /\ pc' = [pc EXCEPT ![p] = "loop"]
    /\ n' = [n EXCEPT ![p] = size]
    /\ target' = [target EXCEPT ![p] = size]
    /\ UNCHANGED <<shift, held, both, ring, pos, killed>>

(* Mutant of Taken: ^D is used up by the read() that it ends.              *)
TakenEof(p) ==
    LET stops(k) == \/ k = n[p] \/ k = Minus(w, r)
                    \/ (k > 0 /\ At(r + k - 1) \in {NL, EOT})
    IN  Min({k \in 0..INPUT_BUF : stops(k)})

(* The characters a pass of consoleread() takes: up to n, to the end of    *)
(* what is there, with a NL, before a ^D unless it is the first.           *)
Taken(p) ==
    LET stops(k) == \/ k = n[p] \/ k = Minus(w, r)
                    \/ (k > 0 /\ At(r + k - 1) \in {NL, EOT})
                    \/ (At(r + k) = EOT /\ (k > 0 \/ n[p] < target[p]))
    IN  Min({k \in 0..INPUT_BUF : stops(k)})

(* consoleread(): it copies what there is, and returns or has to wait.     *)
Consoleread(p) ==
    LET k == Taken(p)
        over == \/ k = n[p] \/ (k > 0 /\ At(r + k - 1) \in {NL, EOT})
                \/ k < Minus(w, r) IN
    /\ LockFree /\ pc[p] = "loop" /\ r # w
    /\ r' = (r + k) % WORD
    /\ n' = [n EXCEPT ![p] = @ - k]
    /\ pc' = [pc EXCEPT ![p] = IF over THEN "idle" ELSE "loop"]
    /\ UNCHANGED <<shift, held, both, buf, w, e, pos, target, killed>>

(* consoleread(): nothing to read.  The test of killed ...                 *)
Test(p) ==
    /\ LockFree /\ pc[p] = "loop" /\ r = w
    /\ pc' = [pc EXCEPT ![p] = IF killed[p] THEN "idle" ELSE "tested"]
    /\ UNCHANGED <<shift, held, both, ring, pos, n, target, killed>>

(* ... and sleep(&input.r, &cons.lock).                                    *)
Sleep(p) ==
    /\ pc[p] = "tested"
    /\ pc' = [pc EXCEPT ![p] = "asleep"]
    /\ UNCHANGED <<shift, held, both, ring, pos, n, target, killed>>

(* kill()                                                                  *)
Kill(p) ==
    /\ pc[p] # "idle" /\ ~killed[p]
    /\ killed' = [killed EXCEPT ![p] = TRUE]
    /\ pc' = [pc EXCEPT ![p] = IF @ = "asleep" THEN "loop" ELSE @]
    /\ UNCHANGED <<shift, held, both, ring, pos, n, target>>

(* The process that was killed exits, another one takes its place.         *)
Replace(p) ==
    /\ pc[p] = "idle" /\ killed[p]
    /\ killed' = [killed EXCEPT ![p] = FALSE]
    /\ UNCHANGED <<shift, held, both, ring, pos, pc, n, target>>

Step(p) == Consoleread(p) \/ Test(p) \/ Sleep(p)

ConsoleNext ==
    \/ \E k \in Letters : Kbdintr(k)
    \/ \E k \in Modifiers : KeyEscape(k) \/ Modifier(k)
    \/ CapsLock \/ Enter
    \/ \E c \in Serial : Uartintr(c)
    \/ \E p \in Readers :
        \/ \E size \in Sizes : Call(p, size)
        \/ Step(p) \/ Kill(p) \/ Replace(p)

ConsoleSpec == ConsoleInit /\ [][ConsoleNext]_consoleVars

-----------------------------------------------------------------------------
Stored(from, to) == [i \in 1..Minus(to, from) |-> At(from + i - 1)]

T == INSTANCE Terminal WITH line <- Stored(w, e), ready <- Stored(r, w),
                            Capacity <- INPUT_BUF

(* The ring is a terminal: with r, w and e going round, a full ring, lines *)
(* that are edited while others are being read by several processes, and   *)
(* the ^D that is put back, no character is lost, doubled or reordered,    *)
(* and no read() goes past the end of a line.                              *)
LineDiscipline == T!TSpec

(* A reader does not sleep through its input, and a ring with no room for  *)
(* another character is not waiting for one.                               *)
NoMissedInput ==
    /\ \A p \in Readers : pc[p] = "asleep" => r = w
    /\ Minus(e, r) = INPUT_BUF => w = e

(* No modifier sticks, whatever order the keys are pressed and released    *)
(* in: a bit that is set is that of a key that is down.  And a key that is *)
(* down has its bit, unless two of its kind have been down together since  *)
(* none was: the first of them to be released takes the bit with it.  The  *)
(* cursor stays on the screen, which cgaputc() panics about.               *)
ModifiersFollowKeys ==
    /\ \A b \in {"CTL", "SHIFT"} :
         /\ b \in shift => \E k \in held : Bit(k) = b
         /\ b \notin both => (b \in shift <=> \E k \in held : Bit(k) = b)
    /\ pos \in 0..(ROWS * COLS - 1)
=============================================================================

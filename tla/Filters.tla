------------------------------- MODULE Filters ------------------------------
(***************************************************************************)
(* The programs that read a file piece by piece: grep.c with its matcher,  *)
(* wc.c and cat.c.  A line, a text and a pattern are sequences of          *)
(* characters; the input is what read() returns, one piece after the       *)
(* other.                                                                  *)
(***************************************************************************)
EXTENDS Integers, FiniteSetsExt, SequencesExt

CONSTANTS BUF           \* bytes of the buffer of grep

FiltersAssumption == BUF \in Nat /\ BUF > 1

-----------------------------------------------------------------------------
(* matchhere(), and matchstar() for the character c.                       *)
RECURSIVE Matchhere(_, _), Matchstar(_, _, _)
Matchhere(re, text) ==
    IF re = << >> THEN TRUE
    ELSE IF Len(re) > 1 /\ re[2] = "*" THEN Matchstar(re[1], SubSeq(re, 3, Len(re)), text)
    ELSE IF re = <<"$">> THEN text = << >>
    ELSE /\ text # << >> /\ re[1] \in {".", text[1]}
         /\ Matchhere(Tail(re), Tail(text))

(* matchstar()                                                             *)
Matchstar(c, re, text) ==
    \/ Matchhere(re, text)
    \/ /\ text # << >> /\ c \in {".", text[1]}
       /\ Matchstar(c, re, Tail(text))

(* match(): the empty text is looked at, too.                              *)
Match(re, text) ==
    IF re # << >> /\ re[1] = "^" THEN Matchhere(Tail(re), text)
    ELSE \E i \in 1..(Len(text) + 1) : Matchhere(re, SubSeq(text, i, Len(text)))

(* strchr(p, newline): the position after it, 0 when there is none.        *)
AfterLine(p) ==
    LET nl == {i \in DOMAIN p : p[i] = "nl"} IN IF nl = {} THEN 0 ELSE Min(nl) + 1

(* grep(): the loop over the lines in the buffer, what is left and printed *)
RECURSIVE Lines(_, _, _)
Lines(pattern, p, out) ==
    LET q == AfterLine(p)
        line == SubSeq(p, 1, q - 2) IN
    IF q = 0 THEN [p |-> p, out |-> out]
    ELSE Lines(pattern, SubSeq(p, q, Len(p)),
               IF Match(pattern, line) THEN Append(out, line) ELSE out)

(* grep(): read() fills the rest of the buffer.  A buffer without the end  *)
(* of a line is thrown away; when no room is left, read() returns 0.       *)
RECURSIVE Grep(_, _, _, _)
Grep(pattern, buf, input, out) ==
    LET room == BUF - Len(buf) - 1
        piece == Head(input)
        n == Min({room, Len(piece)})
        rest == IF n < Len(piece) THEN <<SubSeq(piece, n + 1, Len(piece))>> \o Tail(input)
                ELSE Tail(input)
        all == buf \o SubSeq(piece, 1, n)
        l == Lines(pattern, all, out) IN
    IF input = << >> \/ room = 0 THEN out
    ELSE Grep(pattern, IF l.p = all THEN << >> ELSE l.p, rest, l.out)

-----------------------------------------------------------------------------
Blank(c) == c \in {" ", "nl"}

(* wc(): what it counts in one piece.                                      *)
WcPiece(st, piece) ==
    FoldLeft(LAMBDA r, c :
        [l |-> r.l + (IF c = "nl" THEN 1 ELSE 0), c |-> r.c + 1,
         w |-> r.w + (IF ~Blank(c) /\ ~r.inword THEN 1 ELSE 0), inword |-> ~Blank(c)],
        st, piece)
Wc(input) == FoldLeft(WcPiece, [l |-> 0, w |-> 0, c |-> 0, inword |-> FALSE], input)

-----------------------------------------------------------------------------
(* A pattern as a sequence of items: a character, and whether it is        *)
(* repeated.  The reference for the matcher cuts the text at all places.   *)
RECURSIVE Items(_)
Items(re) ==
    IF re = << >> THEN << >>
    ELSE IF Len(re) > 1 /\ re[2] = "*" THEN <<<<re[1], TRUE>>>> \o Items(SubSeq(re, 3, Len(re)))
    ELSE <<<<re[1], FALSE>>>> \o Items(Tail(re))

Matches(re, text) ==
    LET anchored == re # << >> /\ re[1] = "^"
        items == Items(IF anchored THEN Tail(re) ELSE re)
        k == Len(items)
        ends == k > 0 /\ items[k] = <<"$", FALSE>>
        last == IF ends THEN k - 1 ELSE k IN
    \E cut \in [0..last -> 0..Len(text)] :
        /\ anchored => cut[0] = 0
        /\ ends => cut[last] = Len(text)
        /\ \A i \in 1..last :
             /\ cut[i] >= cut[i - 1]
             /\ ~items[i][2] => cut[i] = cut[i - 1] + 1
             /\ \A j \in (cut[i - 1] + 1)..cut[i] : items[i][1] \in {".", text[j]}

(* The matcher finds what the pattern means.                               *)
MatchAgrees(re, text) == Match(re, text) <=> Matches(re, text)

(* The lines of a text, the last without its end.                          *)
LinesOf(text) ==
    LET ends == {i \in DOMAIN text : text[i] = "nl"} IN
    [k \in 1..Cardinality(ends) |->
        LET e == CHOOSE i \in ends : Cardinality({j \in ends : j <= i}) = k
            b == Max({0} \cup {j \in ends : j < e}) IN
        SubSeq(text, b + 1, e - 1)]

(* However the input is cut into pieces, wc counts the same; and grep      *)
(* prints the lines that match when every piece holds the end of a line    *)
(* and no two pieces exceed the buffer, and never more lines than end.     *)
PiecesAgree(pattern, input) ==
    LET text == FlattenSeq(input)
        starts == {i \in DOMAIN text : ~Blank(text[i]) /\ (i = 1 \/ Blank(text[i - 1]))}
        whole == /\ \A i \in DOMAIN input : "nl" \in Range(input[i])
                 /\ \A i \in 1..(Len(input) - 1) : Len(input[i]) + Len(input[i + 1]) < BUF
                 /\ \A i \in DOMAIN input : Len(input[i]) < BUF
        grep == Grep(pattern, << >>, input, << >>) IN
    /\ Wc(input).c = Len(text) /\ Wc(input).l = Len(LinesOf(text))
    /\ Wc(input).w = Cardinality(starts)
    /\ whole => grep = SelectSeq(LinesOf(text), LAMBDA line : Matches(pattern, line))
    /\ Len(grep) <= Len(LinesOf(text))
    /\ \A i \in DOMAIN grep : Match(pattern, grep[i])
=============================================================================

------------------------------- MODULE Terminal -----------------------------
(* What the console promises its readers: a line can be edited until it is *)
(* finished; finished lines are read in order, each once, and one read()   *)
(* takes no more than a line; ^D ends the input of one read().             *)
EXTENDS Naturals, Sequences, SequencesExt

CONSTANTS Chars, NL, EOT, Capacity

VARIABLES line, ready

TInit == line = << >> /\ ready = << >>

Type(c) == c \notin {NL, EOT} /\ line' = Append(line, c) /\ UNCHANGED ready

(* NL, EOT, or the last character there is room for.                       *)
Finish(c) ==
    /\ c \in {NL, EOT} \/ Len(ready) + Len(line) + 1 = Capacity
    /\ ready' = ready \o Append(line, c)
    /\ line' = << >>

Erase == line # << >> /\ line' = Front(line) /\ UNCHANGED ready
KillLine == line' = << >> /\ UNCHANGED ready

(* k characters are read: none follows a NL, and EOT only comes alone.     *)
Take(k) ==
    /\ k <= Len(ready)
    /\ \A i \in 1..k : (ready[i] = NL => i = k) /\ (ready[i] = EOT => k = 1)
    /\ ready' = SubSeq(ready, k + 1, Len(ready))
    /\ UNCHANGED line

TNext ==
    \/ \E c \in Chars : Type(c) \/ Finish(c)
    \/ Erase \/ KillLine
    \/ \E k \in 1..Capacity : Take(k)

TSpec == TInit /\ [][TNext]_<<line, ready>>
=============================================================================

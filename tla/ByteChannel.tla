---------------------------- MODULE ByteChannel ----------------------------
(***************************************************************************)
(* What a pipe promises: a bounded first-in first-out queue of bytes.      *)
(***************************************************************************)
EXTENDS Naturals, Sequences

CONSTANTS Bytes, PIPESIZE

VARIABLES queue,   \* bytes written and not yet read
          got      \* the byte read last

vars == <<queue, got>>

Init == queue = << >> /\ got \in Bytes

Put(b) == /\ Len(queue) < PIPESIZE
          /\ queue' = Append(queue, b)
          /\ UNCHANGED got

Get == /\ queue # << >>
       /\ got' = Head(queue)
       /\ queue' = Tail(queue)

Next == Get \/ \E b \in Bytes : Put(b)

Spec == Init /\ [][Next]_vars
=============================================================================

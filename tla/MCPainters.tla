---------------------------- MODULE MCPainters -----------------------------
(* A canvas of a few pixels; the artists start in its corners.             *)
EXTENDS Painters, TLC

CONSTANTS a1, a2

TwoArtists == {a1, a2}
Corners == [a \in Artists |-> IF a = a1 THEN <<0, 0>>
                              ELSE <<CANVAS_WIDTH - 1, CANVAS_HEIGHT - 1>>]
=============================================================================

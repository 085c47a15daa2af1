------------------------------- MODULE MCPipe ------------------------------
(* Model values and bounds for Pipe.                                       *)
EXTENDS Pipe, TLC

CONSTANTS r1, w1, w2, x, y

OneReader == {r1}
TwoWriters == {w1, w2}
TwoBytes == {x, y}
OneByte == {x}

ASSUME ParametersAssumption == ProcAssumption /\ SizeAssumption
=============================================================================

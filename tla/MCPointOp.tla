------------------------------- MODULE MCPointOp -------------------------------
(* Instances of PointOp for TLC. *)
EXTENDS PointOp

OneHigh == {2}
TwoFreqs == {1, 2}
OnePower == {1}
LevelAndScale == {"rl", "scale"}
StartLow == [f |-> 1, p |-> 1]
=============================================================================

-------------------------------- MODULE MCBench --------------------------------
(***************************************************************************)
(* Small instances of Bench.  With three tabs they are Full Bench, Range   *)
(* and Point Op; with two, the second does what either of the others does. *)
(***************************************************************************)
EXTENDS Bench

Second == {2}
=============================================================================

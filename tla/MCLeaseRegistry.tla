--------------------------- MODULE MCLeaseRegistry ---------------------------
(***************************************************************************)
(* A small instance of LeaseRegistry: the source (pad 5) and the analyzer  *)
(* (pad 18) of the bench, three sessions.                                  *)
(***************************************************************************)
EXTENDS LeaseRegistry

CONSTANTS s1, s2, s3

ThreeSessions == {s1, s2, s3}
BenchPads == {5, 18}
ShortAndNegative == {-1, 2}
=============================================================================

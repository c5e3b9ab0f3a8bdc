---------------------------- MODULE MCControlLease ----------------------------
(***************************************************************************)
(* Small instances of ControlLease: two clients contending for one pad.    *)
(***************************************************************************)
EXTENDS ControlLease, TLC

CONSTANTS a, b

OneClient == {a}
TwoClients == {a, b}
Symmetry == Permutations(TwoClients)
=============================================================================

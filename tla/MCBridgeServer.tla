---------------------------- MODULE MCBridgeServer ----------------------------
(***************************************************************************)
(* A small instance of BridgeServer: two sessions at the source (pad 5,    *)
(* which has a safe-state command), or at the bus.                         *)
(***************************************************************************)
EXTENDS BridgeServer

CONSTANTS s1, s2

TwoSessions == {s1, s2}
SourceOnly == {5}
AllOps == {"writeOn", "writeOff", "query"}
BusOrSource == {Bus, 5}
=============================================================================

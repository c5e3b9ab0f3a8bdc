--------------------------- MODULE MCInstrumentLink ---------------------------
(***************************************************************************)
(* Small instances of InstrumentLink: which links recover by replugs, and  *)
(* what discovery can find.                                                *)
(***************************************************************************)
EXTENDS InstrumentLink

SourceLink == {"tx"}
MatchOrAbsent == {"match", "absent"}
=============================================================================

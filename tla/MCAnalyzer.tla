------------------------------ MODULE MCAnalyzer ------------------------------
(***************************************************************************)
(* Small instances of Analyzer: a point below the preselector crossover    *)
(* and one above it.                                                       *)
(***************************************************************************)
EXTENDS Analyzer

Second == {2}
Every == {"reference", "wall", "drift", "check", "chain", "sweep", "tracked",
          "localize", "walk", "screen", "cavity", "validate", "panel"}
=============================================================================

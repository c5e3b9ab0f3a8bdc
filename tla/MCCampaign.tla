------------------------------ MODULE MCCampaign ------------------------------
(***************************************************************************)
(* Small instances of Campaign: three points, two of them behind the       *)
(* preselector, a ladder of two rungs, and a shield that holds, one that   *)
(* leaks, and a path too weak to tell.                                     *)
(***************************************************************************)
EXTENDS Campaign

BehindPreselector == {2, 3}
Ladder == <<3, 2>>
Holds == [path |-> <<12, 11, 12>>, leak |-> <<2, 1, 1>>]
Leaks == [path |-> <<12, 12, 12>>, leak |-> <<1, 6, 1>>]
WeakPath == [path |-> <<12, 12, 4>>, leak |-> <<1, 1, 1>>]
Shields == {Holds, Leaks, WeakPath}
Both == {"campaign", "walk"}
Everything == {"freeze", "ambient", "fail", "hang", "rival"}
Nothing == {}
=============================================================================

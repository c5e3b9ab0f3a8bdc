----------------------------- MODULE MCObservers -----------------------------
(***************************************************************************)
(* Small instances of Observers: a dashboard with the background reader    *)
(* and the dashboard command, one wall point, two operators at the source  *)
(* and the analyzer, two clients of the backend.                           *)
(***************************************************************************)
EXTENDS Observers

CONSTANTS dashboard, command, c1, c2

TwoDashboards == {dashboard, command}
TheCommand == {command}
TwoClients == {c1, c2}
BenchPads == {5, 18}
=============================================================================

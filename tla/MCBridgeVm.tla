------------------------------ MODULE MCBridgeVm ------------------------------
(***************************************************************************)
(* Small instances of BridgeVm: either deployment.                        *)
(***************************************************************************)
EXTENDS BridgeVm

YesOrNo == {"yes", "no"}
EitherMode == {"golden", "singleton"}
=============================================================================

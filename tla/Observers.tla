------------------------------ MODULE Observers ------------------------------
(***************************************************************************)
(* The three ways to look at a bench without controlling it: telemetry,    *)
(* the devices command, and the replies of the GPIB backend that both      *)
(* controllers and observers go by.                                        *)
(*                                                                         *)
(* The three share no variable and no property speaks of two of them, so   *)
(* running them one at a time loses nothing that their product would show. *)
(***************************************************************************)
EXTENDS Telemetry, SessionTable, GpibBackend

VARIABLE watched   \* "telemetry", "devices" or "backend"

wvars == <<watched, tvars, svars, gvars>>

WatchInit ==
  /\ watched \in {"telemetry", "devices", "backend"}
  /\ TelemetryInit /\ SessionInit /\ BackendInit
  /\ watched # "backend" => build = "full"

OfTelemetry(A) == watched = "telemetry" /\ A /\ UNCHANGED <<watched, svars, gvars>>

WatchNext ==
  \/ OfTelemetry(TelemetryNext)
  \/ watched = "devices" /\ SessionNext /\ UNCHANGED <<watched, tvars, gvars>>
  \/ watched = "backend" /\ BackendNext /\ UNCHANGED <<watched, tvars, svars>>

\* Threads get on when they can: the hub's accept loop, the campaign that
\* publishes and comes to an end, and the observers that read.  Nobody has to
\* connect or to fail, and an idle window need not pass.
WatchFairness ==
  /\ WF_wvars(OfTelemetry(Publish \/ CampaignEnds))
  /\ WF_wvars(OfTelemetry(SetStop))
  /\ WF_wvars(OfTelemetry(CloseAll))
  /\ \A o \in Observer :
       /\ WF_wvars(OfTelemetry(AcceptOne(o)))
       /\ WF_wvars(OfTelemetry(Join(o)))
       /\ WF_wvars(OfTelemetry(Fan(o)))
       /\ WF_wvars(OfTelemetry(Listen(o)))

WatchSpec == WatchInit /\ [][WatchNext]_wvars
FairSpec == WatchSpec /\ WatchFairness
=============================================================================

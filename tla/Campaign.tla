------------------------------- MODULE Campaign -------------------------------
(***************************************************************************)
(* A shielding campaign: the operator's window (se_gui.SELiveGUI), the     *)
(* worker thread that runs Coordinator.run_campaign or walkaround over the *)
(* passes of loop.py, the two leases with the heartbeat that lets them     *)
(* lapse, and the bench: what reaches the analyzer through an empty frame  *)
(* and through the shield.                                                 *)
(*                                                                         *)
(* A point is measured in two steps, with the source off and on, and the   *)
(* next operation on the bus starts a step, so what can happen between two *)
(* reads does: the analyzer freezes, an outside signal rises, an operation *)
(* fails or never returns, the operator stops.  Levels are in 10 dB.       *)
(***************************************************************************)
EXTENDS Integers, Sequences

CONSTANTS
  N,             \* points of the plan
  High,          \* the points above 2.9 GHz, behind the preselector
  Setups,        \* [path, leak]: level at the analyzer per point, without and with the shield
  Noise,         \* noise floor on each rung of the RBW ladder, widest first
  Target, Margin, Guard,
  HealthEvery,   \* run_campaign(health_every=)
  Jobs,          \* what the operator runs: "campaign", "walk"
  Ambient,       \* the level an outside signal rises to
  Happens,       \* what goes wrong: "freeze", "ambient", "fail", "hang", "rival"
  Unbracketed,   \* bound: points whose trailing read may fail
  MaxRuns        \* bound: runs the operator starts

Point == 1..N
Rung == 1..Len(Noise)
NoDac == 0       \* the DAC that peaks point i is i

ASSUME CampaignAssumption ==
  /\ N \in Nat \ {0} /\ High \subseteq Point
  /\ Setups \subseteq [path : [Point -> Nat], leak : [Point -> Nat]]
  /\ Noise \in Seq(Nat) /\ Len(Noise) > 0
  /\ {Target, Margin, Guard, Ambient, HealthEvery} \subseteq Nat
  /\ Jobs \subseteq {"campaign", "walk"}
  /\ Happens \subseteq {"freeze", "ambient", "fail", "hang", "rival"}
  /\ Unbracketed \subseteq Point /\ MaxRuns \in Nat

VARIABLES
  \* the operator's window
  gui,       \* the main thread: "free", or "stopping" between the two sets of _on_stop
  flags,     \* _stop and _shield_ok when set: "stop", "shieldOk"
  button,    \* btn_shield: "on", "off"
  prompts,   \* "shield_prompt" events the main thread has not drained
  \* the worker
  pc, pt, runs, floor, rung, ref, wall,
  outcome,   \* of the run: "none", "aborted", "error", "path_fault", "pass", "fail"
  \* control and hardware
  lease,     \* per instrument, as the bridge has it: "free", "mine", "rival"
  beat,      \* _last_beat: "none", "fresh", "stale"
  hung,      \* "yes" while an operation of the worker does not return
  rf, dac,
  deaf,      \* "yes" once the source's link or session is gone and switching off fails
  sweep, last, air, shield, setup

window == <<gui, flags, button, prompts>>
rows == <<floor, rung, ref, wall>>
control == <<lease, beat, hung>>
world == <<deaf, sweep, air, shield, setup>>
vars == <<window, pc, pt, runs, rows, outcome, control, rf, dac, last, world>>

Inst == {"rx", "tx"}
Bus == {"gate", "gateOn", "ref", "refOn", "wall", "wallOn", "walk"}   \* at an operation on the bus
InControl == Bus \cup {"prompt", "park", "release", "unlease"}

NoRow == [seen |-> "no"]
Row == [seen : {"yes"}, level : Nat, floor : Nat, cap : Int, rung : Rung,
        dac : 0..N, reversible : {"yes", "no", "assumed"}]
WallRow == [seen : {"yes"}, floor : Nat, limited : {"yes", "no"}, reported : Int,
            verdict : {"PASS", "FAIL", "INCONCLUSIVE"}]

TypeOK ==
  /\ gui \in {"free", "stopping"} /\ flags \subseteq {"stop", "shieldOk"}
  /\ button \in {"on", "off"} /\ prompts \in 0..MaxRuns
  /\ pc \in InControl \cup {"idle", "ready", "leaseRx", "leaseTx", "report"}
  /\ pt \in Point /\ runs \in 0..MaxRuns /\ rung \in Rung /\ floor \in Nat
  /\ ref \in [Point -> Row \cup {NoRow}] /\ wall \in [Point -> WallRow \cup {NoRow}]
  /\ outcome \in {"none", "aborted", "error", "path_fault", "pass", "fail", "done"}
  /\ lease \in [Inst -> {"free", "mine", "rival"}]
  /\ beat \in {"none", "fresh", "stale"} /\ hung \in {"yes", "no"}
  /\ rf \in {"on", "off"} /\ dac \in 0..N /\ deaf \in {"yes", "no"}
  /\ sweep \in {"live", "frozen"} /\ shield \in {"in", "out"}
  /\ last \in Nat /\ air \in {0, Ambient} /\ setup \in Setups

Init ==
  /\ gui = "free" /\ flags = {} /\ button = "off" /\ prompts = 0
  /\ pc = "idle" /\ pt = 1 /\ runs = 0 /\ floor = 0 /\ rung = 1 /\ outcome = "none"
  /\ ref = [i \in Point |-> NoRow] /\ wall = [i \in Point |-> NoRow]
  /\ lease = [i \in Inst |-> "free"] /\ beat = "none" /\ hung = "no"
  /\ rf = "off" /\ dac = NoDac /\ deaf = "no"
  /\ sweep = "live" /\ last = 0 /\ air = 0 /\ shield = "out" /\ setup \in Setups

-----------------------------------------------------------------------------
(* What the analyzer reads *)

Larger(a, b) == IF a > b THEN a ELSE b
Quiet(r) == Larger(Noise[r], air)
Tone(i) == IF shield = "in" THEN setup.leak[i] ELSE setup.path[i]

\* A read of point i on rung r with the preselector at d; a frozen trace repeats
\* the last level.
Reads(i, r, d, keyed) ==
  IF sweep = "frozen" THEN last
  ELSE IF keyed /\ (i \in High => d = i) THEN Larger(Quiet(r), Tone(i)) ELSE Quiet(r)

\* peak_preselector on the tone of point i leaves the DAC alone when there is
\* nothing to peak, and keeps none when the tone does not clear the floor.
Peaked(i) ==
  IF i \in High /\ sweep = "live" /\ Tone(i) >= Quiet(1) + Guard THEN i ELSE NoDac

\* _require_healthy_analyzer
Healthy == sweep = "live"

-----------------------------------------------------------------------------
(* Taking control: ensure_ready, take_control *)

Ends(how) == pc' = "release" /\ outcome' = how
Quits == pc' = "report" /\ outcome' = "error"

\* A link that is not ready or a frozen analyzer ends the run before any lease.
Ready ==
  /\ pc = "ready"
  /\ \/ Healthy /\ pc' = "leaseRx" /\ UNCHANGED outcome
     \/ (~Healthy \/ "fail" \in Happens) /\ Quits
  /\ UNCHANGED <<window, pt, runs, rows, control, rf, dac, last, world>>

LeaseRx ==
  /\ pc = "leaseRx"
  /\ IF lease["rx"] = "rival"
     THEN Quits /\ UNCHANGED lease
     ELSE /\ lease' = [lease EXCEPT !["rx"] = "mine"]
          /\ pc' = "leaseTx" /\ UNCHANGED outcome
  /\ UNCHANGED <<window, pt, runs, rows, beat, hung, rf, dac, last, world>>

\* mutant: a refused source leaves the analyzer leased
Rollback_Forgotten == lease

\* All or nothing.
Rollback == [lease EXCEPT !["rx"] = "free"]

\* The walkaround window's worker: one tone, and reads until stop.
WalkBegins == "walk" \in Jobs /\ pc' = "walk" /\ rf' = "on"

LeaseTx ==
  /\ pc = "leaseTx"
  /\ IF lease["tx"] = "rival"
     THEN Quits /\ lease' = Rollback /\ UNCHANGED <<beat, rf>>
     ELSE /\ lease' = [lease EXCEPT !["tx"] = "mine"] /\ beat' = "fresh"
          /\ \/ "campaign" \in Jobs /\ pc' = "gate" /\ UNCHANGED rf
             \/ WalkBegins
          /\ UNCHANGED outcome
  /\ UNCHANGED <<window, pt, runs, rows, hung, dac, last, world>>

-----------------------------------------------------------------------------
(* The passes *)

\* An operation on the bus gets through: it returns, no rival is in the way, and
\* the source's session is still there.
CanRead == lease["rx"] # "rival"
CanKey == lease["tx"] # "rival" /\ deaf = "no"
Through == hung = "no" /\ CanRead /\ CanKey

\* check_path keys its probe ...
GateKeys ==
  /\ pc = "gate" /\ Through
  /\ pc' = "gateOn" /\ rf' = "on" /\ dac' = NoDac
  /\ UNCHANGED <<window, pt, runs, rows, outcome, control, last, world>>

\* ... and goes on if a tone clears the floor by the guard.
GateReads ==
  /\ pc = "gateOn" /\ Through
  /\ rf' = "off"
  /\ IF \E i \in Point : Reads(i, 1, dac, TRUE) >= Reads(i, 1, dac, FALSE) + Guard
     THEN IF Healthy THEN pc' = "ref" /\ UNCHANGED outcome ELSE Ends("error")
     ELSE Ends("path_fault")
  /\ UNCHANGED <<window, pt, runs, rows, control, dac, last, world>>

\* acquire_reference: the floor of the point, then the tone is keyed.
RefKeys ==
  /\ pc = "ref" /\ Through
  /\ floor' = Reads(pt, rung, dac, FALSE) /\ last' = floor'
  /\ pc' = "refOn" /\ rf' = "on"
  /\ UNCHANGED <<window, pt, runs, rung, ref, wall, outcome, control, dac, world>>

\* The ambient bracket: the tone must clear what is there with the source off
\* again.  A trailing read that fails is swallowed: ref_reversible is then the
\* floor's word alone, and ref_off2_dbm None.
Bracket(level, after, off2) ==
  IF level < Larger(floor, IF off2 = "failed" THEN floor ELSE after) + Guard THEN "no"
  ELSE IF off2 = "failed" THEN "assumed" ELSE "yes"

TrailingRead == {"read"} \cup (IF "fail" \in Happens /\ pt \in Unbracketed THEN {"failed"} ELSE {})

\* The tone is read, behind a preselector peaked on the first rung; too little
\* capability takes the next rung, and the last one makes the row.
RefReads ==
  /\ pc = "refOn" /\ Through
  /\ rf' = "off"
  /\ LET peak == IF rung = 1 THEN Peaked(pt) ELSE IF dac = pt THEN dac ELSE NoDac
         at == IF peak = NoDac THEN dac ELSE peak
         level == Reads(pt, rung, at, TRUE)
         cap == level - floor - Margin
         after == Reads(pt, rung, at, FALSE)
     IN  /\ dac' = at /\ last' = level
         /\ IF cap < Target /\ rung + 1 \in Rung
            THEN rung' = rung + 1 /\ pc' = "ref" /\ UNCHANGED <<pt, ref, beat, outcome>>
            ELSE /\ \E off2 \in TrailingRead :
                      ref' = [ref EXCEPT ![pt] =
                        [seen |-> "yes", level |-> level, floor |-> floor, cap |-> cap,
                         rung |-> rung, dac |-> peak,
                         reversible |-> Bracket(level, after, off2)]]
                 /\ beat' = "fresh" /\ rung' = 1
                 /\ IF "stop" \in flags THEN Ends("aborted") /\ UNCHANGED pt
                    ELSE /\ IF pt < N THEN pt' = pt + 1 /\ pc' = "ref"
                                      ELSE pt' = 1 /\ pc' = "prompt"
                         /\ UNCHANGED outcome
  /\ UNCHANGED <<window, runs, floor, wall, lease, hung, world>>

\* mutant: the heartbeat goes on while the operator inserts the shield
Paused_Never == "fresh"

\* _pause_beat
Paused == "none"

\* The heartbeat is paused and the operator asked for the shield.
Prompt ==
  /\ pc = "prompt"
  /\ pc' = "park" /\ prompts' = prompts + 1 /\ beat' = Paused
  /\ UNCHANGED <<gui, flags, button, pt, runs, rows, outcome, lease, hung, rf, dac, last, world>>

\* shield_ok is set and the wall pass asks for a healthy analyzer, or the wait
\* times out on stop.
Unpark ==
  /\ pc = "park" /\ beat' = "fresh"
  /\ \/ /\ "shieldOk" \in flags
        /\ IF Healthy THEN pc' = "wall" /\ UNCHANGED outcome ELSE Ends("error")
     \/ "shieldOk" \notin flags /\ "stop" \in flags /\ Ends("aborted")
  /\ UNCHANGED <<window, pt, runs, rows, lease, hung, rf, dac, last, world>>

\* measure_wall: its own floor, on the rung the reference ended on; the tone is
\* keyed and the recorded DAC restored.
WallKeys ==
  /\ pc = "wall" /\ Through
  /\ floor' = Reads(pt, ref[pt].rung, dac, FALSE) /\ last' = floor'
  /\ pc' = "wallOn" /\ rf' = "on"
  /\ UNCHANGED <<window, pt, runs, rung, ref, wall, outcome, control, dac, world>>

\* mutant: the wall pass leaves the preselector where the last point had it
Restored_Never(row) == dac

\* set_preselector_dac with the DAC of the reference row
Restored(row) == IF row.dac = NoDac THEN dac ELSE row.dac

\* The verdict on a point, floor-limited within a margin of the worse floor.
Verdict(row, level) ==
  LET limited == level <= Larger(row.floor, floor) + Margin
      reported == IF limited THEN row.cap ELSE row.level - level
  IN  [seen |-> "yes", floor |-> floor, limited |-> IF limited THEN "yes" ELSE "no",
       reported |-> reported,
       verdict |-> IF reported >= Target THEN "PASS"
                   ELSE IF limited THEN "INCONCLUSIVE" ELSE "FAIL"]

\* wall_point: every HealthEvery-th point asks again for a healthy analyzer.
FoundFrozen == HealthEvery > 0 /\ pt % HealthEvery = 0 /\ ~Healthy

WallReads ==
  /\ pc = "wallOn" /\ Through
  /\ rf' = "off" /\ beat' = "fresh"
  /\ dac' = Restored(ref[pt])
  /\ last' = Reads(pt, ref[pt].rung, dac', TRUE)
  /\ wall' = [wall EXCEPT ![pt] = Verdict(ref[pt], last')]
  /\ IF "stop" \in flags THEN Ends("aborted") /\ UNCHANGED pt
     ELSE IF FoundFrozen
     THEN Ends("error") /\ UNCHANGED pt
     ELSE IF pt < N THEN pt' = pt + 1 /\ pc' = "wall" /\ UNCHANGED outcome
     ELSE Ends("done") /\ UNCHANGED pt
  /\ UNCHANGED <<window, runs, floor, rung, ref, lease, hung, world>>

\* mutant: the walk does not look at stop
MayWalk_Always == TRUE

\* nearfield_walkaround reads until should_stop(), with no beat
MayWalk == "stop" \notin flags

\* Only the analyzer is used until the tone is switched off.
WalkReads ==
  /\ pc = "walk" /\ hung = "no" /\ CanRead
  /\ last' = Reads(pt, 1, dac, rf = "on")
  /\ IF MayWalk THEN UNCHANGED <<pc, outcome, rf>>
                ELSE CanKey /\ Ends("aborted") /\ rf' = "off"
  /\ UNCHANGED <<window, pt, runs, rows, control, dac, world>>

\* An operation raises.  The finally of the pass switches off if the source hears
\* it; check_path has none.
Raises ==
  /\ pc \in Bus /\ hung = "no" /\ Ends("error")
  /\ rf' = IF deaf' = "yes" \/ lease["tx"] = "rival" \/ pc = "gateOn" THEN rf ELSE "off"
  /\ UNCHANGED <<window, pt, runs, rows, control, dac, last, sweep, air, shield, setup>>

LinkFails == "fail" \in Happens /\ deaf' \in {deaf, "yes"} /\ Raises
Refused ==
  /\ ~CanRead \/ (~CanKey /\ ~(pc = "walk" /\ MayWalk))
  /\ UNCHANGED deaf /\ Raises

\* release_control: RF off first, best effort, ...
ReleaseDekeys ==
  /\ pc = "release"
  /\ rf' = IF deaf = "yes" \/ lease["tx"] = "rival" THEN rf ELSE "off"
  /\ pc' = "unlease"
  /\ UNCHANGED <<window, pt, runs, rows, outcome, control, dac, last, world>>

\* ... then both leases.
ReleaseLeases ==
  /\ pc = "unlease"
  /\ lease' = [i \in Inst |-> IF lease[i] = "mine" THEN "free" ELSE lease[i]]
  /\ beat' = "none" /\ pc' = "report"
  /\ UNCHANGED <<window, pt, runs, rows, outcome, hung, rf, dac, last, world>>

\* summarize: affirmative, over every row of both passes.
CampaignPass ==
  \A i \in Point : ref[i].cap >= Target /\ wall[i].verdict = "PASS"

\* The last event of the run, and the worker ends.
Report ==
  /\ pc = "report"
  /\ outcome' = IF outcome # "done" THEN outcome
                ELSE IF CampaignPass THEN "pass" ELSE "fail"
  /\ pc' = "idle"
  /\ UNCHANGED <<window, pt, runs, rows, control, rf, dac, last, world>>

-----------------------------------------------------------------------------
(* The operator *)

\* _on_run, once the worker has ended; the source's link is back, and the
\* operator may have left the shield in.
Run ==
  /\ gui = "free" /\ pc = "idle" /\ runs < MaxRuns /\ deaf = "no"
  /\ runs' = runs + 1 /\ flags' = {} /\ button' = "off"
  /\ pc' = "ready" /\ pt' = 1 /\ floor' = 0 /\ rung' = 1 /\ outcome' = "none"
  /\ ref' = [i \in Point |-> NoRow] /\ wall' = [i \in Point |-> NoRow]
  /\ shield' \in {shield, "out"}
  /\ UNCHANGED <<gui, prompts, control, rf, dac, last, deaf, sweep, air, setup>>

\* _on_stop sets two events, and the worker may look in between.
StopBegins ==
  /\ gui = "free" /\ pc # "idle" /\ "stop" \notin flags
  /\ gui' = "stopping" /\ flags' = flags \cup {"stop"}
  /\ UNCHANGED <<button, prompts, pc, pt, runs, rows, outcome, control, rf, dac, last, world>>

StopFinishes ==
  /\ gui = "stopping"
  /\ gui' = "free" /\ flags' = flags \cup {"shieldOk"}
  /\ UNCHANGED <<button, prompts, pc, pt, runs, rows, outcome, control, rf, dac, last, world>>

\* _drain enables the button, whichever run the event is from.
Drain ==
  /\ gui = "free" /\ prompts > 0
  /\ prompts' = 0 /\ button' = "on"
  /\ UNCHANGED <<gui, flags, pc, pt, runs, rows, outcome, control, rf, dac, last, world>>

\* The operator inserts the shield and says so.
ShieldContinue ==
  /\ gui = "free" /\ button = "on"
  /\ shield' = "in" /\ button' = "off" /\ flags' = flags \cup {"shieldOk"}
  /\ UNCHANGED <<gui, prompts, pc, pt, runs, rows, outcome, control, rf, dac, last,
                 deaf, sweep, air, setup>>

-----------------------------------------------------------------------------
(* Time, the bridge and the world *)

\* mutant: the keepalive does not look at the heartbeat
Stalled_Never == FALSE

\* _loop_stalled
Stalled == beat = "stale"

\* No beat within heartbeat_timeout_s, which every healthy point meets: an
\* operation that hangs, or a loop that never beats.
BeatStales ==
  /\ beat = "fresh" /\ (hung = "yes" \/ pc \in {"walk", "park"})
  /\ beat' = "stale"
  /\ UNCHANGED <<window, pc, pt, runs, rows, outcome, lease, hung, rf, dac, last, world>>

\* Nobody renews and the TTL runs out.
Lapse ==
  /\ Stalled /\ \E i \in Inst : lease[i] = "mine"
  /\ lease' = [i \in Inst |-> IF lease[i] = "mine" THEN "free" ELSE lease[i]]
  /\ UNCHANGED <<window, pc, pt, runs, rows, outcome, beat, hung, rf, dac, last, world>>

\* _renew_once takes a lapsed lease again once the loop beats, on a session that
\* is still there.
Retakable == {i \in Inst : lease[i] = "free" /\ (i = "tx" => deaf = "no")}
Retake ==
  /\ pc \in InControl \ {"unlease"} /\ ~Stalled /\ Retakable # {}
  /\ lease' = [i \in Inst |-> IF i \in Retakable THEN "mine" ELSE lease[i]]
  /\ UNCHANGED <<window, pc, pt, runs, rows, outcome, beat, hung, rf, dac, last, world>>

\* With nothing renewed, and no other traffic to the source from a loop that hangs
\* or walks, the source's session idles out, once: the bridge's dead-man switches
\* the source off unless a rival holds it by then, and drops the lease.  Whatever
\* the worker sends on that session from then on raises.
DeadMan ==
  /\ Stalled /\ (hung = "yes" \/ pc = "walk") /\ deaf = "no"
  /\ deaf' = "yes"
  /\ rf' = IF lease["tx"] = "rival" THEN rf ELSE "off"
  /\ lease' = [lease EXCEPT !["tx"] = IF @ = "mine" THEN "free" ELSE @]
  /\ UNCHANGED <<window, pc, pt, runs, rows, outcome, beat, hung, dac, last,
                 sweep, air, shield, setup>>

RivalTakes(i) ==
  /\ "rival" \in Happens /\ lease[i] = "free"
  /\ lease' = [lease EXCEPT ![i] = "rival"]
  /\ UNCHANGED <<window, pc, pt, runs, rows, outcome, beat, hung, rf, dac, last, world>>

RivalLeaves(i) ==
  /\ lease[i] = "rival"
  /\ lease' = [lease EXCEPT ![i] = "free"]
  /\ UNCHANGED <<window, pc, pt, runs, rows, outcome, beat, hung, rf, dac, last, world>>

Hangs ==
  /\ "hang" \in Happens /\ pc \in Bus /\ hung = "no" /\ hung' = "yes"
  /\ UNCHANGED <<window, pc, pt, runs, rows, outcome, lease, beat, rf, dac, last, world>>

Unhangs ==
  /\ hung = "yes" /\ hung' = "no"
  /\ UNCHANGED <<window, pc, pt, runs, rows, outcome, lease, beat, rf, dac, last, world>>

Freezes ==
  /\ "freeze" \in Happens /\ sweep = "live" /\ sweep' = "frozen"
  /\ UNCHANGED <<window, pc, pt, runs, rows, outcome, control, rf, dac, last, deaf, air, shield, setup>>

AmbientRises ==
  /\ "ambient" \in Happens /\ air = 0 /\ air' = Ambient
  /\ UNCHANGED <<window, pc, pt, runs, rows, outcome, control, rf, dac, last, deaf, sweep, shield, setup>>

Worker ==
  \/ Ready \/ LeaseRx \/ LeaseTx
  \/ GateKeys \/ GateReads \/ RefKeys \/ RefReads \/ Prompt \/ Unpark
  \/ WallKeys \/ WallReads \/ WalkReads \/ Refused
  \/ ReleaseDekeys \/ ReleaseLeases \/ Report
Clock == BeatStales \/ Lapse \/ DeadMan
Next ==
  \/ Worker \/ LinkFails \/ Clock \/ Retake
  \/ Run \/ StopBegins \/ StopFinishes \/ Drain \/ ShieldContinue
  \/ \E i \in Inst : RivalTakes(i) \/ RivalLeaves(i)
  \/ Hangs \/ Unhangs \/ Freezes \/ AmbientRises

Spec == Init /\ [][Next]_vars
FairSpec == Spec /\ WF_vars(Worker) /\ WF_vars(Clock) /\ WF_vars(StopFinishes)

-----------------------------------------------------------------------------
(* Properties *)

\* A finished run leaves nothing leased and nothing radiating, unless the source
\* could not be told: its link is gone, or a rival took it after a lapse.
IdleIsQuiet ==
  pc \in {"report", "idle"} =>
    /\ \A i \in Inst : lease[i] # "mine"
    /\ rf = "on" => deaf = "yes" \/ "rival" \in Happens

\* An operator who takes his time over the shield does not lose control.
PauseKeepsControl ==
  [][pc = "park" /\ pc' = "park" =>
       \A i \in Inst : lease[i] = "mine" => lease'[i] = "mine"]_vars

\* PASS is said only of a shield that attenuates by the target at every point.
\* Three rows the code itself marks are excused: a reference that is not
\* reversible, one whose trailing read failed, and a wall floor above the
\* reference's.
PassIsTrue ==
  (/\ outcome = "pass"
   /\ \A i \in Point : ref[i].reversible = "yes" /\ wall[i].floor <= ref[i].floor)
    => \A i \in Point : setup.path[i] - setup.leak[i] >= Target

\* Stop at the shield prompt releases control: the wall pass does not start.
StopAbortsThePause ==
  [][pc = "park" /\ "stop" \in flags /\ pc' # pc => pc' = "release"]_vars

\* A loop that hangs with the source on and its session there comes back, or is
\* de-keyed by the dead-man, which stands back only for a rival that holds the
\* source when the session ends.
HungLoopDekeys ==
  (hung = "yes" /\ rf = "on" /\ deaf = "no") ~>
    (rf = "off" \/ hung = "no" \/ (deaf = "yes" /\ lease["tx"] = "rival"))

\* Stop ends the run, unless an operation never returns.
StopEndsTheRun == ("stop" \in flags) ~> (pc = "idle" \/ hung = "yes")
=============================================================================

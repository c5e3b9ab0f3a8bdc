-------------------------------- MODULE PointOp --------------------------------
(***************************************************************************)
(* Point operation: the panel of point_op_mode.py on the GUI thread, the   *)
(* SpectrumEngine of sa_gui.py and the SourceEngine of sg_gui.py on a      *)
(* thread each, with the queues between them, and the two instruments.     *)
(*                                                                         *)
(* A frequency is a member of Freq and a power of Power.  A sweep sees a   *)
(* tone that is at its center; the tone is low while the source's level    *)
(* ramps or, in the high band, while the preselector is not peaked on it.  *)
(* Which tab has the instruments is the subject of module Bench: here a    *)
(* hidden panel is one whose engines are suspended.                        *)
(***************************************************************************)
EXTENDS Naturals, Sequences

CONSTANTS
  Freq, High,      \* operating frequencies, and those above 2.9 GHz
  Power,
  Start,           \* the operating point the panel opens at: [f, p]
  PreselRetry,     \* _PRESEL_RETRY
  MaxEdits,        \* bound: the operator's edits and tab changes
  Drifts,          \* what the analyzer's front panel changes: "rl", "scale"
  MaxFaults        \* bound: operations that raise and turns of the front panel

NoTone == 0        \* the power of no tone
NoTrace == [at |-> 0, p |-> NoTone, level |-> "none"]

ASSUME PointOpAssumption ==
  /\ Freq \subseteq Nat \ {0} /\ High \subseteq Freq /\ Power \subseteq Nat \ {0}
  /\ Start \in [f : Freq, p : Power]
  /\ Drifts \subseteq {"rl", "scale"}
  /\ PreselRetry \in Nat \ {0} /\ {MaxEdits, MaxFaults} \subseteq Nat

VARIABLES
  \* the panel
  tab,        \* "shown", "hidden"
  spin,       \* freq_hz and power_dbm, which the spin boxes repeat: [f, p]
  box,        \* the RF ON box
  rfOn,       \* model.rf_on
  timer,      \* the debounce timer
  center,     \* center_hz of _rx_settings
  settling,   \* model.settling
  awaiting,   \* _settling_await_sweep
  reading,    \* the trace on screen and what render() makes of it
  \* the queues
  rxCmds, txCmds, rxOut, txOut,
  \* the engines
  rx, tx,     \* where the threads are
  budget,     \* _presel_pending
  sweep,      \* what the sweep under way saw when it began
  \* the instruments
  an,         \* center of the analyzer
  peaked,     \* the frequency its preselector is peaked at, 0 for none
  src,        \* [f, p, rf, level]
  cal,        \* _bin_cal, the map of the binary transfer: "none", "good", or "bad"
              \* once the front panel has changed what it maps
  drift,      \* what the front panel has changed: "none", "rl", "scale"
  \* history
  edits, faults,
  eaten       \* engines whose last command was lost to an operation that raised

panel == <<tab, spin, box, rfOn, timer, settling, awaiting, reading,
           center>>
outs == <<rxOut, txOut>>
amplitude == <<cal, drift>>
rxSide == <<rx, budget, sweep, an, peaked, amplitude>>
txSide == <<tx, src>>
bounds == <<edits, faults>>
vars == <<panel, rxCmds, txCmds, outs, rxSide, txSide, eaten, bounds>>

Settings == [f : Freq, p : Power, rf : {"on", "off"}]
Trace == [at : Freq, p : Power \cup {NoTone}, level : {"none", "low", "true"}]

TypeOK ==
  /\ tab \in {"shown", "hidden"} /\ spin \in [f : Freq, p : Power]
  /\ {box, rfOn, timer, settling, awaiting} \subseteq {"on", "off"} /\ center \in Freq
  /\ {reading, rxOut, sweep} \subseteq Trace \cup {NoTrace}
  /\ rxCmds \subseteq {"apply", "peak", "state"} /\ txCmds \in Seq(Settings)
  /\ txOut \subseteq {"settled", "absent"}
  /\ rx \in {"idle", "sweeping"} /\ tx \in {"idle", "settling"}
  /\ budget \in 0..PreselRetry
  /\ an \in Freq /\ peaked \in Freq \cup {0}
  /\ cal \in {"none", "good", "bad"} /\ drift \in {"none", "rl", "scale"}
  /\ src \in [f : Freq, p : Power, rf : {"on", "off"}, level : {"low", "true"}]
  /\ edits \in 0..MaxEdits /\ faults \in 0..MaxFaults /\ eaten \subseteq {"rx", "tx"}

\* After start(): its _apply is queued and the threads run.
Init ==
  /\ tab = "shown" /\ spin = Start /\ box = "off" /\ rfOn = "off"
  /\ center = spin.f /\ timer = "off" /\ settling = "off" /\ awaiting = "off"
  /\ reading = NoTrace
  /\ rxCmds = {"apply"} \cup (IF spin.f \in High THEN {"peak"} ELSE {})
  /\ txCmds = <<[f |-> spin.f, p |-> spin.p, rf |-> "off"]>>
  /\ rxOut = NoTrace /\ txOut = {} /\ rx = "idle" /\ tx = "idle" /\ budget = 0
  /\ sweep = NoTrace /\ an \in Freq /\ peaked = 0
  /\ cal = "none" /\ drift = "none"
  /\ src = [f |-> Start.f, p |-> Start.p, rf |-> "off", level |-> "true"]
  /\ edits = 0 /\ faults = 0 /\ eaten = {}

-----------------------------------------------------------------------------
(* The panel *)

Edits == tab = "shown" /\ edits < MaxEdits /\ edits' = edits + 1 /\ timer' = "on"
EditRest == <<tab, rfOn, reading, center, rxCmds, txCmds, outs, rxSide, txSide,
              faults, eaten>>

\* _shift_freq, _jump_to, _nudge: the model at once, the instruments after the pause
Tune(f) ==
  /\ Edits /\ spin' = [spin EXCEPT !.f = f]
  /\ IF rfOn = "on" THEN settling' = "on" /\ awaiting' = "off" \* _arm_settling_for_retune
     ELSE UNCHANGED <<settling, awaiting>>
  /\ UNCHANGED <<box, EditRest>>

\* _bump_power
Level(p) ==
  /\ Edits /\ spin' = [spin EXCEPT !.p = p]
  /\ UNCHANGED <<box, settling, awaiting, EditRest>>

\* the RF ON box
Tick ==
  /\ Edits /\ box' = IF box = "on" THEN "off" ELSE "on"
  /\ UNCHANGED <<spin, settling, awaiting, EditRest>>

\* _apply.  The settings object is shared with the analyzer's engine.
Apply ==
  /\ rfOn' = box /\ settling' = box /\ awaiting' = "off" /\ reading' = NoTrace /\ center' = spin.f
  /\ rxCmds' = rxCmds \cup {"apply"} \cup (IF spin.f \in High THEN {"peak"} ELSE {})
  /\ txCmds' = Append(txCmds, [f |-> spin.f, p |-> spin.p, rf |-> box]) /\ eaten' = {}

TimerFires ==
  /\ timer = "on" /\ timer' = "off" /\ Apply
  /\ UNCHANGED <<tab, spin, box, outs, rxSide, txSide, bounds>>

\* suspend(): RF off, and the engines take no further step.  Another tab moves the
\* analyzer.
Leave ==
  /\ tab = "shown" /\ edits < MaxEdits
  /\ tab' = "hidden" /\ edits' = edits + 1
  /\ src' = [src EXCEPT !.rf = "off"] /\ an' \in Freq
  /\ UNCHANGED <<spin, box, rfOn, timer, settling, awaiting, reading, center,
                 rxCmds, txCmds, outs, rx, budget, sweep, peaked, amplitude, tx, faults, eaten>>

Return ==
  /\ tab = "hidden" /\ tab' = "shown" /\ Apply
  /\ UNCHANGED <<spin, box, timer, outs, rxSide, txSide, bounds>>

\* mutant: the settled event is taken for one of an earlier cycle
Armed_Never(waits) == waits

\* "settled" arms the clear for the next sweep, whatever settled_ok() said.
Armed(waits) == IF "settled" \in txOut /\ settling' = "on" THEN "on" ELSE waits

\* _drain: the analyzer's events, of which the last trace shows, then the source's.
Drain ==
  /\ rxOut # NoTrace \/ txOut # {}
  /\ reading' = IF rxOut # NoTrace THEN rxOut ELSE reading
  /\ LET swept == rxOut # NoTrace /\ awaiting = "on"
     IN  /\ settling' = IF swept THEN "off" ELSE settling
         /\ awaiting' = Armed(IF swept THEN "off" ELSE awaiting)
  /\ rxOut' = NoTrace /\ txOut' = {}
  /\ UNCHANGED <<tab, spin, box, rfOn, timer, center, rxCmds, txCmds,
                 rxSide, txSide, eaten, bounds>>

\* Every fifth tick asks the engines for a state poll; the source's changes nothing.
Poll ==
  /\ "state" \notin rxCmds /\ rxCmds' = rxCmds \cup {"state"}
  /\ UNCHANGED <<panel, txCmds, outs, rxSide, txSide, eaten, bounds>>

-----------------------------------------------------------------------------
(* The source's engine *)

\* mutant: a batch of applies leaves the source at the first
Conflated_First(k) == txCmds[1]

\* The last apply of a batch wins.
Conflated(k) == txCmds[k]

\* step_once: a state poll between two applies flushes the first, so any prefix
\* of the queue can be a batch.
TxApplies ==
  /\ tab = "shown" /\ tx = "idle"
  /\ \E k \in 1..Len(txCmds) :
       /\ src' = [f |-> Conflated(k).f, p |-> Conflated(k).p, rf |-> Conflated(k).rf,
                  level |-> "low"]
       /\ tx' = IF Conflated(k).rf = "on" THEN "settling" ELSE "idle"
       /\ txCmds' = SubSeq(txCmds, k + 1, Len(txCmds))
  /\ UNCHANGED <<panel, rxCmds, outs, rxSide, eaten, bounds>>

\* await_settled: the level has ramped.  A step under way when the tab is left
\* ends all the same.
TxSettles ==
  /\ tx = "settling" /\ tx' = "idle"
  /\ src' = [src EXCEPT !.level = "true"] /\ txOut' = txOut \cup {"settled"}
  /\ UNCHANGED <<panel, rxCmds, txCmds, rxOut, rxSide, eaten, bounds>>

\* The apply has left the queue and raises.
TxFails ==
  /\ tab = "shown" /\ tx = "idle" /\ txCmds # <<>> /\ faults < MaxFaults /\ faults' = faults + 1
  /\ txCmds' = <<>> /\ txOut' = txOut \cup {"absent"} /\ eaten' = eaten \cup {"tx"}
  /\ UNCHANGED <<panel, rxCmds, rxOut, rxSide, txSide, edits>>

-----------------------------------------------------------------------------
(* The analyzer's engine *)

\* What a sweep at c sees with the preselector at d.
Sees(c, d) ==
  IF src.rf = "off" \/ src.f # c THEN [at |-> c, p |-> NoTone, level |-> "none"]
  ELSE [at |-> c, p |-> src.p,
        level |-> IF c \in High /\ d # c THEN "low" ELSE src.level]

\* the retries armed by a request that found no tone
Rearmed == PreselRetry

\* The tone is there to peak on.
Peakable(c) == src.rf = "on" /\ src.f = c

\* The retries take longer than the source takes to settle.
InPace == budget > 1 \/ (tx = "idle" /\ txCmds = <<>>)

Peaks == "peak" \in rxCmds \/ (budget > 0 /\ center \in High)

\* mutant: a poll reports the drift and keeps the map
Reconciled_Reported == cal

\* reconcile_analyzer as _emit_state calls it: the reference level is compared,
\* the scale, which it is not given, is not.
AmplitudeDrift == drift = "rl"

\* _emit_state: an amplitude drift drops the binary map.
Reconciled == IF AmplitudeDrift THEN "none" ELSE cal

\* step_once: the last settings, then a requested or pending preselector peak,
\* which restores the window and finds a tone or not, then a sweep begins; a change
\* calibrates the binary transfer afresh (a poor fit leaves ASCII, never wrong).
RxSweeps ==
  /\ tab = "shown" /\ rx = "idle" /\ rx' = "sweeping" /\ rxCmds' = {}
  /\ IF Peaks
     THEN /\ an' = center
          /\ IF center \in High /\ Peakable(center)
             THEN peaked' = center /\ budget' = 0
             ELSE /\ peaked' = peaked
                  /\ \/ /\ "peak" \in rxCmds
                        /\ budget' = IF center \in High THEN Rearmed ELSE 0
                     \/ "peak" \notin rxCmds /\ InPace /\ budget' = budget - 1
     ELSE /\ an' = IF "apply" \in rxCmds THEN center ELSE an
          /\ UNCHANGED <<peaked, budget>>
  /\ cal' = IF Peaks \/ "apply" \in rxCmds THEN "good"
            ELSE IF "state" \in rxCmds THEN Reconciled ELSE cal
  /\ drift' = IF "apply" \in rxCmds /\ drift = "rl" THEN "none" ELSE drift
  /\ sweep' = Sees(an', peaked')
  /\ UNCHANGED <<panel, txCmds, outs, txSide, eaten, bounds>>

\* The trace holds what was there when the sweep passed the tone.
RxReads ==
  /\ rx = "sweeping" /\ rx' = "idle"
  /\ rxOut' \in {sweep, Sees(an, peaked)}
  /\ UNCHANGED <<panel, rxCmds, txCmds, txOut, budget, sweep, an, peaked, amplitude, txSide, eaten, bounds>>

\* The commands have left the queue and the first operation raises.
RxFails ==
  /\ tab = "shown" /\ rx = "idle" /\ rxCmds # {} /\ faults < MaxFaults /\ faults' = faults + 1
  /\ rxCmds' = {} /\ eaten' = eaten \cup {"rx"}
  /\ UNCHANGED <<panel, txCmds, outs, rxSide, txSide, edits>>

\* Somebody turns the reference level or the scale at the front panel.
FrontPanel(what) ==
  /\ faults < MaxFaults /\ faults' = faults + 1 /\ drift' = what
  /\ cal' = IF cal = "good" THEN "bad" ELSE cal
  /\ UNCHANGED <<panel, rxCmds, txCmds, outs, rx, budget, sweep, an, peaked, txSide, eaten, edits>>

Operator ==
  \/ \E f \in Freq : Tune(f)
  \/ \E p \in Power : Level(p)
  \/ Tick \/ Leave \/ Return
Panel == TimerFires \/ Drain \/ Poll
Next ==
  \/ Operator \/ Panel
  \/ TxApplies \/ TxSettles \/ TxFails \/ RxSweeps \/ RxReads \/ RxFails
  \/ \E what \in Drifts : FrontPanel(what)

Spec == Init /\ [][Next]_vars

\* Timers fire and threads run.
FairSpec ==
  /\ Spec
  /\ WF_vars(TimerFires) /\ WF_vars(Drain) /\ WF_vars(Poll)
  /\ WF_vars(TxApplies) /\ WF_vars(TxSettles) /\ WF_vars(RxSweeps) /\ WF_vars(RxReads)

-----------------------------------------------------------------------------
(* Properties *)

\* When nothing is pending between the panel and the instruments, they are where
\* the panel says, however edits, applies, steps and tab changes have crossed.
QuietMeansApplied ==
  (/\ tab = "shown" /\ timer = "off" /\ rxCmds \subseteq {"state"} /\ txCmds = <<>>
   /\ tx = "idle" /\ eaten = {})
    => /\ an = spin.f /\ src.f = spin.f /\ src.p = spin.p
       /\ src.rf = box /\ rfOn = box

\* Once the operator stays, and if no command was lost, SETTLING clears and the
\* readout is the tone at its settings, leveled and behind a peaked preselector.
ReadoutConverges ==
  <>[](tab = "shown" /\ eaten = {}) =>
    <>[](/\ settling = "off"
         /\ box = "on" => reading = [at |-> spin.f, p |-> spin.p, level |-> "true"]
         /\ box = "off" => reading.p = NoTone)

\* A binary map gone wrong is dropped: the feed shows a wrong amplitude until the
\* next state poll at most.  Excused: a scale turned at the front panel, which the
\* poll does not compare.
StaleMapIsDropped ==
  cal = "bad" /\ drift # "scale" ~> (cal # "bad" \/ tab = "hidden" \/ drift = "scale")
=============================================================================

------------------------------- MODULE Analyzer -------------------------------
(***************************************************************************)
(* The two instruments as the measurement programs drive them, one bus     *)
(* write or query at a time: the settings that persist in the 8565EC and   *)
(* in the 683xx (drivers.Agilent856xEC, drivers.Anritsu68369), and the     *)
(* programs of loop.py and sa_gui.SpectrumEngine that run over them one    *)
(* after the other.                                                        *)
(*                                                                         *)
(* A driver method is the sequence of its commands, a program the sequence *)
(* of its driver calls: a preamble, then one part per point of the plan.   *)
(* Any command may raise.  TRY and END bracket what an except of the       *)
(* program catches; anything else ends the program where it stands, RF off *)
(* (its finally, controlled(), or the bridge's dead-man), and leaves the   *)
(* analyzer as the last command left it.  Some other hand may change the   *)
(* analyzer between two programs.                                          *)
(***************************************************************************)
EXTENDS Naturals, Sequences

CONSTANTS
  N,          \* points of the plan
  High,       \* those above the 2.9 GHz preselector crossover
  Programs,   \* the programs that may run
  MaxRuns,    \* bound on the programs run
  MaxFaults   \* bound on the commands that raise

Point == 1..N

ASSUME AnalyzerAssumption ==
  /\ {N, MaxRuns, MaxFaults} \subseteq Nat
  /\ High \subseteq Point

VARIABLES
  dev,     \* the settings of the two instruments
  armed,   \* arm_direct_chain was called: min_atten_db and max_output_dbm
  prog, p, \* the program running, and the point it is at (0: its preamble)
  todo,    \* what is left of this part
  rung,    \* the RBW this point is configured with
  dac,     \* what peak_preselector returned for this point
  got,     \* got[k]: what the point's reads of kind k saw
  rows,    \* the reference rows
  runs, faults

pvars == <<dev, armed, prog, p, todo, rung, dac, got, rows, runs, faults>>

----------------------------------------------------------------------------
\* The instruments.

\* 0: the YIG tuned to no point of the plan; N+1: tuned onto noise.
Noise == N + 1

Preset(d) ==
  [d EXCEPT !.det = "NRM", !.span = "full", !.rbw = "auto", !.hold = "clear",
            !.vavg = "off", !.units = "DBM", !.st = "auto", !.at = "auto",
            !.f = 0, !.yig = 0]

\* A sweep completes within the dwell: a stuck sweep time outlasts its cap,
\* and SNGLS with TS returns the trace of before.
Completes(d) == d.st # "stuck" /\ d.sweep = "CONTS"

\* Whatever changes a setting leaves the trace of before on the display.
Changes ==
  {"RST", "L1", "CF1", "RF1", "RF0", "IP", "CLRW_TRA", "MXMH_TRA", "VAVG", "VAVG_OFF",
   "AUNITS_DBM", "RB", "RB_AUTO", "RB_COARSE", "POS", "SMP", "SP_0", "SP", "ST", "ST_AUTO",
   "AT_FLOOR", "AT_PLAN", "CF", "PSDAC", "PP"}

\* What a command sets, for point q and rung r.
Sets(d, c, q, r) ==
  CASE c = "RST"      -> [d EXCEPT !.level = "reset", !.tf = 0]
    [] c = "L1"       -> [d EXCEPT !.level = IF armed THEN "capped" ELSE "plan"]
    [] c = "CF1"      -> [d EXCEPT !.tf = q]
    [] c \in {"RF1", "RF0"}       -> [d EXCEPT !.rf = c]
    [] c = "IP"       -> Preset(d)
    [] c = "CLRW_TRA" -> [d EXCEPT !.hold = "clear", !.vavg = "off"]
    [] c = "MXMH_TRA" -> [d EXCEPT !.hold = "max"]
    [] c = "VAVG"     -> [d EXCEPT !.vavg = "on"]
    [] c = "VAVG_OFF" -> [d EXCEPT !.vavg = "off"]
    [] c = "AUNITS_DBM" -> [d EXCEPT !.units = "DBM"]
    [] c = "RB"       -> [d EXCEPT !.rbw = r]
    [] c = "RB_AUTO"  -> [d EXCEPT !.rbw = "auto"]
    [] c = "RB_COARSE" -> [d EXCEPT !.rbw = "coarse"]
    [] c \in {"POS", "SMP"}       -> [d EXCEPT !.det = c]
    [] c = "SP_0"     -> [d EXCEPT !.span = "zero"]
    [] c = "SP"       -> [d EXCEPT !.span = "wide"]
    [] c = "ST"       -> [d EXCEPT !.st = "fixed"]
    [] c = "ST_AUTO"  -> [d EXCEPT !.st = "auto"]
    [] c \in {"AT_FLOOR", "AT_PLAN"} -> [d EXCEPT !.at = c]
    [] c = "CF"       -> [d EXCEPT !.f = q]
    [] c = "PSDAC"    -> [d EXCEPT !.yig = q]
    [] c = "PP"       -> [d EXCEPT !.yig = IF d.rf = "RF1" /\ d.tf = q THEN q ELSE Noise]

Obeys(d, c, q, r) ==
  CASE c = "SWEEP"             -> [d EXCEPT !.trace = IF Completes(d) THEN "fresh" ELSE @]
    [] c \in {"CONTS", "SNGLS"} -> [d EXCEPT !.sweep = c]
    [] c \in Changes           -> [Sets(d, c, q, r) EXCEPT !.trace = "stale"]
    [] OTHER                   -> d

----------------------------------------------------------------------------
\* The drivers.  det is the detector configure() was last given.

SourcePrepare == <<"RST">>
SetSource == <<"L1", "CF1">>
AwaitSettled == <<"OSB">>
ListSweep == <<"LST", "RSS">>

Prepare == <<"IP", "CONTS", "TS">>

Configure_KeepsHold(det, rb) ==
  <<"CONTS", "AUNITS_DBM", rb, "RL", det, "SP_0", "ST">>
    \o (IF armed THEN <<"AT_FLOOR">> ELSE <<>>)

Configure_Unfloored(det, rb) ==
  <<"CONTS", "CLRW_TRA", "AUNITS_DBM", rb, "RL", det, "SP_0", "ST">>

Configure(det, rb) ==
  <<"CONTS", "CLRW_TRA", "AUNITS_DBM", rb, "RL", det, "SP_0", "ST">>
    \o (IF armed THEN <<"AT_FLOOR">> ELSE <<>>)

SetAttenuation == IF armed THEN <<"AT_FLOOR">> ELSE <<"AT_PLAN">>

\* TS, DONE? and the completion dwell, the stale sweep flushed first.
TwoSweeps == <<"SWEEP", "SWEEP">>

MeasurePeak(kind) == <<"CF", "CONTS">> \o TwoSweeps \o <<kind>>
MeasureFloor(kind) == <<"SMP">> \o MeasurePeak(kind) \o <<"POS">>
MeasureAverage == <<"CF", "SMP", "SWEEP", "probe">>

\* NONE is where None is returned to: below 2.9 GHz, and when no tone stands
\* out.  A trace that cannot be read is taken for one that shows a tone.
PeakPreselector(q) ==
  IF q \notin High THEN <<>>
  ELSE <<"CF", "SP", "RB_COARSE", "SWEEP">>
         \o <<"TRY", "GUARD", "END", "MKCF", "TS", "PP", "TS", "TRY", "PSDAC?", "END", "NONE">>

SetPreselectorDac_Skipped == <<>>
SetPreselectorDac == <<"PSDAC", "TS">>

MeasureTrackedPeak(q) ==
  <<"CONTS">>
    \o (IF q \in High THEN PeakPreselector(q) ELSE <<"CF", "SP", "RB_COARSE">>)
    \o TwoSweeps \o <<"probe", "MKCF", "TS">>

ArmAndWait == <<"CONTS">> \o TwoSweeps
ReadAndCalibrate == <<"SNGLS", "TDF_B", "TRA?", "CONTS">>
SweepIsLive == TwoSweeps

----------------------------------------------------------------------------
\* The programs.

Trying(steps) == <<"TRY">> \o steps \o <<"END">>

ConfigureAnalyzer == Configure("POS", "RB") \o SetAttenuation

\* A rung of the reference: its own floor, then its tone.
Rung(q, peak) ==
  ConfigureAnalyzer \o <<"RF0">> \o MeasureFloor("floor") \o <<"RF1">>
    \o AwaitSettled
    \o (IF peak /\ q \in High THEN PeakPreselector(q) \o ConfigureAnalyzer
        ELSE <<>>)
    \o MeasurePeak("tone") \o <<"RF0">>

AcquireReference(q) ==
  IF q = 0 THEN SweepIsLive \o SourcePrepare \o Prepare \o ConfigureAnalyzer
  ELSE SetSource \o Rung(q, TRUE) \o <<"LADDER">>
         \o Trying(MeasureFloor("ambient")) \o <<"ROW">>

\* measure_wall and reference_drift read a point alike.
ReadBack(q) ==
  IF q = 0 THEN SweepIsLive
  ELSE ConfigureAnalyzer \o SetSource \o <<"RF0">> \o MeasureFloor("floor")
         \o <<"RF1">> \o AwaitSettled
         \o (IF rows[q].dac = "none" THEN <<>> ELSE SetPreselectorDac)
         \o MeasurePeak("again") \o <<"RF0">>

MeasureWall(q) == ReadBack(q)
ReferenceDrift(q) == ReadBack(q)

CheckPath(q) ==
  IF q = 0 THEN SourcePrepare \o Prepare \o Configure("POS", "RB")
  ELSE SetSource \o <<"RF0">> \o MeasurePeak("probe") \o <<"RF1">>
         \o AwaitSettled \o MeasurePeak("probe") \o <<"RF0">> \o AwaitSettled
         \o MeasurePeak("probe")

ChainSweep(q) ==
  IF q = 0 THEN SourcePrepare \o Prepare \o Configure("POS", "RB")
  ELSE SetSource \o <<"RF0">> \o MeasureFloor("probe") \o <<"RF1">>
         \o AwaitSettled \o MeasurePeak("probe") \o <<"RF0">>

SteppedCwSweep(q) ==
  IF q = 0 THEN Configure("POS", "RB")
  ELSE SetSource \o <<"RF1">> \o AwaitSettled
         \o (IF q \in High THEN MeasureTrackedPeak(q) \o Configure("POS", "RB")
             ELSE MeasurePeak("probe"))

TrackedSweep(q) ==
  IF q = 0 THEN Configure("POS", "RB") \o <<"L1">> \o ListSweep \o <<"RF1">>
  ELSE (IF q = 1 THEN <<>> ELSE <<"UP">>) \o MeasurePeak("probe")

\* The last five run at one frequency, or over one span, in one part.
OneFrequency == {"localize", "walk", "screen", "cavity", "validate"}

Localize(q) ==
  Configure("POS", "RB") \o SetSource \o <<"RF1">> \o MeasurePeak("probe")
    \o MeasurePeak("probe") \o <<"RF0">>

\* The high band is walked in the window peak_preselector zoomed to.
NearfieldWalkaround(q) ==
  SourcePrepare \o Prepare \o Configure("POS", "RB") \o SetSource \o <<"RF1">>
    \o AwaitSettled \o PeakPreselector(q) \o MeasurePeak("probe")
    \o MeasureAverage \o <<"RF0">>

SweptScreen ==
  <<"AUNITS_DBM">> \o SetAttenuation
    \o <<"POS", "VAVG", "MXMH_TRA", "ST_AUTO", "SP">> \o ArmAndWait

CavityQ == <<"SMP", "VAVG", "SP">> \o ArmAndWait \o <<"probe">>

\* Every check catches what its own steps raise, and the next one runs.
ValidateDevices(q) ==
  Trying(SourcePrepare) \o Trying(<<"CF1">>) \o Trying(<<"L1">>)
    \o Trying(<<"RF1">> \o AwaitSettled) \o Trying(<<"RF0">>) \o Trying(Prepare)
    \o Trying(Configure("POS", "RB") \o MeasurePeak("probe"))
    \o Trying(<<"CF1", "RF1">> \o PeakPreselector(q) \o <<"RF0">>)
    \o Trying(MeasurePeak("probe"))

\* The panel applies, may peak, and feeds: any span, detector and hold.
PanelApply == Configure("SMP", "RB_AUTO") \o <<"CF", "SP", "ST_AUTO", "MXMH_TRA">>
SpectrumPanel(q) ==
  IF q = 0 THEN <<>>
  ELSE PanelApply \o PeakPreselector(q) \o <<"CF", "SP", "RB_AUTO">> \o ArmAndWait
         \o ReadAndCalibrate

Script(g, q) ==
  CASE g = "reference" -> AcquireReference(q)
    [] g = "wall"      -> MeasureWall(q)
    [] g = "drift"     -> ReferenceDrift(q)
    [] g = "check"     -> CheckPath(q)
    [] g = "chain"     -> ChainSweep(q)
    [] g = "sweep"     -> SteppedCwSweep(q)
    [] g = "tracked"   -> TrackedSweep(q)
    [] g = "localize"  -> Localize(q)
    [] g = "walk"      -> NearfieldWalkaround(q)
    [] g = "screen"    -> SweptScreen
    [] g = "cavity"    -> CavityQ
    [] g = "validate"  -> ValidateDevices(q)
    [] g = "panel"     -> SpectrumPanel(q)

----------------------------------------------------------------------------
\* Running them.

Kinds == {"tone", "floor", "again"}
NoRead == [det |-> "none"]
NoRow == [dac |-> "none"]
NoRows == [q \in Point |-> NoRow]
Unread == [k \in Kinds |-> NoRead]
Held == \A q \in Point : rows[q] # NoRow

ProgramInit ==
  /\ dev = [level |-> "reset", tf |-> 0, rf |-> "RF0", sweep |-> "CONTS", trace |-> "stale",
            det |-> "NRM", span |-> "full", rbw |-> "auto", hold |-> "clear", vavg |-> "off",
            units |-> "DBM", st |-> "auto", at |-> "auto", f |-> 0, yig |-> 0]
  /\ armed = FALSE
  /\ prog = "idle" /\ p = 0 /\ todo = <<>>
  /\ rung = "wide" /\ dac = "none"
  /\ got = Unread /\ rows = NoRows
  /\ runs = 0 /\ faults = 0

\* What is left after the next mark m.
After(s, m) ==
  LET at == CHOOSE i \in DOMAIN s : s[i] = m /\ \A j \in 1..(i - 1) : s[j] # m
  IN SubSeq(s, at + 1, Len(s))

\* The next bracket ahead closes one: an except is waiting.
Guarded(s) ==
  \E i \in DOMAIN s : s[i] = "END" /\ \A j \in 1..(i - 1) : s[j] # "TRY"

\* --topology direct: armed before the first tone, for a campaign, a sweep, a
\* path check or a chain.  The attenuation may wait for the next configure().
ArmDirectChain ==
  /\ prog = "idle" /\ ~armed
  /\ armed' = TRUE
  /\ \E now \in {dev.at, "AT_FLOOR"} : dev' = [dev EXCEPT !.at = now]
  /\ UNCHANGED <<prog, p, todo, rung, dac, got, rows, runs, faults>>

\* Another process has drivers of its own, with the caps they start with.
NewProcess ==
  /\ prog = "idle" /\ armed
  /\ armed' = FALSE
  /\ UNCHANGED <<dev, prog, p, todo, rung, dac, got, rows, runs, faults>>

\* The reference at hand was taken on the chain as it is now.
SameChain == Held /\ armed = (rows[1].ref.at = "AT_FLOOR")

\* Which command runs which pass, with drivers that are armed or not: it opens
\* the instruments or takes control of both, runs the pass, and lets go.
cmd_coordinator(g) == g \in {"reference", "sweep"} \/ (g \in {"wall", "drift"} /\ SameChain)
cmd_checkpath(g) == g = "check"
cmd_chain(g) == g = "chain"
cmd_calibrate(g) == g = "reference" /\ ~armed
cmd_wall(g) == g = "wall" /\ SameChain /\ ~armed
cmd_capture(g) == cmd_calibrate(g) \/ cmd_wall(g)
cmd_sweep(g) == g \in {"sweep", "screen"} /\ ~armed
cmd_localize(g) == g = "localize" /\ ~armed
cmd_q(g) == g = "cavity" /\ ~armed
cmd_validate(g) == g = "validate" /\ ~armed
cmd_walkaround(g) == g = "walk" /\ ~armed
Panels(g) == g \in {"panel", "tracked"} /\ ~armed

MayRun(g) ==
  \/ cmd_coordinator(g) \/ cmd_checkpath(g) \/ cmd_chain(g) \/ cmd_calibrate(g)
  \/ cmd_wall(g) \/ cmd_capture(g) \/ cmd_sweep(g) \/ cmd_localize(g) \/ cmd_q(g)
  \/ cmd_validate(g) \/ cmd_walkaround(g) \/ Panels(g)

Part(g, q) ==
  /\ p' = q
  /\ todo' = Script(g, q)
  /\ rung' = IF g \in {"wall", "drift"} /\ q # 0 THEN rows[q].rung ELSE "wide"
  /\ dac' = "none"
  /\ got' = Unread

Begin(g) ==
  /\ prog = "idle" /\ runs < MaxRuns /\ MayRun(g)
  /\ \E q \in IF g \in OneFrequency THEN Point ELSE {0} : Part(g, q)
  /\ prog' = g
  /\ rows' = IF g = "reference" THEN NoRows ELSE rows
  /\ runs' = runs + 1
  /\ UNCHANGED <<dev, armed, faults>>

NextPart ==
  /\ prog # "idle" /\ todo = <<>> /\ p < N /\ prog \notin OneFrequency
  /\ Part(prog, p + 1)
  /\ UNCHANGED <<dev, armed, prog, rows, runs, faults>>

Idles ==
  /\ prog' = "idle" /\ p' = 0 /\ todo' = <<>>
  /\ rung' = "wide" /\ dac' = "none" /\ got' = Unread
  /\ UNCHANGED <<armed, runs>>

Ends ==
  /\ prog # "idle" /\ todo = <<>>
  /\ p = N \/ prog \in OneFrequency
  /\ dev' = [dev EXCEPT !.rf = "RF0"]
  /\ Idles
  /\ UNCHANGED <<rows, faults>>

Meets(c) == todo # <<>> /\ Head(todo) = c /\ todo' = Tail(todo)
Decisions == Kinds \cup {"GUARD", "PSDAC?", "LADDER", "ROW"}

Sends ==
  /\ todo # <<>> /\ Head(todo) \notin Decisions
  /\ todo' = Tail(todo)
  /\ dev' = Obeys(dev, Head(todo), p, rung)
  /\ UNCHANGED <<armed, prog, p, rung, dac, got, rows, runs, faults>>

\* MKA? after two sweeps: the settings and the input the reading was of.
Reads ==
  \E k \in Kinds :
    /\ Meets(k)
    /\ got' = [got EXCEPT ![k] = dev]
    /\ UNCHANGED <<dev, armed, prog, p, rung, dac, rows, runs, faults>>

\* The real-tone guard of peak_preselector.
ToneShows == dev.trace = "stale" \/ (dev.rf = "RF1" /\ dev.tf = p)
Guards ==
  /\ todo # <<>> /\ Head(todo) = "GUARD"
  /\ \/ ToneShows /\ todo' = Tail(todo)
     \/ todo' = After(todo, "NONE")
  /\ UNCHANGED <<dev, armed, prog, p, rung, dac, got, rows, runs, faults>>

Peaked ==
  /\ Meets("PSDAC?")
  /\ dac' = "read"
  /\ UNCHANGED <<dev, armed, prog, p, rung, got, rows, runs, faults>>

\* The capability reaches the target, or the next rung is tried.
Ladder ==
  /\ todo # <<>> /\ Head(todo) = "LADDER"
  /\ \/ todo' = Tail(todo) /\ UNCHANGED <<rung, got>>
     \/ /\ rung = "wide" /\ rung' = "narrow"
        /\ todo' = Rung(p, FALSE) \o todo
        /\ got' = Unread
  /\ UNCHANGED <<dev, armed, prog, p, dac, rows, runs, faults>>

Row ==
  /\ Meets("ROW")
  /\ rows' = [rows EXCEPT ![p] = [rung |-> rung, dac |-> dac,
                                  floor |-> got["floor"], ref |-> got["tone"]]]
  /\ UNCHANGED <<dev, armed, prog, p, rung, dac, got, runs, faults>>

Raisable == todo # <<>> /\ Head(todo) \notin {"TRY", "END", "NONE", "LADDER", "ROW"}

Caught ==
  /\ Raisable /\ Guarded(todo) /\ faults < MaxFaults
  /\ todo' = After(todo, "END")
  /\ faults' = faults + 1
  /\ UNCHANGED <<dev, armed, prog, p, rung, dac, got, rows, runs>>

\* Of the analyzer only _read_and_calibrate's finally restores something.
CutShort ==
  /\ Raisable /\ ~Guarded(todo) /\ faults < MaxFaults
  /\ \E s \in {dev.sweep, "CONTS"} :
       dev' = [dev EXCEPT !.rf = "RF0", !.sweep = s]
  /\ rows' = IF prog = "reference" THEN NoRows ELSE rows
  /\ faults' = faults + 1
  /\ Idles

\* The source panel keys and retunes on a thread of its own.
SourcePanel ==
  /\ prog = "panel" /\ dev.tf # p
  /\ dev' = [dev EXCEPT !.rf = "RF1", !.tf = p, !.trace = "stale"]
  /\ UNCHANGED <<armed, prog, p, todo, rung, dac, got, rows, runs, faults>>

\* A killed transfer, an earlier session, a hand on the front panel.
OtherHand ==
  /\ prog = "idle" /\ faults < MaxFaults
  /\ dev' \in {[dev EXCEPT !.st = "stuck"], [dev EXCEPT !.units = "V"],
              [dev EXCEPT !.hold = "max"], [dev EXCEPT !.sweep = "SNGLS"],
              [dev EXCEPT !.vavg = "on"]}
  /\ faults' = faults + 1
  /\ UNCHANGED <<armed, prog, p, todo, rung, dac, got, rows, runs>>

ProgramNext ==
  \/ ArmDirectChain \/ NewProcess
  \/ \E g \in Programs : Begin(g)
  \/ NextPart \/ Ends \/ Sends \/ Reads \/ Guards \/ Peaked \/ Ladder \/ Row
  \/ Caught \/ CutShort \/ SourcePanel \/ OtherHand

ProgramSpec == ProgramInit /\ [][ProgramNext]_pvars

----------------------------------------------------------------------------
\* Properties.

\* Whatever ran before and wherever it broke off, an acceptance read is taken
\* at its frequency, in zero span, from a live clear-write trace in dBm whose
\* sweep began after the last change, the source keyed for a tone and off for
\* a floor, with the detector of its kind (drivers.py configure, measure_peak,
\* measure_floor).
ReadsAreClean ==
  \A k \in Kinds : got[k] # NoRead =>
    LET d == got[k]
    IN /\ d.f = p /\ d.tf = p /\ d.span = "zero" /\ d.rbw = rung
       /\ d.hold = "clear" /\ d.vavg = "off" /\ d.units = "DBM"
       /\ d.trace = "fresh"
       /\ IF k = "floor" THEN d.det = "SMP" /\ d.rf = "RF0"
                         ELSE d.det = "POS" /\ d.rf = "RF1"

\* The reading a point is compared by was taken with the settings, drive and
\* preselector its reference was, so that their difference is the shield.  A
\* high-band row that recorded no DAC is the exception: nothing restores the
\* YIG for it, and the pass does not refuse it (loop.py measure_wall,
\* reference_drift, _configure_analyzer).
Comparable(q) == {"f", "tf", "span", "rbw", "det", "hold", "vavg", "units", "at",
                  "level"}
                 \cup (IF q \in High /\ rows[q].dac # "none" THEN {"yig"} ELSE {})
PassesCompare ==
  got["again"] # NoRead =>
    \A s \in Comparable(p) : got["again"][s] = rows[p].ref[s]

\* On a direct chain no tone leaves the source above the armed cap, or enters
\* the analyzer below the armed attenuation, though every preset drops both
\* (drivers.py arm_direct_chain, prepare, configure, set_power).
InputProtected ==
  armed /\ dev.rf = "RF1" => dev.at = "AT_FLOOR" /\ dev.level = "capped"

=============================================================================

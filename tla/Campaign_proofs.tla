---------------------------- MODULE Campaign_proofs ----------------------------
(***************************************************************************)
(* Control of the two instruments over a campaign, for every plan, bench   *)
(* and set of things that go wrong: where the leases are, and where the    *)
(* source radiates, follow the worker.                                     *)
(***************************************************************************)
EXTENDS Campaign, TLAPS

\* The parts of the state that control is about, and their values.
ControlType ==
  /\ pc \in InControl \cup {"idle", "ready", "leaseRx", "leaseTx", "report"}
  /\ lease \in [Inst -> {"free", "mine", "rival"}]
  /\ beat \in {"none", "fresh", "stale"} /\ hung \in {"yes", "no"}
  /\ rf \in {"on", "off"} /\ deaf \in {"yes", "no"}

\* Where the worker has the source keyed.
Keyed == {"gateOn", "refOn", "wallOn", "walk", "release"}

\* A lease is the worker's only from the lease on to the unlease; a source that
\* radiates is keyed, or could not be told; and the heartbeat rests at the prompt.
ControlInv ==
  /\ ControlType
  /\ pc \notin InControl \cup {"leaseTx"} => \A i \in Inst : lease[i] # "mine"
  /\ pc = "leaseTx" => lease["tx"] # "mine"
  /\ \A i \in Inst : lease[i] = "rival" => "rival" \in Happens
  /\ rf = "on" => pc \in Keyed \/ deaf = "yes" \/ "rival" \in Happens
  /\ pc = "park" => beat = "none"

LEMMA ControlInit == Init => ControlInv
BY DEF Init, ControlInv, ControlType, InControl, Bus, Inst, Keyed

LEMMA ControlNext == ControlInv /\ [Next]_vars => ControlInv'
<1> SUFFICES ASSUME ControlInv, [Next]_vars PROVE ControlInv'
  OBVIOUS
<1> USE DEF ControlInv, ControlType, InControl, Bus, Inst, Keyed,
            window, rows, control, world
<1>1. CASE Ready
  BY <1>1 DEF Ready, Quits
<1>2. CASE LeaseRx
  BY <1>2 DEF LeaseRx, Quits
<1>3. CASE LeaseTx
  BY <1>3 DEF LeaseTx, Quits, Rollback, WalkBegins
<1>4. CASE GateKeys \/ RefKeys \/ WallKeys
  BY <1>4 DEF GateKeys, RefKeys, WallKeys
<1>5. CASE GateReads
  BY <1>5 DEF GateReads, Ends
<1>6. CASE RefReads
  BY <1>6 DEF RefReads, Ends
<1>7. CASE Prompt
  BY <1>7 DEF Prompt, Paused
<1>8. CASE Unpark
  BY <1>8 DEF Unpark, Ends
<1>9. CASE WallReads
  BY <1>9 DEF WallReads, Ends
<1>10. CASE WalkReads
  BY <1>10 DEF WalkReads, Ends
<1>11. CASE Raises /\ deaf' \in {deaf, "yes"}
  BY <1>11 DEF Raises, Ends
<1>12. CASE ReleaseDekeys
  BY <1>12 DEF ReleaseDekeys
<1>13. CASE ReleaseLeases
  BY <1>13 DEF ReleaseLeases
<1>14. CASE Report
  BY <1>14 DEF Report
<1>15. CASE Run
  BY <1>15 DEF Run
<1>16. CASE StopBegins \/ StopFinishes \/ Drain \/ ShieldContinue
  BY <1>16 DEF StopBegins, StopFinishes, Drain, ShieldContinue
<1>17. CASE BeatStales
  BY <1>17 DEF BeatStales
<1>18. CASE Lapse
  BY <1>18 DEF Lapse
<1>19. CASE Retake
  BY <1>19 DEF Retake
<1>20. CASE DeadMan
  BY <1>20 DEF DeadMan
<1>21. CASE \E i \in Inst : RivalTakes(i) \/ RivalLeaves(i)
  BY <1>21 DEF RivalTakes, RivalLeaves
<1>22. CASE Hangs \/ Unhangs \/ Freezes \/ AmbientRises
  BY <1>22 DEF Hangs, Unhangs, Freezes, AmbientRises
<1>23. CASE UNCHANGED vars
  BY <1>23 DEF vars
<1>24. QED
  BY <1>1, <1>2, <1>3, <1>4, <1>5, <1>6, <1>7, <1>8, <1>9, <1>10, <1>11,
     <1>12, <1>13, <1>14, <1>15, <1>16, <1>17, <1>18, <1>19, <1>20, <1>21,
     <1>22, <1>23
     DEF Next, Worker, Clock, LinkFails, Refused

LEMMA ControlHolds == Spec => []ControlInv
BY ControlInit, ControlNext, PTL DEF Spec

\* run_campaign and the walk, whatever raises, hangs, lapses or is refused:
\* nothing stays leased, and what radiates could not be told to stop.
THEOREM QuietAfterwards == Spec => []IdleIsQuiet
<1>1. ControlInv => IdleIsQuiet
  BY DEF ControlInv, ControlType, IdleIsQuiet, InControl, Bus, Keyed
<1>2. QED
  BY <1>1, ControlHolds, PTL

\* _pause_beat: however long the operator takes over the shield, neither lease
\* lapses.
THEOREM PauseIsSafe == Spec => PauseKeepsControl
<1>1. ControlInv /\ [Next]_vars =>
        [pc = "park" /\ pc' = "park" =>
           \A i \in Inst : lease[i] = "mine" => lease'[i] = "mine"]_vars
  <2> SUFFICES ASSUME ControlInv, Next, pc = "park", pc' = "park",
                      NEW i \in Inst, lease[i] = "mine"
               PROVE  lease'[i] = "mine"
    OBVIOUS
  <2> USE DEF ControlInv, ControlType, Inst, Bus, InControl, window, rows, control, world
  <2>1. CASE Worker \/ LinkFails
    BY <2>1
       DEF Worker, LinkFails, Ready, LeaseRx, LeaseTx, GateKeys, GateReads, RefKeys,
           RefReads, Prompt, Unpark, WallKeys, WallReads, WalkReads, Refused,
           Raises, Ends, ReleaseDekeys, ReleaseLeases, Report
  <2>2. CASE Clock
    BY <2>2 DEF Clock, BeatStales, Lapse, Stalled, DeadMan
  <2>3. CASE Retake
    BY <2>3 DEF Retake
  <2>4. CASE Run \/ StopBegins \/ StopFinishes \/ Drain \/ ShieldContinue
    BY <2>4 DEF Run, StopBegins, StopFinishes, Drain, ShieldContinue
  <2>5. CASE \E j \in Inst : RivalTakes(j) \/ RivalLeaves(j)
    BY <2>5 DEF RivalTakes, RivalLeaves
  <2>6. CASE Hangs \/ Unhangs \/ Freezes \/ AmbientRises
    BY <2>6 DEF Hangs, Unhangs, Freezes, AmbientRises
  <2>7. QED
    BY <2>1, <2>2, <2>3, <2>4, <2>5, <2>6 DEF Next
<1>2. QED
  BY <1>1, ControlHolds, PTL DEF Spec, PauseKeepsControl

-----------------------------------------------------------------------------
Before == {"ready", "leaseRx", "leaseTx", "gate", "gateOn"}

\* The rest of the state.  A run asks for the shield once, and the wall pass starts with every reference
\* row there.
RowType ==
  /\ gui \in {"free", "stopping"} /\ flags \subseteq {"stop", "shieldOk"}
  /\ button \in {"on", "off"} /\ prompts \in 0..MaxRuns
  /\ pt \in Point /\ runs \in 0..MaxRuns /\ rung \in Rung /\ floor \in Nat
  /\ ref \in [Point -> Row \cup {NoRow}] /\ wall \in [Point -> WallRow \cup {NoRow}]
  /\ outcome \in {"none", "aborted", "error", "path_fault", "pass", "fail", "done"}
  /\ dac \in 0..N /\ sweep \in {"live", "frozen"} /\ shield \in {"in", "out"}
  /\ last \in Nat /\ air \in {0, Ambient} /\ setup \in Setups

RowsInv ==
  /\ RowType
  /\ prompts <= runs
  /\ pc \in Before \cup {"ref", "refOn", "prompt"} => prompts < runs
  /\ pc \in Before => pt = 1
  /\ pc \in {"ref", "refOn"} => \A i \in 1..(pt - 1) : ref[i] \in Row
  /\ pc \in {"prompt", "park", "wall", "wallOn"} => \A i \in Point : ref[i] \in Row

LEMMA NoiseIsNat == \A r \in Rung : Noise[r] \in Nat
BY CampaignAssumption DEF Rung

LEMMA ReadsAreLevels ==
  ASSUME RowType, NEW i \in Point, NEW r \in Rung, NEW d, NEW keyed \in BOOLEAN
  PROVE  Reads(i, r, d, keyed) \in Nat
<1>1. Noise[r] \in Nat /\ air \in Nat
  BY NoiseIsNat, CampaignAssumption DEF RowType
<1>2. setup.path[i] \in Nat /\ setup.leak[i] \in Nat
  BY CampaignAssumption DEF RowType
<1>3. Quiet(r) \in Nat /\ Tone(i) \in Nat
  BY <1>1, <1>2 DEF Quiet, Larger, Tone
<1>4. QED
  BY <1>3 DEF Reads, Larger, RowType

LEMMA RowsInit == Init => RowsInv
BY CampaignAssumption
   DEF Init, RowsInv, RowType, InControl, Bus, Inst, Before, Rung, Point, NoRow, Row, WallRow, NoDac

LEMMA RowsNext == RowsInv /\ [Next]_vars => RowsInv'
<1> SUFFICES ASSUME RowsInv, [Next]_vars PROVE RowsInv'
  OBVIOUS
<1>0. N \in Nat \ {0} /\ MaxRuns \in Nat /\ Ambient \in Nat
  BY CampaignAssumption
<1> USE <1>0
    DEF RowsInv, RowType, InControl, Bus, Inst, Before, NoDac, window, rows, control, world
<1>1. CASE Ready \/ LeaseRx \/ LeaseTx
  <2>1. /\ pc \in {"ready", "leaseRx", "leaseTx"}
        /\ pc' \in {"leaseRx", "leaseTx", "gate", "walk", "report"}
        /\ outcome' \in {outcome, "error"}
        /\ UNCHANGED <<window, pt, runs, rows, dac, last, world>>
    BY <1>1 DEF Ready, LeaseRx, LeaseTx, Quits, WalkBegins
  <2>2. QED
    BY <2>1
<1>2. CASE GateKeys
  BY <1>2 DEF GateKeys
<1>3. CASE GateReads
  <2>1. /\ pc = "gateOn" /\ pc' \in {"ref", "release"}
        /\ outcome' \in {outcome, "error", "path_fault"}
        /\ UNCHANGED <<window, pt, runs, rows, dac, last, world>>
    BY <1>3 DEF GateReads, Ends
  <2>2. QED
    BY <2>1
<1>4. CASE RefKeys
  <2>1. floor' \in Nat
    BY <1>4, ReadsAreLevels DEF RefKeys
  <2>2. /\ pc = "ref" /\ pc' = "refOn" /\ last' = floor'
        /\ UNCHANGED <<window, pt, runs, rung, ref, wall, outcome, dac, world>>
    BY <1>4 DEF RefKeys
  <2>3. QED
    BY <2>1, <2>2
<1>5. CASE RefReads
  <2>1. PICK peak \in Point \cup {NoDac}, at \in 0..N, level \in Nat,
             bracket \in {"yes", "no", "assumed"} :
           /\ dac' = at /\ last' = level
           /\ IF level - floor - Margin < Target /\ rung + 1 \in Rung
              THEN rung' = rung + 1 /\ pc' = "ref" /\ UNCHANGED <<pt, ref, beat, outcome>>
              ELSE /\ ref' = [ref EXCEPT ![pt] =
                        [seen |-> "yes", level |-> level, floor |-> floor,
                         cap |-> level - floor - Margin, rung |-> rung, dac |-> peak,
                         reversible |-> bracket]]
                   /\ beat' = "fresh" /\ rung' = 1
                   /\ IF "stop" \in flags THEN Ends("aborted") /\ UNCHANGED pt
                      ELSE /\ IF pt < N THEN pt' = pt + 1 /\ pc' = "ref"
                                        ELSE pt' = 1 /\ pc' = "prompt"
                           /\ UNCHANGED outcome
    <3> DEFINE peak == IF rung = 1 THEN Peaked(pt) ELSE IF dac = pt THEN dac ELSE NoDac
               at == IF peak = NoDac THEN dac ELSE peak
               level == Reads(pt, rung, at, TRUE)
               after == Reads(pt, rung, at, FALSE)
    <3>1. level \in Nat /\ \A off2 : Bracket(level, after, off2) \in {"yes", "no", "assumed"}
      BY ReadsAreLevels DEF Bracket
    <3>2. peak \in Point \cup {NoDac} /\ at \in 0..N
      BY DEF Peaked, Point
    <3> HIDE DEF peak, at, level, after
    <3>3. PICK off2 \in TrailingRead :
          /\ dac' = at /\ last' = level
          /\ IF level - floor - Margin < Target /\ rung + 1 \in Rung
             THEN rung' = rung + 1 /\ pc' = "ref" /\ UNCHANGED <<pt, ref, beat, outcome>>
             ELSE /\ ref' = [ref EXCEPT ![pt] =
                       [seen |-> "yes", level |-> level, floor |-> floor,
                        cap |-> level - floor - Margin, rung |-> rung, dac |-> peak,
                        reversible |-> Bracket(level, after, off2)]]
                  /\ beat' = "fresh" /\ rung' = 1
                  /\ IF "stop" \in flags THEN Ends("aborted") /\ UNCHANGED pt
                     ELSE /\ IF pt < N THEN pt' = pt + 1 /\ pc' = "ref"
                                       ELSE pt' = 1 /\ pc' = "prompt"
                          /\ UNCHANGED outcome
      BY <1>5 DEF RefReads, TrailingRead, peak, at, level, after
    <3>4. QED
      BY <3>1, <3>2, <3>3
  <2>2. /\ pc = "refOn" /\ rf' = "off"
        /\ UNCHANGED <<window, runs, floor, wall, lease, hung, world>>
    BY <1>5 DEF RefReads
  <2>3. [seen |-> "yes", level |-> level, floor |-> floor,
         cap |-> level - floor - Margin, rung |-> rung, dac |-> peak,
         reversible |-> bracket] \in Row
    BY <2>1, CampaignAssumption DEF Row, Point
  <2>4. CASE level - floor - Margin < Target /\ rung + 1 \in Rung
    BY <2>1, <2>2, <2>4
  <2>5. CASE ~(level - floor - Margin < Target /\ rung + 1 \in Rung)
    <3>1. /\ ref' \in [Point -> Row \cup {NoRow}] /\ ref'[pt] \in Row
          /\ \A i \in Point \ {pt} : ref'[i] = ref[i]
      BY <2>1, <2>3, <2>5
    <3>2. 1 \in Rung /\ 1 \in Point
      BY DEF Rung, Point
    <3>3. CASE "stop" \in flags
      BY <2>1, <2>2, <2>5, <3>1, <3>2, <3>3 DEF Ends
    <3>4. CASE "stop" \notin flags /\ pt < N
      BY <2>1, <2>2, <2>5, <3>1, <3>2, <3>4 DEF Point
    <3>5. CASE "stop" \notin flags /\ ~(pt < N)
      BY <2>1, <2>2, <2>5, <3>1, <3>2, <3>5 DEF Point
    <3>6. QED
      BY <3>3, <3>4, <3>5
  <2>6. QED
    BY <2>4, <2>5
<1>6. CASE Prompt
  BY <1>6 DEF Prompt, Paused
<1>7. CASE Unpark
  BY <1>7 DEF Unpark, Ends
<1>8. CASE WallKeys
  <2>1. floor' \in Nat
    BY <1>8, ReadsAreLevels DEF WallKeys, Row
  <2>2. /\ pc = "wall" /\ pc' = "wallOn" /\ last' = floor'
        /\ UNCHANGED <<window, pt, runs, rung, ref, wall, outcome, dac, world>>
    BY <1>8 DEF WallKeys
  <2>3. QED
    BY <2>1, <2>2
<1>9. CASE WallReads
  <2>1. ref[pt] \in Row /\ ref[pt].rung \in Rung /\ pc = "wallOn"
    BY <1>9 DEF WallReads, Row
  <2>2. dac' \in 0..N
    BY <1>9, <2>1 DEF WallReads, Restored, Row
  <2>3. last' \in Nat
    BY <1>9, <2>1, ReadsAreLevels DEF WallReads
  <2>4. Verdict(ref[pt], last') \in WallRow
    BY <2>1, <2>3 DEF Verdict, WallRow, Row
  <2>5. wall' \in [Point -> WallRow \cup {NoRow}]
    BY <1>9, <2>4 DEF WallReads
  <2>6. /\ pt' \in Point /\ pc' \in {"release", "wall"}
        /\ outcome' \in {outcome, "aborted", "error", "done"}
        /\ pc' = "wall" => \A i \in Point : ref[i] \in Row
    BY <1>9 DEF WallReads, Ends, Point
  <2>7. /\ rf' = "off" /\ beat' = "fresh"
        /\ UNCHANGED <<window, runs, floor, rung, ref, lease, hung, world>>
    BY <1>9 DEF WallReads
  <2>8. QED
    BY <2>2, <2>3, <2>5, <2>6, <2>7
<1>10. CASE WalkReads
  <2>1. last' \in Nat
    <3>1. 1 \in Rung
      BY CampaignAssumption DEF Rung
    <3>2. QED
      BY <1>10, <3>1, ReadsAreLevels DEF WalkReads
  <2>2. /\ pc = "walk" /\ pc' \in {"walk", "release"} /\ outcome' \in {outcome, "aborted"}
        /\ UNCHANGED <<window, pt, runs, rows, dac, world>>
    BY <1>10 DEF WalkReads, Ends
  <2>3. QED
    BY <2>1, <2>2
<1>11. CASE Raises /\ deaf' \in {deaf, "yes"}
  BY <1>11 DEF Raises, Ends
<1>12. CASE ReleaseDekeys \/ ReleaseLeases \/ Report
  <2>1. /\ pc' \in {"unlease", "report", "idle"} /\ outcome' \in {outcome, "pass", "fail"}
        /\ UNCHANGED <<window, pt, runs, rows, dac, last, world>>
    BY <1>12 DEF ReleaseDekeys, ReleaseLeases, Report
  <2>2. QED
    BY <2>1
<1>13. CASE Run
  BY <1>13 DEF Run, Rung, Point
<1>14. CASE StopBegins \/ StopFinishes \/ Drain \/ ShieldContinue
  <2>1. /\ gui' \in {"free", "stopping"} /\ flags' \subseteq {"stop", "shieldOk"}
        /\ button' \in {"on", "off"} /\ prompts' \in {0, prompts} /\ shield' \in {"in", "out"}
        /\ UNCHANGED <<pc, pt, runs, rows, outcome, dac, last, sweep, air, setup>>
    BY <1>14 DEF StopBegins, StopFinishes, Drain, ShieldContinue
  <2>2. QED
    BY <2>1
<1>15. CASE BeatStales \/ Lapse \/ Retake \/ DeadMan
  <2>1. UNCHANGED <<window, pc, pt, runs, rows, outcome, dac, last, sweep, air, shield, setup>>
    BY <1>15 DEF BeatStales, Lapse, Retake, DeadMan
  <2>2. QED
    BY <2>1
<1>16. CASE \E i \in Inst : RivalTakes(i) \/ RivalLeaves(i)
  <2>1. UNCHANGED <<window, pc, pt, runs, rows, outcome, dac, last, world>>
    BY <1>16 DEF RivalTakes, RivalLeaves
  <2>2. QED
    BY <2>1
<1>17. CASE Hangs \/ Unhangs \/ Freezes \/ AmbientRises
  <2>1. /\ sweep' \in {"live", "frozen"} /\ air' \in {0, Ambient}
        /\ UNCHANGED <<window, pc, pt, runs, rows, outcome, dac, last, shield, setup>>
    BY <1>17 DEF Hangs, Unhangs, Freezes, AmbientRises
  <2>2. QED
    BY <2>1
<1>18. CASE UNCHANGED vars
  BY <1>18 DEF vars
<1>19. QED
  BY <1>1, <1>2, <1>3, <1>4, <1>5, <1>6, <1>7, <1>8, <1>9, <1>10, <1>11,
     <1>12, <1>13, <1>14, <1>15, <1>16, <1>17, <1>18
     DEF Next, Worker, Clock, LinkFails, Refused

LEMMA RowsHold == Spec => []RowsInv
BY RowsInit, RowsNext, PTL DEF Spec

\* Every variable keeps its type, rows of both passes included: the wall pass
\* never reads the row of a point that has no reference.
THEOREM TypeCorrect == Spec => []TypeOK
<1>1. RowsInv /\ ControlInv => TypeOK
  BY DEF RowsInv, RowType, ControlInv, ControlType, TypeOK
<1>2. QED
  BY <1>1, RowsHold, ControlHolds, PTL
-----------------------------------------------------------------------------
\* What a reference row says that the code does not flag: the tone was there, so the
\* level is what the bench lets through at that moment, behind a preselector peaked on it.
RefTrue(i) ==
  ref[i] \in Row =>
    /\ ref[i].cap = ref[i].level - ref[i].floor - Margin
    /\ ref[i].reversible = "yes" =>
         /\ ref[i].level \in {setup.path[i], setup.leak[i]}
         /\ i \in High => ref[i].dac = i

\* What a wall row says that passes: the reference stands above the leak by the target.
WallTrue(i) ==
  /\ wall[i] \in WallRow
  /\ wall[i].verdict = "PASS" /\ ref[i].reversible = "yes" /\ wall[i].floor <= ref[i].floor
       => ref[i].level - setup.leak[i] >= Target

\* The last wall point is one at which the analyzer's health is asked for.
LastIsChecked == HealthEvery > 0 /\ N % HealthEvery = 0

\* The reference pass goes upwards and meets a preselector left at a lower point; the
\* shield is in once the operator has said so, unless he stopped; and a row of either
\* pass is true as soon as it is there, those of the wall if the sweep is alive.
PassInv ==
  /\ gui = "stopping" => "stop" \in flags
  /\ "shieldOk" \in flags /\ "stop" \notin flags => shield = "in"
  /\ pc \in {"gateOn", "ref", "refOn"} => dac <= pt /\ (rung = 1 => dac < pt)
  /\ \A i \in Point : RefTrue(i)
  /\ pc \in {"prompt", "park"} => pt = 1
  /\ pc \in {"wall", "wallOn"} /\ "stop" \notin flags =>
       shield = "in" /\ (sweep = "live" => \A i \in 1..(pt - 1) : WallTrue(i))
  /\ outcome \in {"done", "pass", "fail"} => pc \in {"release", "unlease", "report", "idle"}
  /\ outcome \in {"pass", "fail"} => pc = "idle"
  /\ outcome \in {"done", "pass"} /\ (sweep = "live" \/ LastIsChecked) =>
       \A i \in Point : WallTrue(i)
  /\ outcome \in {"done", "pass"} => \A i \in Point : ref[i] \in Row
  /\ outcome = "pass" => \A i \in Point : wall[i].verdict = "PASS"

LEMMA PassInit == Init => PassInv
BY CampaignAssumption DEF Init, PassInv, RefTrue, Row, NoRow

\* A keyed read of a live analyzer, with the preselector on the point, is at least the tone.
LEMMA LiveReadsShowTheTone ==
  ASSUME RowType, sweep = "live", NEW i \in Point, NEW r \in Rung, NEW d, i \in High => d = i
  PROVE  Reads(i, r, d, TRUE) >= Tone(i)
<1>1. Noise[r] \in Nat /\ air \in Nat
  BY NoiseIsNat, CampaignAssumption DEF RowType
<1>2. setup.path[i] \in Nat /\ setup.leak[i] \in Nat
  BY CampaignAssumption DEF RowType
<1>3. QED
  BY <1>1, <1>2 DEF Reads, Quiet, Larger, Tone

\* A reversible read is of the tone: a frozen trace, a read of noise and a preselector
\* that is elsewhere all come back as high with the source off.
LEMMA ReversibleReadsAreTones ==
  ASSUME RowType, Guard > 0, NEW i \in Point, NEW r \in Rung, NEW d, NEW f \in Nat,
         Reads(i, r, d, TRUE) >= Larger(f, Reads(i, r, d, FALSE)) + Guard
  PROVE  Reads(i, r, d, TRUE) = Tone(i) /\ (i \in High => d = i)
<1>1. Noise[r] \in Nat /\ air \in Nat
  BY NoiseIsNat, CampaignAssumption DEF RowType
<1>2. setup.path[i] \in Nat /\ setup.leak[i] \in Nat
  BY CampaignAssumption DEF RowType
<1>3. Quiet(r) \in Nat /\ Tone(i) \in Nat
  BY <1>1, <1>2 DEF Quiet, Larger, Tone
<1>4. Reads(i, r, d, TRUE) > Reads(i, r, d, FALSE)
  <2> DEFINE on == Reads(i, r, d, TRUE)
             off == Reads(i, r, d, FALSE)
  <2>1. on \in Nat /\ off \in Nat
    BY ReadsAreLevels
  <2>2. on >= Larger(f, off) + Guard
    OBVIOUS
  <2> HIDE DEF on, off
  <2>3. on > off
    BY <2>1, <2>2, CampaignAssumption DEF Larger
  <2>4. QED
    BY <2>3 DEF on, off
<1>5. QED
  BY <1>3, <1>4 DEF Reads, Larger, RowType


LEMMA PassNext ==
  ASSUME Guard > 0
  PROVE  RowsInv /\ PassInv /\ [Next]_vars => PassInv'
<1> SUFFICES ASSUME RowsInv, PassInv, [Next]_vars PROVE PassInv'
  OBVIOUS
<1>0. N \in Nat \ {0} /\ Ambient \in Nat
  BY CampaignAssumption
<1>a. ASSUME UNCHANGED <<ref, setup>>
      PROVE  \A i \in Point : RefTrue(i)' <=> RefTrue(i)
  BY <1>a DEF RefTrue
<1>b. ASSUME UNCHANGED <<ref, wall, setup>>
      PROVE  \A i \in Point : WallTrue(i)' <=> WallTrue(i)
  BY <1>b DEF WallTrue
<1>c. ASSUME UNCHANGED <<gui, flags, pt, rung, ref, wall, dac, setup, shield>>,
             sweep' \in {sweep, "frozen"}, outcome' \in {outcome, "aborted", "error", "path_fault"},
             \/ pc' = pc
             \/ pc' \notin {"gateOn", "ref", "refOn", "prompt", "park", "wall", "wallOn"}
                /\ (pc' \in {"release", "unlease", "report", "idle"}
                    \/ outcome' \notin {"done", "pass", "fail"}),
             outcome' \in {"pass", "fail"} => pc' = "idle"
      PROVE  PassInv'
  <2>1. (\A i \in Point : RefTrue(i))'
    BY <1>a, <1>c DEF PassInv
  <2>2. pc' \in {"wall", "wallOn"} /\ "stop" \notin flags' =>
          shield' = "in" /\ (sweep' = "live" => \A i \in 1..(pt' - 1) : WallTrue(i)')
    <3>1. \A i \in 1..(pt - 1) : i \in Point
      BY <1>0 DEF RowsInv, RowType, Point
    <3>2. QED
      BY <1>b, <1>c, <3>1 DEF PassInv
  <2>3. outcome' \in {"done", "pass"} /\ (sweep' = "live" \/ LastIsChecked) =>
          \A i \in Point : WallTrue(i)'
    BY <1>b, <1>c DEF PassInv
  <2>4. outcome' \in {"done", "pass", "fail"} => pc' \in {"release", "unlease", "report", "idle"}
    BY <1>c DEF PassInv
  <2>5. outcome' = "pass" => \A i \in Point : wall'[i].verdict = "PASS"
    BY <1>c DEF PassInv
  <2>6. QED
    BY <1>c, <2>1, <2>2, <2>3, <2>4, <2>5 DEF PassInv, LastIsChecked
<1> USE DEF window, rows, control, world
<1>1. CASE Ready \/ LeaseRx \/ LeaseTx
  <2>1. /\ pc \in {"ready", "leaseRx", "leaseTx"}
        /\ pc' \in {"leaseRx", "leaseTx", "gate", "walk", "report"}
        /\ outcome' \in {outcome, "error"}
        /\ UNCHANGED <<window, pt, rows, dac, world>>
    BY <1>1 DEF Ready, LeaseRx, LeaseTx, Quits, WalkBegins
  <2>2. outcome \notin {"done", "pass", "fail"}
    BY <2>1 DEF PassInv
  <2>3. QED
    BY <1>c, <2>1, <2>2
<1>2. CASE GateKeys
  <2>1. /\ pc = "gate" /\ pc' = "gateOn" /\ dac' = 0
        /\ UNCHANGED <<window, pt, rows, outcome, world>>
    BY <1>2 DEF GateKeys, NoDac
  <2>2. pt = 1 /\ outcome \notin {"done", "pass", "fail"}
    BY <2>1 DEF RowsInv, Before, PassInv
  <2>3. (\A i \in Point : RefTrue(i))'
    BY <1>a, <2>1 DEF PassInv
  <2>4. QED
    BY <2>1, <2>2, <2>3 DEF PassInv
<1>3. CASE GateReads
  <2>1. /\ pc = "gateOn" /\ UNCHANGED <<window, pt, rows, dac, world>>
        /\ \/ pc' = "ref" /\ outcome' = outcome
           \/ pc' = "release" /\ outcome' \in {"error", "path_fault"}
    BY <1>3 DEF GateReads, Ends
  <2>2. outcome \notin {"done", "pass", "fail"}
    BY <2>1 DEF PassInv
  <2>3. (\A i \in Point : RefTrue(i))'
    BY <1>a, <2>1 DEF PassInv
  <2>4. QED
    BY <2>1, <2>2, <2>3 DEF PassInv
<1>4. CASE RefKeys \/ Prompt
  <2>1. /\ \/ pc = "ref" /\ pc' = "refOn"
           \/ pc = "prompt" /\ pc' = "park"
        /\ UNCHANGED <<gui, flags, pt, rung, ref, wall, outcome, dac, world>>
    BY <1>4 DEF RefKeys, Prompt
  <2>2. outcome \notin {"done", "pass", "fail"}
    BY <2>1 DEF PassInv
  <2>3. (\A i \in Point : RefTrue(i))'
    BY <1>a, <2>1 DEF PassInv
  <2>4. QED
    BY <2>1, <2>2, <2>3 DEF PassInv
<1>7. CASE Unpark
  <2>1. /\ pc = "park" /\ UNCHANGED <<window, pt, rows, dac, world>>
        /\ \/ pc' = "wall" /\ outcome' = outcome /\ "shieldOk" \in flags
           \/ pc' = "release" /\ outcome' \in {"error", "aborted"}
    BY <1>7 DEF Unpark, Ends
  <2>2. outcome \notin {"done", "pass", "fail"} /\ pt = 1
    BY <2>1 DEF PassInv
  <2>3. (\A i \in Point : RefTrue(i))'
    BY <1>a, <2>1 DEF PassInv
  <2>4. QED
    BY <2>1, <2>2, <2>3 DEF PassInv
<1>8. CASE WallKeys
  <2>1. /\ pc = "wall" /\ pc' = "wallOn"
        /\ UNCHANGED <<window, pt, rung, ref, wall, outcome, dac, world>>
    BY <1>8 DEF WallKeys
  <2>2. outcome \notin {"done", "pass", "fail"}
    BY <2>1 DEF PassInv
  <2>3. (\A i \in Point : RefTrue(i))'
    BY <1>a, <2>1 DEF PassInv
  <2>4. \A i \in 1..(pt - 1) : WallTrue(i)' <=> WallTrue(i)
    BY <1>0, <1>b, <2>1 DEF RowsInv, RowType, Point
  <2>5. QED
    BY <2>1, <2>2, <2>3, <2>4 DEF PassInv
<1>10. CASE WalkReads \/ (Raises /\ deaf' \in {deaf, "yes"})
  <2>1. /\ pc \in Bus /\ pc' \in {pc, "release"}
        /\ outcome' \in {outcome, "aborted", "error"}
        /\ pc' = pc \/ outcome' \in {"aborted", "error"}
        /\ UNCHANGED <<window, pt, rows, dac, sweep, shield, setup>>
    BY <1>10 DEF WalkReads, Raises, Ends, Bus
  <2>2. outcome \notin {"done", "pass", "fail"}
    BY <2>1 DEF PassInv, Bus
  <2>3. QED
    BY <1>c, <2>1, <2>2
<1>12. CASE ReleaseDekeys \/ ReleaseLeases
  <2>1. /\ pc \in {"release", "unlease"} /\ pc' \in {"unlease", "report"}
        /\ UNCHANGED <<window, pt, rows, outcome, dac, world>>
    BY <1>12 DEF ReleaseDekeys, ReleaseLeases
  <2>2. QED
    BY <1>c, <2>1 DEF PassInv
<1>13. CASE Report
  <2>1. /\ pc = "report" /\ pc' = "idle"
        /\ outcome' = IF outcome # "done" THEN outcome ELSE IF CampaignPass THEN "pass" ELSE "fail"
        /\ UNCHANGED <<window, pt, rows, dac, world>>
    BY <1>13 DEF Report
  <2>2. (\A i \in Point : RefTrue(i))'
    BY <1>a, <2>1 DEF PassInv
  <2>3. outcome \notin {"pass", "fail"}
    BY <2>1 DEF PassInv
  <2>4. outcome' \in {"done", "pass", "fail"} => outcome = "done" /\ outcome' \in {"pass", "fail"}
    BY <2>1, <2>3
  <2>5. outcome' = "pass" => \A i \in Point : wall[i].verdict = "PASS"
    BY <2>1, <2>4 DEF CampaignPass
  <2>6. outcome' \in {"done", "pass"} /\ (sweep' = "live" \/ LastIsChecked) =>
          \A i \in Point : WallTrue(i)'
    BY <1>b, <2>1, <2>4 DEF PassInv
  <2>7. QED
    BY <2>1, <2>2, <2>4, <2>5, <2>6 DEF PassInv, LastIsChecked
<1>14. CASE Run
  <2>1. /\ gui' = "free" /\ flags' = {} /\ pc' = "ready" /\ outcome' = "none"
        /\ ref' = [i \in Point |-> NoRow]
    BY <1>14 DEF Run
  <2>2. (\A i \in Point : RefTrue(i))'
    BY <2>1 DEF RefTrue, NoRow, Row
  <2>3. QED
    BY <2>1, <2>2 DEF PassInv
<1>15. CASE StopBegins \/ StopFinishes \/ ShieldContinue
  <2>1. /\ flags \subseteq flags' /\ ("stop" \notin flags' => "stop" \notin flags)
        /\ gui' = "stopping" => "stop" \in flags'
        /\ "shieldOk" \in flags' /\ "stop" \notin flags' => shield' = "in"
        /\ shield' \in {shield, "in"}
        /\ UNCHANGED <<pc, pt, rows, outcome, dac, sweep, setup>>
    BY <1>15 DEF StopBegins, StopFinishes, ShieldContinue, PassInv
  <2>2. (\A i \in Point : RefTrue(i))'
    BY <1>a, <2>1 DEF PassInv
  <2>3. \A i \in Point : WallTrue(i)' <=> WallTrue(i)
    BY <1>b, <2>1
  <2>4. \A i \in 1..(pt - 1) : i \in Point
    BY <1>0 DEF RowsInv, RowType, Point
  <2>5. QED
    BY <2>1, <2>2, <2>3, <2>4 DEF PassInv, LastIsChecked
<1>16. CASE Drain \/ BeatStales \/ Lapse \/ Retake \/ DeadMan \/ Hangs \/ Unhangs
            \/ Freezes \/ AmbientRises \/ (\E i \in Inst : RivalTakes(i) \/ RivalLeaves(i))
  <2>1. /\ UNCHANGED <<gui, flags, pc, pt, rows, outcome, dac, setup, shield>>
        /\ sweep' \in {sweep, "frozen"}
    BY <1>16 DEF Drain, BeatStales, Lapse, Retake, DeadMan, Hangs, Unhangs, Freezes,
                 AmbientRises, RivalTakes, RivalLeaves
  <2>2. QED
    BY <1>c, <2>1 DEF PassInv
<1>17. CASE UNCHANGED vars
  BY <1>17, <1>c DEF vars, PassInv
<1>5. CASE RefReads
  <2> DEFINE peak == IF rung = 1 THEN Peaked(pt) ELSE IF dac = pt THEN dac ELSE NoDac
             at == IF peak = NoDac THEN dac ELSE peak
             level == Reads(pt, rung, at, TRUE)
             after == Reads(pt, rung, at, FALSE)
             Made(off2) == [seen |-> "yes", level |-> level, floor |-> floor,
                            cap |-> level - floor - Margin, rung |-> rung, dac |-> peak,
                            reversible |-> Bracket(level, after, off2)]
  <2>p. PICK off2 \in TrailingRead :
          /\ dac' = at /\ UNCHANGED <<window, wall, world>>
          /\ \/ rung' = rung + 1 /\ pc' = "ref" /\ UNCHANGED <<pt, ref, outcome>>
             \/ /\ ref' = [ref EXCEPT ![pt] = Made(off2)] /\ rung' = 1
                /\ \/ pc' = "release" /\ outcome' = "aborted"
                   \/ UNCHANGED outcome /\ pt' = pt + 1 /\ pc' = "ref"
                   \/ UNCHANGED outcome /\ pt' = 1 /\ pc' = "prompt"
    BY <1>5 DEF RefReads, TrailingRead, Ends
  <2> DEFINE row == Made(off2)
  <2>0. /\ pt \in Point /\ rung \in Rung /\ floor \in Nat /\ dac \in 0..N
        /\ dac <= pt /\ (rung = 1 => dac < pt) /\ pc = "refOn"
    BY <1>5 DEF RefReads, RowsInv, RowType, PassInv
  <2>1. peak \in {pt, NoDac} /\ (peak = NoDac => dac # pt) /\ at <= pt /\ pt \in Nat \ {0}
    BY <1>0, <2>0 DEF Peaked, NoDac, Point
  <2>2. row.reversible = "yes" => level = Tone(pt) /\ (pt \in High => at = pt)
    <3>1. Bracket(level, after, off2) = "yes" => level >= Larger(floor, after) + Guard
      <4>1. level \in Nat /\ after \in Nat /\ Guard \in Nat /\ floor \in Nat
        BY <2>0, ReadsAreLevels, CampaignAssumption DEF RowsInv
      <4> HIDE DEF level, after
      <4>2. QED
        BY <4>1 DEF Bracket, Larger
    <3>2. QED
      BY <2>0, <3>1, ReversibleReadsAreTones DEF RowsInv
  <2>3. row.reversible = "yes" =>
          level \in {setup.path[pt], setup.leak[pt]} /\ (pt \in High => peak = pt)
    BY <2>1, <2>2 DEF Tone
  <2>4. /\ row.cap = row.level - row.floor - Margin
        /\ row.reversible = "yes" =>
             row.level \in {setup.path[pt], setup.leak[pt]} /\ (pt \in High => row.dac = pt)
    BY <2>3
  <2>5. /\ dac' = at /\ UNCHANGED <<window, wall, world>>
        /\ \/ rung' = rung + 1 /\ pc' = "ref" /\ UNCHANGED <<pt, ref, outcome>>
           \/ /\ ref' = [ref EXCEPT ![pt] = row] /\ rung' = 1
              /\ \/ pc' = "release" /\ outcome' = "aborted"
                 \/ UNCHANGED outcome /\ pt' = pt + 1 /\ pc' = "ref"
                 \/ UNCHANGED outcome /\ pt' = 1 /\ pc' = "prompt"
    BY <2>p
  <2> HIDE DEF row, level, after, at, peak
  <2>6. outcome' \notin {"done", "pass", "fail"}
    BY <2>0, <2>5 DEF PassInv
  <2>7. (\A i \in Point : RefTrue(i))'
    <3>1. CASE UNCHANGED ref
      BY <1>a, <2>5, <3>1 DEF PassInv
    <3>2. CASE ref' = [ref EXCEPT ![pt] = row]
      <4>1. ref'[pt] = row /\ \A i \in Point \ {pt} : ref'[i] = ref[i]
        BY <3>2 DEF RowsInv, RowType
      <4>2. setup' = setup
        BY <2>5
      <4>3. ASSUME NEW i \in Point, i = pt
            PROVE  RefTrue(i)'
        BY <2>4, <4>1, <4>2, <4>3 DEF RefTrue
      <4>4. ASSUME NEW i \in Point, i # pt
            PROVE  RefTrue(i)'
        BY <4>1, <4>2, <4>4 DEF RefTrue, PassInv
      <4>5. QED
        BY <4>3, <4>4
    <3>3. QED
      BY <2>5, <3>1, <3>2
  <2>8. pc' = "ref" => dac' <= pt' /\ (rung' = 1 => dac' < pt')
    <3>1. rung \in Nat \ {0} /\ at \in Nat
      BY <2>0, <2>1, <1>0 DEF Rung, at, NoDac
    <3>2. QED
      BY <2>0, <2>1, <2>5, <3>1
  <2>9. QED
    BY <2>5, <2>6, <2>7, <2>8 DEF PassInv
<1>9. CASE WallReads
  <2> DEFINE row == ref[pt]
             level == last'
  <2>0. /\ pt \in Point /\ row \in Row /\ floor \in Nat /\ pc = "wallOn"
        /\ row.rung \in Rung /\ row.level \in Nat /\ row.floor \in Nat /\ row.cap \in Int
    BY <1>9 DEF WallReads, RowsInv, RowType, Row
  <2>1. /\ UNCHANGED <<window, ref, rung, world>>
        /\ dac' = Restored(row) /\ level = Reads(pt, row.rung, dac', TRUE)
        /\ wall' = [wall EXCEPT ![pt] = Verdict(row, level)]
        /\ \/ pc' = "release" /\ outcome' \in {"aborted", "error"}
           \/ "stop" \notin flags /\ pt < N /\ pt' = pt + 1 /\ pc' = "wall" /\ UNCHANGED outcome
           \/ "stop" \notin flags /\ ~FoundFrozen /\ pt = N /\ pc' = "release" /\ outcome' = "done"
    BY <1>0, <1>9 DEF WallReads, Ends, RowsInv, RowType, Point
  <2>2. level \in Nat /\ setup.leak[pt] \in Nat
    BY <2>0, <2>1, ReadsAreLevels, CampaignAssumption DEF RowsInv, RowType
  <2>3. ASSUME sweep = "live", shield = "in", row.reversible = "yes"
        PROVE  level >= setup.leak[pt]
    <3>1. pt \in High => dac' = pt
      BY <1>0, <2>0, <2>1, <2>3 DEF PassInv, RefTrue, Restored, NoDac, Point
    <3>2. QED
      BY <2>0, <2>1, <2>3, <3>1, LiveReadsShowTheTone DEF RowsInv, Tone
  <2>4. Verdict(row, level) \in WallRow
    BY <2>0, <2>2 DEF Verdict, WallRow
  <2>5. ASSUME sweep = "live", shield = "in", NEW i \in Point, i = pt
        PROVE  WallTrue(i)'
    <3> DEFINE v == Verdict(row, level)
    <3>1. wall'[i] = v /\ ref'[i] = row /\ setup' = setup
      BY <2>1, <2>5 DEF RowsInv, RowType
    <3>2. ASSUME v.verdict = "PASS", row.reversible = "yes", v.floor <= row.floor
          PROVE  row.level - setup.leak[i] >= Target
      <4>1. level >= setup.leak[i] /\ row.cap = row.level - row.floor - Margin
        BY <2>0, <2>3, <2>5, <3>2 DEF PassInv, RefTrue
      <4>2. floor <= row.floor
        BY <3>2 DEF Verdict
      <4>3. Larger(row.floor, floor) = row.floor
        BY <2>0, <4>2 DEF Larger
      <4>4. \/ level <= row.floor + Margin /\ row.cap >= Target
            \/ row.level - level >= Target
        BY <3>2, <4>3 DEF Verdict
      <4>5. setup.leak[i] \in Nat
        BY <2>2, <2>5
      <4>6. ASSUME NEW a \in Nat, NEW f \in Nat, NEW c \in Int, NEW l \in Nat, NEW k \in Nat,
                   l >= k, c = a - f - Margin,
                   (l <= f + Margin /\ c >= Target) \/ a - l >= Target
            PROVE  a - k >= Target
        <5>1. Target \in Nat /\ Margin \in Nat
          BY CampaignAssumption
        <5>2. CASE a - l >= Target
          BY <4>6, <5>1, <5>2
        <5>3. CASE l <= f + Margin /\ c >= Target
          BY <4>6, <5>1, <5>3
        <5>4. QED
          BY <4>6, <5>2, <5>3
      <4>7. /\ row.level \in Nat /\ row.floor \in Nat /\ row.cap \in Int /\ level \in Nat
        BY <2>0, <2>2
      <4> HIDE DEF row, level
      <4>8. QED
        BY <4>1, <4>4, <4>5, <4>6, <4>7
    <3> HIDE DEF v
    <3>3. QED
      BY <2>4, <3>1, <3>2 DEF WallTrue, v
  <2>6. ASSUME NEW i \in Point, i # pt
        PROVE  WallTrue(i)' <=> WallTrue(i)
    BY <2>0, <2>1, <2>6 DEF WallTrue, RowsInv, RowType
  <2>7. (\A i \in Point : RefTrue(i))'
    BY <1>a, <2>1 DEF PassInv
  <2>8. outcome \notin {"done", "pass", "fail"}
    BY <2>0 DEF PassInv
  <2>9. CASE pc' = "release" /\ outcome' \in {"aborted", "error"}
    BY <2>1, <2>7, <2>9 DEF PassInv
  <2>10. CASE "stop" \notin flags /\ pt < N /\ pt' = pt + 1 /\ pc' = "wall" /\ UNCHANGED outcome
    <3>1. \A i \in 1..(pt' - 1) : i \in Point /\ (i = pt \/ (i \in 1..(pt - 1) /\ i # pt))
      <4>1. pt \in 1..N
        BY <2>0 DEF Point
      <4>2. QED
        BY <1>0, <2>10, <4>1 DEF Point
    <3>2. shield' = "in" /\ (sweep' = "live" => \A i \in 1..(pt' - 1) : WallTrue(i)')
      BY <2>0, <2>1, <2>5, <2>6, <2>10, <3>1 DEF PassInv
    <3>3. QED
      BY <2>1, <2>7, <2>8, <2>10, <3>2 DEF PassInv
  <2>11. CASE "stop" \notin flags /\ ~FoundFrozen /\ pt = N /\ pc' = "release" /\ outcome' = "done"
    <3>1. LastIsChecked => sweep = "live"
      BY <2>11 DEF LastIsChecked, FoundFrozen, Healthy
    <3>2. \A i \in Point : i = pt \/ (i \in 1..(pt - 1) /\ i # pt)
      BY <1>0, <2>11 DEF Point
    <3>3. sweep' = "live" \/ LastIsChecked => \A i \in Point : WallTrue(i)'
      BY <2>0, <2>1, <2>5, <2>6, <2>11, <3>1, <3>2 DEF PassInv
    <3>4. \A i \in Point : ref'[i] \in Row
      BY <2>0, <2>1 DEF RowsInv
    <3>5. QED
      BY <2>1, <2>7, <2>11, <3>3, <3>4 DEF PassInv, LastIsChecked
  <2>12. QED
    BY <2>1, <2>9, <2>10, <2>11
<1>18. QED
  BY <1>1, <1>2, <1>3, <1>4, <1>5, <1>7, <1>8, <1>9, <1>10, <1>12, <1>13, <1>14,
     <1>15, <1>16, <1>17
     DEF Next, Worker, Clock, LinkFails, Refused

LEMMA PassHolds ==
  ASSUME Guard > 0
  PROVE  Spec => [](RowsInv /\ PassInv)
<1>1. RowsInv /\ PassInv /\ [Next]_vars => (RowsInv /\ PassInv)'
  BY RowsNext, PassNext
<1>2. QED
  BY RowsInit, PassInit, <1>1, PTL DEF Spec

\* From the rows to the shield, for a target above nothing.
LEMMA TrueRowsTell ==
  ASSUME RowsInv, PassInv, Target > 0, outcome = "pass", NEW i \in Point, WallTrue(i),
         ref[i] \in Row, ref[i].reversible = "yes", wall[i].floor <= ref[i].floor
  PROVE  setup.path[i] - setup.leak[i] >= Target
<1>1. ref[i].level - setup.leak[i] >= Target
  BY DEF PassInv, WallTrue
<1>2. ref[i].level \in {setup.path[i], setup.leak[i]}
  BY DEF PassInv, RefTrue
<1>3. setup.path[i] \in Nat /\ setup.leak[i] \in Nat /\ Target \in Nat
  BY CampaignAssumption DEF RowsInv, RowType
<1>4. CASE ref[i].level = setup.path[i]
  BY <1>1, <1>4
<1>5. CASE ref[i].level = setup.leak[i]
  BY <1>1, <1>3, <1>5
<1>6. QED
  BY <1>2, <1>4, <1>5

\* The verdict, for every plan, ladder, bench and shield, whatever freezes, rises, fails or
\* is stopped: PASS is said only of a shield that attenuates by the target.  That takes a
\* guard and a target above nothing, and a health check at the last wall point.
THEOREM PassTells ==
  ASSUME Guard > 0, Target > 0, LastIsChecked
  PROVE  Spec => []PassIsTrue
<1>1. RowsInv /\ PassInv => PassIsTrue
  BY TrueRowsTell DEF PassIsTrue, PassInv
<1>2. QED
  BY <1>1, PassHolds, PTL

\* Without health checks (health_every=0, the default) it takes an analyzer that is still
\* alive when the verdict is looked at: nothing else has to be asked of the wall pass.
THEOREM LivePassTells ==
  ASSUME Guard > 0, Target > 0
  PROVE  Spec => [](sweep = "live" => PassIsTrue)
<1>1. RowsInv /\ PassInv => (sweep = "live" => PassIsTrue)
  BY TrueRowsTell DEF PassIsTrue, PassInv
<1>2. QED
  BY <1>1, PassHolds, PTL
=============================================================================

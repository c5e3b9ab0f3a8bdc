----------------------------- MODULE PointOp_proofs -----------------------------
(***************************************************************************)
(* For every set of frequencies and powers, and any number of edits and    *)
(* faults: what the panel shows reaches the two instruments.               *)
(***************************************************************************)
EXTENDS PointOp, SequenceTheorems, TLAPS

\* The values that the argument is about.
QueueType ==
  /\ spin \in [f : Freq, p : Power] /\ box \in {"on", "off"} /\ center \in Freq
  /\ rxCmds \subseteq {"apply", "peak", "state"} /\ txCmds \in Seq(Settings)
  /\ an \in Freq
  /\ src \in [f : Freq, p : Power, rf : {"on", "off"}, level : {"low", "true"}]
  /\ eaten \subseteq {"rx", "tx"}

Wanted == [f |-> spin.f, p |-> spin.p, rf |-> box]

\* Unless an edit is in the debounce or a command was lost, the settings of the
\* panel are the last in each queue, or what its instrument has.
Follows ==
  timer = "off" /\ tab = "shown" =>
    /\ center = spin.f /\ rfOn = box
    /\ eaten = {} => /\ "apply" \in rxCmds \/ an = spin.f
                     /\ IF txCmds = <<>>
                        THEN src.f = spin.f /\ src.p = spin.p /\ src.rf = box
                        ELSE txCmds[Len(txCmds)] = Wanted

\* What is left of a sequence after its first k elements ends as it did.
LEMMA EndOfRest ==
  ASSUME NEW q \in Seq(Settings), NEW k \in 1..Len(q), NEW rest \in Seq(Settings),
         Len(rest) = Len(q) - k,
         \A i \in 1..(Len(q) - k) : rest[i] = q[k + i]
  PROVE  /\ k = Len(q) => rest = <<>>
         /\ k # Len(q) => rest # <<>> /\ rest[Len(rest)] = q[Len(q)]
<1>1. k \in Nat /\ Len(q) \in Nat /\ k <= Len(q)
  OBVIOUS
<1>2. CASE k = Len(q)
  BY <1>1, <1>2
<1>3. CASE k # Len(q)
  <2>1. Len(q) - k \in 1..(Len(q) - k) /\ k + (Len(q) - k) = Len(q)
    BY <1>1, <1>3
  <2>2. rest[Len(q) - k] = q[Len(q)]
    BY <2>1
  <2>3. QED
    BY <1>3, <2>1, <2>2
<1>4. QED
  BY <1>2, <1>3

\* A batch takes a prefix of the source's queue and leaves its end.
LEMMA BatchLeavesTheEnd ==
  ASSUME NEW q \in Seq(Settings), NEW k \in 1..Len(q)
  PROVE  LET rest == SubSeq(q, k + 1, Len(q))
         IN  /\ rest \in Seq(Settings)
             /\ k = Len(q) => rest = <<>>
             /\ k # Len(q) => rest # <<>> /\ rest[Len(rest)] = q[Len(q)]
<1> DEFINE rest == SubSeq(q, k + 1, Len(q))
<1>1. /\ k + 1 \in Int /\ Len(q) \in Int
      /\ \A i \in (k + 1)..Len(q) : q[i] \in Settings
  OBVIOUS
<1>2. /\ rest \in Seq(Settings)
      /\ Len(rest) = IF k + 1 <= Len(q) THEN Len(q) - (k + 1) + 1 ELSE 0
      /\ \A i \in 1..(Len(q) - (k + 1) + 1) : rest[i] = q[(k + 1) + i - 1]
  BY <1>1, SubSeqProperties
<1> HIDE DEF rest
<1>3. Len(rest) = Len(q) - k
  BY <1>2
<1>4. ASSUME NEW i \in 1..(Len(q) - k) PROVE rest[i] = q[k + i]
  <2>1. i \in 1..(Len(q) - (k + 1) + 1) /\ (k + 1) + i - 1 = k + i
    OBVIOUS
  <2>2. QED
    BY <1>2, <2>1
<1>5. QED
  BY <1>2, <1>3, <1>4, EndOfRest DEF rest

LEMMA ApplyFollows ==
  ASSUME QueueType, Apply, UNCHANGED <<spin, box>>
  PROVE  /\ center' \in Freq /\ center' = spin'.f /\ rfOn' = box'
         /\ rxCmds' \subseteq {"apply", "peak", "state"} /\ "apply" \in rxCmds'
         /\ txCmds' \in Seq(Settings) /\ txCmds' # <<>>
         /\ txCmds'[Len(txCmds')] = Wanted'
         /\ eaten' = {}
BY DEF Apply, QueueType, Wanted, Settings

LEMMA TypeInit == Init => TypeOK
BY PointOpAssumption DEF Init, TypeOK, Settings, Trace, NoTrace

LEMMA TypeNext == TypeOK /\ [Next]_vars => TypeOK'
<1> SUFFICES ASSUME TypeOK, [Next]_vars PROVE TypeOK'
  OBVIOUS
<1> USE PointOpAssumption
    DEF TypeOK, panel, outs, amplitude, rxSide, txSide, bounds, EditRest
<1>1. CASE Operator /\ ~Leave /\ ~Return
  <2>1. ASSUME NEW f \in Freq, Tune(f) PROVE TypeOK'
    <3>1. spin' \in [f : Freq, p : Power]
      BY <2>1 DEF Tune
    <3>2. edits < MaxEdits /\ edits' = edits + 1 /\ timer' = "on"
      BY <2>1 DEF Tune, Edits
    <3>3. settling' \in {"on", settling} /\ awaiting' \in {"off", awaiting}
      BY <2>1 DEF Tune
    <3>4. UNCHANGED <<box, EditRest>>
      BY <2>1 DEF Tune
    <3>5. QED
      BY <3>1, <3>2, <3>3, <3>4
  <2>2. ASSUME NEW p \in Power, Level(p) PROVE TypeOK'
    <3>1. spin' \in [f : Freq, p : Power]
      BY <2>2 DEF Level
    <3>2. edits < MaxEdits /\ edits' = edits + 1 /\ timer' = "on"
      BY <2>2 DEF Level, Edits
    <3>3. UNCHANGED <<box, settling, awaiting, EditRest>>
      BY <2>2 DEF Level
    <3>4. QED
      BY <3>1, <3>2, <3>3
  <2>3. CASE Tick
    BY <2>3 DEF Tick, Edits
  <2>4. QED
    BY <1>1, <2>1, <2>2, <2>3 DEF Operator
<1>2. CASE Leave
  <2>1. src' \in [f : Freq, p : Power, rf : {"on", "off"}, level : {"low", "true"}]
    BY <1>2 DEF Leave
  <2>2. /\ tab' = "hidden" /\ edits < MaxEdits /\ edits' = edits + 1 /\ an' \in Freq
        /\ UNCHANGED <<spin, box, rfOn, timer, settling, awaiting, reading, center,
                       rxCmds, txCmds, outs, rx, budget, sweep, peaked, amplitude, tx,
                       faults, eaten>>
    BY <1>2 DEF Leave
  <2>3. QED
    BY <2>1, <2>2
<1>3. CASE Return
  BY <1>3 DEF Return, Apply, Settings
<1>4. CASE TimerFires
  BY <1>4 DEF TimerFires, Apply, Settings
<1>5. CASE Drain
  BY <1>5 DEF Drain, Armed, NoTrace
<1>6. CASE Poll
  BY <1>6 DEF Poll
<1>7. CASE TxApplies
  <2>1. PICK k \in 1..Len(txCmds) :
          /\ src' = [f |-> txCmds[k].f, p |-> txCmds[k].p, rf |-> txCmds[k].rf,
                     level |-> "low"]
          /\ tx' \in {"settling", "idle"}
          /\ txCmds' = SubSeq(txCmds, k + 1, Len(txCmds))
    BY <1>7 DEF TxApplies, Conflated
  <2>2. txCmds[k] \in Settings /\ txCmds' \in Seq(Settings)
    BY <2>1, BatchLeavesTheEnd
  <2>3. UNCHANGED <<panel, rxCmds, outs, rxSide, eaten, bounds>>
    BY <1>7 DEF TxApplies
  <2>4. QED
    BY <2>1, <2>2, <2>3 DEF Settings
<1>8. CASE TxSettles
  BY <1>8 DEF TxSettles
<1>9. CASE TxFails
  BY <1>9 DEF TxFails
<1>10. CASE RxSweeps
  BY <1>10 DEF RxSweeps, Peaks, Rearmed, Reconciled, InPace, Sees, Trace, NoTrace
<1>11. CASE RxReads
  BY <1>11 DEF RxReads, Sees, Trace, NoTrace
<1>12. CASE RxFails
  BY <1>12 DEF RxFails
<1>13. CASE \E what \in Drifts : FrontPanel(what)
  BY <1>13 DEF FrontPanel
<1>14. CASE UNCHANGED vars
  BY <1>14 DEF vars
<1>15. QED
  BY <1>1, <1>2, <1>3, <1>4, <1>5, <1>6, <1>7, <1>8, <1>9, <1>10, <1>11, <1>12,
     <1>13, <1>14
     DEF Next, Operator, Panel

\* Every variable keeps its type: no retry outlasts its budget, and no queue holds
\* anything but settings and commands.
THEOREM TypeCorrect == Spec => []TypeOK
BY TypeInit, TypeNext, PTL DEF Spec

LEMMA FollowsInit == Init => QueueType /\ Follows
BY PointOpAssumption DEF Init, QueueType, Follows, Wanted, Settings

LEMMA FollowsNext == QueueType /\ Follows /\ [Next]_vars => QueueType' /\ Follows'
<1> SUFFICES ASSUME QueueType, Follows, [Next]_vars PROVE QueueType' /\ Follows'
  OBVIOUS
<1> USE PointOpAssumption
    DEF panel, outs, amplitude, rxSide, txSide, bounds, EditRest
<1>1. CASE Operator /\ ~Leave /\ ~Return
  BY <1>1 DEF Operator, Tune, Level, Tick, Edits, QueueType, Follows, Wanted
<1>2. CASE Leave
  BY <1>2 DEF Leave, QueueType, Follows
<1>3. CASE Return
  BY <1>3, ApplyFollows DEF Return, QueueType, Follows
<1>4. CASE TimerFires
  BY <1>4, ApplyFollows DEF TimerFires, QueueType, Follows
<1>5. CASE Drain \/ Poll
  BY <1>5 DEF Drain, Poll, QueueType, Follows, Wanted
<1>6. CASE TxApplies
  <2>1. PICK k \in 1..Len(txCmds) :
          /\ src' = [f |-> txCmds[k].f, p |-> txCmds[k].p, rf |-> txCmds[k].rf,
                     level |-> "low"]
          /\ txCmds' = SubSeq(txCmds, k + 1, Len(txCmds))
    BY <1>6 DEF TxApplies, Conflated
  <2>2. txCmds # <<>> /\ UNCHANGED <<panel, rxCmds, rxSide, eaten>>
    BY <1>6, <2>1 DEF TxApplies, QueueType
  <2>3. /\ txCmds[k] \in Settings
        /\ txCmds' \in Seq(Settings)
        /\ k = Len(txCmds) => txCmds' = <<>>
        /\ k # Len(txCmds) => txCmds' # <<>> /\ txCmds'[Len(txCmds')] = txCmds[Len(txCmds)]
    <3>1. txCmds \in Seq(Settings)
      BY DEF QueueType
    <3>2. txCmds[k] \in Settings
      BY <3>1
    <3>3. QED
      BY <2>1, <3>1, <3>2, BatchLeavesTheEnd, Zenon
  <2>4. QueueType'
    BY <2>1, <2>2, <2>3 DEF QueueType, Settings
  <2>5. Follows'
    <3>1. CASE k = Len(txCmds)
      BY <2>1, <2>2, <2>3, <3>1 DEF QueueType, Follows, Wanted
    <3>2. CASE k # Len(txCmds)
      BY <2>1, <2>2, <2>3, <3>2 DEF QueueType, Follows, Wanted
    <3>3. QED
      BY <3>1, <3>2
  <2>6. QED
    BY <2>4, <2>5
<1>7. CASE TxSettles
  BY <1>7 DEF TxSettles, QueueType, Follows, Wanted
<1>8. CASE TxFails
  BY <1>8 DEF TxFails, QueueType, Follows, Wanted
<1>9. CASE RxSweeps
  BY <1>9 DEF RxSweeps, Peaks, QueueType, Follows, Wanted
<1>10. CASE RxReads
  BY <1>10 DEF RxReads, QueueType, Follows, Wanted
<1>11. CASE RxFails
  BY <1>11 DEF RxFails, QueueType, Follows, Wanted
<1>12. CASE \E what \in Drifts : FrontPanel(what)
  BY <1>12 DEF FrontPanel, QueueType, Follows, Wanted
<1>13. CASE UNCHANGED vars
  BY <1>13 DEF vars, QueueType, Follows, Wanted
<1>14. QED
  BY <1>1, <1>2, <1>3, <1>4, <1>5, <1>6, <1>7, <1>8, <1>9, <1>10, <1>11, <1>12,
     <1>13
     DEF Next, Operator, Panel

\* The debounce, the shared settings, the conflating queue and the tab changes of
\* PointOpPanel and the two engines: once they are quiet, the instruments are
\* where the panel says.
THEOREM QuietIsApplied == Spec => []QuietMeansApplied
<1>1. QueueType /\ Follows => QuietMeansApplied
  BY DEF QueueType, Follows, QuietMeansApplied
<1>2. QED
  BY <1>1, FollowsInit, FollowsNext, PTL DEF Spec
=============================================================================

----------------------------- MODULE Bench_proofs -----------------------------
(***************************************************************************)
(* Theorems about the bench, for any number of tabs and of what its        *)
(* operator does.                                                          *)
(***************************************************************************)
EXTENDS Bench, TLAPS

\* A shutdown() that runs has been counted.
TypeInv ==
  /\ TypeOK
  /\ task \in {"stop", "unlease"} => passes # 0

LEMMA ModeFacts == Mode \in SUBSET Nat /\ Nobody \notin Mode /\ 1 \in Mode
BY BenchAssumption DEF Mode, Nobody

LEMMA OnwardStays ==
  ASSUME at \in Mode, NEW loop, NEW done, Onward(loop, done)
  PROVE  at' \in Mode /\ task' \in {loop, done}
BY BenchAssumption DEF Onward, Mode

LEMMA TypeInit == Init => TypeInv
BY BenchAssumption, ModeFacts
   DEF Init, TypeInv, TypeOK, Task, Acquiring, Writing, Mode

LEMMA TypeNext == TypeInv /\ [Next]_vars => TypeInv'
<1> SUFFICES ASSUME TypeInv, [Next]_vars
             PROVE  TypeInv'
  OBVIOUS
<1> USE BenchAssumption, ModeFacts DEF gui, bounds, engine, hub, plant, Task, Acquiring, Writing
<1>1. CASE Launch
  <2>1. at' \in Mode /\ task' \in {"start", "switch"}
    BY <1>1, OnwardStays DEF Launch, TypeInv, TypeOK
  <2>2. QED
    BY <1>1, <2>1 DEF Launch, Goto, Apply, TypeInv, TypeOK
<1>2. CASE Enter
  <2>1. at' \in Mode /\ task' \in {"switch", "idle"}
    BY <1>2, OnwardStays DEF Enter, TypeInv, TypeOK
  <2>2. QED
    BY <1>2, <2>1 DEF Enter, Apply, TypeInv, TypeOK
<1>3. CASE Leave
  BY <1>3 DEF Leave, RfOffSafe, TypeInv, TypeOK
<1>4. CASE Park
  <2>1. at' \in Mode /\ task' \in {"switch", "idle"}
    BY <1>4, OnwardStays DEF Park, TypeInv, TypeOK
  <2>2. QED
    BY <1>4, <2>1 DEF Park, Suspend, Torn, TypeInv, TypeOK
<1>5. CASE StopMode
  <2>1. at' \in Mode /\ task' \in {"stop", "unlease"}
    BY <1>5, OnwardStays DEF StopMode, TypeInv, TypeOK
  <2>2. QED
    BY <1>5, <2>1 DEF StopMode, RfOffSafe, TypeInv, TypeOK
<1>6. CASE Unlease
  BY <1>6 DEF Unlease, TypeInv, TypeOK
<1>7. CASE Exit
  BY <1>7 DEF Exit, TypeInv, TypeOK
<1>8. CASE Edit
  <2>1. wants' \in SUBSET Mode /\ timer' \in SUBSET Debounced
    BY <1>8 DEF Edit, TypeInv, TypeOK
  <2>2. queue' \in [Mode -> {"none"} \cup Writing]
    BY <1>8 DEF Edit, TypeInv, TypeOK
  <2>3. edits' \in 0..MaxEdits
    BY <1>8 DEF Edit, TypeInv, TypeOK
  <2>4. QED
    BY <1>8, <2>1, <2>2, <2>3 DEF Edit, TypeInv, TypeOK
<1>9. CASE Close
  BY <1>9 DEF Close, TypeInv, TypeOK
<1>10. CASE Signal
  BY <1>10 DEF Signal, TypeInv, TypeOK
<1>11. ASSUME NEW m \in Mode, Switch(m)
      PROVE  TypeInv'
  BY <1>11 DEF Switch, TypeInv, TypeOK
<1>12. ASSUME NEW m \in Mode, TimerFires(m)
      PROVE  TypeInv'
  BY <1>12 DEF TimerFires, TypeInv, TypeOK
<1>13. ASSUME NEW m \in Mode, StepAcquires(m)
      PROVE  TypeInv'
  BY <1>13 DEF StepAcquires, Running, Goto, TypeInv, TypeOK
<1>14. ASSUME NEW m \in Mode, AcquireFails(m)
      PROVE  TypeInv'
  BY <1>14 DEF AcquireFails, Goto, TypeInv, TypeOK
<1>15. ASSUME NEW m \in Mode, Take(m)
      PROVE  TypeInv'
  BY <1>15 DEF Take, Goto, TypeInv, TypeOK
<1>16. ASSUME NEW m \in Mode, Preempt(m)
      PROVE  TypeInv'
  BY <1>16 DEF Preempt, Goto, Torn, TypeInv, TypeOK
<1>17. ASSUME NEW m \in Mode, Claim(m)
      PROVE  TypeInv'
  BY <1>17 DEF Claim, Goto, Drain, TypeInv, TypeOK
<1>18. ASSUME NEW m \in Mode, StepDrains(m)
      PROVE  TypeInv'
  BY <1>18 DEF StepDrains, Running, Goto, Drain, TypeInv, TypeOK
<1>19. ASSUME NEW m \in Mode, Write(m)
      PROVE  TypeInv'
  BY <1>19 DEF Write, Goto, Entitled, TypeInv, TypeOK
<1>20. ASSUME NEW m \in Mode, WriteFails(m)
      PROVE  TypeInv'
  BY <1>20 DEF WriteFails, Goto, Entitled, TypeInv, TypeOK
<1>21. ASSUME NEW m \in Mode, ThreadEnds(m)
      PROVE  TypeInv'
  BY <1>21 DEF ThreadEnds, Goto, RfOffSafe, TypeInv, TypeOK
<1>22. CASE UNCHANGED vars
  BY <1>22 DEF vars, TypeInv, TypeOK
<1>23. QED
  BY <1>1, <1>2, <1>3, <1>4, <1>5, <1>6, <1>7, <1>8, <1>9, <1>10, <1>11,
     <1>12, <1>13, <1>14, <1>15, <1>16, <1>17, <1>18, <1>19, <1>20, <1>21,
     <1>22
     DEF Next, Gui, Engine, Operator

\* Every variable of the bench keeps its type.
THEOREM TypeCorrect == Spec => []TypeOK
<1>1. TypeInv => TypeOK
  BY DEF TypeInv
<1>2. QED
  BY <1>1, TypeInit, TypeNext, PTL DEF Spec

-----------------------------------------------------------------------------
(* Who owns the source. *)

\* An engine that has been granted the source and has not raised its flag yet
\* is the owner too.
OwnedInv ==
  "acquiring" \notin torn =>
    /\ \A m \in have : m = owner
    /\ \A m \in Mode : step[m] = "claim" => m = owner

LEMMA OwnedNext == TypeInv /\ OwnedInv /\ [Next]_vars => OwnedInv'
<1> SUFFICES ASSUME TypeInv, TypeOK, OwnedInv, [Next]_vars
             PROVE  OwnedInv'
  BY DEF TypeInv
<1> USE ModeFacts DEF gui, bounds, engine, hub, plant, Acquiring, Writing
<1>1. CASE Launch
  BY <1>1 DEF Launch, Goto, OwnedInv, TypeOK
<1>2. CASE Enter
  BY <1>2 DEF Enter, OwnedInv, TypeOK
<1>3. CASE Leave
  BY <1>3 DEF Leave, RfOffSafe, OwnedInv, TypeOK
<1>4. CASE Park
  BY <1>4 DEF Park, Suspend, Torn, OwnedInv, TypeOK
<1>5. CASE StopMode
  BY <1>5 DEF StopMode, RfOffSafe, OwnedInv, TypeOK
<1>6. CASE Unlease
  BY <1>6 DEF Unlease, OwnedInv, TypeOK
<1>7. CASE Exit
  BY <1>7 DEF Exit, OwnedInv, TypeOK
<1>8. CASE Edit
  BY <1>8 DEF Edit, OwnedInv, TypeOK
<1>9. CASE Close
  BY <1>9 DEF Close, OwnedInv, TypeOK
<1>10. CASE Signal
  BY <1>10 DEF Signal, OwnedInv, TypeOK
<1>11. ASSUME NEW m \in Mode, Switch(m)
      PROVE  OwnedInv'
  BY <1>11 DEF Switch, OwnedInv, TypeOK
<1>12. ASSUME NEW m \in Mode, TimerFires(m)
      PROVE  OwnedInv'
  BY <1>12 DEF TimerFires, OwnedInv, TypeOK
<1>13. ASSUME NEW m \in Mode, StepAcquires(m)
      PROVE  OwnedInv'
  BY <1>13 DEF StepAcquires, Running, Goto, OwnedInv, TypeOK
<1>14. ASSUME NEW m \in Mode, AcquireFails(m)
      PROVE  OwnedInv'
  BY <1>14 DEF AcquireFails, Goto, OwnedInv, TypeOK
<1>15. ASSUME NEW m \in Mode, Take(m)
      PROVE  OwnedInv'
  BY <1>15 DEF Take, Goto, OwnedInv, TypeOK
<1>16. ASSUME NEW m \in Mode, Preempt(m)
      PROVE  OwnedInv'
  BY <1>16 DEF Preempt, Goto, Torn, OwnedInv, TypeOK
<1>17. ASSUME NEW m \in Mode, Claim(m)
      PROVE  OwnedInv'
  BY <1>17 DEF Claim, Goto, Drain, OwnedInv, TypeOK
<1>18. ASSUME NEW m \in Mode, StepDrains(m)
      PROVE  OwnedInv'
  BY <1>18 DEF StepDrains, Running, Goto, Drain, OwnedInv, TypeOK
<1>19. ASSUME NEW m \in Mode, Write(m)
      PROVE  OwnedInv'
  BY <1>19 DEF Write, Goto, Entitled, OwnedInv, TypeOK
<1>20. ASSUME NEW m \in Mode, WriteFails(m)
      PROVE  OwnedInv'
  BY <1>20 DEF WriteFails, Goto, Entitled, OwnedInv, TypeOK
<1>21. ASSUME NEW m \in Mode, ThreadEnds(m)
      PROVE  OwnedInv'
  BY <1>21 DEF ThreadEnds, Goto, RfOffSafe, OwnedInv, TypeOK
<1>22. CASE UNCHANGED vars
  BY <1>22 DEF vars, OwnedInv, TypeOK
<1>23. QED
  BY <1>1, <1>2, <1>3, <1>4, <1>5, <1>6, <1>7, <1>8, <1>9, <1>10, <1>11,
     <1>12, <1>13, <1>14, <1>15, <1>16, <1>17, <1>18, <1>19, <1>20, <1>21,
     <1>22
     DEF Next, Gui, Engine, Operator

\* An engine that believes it has the source owns it, unless it was suspended
\* between the grant and its belief.
THEOREM BeliefIsOwnership == Spec => []HaveIsOwned
<1>1. Init => OwnedInv
  BY DEF Init, OwnedInv
<1>2. OwnedInv => HaveIsOwned
  BY DEF OwnedInv, HaveIsOwned
<1>3. QED
  BY <1>1, <1>2, TypeInit, TypeNext, OwnedNext, PTL DEF Spec

-----------------------------------------------------------------------------
(* The radiating source. *)

\* The engine m will still switch the source off: it has not been stopped, nor
\* left.
WillSwitchOff(m) == m \notin stopped /\ ~(task = "leave" /\ at = m)

HotInv ==
  rf = "on" /\ excuse = "none" =>
    /\ armed = "yes"
    /\ \E m \in have : WillSwitchOff(m)

\* The stop of the modes is in the order of the tabs; when it is over they all are.
StopInv ==
  /\ task = "stop" => \A m \in Mode : m < at => m \in stopped
  /\ task = "unlease" => Mode \subseteq stopped
  /\ task = "gone" => armed = "no" /\ \A m \in Mode : step[m] = "down"

LEMMA StopNext == TypeInv /\ StopInv /\ [Next]_vars => StopInv'
<1> SUFFICES ASSUME TypeInv, TypeOK, StopInv, [Next]_vars
             PROVE  StopInv'
  BY DEF TypeInv
<1> USE BenchAssumption, ModeFacts DEF gui, bounds, engine, hub, plant, Acquiring, Writing
<1>1. CASE Launch
  BY <1>1 DEF Launch, Goto, Onward, StopInv, TypeOK, Mode
<1>2. CASE Enter
  BY <1>2 DEF Enter, Onward, StopInv, TypeOK, Mode
<1>3. CASE Leave
  BY <1>3 DEF Leave, RfOffSafe, StopInv, TypeOK, Mode
<1>4. CASE Park
  BY <1>4 DEF Park, Suspend, Torn, Onward, StopInv, TypeOK, Mode
<1>5. CASE StopMode
  BY <1>5 DEF StopMode, RfOffSafe, Onward, StopInv, TypeOK, Mode
<1>6. CASE Unlease
  BY <1>6 DEF Unlease, StopInv, TypeOK, Mode
<1>7. CASE Exit
  BY <1>7 DEF Exit, StopInv, TypeOK, Mode
<1>8. CASE Edit
  BY <1>8 DEF Edit, StopInv, TypeOK, Mode
<1>9. CASE Close
  BY <1>9 DEF Close, StopInv, TypeOK, Mode
<1>10. CASE Signal
  BY <1>10 DEF Signal, StopInv, TypeOK, Mode
<1>11. ASSUME NEW m \in Mode, Switch(m)
      PROVE  StopInv'
  BY <1>11 DEF Switch, StopInv, TypeOK, Mode
<1>12. ASSUME NEW m \in Mode, TimerFires(m)
      PROVE  StopInv'
  BY <1>12 DEF TimerFires, StopInv, TypeOK, Mode
<1>13. ASSUME NEW m \in Mode, StepAcquires(m)
      PROVE  StopInv'
  BY <1>13 DEF StepAcquires, Running, Goto, StopInv, TypeOK, Mode
<1>14. ASSUME NEW m \in Mode, AcquireFails(m)
      PROVE  StopInv'
  BY <1>14 DEF AcquireFails, Goto, StopInv, TypeOK, Mode
<1>15. ASSUME NEW m \in Mode, Take(m)
      PROVE  StopInv'
  BY <1>15 DEF Take, Goto, StopInv, TypeOK, Mode
<1>16. ASSUME NEW m \in Mode, Preempt(m)
      PROVE  StopInv'
  BY <1>16 DEF Preempt, Goto, Torn, StopInv, TypeOK, Mode
<1>17. ASSUME NEW m \in Mode, Claim(m)
      PROVE  StopInv'
  BY <1>17 DEF Claim, Goto, Drain, StopInv, TypeOK, Mode
<1>18. ASSUME NEW m \in Mode, StepDrains(m)
      PROVE  StopInv'
  BY <1>18 DEF StepDrains, Running, Goto, Drain, StopInv, TypeOK, Mode
<1>19. ASSUME NEW m \in Mode, Write(m)
      PROVE  StopInv'
  BY <1>19 DEF Write, Goto, Entitled, StopInv, TypeOK, Mode
<1>20. ASSUME NEW m \in Mode, WriteFails(m)
      PROVE  StopInv'
  BY <1>20 DEF WriteFails, Goto, Entitled, StopInv, TypeOK, Mode
<1>21. ASSUME NEW m \in Mode, ThreadEnds(m)
      PROVE  StopInv'
  BY <1>21 DEF ThreadEnds, Goto, RfOffSafe, StopInv, TypeOK, Mode
<1>22. CASE UNCHANGED vars
  BY <1>22 DEF vars, StopInv, TypeOK, Mode
<1>23. QED
  BY <1>1, <1>2, <1>3, <1>4, <1>5, <1>6, <1>7, <1>8, <1>9, <1>10, <1>11,
     <1>12, <1>13, <1>14, <1>15, <1>16, <1>17, <1>18, <1>19, <1>20, <1>21,
     <1>22
     DEF Next, Gui, Engine, Operator

LEMMA HotNext == TypeInv /\ StopInv /\ HotInv /\ [Next]_vars => HotInv'
<1> SUFFICES ASSUME TypeInv, TypeOK, StopInv, HotInv, [Next]_vars
             PROVE  HotInv'
  BY DEF TypeInv
<1> USE BenchAssumption, ModeFacts DEF gui, bounds, engine, hub, plant, Acquiring, Writing
<1>1. CASE Launch
  BY <1>1 DEF Launch, Goto, Onward, HotInv, WillSwitchOff, StopInv, TypeOK
<1>2. CASE Enter
  BY <1>2 DEF Enter, Onward, HotInv, WillSwitchOff, StopInv, TypeOK
<1>3. CASE Leave
  BY <1>3 DEF Leave, RfOffSafe, HotInv, WillSwitchOff, StopInv, TypeOK
<1>4. CASE Park
  BY <1>4 DEF Park, Suspend, Torn, Onward, HotInv, WillSwitchOff, StopInv, TypeOK
<1>5. CASE StopMode
  BY <1>5 DEF StopMode, RfOffSafe, Onward, HotInv, WillSwitchOff, StopInv, TypeOK
<1>6. CASE Unlease
  BY <1>6 DEF Unlease, HotInv, WillSwitchOff, StopInv, TypeOK
<1>7. CASE Exit
  BY <1>7 DEF Exit, HotInv, WillSwitchOff, StopInv, TypeOK
<1>8. CASE Edit
  BY <1>8 DEF Edit, HotInv, WillSwitchOff, StopInv, TypeOK
<1>9. CASE Close
  BY <1>9 DEF Close, HotInv, WillSwitchOff, StopInv, TypeOK
<1>10. CASE Signal
  BY <1>10 DEF Signal, HotInv, WillSwitchOff, StopInv, TypeOK
<1>11. ASSUME NEW m \in Mode, Switch(m)
      PROVE  HotInv'
  BY <1>11 DEF Switch, HotInv, WillSwitchOff, StopInv, TypeOK
<1>12. ASSUME NEW m \in Mode, TimerFires(m)
      PROVE  HotInv'
  BY <1>12 DEF TimerFires, HotInv, WillSwitchOff, StopInv, TypeOK
<1>13. ASSUME NEW m \in Mode, StepAcquires(m)
      PROVE  HotInv'
  BY <1>13 DEF StepAcquires, Running, Goto, HotInv, WillSwitchOff, StopInv, TypeOK
<1>14. ASSUME NEW m \in Mode, AcquireFails(m)
      PROVE  HotInv'
  BY <1>14 DEF AcquireFails, Goto, HotInv, WillSwitchOff, StopInv, TypeOK
<1>15. ASSUME NEW m \in Mode, Take(m)
      PROVE  HotInv'
  BY <1>15 DEF Take, Goto, HotInv, WillSwitchOff, StopInv, TypeOK
<1>16. ASSUME NEW m \in Mode, Preempt(m)
      PROVE  HotInv'
  BY <1>16 DEF Preempt, Goto, Torn, HotInv, WillSwitchOff, StopInv, TypeOK
<1>17. ASSUME NEW m \in Mode, Claim(m)
      PROVE  HotInv'
  BY <1>17 DEF Claim, Goto, Drain, HotInv, WillSwitchOff, StopInv, TypeOK
<1>18. ASSUME NEW m \in Mode, StepDrains(m)
      PROVE  HotInv'
  BY <1>18 DEF StepDrains, Running, Goto, Drain, HotInv, WillSwitchOff, StopInv, TypeOK
<1>19. ASSUME NEW m \in Mode, Write(m)
      PROVE  HotInv'
  BY <1>19 DEF Write, Goto, Entitled, HotInv, WillSwitchOff, StopInv, TypeOK
<1>20. ASSUME NEW m \in Mode, WriteFails(m)
      PROVE  HotInv'
  BY <1>20 DEF WriteFails, Goto, Entitled, HotInv, WillSwitchOff, StopInv, TypeOK
<1>21. ASSUME NEW m \in Mode, ThreadEnds(m)
      PROVE  HotInv'
  BY <1>21 DEF ThreadEnds, Goto, RfOffSafe, HotInv, WillSwitchOff, StopInv, TypeOK
<1>22. CASE UNCHANGED vars
  BY <1>22 DEF vars, HotInv, WillSwitchOff, StopInv, TypeOK
<1>23. QED
  BY <1>1, <1>2, <1>3, <1>4, <1>5, <1>6, <1>7, <1>8, <1>9, <1>10, <1>11,
     <1>12, <1>13, <1>14, <1>15, <1>16, <1>17, <1>18, <1>19, <1>20, <1>21,
     <1>22
     DEF Next, Gui, Engine, Operator

\* A radiating source has an engine that will switch it off, or an excuse.
THEOREM HotHasAnEngine == Spec => []HotHasEngine
<1>1. Init => StopInv /\ HotInv
  BY ModeFacts DEF Init, StopInv, HotInv
<1>2. HotInv => HotHasEngine
  BY DEF HotInv, HotHasEngine
<1>3. QED
  BY <1>1, <1>2, TypeInit, TypeNext, StopNext, HotNext, PTL DEF Spec

\* When the process is gone the source is off, or there is an excuse.
THEOREM GoneLeavesCold == Spec => []GoneIsCold
<1>1. Init => StopInv /\ HotInv
  BY ModeFacts DEF Init, StopInv, HotInv
<1>2. StopInv /\ HotInv => GoneIsCold
  BY DEF StopInv, HotInv, GoneIsCold
<1>3. QED
  BY <1>1, <1>2, TypeInit, TypeNext, StopNext, HotNext, PTL DEF Spec

-----------------------------------------------------------------------------
(* The tabs that are not shown. *)

\* _on_tab is past the tab m, which is not the one shown.
Passed(m) ==
  /\ m # active
  /\ \/ task = "idle"
     \/ task \in {"switch", "leave"} /\ m < at

ParkInv ==
  torn = {} =>
    /\ prior = Nobody
    /\ \A m \in Mode :
         Passed(m) => m \in suspended /\ m \notin have /\ step[m] \notin Acquiring

LEMMA ParkNext == TypeInv /\ ParkInv /\ [Next]_vars => ParkInv'
<1> SUFFICES ASSUME TypeInv, TypeOK, ParkInv, [Next]_vars
             PROVE  ParkInv'
  BY DEF TypeInv
<1> USE BenchAssumption, ModeFacts DEF gui, bounds, engine, hub, plant, Acquiring, Writing
<1>1. CASE Launch
  BY <1>1 DEF Launch, Goto, Onward, ParkInv, Passed, TypeOK, Mode
<1>2. CASE Enter
  BY <1>2 DEF Enter, Onward, ParkInv, Passed, TypeOK, Mode
<1>3. CASE Leave
  BY <1>3 DEF Leave, RfOffSafe, ParkInv, Passed, TypeOK, Mode
<1>4. CASE Park
  BY <1>4 DEF Park, Suspend, Torn, Onward, ParkInv, Passed, TypeOK, Mode
<1>5. CASE StopMode
  BY <1>5 DEF StopMode, RfOffSafe, Onward, ParkInv, Passed, TypeOK, Mode
<1>6. CASE Unlease
  BY <1>6 DEF Unlease, ParkInv, Passed, TypeOK, Mode
<1>7. CASE Exit
  BY <1>7 DEF Exit, ParkInv, Passed, TypeOK, Mode
<1>8. CASE Edit
  BY <1>8 DEF Edit, ParkInv, Passed, TypeOK, Mode
<1>9. CASE Close
  BY <1>9 DEF Close, ParkInv, Passed, TypeOK, Mode
<1>10. CASE Signal
  BY <1>10 DEF Signal, ParkInv, Passed, TypeOK, Mode
<1>11. ASSUME NEW m \in Mode, Switch(m)
      PROVE  ParkInv'
  BY <1>11 DEF Switch, ParkInv, Passed, TypeOK, Mode
<1>12. ASSUME NEW m \in Mode, TimerFires(m)
      PROVE  ParkInv'
  BY <1>12 DEF TimerFires, ParkInv, Passed, TypeOK, Mode
<1>13. ASSUME NEW m \in Mode, StepAcquires(m)
      PROVE  ParkInv'
  BY <1>13 DEF StepAcquires, Running, Goto, ParkInv, Passed, TypeOK, Mode
<1>14. ASSUME NEW m \in Mode, AcquireFails(m)
      PROVE  ParkInv'
  BY <1>14 DEF AcquireFails, Goto, ParkInv, Passed, TypeOK, Mode
<1>15. ASSUME NEW m \in Mode, Take(m)
      PROVE  ParkInv'
  BY <1>15 DEF Take, Goto, ParkInv, Passed, TypeOK, Mode
<1>16. ASSUME NEW m \in Mode, Preempt(m)
      PROVE  ParkInv'
  BY <1>16 DEF Preempt, Goto, Torn, ParkInv, Passed, TypeOK, Mode
<1>17. ASSUME NEW m \in Mode, Claim(m)
      PROVE  ParkInv'
  BY <1>17 DEF Claim, Goto, Drain, ParkInv, Passed, TypeOK, Mode
<1>18. ASSUME NEW m \in Mode, StepDrains(m)
      PROVE  ParkInv'
  BY <1>18 DEF StepDrains, Running, Goto, Drain, ParkInv, Passed, TypeOK, Mode
<1>19. ASSUME NEW m \in Mode, Write(m)
      PROVE  ParkInv'
  BY <1>19 DEF Write, Goto, Entitled, ParkInv, Passed, TypeOK, Mode
<1>20. ASSUME NEW m \in Mode, WriteFails(m)
      PROVE  ParkInv'
  BY <1>20 DEF WriteFails, Goto, Entitled, ParkInv, Passed, TypeOK, Mode
<1>21. ASSUME NEW m \in Mode, ThreadEnds(m)
      PROVE  ParkInv'
  BY <1>21 DEF ThreadEnds, Goto, RfOffSafe, ParkInv, Passed, TypeOK, Mode
<1>22. CASE UNCHANGED vars
  BY <1>22 DEF vars, ParkInv, Passed, TypeOK, Mode
<1>23. QED
  BY <1>1, <1>2, <1>3, <1>4, <1>5, <1>6, <1>7, <1>8, <1>9, <1>10, <1>11,
     <1>12, <1>13, <1>14, <1>15, <1>16, <1>17, <1>18, <1>19, <1>20, <1>21,
     <1>22
     DEF Next, Gui, Engine, Operator

\* If no handoffs have crossed, the tabs that are not shown are parked.
THEOREM ParkedTabs == Spec => []OthersAreParked
<1>1. Init => ParkInv
  BY DEF Init, ParkInv, Passed
<1>2. ParkInv => OthersAreParked
  BY DEF ParkInv, Passed, OthersAreParked
<1>3. QED
  BY <1>1, <1>2, TypeInit, TypeNext, ParkNext, PTL DEF Spec
=============================================================================

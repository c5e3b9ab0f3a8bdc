------------------------- MODULE BridgeServer_proofs -------------------------
(***************************************************************************)
(* Theorems about the bridge's threads, for any number of sessions, pads,  *)
(* worker slots and bus faults.                                            *)
(***************************************************************************)
EXTENDS BridgeServer, FiniteSetTheorems, TLAPS

LEMMA TypeInit == Init => TypeOK
BY BridgeAssumption DEF Init, TypeOK, PC

LEMMA DeadManPadsType == TypeOK => \A s \in Session : DeadManPads(s) \in SUBSET SafePad
BY DEF TypeOK, DeadManPads, Covered

LEMMA TypeNext == TypeOK /\ [Next]_vars => TypeOK'
<1> SUFFICES ASSUME TypeOK, [Next]_vars
             PROVE  TypeOK'
  OBVIOUS
<1> USE BridgeAssumption DEF PC, Serving, Exiting, Excuse, Scope
<1>1. ASSUME NEW s \in Session, Connect(s)
      PROVE  TypeOK'
  BY <1>1 DEF Connect, Goto, plant, TypeOK
<1>2. ASSUME NEW s \in Session, Accept(s)
      PROVE  TypeOK'
  BY <1>2 DEF Accept, Goto, plant, TypeOK
<1>3. ASSUME NEW s \in Session, StartWorker(s)
      PROVE  TypeOK'
  BY <1>3 DEF StartWorker, Goto, plant, TypeOK
<1>4. ASSUME NEW s \in Session, Authenticate(s)
      PROVE  TypeOK'
  BY <1>4 DEF Authenticate, Goto, plant, TypeOK
<1>5. ASSUME NEW s \in Session, NEW p \in Pad, Address(s, p)
      PROVE  TypeOK'
  BY <1>5 DEF Address, Bind, BindFault, Goto, plant, TypeOK
<1>6. ASSUME NEW s \in Session, NEW sc \in Asked, Acquire(s, sc)
      PROVE  TypeOK'
  BY <1>6 DEF Acquire, Goto, plant, TypeOK
<1>7. ASSUME NEW s \in Session, Lapse(s)
      PROVE  TypeOK'
  BY <1>7 DEF Lapse, Goto, plant, TypeOK
<1>8. ASSUME NEW s \in Session, Release(s)
      PROVE  TypeOK'
  BY <1>8 DEF Release, Goto, plant, TypeOK
<1>9. ASSUME NEW s \in Session, NEW op \in Ops, CheckOp(s, op)
      PROVE  TypeOK'
  BY <1>9 DEF CheckOp, Goto, plant, TypeOK
<1>10. ASSUME NEW s \in Session, BusWrite(s)
      PROVE  TypeOK'
  <2>1. /\ keyed' \in [Session -> SUBSET SafePad] /\ pc' \in [Session -> PC]
        /\ hot' \in SUBSET SafePad /\ keyer' \in [SafePad -> Session \cup {NoOne}]
        /\ excused' \in [SafePad -> SUBSET Excuse]
    BY <1>10 DEF BusWrite, Goto, TypeOK, Switch
  <2>2. QED
    BY <1>10, <2>1 DEF BusWrite, TypeOK
<1>11. ASSUME NEW s \in Session, BusWriteFault(s)
      PROVE  TypeOK'
  BY <1>11 DEF BusWriteFault, Goto, plant, TypeOK, Switch
<1>12. ASSUME NEW s \in Session, BusQuery(s) \/ NoDevice(s)
      PROVE  TypeOK'
  BY <1>12 DEF BusQuery, NoDevice, Goto, plant, TypeOK
<1>13. ASSUME NEW s \in Session, Crash(s)
      PROVE  TypeOK'
  BY <1>13 DEF Crash, Goto, plant, TypeOK
<1>14. ASSUME NEW s \in Session, Break(s)
      PROVE  TypeOK'
  BY <1>14, DeadManPadsType DEF Break, Goto, plant, TypeOK
<1>15. ASSUME NEW s \in Session, NEW p \in SafePad, SafeCheck(s, p)
      PROVE  TypeOK'
  BY <1>15 DEF SafeCheck, Goto, plant, TypeOK
<1>16. ASSUME NEW s \in Session, NEW p \in SafePad, SafeWrite(s, p)
      PROVE  TypeOK'
  BY <1>16 DEF SafeWrite, Goto, plant, TypeOK, Switch
<1>17. ASSUME NEW s \in Session, NEW p \in SafePad, SafeWriteFault(s, p)
      PROVE  TypeOK'
  BY <1>17 DEF SafeWriteFault, Goto, plant, TypeOK
<1>18. ASSUME NEW s \in Session, ExitRelease(s)
      PROVE  TypeOK'
  BY <1>18 DEF ExitRelease, Goto, plant, TypeOK
<1>19. ASSUME NEW s \in Session, Unregister(s)
      PROVE  TypeOK'
  BY <1>19 DEF Unregister, Goto, plant, TypeOK
<1>20. ASSUME NEW s \in Session, FreeSlot(s)
      PROVE  TypeOK'
  BY <1>20 DEF FreeSlot, Goto, plant, TypeOK
<1>21. CASE UNCHANGED vars
  BY <1>21 DEF vars, TypeOK
<1>22. QED
  BY <1>1, <1>2, <1>3, <1>4, <1>5, <1>6, <1>7, <1>8, <1>9, <1>10, <1>11,
     <1>12, <1>13, <1>14, <1>15, <1>16, <1>17, <1>18, <1>19, <1>20, <1>21
     DEF Next, Client, Bench, DeadMan, Exit, Server

\* Every variable of the bridge keeps its type.
THEOREM TypeCorrect == Spec => []TypeOK
BY TypeInit, TypeNext, PTL DEF Spec

-----------------------------------------------------------------------------
(* Leases. *)

\* What a step does to the table: nothing, one entry dropped, one granted.
LeaseStep ==
  \/ lease' = lease
  \/ \E s \in Session : lease' = [lease EXCEPT ![s] = NoScope]
  \/ \E s \in Session, sc \in Scope :
       Permitted(s, sc) /\ lease' = [lease EXCEPT ![s] = sc]

LEMMA LeaseSteps == [Next]_vars => LeaseStep
<1> SUFFICES ASSUME [Next]_vars
             PROVE  LeaseStep
  OBVIOUS
<1>1. ASSUME NEW s \in Session, Connect(s)
      PROVE  LeaseStep
  BY <1>1 DEF Connect, Goto, plant, LeaseStep
<1>2. ASSUME NEW s \in Session, Accept(s)
      PROVE  LeaseStep
  BY <1>2 DEF Accept, Goto, plant, LeaseStep
<1>3. ASSUME NEW s \in Session, StartWorker(s)
      PROVE  LeaseStep
  BY <1>3 DEF StartWorker, Goto, plant, LeaseStep
<1>4. ASSUME NEW s \in Session, Authenticate(s)
      PROVE  LeaseStep
  BY <1>4 DEF Authenticate, Goto, plant, LeaseStep
<1>5. ASSUME NEW s \in Session, NEW p \in Pad, Address(s, p)
      PROVE  LeaseStep
  BY <1>5 DEF Address, Bind, BindFault, Goto, plant, LeaseStep
<1>6. ASSUME NEW s \in Session, NEW sc \in Asked, Acquire(s, sc)
      PROVE  LeaseStep
  BY <1>6, BridgeAssumption DEF Acquire, LeaseStep
<1>7. ASSUME NEW s \in Session, Lapse(s)
      PROVE  LeaseStep
  BY <1>7 DEF Lapse, Goto, plant, LeaseStep
<1>8. ASSUME NEW s \in Session, Release(s)
      PROVE  LeaseStep
  BY <1>8 DEF Release, Goto, plant, LeaseStep
<1>9. ASSUME NEW s \in Session, NEW op \in Ops, CheckOp(s, op)
      PROVE  LeaseStep
  BY <1>9 DEF CheckOp, Goto, plant, LeaseStep
<1>10. ASSUME NEW s \in Session, BusWrite(s)
      PROVE  LeaseStep
  BY <1>10 DEF BusWrite, Goto, plant, LeaseStep
<1>11. ASSUME NEW s \in Session, BusWriteFault(s)
      PROVE  LeaseStep
  BY <1>11 DEF BusWriteFault, Goto, plant, LeaseStep
<1>12. ASSUME NEW s \in Session, BusQuery(s) \/ NoDevice(s)
      PROVE  LeaseStep
  BY <1>12 DEF BusQuery, NoDevice, Goto, plant, LeaseStep
<1>13. ASSUME NEW s \in Session, Crash(s)
      PROVE  LeaseStep
  BY <1>13 DEF Crash, Goto, plant, LeaseStep
<1>14. ASSUME NEW s \in Session, Break(s)
      PROVE  LeaseStep
  BY <1>14 DEF Break, Goto, plant, LeaseStep
<1>15. ASSUME NEW s \in Session, NEW p \in SafePad, SafeCheck(s, p)
      PROVE  LeaseStep
  BY <1>15 DEF SafeCheck, Goto, plant, LeaseStep
<1>16. ASSUME NEW s \in Session, NEW p \in SafePad, SafeWrite(s, p)
      PROVE  LeaseStep
  BY <1>16 DEF SafeWrite, Goto, plant, LeaseStep
<1>17. ASSUME NEW s \in Session, NEW p \in SafePad, SafeWriteFault(s, p)
      PROVE  LeaseStep
  BY <1>17 DEF SafeWriteFault, Goto, plant, LeaseStep
<1>18. ASSUME NEW s \in Session, ExitRelease(s)
      PROVE  LeaseStep
  BY <1>18 DEF ExitRelease, Goto, plant, LeaseStep
<1>19. ASSUME NEW s \in Session, Unregister(s)
      PROVE  LeaseStep
  BY <1>19 DEF Unregister, Goto, plant, LeaseStep
<1>20. ASSUME NEW s \in Session, FreeSlot(s)
      PROVE  LeaseStep
  BY <1>20 DEF FreeSlot, Goto, plant, LeaseStep
<1>21. CASE UNCHANGED vars
  BY <1>21 DEF vars, LeaseStep
<1>22. QED
  BY <1>1, <1>2, <1>3, <1>4, <1>5, <1>6, <1>7, <1>8, <1>9, <1>10, <1>11,
     <1>12, <1>13, <1>14, <1>15, <1>16, <1>17, <1>18, <1>19, <1>20, <1>21
     DEF Next, Client, Bench, DeadMan, Exit, Server

LEMMA ExclusiveNext == TypeOK /\ TableExclusive /\ [Next]_vars => TableExclusive'
<1> SUFFICES ASSUME TypeOK, TableExclusive, LeaseStep
             PROVE  TableExclusive'
  BY LeaseSteps
<1>0. lease \in [Session -> Scope \cup {NoScope}]
  BY DEF TypeOK
<1>1. CASE lease' = lease
  BY <1>1 DEF TableExclusive
<1>2. ASSUME NEW s \in Session, lease' = [lease EXCEPT ![s] = NoScope]
      PROVE  TableExclusive'
  BY <1>0, <1>2 DEF TableExclusive
<1>3. ASSUME NEW s \in Session, NEW sc \in Scope, Permitted(s, sc),
             lease' = [lease EXCEPT ![s] = sc]
      PROVE  TableExclusive'
  BY <1>0, <1>3 DEF TableExclusive, Permitted, ScopesConflict
<1>4. QED
  BY <1>1, <1>2, <1>3 DEF LeaseStep

\* Two sessions never hold colliding leases, whatever the threads interleave.
THEOREM Exclusivity == Spec => []TableExclusive
<1>1. Init => TableExclusive
  BY DEF Init, TableExclusive
<1>2. QED
  BY <1>1, ExclusiveNext, TypeCorrect, PTL DEF Spec

\* The strengthening: a thread is listed from its start until it unregisters.
ThreadsAreListed ==
  \A s \in Session :
    pc[s] \in Serving \cup {"safing", "safeWrite", "unregister"} => s \in registered

LEMMA ListedNext == TypeOK /\ ThreadsAreListed /\ [Next]_vars => ThreadsAreListed'
<1> SUFFICES ASSUME TypeOK, ThreadsAreListed, [Next]_vars
             PROVE  ThreadsAreListed'
  OBVIOUS
<1> USE BridgeAssumption DEF Serving, Exiting
<1>1. ASSUME NEW s \in Session, Connect(s)
      PROVE  ThreadsAreListed'
  BY <1>1 DEF Connect, Goto, plant, TypeOK, ThreadsAreListed
<1>2. ASSUME NEW s \in Session, Accept(s)
      PROVE  ThreadsAreListed'
  BY <1>2 DEF Accept, Goto, plant, TypeOK, ThreadsAreListed
<1>3. ASSUME NEW s \in Session, StartWorker(s)
      PROVE  ThreadsAreListed'
  BY <1>3 DEF StartWorker, Goto, plant, TypeOK, ThreadsAreListed
<1>4. ASSUME NEW s \in Session, Authenticate(s)
      PROVE  ThreadsAreListed'
  BY <1>4 DEF Authenticate, Goto, plant, TypeOK, ThreadsAreListed
<1>5. ASSUME NEW s \in Session, NEW p \in Pad, Address(s, p)
      PROVE  ThreadsAreListed'
  BY <1>5 DEF Address, Bind, BindFault, Goto, plant, TypeOK, ThreadsAreListed
<1>6. ASSUME NEW s \in Session, NEW sc \in Asked, Acquire(s, sc)
      PROVE  ThreadsAreListed'
  BY <1>6 DEF Acquire, Goto, plant, TypeOK, ThreadsAreListed
<1>7. ASSUME NEW s \in Session, Lapse(s)
      PROVE  ThreadsAreListed'
  BY <1>7 DEF Lapse, Goto, plant, TypeOK, ThreadsAreListed
<1>8. ASSUME NEW s \in Session, Release(s)
      PROVE  ThreadsAreListed'
  BY <1>8 DEF Release, Goto, plant, TypeOK, ThreadsAreListed
<1>9. ASSUME NEW s \in Session, NEW op \in Ops, CheckOp(s, op)
      PROVE  ThreadsAreListed'
  BY <1>9 DEF CheckOp, Goto, plant, TypeOK, ThreadsAreListed
<1>10. ASSUME NEW s \in Session, BusWrite(s)
      PROVE  ThreadsAreListed'
  BY <1>10 DEF BusWrite, Goto, plant, TypeOK, ThreadsAreListed, Switch
<1>11. ASSUME NEW s \in Session, BusWriteFault(s)
      PROVE  ThreadsAreListed'
  BY <1>11 DEF BusWriteFault, Goto, plant, TypeOK, ThreadsAreListed, Switch
<1>12. ASSUME NEW s \in Session, BusQuery(s) \/ NoDevice(s)
      PROVE  ThreadsAreListed'
  BY <1>12 DEF BusQuery, NoDevice, Goto, plant, TypeOK, ThreadsAreListed
<1>13. ASSUME NEW s \in Session, Crash(s)
      PROVE  ThreadsAreListed'
  BY <1>13 DEF Crash, Goto, plant, TypeOK, ThreadsAreListed
<1>14. ASSUME NEW s \in Session, Break(s)
      PROVE  ThreadsAreListed'
  BY <1>14 DEF Break, Goto, plant, TypeOK, ThreadsAreListed
<1>15. ASSUME NEW s \in Session, NEW p \in SafePad, SafeCheck(s, p)
      PROVE  ThreadsAreListed'
  BY <1>15 DEF SafeCheck, Goto, plant, TypeOK, ThreadsAreListed
<1>16. ASSUME NEW s \in Session, NEW p \in SafePad, SafeWrite(s, p)
      PROVE  ThreadsAreListed'
  BY <1>16 DEF SafeWrite, Goto, plant, TypeOK, ThreadsAreListed, Switch
<1>17. ASSUME NEW s \in Session, NEW p \in SafePad, SafeWriteFault(s, p)
      PROVE  ThreadsAreListed'
  BY <1>17 DEF SafeWriteFault, Goto, plant, TypeOK, ThreadsAreListed
<1>18. ASSUME NEW s \in Session, ExitRelease(s)
      PROVE  ThreadsAreListed'
  BY <1>18 DEF ExitRelease, Goto, plant, TypeOK, ThreadsAreListed
<1>19. ASSUME NEW s \in Session, Unregister(s)
      PROVE  ThreadsAreListed'
  BY <1>19 DEF Unregister, Goto, plant, TypeOK, ThreadsAreListed
<1>20. ASSUME NEW s \in Session, FreeSlot(s)
      PROVE  ThreadsAreListed'
  BY <1>20 DEF FreeSlot, Goto, plant, TypeOK, ThreadsAreListed
<1>21. CASE UNCHANGED vars
  BY <1>21 DEF vars, TypeOK, ThreadsAreListed
<1>22. QED
  BY <1>1, <1>2, <1>3, <1>4, <1>5, <1>6, <1>7, <1>8, <1>9, <1>10, <1>11,
     <1>12, <1>13, <1>14, <1>15, <1>16, <1>17, <1>18, <1>19, <1>20, <1>21
     DEF Next, Client, Bench, DeadMan, Exit, Server

LEMMA ServedNext ==
  TypeOK /\ ThreadsAreListed /\ HoldersAreServed /\ [Next]_vars => HoldersAreServed'
<1> SUFFICES ASSUME TypeOK, ThreadsAreListed, HoldersAreServed, [Next]_vars
             PROVE  HoldersAreServed'
  OBVIOUS
<1> USE BridgeAssumption DEF Serving, Exiting
<1>1. ASSUME NEW s \in Session, Connect(s)
      PROVE  HoldersAreServed'
  BY <1>1 DEF Connect, Goto, plant, TypeOK, ThreadsAreListed, HoldersAreServed
<1>2. ASSUME NEW s \in Session, Accept(s)
      PROVE  HoldersAreServed'
  BY <1>2 DEF Accept, Goto, plant, TypeOK, ThreadsAreListed, HoldersAreServed
<1>3. ASSUME NEW s \in Session, StartWorker(s)
      PROVE  HoldersAreServed'
  BY <1>3 DEF StartWorker, Goto, plant, TypeOK, ThreadsAreListed, HoldersAreServed
<1>4. ASSUME NEW s \in Session, Authenticate(s)
      PROVE  HoldersAreServed'
  BY <1>4 DEF Authenticate, Goto, plant, TypeOK, ThreadsAreListed, HoldersAreServed
<1>5. ASSUME NEW s \in Session, NEW p \in Pad, Address(s, p)
      PROVE  HoldersAreServed'
  BY <1>5 DEF Address, Bind, BindFault, Goto, plant, TypeOK, ThreadsAreListed, HoldersAreServed
<1>6. ASSUME NEW s \in Session, NEW sc \in Asked, Acquire(s, sc)
      PROVE  HoldersAreServed'
  BY <1>6 DEF Acquire, Goto, plant, TypeOK, ThreadsAreListed, HoldersAreServed
<1>7. ASSUME NEW s \in Session, Lapse(s)
      PROVE  HoldersAreServed'
  BY <1>7 DEF Lapse, Goto, plant, TypeOK, ThreadsAreListed, HoldersAreServed
<1>8. ASSUME NEW s \in Session, Release(s)
      PROVE  HoldersAreServed'
  BY <1>8 DEF Release, Goto, plant, TypeOK, ThreadsAreListed, HoldersAreServed
<1>9. ASSUME NEW s \in Session, NEW op \in Ops, CheckOp(s, op)
      PROVE  HoldersAreServed'
  BY <1>9 DEF CheckOp, Goto, plant, TypeOK, ThreadsAreListed, HoldersAreServed
<1>10. ASSUME NEW s \in Session, BusWrite(s)
      PROVE  HoldersAreServed'
  BY <1>10 DEF BusWrite, Goto, plant, TypeOK, ThreadsAreListed, HoldersAreServed, Switch
<1>11. ASSUME NEW s \in Session, BusWriteFault(s)
      PROVE  HoldersAreServed'
  BY <1>11 DEF BusWriteFault, Goto, plant, TypeOK, ThreadsAreListed, HoldersAreServed, Switch
<1>12. ASSUME NEW s \in Session, BusQuery(s) \/ NoDevice(s)
      PROVE  HoldersAreServed'
  BY <1>12 DEF BusQuery, NoDevice, Goto, plant, TypeOK, ThreadsAreListed, HoldersAreServed
<1>13. ASSUME NEW s \in Session, Crash(s)
      PROVE  HoldersAreServed'
  BY <1>13 DEF Crash, Goto, plant, TypeOK, ThreadsAreListed, HoldersAreServed
<1>14. ASSUME NEW s \in Session, Break(s)
      PROVE  HoldersAreServed'
  BY <1>14 DEF Break, Goto, plant, TypeOK, ThreadsAreListed, HoldersAreServed
<1>15. ASSUME NEW s \in Session, NEW p \in SafePad, SafeCheck(s, p)
      PROVE  HoldersAreServed'
  BY <1>15 DEF SafeCheck, Goto, plant, TypeOK, ThreadsAreListed, HoldersAreServed
<1>16. ASSUME NEW s \in Session, NEW p \in SafePad, SafeWrite(s, p)
      PROVE  HoldersAreServed'
  BY <1>16 DEF SafeWrite, Goto, plant, TypeOK, ThreadsAreListed, HoldersAreServed, Switch
<1>17. ASSUME NEW s \in Session, NEW p \in SafePad, SafeWriteFault(s, p)
      PROVE  HoldersAreServed'
  BY <1>17 DEF SafeWriteFault, Goto, plant, TypeOK, ThreadsAreListed, HoldersAreServed
<1>18. ASSUME NEW s \in Session, ExitRelease(s)
      PROVE  HoldersAreServed'
  BY <1>18 DEF ExitRelease, Goto, plant, TypeOK, ThreadsAreListed, HoldersAreServed
<1>19. ASSUME NEW s \in Session, Unregister(s)
      PROVE  HoldersAreServed'
  BY <1>19 DEF Unregister, Goto, plant, TypeOK, ThreadsAreListed, HoldersAreServed
<1>20. ASSUME NEW s \in Session, FreeSlot(s)
      PROVE  HoldersAreServed'
  BY <1>20 DEF FreeSlot, Goto, plant, TypeOK, ThreadsAreListed, HoldersAreServed
<1>21. CASE UNCHANGED vars
  BY <1>21 DEF vars, TypeOK, ThreadsAreListed, HoldersAreServed
<1>22. QED
  BY <1>1, <1>2, <1>3, <1>4, <1>5, <1>6, <1>7, <1>8, <1>9, <1>10, <1>11,
     <1>12, <1>13, <1>14, <1>15, <1>16, <1>17, <1>18, <1>19, <1>20, <1>21
     DEF Next, Client, Bench, DeadMan, Exit, Server

\* No way out of serve_connection leaks a lease.
THEOREM NoLeaseLeaks == Spec => []HoldersAreServed
<1>1. Init => HoldersAreServed /\ ThreadsAreListed
  BY DEF Init, HoldersAreServed, ThreadsAreListed, Serving
<1>2. QED
  BY <1>1, ServedNext, ListedNext, TypeCorrect, PTL DEF Spec

LEMMA KnowsNext ==
  TypeOK /\ HoldersAreServed /\ DeadManKnowsLeases /\ [Next]_vars => DeadManKnowsLeases'
<1> SUFFICES ASSUME TypeOK, HoldersAreServed, DeadManKnowsLeases, [Next]_vars
             PROVE  DeadManKnowsLeases'
  OBVIOUS
<1> USE BridgeAssumption DEF Serving, Exiting
<1>1. ASSUME NEW s \in Session, Connect(s)
      PROVE  DeadManKnowsLeases'
  BY <1>1 DEF Connect, Goto, plant, TypeOK, HoldersAreServed, DeadManKnowsLeases
<1>2. ASSUME NEW s \in Session, Accept(s)
      PROVE  DeadManKnowsLeases'
  BY <1>2 DEF Accept, Goto, plant, TypeOK, HoldersAreServed, DeadManKnowsLeases
<1>3. ASSUME NEW s \in Session, StartWorker(s)
      PROVE  DeadManKnowsLeases'
  BY <1>3 DEF StartWorker, Goto, plant, TypeOK, HoldersAreServed, DeadManKnowsLeases
<1>4. ASSUME NEW s \in Session, Authenticate(s)
      PROVE  DeadManKnowsLeases'
  BY <1>4 DEF Authenticate, Goto, plant, TypeOK, HoldersAreServed, DeadManKnowsLeases
<1>5. ASSUME NEW s \in Session, NEW p \in Pad, Address(s, p)
      PROVE  DeadManKnowsLeases'
  BY <1>5 DEF Address, Bind, BindFault, Goto, plant, TypeOK, HoldersAreServed, DeadManKnowsLeases
<1>6. ASSUME NEW s \in Session, NEW sc \in Asked, Acquire(s, sc)
      PROVE  DeadManKnowsLeases'
  BY <1>6 DEF Acquire, Goto, plant, TypeOK, HoldersAreServed, DeadManKnowsLeases
<1>7. ASSUME NEW s \in Session, Lapse(s)
      PROVE  DeadManKnowsLeases'
  BY <1>7 DEF Lapse, Goto, plant, TypeOK, HoldersAreServed, DeadManKnowsLeases
<1>8. ASSUME NEW s \in Session, Release(s)
      PROVE  DeadManKnowsLeases'
  BY <1>8 DEF Release, Goto, plant, TypeOK, HoldersAreServed, DeadManKnowsLeases
<1>9. ASSUME NEW s \in Session, NEW op \in Ops, CheckOp(s, op)
      PROVE  DeadManKnowsLeases'
  BY <1>9 DEF CheckOp, Goto, plant, TypeOK, HoldersAreServed, DeadManKnowsLeases
<1>10. ASSUME NEW s \in Session, BusWrite(s)
      PROVE  DeadManKnowsLeases'
  BY <1>10 DEF BusWrite, Goto, plant, TypeOK, HoldersAreServed, DeadManKnowsLeases, Switch
<1>11. ASSUME NEW s \in Session, BusWriteFault(s)
      PROVE  DeadManKnowsLeases'
  BY <1>11 DEF BusWriteFault, Goto, plant, TypeOK, HoldersAreServed, DeadManKnowsLeases, Switch
<1>12. ASSUME NEW s \in Session, BusQuery(s) \/ NoDevice(s)
      PROVE  DeadManKnowsLeases'
  BY <1>12 DEF BusQuery, NoDevice, Goto, plant, TypeOK, HoldersAreServed, DeadManKnowsLeases
<1>13. ASSUME NEW s \in Session, Crash(s)
      PROVE  DeadManKnowsLeases'
  BY <1>13 DEF Crash, Goto, plant, TypeOK, HoldersAreServed, DeadManKnowsLeases
<1>14. ASSUME NEW s \in Session, Break(s)
      PROVE  DeadManKnowsLeases'
  BY <1>14 DEF Break, Goto, plant, TypeOK, HoldersAreServed, DeadManKnowsLeases
<1>15. ASSUME NEW s \in Session, NEW p \in SafePad, SafeCheck(s, p)
      PROVE  DeadManKnowsLeases'
  BY <1>15 DEF SafeCheck, Goto, plant, TypeOK, HoldersAreServed, DeadManKnowsLeases
<1>16. ASSUME NEW s \in Session, NEW p \in SafePad, SafeWrite(s, p)
      PROVE  DeadManKnowsLeases'
  BY <1>16 DEF SafeWrite, Goto, plant, TypeOK, HoldersAreServed, DeadManKnowsLeases, Switch
<1>17. ASSUME NEW s \in Session, NEW p \in SafePad, SafeWriteFault(s, p)
      PROVE  DeadManKnowsLeases'
  BY <1>17 DEF SafeWriteFault, Goto, plant, TypeOK, HoldersAreServed, DeadManKnowsLeases
<1>18. ASSUME NEW s \in Session, ExitRelease(s)
      PROVE  DeadManKnowsLeases'
  BY <1>18 DEF ExitRelease, Goto, plant, TypeOK, HoldersAreServed, DeadManKnowsLeases
<1>19. ASSUME NEW s \in Session, Unregister(s)
      PROVE  DeadManKnowsLeases'
  BY <1>19 DEF Unregister, Goto, plant, TypeOK, HoldersAreServed, DeadManKnowsLeases
<1>20. ASSUME NEW s \in Session, FreeSlot(s)
      PROVE  DeadManKnowsLeases'
  BY <1>20 DEF FreeSlot, Goto, plant, TypeOK, HoldersAreServed, DeadManKnowsLeases
<1>21. CASE UNCHANGED vars
  BY <1>21 DEF vars, TypeOK, HoldersAreServed, DeadManKnowsLeases
<1>22. QED
  BY <1>1, <1>2, <1>3, <1>4, <1>5, <1>6, <1>7, <1>8, <1>9, <1>10, <1>11,
     <1>12, <1>13, <1>14, <1>15, <1>16, <1>17, <1>18, <1>19, <1>20, <1>21
     DEF Next, Client, Bench, DeadMan, Exit, Server

\* The dead-man of a serving session covers whatever lease the session holds.
THEOREM DeadManCoversLeases == Spec => []DeadManKnowsLeases
<1>1. Init => DeadManKnowsLeases
  BY DEF Init, DeadManKnowsLeases
<1>2. QED
  BY <1>1, KnowsNext, NoLeaseLeaks, TypeCorrect, PTL DEF Spec
-----------------------------------------------------------------------------
(* The dead-man. *)

\* The step leaves every pad's output and history alone, and disarms nobody.
KeepsArmed ==
  /\ hot' = hot /\ excused' = excused
  /\ \A t \in Session, q \in SafePad : Armed(t, q) => Armed(t, q)'

LEMMA KeepsArmedSuffices == HotIsAccountedFor /\ TypeOK /\ KeepsArmed => HotIsAccountedFor'
BY DEF HotIsAccountedFor, KeepsArmed, TypeOK

\* A's device object is that of the address, if there is one: each client has one address.
DevIsBound == \A s \in Session : pc[s] \notin Exiting => dev[s] \in {NoPad, bound[s]}

LEMMA DevNext == TypeOK /\ DevIsBound /\ [Next]_vars => DevIsBound'
<1> SUFFICES ASSUME TypeOK, DevIsBound, [Next]_vars
             PROVE  DevIsBound'
  OBVIOUS
<1> USE DEF Exiting, Goto, TypeOK
<1>1. ASSUME NEW s \in Session, NEW p \in Pad, Address(s, p)
      PROVE  DevIsBound'
  BY <1>1 DEF Address, Bind, BindFault, DevIsBound
<1>2. ASSUME NEW s \in Session, NEW p \in SafePad, SafeWrite(s, p) \/ SafeWriteFault(s, p)
      PROVE  DevIsBound'
  BY <1>2 DEF SafeWrite, SafeWriteFault, DevIsBound
<1>3. ASSUME NEW s \in Session, FreeSlot(s)
      PROVE  DevIsBound'
  BY <1>3 DEF FreeSlot, DevIsBound
<1>4. ASSUME UNCHANGED <<bound, dev>>, \A s \in Session : pc[s] \in Exiting => pc'[s] \in Exiting
      PROVE  DevIsBound'
  BY <1>4 DEF DevIsBound
<1>5. ASSUME NEW s \in Session, Client(s) \/ Bench(s) \/ Server(s)
      PROVE  DevIsBound'
  BY <1>1, <1>4, <1>5, BridgeAssumption
     DEF Client, Bench, Server, Connect, Authenticate, Release, Crash, Acquire, CheckOp,
         BusWrite, NoDevice, BusWriteFault, BusQuery, Accept, StartWorker, Lapse, Break, Serving
<1>6. ASSUME NEW s \in Session, DeadMan(s) \/ Exit(s)
      PROVE  DevIsBound'
  BY <1>2, <1>3, <1>4, <1>6 DEF DeadMan, Exit, SafeCheck, ExitRelease, Unregister
<1>7. CASE UNCHANGED vars
  BY <1>4, <1>7 DEF vars
<1>8. QED
  BY <1>5, <1>6, <1>7 DEF Next

LEMMA AccountedNext ==
  TypeOK /\ DevIsBound /\ HotIsAccountedFor /\ [Next]_vars => HotIsAccountedFor'
<1> SUFFICES ASSUME TypeOK, DevIsBound, HotIsAccountedFor, [Next]_vars
             PROVE  HotIsAccountedFor'
  OBVIOUS
<1> USE BridgeAssumption DEF Serving, Exiting
<1>0. /\ \A t \in Session : DeadManPads(t) \in SUBSET SafePad
      /\ KeepsArmed => HotIsAccountedFor'
  BY KeepsArmedSuffices, DeadManPadsType
<1>1. ASSUME NEW s \in Session, Connect(s)
      PROVE  HotIsAccountedFor'
  BY <1>1, <1>0 DEF Connect, Goto, plant, TypeOK, KeepsArmed, Armed, DeadManPads, Covered
<1>2. ASSUME NEW s \in Session, Accept(s)
      PROVE  HotIsAccountedFor'
  BY <1>2, <1>0 DEF Accept, Goto, plant, TypeOK, KeepsArmed, Armed, DeadManPads, Covered
<1>3. ASSUME NEW s \in Session, StartWorker(s)
      PROVE  HotIsAccountedFor'
  BY <1>3, <1>0 DEF StartWorker, Goto, plant, TypeOK, KeepsArmed, Armed, DeadManPads, Covered
<1>4. ASSUME NEW s \in Session, Authenticate(s)
      PROVE  HotIsAccountedFor'
  BY <1>4, <1>0 DEF Authenticate, Goto, plant, TypeOK, KeepsArmed, Armed, DeadManPads, Covered
<1>5. ASSUME NEW s \in Session, NEW p \in Pad, Address(s, p)
      PROVE  HotIsAccountedFor'
  BY <1>5, <1>0 DEF Address, Bind, BindFault, Goto, plant, TypeOK, KeepsArmed, Armed, DeadManPads, Covered
<1>6. ASSUME NEW s \in Session, NEW sc \in Asked, Acquire(s, sc)
      PROVE  HotIsAccountedFor'
  BY <1>6, <1>0 DEF Acquire, Goto, plant, TypeOK, KeepsArmed, Armed, DeadManPads, Covered
<1>7. ASSUME NEW s \in Session, Lapse(s)
      PROVE  HotIsAccountedFor'
  BY <1>7, <1>0 DEF Lapse, Goto, plant, TypeOK, KeepsArmed, Armed, DeadManPads, Covered
<1>8. ASSUME NEW s \in Session, Release(s)
      PROVE  HotIsAccountedFor'
  <2>1. ASSUME NEW q \in hot', excused'[q] = {}
        PROVE  \E t \in Session : Armed(t, q)'
    <3>1. q \in hot /\ q \in SafePad /\ excused[q] = {} /\ q \notin DeadManPads(s)
      BY <1>8, <2>1 DEF Release, TypeOK
    <3>2. PICK t \in Session : Armed(t, q)
      BY <3>1 DEF HotIsAccountedFor
    <3>3. t # s
      BY <1>8, <3>1, <3>2 DEF Release, Armed
    <3>4. Armed(t, q)'
      BY <1>8, <3>2, <3>3 DEF Release, Armed, DeadManPads, Covered, TypeOK
    <3>5. QED
      BY <3>4
  <2>2. QED
    BY <2>1 DEF HotIsAccountedFor
<1>9. ASSUME NEW s \in Session, NEW op \in Ops, CheckOp(s, op)
      PROVE  HotIsAccountedFor'
  BY <1>9, <1>0 DEF CheckOp, Goto, plant, TypeOK, KeepsArmed, Armed, DeadManPads, Covered
<1>10. ASSUME NEW s \in Session, BusWrite(s)
      PROVE  HotIsAccountedFor'
  <2>1. CASE dev[s] \notin SafePad
    BY <1>10, <2>1, <1>0 DEF BusWrite, Goto, TypeOK, KeepsArmed, Armed, DeadManPads, Covered
  <2>2. CASE dev[s] \in SafePad
    <3>1. \A t \in Session, q \in SafePad : Armed(t, q) => Armed(t, q)'
      BY <1>10, <2>2 DEF BusWrite, Goto, TypeOK, Armed, DeadManPads, Covered
    <3>2. \A q \in {dev[s]} : Armed(s, q)'
      <4>1. bound[s] = dev[s] /\ pc[s] \notin Exiting
        BY <1>10 DEF BusWrite, DevIsBound
      <4>2. QED
        BY <1>10, <2>2, <4>1 DEF BusWrite, Goto, TypeOK, Armed, DeadManPads, Covered
    <3>3. \A q \in SafePad \ {dev[s]} :
            (q \in hot' <=> q \in hot) /\ excused'[q] = excused[q]
      BY <1>10, <2>2 DEF BusWrite, Switch, TypeOK
    <3>4. hot' \subseteq SafePad
      BY <1>10, <2>2 DEF BusWrite, Switch, TypeOK
    <3>5. ASSUME NEW q \in hot', q # dev[s]
          PROVE  excused'[q] # {} \/ \E t \in Session : Armed(t, q)'
      BY <3>1, <3>3, <3>4, <3>5 DEF HotIsAccountedFor
    <3>6. ASSUME NEW q \in hot'
          PROVE  excused'[q] # {} \/ \E t \in Session : Armed(t, q)'
      BY <3>2, <3>5
    <3>7. QED
      BY <3>6 DEF HotIsAccountedFor
  <2>3. QED
    BY <2>1, <2>2
<1>11. ASSUME NEW s \in Session, BusWriteFault(s)
      PROVE  HotIsAccountedFor'
  <2>1. \A t \in Session, q \in SafePad : Armed(t, q) => Armed(t, q)'
    BY <1>11 DEF BusWriteFault, Goto, TypeOK, Armed, DeadManPads, Covered
  <2>2. \A q \in hot' : excused'[q] # {} \/ (q \in hot /\ excused'[q] = excused[q])
    <3>1. CASE UNCHANGED <<hot, keyer, excused>>
      BY <3>1
    <3>2. CASE /\ dev[s] \in SafePad
               /\ hot' = hot \cup {dev[s]}
               /\ excused' = [excused EXCEPT ![dev[s]] = {"faulted"}]
      <4>1. "faulted" \in excused'[dev[s]]
        BY <3>2 DEF TypeOK
      <4>2. \A q \in SafePad \ {dev[s]} : excused'[q] = excused[q]
        BY <3>2 DEF TypeOK
      <4>3. hot \subseteq SafePad
        BY DEF TypeOK
      <4>4. QED
        BY <3>2, <4>1, <4>2, <4>3
    <3>3. CASE dev[s] \in SafePad /\ Switch(s, dev[s], FALSE)
      BY <3>3 DEF Switch, TypeOK
    <3>4. QED
      BY <1>11, <3>1, <3>2, <3>3 DEF BusWriteFault
  <2>3. hot \subseteq SafePad
    BY DEF TypeOK
  <2>4. QED
    BY <2>1, <2>2, <2>3 DEF HotIsAccountedFor
<1>12. ASSUME NEW s \in Session, BusQuery(s) \/ NoDevice(s)
      PROVE  HotIsAccountedFor'
  BY <1>12, <1>0 DEF BusQuery, NoDevice, Goto, plant, TypeOK, KeepsArmed, Armed, DeadManPads, Covered
<1>13. ASSUME NEW s \in Session, Crash(s)
      PROVE  HotIsAccountedFor'
  BY <1>13, <1>0 DEF Crash, Goto, plant, TypeOK, KeepsArmed, Armed, DeadManPads, Covered
<1>14. ASSUME NEW s \in Session, Break(s)
      PROVE  HotIsAccountedFor'
  <2>1. \A t \in Session, q \in SafePad : Armed(t, q) => Armed(t, q)'
    BY <1>14, <1>0 DEF Break, Goto, TypeOK, Armed, DeadManPads, Covered
  <2>2. QED
    BY <1>14, <2>1, <1>0 DEF Break, plant, KeepsArmed
<1>15. ASSUME NEW s \in Session, NEW p \in SafePad, SafeCheck(s, p)
      PROVE  HotIsAccountedFor'
  <2>1. CASE Permitted(s, p)
    <3>1. \A t \in Session, q \in SafePad : Armed(t, q) => Armed(t, q)'
      BY <1>15, <2>1 DEF SafeCheck, Goto, TypeOK, Armed, DeadManPads, Covered
    <3>2. QED
      BY <1>15, <2>1, <3>1, <1>0 DEF SafeCheck, KeepsArmed
  <2>2. CASE ~Permitted(s, p)
    <3>1. \A t \in Session, q \in SafePad \ {p} : Armed(t, q) => Armed(t, q)'
      BY <1>15, <2>2 DEF SafeCheck, TypeOK, Armed, DeadManPads, Covered
    <3>2. p \in hot => "deferred" \in excused'[p]
      BY <1>15, <2>2 DEF SafeCheck, TypeOK
    <3>3. hot' = hot /\ \A q \in SafePad \ {p} : excused'[q] = excused[q]
      BY <1>15, <2>2 DEF SafeCheck, TypeOK
    <3>4. hot \subseteq SafePad
      BY DEF TypeOK
    <3>5. QED
      BY <3>1, <3>2, <3>3, <3>4 DEF HotIsAccountedFor
  <2>3. QED
    BY <2>1, <2>2
<1>16. ASSUME NEW s \in Session, NEW p \in SafePad, SafeWrite(s, p)
      PROVE  HotIsAccountedFor'
  <2>1. ASSUME NEW q \in hot', excused'[q] = {}
        PROVE  \E t \in Session : Armed(t, q)'
    <3>1. q \in hot /\ q \in SafePad /\ excused[q] = {}
      BY <1>16, <2>1 DEF SafeWrite, Switch, TypeOK
    <3>2. PICK t \in Session : Armed(t, q)
      BY <3>1 DEF HotIsAccountedFor
    <3>3. Armed(t, q)'
      BY <1>16, <2>1, <3>1, <3>2 DEF SafeWrite, Switch, Goto, Armed, DeadManPads, Covered, TypeOK
    <3>4. QED
      BY <3>3
  <2>2. QED
    BY <2>1 DEF HotIsAccountedFor
<1>17. ASSUME NEW s \in Session, NEW p \in SafePad, SafeWriteFault(s, p)
      PROVE  HotIsAccountedFor'
  <2>1. ASSUME NEW q \in hot', excused'[q] = {}
        PROVE  \E t \in Session : Armed(t, q)'
    <3>1. q \in hot /\ q \in SafePad /\ excused[q] = {}
      BY <1>17, <2>1 DEF SafeWriteFault, TypeOK
    <3>2. PICK t \in Session : Armed(t, q)
      BY <3>1 DEF HotIsAccountedFor
    <3>3. Armed(t, q)'
      BY <1>17, <2>1, <3>1, <3>2 DEF SafeWriteFault, Goto, Armed, DeadManPads, Covered, TypeOK
    <3>4. QED
      BY <3>3
  <2>2. QED
    BY <2>1 DEF HotIsAccountedFor
<1>18. ASSUME NEW s \in Session, ExitRelease(s)
      PROVE  HotIsAccountedFor'
  BY <1>18, <1>0 DEF ExitRelease, Goto, plant, TypeOK, KeepsArmed, Armed, DeadManPads, Covered
<1>19. ASSUME NEW s \in Session, Unregister(s)
      PROVE  HotIsAccountedFor'
  BY <1>19, <1>0 DEF Unregister, Goto, plant, TypeOK, KeepsArmed, Armed, DeadManPads, Covered
<1>20. ASSUME NEW s \in Session, FreeSlot(s)
      PROVE  HotIsAccountedFor'
  BY <1>20, <1>0 DEF FreeSlot, Goto, plant, TypeOK, KeepsArmed, Armed, DeadManPads, Covered
<1>21. CASE UNCHANGED vars
  BY <1>21, <1>0 DEF vars, TypeOK, KeepsArmed, Armed, DeadManPads, Covered
<1>22. QED
  BY <1>1, <1>2, <1>3, <1>4, <1>5, <1>6, <1>7, <1>8, <1>9, <1>10, <1>11,
     <1>12, <1>13, <1>14, <1>15, <1>16, <1>17, <1>18, <1>19, <1>20, <1>21
     DEF Next, Client, Bench, DeadMan, Exit, Server

\* A radiating pad has a dead-man behind it, unless a U, a successor's control
\* or a bus fault has relieved it: for any number of clients, in any order.
THEOREM DeadManAccounting == Spec => []HotIsAccountedFor
<1>1. Init => HotIsAccountedFor
  BY DEF Init, HotIsAccountedFor
<1>2. Init => DevIsBound
  BY DEF Init, DevIsBound
<1>3. QED
  BY <1>1, <1>2, AccountedNext, DevNext, TypeCorrect, PTL DEF Spec

\* What the teardown of a leaseholder still owes: each pad it keyed under the
\* lease and that is still on is one it has yet to treat.
TeardownOwes ==
  \A s \in Session, p \in SafePad :
    /\ pc[s] \in {"safing", "safeWrite"}
    /\ lease[s] \in {p, Bus}
    /\ p \in hot /\ keyer[p] = s
    => p \in unsafed[s] \/ excused[p] # {}

LEMMA OwesNext ==
  TypeOK /\ DeadManKnowsLeases /\ TeardownOwes /\ [Next]_vars => TeardownOwes'
<1> SUFFICES ASSUME TypeOK, DeadManKnowsLeases, TeardownOwes, [Next]_vars
             PROVE  TeardownOwes'
  OBVIOUS
<1> USE BridgeAssumption DEF Serving, Exiting
<1>1. ASSUME NEW s \in Session, Connect(s)
      PROVE  TeardownOwes'
  BY <1>1 DEF Connect, Goto, plant, TypeOK, TeardownOwes, Scope
<1>2. ASSUME NEW s \in Session, Accept(s)
      PROVE  TeardownOwes'
  BY <1>2 DEF Accept, Goto, plant, TypeOK, TeardownOwes, Scope
<1>3. ASSUME NEW s \in Session, StartWorker(s)
      PROVE  TeardownOwes'
  BY <1>3 DEF StartWorker, Goto, plant, TypeOK, TeardownOwes, Scope
<1>4. ASSUME NEW s \in Session, Authenticate(s)
      PROVE  TeardownOwes'
  BY <1>4 DEF Authenticate, Goto, plant, TypeOK, TeardownOwes, Scope
<1>5. ASSUME NEW s \in Session, NEW p \in Pad, Address(s, p)
      PROVE  TeardownOwes'
  BY <1>5 DEF Address, Bind, BindFault, Goto, plant, TypeOK, TeardownOwes, Scope
<1>6. ASSUME NEW s \in Session, NEW sc \in Asked, Acquire(s, sc)
      PROVE  TeardownOwes'
  BY <1>6 DEF Acquire, Goto, plant, TypeOK, TeardownOwes, Scope
<1>7. ASSUME NEW s \in Session, Lapse(s)
      PROVE  TeardownOwes'
  BY <1>7 DEF Lapse, Goto, plant, TypeOK, TeardownOwes, Scope
<1>8. ASSUME NEW s \in Session, Release(s)
      PROVE  TeardownOwes'
  BY <1>8 DEF Release, Goto, plant, TypeOK, TeardownOwes, Scope
<1>9. ASSUME NEW s \in Session, NEW op \in Ops, CheckOp(s, op)
      PROVE  TeardownOwes'
  BY <1>9 DEF CheckOp, Goto, plant, TypeOK, TeardownOwes, Scope
<1>10. ASSUME NEW s \in Session, BusWrite(s)
      PROVE  TeardownOwes'
  <2>1. \A q \in SafePad :
          \/ q \notin hot'
          \/ keyer'[q] = s
          \/ q \in hot /\ keyer'[q] = keyer[q] /\ excused'[q] = excused[q]
    <3>1. CASE dev[s] \notin SafePad
      BY <1>10, <3>1 DEF BusWrite
    <3>2. CASE dev[s] \in SafePad /\ pc[s] = "writeOn"
      <4>1. \A q \in SafePad \ {dev[s]} :
              (q \in hot' <=> q \in hot) /\ keyer'[q] = keyer[q] /\ excused'[q] = excused[q]
        BY <1>10, <3>2 DEF BusWrite, Switch, TypeOK
      <4>2. keyer'[dev[s]] = s
        BY <1>10, <3>2 DEF BusWrite, Switch, TypeOK
      <4>3. TAKE q \in SafePad
      <4>4. CASE q = dev[s]
        BY <4>2, <4>4
      <4>5. CASE q # dev[s]
        BY <4>1, <4>5
      <4>6. QED
        BY <4>4, <4>5
    <3>3. CASE dev[s] \in SafePad /\ pc[s] # "writeOn"
      <4>1. \A q \in SafePad \ {dev[s]} :
              (q \in hot' <=> q \in hot) /\ keyer'[q] = keyer[q] /\ excused'[q] = excused[q]
        BY <1>10, <3>3 DEF BusWrite, Switch, TypeOK
      <4>2. dev[s] \notin hot'
        BY <1>10, <3>3 DEF BusWrite, Switch, TypeOK
      <4>3. TAKE q \in SafePad
      <4>4. CASE q = dev[s]
        BY <4>2, <4>4
      <4>5. CASE q # dev[s]
        BY <4>1, <4>5
      <4>6. QED
        BY <4>4, <4>5
    <3>4. QED
      BY <3>1, <3>2, <3>3
  <2>2. \A t \in Session : pc'[t] \in {"safing", "safeWrite"} => t # s /\ pc[t] = pc'[t]
    BY <1>10 DEF BusWrite, Goto, TypeOK
  <2>3. lease' = lease /\ unsafed' = unsafed
    BY <1>10 DEF BusWrite
  <2>4. QED
    BY <2>1, <2>2, <2>3 DEF TeardownOwes
<1>11. ASSUME NEW s \in Session, BusWriteFault(s)
      PROVE  TeardownOwes'
  <2>1. \A q \in SafePad :
          \/ q \notin hot'
          \/ keyer'[q] = s
          \/ q \in hot /\ keyer'[q] = keyer[q] /\ excused'[q] = excused[q]
    <3>1. CASE UNCHANGED <<hot, keyer, excused>>
      BY <3>1
    <3>2. CASE /\ dev[s] \in SafePad
               /\ hot' = hot \cup {dev[s]}
               /\ keyer' = [keyer EXCEPT ![dev[s]] = s]
               /\ excused' = [excused EXCEPT ![dev[s]] = {"faulted"}]
      <4>1. \A q \in SafePad \ {dev[s]} :
              (q \in hot' <=> q \in hot) /\ keyer'[q] = keyer[q] /\ excused'[q] = excused[q]
        BY <3>2 DEF TypeOK
      <4>2. keyer'[dev[s]] = s
        BY <3>2 DEF TypeOK
      <4>3. TAKE q \in SafePad
      <4>4. CASE q = dev[s]
        BY <4>2, <4>4
      <4>5. CASE q # dev[s]
        BY <4>1, <4>5
      <4>6. QED
        BY <4>4, <4>5
    <3>3. CASE dev[s] \in SafePad /\ Switch(s, dev[s], FALSE)
      <4>1. \A q \in SafePad \ {dev[s]} :
              (q \in hot' <=> q \in hot) /\ keyer'[q] = keyer[q] /\ excused'[q] = excused[q]
        BY <3>3 DEF Switch, TypeOK
      <4>2. dev[s] \notin hot'
        BY <3>3 DEF Switch, TypeOK
      <4>3. TAKE q \in SafePad
      <4>4. CASE q = dev[s]
        BY <4>2, <4>4
      <4>5. CASE q # dev[s]
        BY <4>1, <4>5
      <4>6. QED
        BY <4>4, <4>5
    <3>4. QED
      BY <1>11, <3>1, <3>2, <3>3 DEF BusWriteFault
  <2>2. \A t \in Session : pc'[t] \in {"safing", "safeWrite"} => t # s /\ pc[t] = pc'[t]
    BY <1>11 DEF BusWriteFault, Goto, TypeOK
  <2>3. lease' = lease /\ unsafed' = unsafed
    BY <1>11 DEF BusWriteFault
  <2>4. QED
    BY <2>1, <2>2, <2>3 DEF TeardownOwes
<1>12. ASSUME NEW s \in Session, BusQuery(s) \/ NoDevice(s)
      PROVE  TeardownOwes'
  BY <1>12 DEF BusQuery, NoDevice, Goto, plant, TypeOK, TeardownOwes, Scope
<1>13. ASSUME NEW s \in Session, Crash(s)
      PROVE  TeardownOwes'
  BY <1>13 DEF Crash, Goto, plant, TypeOK, TeardownOwes, Scope
<1>14. ASSUME NEW s \in Session, Break(s)
      PROVE  TeardownOwes'
  <2>1. \A q \in SafePad : lease[s] \in {q, Bus} => q \in unsafed'[s]
    BY <1>14 DEF Break, TypeOK, DeadManKnowsLeases, DeadManPads, Covered, Scope
  <2>2. \A t \in Session \ {s} : pc'[t] = pc[t] /\ unsafed'[t] = unsafed[t]
    BY <1>14 DEF Break, Goto, TypeOK
  <2>3. UNCHANGED <<lease, hot, keyer, excused>>
    BY <1>14 DEF Break, plant
  <2>4. QED
    BY <2>1, <2>2, <2>3 DEF TeardownOwes
<1>15. ASSUME NEW s \in Session, NEW p \in SafePad, SafeCheck(s, p)
      PROVE  TeardownOwes'
  <2>1. \A t \in Session : pc'[t] \in {"safing", "safeWrite"} => pc[t] \in {"safing", "safeWrite"}
    BY <1>15 DEF SafeCheck, Goto, TypeOK
  <2>2. \A t \in Session, q \in SafePad :
          q \in unsafed[t] => q \in unsafed'[t] \/ q \notin hot \/ "deferred" \in excused'[q]
    BY <1>15 DEF SafeCheck, TypeOK
  <2>3. \A q \in SafePad : excused[q] \subseteq excused'[q]
    BY <1>15 DEF SafeCheck, TypeOK
  <2>4. UNCHANGED <<lease, hot, keyer>>
    BY <1>15 DEF SafeCheck
  <2>5. ASSUME NEW t \in Session, NEW q \in SafePad,
               pc'[t] \in {"safing", "safeWrite"}, lease'[t] \in {q, Bus},
               q \in hot', keyer'[q] = t
        PROVE  q \in unsafed'[t] \/ excused'[q] # {}
    <3>1. q \in unsafed[t] \/ excused[q] # {}
      BY <2>1, <2>4, <2>5 DEF TeardownOwes
    <3>2. QED
      BY <2>2, <2>3, <2>4, <2>5, <3>1
  <2>6. QED
    BY <2>5 DEF TeardownOwes
<1>16. ASSUME NEW s \in Session, NEW p \in SafePad, SafeWrite(s, p)
      PROVE  TeardownOwes'
  BY <1>16 DEF SafeWrite, Goto, plant, TypeOK, TeardownOwes, Scope, Switch
<1>17. ASSUME NEW s \in Session, NEW p \in SafePad, SafeWriteFault(s, p)
      PROVE  TeardownOwes'
  <2>1. \A t \in Session : pc'[t] \in {"safing", "safeWrite"} => pc[t] \in {"safing", "safeWrite"}
    BY <1>17 DEF SafeWriteFault, Goto, TypeOK
  <2>2. \A t \in Session, q \in SafePad :
          q \in unsafed[t] => q \in unsafed'[t] \/ q \notin hot \/ "faulted" \in excused'[q]
    BY <1>17 DEF SafeWriteFault, TypeOK
  <2>3. \A q \in SafePad : excused[q] \subseteq excused'[q]
    BY <1>17 DEF SafeWriteFault, TypeOK
  <2>4. UNCHANGED <<lease, hot, keyer>>
    BY <1>17 DEF SafeWriteFault
  <2>5. ASSUME NEW t \in Session, NEW q \in SafePad,
               pc'[t] \in {"safing", "safeWrite"}, lease'[t] \in {q, Bus},
               q \in hot', keyer'[q] = t
        PROVE  q \in unsafed'[t] \/ excused'[q] # {}
    <3>1. q \in unsafed[t] \/ excused[q] # {}
      BY <2>1, <2>4, <2>5 DEF TeardownOwes
    <3>2. QED
      BY <2>2, <2>3, <2>4, <2>5, <3>1
  <2>6. QED
    BY <2>5 DEF TeardownOwes
<1>18. ASSUME NEW s \in Session, ExitRelease(s)
      PROVE  TeardownOwes'
  BY <1>18 DEF ExitRelease, Goto, plant, TypeOK, TeardownOwes, Scope
<1>19. ASSUME NEW s \in Session, Unregister(s)
      PROVE  TeardownOwes'
  BY <1>19 DEF Unregister, Goto, plant, TypeOK, TeardownOwes, Scope
<1>20. ASSUME NEW s \in Session, FreeSlot(s)
      PROVE  TeardownOwes'
  BY <1>20 DEF FreeSlot, Goto, plant, TypeOK, TeardownOwes, Scope
<1>21. CASE UNCHANGED vars
  BY <1>21 DEF vars, TypeOK, TeardownOwes, Scope
<1>22. QED
  BY <1>1, <1>2, <1>3, <1>4, <1>5, <1>6, <1>7, <1>8, <1>9, <1>10, <1>11,
     <1>12, <1>13, <1>14, <1>15, <1>16, <1>17, <1>18, <1>19, <1>20, <1>21
     DEF Next, Client, Bench, DeadMan, Exit, Server

LEMMA LeavesCold ==
  ASSUME TypeOK, TeardownOwes, [Next]_vars,
         NEW s \in Session, pc'[s] \in Exiting, pc'[s] # pc[s],
         lease[s] # NoScope, lease'[s] = NoScope
  PROVE  \A p \in Covered({lease[s]}) \cap hot : keyer[p] # s \/ excused[p] # {}
<1>1. unsafed[s] = {} /\ pc[s] = "safing"
  <2> USE DEF Exiting, Serving
  <2>1. CASE \E t \in Session : Client(t) \/ Bench(t) \/ Server(t)
    BY <2>1 DEF Client, Bench, Server, Connect, Authenticate, Release, Crash, Address, Bind, BindFault, Acquire,
                CheckOp, NoDevice, BusWrite, BusWriteFault, BusQuery, Accept, StartWorker, Lapse,
                Break, Goto, TypeOK
  <2>2. CASE \E t \in Session : DeadMan(t)
    BY <2>2 DEF DeadMan, SafeCheck, SafeWrite, SafeWriteFault
  <2>3. CASE \E t \in Session : Exit(t)
    BY <2>3 DEF Exit, ExitRelease, Unregister, FreeSlot, Goto, TypeOK
  <2>4. CASE UNCHANGED vars
    BY <2>4 DEF vars
  <2>5. QED
    BY <2>1, <2>2, <2>3, <2>4 DEF Next
<1>2. \A p \in Covered({lease[s]}) : p \in SafePad /\ lease[s] \in {p, Bus}
  BY BridgeAssumption DEF Covered
<1>3. QED
  BY <1>1, <1>2 DEF TeardownOwes

\* A leaseholder's teardown never gives the lease back over RF of its own.
THEOREM TeardownLeavesCold == Spec => ControllerLeavesCold
<1>1. Init => TeardownOwes
  BY DEF Init, TeardownOwes
<1>2. Spec => [](TypeOK /\ TeardownOwes)
  BY <1>1, OwesNext, TypeCorrect, DeadManCoversLeases, PTL DEF Spec
<1>3. TypeOK /\ TeardownOwes /\ [Next]_vars =>
        [\A s \in Session :
           /\ pc'[s] \in Exiting /\ pc'[s] # pc[s]
           /\ lease[s] # NoScope /\ lease'[s] = NoScope
           => \A p \in Covered({lease[s]}) \cap hot : keyer[p] # s \/ excused[p] # {}]_vars
  BY LeavesCold
<1>4. QED
  BY <1>2, <1>3, PTL DEF Spec, ControllerLeavesCold

-----------------------------------------------------------------------------
(* Worker slots. *)

Workers == {s \in Session : Working(s)}

\* A step starts one worker, ends one, or leaves them as they are.
WorkersStep ==
  \/ Workers' = Workers /\ slots' = slots
  \/ \E s \in Session \ Workers :
       Workers' = Workers \cup {s} /\ slots > 0 /\ slots' = slots - 1
  \/ \E s \in Workers : Workers' = Workers \ {s} /\ slots' = slots + 1

LEMMA WorkersSteps == TypeOK /\ [Next]_vars => WorkersStep
<1> SUFFICES ASSUME TypeOK, [Next]_vars
             PROVE  WorkersStep
  OBVIOUS
<1> USE BridgeAssumption DEF Serving, Exiting
<1>1. ASSUME NEW s \in Session, Connect(s)
      PROVE  WorkersStep
  BY <1>1 DEF Connect, Goto, plant, TypeOK, WorkersStep, Workers, Working
<1>2. ASSUME NEW s \in Session, Accept(s)
      PROVE  WorkersStep
  BY <1>2 DEF Accept, Goto, plant, TypeOK, WorkersStep, Workers, Working
<1>3. ASSUME NEW s \in Session, StartWorker(s)
      PROVE  WorkersStep
  BY <1>3 DEF StartWorker, Goto, plant, TypeOK, WorkersStep, Workers, Working
<1>4. ASSUME NEW s \in Session, Authenticate(s)
      PROVE  WorkersStep
  BY <1>4 DEF Authenticate, Goto, plant, TypeOK, WorkersStep, Workers, Working
<1>5. ASSUME NEW s \in Session, NEW p \in Pad, Address(s, p)
      PROVE  WorkersStep
  BY <1>5 DEF Address, Bind, BindFault, Goto, plant, TypeOK, WorkersStep, Workers, Working
<1>6. ASSUME NEW s \in Session, NEW sc \in Asked, Acquire(s, sc)
      PROVE  WorkersStep
  BY <1>6 DEF Acquire, Goto, plant, TypeOK, WorkersStep, Workers, Working
<1>7. ASSUME NEW s \in Session, Lapse(s)
      PROVE  WorkersStep
  BY <1>7 DEF Lapse, Goto, plant, TypeOK, WorkersStep, Workers, Working
<1>8. ASSUME NEW s \in Session, Release(s)
      PROVE  WorkersStep
  BY <1>8 DEF Release, Goto, plant, TypeOK, WorkersStep, Workers, Working
<1>9. ASSUME NEW s \in Session, NEW op \in Ops, CheckOp(s, op)
      PROVE  WorkersStep
  BY <1>9 DEF CheckOp, Goto, plant, TypeOK, WorkersStep, Workers, Working
<1>10. ASSUME NEW s \in Session, BusWrite(s)
      PROVE  WorkersStep
  BY <1>10 DEF BusWrite, Goto, plant, TypeOK, WorkersStep, Workers, Working, Switch
<1>11. ASSUME NEW s \in Session, BusWriteFault(s)
      PROVE  WorkersStep
  BY <1>11 DEF BusWriteFault, Goto, plant, TypeOK, WorkersStep, Workers, Working, Switch
<1>12. ASSUME NEW s \in Session, BusQuery(s) \/ NoDevice(s)
      PROVE  WorkersStep
  BY <1>12 DEF BusQuery, NoDevice, Goto, plant, TypeOK, WorkersStep, Workers, Working
<1>13. ASSUME NEW s \in Session, Crash(s)
      PROVE  WorkersStep
  BY <1>13 DEF Crash, Goto, plant, TypeOK, WorkersStep, Workers, Working
<1>14. ASSUME NEW s \in Session, Break(s)
      PROVE  WorkersStep
  BY <1>14 DEF Break, Goto, plant, TypeOK, WorkersStep, Workers, Working
<1>15. ASSUME NEW s \in Session, NEW p \in SafePad, SafeCheck(s, p)
      PROVE  WorkersStep
  BY <1>15 DEF SafeCheck, Goto, plant, TypeOK, WorkersStep, Workers, Working
<1>16. ASSUME NEW s \in Session, NEW p \in SafePad, SafeWrite(s, p)
      PROVE  WorkersStep
  BY <1>16 DEF SafeWrite, Goto, plant, TypeOK, WorkersStep, Workers, Working, Switch
<1>17. ASSUME NEW s \in Session, NEW p \in SafePad, SafeWriteFault(s, p)
      PROVE  WorkersStep
  BY <1>17 DEF SafeWriteFault, Goto, plant, TypeOK, WorkersStep, Workers, Working
<1>18. ASSUME NEW s \in Session, ExitRelease(s)
      PROVE  WorkersStep
  BY <1>18 DEF ExitRelease, Goto, plant, TypeOK, WorkersStep, Workers, Working
<1>19. ASSUME NEW s \in Session, Unregister(s)
      PROVE  WorkersStep
  BY <1>19 DEF Unregister, Goto, plant, TypeOK, WorkersStep, Workers, Working
<1>20. ASSUME NEW s \in Session, FreeSlot(s)
      PROVE  WorkersStep
  BY <1>20 DEF FreeSlot, Goto, plant, TypeOK, WorkersStep, Workers, Working
<1>21. CASE UNCHANGED vars
  BY <1>21 DEF vars, TypeOK, WorkersStep, Workers, Working
<1>22. QED
  BY <1>1, <1>2, <1>3, <1>4, <1>5, <1>6, <1>7, <1>8, <1>9, <1>10, <1>11,
     <1>12, <1>13, <1>14, <1>15, <1>16, <1>17, <1>18, <1>19, <1>20, <1>21
     DEF Next, Client, Bench, DeadMan, Exit, Server

\* No thread loses its slot or frees it twice.
THEOREM SlotsAreAccounted == Spec => []SlotsAccounted
<1>0. IsFiniteSet(Workers)
  BY BridgeAssumption, FS_Subset DEF Workers
<1>1. Init => SlotsAccounted
  <2> SUFFICES ASSUME Init
               PROVE  SlotsAccounted
    OBVIOUS
  <2>1. {s \in Session : Working(s)} = {}
    BY DEF Init, Working, Serving, Exiting
  <2>2. slots = MaxConns
    BY DEF Init
  <2>3. MaxConns \in Nat
    BY BridgeAssumption
  <2>4. Cardinality({s \in Session : Working(s)}) = 0
    BY <2>1, FS_EmptySet
  <2>5. QED
    BY <2>2, <2>3, <2>4 DEF SlotsAccounted
<1>2. TypeOK /\ SlotsAccounted /\ [Next]_vars => SlotsAccounted'
  <2> SUFFICES ASSUME TypeOK, SlotsAccounted, WorkersStep
               PROVE  slots' + Cardinality(Workers') = MaxConns
    BY WorkersSteps DEF SlotsAccounted, Workers
  <2>1. /\ slots \in Nat /\ Cardinality(Workers) \in Nat
        /\ slots + Cardinality(Workers) = MaxConns
    BY <1>0, FS_CardinalityType DEF TypeOK, SlotsAccounted, Workers
  <2>2. CASE Workers' = Workers /\ slots' = slots
    BY <2>1, <2>2
  <2>3. ASSUME NEW s \in Session \ Workers,
               Workers' = Workers \cup {s}, slots > 0, slots' = slots - 1
        PROVE  slots' + Cardinality(Workers') = MaxConns
    <3>1. Cardinality(Workers') = Cardinality(Workers) + 1
      BY <1>0, <2>3, FS_AddElement
    <3>2. QED
      BY <2>1, <2>3, <3>1
  <2>4. ASSUME NEW s \in Workers, Workers' = Workers \ {s}, slots' = slots + 1
        PROVE  slots' + Cardinality(Workers') = MaxConns
    <3>1. Cardinality(Workers') = Cardinality(Workers) - 1
      BY <1>0, <2>4, FS_RemoveElement
    <3>2. QED
      BY <2>1, <2>4, <3>1
  <2>5. QED
    BY <2>2, <2>3, <2>4 DEF WorkersStep
<1>3. QED
  BY <1>1, <1>2, TypeCorrect, PTL DEF Spec

-----------------------------------------------------------------------------
(* The bridge implements exclusive control of the pads. *)

ControllerIsUnique ==
  \A p \in Pad :
    /\ \A h \in Session : lease[h] \in {p, Bus} => controller[p] = h
    /\ (\A h \in Session : lease[h] \notin {p, Bus}) => controller[p] = NoOne

LEMMA UniqueController == TypeOK /\ TableExclusive => ControllerIsUnique
<1> SUFFICES ASSUME TypeOK, TableExclusive, NEW p \in Pad
             PROVE  /\ \A h \in Session : lease[h] \in {p, Bus} => controller[p] = h
                    /\ (\A h \in Session : lease[h] \notin {p, Bus}) => controller[p] = NoOne
  BY DEF ControllerIsUnique
<1>1. ASSUME NEW g \in Session, NEW h \in Session,
             lease[g] \in {p, Bus}, lease[h] \in {p, Bus}
      PROVE  g = h
  BY <1>1, BridgeAssumption DEF TableExclusive, ScopesConflict, Scope
<1>2. ASSUME NEW h \in Session, lease[h] \in {p, Bus}
      PROVE  controller[p] = h
  <2>1. controller[p] = CHOOSE g \in Session : lease[g] \in {p, Bus}
    BY <1>2 DEF controller
  <2>2. QED
    BY <1>1, <1>2, <2>1
<1>3. ASSUME \A h \in Session : lease[h] \notin {p, Bus}
      PROVE  controller[p] = NoOne
  BY <1>3 DEF controller
<1>4. QED
  BY <1>2, <1>3

LEMMA UniqueControllerNext == (TypeOK /\ TableExclusive)' => ControllerIsUnique'
BY UniqueController, PTL

LEMMA StepMaps ==
  /\ TypeOK /\ TableExclusive /\ (TypeOK /\ TableExclusive)' /\ [Next]_vars
  => [Abstract!Next]_controller
<1> SUFFICES ASSUME TypeOK, TableExclusive, (TypeOK /\ TableExclusive)', [Next]_vars
             PROVE  [Abstract!Next]_controller
  OBVIOUS
<1>1. ControllerIsUnique /\ ControllerIsUnique'
  BY UniqueController, UniqueControllerNext
<1>2. /\ controller = [p \in Pad |-> controller[p]]
      /\ controller' = [p \in Pad |-> controller'[p]]
  BY DEF controller
<1>3. lease \in [Session -> Scope \cup {NoScope}] /\ NoScope \notin Scope
  BY BridgeAssumption DEF TypeOK
<1>4. CASE lease' = lease
  BY <1>4 DEF controller
<1>5. ASSUME NEW s \in Session, NEW sc \in Scope \cup {NoScope},
             lease' = [lease EXCEPT ![s] = sc]
      PROVE  Abstract!Next
  <2> DEFINE P == {p \in Pad : controller'[p] = s}
  <2>1. ASSUME NEW h \in Session \ {s}
        PROVE  lease'[h] = lease[h]
    BY <1>3, <1>5
  <2>2. ASSUME NEW p \in P
        PROVE  controller[p] \in {NoOne, s}
    BY <1>1, <2>1, <2>2 DEF ControllerIsUnique
  <2>3. ASSUME NEW p \in Pad \ P
        PROVE  controller'[p] = IF controller[p] = s THEN NoOne ELSE controller[p]
    <3>1. lease'[s] \notin {p, Bus}
      BY <1>1 DEF ControllerIsUnique
    <3>2. CASE \E h \in Session \ {s} : lease[h] \in {p, Bus}
      BY <1>1, <2>1, <3>2 DEF ControllerIsUnique
    <3>3. CASE \A h \in Session \ {s} : lease[h] \notin {p, Bus}
      <4>1. controller'[p] = NoOne
        BY <1>1, <2>1, <3>1, <3>3 DEF ControllerIsUnique
      <4>2. controller[p] \in {s, NoOne}
        BY <1>1, <3>3 DEF ControllerIsUnique
      <4>3. QED
        BY <4>1, <4>2
    <3>4. QED
      BY <3>2, <3>3
  <2>4. controller' = [p \in Pad |-> IF p \in P THEN s
                                     ELSE IF controller[p] = s THEN NoOne
                                     ELSE controller[p]]
    BY <1>2, <2>3
  <2>5. P \in SUBSET Pad
    OBVIOUS
  <2>6. Abstract!Take(s, P)
    BY <2>2, <2>4 DEF Abstract!Take
  <2>7. QED
    BY <2>5, <2>6 DEF Abstract!Next
<1>6. QED
  BY <1>4, <1>5, LeaseSteps DEF LeaseStep

\* Whatever the threads interleave, control of a pad passes from one session
\* to another only through a free pad, and never to two at once.
THEOREM Refinement == Spec => ImplementsExclusiveControl
<1>1. Init => Abstract!Init
  <2> SUFFICES ASSUME Init
               PROVE  controller = [p \in Pad |-> NoOne]
    BY DEF Abstract!Init
  <2>1. \A h \in Session, p \in Pad : lease[h] \notin {p, Bus}
    BY BridgeAssumption DEF Init, Scope
  <2>2. QED
    BY <2>1 DEF controller
<1>2. Spec => Abstract!Init
  BY <1>1 DEF Spec
<1>3. Spec => [][Abstract!Next]_controller
  BY TypeCorrect, Exclusivity, StepMaps, PTL DEF Spec
<1>4. QED
  BY <1>2, <1>3 DEF ImplementsExclusiveControl, Abstract!Spec
=============================================================================

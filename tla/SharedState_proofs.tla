--------------------------- MODULE SharedState_proofs ---------------------------
(***************************************************************************)
(* Theorems about the state that connections share: the lease table, for   *)
(* any sessions, pads, TTLs and clock; the bridge's session table; the bus *)
(* behind the GPIB backend; and the telemetry hub's streams.               *)
(***************************************************************************)
EXTENDS LeaseRegistry, Observers, TLAPS

(* The lease table *)

\* What _expire leaves: entries are dropped or kept as they were.
LEMMA ExpireDropsOrKeeps ==
  ASSUME NEW now, NEW h \in Session
  PROVE  Expire(now)[h] = byHolder[h] \/ Expire(now)[h] = NoLease
BY DEF Expire

LEMMA ExpireType ==
  ASSUME TypeOK, NEW now
  PROVE  Expire(now) \in [Session -> Lease]
<1>1. NoLease \in Lease
  BY DEF NoLease, Lease, Scope
<1>2. byHolder \in [Session -> Lease]
  BY DEF TypeOK
<1>3. QED
  BY <1>1, <1>2 DEF Expire

\* A deadline is a natural number, and at most MaxTtl after the clock reading.
LEMMA DeadlineBound ==
  ASSUME NEW now \in Nat, NEW ttl \in Ttl
  PROVE  Deadline(now, ttl) \in Nat /\ Deadline(now, ttl) <= now + MaxTtl
BY RegistryAssumption DEF Deadline

\* The step drops entries and keeps the others as they were.
OnlyDrops == \A h \in Session : byHolder'[h] = byHolder[h] \/ byHolder'[h] = NoLease

\* Session s gets a lease on sc that no entry left in the table collides with.
Grants(s, sc) ==
  /\ byHolder'[s].scope = sc
  /\ \A h \in Session \ {s} :
       /\ byHolder'[h] = byHolder[h] \/ byHolder'[h] = NoLease
       /\ byHolder'[h].held => ~ScopesConflict(sc, byHolder'[h].scope)

\* Session s extends the lease it has; the others' are kept or dropped.
Extends(s) ==
  /\ byHolder[s].held
  /\ byHolder'[s].scope = byHolder[s].scope
  /\ \A h \in Session \ {s} : byHolder'[h] = byHolder[h] \/ byHolder'[h] = NoLease

LEMMA TypeInit == Init => TypeOK
BY RegistryAssumption DEF Init, TypeOK, NoLease, Lease, Scope

LEMMA TypeNext == TypeOK /\ [Next]_vars => TypeOK'
<1> SUFFICES ASSUME TypeOK, [Next]_vars
             PROVE  TypeOK'
  OBVIOUS
<1>a. ASSUME NEW s \in Session, NEW a \in {"ok", "busy", "lost"}, Answer(s, a),
             byHolder' \in [Session -> Lease]
      PROVE  TypeOK'
  BY <1>a DEF Answer, TypeOK
<1>1. CASE Tick
  BY <1>1 DEF Tick, TypeOK
<1>2. ASSUME NEW s \in Session, Enter(s)
      PROVE  TypeOK'
  BY <1>2 DEF Enter, TypeOK
<1>3. ASSUME NEW s \in Session, NEW sc \in Scope, NEW ttl \in Ttl,
             AcquireGranted(s, sc, ttl)
      PROVE  TypeOK'
  <2>1. stamp[s] \in Nat
    BY DEF TypeOK
  <2>2. [scope |-> sc, held |-> TRUE, expiry |-> Deadline(stamp[s], ttl)] \in Lease
    BY <2>1, DeadlineBound DEF Lease
  <2>3. byHolder' \in [Session -> Lease]
    BY <1>3, <2>2, ExpireType DEF AcquireGranted
  <2>4. QED
    BY <1>3, <2>3, <1>a DEF AcquireGranted
<1>4. ASSUME NEW s \in Session, NEW sc \in Scope, AcquireRefused(s, sc)
      PROVE  TypeOK'
  BY <1>4, <1>a, ExpireType DEF AcquireRefused
<1>5. ASSUME NEW s \in Session, NEW ttl \in Ttl, Renewed(s, ttl)
      PROVE  TypeOK'
  <2>1. stamp[s] \in Nat
    BY DEF TypeOK
  <2>2. Deadline(stamp[s], ttl) \in Nat
    BY <2>1, DeadlineBound
  <2>3. byHolder' \in [Session -> Lease]
    BY <1>5, <2>2, ExpireType DEF Renewed, Lease
  <2>4. QED
    BY <1>5, <2>3, <1>a DEF Renewed
<1>6. ASSUME NEW s \in Session, RenewFailed(s)
      PROVE  TypeOK'
  BY <1>6, <1>a, ExpireType DEF RenewFailed
<1>7. ASSUME NEW s \in Session, NEW p \in Pad \cup {NoPad}, CheckPad(s, p)
      PROVE  TypeOK'
  <2>1. byHolder' \in [Session -> Lease]
    BY <1>7, ExpireType DEF CheckPad
  <2>2. \E a \in {"ok", "busy", "lost"} : Answer(s, a)
    BY <1>7 DEF CheckPad
  <2>3. QED
    BY <2>1, <2>2, <1>a
<1>8. ASSUME NEW s \in Session, Look(s)
      PROVE  TypeOK'
  BY <1>8, <1>a, ExpireType DEF Look
<1>9. ASSUME NEW s \in Session, Release(s)
      PROVE  TypeOK'
  <2>1. NoLease \in Lease
    BY DEF NoLease, Lease, Scope
  <2>2. QED
    BY <1>9, <2>1 DEF Release, TypeOK
<1>10. CASE UNCHANGED vars
  BY <1>10 DEF vars, TypeOK
<1>11. QED
  BY <1>1, <1>2, <1>3, <1>4, <1>5, <1>6, <1>7, <1>8, <1>9, <1>10 DEF Next

\* The lease table's type is an invariant of the registry.
THEOREM TypeCorrect == Spec => []TypeOK
BY TypeInit, TypeNext, PTL DEF Spec

-----------------------------------------------------------------------------
\* Every step only drops entries, grants one, or extends one.
LEMMA StepShape ==
  ASSUME TypeOK, [Next]_vars
  PROVE  OnlyDrops \/ \E s \in Session : Extends(s) \/ \E sc \in Scope : Grants(s, sc)
<1>a. ASSUME NEW s \in Session, byHolder' = Expire(stamp[s])
      PROVE  OnlyDrops
  BY <1>a, ExpireDropsOrKeeps DEF OnlyDrops
<1>b. byHolder \in [Session -> Lease]
  BY DEF TypeOK
<1>1. CASE Tick
  BY <1>1 DEF Tick, OnlyDrops
<1>2. ASSUME NEW s \in Session, Enter(s)
      PROVE  OnlyDrops
  BY <1>2 DEF Enter, OnlyDrops
<1>3. ASSUME NEW s \in Session, NEW sc \in Scope, NEW ttl \in Ttl,
             AcquireGranted(s, sc, ttl)
      PROVE  Grants(s, sc)
  <2> DEFINE live == Expire(stamp[s])
             new == [scope |-> sc, held |-> TRUE, expiry |-> Deadline(stamp[s], ttl)]
  <2>1. byHolder' = [live EXCEPT ![s] = new]
    BY <1>3 DEF AcquireGranted
  <2>2. live \in [Session -> Lease]
    BY ExpireType
  <2>3. byHolder'[s].scope = sc
    BY <2>1, <2>2
  <2>4. ASSUME NEW h \in Session \ {s}
        PROVE  /\ byHolder'[h] = byHolder[h] \/ byHolder'[h] = NoLease
               /\ byHolder'[h].held => ~ScopesConflict(sc, byHolder'[h].scope)
    <3>1. byHolder'[h] = live[h]
      BY <2>1, <2>2
    <3>2. ~Blocked(live, s, sc)
      BY <1>3 DEF AcquireGranted
    <3>3. live[h].held => ~ScopesConflict(sc, live[h].scope)
      BY <3>2 DEF Blocked
    <3>4. QED
      BY <3>1, <3>3, ExpireDropsOrKeeps
  <2>5. QED
    BY <2>3, <2>4 DEF Grants
<1>4. ASSUME NEW s \in Session, NEW sc \in Scope, AcquireRefused(s, sc)
      PROVE  OnlyDrops
  BY <1>4, <1>a DEF AcquireRefused
<1>5. ASSUME NEW s \in Session, NEW ttl \in Ttl, Renewed(s, ttl)
      PROVE  Extends(s)
  <2> DEFINE live == Expire(stamp[s])
  <2>1. live \in [Session -> Lease]
    BY ExpireType
  <2>2. byHolder' = [live EXCEPT ![s].expiry = Deadline(stamp[s], ttl)]
    BY <1>5 DEF Renewed
  <2>3. live[s] = byHolder[s]
    BY <1>5, ExpireDropsOrKeeps DEF Renewed, NoLease
  <2>4. byHolder'[s].scope = byHolder[s].scope
    BY <2>1, <2>2, <2>3 DEF Lease
  <2>5. byHolder[s].held
    BY <1>5, <2>3 DEF Renewed
  <2>6. \A h \in Session \ {s} : byHolder'[h] = live[h]
    BY <2>1, <2>2
  <2>7. QED
    BY <2>4, <2>5, <2>6, ExpireDropsOrKeeps DEF Extends
<1>6. ASSUME NEW s \in Session, RenewFailed(s)
      PROVE  OnlyDrops
  BY <1>6, <1>a DEF RenewFailed
<1>7. ASSUME NEW s \in Session, NEW p \in Pad \cup {NoPad}, CheckPad(s, p)
      PROVE  OnlyDrops
  BY <1>7, <1>a DEF CheckPad
<1>8. ASSUME NEW s \in Session, Look(s)
      PROVE  OnlyDrops
  BY <1>8, <1>a DEF Look
<1>9. ASSUME NEW s \in Session, Release(s)
      PROVE  OnlyDrops
  BY <1>9, <1>b DEF Release, OnlyDrops
<1>10. CASE UNCHANGED vars
  BY <1>10 DEF vars, OnlyDrops
<1>11. QED
  BY <1>1, <1>2, <1>3, <1>4, <1>5, <1>6, <1>7, <1>8, <1>9, <1>10 DEF Next

LEMMA ConflictSymmetric ==
  ASSUME NEW a, NEW b
  PROVE  ScopesConflict(a, b) <=> ScopesConflict(b, a)
BY DEF ScopesConflict

LEMMA ExclusiveNext == TypeOK /\ TableExclusive /\ [Next]_vars => TableExclusive'
<1> SUFFICES ASSUME TypeOK, TableExclusive, [Next]_vars,
                    NEW g \in Session, NEW h \in Session,
                    g # h, byHolder'[g].held, byHolder'[h].held
             PROVE  ~ScopesConflict(byHolder'[g].scope, byHolder'[h].scope)
  BY DEF TableExclusive
<1>0. ~NoLease.held
  BY DEF NoLease
<1>1. CASE OnlyDrops
  BY <1>0, <1>1 DEF OnlyDrops, TableExclusive
<1>2. ASSUME NEW s \in Session, Extends(s)
      PROVE  ~ScopesConflict(byHolder'[g].scope, byHolder'[h].scope)
  <2>1. ASSUME NEW k \in Session, byHolder'[k].held
        PROVE  byHolder[k].held /\ byHolder'[k].scope = byHolder[k].scope
    BY <1>0, <1>2, <2>1 DEF Extends
  <2>2. QED
    BY <2>1 DEF TableExclusive
<1>3. ASSUME NEW s \in Session, NEW sc \in Scope, Grants(s, sc)
      PROVE  ~ScopesConflict(byHolder'[g].scope, byHolder'[h].scope)
  <2>1. CASE g = s
    BY <1>3, <2>1 DEF Grants
  <2>2. CASE h = s
    BY <1>3, <2>2, ConflictSymmetric DEF Grants
  <2>3. CASE g # s /\ h # s
    BY <1>0, <1>3, <2>3 DEF Grants, TableExclusive
  <2>4. QED
    BY <2>1, <2>2, <2>3
<1>4. QED
  BY <1>1, <1>2, <1>3, StepShape

\* The lease table never holds two colliding leases: EXCLUSIVE in the class
\* docstring of LeaseRegistry, whatever the threads' clock readings.
THEOREM Exclusivity == Spec => []TableExclusive
<1>1. Init => TableExclusive
  BY DEF Init, TableExclusive, NoLease
<1>2. QED
  BY <1>1, ExclusiveNext, TypeCorrect, PTL DEF Spec

-----------------------------------------------------------------------------
(* Deadlines. *)

LEMMA BoundNext == TypeOK /\ BoundedOwnership /\ [Next]_vars => BoundedOwnership'
<1> SUFFICES ASSUME TypeOK, BoundedOwnership, [Next]_vars
             PROVE  BoundedOwnership'
  OBVIOUS
<1>0. clock \in Nat /\ MaxTtl \in Nat /\ ~NoLease.held
  BY RegistryAssumption DEF TypeOK, NoLease
<1>a. ASSUME NEW s \in Session, NEW a, Answer(s, a),
             \A h \in Session : byHolder'[h].held =>
               byHolder'[h] = byHolder[h] \/ byHolder'[h].expiry <= clock + MaxTtl
      PROVE  BoundedOwnership'
  <2>1. ASSUME NEW h \in Session, byHolder'[h].held
        PROVE  byHolder'[h].expiry <= clock' + MaxTtl
    BY <1>a, <2>1 DEF Answer, BoundedOwnership
  <2>2. ASSUME NEW t \in inCall'
        PROVE  stamp'[t] <= clock'
    BY <1>0, <1>a, <2>2 DEF Answer, BoundedOwnership, TypeOK
  <2>3. QED
    BY <2>1, <2>2 DEF BoundedOwnership
<1>b. ASSUME NEW s \in Session, NEW a, Answer(s, a), byHolder' = Expire(stamp[s])
      PROVE  BoundedOwnership'
  BY <1>0, <1>a, <1>b, ExpireDropsOrKeeps
<1>c. ASSUME NEW s \in inCall, NEW ttl \in Ttl
      PROVE  Deadline(stamp[s], ttl) <= clock + MaxTtl
  <2>1. stamp[s] \in Nat /\ stamp[s] <= clock
    BY DEF TypeOK, BoundedOwnership
  <2>2. QED
    BY <1>0, <2>1, DeadlineBound
<1>1. CASE Tick
  BY <1>0, <1>1 DEF Tick, BoundedOwnership, TypeOK, Lease
<1>2. ASSUME NEW s \in Session, Enter(s)
      PROVE  BoundedOwnership'
  BY <1>0, <1>2 DEF Enter, BoundedOwnership, TypeOK
<1>3. ASSUME NEW s \in Session, NEW sc \in Scope, NEW ttl \in Ttl,
             AcquireGranted(s, sc, ttl)
      PROVE  BoundedOwnership'
  <2> DEFINE live == Expire(stamp[s])
  <2>1. live \in [Session -> Lease]
    BY ExpireType
  <2>2. byHolder' = [live EXCEPT ![s] = [scope |-> sc, held |-> TRUE,
                                         expiry |-> Deadline(stamp[s], ttl)]]
    BY <1>3 DEF AcquireGranted
  <2>3. s \in inCall /\ Answer(s, "ok")
    BY <1>3 DEF AcquireGranted, Answer
  <2>4. byHolder'[s].expiry = Deadline(stamp[s], ttl)
    BY <2>1, <2>2
  <2>5. \A h \in Session \ {s} : byHolder'[h] = live[h]
    BY <2>1, <2>2
  <2>6. QED
    BY <1>0, <1>a, <1>c, <2>3, <2>4, <2>5, ExpireDropsOrKeeps
<1>4. ASSUME NEW s \in Session, NEW sc \in Scope, AcquireRefused(s, sc)
      PROVE  BoundedOwnership'
  BY <1>4, <1>b DEF AcquireRefused
<1>5. ASSUME NEW s \in Session, NEW ttl \in Ttl, Renewed(s, ttl)
      PROVE  BoundedOwnership'
  <2> DEFINE live == Expire(stamp[s])
  <2>1. live \in [Session -> Lease]
    BY ExpireType
  <2>2. byHolder' = [live EXCEPT ![s].expiry = Deadline(stamp[s], ttl)]
    BY <1>5 DEF Renewed
  <2>3. s \in inCall /\ Answer(s, "ok")
    BY <1>5 DEF Renewed, Answer
  <2>4. byHolder'[s].expiry = Deadline(stamp[s], ttl)
    BY <2>1, <2>2 DEF Lease
  <2>5. \A h \in Session \ {s} : byHolder'[h] = live[h]
    BY <2>1, <2>2
  <2>6. QED
    BY <1>0, <1>a, <1>c, <2>3, <2>4, <2>5, ExpireDropsOrKeeps
<1>6. ASSUME NEW s \in Session, RenewFailed(s)
      PROVE  BoundedOwnership'
  BY <1>6, <1>b DEF RenewFailed
<1>7. ASSUME NEW s \in Session, NEW p \in Pad \cup {NoPad}, CheckPad(s, p)
      PROVE  BoundedOwnership'
  BY <1>7, <1>b DEF CheckPad
<1>8. ASSUME NEW s \in Session, Look(s)
      PROVE  BoundedOwnership'
  BY <1>8, <1>b DEF Look
<1>9. ASSUME NEW s \in Session, Release(s)
      PROVE  BoundedOwnership'
  BY <1>0, <1>9 DEF Release, BoundedOwnership, TypeOK
<1>10. CASE UNCHANGED vars
  BY <1>10 DEF vars, BoundedOwnership
<1>11. QED
  BY <1>1, <1>2, <1>3, <1>4, <1>5, <1>6, <1>7, <1>8, <1>9, <1>10 DEF Next

\* No lease, however it was obtained, outlives the present by more than the
\* longest TTL: a dead holder blocks the others for a bounded time.
THEOREM OwnershipIsBounded == Spec => []BoundedOwnership
<1>1. Init => BoundedOwnership
  BY DEF Init, BoundedOwnership, NoLease
<1>2. QED
  BY <1>1, BoundNext, TypeCorrect, PTL DEF Spec

-----------------------------------------------------------------------------
(* The table implements exclusive control of the pads. *)

Inv == TypeOK /\ TableExclusive /\ BoundedOwnership

LEMMA InvariantHolds == Spec => []Inv
BY TypeCorrect, Exclusivity, OwnershipIsBounded, PTL DEF Inv

\* The mapping's CHOOSE has at most one candidate.
ControllerIsUnique ==
  \A p \in Pad :
    /\ \A h \in Session : Covers(h, p) => controller[p] = h
    /\ (\A h \in Session : ~Covers(h, p)) => controller[p] = NoOne

LEMMA UniqueController == TypeOK /\ TableExclusive => ControllerIsUnique
<1> SUFFICES ASSUME TypeOK, TableExclusive, NEW p \in Pad
             PROVE  /\ \A h \in Session : Covers(h, p) => controller[p] = h
                    /\ (\A h \in Session : ~Covers(h, p)) => controller[p] = NoOne
  BY DEF ControllerIsUnique
<1>1. ASSUME NEW g \in Session, NEW h \in Session, Covers(g, p), Covers(h, p)
      PROVE  g = h
  BY <1>1 DEF Covers, Live, TableExclusive, ScopesConflict
<1>2. ASSUME NEW h \in Session, Covers(h, p)
      PROVE  controller[p] = h
  <2>1. controller[p] = CHOOSE g \in Session : Covers(g, p)
    BY <1>2 DEF controller
  <2>2. QED
    BY <1>1, <1>2, <2>1
<1>3. ASSUME \A h \in Session : ~Covers(h, p)
      PROVE  controller[p] = NoOne
  BY <1>3 DEF controller
<1>4. QED
  BY <1>2, <1>3

LEMMA UniqueControllerNext == (TypeOK /\ TableExclusive)' => ControllerIsUnique'
BY UniqueController, PTL

\* Entries other than s's are kept, unless their deadline is past.
OthersKeep(s) ==
  /\ clock' = clock
  /\ \A h \in Session \ {s} :
       byHolder'[h] = byHolder[h] \/ (byHolder'[h] = NoLease /\ ~Live(h))

LEMMA StepTiming ==
  ASSUME TypeOK, BoundedOwnership, [Next]_vars
  PROVE  (OnlyDrops /\ clock <= clock') \/ \E s \in Session : OthersKeep(s)
<1>a. ASSUME NEW s \in inCall, NEW h \in Session
      PROVE  \/ Expire(stamp[s])[h] = byHolder[h]
             \/ Expire(stamp[s])[h] = NoLease /\ ~Live(h)
  <2>1. /\ stamp[s] \in Nat /\ stamp[s] <= clock /\ clock \in Nat
        /\ byHolder[h] \in Lease
    BY DEF TypeOK, BoundedOwnership
  <2>2. QED
    BY <2>1 DEF Expire, Live, Lapsed, Lease
<1>b. ASSUME NEW s \in Session, NEW a, Answer(s, a),
             \A h \in Session \ {s} : byHolder'[h] = Expire(stamp[s])[h]
      PROVE  OthersKeep(s)
  BY <1>a, <1>b DEF Answer, OthersKeep
<1>c. clock \in Nat /\ byHolder \in [Session -> Lease]
  BY DEF TypeOK
<1>1. CASE Tick
  BY <1>1, <1>c DEF Tick, OnlyDrops
<1>2. ASSUME NEW s \in Session, Enter(s)
      PROVE  OthersKeep(s)
  BY <1>2 DEF Enter, OthersKeep
<1>3. ASSUME NEW s \in Session, NEW sc \in Scope, NEW ttl \in Ttl,
             AcquireGranted(s, sc, ttl)
      PROVE  OthersKeep(s)
  BY <1>3, <1>b, ExpireType DEF AcquireGranted
<1>4. ASSUME NEW s \in Session, NEW sc \in Scope, AcquireRefused(s, sc)
      PROVE  OthersKeep(s)
  BY <1>4, <1>b DEF AcquireRefused
<1>5. ASSUME NEW s \in Session, NEW ttl \in Ttl, Renewed(s, ttl)
      PROVE  OthersKeep(s)
  BY <1>5, <1>b, ExpireType DEF Renewed
<1>6. ASSUME NEW s \in Session, RenewFailed(s)
      PROVE  OthersKeep(s)
  BY <1>6, <1>b DEF RenewFailed
<1>7. ASSUME NEW s \in Session, NEW p \in Pad \cup {NoPad}, CheckPad(s, p)
      PROVE  OthersKeep(s)
  BY <1>7, <1>b DEF CheckPad
<1>8. ASSUME NEW s \in Session, Look(s)
      PROVE  OthersKeep(s)
  BY <1>8, <1>b DEF Look
<1>9. ASSUME NEW s \in Session, Release(s)
      PROVE  OnlyDrops /\ clock <= clock'
  BY <1>9, <1>c DEF Release, OnlyDrops
<1>10. CASE UNCHANGED vars
  BY <1>10, <1>c DEF vars, OnlyDrops
<1>11. QED
  BY <1>1, <1>2, <1>3, <1>4, <1>5, <1>6, <1>7, <1>8, <1>9, <1>10 DEF Next

LEMMA InitMaps == Init => Abstract!Init
<1> SUFFICES ASSUME Init
             PROVE  controller = [p \in Pad |-> NoOne]
  BY DEF Abstract!Init
<1>1. \A h \in Session, p \in Pad : ~Covers(h, p)
  BY DEF Init, Covers, Live, NoLease
<1>2. QED
  BY <1>1 DEF controller

LEMMA StepMaps == Inv /\ Inv' /\ [Next]_vars => [Abstract!Next]_controller
<1> SUFFICES ASSUME Inv, Inv', [Next]_vars
             PROVE  Abstract!Next
  OBVIOUS
<1>1. ControllerIsUnique /\ ControllerIsUnique'
  BY UniqueController, UniqueControllerNext DEF Inv
<1>2. /\ controller = [p \in Pad |-> controller[p]]
      /\ controller' = [p \in Pad |-> controller'[p]]
  BY DEF controller
<1>3. clock \in Nat /\ clock' \in Nat /\ byHolder \in [Session -> Lease]
  BY DEF Inv, TypeOK
<1>4. CASE OnlyDrops /\ clock <= clock'
  <2> DEFINE P == {p \in Pad : controller'[p] = NoOne}
  <2>1. ASSUME NEW h \in Session, NEW p \in Pad, Covers(h, p)'
        PROVE  Covers(h, p)
    <3>1. byHolder'[h].held /\ byHolder'[h] = byHolder[h]
      BY <1>4, <2>1 DEF Covers, Live, OnlyDrops, NoLease
    <3>2. byHolder[h].expiry \in Nat
      BY <1>3 DEF Lease
    <3>3. QED
      BY <1>3, <1>4, <2>1, <3>1, <3>2 DEF Covers, Live
  <2>2. \A p \in Pad : controller'[p] = NoOne \/ controller'[p] = controller[p]
    BY <1>1, <2>1 DEF ControllerIsUnique
  <2>3. controller' = [p \in Pad |-> IF p \in P THEN NoOne ELSE controller[p]]
    BY <1>2, <2>2
  <2>4. P \in SUBSET Pad
    OBVIOUS
  <2>5. QED
    BY <2>3, <2>4 DEF Abstract!Next, Abstract!GiveUp
<1>5. ASSUME NEW s \in Session, OthersKeep(s)
      PROVE  Abstract!Next
  <2> DEFINE P == {p \in Pad : controller'[p] = s}
  <2>1. ASSUME NEW h \in Session \ {s}, NEW p \in Pad
        PROVE  Covers(h, p) <=> Covers(h, p)'
    BY <1>5 DEF OthersKeep, Covers, Live, NoLease
  <2>2. ASSUME NEW p \in P
        PROVE  controller[p] \in {NoOne, s}
    BY <1>1, <2>1, <2>2 DEF ControllerIsUnique
  <2>3. ASSUME NEW p \in Pad \ P
        PROVE  controller'[p] = IF controller[p] = s THEN NoOne ELSE controller[p]
    <3>1. ~Covers(s, p)'
      BY <1>1 DEF ControllerIsUnique
    <3>2. CASE \E h \in Session \ {s} : Covers(h, p)
      BY <1>1, <2>1, <3>2 DEF ControllerIsUnique
    <3>3. CASE \A h \in Session \ {s} : ~Covers(h, p)
      <4>1. controller'[p] = NoOne
        BY <1>1, <2>1, <3>1, <3>3 DEF ControllerIsUnique
      <4>2. controller[p] \in {s, NoOne}
        BY <1>1, <3>3 DEF ControllerIsUnique
      <4>3. QED
        BY <4>1, <4>2
    <3>4. QED
      BY <3>2, <3>3
  <2>4. controller' = [p \in Pad |-> IF p \in P THEN s
                                     ELSE IF controller[p] = s THEN NoOne
                                     ELSE controller[p]]
    BY <1>2, <2>3
  <2>5. P \in SUBSET Pad
    OBVIOUS
  <2>6. Abstract!Take(s, P)
    BY <2>2, <2>4 DEF Abstract!Take
  <2>7. QED
    BY <2>5, <2>6 DEF Abstract!Next
<1>6. QED
  BY <1>4, <1>5, StepTiming DEF Inv

\* LeaseRegistry, with its lazy expiry and its clock readings ahead of the
\* lock, gives every pad at most one controller at a time, and control passes
\* from one session to another only through a free pad.
THEOREM Refinement == Spec => ImplementsExclusiveControl
<1>1. Spec => Abstract!Init
  BY InitMaps DEF Spec
<1>2. Spec => [][Abstract!Next]_controller
  BY InvariantHolds, StepMaps, PTL DEF Spec
<1>3. QED
  BY <1>1, <1>2 DEF ImplementsExclusiveControl, Abstract!Spec

-----------------------------------------------------------------------------
(* What one call may do to the others' leases. *)

\* A call that is answered leaves of the others' entries what _expire leaves.
LEMMA AnsweredCallExpires ==
  ASSUME TypeOK, [Next]_vars, NEW s \in inCall, s \notin inCall'
  PROVE  \A h \in Session \ {s} : byHolder'[h] = Expire(stamp[s])[h]
<1>0. s \in Session
  BY DEF TypeOK
<1>1. CASE Tick
  BY <1>1 DEF Tick
<1>2. ASSUME NEW t \in Session, Enter(t) \/ Release(t)
      PROVE  FALSE
  BY <1>2 DEF Enter, Release
<1>3. ASSUME NEW t \in Session, NEW sc \in Scope, NEW ttl \in Ttl,
             AcquireGranted(t, sc, ttl)
      PROVE  \A h \in Session \ {s} : byHolder'[h] = Expire(stamp[s])[h]
  BY <1>0, <1>3, ExpireType DEF AcquireGranted, Answer
<1>4. ASSUME NEW t \in Session, NEW ttl \in Ttl, Renewed(t, ttl)
      PROVE  \A h \in Session \ {s} : byHolder'[h] = Expire(stamp[s])[h]
  BY <1>0, <1>4, ExpireType DEF Renewed, Answer
<1>5. ASSUME NEW t \in Session, NEW sc \in Scope, AcquireRefused(t, sc)
      PROVE  \A h \in Session \ {s} : byHolder'[h] = Expire(stamp[s])[h]
  BY <1>5 DEF AcquireRefused, Answer
<1>6. ASSUME NEW t \in Session, NEW p \in Pad \cup {NoPad},
             RenewFailed(t) \/ CheckPad(t, p) \/ Look(t)
      PROVE  \A h \in Session \ {s} : byHolder'[h] = Expire(stamp[s])[h]
  BY <1>6 DEF RenewFailed, CheckPad, Look, Answer
<1>7. CASE UNCHANGED vars
  BY <1>7 DEF vars
<1>8. QED
  BY <1>1, <1>2, <1>3, <1>4, <1>5, <1>6, <1>7 DEF Next

\* An entry that survives _expire is not at its deadline at that reading, and one that
\* does not was at its deadline by the clock, however late the call reached the table.
LEMMA ExpireIsDue ==
  ASSUME TypeOK, BoundedOwnership, NEW s \in inCall, NEW h \in Session
  PROVE  /\ Expire(stamp[s])[h].held =>
              /\ Expire(stamp[s])[h] = byHolder[h]
              /\ stamp[s] < byHolder[h].expiry
         /\ \/ Expire(stamp[s])[h] = byHolder[h]
            \/ byHolder[h].expiry <= clock /\ ~Expire(stamp[s])[h].held
<1>1. /\ stamp[s] \in Nat /\ stamp[s] <= clock /\ clock \in Nat
      /\ byHolder[h] \in Lease /\ ~NoLease.held
  BY DEF TypeOK, BoundedOwnership, NoLease
<1>2. byHolder[h].expiry \in Nat
  BY <1>1 DEF Lease
<1>3. QED
  BY <1>1, <1>2 DEF Expire, Lapsed

\* "busy" is never said for the sake of an entry that had reached its deadline when the
\* caller read the clock: check() and acquire() expire the table before they look.
THEOREM RefusalsAreDue == Spec => RefusalNamesALiveLease
<1>1. ASSUME TypeOK, BoundedOwnership, [Next]_vars, NEW s \in inCall, outcome' = <<s, "busy">>
      PROVE  \/ UNCHANGED vars
             \/ \E h \in Session \ {s} : /\ byHolder[h].held
                                         /\ stamp[s] < byHolder[h].expiry
                                         /\ byHolder'[h] = byHolder[h]
  <2>0. outcome' # <<>> /\ outcome'[1] = s /\ outcome'[2] = "busy" /\ s \in Session
    BY <1>1 DEF TypeOK
  <2>a. ASSUME NEW sc, Blocked(Expire(stamp[s]), s, sc), byHolder' = Expire(stamp[s])
        PROVE  \E h \in Session \ {s} : /\ byHolder[h].held
                                        /\ stamp[s] < byHolder[h].expiry
                                        /\ byHolder'[h] = byHolder[h]
    BY <1>1, <2>a, ExpireIsDue DEF Blocked
  <2>1. ~Tick /\ \A t \in Session : ~Enter(t) /\ ~Look(t) /\ ~Release(t) /\ ~RenewFailed(t)
    BY <2>0 DEF Tick, Enter, Look, Release, RenewFailed, Answer
  <2>2. \A t \in Session, sc \in Scope, ttl \in Ttl :
          ~AcquireGranted(t, sc, ttl) /\ ~Renewed(t, ttl)
    BY <2>0 DEF AcquireGranted, Renewed, Answer
  <2>3. ASSUME NEW t \in Session, NEW sc \in Scope, AcquireRefused(t, sc)
        PROVE  \E h \in Session \ {s} : /\ byHolder[h].held
                                        /\ stamp[s] < byHolder[h].expiry
                                        /\ byHolder'[h] = byHolder[h]
    <3>1. t = s
      BY <2>0, <2>3 DEF AcquireRefused, Answer
    <3>2. QED
      BY <2>3, <2>a, <3>1 DEF AcquireRefused
  <2>4. ASSUME NEW t \in Session, NEW p \in Pad \cup {NoPad}, CheckPad(t, p)
        PROVE  \E h \in Session \ {s} : /\ byHolder[h].held
                                        /\ stamp[s] < byHolder[h].expiry
                                        /\ byHolder'[h] = byHolder[h]
    <3>1. t = s /\ Blocked(byHolder', s, p)
      BY <2>0, <2>4 DEF CheckPad, Answer
    <3>2. QED
      BY <2>4, <2>a, <3>1 DEF CheckPad
  <2>5. Bus \in Scope /\ Session # {}
    BY <2>0 DEF Scope
  <2>6. QED
    BY <1>1, <2>1, <2>2, <2>3, <2>4, <2>5 DEF Next
<1>2. TypeOK /\ BoundedOwnership /\ [Next]_vars =>
        [\A s \in Session :
           outcome' = <<s, "busy">> /\ s \in inCall =>
             \E h \in Session \ {s} : /\ byHolder[h].held
                                      /\ stamp[s] < byHolder[h].expiry
                                      /\ byHolder'[h] = byHolder[h]]_vars
  BY <1>1
<1>3. QED
  BY <1>2, InvariantHolds, PTL DEF Inv, Spec, RefusalNamesALiveLease

\* A call changes nobody else's lease but by dropping one whose deadline has passed, and
\* leaves its own session no lease that collides with one that is alive: a session whose
\* heartbeat is in time is dispossessed neither by another's acquire nor by its late renewal.
THEOREM OthersLeasesAreSafe == Spec => OnlyOwnLeaseGrows
<1>1. ASSUME TypeOK, BoundedOwnership, TableExclusive', [Next]_vars, NEW s \in inCall \ inCall',
             NEW h \in Session \ {s}
      PROVE  /\ \/ byHolder'[h] = byHolder[h]
                \/ byHolder[h].expiry <= clock /\ ~byHolder'[h].held
             /\ /\ byHolder'[s].held /\ byHolder[h].held
                /\ ScopesConflict(byHolder'[s].scope, byHolder[h].scope)
                => byHolder[h].expiry <= clock
  <2>1. byHolder'[h] = Expire(stamp[s])[h]
    BY <1>1, AnsweredCallExpires
  <2>2. \/ Expire(stamp[s])[h] = byHolder[h]
        \/ byHolder[h].expiry <= clock /\ ~Expire(stamp[s])[h].held
    BY <1>1, ExpireIsDue
  <2>3. s \in Session /\ h \in Session /\ s # h
    BY <1>1 DEF TypeOK
  <2>4. byHolder'[s].held /\ byHolder'[h].held
        => ~ScopesConflict(byHolder'[s].scope, byHolder'[h].scope)
    BY <1>1, <2>3 DEF TableExclusive
  <2>5. QED
    BY <2>1, <2>2, <2>4
<1>2. TypeOK /\ BoundedOwnership /\ TableExclusive' /\ [Next]_vars =>
        [\A s \in Session :
           s \in inCall \ inCall' =>
             \A h \in Session \ {s} :
               /\ \/ byHolder'[h] = byHolder[h]
                  \/ byHolder[h].expiry <= clock /\ ~byHolder'[h].held
               /\ /\ byHolder'[s].held /\ byHolder[h].held
                  /\ ScopesConflict(byHolder'[s].scope, byHolder[h].scope)
                  => byHolder[h].expiry <= clock]_vars
  BY <1>1
<1>3. QED
  BY <1>2, InvariantHolds, PTL DEF Inv, Spec, OnlyOwnLeaseGrows

-----------------------------------------------------------------------------
\* What a component does is all that happens to its variables.
LEMMA StepsOfBackend == [WatchNext]_wvars => [BackendNext]_gvars
BY DEF WatchNext, wvars, OfTelemetry

LEMMA StepsOfSessions == [WatchNext]_wvars => [SessionNext]_svars
BY DEF WatchNext, wvars, OfTelemetry

LEMMA StepsOfTelemetry == [WatchNext]_wvars => [TelemetryNext]_tvars
BY DEF WatchNext, wvars, OfTelemetry

-----------------------------------------------------------------------------
(* The GPIB backend *)

\* What a linux-gpib call leaves behind.
Registers == [truth : {"gone", "noListener", "silent", "whole", "cut"}, iberr : {0, 2, 6},
              ibsta : {{"ERR"}, {"ERR", "TIMO"}, {"END"}, {}}, ibcnt : Nat]
Class == {"none", "=", "SHORT_READ", "OK", "BUS_WEDGED", "DEVICE_SILENT", "ADAPTER_WEDGED", "FAULT"}
Reply == [class : Class, truth : {"none", "gone", "noListener", "silent", "whole", "cut"}, count : Nat]

BackendType ==
  /\ build \in {"full", "noIberr"} /\ adapter \in {"ok", "gone"}
  /\ instr \in {"answers", "silent", "off"} /\ board \in {"ok", "stale"}
  /\ handle \in [Client -> {"fresh", "stale"}] /\ upsets \in 0..MaxUpsets
  /\ bus \in [Client -> {"idle", "first", "readdress", "again", "recover", "raised"}]
  /\ reply \in [Client -> Reply] /\ upset \subseteq Client

\* One reply says what is so.
IsTrue(r) ==
  /\ r.class = "=" => r.truth = "whole"
  /\ r.class = "BUS_WEDGED" => r.truth = "noListener"
  /\ r.class = "DEVICE_SILENT" => r.truth = "silent"
  /\ r.truth = "gone" => r.class = "ADAPTER_WEDGED"
  /\ r.class = "ADAPTER_WEDGED" =>
       \/ r.truth = "gone"
       \/ build = "noIberr" /\ r.truth = "silent" /\ r.count \in Errno

\* What Touch can leave, case by case.
LEMMA TouchLeaves ==
  ASSUME build \in {"full", "noIberr"}, adapter \in {"ok", "gone"}, NEW h, NEW r \in Touch(h)
  PROVE  /\ r \in Registers
         /\ \/ /\ r.truth = "gone" /\ r.iberr = 0 /\ r.ibsta = {"ERR"} /\ r.ibcnt \in Errno
            \/ /\ r.truth = "noListener" /\ r.ibsta = {"ERR"} /\ r.ibcnt = 0
               /\ r.iberr = IF build = "full" THEN 2 ELSE 0
               /\ instr = "off" \/ board = "stale" \/ h = "stale"
            \/ /\ r.truth = "silent" /\ r.ibsta = {"ERR", "TIMO"} /\ instr = "silent"
               /\ r.iberr = IF build = "full" THEN 6 ELSE 0
            \/ r.truth \in {"whole", "cut"} /\ r.ibsta \in {{"END"}, {}}
               /\ (r.truth = "cut" => r.ibcnt <= 0 \/ r.ibsta = {})
         /\ r.truth = "gone" => adapter = "gone"
BY DEF Touch, Regs, Registers, Errno, Counts

\* _classify_fault, on both builds.
LEMMA ClassifyIsTrue ==
  ASSUME build \in {"full", "noIberr"}, adapter \in {"ok", "gone"}, NEW h, NEW r \in Touch(h)
  PROVE  /\ Answered(r) \in Class /\ Probed(r) \in Class
         /\ IsTrue([class |-> Answered(r), truth |-> r.truth, count |-> r.ibcnt])
         /\ IsTrue([class |-> Probed(r), truth |-> r.truth, count |-> r.ibcnt])
<1>1. CASE r.truth = "gone"
  BY <1>1, TouchLeaves DEF Answered, Probed, Classify, ReadIsShort, IsTrue, Class, Registers, Errno
<1>2. CASE r.truth = "noListener"
  BY <1>2, TouchLeaves DEF Answered, Probed, Classify, ReadIsShort, IsTrue, Class, Registers, Errno
<1>3. CASE r.truth = "silent"
  BY <1>3, TouchLeaves DEF Answered, Probed, Classify, ReadIsShort, IsTrue, Class, Registers, Errno
<1>4. CASE r.truth \in {"whole", "cut"}
  BY <1>4, TouchLeaves DEF Answered, Probed, Classify, ReadIsShort, IsTrue, Class, Registers, Errno
<1>5. QED
  BY <1>1, <1>2, <1>3, <1>4, TouchLeaves

\* The same, in a form that can be primed.
ClassifiesTruly ==
  build \in {"full", "noIberr"} /\ adapter \in {"ok", "gone"} =>
    \A h \in {"fresh", "stale"} : \A r \in Touch(h) :
      /\ r \in Registers /\ Answered(r) \in Class /\ Probed(r) \in Class
      /\ IsTrue([class |-> Answered(r), truth |-> r.truth, count |-> r.ibcnt])
      /\ IsTrue([class |-> Probed(r), truth |-> r.truth, count |-> r.ibcnt])

LEMMA ClassifiesAlways == ClassifiesTruly
BY TouchLeaves, ClassifyIsTrue DEF ClassifiesTruly

LEMMA ClassifiesNext == ClassifiesTruly'
BY ClassifiesAlways, PTL

\* Nothing is wrong with the bus or the instrument.
Well == adapter = "ok" /\ instr = "answers" /\ board = "ok"

\* Every reply so far was true; an operation that saw no upset runs on a bus that
\* is well, and its second try on a fresh handle.
BackendInv ==
  /\ BackendType
  /\ \A s \in Client : IsTrue(reply[s])
  /\ \A s \in Client \ upset :
       /\ bus[s] # "idle" => Well
       /\ bus[s] = "again" => handle[s] = "fresh"
       /\ bus[s] \notin {"recover", "raised"}

LEMMA BackendStarts == BackendInit => BackendInv
BY BackendAssumption
   DEF BackendInit, BackendInv, BackendType, IsTrue, NoReply, Reply, Class, Well

LEMMA BackendStep == BackendInv /\ [BackendNext]_gvars => BackendInv'
<1> SUFFICES ASSUME BackendInv, [BackendNext]_gvars PROVE BackendInv'
  OBVIOUS
<1> USE DEF world
<1>0. /\ build \in {"full", "noIberr"} /\ adapter \in {"ok", "gone"} /\ MaxUpsets \in Nat
      /\ bus \in [Client -> {"idle", "first", "readdress", "again", "recover", "raised"}]
      /\ handle \in [Client -> {"fresh", "stale"}] /\ reply \in [Client -> Reply]
  BY BackendAssumption DEF BackendInv, BackendType
\* A step that leaves the world and the replies alone.
<1>a. ASSUME build' = build, reply' = reply
      PROVE  (\A s \in Client : IsTrue(reply[s]))'
  BY <1>a DEF BackendInv, IsTrue
\* A step of s that says what it saw, as `class` has it.
<1>b. ASSUME NEW s \in Client, NEW r, NEW class,
             build' = build, Say(s, class, r), class \in Class, r \in Registers,
             IsTrue([class |-> class, truth |-> r.truth, count |-> r.ibcnt])'
      PROVE  reply' \in [Client -> Reply] /\ (\A t \in Client : IsTrue(reply[t]))'
  <2>1. /\ reply' = [reply EXCEPT ![s] = [class |-> class, truth |-> r.truth, count |-> r.ibcnt]]
        /\ [class |-> class, truth |-> r.truth, count |-> r.ibcnt] \in Reply
    BY <1>b DEF Say, Reply, Registers
  <2>2. reply' \in [Client -> Reply]
    BY <1>0, <2>1
  <2>3. ASSUME NEW t \in Client
        PROVE  IsTrue(reply[t])'
    <3>1. CASE t = s
      BY <1>0, <1>b, <2>1, <3>1 DEF IsTrue
    <3>2. CASE t # s
      BY <1>0, <1>b, <2>1, <3>2 DEF IsTrue, BackendInv
    <3>3. QED
      BY <3>1, <3>2
  <2>4. QED
    BY <2>2, <2>3
<1>1. CASE Happens
  BY <1>0, <1>1, <1>a DEF Happens, BackendInv, BackendType, Well
<1>2. ASSUME NEW s \in Client, Begin(s)
      PROVE  BackendInv'
  BY <1>0, <1>2, <1>a DEF Begin, BackendInv, BackendType, Well, NoReply, IsTrue, Reply, Class
<1>3. ASSUME NEW s \in Client, First(s)
      PROVE  BackendInv'
  <2>1. PICK r \in Touch(handle[s]) :
           /\ bus[s] = "first" /\ Say(s, Answered(r), r) /\ UNCHANGED <<world, handle, upset>>
           /\ bus' = [bus EXCEPT ![s] = IF r.truth = "noListener" THEN "readdress" ELSE "idle"]
    BY <1>3 DEF First, Sent
  <2>2. /\ r \in Registers /\ Answered(r) \in Class
        /\ IsTrue([class |-> Answered(r), truth |-> r.truth, count |-> r.ibcnt])'
    BY <1>0, <2>1, ClassifiesAlways DEF ClassifiesTruly, IsTrue
  <2>3. reply' \in [Client -> Reply] /\ (\A t \in Client : IsTrue(reply[t]))'
    BY <1>b, <2>1, <2>2
  <2>4. QED
    BY <1>0, <2>1, <2>3 DEF BackendInv, BackendType, Well
<1>4. ASSUME NEW s \in Client, Readdress(s) \/ ReaddressFails(s)
      PROVE  BackendInv'
  BY <1>0, <1>4, <1>a DEF Readdress, ReaddressFails, BackendInv, BackendType, Well
<1>5. ASSUME NEW s \in Client, Again(s)
      PROVE  BackendInv'
  <2>1. PICK r \in Touch(handle[s]) :
           /\ bus[s] = "again" /\ Say(s, Answered(r), r) /\ UNCHANGED <<world, handle, upset>>
           /\ bus' = [bus EXCEPT ![s] = IF r.truth = "noListener" THEN "recover" ELSE "idle"]
    BY <1>5 DEF Again, Sent
  <2>2. /\ r \in Registers /\ Answered(r) \in Class
        /\ IsTrue([class |-> Answered(r), truth |-> r.truth, count |-> r.ibcnt])'
    BY <1>0, <2>1, ClassifiesAlways DEF ClassifiesTruly, IsTrue
  <2>3. reply' \in [Client -> Reply] /\ (\A t \in Client : IsTrue(reply[t]))'
    BY <1>b, <2>1, <2>2
  <2>4. s \notin upset => r.truth # "noListener"
    BY <1>0, <2>1, TouchLeaves DEF BackendInv, Well
  <2>5. QED
    BY <1>0, <2>1, <2>3, <2>4 DEF BackendInv, BackendType, Well
<1>6. ASSUME NEW s \in Client, Recover(s)
      PROVE  BackendInv'
  <2>0. /\ bus[s] = "recover" /\ UNCHANGED <<build, adapter, upsets, upset>>
        /\ instr' \in {instr, "answers"} /\ board' \in {board, "ok"}
        /\ handle' = [handle EXCEPT ![s] = "fresh"] /\ bus' = [bus EXCEPT ![s] = "raised"]
    BY <1>6 DEF Recover
  <2>1. PICK r \in Touch("fresh")' : Say(s, Probed(r), r)
    BY <1>6 DEF Recover
  <2>2. /\ r \in Registers /\ Probed(r) \in Class
        /\ IsTrue([class |-> Probed(r), truth |-> r.truth, count |-> r.ibcnt])'
    BY <1>0, <2>0, <2>1, ClassifiesNext DEF ClassifiesTruly, IsTrue
  <2>3. reply' \in [Client -> Reply] /\ (\A t \in Client : IsTrue(reply[t]))'
    BY <1>b, <2>0, <2>1, <2>2
  <2>4. s \in upset
    BY <2>0 DEF BackendInv
  <2>5. QED
    BY <1>0, <2>0, <2>3, <2>4 DEF BackendInv, BackendType, Well
<1>7. ASSUME NEW s \in Client, Raised(s)
      PROVE  BackendInv'
  BY <1>0, <1>7, <1>a DEF Raised, BackendInv, BackendType, Well
<1>8. ASSUME NEW s \in Client, Ping(s)
      PROVE  BackendInv'
  <2>1. PICK r \in Touch(handle[s]) :
           Say(s, Probed(r), r) /\ UNCHANGED <<world, handle, bus, upset>>
    BY <1>8 DEF Ping
  <2>2. /\ r \in Registers /\ Probed(r) \in Class
        /\ IsTrue([class |-> Probed(r), truth |-> r.truth, count |-> r.ibcnt])'
    BY <1>0, <2>1, ClassifiesAlways DEF ClassifiesTruly, IsTrue
  <2>3. reply' \in [Client -> Reply] /\ (\A t \in Client : IsTrue(reply[t]))'
    BY <1>b, <2>1, <2>2
  <2>4. QED
    BY <1>0, <2>1, <2>3 DEF BackendInv, BackendType, Well
<1>9. ASSUME NEW s \in Client, HandleStales(s)
      PROVE  BackendInv'
  BY <1>0, <1>9, <1>a DEF HandleStales, BackendInv, BackendType, Well
<1>10. CASE UNCHANGED gvars
  BY <1>10, <1>a DEF gvars, BackendInv, BackendType, Well
<1>11. QED
  BY <1>1, <1>2, <1>3, <1>4, <1>5, <1>6, <1>7, <1>8, <1>9, <1>10 DEF BackendNext

LEMMA BackendHolds == WatchSpec => []BackendInv
<1>1. WatchInit => BackendInit
  BY DEF WatchInit
<1>2. QED
  BY <1>1, BackendStarts, BackendStep, StepsOfBackend, PTL DEF WatchSpec

\* _classify_fault and the short-read check, on both builds of the binding: data is
\* said only of a whole read, and a replug is asked for only of an adapter that is gone.
THEOREM TrueReplies == WatchSpec => []RepliesAreTrue
<1>1. BackendInv => RepliesAreTrue
  BY DEF BackendInv, IsTrue, RepliesAreTrue
<1>2. QED
  BY <1>1, BackendHolds, PTL

\* _bus_op: a handle of one's own that went stale never leads to Z recover.
THEOREM ReaddressIsEnough == WatchSpec => []ReaddressSuffices
<1>1. BackendInv => ReaddressSuffices
  BY DEF BackendInv, ReaddressSuffices
<1>2. QED
  BY <1>1, BackendHolds, PTL

-----------------------------------------------------------------------------
(* The session table and the devices command *)

SessionType ==
  /\ lease \in [Connected -> Scope \cup {NoScope}]
  /\ listed \subseteq Connected /\ cleared \subseteq Connected /\ unasked \subseteq Operator
  /\ bound \in [Connected -> Pad \cup {NoPad}]
  /\ late \in [Connected -> SUBSET Connected]
  /\ at \in {"discover", "next", "leases", "sessions", "lines", "idn", "closing"}
  /\ ahead \subseteq Pad /\ seen \subseteq Connected /\ pending \subseteq Connected
  /\ shown \in [Connected -> Scope \cup {NoScope, Absent}]
  /\ handed \subseteq Connected

\* The lease table is exclusive and holds sessions that are listed; an operation that
\* passed the check runs under leases it does not collide with, or that are late.
LeasesInv ==
  /\ \A s, t \in Connected :
       s # t /\ lease[s] # NoScope /\ lease[t] # NoScope => ~ScopesConflict(lease[s], lease[t])
  /\ \A s \in Connected : lease[s] # NoScope => s \in listed
  /\ cleared \subseteq listed
  /\ \A s \in cleared : \A h \in Connected \ {s} :
       lease[h] # NoScope /\ ScopesConflict(bound[s], lease[h]) => h \in late[s]

\* What the reports say so far of a session whose lease has not moved since R is so.
ReportInv ==
  \A s \in Connected \ handed :
    /\ at \in {"sessions", "lines"} => (s \in seen <=> lease[s] # NoScope)
    /\ at = "lines" =>
         /\ shown[s] \in {Absent, lease[s]}
         /\ lease[s] # NoScope /\ s \notin pending => shown[s] = lease[s]

SessionInv == SessionType /\ LeasesInv /\ ReportInv

LEMMA SessionStarts == SessionInit => SessionInv
BY DEF SessionInit, SessionInv, SessionType, LeasesInv, ReportInv, NotShown

LEMMA SessionStep == SessionInv /\ [SessionNext]_svars => SessionInv'
<1> SUFFICES ASSUME SessionInv, [SessionNext]_svars PROVE SessionInv'
  OBVIOUS
<1> USE SessionAssumption, ScopeAssumption DEF SessionInv, SessionType, tables, query
<1> USE DEF Connected, MayAsk
\* The steps of a session at the bridge, whoever it belongs to.
<1>a. ASSUME NEW s \in Connected, NEW p \in Pad, Arrives(s, p)
      PROVE  LeasesInv' /\ listed' \subseteq Connected /\ cleared' \subseteq Connected
             /\ bound' \in [Connected -> Pad \cup {NoPad}] /\ UNCHANGED <<lease, late, unasked>>
  BY <1>a DEF Arrives, LeasesInv
<1>b. ASSUME NEW s \in Connected, Checked(s) \/ OnBus(s)
      PROVE  LeasesInv' /\ listed' \subseteq Connected /\ cleared' \subseteq Connected
             /\ late' \in [Connected -> SUBSET Connected] /\ UNCHANGED <<lease, bound, unasked>>
  BY <1>b DEF Checked, OnBus, Permitted, LeasesInv
<1>c. ASSUME NEW s \in Connected, Teardown(s)
      PROVE  LeasesInv' /\ listed' \subseteq Connected /\ cleared' \subseteq Connected
             /\ bound' \in [Connected -> Pad \cup {NoPad}] /\ UNCHANGED <<lease, late, unasked>>
  BY <1>c DEF Teardown, LeasesInv
<1>d. ASSUME NEW s \in Operator, Heals(s) \/ HealsOnBus(s)
      PROVE  LeasesInv' /\ unasked' \subseteq Operator
             /\ UNCHANGED <<lease, listed, bound, cleared, late>>
  BY <1>d DEF Heals, HealsOnBus, LeasesInv
<1>1. ASSUME NEW s \in Operator, AtWork(s)
      PROVE  SessionInv'
  <2>1. LeasesInv' /\ lease' = lease /\ listed' \subseteq Connected /\ cleared' \subseteq Connected
        /\ bound' \in [Connected -> Pad \cup {NoPad}] /\ late' \in [Connected -> SUBSET Connected]
        /\ unasked' \subseteq Operator
    BY <1>1, <1>a, <1>b, <1>c, <1>d DEF AtWork
  <2>2. UNCHANGED <<query, handed>>
    BY <1>1 DEF AtWork
  <2>3. QED
    BY <2>1, <2>2 DEF ReportInv
<1>2. ASSUME NEW s \in Operator, NEW sc \in Scope, Acquire(s, sc)
      PROVE  SessionInv'
  <2>1. /\ lease' \in [Connected -> Scope \cup {NoScope}] /\ late' \in [Connected -> SUBSET Connected]
        /\ s \in listed /\ lease'[s] = sc /\ \A t \in Connected \ {s} : lease'[t] = lease[t]
        /\ UNCHANGED <<listed, bound, cleared, unasked, query>>
    BY <1>2 DEF Acquire
  <2>2. \A t \in Connected \ {s} : lease[t] # NoScope => ~ScopesConflict(sc, lease[t])
    BY <1>2 DEF Acquire, Permitted
  <2>3. \A t \in cleared : late'[t] = late[t] \cup {s}
    BY <1>2 DEF Acquire
  <2>4. LeasesInv'
    BY <2>1, <2>2, <2>3 DEF LeasesInv, ScopesConflict
  <2>5. handed' \subseteq Connected /\ (at \in {"sessions", "lines"} => handed' = handed \cup {s})
    <3>1. at \in {"sessions", "lines"} => handed' = handed \cup {s}
      BY <1>2 DEF Acquire
    <3>2. at \notin {"sessions", "lines"} => handed' = {}
      BY <1>2 DEF Acquire
    <3>3. QED
      BY <3>1, <3>2
  <2>6. QED
    BY <2>1, <2>4, <2>5 DEF ReportInv
<1>3. ASSUME NEW s \in Operator, GivesUp(s)
      PROVE  SessionInv'
  <2>1. LeasesInv'
    BY <1>3 DEF GivesUp, LeasesInv
  <2>2. QED
    BY <1>3, <2>1 DEF GivesUp, ReportInv
<1>4. CASE Discover \/ SkipsIdn \/ IdnRefused
  BY <1>4 DEF Discover, SkipsIdn, IdnRefused, Reported, NotShown, Goes, LeasesInv, ReportInv
<1>5. CASE AsksLeases
  BY <1>5 DEF AsksLeases, Goes, LeasesInv, ReportInv
<1>6. CASE AsksSessions
  BY <1>6 DEF AsksSessions, Goes, LeasesInv, ReportInv, NotShown
<1>7. CASE SendsIdn \/ IdnRead
  BY <1>7, <1>b DEF SendsIdn, IdnRead, Reported, NotShown, Goes, ReportInv
<1>8. CASE Closes
  BY <1>8, <1>c DEF Closes, Goes, ReportInv, NotShown
<1>9. ASSUME NEW p \in Pad, Connects(p)
      PROVE  SessionInv'
  BY <1>9, <1>a DEF Connects, Goes, ReportInv
<1>10. ASSUME NEW s \in Connected, Line(s)
       PROVE  SessionInv'
  BY <1>10 DEF Line, Goes, LeasesInv, ReportInv
<1>11. CASE UNCHANGED svars
  BY <1>11 DEF svars, LeasesInv, ReportInv
<1>12. QED
  BY <1>1, <1>2, <1>3, <1>4, <1>5, <1>6, <1>7, <1>8, <1>9, <1>10, <1>11 DEF SessionNext, Devices

LEMMA SessionsHold == WatchSpec => []SessionInv
<1>1. WatchInit => SessionInit
  BY DEF WatchInit
<1>2. QED
  BY <1>1, SessionStarts, SessionStep, StepsOfSessions, PTL DEF WatchSpec

\* The R and S reports `devices` prints, of tables that move while it asks: they agree,
\* and never name two controllers of one device, but for sessions whose own lease was
\* granted or dropped meanwhile.
THEOREM ReportsAgree == WatchSpec => []ReportsAddUp
<1>1. SessionInv => ReportsAddUp
  <2> SUFFICES ASSUME SessionInv, at = "lines", pending = {}
               PROVE  /\ Controls \ handed = seen \ handed
                      /\ \A s, t \in Controls \ handed : s # t => ~ScopesConflict(shown[s], shown[t])
    BY DEF ReportsAddUp
  <2>1. \A s \in Connected \ handed :
          /\ s \in Controls <=> lease[s] # NoScope
          /\ s \in Controls => shown[s] = lease[s]
          /\ s \in seen <=> lease[s] # NoScope
    BY SessionAssumption DEF SessionInv, SessionType, ReportInv, Controls
  <2>2. Controls \subseteq Connected /\ seen \subseteq Connected
    BY DEF Controls, SessionInv, SessionType
  <2>3. QED
    BY <2>1, <2>2 DEF SessionInv, SessionType, LeasesInv
<1>2. QED
  BY <1>1, SessionsHold, PTL

\* W, Q and Z at the bus: nobody works under another's lease but by a W or Q checked
\* before that lease was granted, or by an operator's Z, which is never checked; the
\* identity read of `devices` is of the first kind.
THEOREM IntrudersAreLate == WatchSpec => IntrusionsAreNamed
<1>1. SessionInv /\ [WatchNext]_wvars =>
        [\A s \in (cleared \cup unasked) \ (cleared \cup unasked)' :
           \A h \in Connected \ {s} :
             lease[h] # NoScope /\ ScopesConflict(bound[s], lease[h]) =>
               \/ s \in cleared /\ h \in late[s]
               \/ s \in unasked \cap Operator]_svars
  BY DEF SessionInv, SessionType, LeasesInv
<1>2. QED
  BY <1>1, SessionsHold, PTL DEF WatchSpec, IntrusionsAreNamed

-----------------------------------------------------------------------------
(* Telemetry *)

Half == Nat \X {"head", "tail"}

TelemetryType ==
  /\ hub \in {"open", "ending", "stopping", "closing", "stopped"} /\ said \in Nat
  /\ todo \subseteq Observer /\ subs \subseteq Observer
  /\ conn \in [Observer -> {"none", "backlog", "inHand", "served", "closed", "reset",
                            "refused", "leaked"}]
  /\ since \in [Observer -> Nat] /\ wire \in [Observer -> Seq(Half)]
  /\ buf \in [Observer -> Nat] /\ got \in [Observer -> Seq(Nat)]
  /\ reader \in [Observer -> {"off", "reading", "left", "blind"}]
  /\ failed \subseteq Observer \X {"dead", "suspended"} /\ jammed \subseteq Observer

\* How many of the messages meant for o it has not been told, and whether its reader
\* has the head of the first.
Untold(o) == UpTo(o) - since[o] - Len(got[o])
Kept(o) == IF buf[o] = 0 THEN 0 ELSE 1

\* What o was told are the first messages since it joined, and its socket holds the
\* others, in order, each a head and a tail, the first without the head it keeps.
StreamIsWhole(o) ==
  /\ Untold(o) \in Nat /\ Len(wire[o]) = 2 * Untold(o) - Kept(o)
  /\ buf[o] \in {0, since[o] + Len(got[o]) + 1}
  /\ \A i \in 1..Len(got[o]) : got[o][i] = since[o] + i
  /\ \A k \in 1..Untold(o) :
       /\ wire[o][2 * k - Kept(o)] = <<since[o] + Len(got[o]) + k, "tail">>
       /\ 2 * k - Kept(o) > 1 =>
            wire[o][2 * k - Kept(o) - 1] = <<since[o] + Len(got[o]) + k, "head">>

\* publish() writes to subscribers that are served; a subscriber that is still there is
\* closed by stop() alone; and the stream of everyone who has one is whole.
TelemetryInv ==
  /\ TelemetryType
  /\ todo \subseteq subs /\ (hub # "open" => todo = {})
  /\ \A o \in Observer :
       /\ o \in subs => conn[o] = "served" \/ hub = "stopped"
       /\ conn[o] = "served" => o \in subs
       /\ conn[o] = "closed" /\ ~Gone(o) => hub = "stopped"
       /\ conn[o] \in {"none", "backlog", "inHand"} =>
            wire[o] = <<>> /\ got[o] = <<>> /\ buf[o] = 0
       /\ conn[o] \in {"served", "closed"} /\ ~Gone(o) => StreamIsWhole(o)

LEMMA TelemetryStarts == TelemetryInit => TelemetryInv
BY DEF TelemetryInit, TelemetryInv, TelemetryType

LEMMA AppendTwo ==
  ASSUME NEW q \in Seq(Half), NEW x \in Half, NEW y \in Half
  PROVE  /\ q \o <<x, y>> \in Seq(Half) /\ Len(q \o <<x, y>>) = Len(q) + 2
         /\ \A i \in 1..Len(q) : (q \o <<x, y>>)[i] = q[i]
         /\ (q \o <<x, y>>)[Len(q) + 1] = x /\ (q \o <<x, y>>)[Len(q) + 2] = y
<1>1. <<x, y>> \in Seq(Half) /\ Len(<<x, y>>) = 2
  OBVIOUS
<1>2. QED
  BY <1>1

LEMMA TailOf ==
  ASSUME NEW q \in Seq(Half), q # <<>>
  PROVE  /\ Tail(q) \in Seq(Half) /\ Len(Tail(q)) = Len(q) - 1 /\ Len(q) \in Nat \ {0}
         /\ Head(q) = q[1] /\ Head(q) \in Half /\ \A i \in 1..(Len(q) - 1) : Tail(q)[i] = q[i + 1]
OBVIOUS

LEMMA TelemetryStep == TelemetryInv /\ [TelemetryNext]_tvars => TelemetryInv'
<1> SUFFICES ASSUME TelemetryInv, [TelemetryNext]_tvars PROVE TelemetryInv'
  OBVIOUS
<1> USE DEF hubSide, readSide
<1>a. ASSUME NEW o \in Observer, UNCHANGED <<wire, buf, got, since>>, UpTo(o)' = UpTo(o)
      PROVE  StreamIsWhole(o)' <=> StreamIsWhole(o)
  BY <1>a DEF StreamIsWhole, Untold, Kept
<1>b. ASSUME UNCHANGED <<said, todo>>
      PROVE  \A o \in Observer : UpTo(o)' = UpTo(o)
  BY <1>b DEF UpTo
<1>1. CASE Publish
  BY <1>1, <1>a DEF Publish, UpTo, TelemetryInv, TelemetryType, Gone, Dead
<1>2. CASE CampaignEnds \/ SetStop
  BY <1>2, <1>a, <1>b DEF CampaignEnds, SetStop, TelemetryInv, TelemetryType, Gone, Dead
<1>3. CASE CloseAll
  BY <1>3, <1>a, <1>b DEF CloseAll, TelemetryInv, TelemetryType, Gone, Dead
<1>4. ASSUME NEW o \in Observer, Dial(o)
      PROVE  TelemetryInv'
  BY <1>4, <1>a, <1>b DEF Dial, TelemetryInv, TelemetryType, Gone, Dead
<1>5. ASSUME NEW o \in Observer, AcceptOne(o)
      PROVE  TelemetryInv'
  BY <1>5, <1>a, <1>b DEF AcceptOne, TelemetryInv, TelemetryType, Gone, Dead
<1>6. ASSUME NEW o \in Observer, Join(o)
      PROVE  TelemetryInv'
  <2>1. ASSUME NEW x \in Observer, x # o
        PROVE  StreamIsWhole(x)' <=> StreamIsWhole(x)
    BY <1>6, <2>1 DEF Join, StreamIsWhole, Untold, Kept, UpTo, TelemetryInv, TelemetryType
  <2>2. StreamIsWhole(o)'
    <3>1. since'[o] = said /\ wire'[o] = <<>> /\ got'[o] = <<>> /\ buf'[o] = 0
          /\ todo' = {} /\ said' = said /\ said \in Nat
      BY <1>6 DEF Join, TelemetryInv, TelemetryType
    <3>2. Untold(o)' = 0 /\ Kept(o)' = 0
      BY <3>1 DEF Untold, Kept, UpTo
    <3>3. QED
      BY <3>1, <3>2 DEF StreamIsWhole
  <2>3. QED
    BY <1>6, <2>1, <2>2 DEF Join, TelemetryInv, TelemetryType, Gone, Dead
<1>7. ASSUME NEW o \in Observer, Write(o)
      PROVE  TelemetryInv'
  <2>1. ASSUME NEW x \in Observer, x # o
        PROVE  StreamIsWhole(x)' <=> StreamIsWhole(x)
    BY <1>7, <2>1 DEF Write, StreamIsWhole, Untold, Kept, UpTo, TelemetryInv, TelemetryType
  <2>2. StreamIsWhole(o) /\ o \in todo /\ said \in Nat /\ since[o] \in Nat /\ got[o] \in Seq(Nat)
        /\ wire[o] \in Seq(Half)
    BY <1>7 DEF Write, TelemetryInv, TelemetryType
  <2>3. /\ said' = said /\ todo' = todo \ {o} /\ UNCHANGED <<since, got, buf>>
        /\ wire'[o] = wire[o] \o <<<<said, "head">>, <<said, "tail">>>>
    BY <1>7 DEF Write, TelemetryInv, TelemetryType
  <2>4. /\ wire'[o] \in Seq(Half) /\ Len(wire'[o]) = Len(wire[o]) + 2
        /\ \A i \in 1..Len(wire[o]) : wire'[o][i] = wire[o][i]
        /\ wire'[o][Len(wire[o]) + 1] = <<said, "head">>
        /\ wire'[o][Len(wire[o]) + 2] = <<said, "tail">>
    BY <2>2, <2>3, AppendTwo, <<said, "head">> \in Half, <<said, "tail">> \in Half DEF Half
  <2>5. Untold(o)' = Untold(o) + 1 /\ Kept(o)' = Kept(o) /\ Untold(o) \in Nat /\ Kept(o) \in {0, 1}
        /\ Len(got[o]) \in Nat /\ said = since[o] + Len(got[o]) + Untold(o) + 1
    <3>1. UpTo(o) = said - 1 /\ UpTo(o)' = said /\ Kept(o)' = Kept(o) /\ Kept(o) \in {0, 1}
      BY <2>2, <2>3 DEF UpTo, Kept
    <3>2. Untold(o) = said - 1 - since[o] - Len(got[o]) /\ Untold(o) \in Nat
          /\ Untold(o)' = said - since[o] - Len(got[o]) /\ Len(got[o]) \in Nat
      BY <3>1, <2>2, <2>3 DEF Untold, StreamIsWhole
    <3>3. Untold(o)' = Untold(o) + 1
      BY <3>2, <2>2
    <3>4. said = since[o] + Len(got[o]) + Untold(o) + 1
      BY <3>2, <2>2
    <3>5. QED
      BY <3>1, <3>2, <3>3, <3>4
  <2>6. Len(wire[o]) = 2 * Untold(o) - Kept(o)
    BY <2>2 DEF StreamIsWhole
  <2>7. ASSUME NEW k \in 1..Untold(o)'
        PROVE  /\ wire'[o][2 * k - Kept(o)] = <<since[o] + Len(got[o]) + k, "tail">>
               /\ 2 * k - Kept(o) > 1 =>
                    wire'[o][2 * k - Kept(o) - 1] = <<since[o] + Len(got[o]) + k, "head">>
    <3>1. CASE k \in 1..Untold(o)
      <4>1. 2 * k - Kept(o) \in 1..Len(wire[o])
            /\ (2 * k - Kept(o) > 1 => 2 * k - Kept(o) - 1 \in 1..Len(wire[o]))
        BY <3>1, <2>5, <2>6
      <4>2. QED
        BY <4>1, <3>1, <2>2, <2>4 DEF StreamIsWhole
    <3>2. CASE k = Untold(o) + 1
      <4>1. 2 * k - Kept(o) = Len(wire[o]) + 2 /\ 2 * k - Kept(o) - 1 = Len(wire[o]) + 1
        <5>1. 2 * (Untold(o) + 1) - Kept(o) = 2 * Untold(o) - Kept(o) + 2
          BY <2>5
        <5>2. 2 * k - Kept(o) = Len(wire[o]) + 2 /\ Len(wire[o]) \in Int
          BY <5>1, <3>2, <2>5, <2>6
        <5>3. QED
          BY <5>2
      <4>2. said = since[o] + Len(got[o]) + k
        <5>1. said = since[o] + Len(got[o]) + Untold(o) + 1
          BY <2>5
        <5>2. since[o] \in Int /\ Len(got[o]) \in Int /\ Untold(o) \in Int
          BY <2>2, <2>5
        <5>3. QED
          BY <5>1, <5>2, <3>2
      <4>3. QED
        BY <4>1, <4>2, <2>4
    <3>3. QED
      BY <3>1, <3>2, <2>5
  <2>8. StreamIsWhole(o)'
    <3>1. Len(wire'[o]) = 2 * Untold(o)' - Kept(o)'
      BY <2>4, <2>5, <2>6
    <3>2. Untold(o)' \in Nat /\ UNCHANGED <<since, got, buf>>
      BY <2>3, <2>5
    <3>3. buf[o] \in {0, since[o] + Len(got[o]) + 1} /\ \A i \in 1..Len(got[o]) : got[o][i] = since[o] + i
      BY <2>2 DEF StreamIsWhole
    <3>4. QED
      BY <3>1, <3>2, <3>3, <2>5, <2>7 DEF StreamIsWhole
  <2>9. TelemetryType'
    BY <1>7, <2>4 DEF Write, TelemetryInv, TelemetryType
  <2>10. QED
    BY <1>7, <2>1, <2>8, <2>9 DEF Write, TelemetryInv, TelemetryType, Gone, Dead
<1>8. ASSUME NEW o \in Observer, WriteFails(o) \/ WriteLost(o)
      PROVE  TelemetryInv'
  <2>1. ASSUME NEW x \in Observer, x # o
        PROVE  StreamIsWhole(x)' <=> StreamIsWhole(x)
    BY <1>8, <2>1 DEF WriteFails, WriteLost, StreamIsWhole, Untold, Kept, UpTo, TelemetryInv,
                      TelemetryType
  <2>2. QED
    BY <1>8, <2>1 DEF WriteFails, WriteLost, TelemetryInv, TelemetryType, Gone, Dead
<1>9. ASSUME NEW o \in Observer, WriteWaits(o)
      PROVE  TelemetryInv'
  BY <1>9, <1>a, <1>b DEF WriteWaits, TelemetryInv, TelemetryType, Gone, Dead
<1>10. ASSUME NEW o \in Observer, Recv(o)
       PROVE  TelemetryInv'
  <2> DEFINE half == Head(wire[o])
  <2>1. ASSUME NEW x \in Observer, x # o
        PROVE  StreamIsWhole(x)' <=> StreamIsWhole(x)
    BY <1>10, <2>1 DEF Recv, StreamIsWhole, Untold, Kept, UpTo, TelemetryInv, TelemetryType
  <2>2. /\ wire[o] \in Seq(Half) /\ wire[o] # <<>> /\ got[o] \in Seq(Nat) /\ buf[o] \in Nat
        /\ since[o] \in Nat
    BY <1>10 DEF Recv, TelemetryInv, TelemetryType
  <2>3. /\ wire'[o] \in Seq(Half) /\ Len(wire'[o]) = Len(wire[o]) - 1
        /\ Len(wire[o]) \in Nat \ {0} /\ half = wire[o][1] /\ half \in Half
        /\ \A i \in 1..(Len(wire[o]) - 1) : wire'[o][i] = wire[o][i + 1]
    <3>1. wire'[o] = Tail(wire[o])
      BY <1>10 DEF Recv, TelemetryInv, TelemetryType
    <3>2. QED
      BY <3>1, <2>2, TailOf
  <2>4. /\ buf'[o] = IF half[2] = "head" THEN half[1] ELSE 0
        /\ got'[o] = IF half = <<buf[o], "tail">> THEN Append(got[o], half[1]) ELSE got[o]
    BY <1>10 DEF Recv, TelemetryInv, TelemetryType
  <2>5. TelemetryType'
    <3>1. half[1] \in Nat
      BY <2>3 DEF Half
    <3>2. got'[o] \in Seq(Nat) /\ buf'[o] \in Nat
      BY <3>1, <2>2, <2>4
    <3>3. wire' \in [Observer -> Seq(Half)]
      BY <1>10, <2>3 DEF Recv, TelemetryInv, TelemetryType
    <3>4. got' \in [Observer -> Seq(Nat)] /\ buf' \in [Observer -> Nat]
      BY <1>10, <3>2 DEF Recv, TelemetryInv, TelemetryType
    <3>5. QED
      BY <1>10, <3>3, <3>4 DEF Recv, TelemetryInv, TelemetryType
  <2>6. ASSUME StreamIsWhole(o)
        PROVE  StreamIsWhole(o)'
    <3>1. UpTo(o)' = UpTo(o) /\ since' = since /\ Untold(o) \in Nat \ {0} /\ Kept(o) \in {0, 1}
          /\ Len(wire[o]) = 2 * Untold(o) - Kept(o) /\ Len(got[o]) \in Nat
          /\ (Kept(o) = 0 <=> buf[o] = 0)
      <4>1. UpTo(o)' = UpTo(o) /\ since' = since
        BY <1>10 DEF Recv, UpTo
      <4>2. Kept(o) \in {0, 1} /\ (Kept(o) = 0 <=> buf[o] = 0)
        BY DEF Kept
      <4>3. Untold(o) \in Nat /\ Len(wire[o]) = 2 * Untold(o) - Kept(o) /\ Len(got[o]) \in Nat
        BY <2>2, <2>6 DEF StreamIsWhole
      <4>4. Untold(o) # 0
        BY <4>2, <4>3, <2>3
      <4>5. QED
        BY <4>1, <4>2, <4>3, <4>4
    <3>2. CASE Kept(o) = 0
      <4>1. half = <<since[o] + Len(got[o]) + 1, "head">>
        <5>1. 1 \in 1..Untold(o) /\ 2 * 1 - Kept(o) > 1 /\ 2 * 1 - Kept(o) - 1 = 1
          BY <3>1, <3>2
        <5>2. QED
          BY <5>1, <2>3, <2>6 DEF StreamIsWhole
      <4>2. got'[o] = got[o] /\ buf'[o] = since[o] + Len(got[o]) + 1 /\ buf'[o] # 0
        BY <4>1, <2>2, <2>4, <3>1
      <4>3. Kept(o)' = 1 /\ Untold(o)' = Untold(o)
        BY <4>2, <3>1 DEF Kept, Untold
      <4>4. ASSUME NEW k \in 1..Untold(o)
            PROVE  /\ wire'[o][2 * k - 1] = <<since[o] + Len(got[o]) + k, "tail">>
                   /\ 2 * k - 1 > 1 =>
                        wire'[o][2 * k - 1 - 1] = <<since[o] + Len(got[o]) + k, "head">>
        <5>1. /\ wire[o][2 * k] = <<since[o] + Len(got[o]) + k, "tail">>
              /\ wire[o][2 * k - 1] = <<since[o] + Len(got[o]) + k, "head">>
          <6>1. 2 * k - Kept(o) = 2 * k /\ 2 * k > 1
            BY <3>1, <3>2
          <6>2. QED
            BY <6>1, <2>6 DEF StreamIsWhole
        <5>2. wire'[o][2 * k - 1] = wire[o][2 * k]
          <6>1. 2 * k - 1 \in 1..(Len(wire[o]) - 1) /\ 2 * k - 1 + 1 = 2 * k
            BY <3>1, <3>2
          <6>2. QED
            BY <6>1, <2>3
        <5>3. ASSUME 2 * k - 1 > 1
              PROVE  wire'[o][2 * k - 1 - 1] = wire[o][2 * k - 1]
          <6>1. 2 * k - 1 - 1 \in 1..(Len(wire[o]) - 1) /\ 2 * k - 1 - 1 + 1 = 2 * k - 1
            BY <3>1, <3>2, <5>3
          <6>2. QED
            BY <6>1, <2>3
        <5>4. QED
          BY <5>1, <5>2, <5>3
      <4>5. Len(wire'[o]) = 2 * Untold(o)' - Kept(o)'
        BY <2>3, <3>1, <3>2, <4>3
      <4>6. QED
        BY <2>6, <3>1, <4>2, <4>3, <4>4, <4>5 DEF StreamIsWhole
    <3>3. CASE Kept(o) = 1
      <4>1. half = <<since[o] + Len(got[o]) + 1, "tail">> /\ buf[o] = since[o] + Len(got[o]) + 1
        <5>1. 1 \in 1..Untold(o) /\ 2 * 1 - Kept(o) = 1
          BY <3>1, <3>3
        <5>2. QED
          BY <5>1, <2>3, <2>6, <3>1, <3>3 DEF StreamIsWhole
      <4>2. got'[o] = Append(got[o], since[o] + Len(got[o]) + 1) /\ buf'[o] = 0
        BY <4>1, <2>4
      <4>3. /\ Len(got'[o]) = Len(got[o]) + 1
            /\ \A i \in 1..Len(got[o]) : got'[o][i] = got[o][i]
            /\ got'[o][Len(got[o]) + 1] = since[o] + Len(got[o]) + 1
        BY <4>2, <2>2, <3>1
      <4>4. Kept(o)' = 0 /\ Untold(o)' = Untold(o) - 1
        <5>1. UpTo(o) \in Int
          BY <1>10 DEF UpTo, TelemetryInv, TelemetryType
        <5>2. QED
          BY <5>1, <4>2, <4>3, <3>1, <2>2 DEF Kept, Untold
      <4>5. ASSUME NEW k \in 1..(Untold(o) - 1)
            PROVE  /\ wire'[o][2 * k] = <<since[o] + Len(got'[o]) + k, "tail">>
                   /\ wire'[o][2 * k - 1] = <<since[o] + Len(got'[o]) + k, "head">>
        <5>1. /\ wire[o][2 * k + 1] = <<since[o] + Len(got[o]) + (k + 1), "tail">>
              /\ wire[o][2 * k] = <<since[o] + Len(got[o]) + (k + 1), "head">>
          <6>1. k + 1 \in 1..Untold(o) /\ 2 * (k + 1) - Kept(o) = 2 * k + 1
                /\ 2 * (k + 1) - Kept(o) - 1 = 2 * k /\ 2 * (k + 1) - Kept(o) > 1
            BY <3>1, <3>3
          <6>2. QED
            BY <6>1, <2>6 DEF StreamIsWhole
        <5>2. wire'[o][2 * k] = wire[o][2 * k + 1]
          <6>1. 2 * k \in 1..(Len(wire[o]) - 1)
            BY <3>1, <3>3
          <6>2. QED
            BY <6>1, <2>3
        <5>3. wire'[o][2 * k - 1] = wire[o][2 * k]
          <6>1. 2 * k - 1 \in 1..(Len(wire[o]) - 1) /\ 2 * k - 1 + 1 = 2 * k
            BY <3>1, <3>3
          <6>2. QED
            BY <6>1, <2>3
        <5>4. since[o] + Len(got'[o]) + k = since[o] + Len(got[o]) + (k + 1)
          <6>1. Len(got'[o]) = Len(got[o]) + 1 /\ Len(got[o]) \in Nat /\ since[o] \in Nat
            BY <4>3, <2>2, <3>1
          <6>2. QED
            BY <6>1
        <5>5. QED
          BY <5>1, <5>2, <5>3, <5>4
      <4>6. Len(wire'[o]) = 2 * Untold(o)' - Kept(o)'
        BY <2>3, <3>1, <3>3, <4>4
      <4>7. \A i \in 1..Len(got'[o]) : got'[o][i] = since[o] + i
        <5>1. \A i \in 1..Len(got[o]) : got[o][i] = since[o] + i
          BY <2>6 DEF StreamIsWhole
        <5>2. ASSUME NEW i \in 1..Len(got'[o])
              PROVE  got'[o][i] = since[o] + i
          <6>1. i \in 1..Len(got[o]) \/ i = Len(got[o]) + 1
            BY <3>1, <4>3
          <6>2. since[o] + Len(got[o]) + 1 = since[o] + (Len(got[o]) + 1)
            <7>1. Len(got[o]) \in Nat /\ since[o] \in Nat
              BY <2>2, <3>1
            <7>2. QED
              BY <7>1
          <6>3. QED
            BY <5>1, <6>1, <6>2, <4>3
        <5>3. QED
          BY <5>2
      <4>8. QED
        <5>1. Untold(o)' \in Nat /\ 1..Untold(o)' = 1..(Untold(o) - 1)
          BY <3>1, <4>4
        <5>2. \A k \in 1..Untold(o)' : 2 * k - Kept(o)' = 2 * k
          BY <4>4, <5>1
        <5>3. QED
          BY <3>1, <4>2, <4>4, <4>5, <4>6, <4>7, <5>1, <5>2 DEF StreamIsWhole
    <3>4. QED
      BY <3>1, <3>2, <3>3
  <2>7. conn[o] \notin {"none", "backlog", "inHand"}
    BY <1>10 DEF Recv, TelemetryInv
  <2>8. QED
    BY <1>10, <2>1, <2>5, <2>6, <2>7 DEF Recv, TelemetryInv, TelemetryType, Gone, Dead
<1>11. ASSUME NEW o \in Observer, Idle(o) \/ EndOfFile(o)
       PROVE  TelemetryInv'
  BY <1>11, <1>a, <1>b DEF Idle, EndOfFile, TelemetryInv, TelemetryType, Gone, Dead, Reads
<1>12. ASSUME NEW o \in Observer, NEW how \in {"dead", "suspended"}, Fail(o, how)
       PROVE  TelemetryInv'
  BY <1>12, <1>a, <1>b DEF Fail, TelemetryInv, TelemetryType, Gone, Dead
<1>13. CASE UNCHANGED tvars
  BY <1>13, <1>a, <1>b DEF tvars, TelemetryInv, TelemetryType, Gone, Dead
<1>14. QED
  BY <1>1, <1>2, <1>3, <1>4, <1>5, <1>6, <1>7, <1>8, <1>9, <1>10, <1>11, <1>12, <1>13
     DEF TelemetryNext, Fan, Listen

LEMMA TelemetryHolds == WatchSpec => []TelemetryInv
<1>1. WatchInit => TelemetryInv
  BY TelemetryStarts DEF WatchInit
<1>2. TelemetryInv /\ [WatchNext]_wvars => TelemetryInv'
  BY TelemetryStep, StepsOfTelemetry
<1>3. QED
  BY <1>1, <1>2, PTL DEF WatchSpec

\* Every observer that is still there has been told, or has whole on its way, all that
\* was published since it joined: the lines it has not been told are in its socket, in
\* pairs, for every number of messages, observers and half-lines a connection holds.
THEOREM NobodyMisses == WatchSpec => []NobodyIsSkipped
<1>1. ASSUME TelemetryInv, NEW o \in Observer, conn[o] \in {"served", "closed"} /\ ~Gone(o)
      PROVE  /\ \A i \in DOMAIN got[o] : got[o][i] = since[o] + i
             /\ \A m \in (since[o] + Len(got[o]) + 1)..UpTo(o) :
                  \E i \in Whole(o) : wire[o][i][1] = m
  <2>1. /\ StreamIsWhole(o) /\ got[o] \in Seq(Nat) /\ wire[o] \in Seq(Half) /\ since[o] \in Nat
        /\ UpTo(o) \in Int /\ Len(got[o]) \in Nat /\ Kept(o) \in {0, 1}
    BY <1>1 DEF TelemetryInv, TelemetryType, UpTo, Kept
  <2>2. ASSUME NEW m \in (since[o] + Len(got[o]) + 1)..UpTo(o)
        PROVE  \E i \in Whole(o) : wire[o][i][1] = m
    <3> DEFINE k == m - since[o] - Len(got[o])
    <3> DEFINE i == 2 * k - Kept(o)
    <3>1. k \in 1..Untold(o) /\ since[o] + Len(got[o]) + k = m /\ m # 0 /\ m \in Int
      <4>1. since[o] \in Int /\ Len(got[o]) \in Int /\ UpTo(o) \in Int
        BY <2>1
      <4>2. m \in Int /\ m >= since[o] + Len(got[o]) + 1 /\ m <= UpTo(o) /\ m # 0
        BY <2>1, <4>1
      <4>3. Untold(o) = UpTo(o) - since[o] - Len(got[o])
        BY DEF Untold
      <4>4. QED
        BY <4>1, <4>2, <4>3
    <3>2. i \in DOMAIN wire[o] /\ (i = 1 <=> Kept(o) = 1 /\ k = 1) /\ i \in Nat \ {0}
      <4>1. Untold(o) \in Nat /\ k \in Nat \ {0} /\ k <= Untold(o)
        BY <2>1, <3>1 DEF StreamIsWhole
      <4>2. DOMAIN wire[o] = 1..(2 * Untold(o) - Kept(o))
        BY <2>1 DEF StreamIsWhole
      <4> HIDE DEF k
      <4>3. i \in Nat \ {0} /\ i <= 2 * Untold(o) - Kept(o) /\ (i = 1 <=> Kept(o) = 1 /\ k = 1)
        BY <4>1, <2>1
      <4>4. QED
        BY <4>1, <4>2, <4>3, <2>1
    <3>3. wire[o][i] = <<m, "tail">> /\ (i > 1 => wire[o][i - 1] = <<m, "head">>)
      <4>1. /\ wire[o][i] = <<since[o] + Len(got[o]) + k, "tail">>
            /\ i > 1 => wire[o][i - 1] = <<since[o] + Len(got[o]) + k, "head">>
        <5>1. \A j \in 1..Untold(o) :
                /\ wire[o][2 * j - Kept(o)] = <<since[o] + Len(got[o]) + j, "tail">>
                /\ 2 * j - Kept(o) > 1 =>
                     wire[o][2 * j - Kept(o) - 1] = <<since[o] + Len(got[o]) + j, "head">>
          BY <2>1 DEF StreamIsWhole
        <5>2. k \in 1..Untold(o)
          BY <3>1
        <5> HIDE DEF k
        <5>3. QED
          BY <5>1, <5>2
      <4>2. QED
        BY <4>1, <3>1
    <3>4. i = 1 => buf[o] = m
      BY <2>1, <3>1, <3>2 DEF StreamIsWhole, Kept
    <3>5. i \in Whole(o)
      BY <3>2, <3>3, <3>4 DEF Whole
    <3>6. QED
      BY <3>3, <3>5
  <2>3. QED
    <3>1. DOMAIN got[o] = 1..Len(got[o])
      BY <2>1
    <3>2. \A j \in 1..Len(got[o]) : got[o][j] = since[o] + j
      BY <2>1 DEF StreamIsWhole
    <3>3. QED
      BY <2>2, <3>1, <3>2
<1>2. TelemetryInv => NobodyIsSkipped
  BY <1>1 DEF NobodyIsSkipped
<1>3. QED
  BY <1>2, TelemetryHolds, PTL

=============================================================================

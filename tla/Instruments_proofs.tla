-------------------------- MODULE Instruments_proofs --------------------------
(***************************************************************************)
(* Theorems about the two instruments: the links' life, for any outcome of *)
(* discovery, any number of attempts, failures and replugs, and recoveries *)
(* on neither, one or both of the links; and the programs that run over    *)
(* them, for any plan, any programs, any number of runs, of commands that  *)
(* raise and of other hands between two programs.                          *)
(***************************************************************************)
EXTENDS InstrumentLink, Analyzer, WellFoundedInduction, TLAPS

----------------------------------------------------------------------------
(* The links. *)

\* The counters of a call agree with where the call is.
CountersInv ==
  \A r \in Role :
    /\ pc[r] = "idle" => tries[r] = 0
    /\ pc[r] = "ensure" => tries[r] < Retries
    /\ pc[r] = "dekey" => replugs[r] = 0
    /\ pc[r] = "replug" => replugs[r] < Budget

\* What a connect() that found no instrument to open leaves behind.
LEMMA ResumeEffect ==
  ASSUME TypeOK, NEW r \in Role, NEW n \in 0..Retries, Resume(r, n)
  PROVE  \E place \in {"idle", "ensure"} : \E m \in 0..Retries :
           /\ pc' = [pc EXCEPT ![r] = place]
           /\ tries' = [tries EXCEPT ![r] = m]
           /\ place = "idle" => m = 0
           /\ place = "ensure" => m < Retries
<1> DEFINE more == n \in 1..(Retries - 1)
<1>1. CASE more
  <2>1. pc' = [pc EXCEPT ![r] = "ensure"] /\ tries' = [tries EXCEPT ![r] = n]
    BY <1>1 DEF Resume
  <2>2. n < Retries
    BY <1>1, LinkAssumption
  <2>3. QED
    BY <2>1, <2>2
<1>2. CASE ~more
  <2>1. pc' = [pc EXCEPT ![r] = "idle"] /\ tries' = [tries EXCEPT ![r] = 0]
    BY <1>2 DEF Resume
  <2>2. 0 \in 0..Retries
    BY LinkAssumption
  <2>3. QED
    BY <2>1, <2>2
<1>3. QED
  BY <1>1, <1>2

\* A failed connect or use leaves the thread at place, m attempts and k replugs
\* into a call, and the link in state s.
Effect(r, st, v, place, m, k, s) ==
  /\ consec' = [consec EXCEPT ![r] = CappedAt(FaultAfter, @ + 1)]
  /\ streak' = [streak EXCEPT ![r] = CappedAt(FaultAfter, @ + 1)]
  /\ verdict' = IF v THEN verdict \cup {r} ELSE verdict \ {r}
  /\ pc' = [pc EXCEPT ![r] = place]
  /\ tries' = [tries EXCEPT ![r] = m]
  /\ replugs' = [replugs EXCEPT ![r] = k]
  /\ state' = [state EXCEPT ![r] = s]
  /\ place = "idle" => m = 0
  /\ place = "ensure" => m < Retries
  /\ place = "dekey" => k = 0
  /\ s # st => place = "idle"
  /\ place = "dekey" \/ s # st => v \/ consec[r] + 1 >= FaultAfter

\* What _bump_failure leaves behind: the caller's state and the next attempt,
\* or a recovery, or a FAULT.
LEMMA FailedEffect ==
  ASSUME TypeOK, NEW r \in Role, NEW n \in 0..Retries, NEW st \in State,
         NEW v \in BOOLEAN, Failed(r, n, st, v)
  PROVE  \E place \in {"idle", "ensure", "dekey"}, m \in 0..Retries, k \in 0..Budget,
            s \in {st, "FAULT"} : Effect(r, st, v, place, m, k, s)
<1> USE LinkAssumption DEF TypeOK
<1>1. replugs = [replugs EXCEPT ![r] = replugs[r]] /\ replugs[r] \in 0..Budget
  OBVIOUS
<1>2. CASE ~v /\ consec[r] + 1 < FaultAfter
  <2>1. Set(r, st) /\ Resume(r, n) /\ replugs' = replugs
    BY <1>2 DEF Failed
  <2>2. state' = [state EXCEPT ![r] = st]
    BY <2>1 DEF Set
  <2>3. QED
    BY <1>1, <1>2, <2>1, <2>2, ResumeEffect DEF Failed, Effect
<1>3. CASE v \/ ~(consec[r] + 1 < FaultAfter)
  <2>1. consec[r] \in Nat /\ 0 \in 0..Budget /\ 0 \in 0..Retries
    OBVIOUS
  <2>2. v \/ consec[r] + 1 >= FaultAfter
    BY <1>3, <2>1
  <2>3. CASE r \in Recoverable
    BY <1>3, <2>1, <2>2, <2>3 DEF Failed, Set, Effect
  <2>4. CASE r \notin Recoverable
    BY <1>1, <1>3, <2>1, <2>2, <2>4 DEF Failed, Fault, Set, Effect
  <2>5. QED
    BY <2>3, <2>4
<1>4. QED
  BY <1>2, <1>3

LEMMA TypeInit == Init => TypeOK /\ CountersInv
BY LinkAssumption DEF Init, TypeOK, CountersInv, State

LEMMA TypeNext == TypeOK /\ CountersInv /\ [Next]_vars => TypeOK' /\ CountersInv'
<1> SUFFICES ASSUME TypeOK, CountersInv, [Next]_vars
             PROVE  TypeOK' /\ CountersInv'
  OBVIOUS
<1> USE LinkAssumption DEF lifecycle, world, history
<1>1. ASSUME NEW r \in Role, EnsureBegins(r)
      PROVE  TypeOK' /\ CountersInv'
  BY <1>1 DEF EnsureBegins, Set, TypeOK, CountersInv
<1>2. ASSUME NEW r \in Role, Connect(r)
      PROVE  TypeOK' /\ CountersInv'
  <2>1. CASE Ready(r) /\ stale' = stale \ {r} /\ UNCHANGED <<plant, rf, upsets, drops, direct>>
    BY <1>2, <2>1 DEF Connect, Ready, Resume, Set, State, CappedAt, TypeOK, CountersInv
  <2>2. ASSUME NEW v \in BOOLEAN,
               opened' = opened \ {r}, stale' = stale \ {r}, pc[r] = "ensure",
               Failed(r, tries[r] + 1, "FAILED", v),
               UNCHANGED <<reconnects, dropped, plant, rf, upsets, drops, direct>>
        PROVE  TypeOK' /\ CountersInv'
    <3>1. tries[r] + 1 \in 0..Retries
      BY <1>2, <2>2 DEF TypeOK, CountersInv
    <3>2. "FAILED" \in State
      BY DEF State
    <3>3. PICK place \in {"idle", "ensure", "dekey"}, m \in 0..Retries, k \in 0..Budget,
               s \in {"FAILED", "FAULT"} : Effect(r, "FAILED", v, place, m, k, s)
      BY <2>2, <3>1, <3>2, FailedEffect
    <3>4. QED
      BY <1>2, <2>2, <3>3 DEF Effect, CappedAt, State, TypeOK, CountersInv
  <2>3. ASSUME NEW d \in Discovery, Unmatched(r, d), pc[r] = "ensure",
               stale' = stale \ {r}, UNCHANGED <<plant, rf, upsets, drops, direct>>
        PROVE  TypeOK' /\ CountersInv'
    <3>1. tries[r] + 1 \in 0..Retries
      BY <1>2, <2>3 DEF TypeOK, CountersInv
    <3>2. PICK place \in {"idle", "ensure"}, m \in 0..Retries :
            /\ pc' = [pc EXCEPT ![r] = place]
            /\ tries' = [tries EXCEPT ![r] = m]
            /\ place = "idle" => m = 0
            /\ place = "ensure" => m < Retries
      BY <2>3, <3>1, ResumeEffect DEF Unmatched
    <3>3. QED
      BY <1>2, <2>3, <3>2 DEF Unmatched, Set, State, TypeOK, CountersInv
  <2>4. QED
    BY <1>2, <2>1, <2>2, <2>3 DEF Connect, Verdicts
<1>3. ASSUME NEW r \in Role, UseAnswers(r)
      PROVE  TypeOK' /\ CountersInv'
  BY <1>3 DEF UseAnswers, Operated, Set, TypeOK, CountersInv
<1>4. ASSUME NEW r \in Role, UseDrops(r)
      PROVE  TypeOK' /\ CountersInv'
  <2>1. PICK v \in BOOLEAN : Failed(r, 0, "DISCONNECTED", v)
    BY <1>4 DEF UseDrops, Verdicts
  <2>2. 0 \in 0..Retries /\ "DISCONNECTED" \in State
    BY DEF State
  <2>3. PICK place \in {"idle", "ensure", "dekey"}, m \in 0..Retries, k \in 0..Budget,
             s \in {"DISCONNECTED", "FAULT"} : Effect(r, "DISCONNECTED", v, place, m, k, s)
    BY <1>4, <2>1, <2>2, FailedEffect
  <2>4. QED
    BY <1>4, <2>3 DEF UseDrops, Effect, CappedAt, State, TypeOK, CountersInv
<1>5. ASSUME NEW r \in Role, DirectUse(r)
      PROVE  TypeOK' /\ CountersInv'
  BY <1>5 DEF DirectUse, Operated, Set, TypeOK, CountersInv
<1>6. ASSUME NEW r \in Role, Close(r)
      PROVE  TypeOK' /\ CountersInv'
  BY <1>6 DEF Close, State, Set, TypeOK, CountersInv
<1>7. ASSUME NEW r \in Role, Dekey(r)
      PROVE  TypeOK' /\ CountersInv'
  BY <1>7 DEF Dekey, Set, TypeOK, CountersInv
<1>8. ASSUME NEW r \in Role, Replug(r)
      PROVE  TypeOK' /\ CountersInv'
  BY <1>8 DEF Replug, Set, TypeOK, CountersInv
<1>9. ASSUME NEW r \in Role, ReplugRaises(r)
      PROVE  TypeOK' /\ CountersInv'
  BY <1>9 DEF ReplugRaises, Fault, State, Set, TypeOK, CountersInv
<1>10. ASSUME NEW r \in Role, ProbeFails(r)
      PROVE  TypeOK' /\ CountersInv'
  BY <1>10 DEF ProbeFails, Fault, State, Set, TypeOK, CountersInv
<1>11. ASSUME NEW r \in Role, ProbeAnswers(r)
      PROVE  TypeOK' /\ CountersInv'
  BY <1>11 DEF ProbeAnswers, Resume, State, CappedAt, Set, TypeOK, CountersInv
<1>12. ASSUME NEW r \in Role, Upset(r)
      PROVE  TypeOK' /\ CountersInv'
  BY <1>12 DEF Upset, Set, TypeOK, CountersInv
<1>13. CASE DeadMan
  BY <1>13 DEF DeadMan, Set, TypeOK, CountersInv
<1>14. CASE UNCHANGED vars
  BY <1>14 DEF vars, Set, TypeOK, CountersInv
<1>15. QED
  BY <1>1, <1>2, <1>3, <1>4, <1>5, <1>6, <1>7, <1>8, <1>9, <1>10, <1>11,
     <1>12, <1>13, <1>14
     DEF Next, Recovery

\* Every variable of the two links keeps its type: no recovery spends more than
\* its budget, no ensure() begins more than its attempts.
THEOREM TypeCorrect == Spec => []TypeOK
BY TypeInit, TypeNext, PTL DEF Spec

-----------------------------------------------------------------------------
\* A thread inside a call has no driver open; failures are counted where the
\* history counts them; a link that recovers or is at FAULT has earned it; and
\* a drop that is not reconnected yet leaves room for the reconnect.
LinkInv ==
  \A r \in Role :
    /\ state[r] = "READY" <=> r \in opened
    /\ pc[r] # "idle" => r \notin opened /\ state[r] # "FAULT"
    /\ consec[r] = streak[r]
    /\ state[r] = "FAULT" \/ pc[r] \in {"dekey", "replug", "probe"} =>
         streak[r] = FaultAfter \/ r \in verdict
    /\ reconnects[r] <= drops[r]
    /\ r \in dropped => reconnects[r] < drops[r] \/ drops[r] = MaxCount

LEMMA LinkInit == Init => LinkInv
BY LinkAssumption DEF Init, LinkInv

LEMMA LinkNext == TypeOK /\ CountersInv /\ LinkInv /\ [Next]_vars => LinkInv'
<1> SUFFICES ASSUME TypeOK, CountersInv, LinkInv, [Next]_vars
             PROVE  LinkInv'
  OBVIOUS
<1> USE LinkAssumption DEF lifecycle, world, history
<1>1. ASSUME NEW r \in Role, EnsureBegins(r)
      PROVE  LinkInv'
  BY <1>1 DEF EnsureBegins, Set, TypeOK, LinkInv
<1>2. ASSUME NEW r \in Role, Connect(r)
      PROVE  LinkInv'
  <2>1. CASE Ready(r) /\ stale' = stale \ {r} /\ UNCHANGED <<plant, rf, upsets, drops, direct>>
    BY <1>2, <2>1 DEF Connect, Ready, Resume, Set, State, CappedAt, TypeOK, LinkInv
  <2>2. ASSUME NEW v \in BOOLEAN,
               opened' = opened \ {r}, stale' = stale \ {r}, pc[r] = "ensure",
               Failed(r, tries[r] + 1, "FAILED", v),
               UNCHANGED <<reconnects, dropped, plant, rf, upsets, drops, direct>>
        PROVE  LinkInv'
    <3>1. tries[r] + 1 \in 0..Retries
      BY <1>2, <2>2 DEF TypeOK, CountersInv
    <3>2. "FAILED" \in State
      BY DEF State
    <3>3. PICK place \in {"idle", "ensure", "dekey"}, m \in 0..Retries, k \in 0..Budget,
               s \in {"FAILED", "FAULT"} : Effect(r, "FAILED", v, place, m, k, s)
      BY <2>2, <3>1, <3>2, FailedEffect
    <3>4. QED
      BY <1>2, <2>2, <3>3 DEF Effect, CappedAt, State, TypeOK, LinkInv
  <2>3. ASSUME NEW d \in Discovery, Unmatched(r, d), pc[r] = "ensure",
               stale' = stale \ {r}, UNCHANGED <<plant, rf, upsets, drops, direct>>
        PROVE  LinkInv'
    <3>1. tries[r] + 1 \in 0..Retries
      BY <1>2, <2>3 DEF TypeOK, CountersInv
    <3>2. PICK place \in {"idle", "ensure"}, m \in 0..Retries :
            /\ pc' = [pc EXCEPT ![r] = place]
            /\ tries' = [tries EXCEPT ![r] = m]
            /\ place = "idle" => m = 0
            /\ place = "ensure" => m < Retries
      BY <2>3, <3>1, ResumeEffect DEF Unmatched
    <3>3. QED
      BY <1>2, <2>3, <3>2 DEF Unmatched, Set, State, TypeOK, LinkInv
  <2>4. QED
    BY <1>2, <2>1, <2>2, <2>3 DEF Connect, Verdicts
<1>3. ASSUME NEW r \in Role, UseAnswers(r)
      PROVE  LinkInv'
  BY <1>3 DEF UseAnswers, Operated, Set, TypeOK, LinkInv
<1>4. ASSUME NEW r \in Role, UseDrops(r)
      PROVE  LinkInv'
  <2>1. PICK v \in BOOLEAN : Failed(r, 0, "DISCONNECTED", v)
    BY <1>4 DEF UseDrops, Verdicts
  <2>2. 0 \in 0..Retries /\ "DISCONNECTED" \in State
    BY DEF State
  <2>3. PICK place \in {"idle", "ensure", "dekey"}, m \in 0..Retries, k \in 0..Budget,
             s \in {"DISCONNECTED", "FAULT"} : Effect(r, "DISCONNECTED", v, place, m, k, s)
    BY <1>4, <2>1, <2>2, FailedEffect
  <2>4. QED
    BY <1>4, <2>3, SMTT(30) DEF UseDrops, Effect, CappedAt, State, TypeOK, LinkInv
<1>5. ASSUME NEW r \in Role, DirectUse(r)
      PROVE  LinkInv'
  BY <1>5 DEF DirectUse, Operated, Set, TypeOK, LinkInv
<1>6. ASSUME NEW r \in Role, Close(r)
      PROVE  LinkInv'
  BY <1>6 DEF Close, State, Set, TypeOK, LinkInv
<1>7. ASSUME NEW r \in Role, Dekey(r)
      PROVE  LinkInv'
  BY <1>7 DEF Dekey, Set, TypeOK, LinkInv
<1>8. ASSUME NEW r \in Role, Replug(r)
      PROVE  LinkInv'
  BY <1>8 DEF Replug, Set, TypeOK, LinkInv
<1>9. ASSUME NEW r \in Role, ReplugRaises(r)
      PROVE  LinkInv'
  BY <1>9 DEF ReplugRaises, Fault, State, Set, TypeOK, LinkInv
<1>10. ASSUME NEW r \in Role, ProbeFails(r)
      PROVE  LinkInv'
  BY <1>10 DEF ProbeFails, Fault, State, Set, TypeOK, LinkInv
<1>11. ASSUME NEW r \in Role, ProbeAnswers(r)
      PROVE  LinkInv'
  BY <1>11 DEF ProbeAnswers, Resume, State, CappedAt, Set, TypeOK, LinkInv
<1>12. ASSUME NEW r \in Role, Upset(r)
      PROVE  LinkInv'
  BY <1>12 DEF Upset, Set, TypeOK, LinkInv
<1>13. CASE DeadMan
  BY <1>13 DEF DeadMan, Set, TypeOK, LinkInv
<1>14. CASE UNCHANGED vars
  BY <1>14 DEF vars, Set, TypeOK, LinkInv
<1>15. QED
  BY <1>1, <1>2, <1>3, <1>4, <1>5, <1>6, <1>7, <1>8, <1>9, <1>10, <1>11,
     <1>12, <1>13, <1>14
     DEF Next, Recovery

LEMMA Invariants == Spec => [](TypeOK /\ LinkInv)
BY TypeInit, TypeNext, LinkInit, LinkNext, PTL DEF Spec

\* READY is an open driver and an open driver is READY, in every interleaving
\* of two links' drops, retries and recoveries.
THEOREM ReadyOpen == Spec => []ReadyIsOpen
<1>1. LinkInv => ReadyIsOpen
  BY DEF LinkInv, ReadyIsOpen
<1>2. QED
  BY <1>1, Invariants, PTL

\* No link is put at FAULT by fewer than FaultAfter failures in a row, but for
\* the verdict of a wedged adapter.
THEOREM FaultEarned == Spec => []FaultIsEarned
<1>1. LinkInv => FaultIsEarned
  BY DEF LinkInv, FaultIsEarned
<1>2. QED
  BY <1>1, Invariants, PTL

\* No reconnect is counted that was not preceded by a loss of its own.
THEOREM ReconnectsCounted == Spec => []ReconnectsAreDrops
<1>1. LinkInv => ReconnectsAreDrops
  BY DEF LinkInv, ReconnectsAreDrops
<1>2. QED
  BY <1>1, Invariants, PTL

-----------------------------------------------------------------------------
LEMMA LeavesFault ==
  TypeOK /\ LinkInv /\ [Next]_vars =>
    [\A r \in Role :
       state[r] = "FAULT" /\ state'[r] # "FAULT" =>
         state'[r] = "DISCONNECTED" /\ pc[r] = "idle" /\ pc'[r] = "idle"]_vars
<1> SUFFICES ASSUME TypeOK, LinkInv, Next,
                    NEW r \in Role, state[r] = "FAULT", state'[r] # "FAULT"
             PROVE  state'[r] = "DISCONNECTED" /\ pc[r] = "idle" /\ pc'[r] = "idle"
  OBVIOUS
<1> USE DEF Set, lifecycle, world, history
<1>1. pc[r] = "idle" /\ r \notin opened
  BY DEF LinkInv, TypeOK
<1>2. ASSUME NEW q \in Role,
             EnsureBegins(q) \/ UseAnswers(q) \/ DirectUse(q) \/ Dekey(q)
               \/ Replug(q) \/ Upset(q) \/ DeadMan
      PROVE  FALSE
  BY <1>2 DEF EnsureBegins, UseAnswers, DirectUse, Dekey, Replug, Upset, DeadMan
<1>3. ASSUME NEW q \in Role,
             Connect(q) \/ UseDrops(q) \/ ReplugRaises(q) \/ ProbeFails(q) \/ ProbeAnswers(q)
      PROVE  FALSE
  <2>1. q # r
    BY <1>1, <1>3 DEF Connect, UseDrops, ReplugRaises, ProbeFails, ProbeAnswers
  <2>2. CASE Connect(q)
    BY <2>1, <2>2 DEF Connect, Ready, Failed, Fault, Unmatched, TypeOK
  <2>3. CASE UseDrops(q) \/ ReplugRaises(q)
    BY <2>1, <2>3 DEF UseDrops, ReplugRaises, Failed, Fault, TypeOK
  <2>4. CASE ProbeFails(q) \/ ProbeAnswers(q)
    BY <2>1, <2>4 DEF ProbeFails, ProbeAnswers, Ready, Failed, Fault, TypeOK
  <2>5. QED
    BY <1>3, <2>2, <2>3, <2>4
<1>4. ASSUME NEW q \in Role, Close(q)
      PROVE  state'[r] = "DISCONNECTED" /\ pc'[r] = "idle"
  BY <1>1, <1>4 DEF Close, TypeOK
<1>5. QED
  BY <1>1, <1>2, <1>3, <1>4 DEF Next, Recovery

\* A link at FAULT stays there until close() is called: no ensure() and no end
\* of a recovery leads out of it.
THEOREM FaultStays == Spec => FaultIsTerminal
BY Invariants, LeavesFault, PTL DEF Spec, FaultIsTerminal

----------------------------------------------------------------------------
(* What a part of a program does to what is known of the instruments. *)

\* What may be known between two commands; "never" is never so.
Fact ==
  {"f", "tf", "span", "rbw", "cw", "units", "at", "level", "st", "sweep", "trace", "smp", "pos",
   "off", "on", "peaked", "unread", "taken", "taking", "comparing", "direct", "padded", "never"}

\* What an acceptance read relies on, whatever its kind.
Clean == {"f", "tf", "span", "rbw", "cw", "units", "at", "level", "trace"}

\* The commands that rely on nothing.
Mild ==
  {"L1", "CF1", "OSB", "CONTS", "CLRW_TRA", "AUNITS_DBM", "RB", "RL", "POS", "SMP", "SP_0", "ST",
   "RF0", "CF", "SWEEP", "ambient", "probe", "SP", "RB_COARSE", "TRY", "END", "GUARD", "NONE",
   "MKCF", "TS", "PSDAC"}

\* What a command relies on.  The others may not come at a point of these programs.
Wants(c) ==
  CASE c \in Mild      -> {}
    [] c = "RF1"       -> {"at", "level"}
    [] c = "AT_FLOOR"  -> {"direct"}
    [] c = "AT_PLAN"   -> {"padded"}
    [] c = "PP"        -> {"on", "tf"}
    [] c = "PSDAC?"    -> {"peaked", "unread"}
    [] c = "floor"     -> Clean \cup {"smp", "off"}
    [] c = "tone"      -> Clean \cup {"pos", "on"}
    [] c = "again"     -> Clean \cup {"pos", "on", "peaked", "comparing"}
    [] c = "LADDER"    -> {"taking", "tf", "level"}
    [] c = "ROW"       -> {"taking", "taken"}
    [] OTHER           -> {"never"}

Spoils(c) ==
  (IF c \in Changes THEN {"trace"} ELSE {})
    \cup CASE c = "POS"       -> {"smp"}
           [] c = "SMP"       -> {"pos"}
           [] c = "SP"        -> {"span"}
           [] c = "RB_COARSE" -> {"rbw"}
           [] c = "RF0"       -> {"on"}
           [] c = "RF1"       -> {"off"}
           [] c = "tone"      -> {"unread"}
           [] OTHER           -> {}

Gives(c, G) ==
  CASE c = "L1"         -> {"level"}
    [] c = "CF1"        -> {"tf"}
    [] c = "CONTS"      -> {"sweep"}
    [] c = "CLRW_TRA"   -> {"cw"}
    [] c = "AUNITS_DBM" -> {"units"}
    [] c = "RB"         -> {"rbw"}
    [] c = "POS"        -> {"pos"}
    [] c = "SMP"        -> {"smp"}
    [] c = "SP_0"       -> {"span"}
    [] c = "ST"         -> {"st"}
    [] c \in {"AT_FLOOR", "AT_PLAN"} -> {"at"}
    [] c = "RF0"        -> {"off"}
    [] c = "RF1"        -> {"on"}
    [] c = "CF"         -> {"f"}
    [] c = "SWEEP"      -> IF {"st", "sweep"} \subseteq G THEN {"trace"} ELSE {}
    [] c \in {"PP", "PSDAC"} -> {"peaked"}
    [] c = "tone"       -> {"taken"}
    [] OTHER            -> {}

Post(c, G) == (G \ Spoils(c)) \cup Gives(c, G)

\* What any rung keeps that is put in front of LADDER, or gives.
AtLadder == {"taking", "taken", "tf", "level", "direct", "padded"}

Command ==
  Mild \cup
  {"RF1", "AT_FLOOR", "AT_PLAN", "PP", "PSDAC?", "floor", "tone", "again", "LADDER", "ROW"}

\* An outline of s: what is known before and after each command.  Whoever skips to the
\* end of a bracket, or to where None is returned to, knows what is written there; and
\* what is written before LADDER is what any rung in front of it leaves.
Follows(s, a) ==
  \A i \in 1..Len(s) : /\ Wants(s[i]) \subseteq a[i - 1] /\ a[i] \subseteq Post(s[i], a[i - 1])
                       /\ s[i] = "LADDER" => a[i - 1] \subseteq AtLadder
Returns(s, a) ==
  \A i \in 1..Len(s) : s[i] = "GUARD" =>
    \E k \in (i + 1)..Len(s) : /\ s[k] = "NONE" /\ \A j \in i..(k - 1) : s[j] # "NONE"
                               /\ a[k] \subseteq a[i - 1]
Brackets(s, a) ==
  \A k \in 1..Len(s) : s[k] = "END" =>
    \A i \in 1..k : (\A j \in i..(k - 1) : s[j] # "TRY") =>
      s[i] # "LADDER" /\ a[k] \subseteq a[i - 1]
Outline(s, a) ==
  /\ s \in Seq(Command) /\ a \in [0..Len(s) -> SUBSET Fact]
  /\ Follows(s, a) /\ Returns(s, a) /\ Brackets(s, a)

\* No bracket of s closes one that is opened before.
Closed(s) == \A k \in 1..Len(s) : s[k] = "END" => \E j \in 1..(k - 1) : s[j] = "TRY"

\* s may run where G is known, and leaves H.
Runs(s, G, H) ==
  Closed(s) /\ \E a : Outline(s, a) /\ a[0] \subseteq G /\ H \subseteq a[Len(s)]

\* What is left of an outline is one of what is left.
LEMMA OutlineLeft ==
  ASSUME NEW s, NEW a, Outline(s, a), NEW k \in 0..Len(s)
  PROVE  Outline(SubSeq(s, k + 1, Len(s)), [i \in 0..(Len(s) - k) |-> a[i + k]])
<1> DEFINE t == SubSeq(s, k + 1, Len(s))
           b == [i \in 0..(Len(s) - k) |-> a[i + k]]
<1>1. /\ s \in Seq(Command) /\ Len(s) \in Nat /\ k \in Nat
      /\ a \in [0..Len(s) -> SUBSET Fact]
  BY DEF Outline
<1>2. /\ t \in Seq(Command) /\ Len(t) = Len(s) - k /\ \A i \in 1..Len(t) : t[i] = s[i + k]
  BY <1>1
<1>3. b \in [0..Len(t) -> SUBSET Fact]
  BY <1>1, <1>2
<1>4. \A i \in 0..Len(t) : b[i] = a[i + k]
  BY <1>2
<1> HIDE DEF t, b
<1>5. Follows(t, b)
  <2> SUFFICES ASSUME NEW i \in 1..Len(t)
               PROVE  /\ Wants(t[i]) \subseteq b[i - 1] /\ b[i] \subseteq Post(t[i], b[i - 1])
                      /\ t[i] = "LADDER" => b[i - 1] \subseteq AtLadder
    BY DEF Follows
  <2>1. /\ i + k \in 1..Len(s) /\ i \in 0..Len(t) /\ i - 1 \in 0..Len(t)
        /\ (i - 1) + k = (i + k) - 1
    BY <1>1, <1>2
  <2>2. t[i] = s[i + k] /\ b[i] = a[i + k] /\ b[i - 1] = a[(i + k) - 1]
    BY <1>2, <1>4, <2>1
  <2>3. /\ Wants(s[i + k]) \subseteq a[(i + k) - 1]
        /\ a[i + k] \subseteq Post(s[i + k], a[(i + k) - 1])
        /\ s[i + k] = "LADDER" => a[(i + k) - 1] \subseteq AtLadder
    BY <2>1 DEF Outline, Follows
  <2>4. QED
    BY <2>2, <2>3
<1>6. Returns(t, b)
  <2> SUFFICES ASSUME NEW i \in 1..Len(t), t[i] = "GUARD"
               PROVE  \E l \in (i + 1)..Len(t) :
                         /\ t[l] = "NONE" /\ \A j \in i..(l - 1) : t[j] # "NONE"
                         /\ b[l] \subseteq b[i - 1]
    BY DEF Returns
  <2>1. /\ i + k \in 1..Len(s) /\ i - 1 \in 0..Len(t) /\ (i - 1) + k = (i + k) - 1
        /\ s[i + k] = "GUARD"
    BY <1>1, <1>2
  <2>2. PICK m \in ((i + k) + 1)..Len(s) :
          /\ s[m] = "NONE" /\ \A j \in (i + k)..(m - 1) : s[j] # "NONE"
          /\ a[m] \subseteq a[(i + k) - 1]
    BY <2>1 DEF Outline, Returns
  <2>3. /\ m - k \in (i + 1)..Len(t) /\ m - k \in 1..Len(t) /\ m - k \in 0..Len(t)
        /\ (m - k) + k = m
    BY <1>1, <1>2, <2>1
  <2>4. t[m - k] = s[m] /\ b[m - k] = a[m] /\ b[i - 1] = a[(i + k) - 1]
    BY <1>2, <1>4, <2>1, <2>3
  <2>5. ASSUME NEW j \in i..((m - k) - 1) PROVE t[j] # "NONE"
    <3>1. j \in 1..Len(t) /\ j + k \in (i + k)..(m - 1)
      BY <1>1, <1>2, <2>3
    <3>2. QED
      BY <1>2, <2>2, <3>1
  <2>6. QED
    BY <2>2, <2>3, <2>4, <2>5
<1>7. Brackets(t, b)
  <2> SUFFICES ASSUME NEW l \in 1..Len(t), t[l] = "END", NEW i \in 1..l,
                      \A j \in i..(l - 1) : t[j] # "TRY"
               PROVE  t[i] # "LADDER" /\ b[l] \subseteq b[i - 1]
    BY DEF Brackets
  <2>1. /\ l + k \in 1..Len(s) /\ i + k \in 1..(l + k) /\ i \in 1..Len(t)
        /\ i - 1 \in 0..Len(t) /\ l \in 0..Len(t) /\ (i - 1) + k = (i + k) - 1
    BY <1>1, <1>2
  <2>2. s[l + k] = "END"
    BY <1>2
  <2>3. ASSUME NEW j \in (i + k)..((l + k) - 1) PROVE s[j] # "TRY"
    <3>1. j - k \in i..(l - 1) /\ j - k \in 1..Len(t) /\ (j - k) + k = j
      BY <1>1, <1>2, <2>1
    <3>2. QED
      BY <1>2, <3>1
  <2>4. s[i + k] # "LADDER" /\ a[l + k] \subseteq a[(i + k) - 1]
    BY <2>1, <2>2, <2>3 DEF Outline, Brackets
  <2>5. QED
    BY <1>2, <1>4, <2>1, <2>4
<1>8. QED
  BY <1>2, <1>3, <1>5, <1>6, <1>7 DEF Outline, t, b

\* Outlines that meet make one.
LEMMA RunsCat ==
  ASSUME NEW s, NEW t, NEW G, NEW H, NEW K, Runs(s, G, H), Runs(t, H, K)
  PROVE  Runs(s \o t, G, K)
<1> DEFINE u == s \o t
<1>1. PICK a : Outline(s, a) /\ a[0] \subseteq G /\ H \subseteq a[Len(s)]
  BY DEF Runs
<1>2. PICK b : Outline(t, b) /\ b[0] \subseteq H /\ K \subseteq b[Len(t)]
  BY DEF Runs
<1> DEFINE c == [i \in 0..Len(u) |-> IF i < Len(s) THEN a[i] ELSE b[i - Len(s)]]
<1>3. /\ s \in Seq(Command) /\ t \in Seq(Command) /\ Len(s) \in Nat /\ Len(t) \in Nat
      /\ a \in [0..Len(s) -> SUBSET Fact] /\ b \in [0..Len(t) -> SUBSET Fact]
  BY <1>1, <1>2 DEF Outline
<1>4. /\ u \in Seq(Command) /\ Len(u) = Len(s) + Len(t)
      /\ \A i \in 1..Len(s) : u[i] = s[i]
      /\ \A i \in 1..Len(t) : u[Len(s) + i] = t[i]
  BY <1>3
<1>5. /\ \A i \in 0..(Len(s) - 1) : c[i] = a[i]
      /\ \A i \in 0..Len(t) : c[Len(s) + i] = b[i]
      /\ c[Len(s)] = b[0] /\ b[0] \subseteq a[Len(s)]
  <2>1. \A i \in 0..(Len(s) - 1) : c[i] = a[i]
    BY <1>3, <1>4
  <2>2. ASSUME NEW i \in 0..Len(t) PROVE c[Len(s) + i] = b[i]
    <3>1. Len(s) + i \in 0..Len(u) /\ ~(Len(s) + i < Len(s)) /\ (Len(s) + i) - Len(s) = i
      BY <1>3, <1>4
    <3>2. QED
      BY <3>1
  <2>3. 0 \in 0..Len(t) /\ Len(s) + 0 = Len(s)
    BY <1>3
  <2>4. QED
    BY <1>1, <1>2, <2>1, <2>2, <2>3
<1>6. c \in [0..Len(u) -> SUBSET Fact]
  <2>1. ASSUME NEW i \in 0..Len(u), ~(i < Len(s)) PROVE b[i - Len(s)] \in SUBSET Fact
    <3>1. i - Len(s) \in 0..Len(t)
      BY <1>3, <1>4, <2>1
    <3>2. QED
      BY <1>3, <3>1
  <2>2. ASSUME NEW i \in 0..Len(u), i < Len(s) PROVE a[i] \in SUBSET Fact
    <3>1. i \in 0..Len(s)
      BY <1>3, <2>2
    <3>2. QED
      BY <1>3, <3>1
  <2>3. QED
    BY <2>1, <2>2
<1> HIDE DEF u, c
\* After a command of s no more is written in c than in a, and before it the same.
<1>7. ASSUME NEW i \in 1..Len(s)
      PROVE  u[i] = s[i] /\ c[i] \subseteq a[i] /\ c[i - 1] = a[i - 1]
  <2>1. i - 1 \in 0..(Len(s) - 1)
    BY <1>3
  <2>2. CASE i = Len(s)
    BY <1>4, <1>5, <2>1, <2>2
  <2>3. CASE i # Len(s)
    <3>1. i \in 0..(Len(s) - 1)
      BY <1>3, <2>3
    <3>2. QED
      BY <1>4, <1>5, <2>1, <3>1
  <2>4. QED
    BY <2>2, <2>3
<1>8. ASSUME NEW i \in 1..Len(t)
      PROVE  /\ u[Len(s) + i] = t[i] /\ c[Len(s) + i] = b[i]
             /\ c[(Len(s) + i) - 1] = b[i - 1]
  <2>1. i \in 0..Len(t) /\ i - 1 \in 0..Len(t) /\ (Len(s) + i) - 1 = Len(s) + (i - 1)
    BY <1>3
  <2>2. QED
    BY <1>4, <1>5, <2>1
<1>9. ASSUME NEW i \in 1..Len(u)
      PROVE  i \in 1..Len(s) \/ \E j \in 1..Len(t) : i = Len(s) + j
  <2>1. CASE i <= Len(s)
    BY <1>3, <2>1
  <2>2. CASE ~(i <= Len(s))
    <3>1. i - Len(s) \in 1..Len(t) /\ i = Len(s) + (i - Len(s))
      BY <1>3, <1>4, <2>2
    <3>2. QED
      BY <3>1
  <2>3. QED
    BY <2>1, <2>2
<1>10. Follows(u, c)
  <2> SUFFICES ASSUME NEW i \in 1..Len(u)
               PROVE  /\ Wants(u[i]) \subseteq c[i - 1] /\ c[i] \subseteq Post(u[i], c[i - 1])
                      /\ u[i] = "LADDER" => c[i - 1] \subseteq AtLadder
    BY DEF Follows
  <2>1. CASE i \in 1..Len(s)
    <3>1. /\ Wants(s[i]) \subseteq a[i - 1] /\ a[i] \subseteq Post(s[i], a[i - 1])
          /\ s[i] = "LADDER" => a[i - 1] \subseteq AtLadder
      BY <1>1, <2>1 DEF Outline, Follows
    <3>2. QED
      BY <1>7, <2>1, <3>1
  <2>2. ASSUME NEW j \in 1..Len(t), i = Len(s) + j
        PROVE  /\ Wants(u[i]) \subseteq c[i - 1] /\ c[i] \subseteq Post(u[i], c[i - 1])
               /\ u[i] = "LADDER" => c[i - 1] \subseteq AtLadder
    <3>1. /\ Wants(t[j]) \subseteq b[j - 1] /\ b[j] \subseteq Post(t[j], b[j - 1])
          /\ t[j] = "LADDER" => b[j - 1] \subseteq AtLadder
      BY <1>2 DEF Outline, Follows
    <3>2. QED
      BY <1>8, <2>2, <3>1
  <2>3. QED
    BY <1>9, <2>1, <2>2
<1>11. Returns(u, c)
  <2> SUFFICES ASSUME NEW i \in 1..Len(u), u[i] = "GUARD"
               PROVE  \E k \in (i + 1)..Len(u) :
                         /\ u[k] = "NONE" /\ \A j \in i..(k - 1) : u[j] # "NONE"
                         /\ c[k] \subseteq c[i - 1]
    BY DEF Returns
  <2>1. CASE i \in 1..Len(s)
    <3>1. PICK k \in (i + 1)..Len(s) : /\ s[k] = "NONE" /\ \A j \in i..(k - 1) : s[j] # "NONE"
                                       /\ a[k] \subseteq a[i - 1]
      BY <1>1, <1>7, <2>1 DEF Outline, Returns
    <3>2. k \in 1..Len(s) /\ k \in (i + 1)..Len(u) /\ \A j \in i..(k - 1) : j \in 1..Len(s)
      BY <1>3, <1>4, <2>1
    <3>3. u[k] = "NONE" /\ c[k] \subseteq c[i - 1]
      BY <1>7, <2>1, <3>1, <3>2
    <3>4. \A j \in i..(k - 1) : u[j] # "NONE"
      BY <1>7, <3>1, <3>2
    <3>5. QED
      BY <3>2, <3>3, <3>4
  <2>2. ASSUME NEW h \in 1..Len(t), i = Len(s) + h
        PROVE  \E k \in (i + 1)..Len(u) :
                         /\ u[k] = "NONE" /\ \A j \in i..(k - 1) : u[j] # "NONE"
                         /\ c[k] \subseteq c[i - 1]
    <3>1. PICK k \in (h + 1)..Len(t) : /\ t[k] = "NONE" /\ \A j \in h..(k - 1) : t[j] # "NONE"
                                       /\ b[k] \subseteq b[h - 1]
      BY <1>2, <1>8, <2>2 DEF Outline, Returns
    <3>2. k \in 1..Len(t) /\ Len(s) + k \in (i + 1)..Len(u)
      BY <1>3, <1>4, <2>2
    <3>3. u[Len(s) + k] = "NONE" /\ c[Len(s) + k] \subseteq c[i - 1]
      BY <1>8, <2>2, <3>1, <3>2
    <3>4. ASSUME NEW j \in i..((Len(s) + k) - 1) PROVE u[j] # "NONE"
      <4>1. j - Len(s) \in h..(k - 1) /\ j - Len(s) \in 1..Len(t) /\ Len(s) + (j - Len(s)) = j
        BY <1>3, <2>2, <3>2
      <4>2. QED
        BY <1>8, <3>1, <4>1
    <3>5. QED
      BY <3>2, <3>3, <3>4
  <2>3. QED
    BY <1>9, <2>1, <2>2
\* A bracket that is closed in t is opened there.
<1>12. ASSUME NEW k \in 1..Len(t), t[k] = "END"
       PROVE  \E j \in (Len(s) + 1)..((Len(s) + k) - 1) : u[j] = "TRY"
  <2>1. PICK j \in 1..(k - 1) : t[j] = "TRY"
    BY <1>12 DEF Runs, Closed
  <2>2. j \in 1..Len(t) /\ Len(s) + j \in (Len(s) + 1)..((Len(s) + k) - 1)
    BY <1>3
  <2>3. QED
    BY <1>8, <2>1, <2>2
<1>13. Brackets(u, c)
  <2> SUFFICES ASSUME NEW k \in 1..Len(u), u[k] = "END", NEW i \in 1..k,
                      \A j \in i..(k - 1) : u[j] # "TRY"
               PROVE  u[i] # "LADDER" /\ c[k] \subseteq c[i - 1]
    BY DEF Brackets
  <2>1. CASE k \in 1..Len(s)
    <3>1. i \in 1..Len(s) /\ \A j \in i..(k - 1) : j \in 1..Len(s)
      BY <1>3, <2>1
    <3>2. s[k] = "END" /\ \A j \in i..(k - 1) : s[j] # "TRY"
      BY <1>7, <2>1, <3>1
    <3>3. s[i] # "LADDER" /\ a[k] \subseteq a[i - 1]
      BY <1>1, <2>1, <3>2 DEF Outline, Brackets
    <3>4. QED
      BY <1>7, <2>1, <3>1, <3>3
  <2>2. ASSUME NEW m \in 1..Len(t), k = Len(s) + m
        PROVE  u[i] # "LADDER" /\ c[k] \subseteq c[i - 1]
    <3>1. t[m] = "END"
      BY <1>8, <2>2
    <3>2. i > Len(s)
      <4>1. PICK j \in (Len(s) + 1)..((Len(s) + m) - 1) : u[j] = "TRY"
        BY <1>12, <3>1
      <4>2. ~(j \in i..(k - 1))
        BY <4>1
      <4>3. QED
        BY <1>3, <2>2, <4>2
    <3>3. i - Len(s) \in 1..m /\ i - Len(s) \in 1..Len(t) /\ Len(s) + (i - Len(s)) = i
      BY <1>3, <2>2, <3>2
    <3>4. ASSUME NEW j \in (i - Len(s))..(m - 1) PROVE t[j] # "TRY"
      <4>1. j \in 1..Len(t) /\ Len(s) + j \in i..(k - 1)
        BY <1>3, <2>2, <3>3
      <4>2. QED
        BY <1>8, <4>1
    <3>5. t[i - Len(s)] # "LADDER" /\ b[m] \subseteq b[(i - Len(s)) - 1]
      BY <1>2, <3>1, <3>3, <3>4 DEF Outline, Brackets
    <3>6. u[i] = t[i - Len(s)] /\ c[i - 1] = b[(i - Len(s)) - 1] /\ c[k] = b[m]
      BY <1>8, <2>2, <3>3
    <3>7. QED
      BY <3>5, <3>6
  <2>3. QED
    BY <1>9, <2>1, <2>2
<1>14. Closed(u)
  <2> SUFFICES ASSUME NEW k \in 1..Len(u), u[k] = "END"
               PROVE  \E j \in 1..(k - 1) : u[j] = "TRY"
    BY DEF Closed
  <2>1. CASE k \in 1..Len(s)
    <3>1. s[k] = "END"
      BY <1>7, <2>1
    <3>2. PICK j \in 1..(k - 1) : s[j] = "TRY"
      BY <2>1, <3>1 DEF Runs, Closed
    <3>3. j \in 1..Len(s)
      BY <1>3, <2>1
    <3>4. QED
      BY <1>7, <3>2, <3>3
  <2>2. ASSUME NEW m \in 1..Len(t), k = Len(s) + m
        PROVE  \E j \in 1..(k - 1) : u[j] = "TRY"
    <3>1. t[m] = "END"
      BY <1>8, <2>2
    <3>2. PICK j \in (Len(s) + 1)..((Len(s) + m) - 1) : u[j] = "TRY"
      BY <1>12, <3>1
    <3>3. j \in 1..(k - 1)
      BY <1>3, <2>2
    <3>4. QED
      BY <3>2, <3>3
  <2>3. QED
    BY <1>9, <2>1, <2>2
<1>15. c[0] \subseteq G
  <2>1. CASE Len(s) = 0
    BY <1>1, <1>5, <2>1
  <2>2. CASE Len(s) # 0
    <3>1. 0 \in 0..(Len(s) - 1)
      BY <1>3, <2>2
    <3>2. QED
      BY <1>1, <1>5, <3>1
  <2>3. QED
    BY <2>1, <2>2
<1>16. K \subseteq c[Len(u)]
  <2>1. Len(t) \in 0..Len(t)
    BY <1>3
  <2>2. QED
    BY <1>2, <1>4, <1>5, <2>1
<1>17. Outline(u, c)
  BY <1>4, <1>6, <1>10, <1>11, <1>13 DEF Outline
<1>18. Runs(u, G, K)
  BY <1>14, <1>15, <1>16, <1>17 DEF Runs
<1>19. QED
  BY <1>18 DEF u

LEMMA RunsOne ==
  ASSUME NEW c \in Command \ {"GUARD", "END"}, NEW G \in SUBSET Fact, NEW H \in SUBSET Fact,
         Wants(c) \subseteq G, H \subseteq Post(c, G),
         c = "LADDER" => G \subseteq AtLadder
  PROVE  Runs(<<c>>, G, H)
<1> DEFINE s == <<c>>
           a == [i \in 0..1 |-> IF i = 0 THEN G ELSE H]
<1>1. s \in Seq(Command) /\ Len(s) = 1 /\ s[1] = c
  OBVIOUS
<1>2. a[0] = G /\ a[1] = H /\ a \in [0..1 -> SUBSET Fact]
  OBVIOUS
<1> HIDE DEF s, a
<1>3. \A i \in 1..Len(s) : i = 1 /\ i - 1 = 0
  BY <1>1
<1>4. Follows(s, a)
  BY <1>1, <1>2, <1>3 DEF Follows
<1>5. Returns(s, a) /\ Brackets(s, a) /\ Closed(s)
  BY <1>1, <1>3 DEF Returns, Brackets, Closed
<1>6. Runs(s, G, H)
  BY <1>1, <1>2, <1>4, <1>5 DEF Runs, Outline
<1>7. QED
  BY <1>6 DEF s

LEMMA RunsThen ==
  ASSUME NEW s, NEW G, NEW H \in SUBSET Fact, NEW c \in Command \ {"GUARD", "END", "LADDER"},
         NEW K \in SUBSET Fact, Runs(s, G, H), Wants(c) \subseteq H, K \subseteq Post(c, H)
  PROVE  Runs(Append(s, c), G, K)
<1>1. Runs(<<c>>, H, K)
  BY RunsOne
<1>2. s \in Seq(Command)
  BY DEF Runs, Outline
<1>3. Append(s, c) = s \o <<c>>
  BY <1>2
<1>4. QED
  BY <1>1, <1>3, RunsCat

\* What no command of s spoils is known all along.
LEMMA RunsConst ==
  ASSUME NEW C \in SUBSET (Command \ {"GUARD", "LADDER"}), NEW s \in Seq(C), Closed(s),
         NEW G \in SUBSET Fact, \A c \in C : Wants(c) \subseteq G /\ G \subseteq Post(c, G)
  PROVE  Runs(s, G, G)
<1> DEFINE a == [i \in 0..Len(s) |-> G]
<1>1. s \in Seq(Command) /\ Len(s) \in Nat /\ \A i \in 1..Len(s) : s[i] \in C
  OBVIOUS
<1>2. a \in [0..Len(s) -> SUBSET Fact] /\ \A i \in 0..Len(s) : a[i] = G
  OBVIOUS
<1> HIDE DEF a
<1>3. \A i \in 1..Len(s) : i \in 0..Len(s) /\ i - 1 \in 0..Len(s)
  BY <1>1
<1>4. Follows(s, a)
  BY <1>1, <1>2, <1>3 DEF Follows
<1>5. Returns(s, a)
  BY <1>1 DEF Returns
<1>6. Brackets(s, a)
  <2> SUFFICES ASSUME NEW k \in 1..Len(s), NEW i \in 1..k
               PROVE  s[i] # "LADDER" /\ a[k] \subseteq a[i - 1]
    BY DEF Brackets
  <2>1. i \in 1..Len(s)
    BY <1>1
  <2>2. QED
    BY <1>1, <1>2, <1>3, <2>1
<1>7. 0 \in 0..Len(s) /\ Len(s) \in 0..Len(s)
  BY <1>1
<1>8. QED
  BY <1>1, <1>2, <1>4, <1>5, <1>6, <1>7 DEF Runs, Outline

LEMMA RunsNot ==
  ASSUME NEW G \in SUBSET Fact
  PROVE  Runs(<<>>, G, G)
<1>1. {} \in SUBSET (Command \ {"GUARD", "LADDER"}) /\ <<>> \in Seq({}) /\ Closed(<<>>)
  BY DEF Closed
<1>2. \A c \in {} : Wants(c) \subseteq G /\ G \subseteq Post(c, G)
  OBVIOUS
<1>3. QED
  BY <1>1, <1>2, RunsConst

LEMMA RunsWeaker ==
  ASSUME NEW s, NEW F, NEW G, NEW H, NEW K, Runs(s, G, H), G \subseteq F, K \subseteq H
  PROVE  Runs(s, F, K)
BY DEF Runs


\* A command that is sent where G is known, and leaves H.
Step(c, G, H) ==
  /\ c \in Command \ {"GUARD", "END", "LADDER"} /\ G \in SUBSET Fact /\ H \in SUBSET Fact
  /\ Wants(c) \subseteq G /\ H \subseteq Post(c, G)

LEMMA RunsTwo ==
  ASSUME NEW b, NEW c, NEW G, NEW H, NEW K, Step(b, G, H), Step(c, H, K)
  PROVE  Runs(<<b, c>>, G, K)
<1>1. Runs(<<b>>, G, H)
  BY RunsOne DEF Step
<1>2. Runs(Append(<<b>>, c), G, K)
  BY <1>1, RunsThen DEF Step
<1>3. <<b, c>> = Append(<<b>>, c)
  OBVIOUS
<1>4. QED
  BY <1>2, <1>3

LEMMA RunsFour ==
  ASSUME NEW b, NEW c, NEW d, NEW e, NEW G, NEW H, NEW K, NEW L, NEW M,
         Step(b, G, H), Step(c, H, K), Step(d, K, L), Step(e, L, M)
  PROVE  Runs(<<b, c, d, e>>, G, M)
<1>1. Runs(<<b, c>>, G, K) /\ Runs(<<d, e>>, K, M)
  BY RunsTwo
<1>2. <<b, c, d, e>> = <<b, c>> \o <<d, e>>
  OBVIOUS
<1>3. QED
  BY <1>1, <1>2, RunsCat

LEMMA RunsEight ==
  ASSUME NEW b, NEW c, NEW d, NEW e, NEW f, NEW g, NEW h, NEW i,
         NEW F, NEW G, NEW H, NEW K, NEW L, NEW M, NEW O, NEW P, NEW Q,
         Step(b, F, G), Step(c, G, H), Step(d, H, K), Step(e, K, L),
         Step(f, L, M), Step(g, M, O), Step(h, O, P), Step(i, P, Q)
  PROVE  Runs(<<b, c, d, e, f, g, h, i>>, F, Q)
<1>1. Runs(<<b, c, d, e>>, F, L) /\ Runs(<<f, g, h, i>>, L, Q)
  BY RunsFour
<1>2. <<b, c, d, e, f, g, h, i>> = <<b, c, d, e>> \o <<f, g, h, i>>
  OBVIOUS
<1>3. QED
  BY <1>1, <1>2, RunsCat

(* The drivers. *)

LEMMA ConfigureRuns ==
  ASSUME NEW F \in SUBSET (Fact \ {"smp", "trace"})
  PROVE  Runs(<<"CONTS", "CLRW_TRA", "AUNITS_DBM", "RB", "RL", "POS", "SP_0", "ST">>,
              F, F \cup {"sweep", "cw", "units", "rbw", "pos", "span", "st"})
<1> DEFINE F1 == F \cup {"sweep"}
           F2 == F1 \cup {"cw"}
           F3 == F2 \cup {"units"}
           F4 == F3 \cup {"rbw"}
           F5 == F4 \cup {"pos"}
           F6 == F5 \cup {"span"}
           F7 == F6 \cup {"st"}
<1>1. /\ Step("CONTS", F, F1) /\ Step("CLRW_TRA", F1, F2) /\ Step("AUNITS_DBM", F2, F3)
      /\ Step("RB", F3, F4)
  BY DEF Step, Command, Mild, Fact, Wants, Post, Spoils, Gives, Changes
<1>2. /\ Step("RL", F4, F4) /\ Step("POS", F4, F5) /\ Step("SP_0", F5, F6)
      /\ Step("ST", F6, F7)
  BY DEF Step, Command, Mild, Fact, Wants, Post, Spoils, Gives, Changes
<1>3. F7 = F \cup {"sweep", "cw", "units", "rbw", "pos", "span", "st"}
  OBVIOUS
<1> HIDE DEF F1, F2, F3, F4, F5, F6, F7
<1>4. QED
  BY <1>1, <1>2, <1>3, RunsEight

LEMMA PeakPreselectorRuns ==
  ASSUME NEW q \in High, NEW F \in SUBSET (Fact \ {"trace", "span", "rbw"}),
         {"on", "tf", "unread"} \subseteq F
  PROVE  Runs(PeakPreselector(q), F, F)
<1> DEFINE s == <<"TRY", "GUARD", "END", "MKCF", "TS", "PP", "TS", "TRY", "PSDAC?", "END",
                  "NONE">>
           P == F \cup {"peaked"}
           a == [i \in 0..11 |-> IF i \in 6..10 THEN P ELSE F]
<1>1. Runs(<<"CF", "SP", "RB_COARSE", "SWEEP">>, F, F)
  <2>1. Step("CF", F, F) /\ Step("SP", F, F) /\ Step("RB_COARSE", F, F) /\ Step("SWEEP", F, F)
    BY DEF Step, Command, Mild, Fact, Wants, Post, Spoils, Gives, Changes
  <2>2. QED
    BY <2>1, RunsFour
<1>2. /\ s \in Seq(Command) /\ Len(s) = 11
      /\ s[1] = "TRY" /\ s[2] = "GUARD" /\ s[3] = "END" /\ s[4] = "MKCF" /\ s[5] = "TS"
      /\ s[6] = "PP" /\ s[7] = "TS" /\ s[8] = "TRY" /\ s[9] = "PSDAC?" /\ s[10] = "END"
      /\ s[11] = "NONE"
  BY DEF Command, Mild
<1>3. /\ a[0] = F /\ a[1] = F /\ a[2] = F /\ a[3] = F /\ a[4] = F /\ a[5] = F
      /\ a[6] = P /\ a[7] = P /\ a[8] = P /\ a[9] = P /\ a[10] = P /\ a[11] = F
  OBVIOUS
<1>4. a \in [0..11 -> SUBSET Fact]
  <2>1. P \in SUBSET Fact
    BY DEF Fact
  <2>2. QED
    BY <2>1
<1> HIDE DEF s, a
<1>5. \A i \in 1..Len(s) : i \in {1, 2, 3, 4, 5, 6, 7, 8, 9, 10, 11}
  BY <1>2
<1>6. Follows(s, a)
  <2>1. /\ Wants("PP") \subseteq F /\ P \subseteq Post("PP", F)
        /\ Wants("PSDAC?") \subseteq P /\ P \subseteq Post("PSDAC?", P)
        /\ \A c \in {"TRY", "GUARD", "END", "MKCF", "TS"} :
             Wants(c) \subseteq F /\ F \subseteq Post(c, F)
    BY DEF Mild, Wants, Post, Spoils, Gives, Changes
  <2>2. /\ F \subseteq Post("NONE", P)
        /\ \A c \in {"TS", "TRY", "END"} : P \subseteq Post(c, P)
        /\ \A c \in {"TS", "TRY", "END", "NONE"} : Wants(c) \subseteq P
    BY DEF Mild, Wants, Post, Spoils, Gives, Changes
  <2> HIDE DEF P
  <2> SUFFICES ASSUME NEW i \in 1..Len(s)
               PROVE  /\ Wants(s[i]) \subseteq a[i - 1] /\ a[i] \subseteq Post(s[i], a[i - 1])
                      /\ s[i] # "LADDER"
    BY DEF Follows
  <2>3. CASE i \in {1, 2, 3, 4, 5}
    BY <1>2, <1>3, <2>1, <2>3
  <2>4. CASE i = 6
    BY <1>2, <1>3, <2>1, <2>4
  <2>5. CASE i \in {7, 8, 9, 10, 11}
    BY <1>2, <1>3, <2>1, <2>2, <2>5
  <2>6. QED
    BY <1>5, <2>3, <2>4, <2>5
<1>7. Returns(s, a)
  BY <1>2, <1>3, <1>5 DEF Returns
<1>8. Brackets(s, a)
  BY <1>2, <1>3, <1>5 DEF Brackets
<1>9. Closed(s)
  BY <1>2, <1>5 DEF Closed
<1>10. Runs(s, F, F)
  BY <1>2, <1>3, <1>4, <1>6, <1>7, <1>8, <1>9 DEF Runs, Outline
<1>11. PeakPreselector(q) = <<"CF", "SP", "RB_COARSE", "SWEEP">> \o s
  BY DEF PeakPreselector, s
<1>12. QED
  BY <1>1, <1>10, <1>11, RunsCat

LEMMA SetSourceRuns ==
  ASSUME NEW F \in SUBSET (Fact \ {"trace"})
  PROVE  Runs(SetSource, F, F \cup {"level", "tf"})
<1> DEFINE F1 == F \cup {"level"}
           F2 == F1 \cup {"tf"}
<1>1. Step("L1", F, F1) /\ Step("CF1", F1, F2)
  BY DEF Step, Command, Mild, Fact, Wants, Post, Spoils, Gives, Changes
<1>2. QED
  BY <1>1, RunsTwo DEF SetSource

\* configure() as armed drivers run it, and followed by what plans the attenuation.
LEMMA ArmedConfigureRuns ==
  ASSUME NEW F \in SUBSET (Fact \ {"smp", "trace"}), armed, "direct" \in F
  PROVE  Runs(Configure("POS", "RB"), F,
              F \cup {"sweep", "cw", "units", "rbw", "pos", "span", "st", "at"})
<1> DEFINE G == F \cup {"sweep", "cw", "units", "rbw", "pos", "span", "st"}
           H == F \cup {"sweep", "cw", "units", "rbw", "pos", "span", "st", "at"}
<1>1. Step("AT_FLOOR", G, H)
  BY DEF Step, Command, Mild, Fact, Wants, Post, Spoils, Gives, Changes
<1>2. Runs(<<"AT_FLOOR">>, G, H)
  BY <1>1, RunsOne DEF Step
<1>3. QED
  BY <1>2, ConfigureRuns, RunsCat DEF Configure

LEMMA ConfigureAnalyzerRuns ==
  ASSUME NEW F \in SUBSET (Fact \ {"smp", "trace"}), armed \in BOOLEAN,
         (IF armed THEN "direct" ELSE "padded") \in F
  PROVE  Runs(ConfigureAnalyzer, F,
              F \cup {"sweep", "cw", "units", "rbw", "pos", "span", "st", "at"})
<1> DEFINE G == F \cup {"sweep", "cw", "units", "rbw", "pos", "span", "st"}
           H == F \cup {"sweep", "cw", "units", "rbw", "pos", "span", "st", "at"}
<1>1. CASE armed
  <2>1. Step("AT_FLOOR", H, H)
    BY <1>1 DEF Step, Command, Mild, Fact, Wants, Post, Spoils, Gives, Changes
  <2>2. Runs(SetAttenuation, H, H)
    BY <1>1, <2>1, RunsOne DEF Step, SetAttenuation
  <2>3. Runs(Configure("POS", "RB"), F, H)
    BY <1>1, ArmedConfigureRuns
  <2>4. QED
    BY <2>2, <2>3, RunsCat DEF ConfigureAnalyzer
<1>2. CASE ~armed
  <2>1. Step("AT_PLAN", G, H)
    BY <1>2 DEF Step, Command, Mild, Fact, Wants, Post, Spoils, Gives, Changes
  <2>2. Runs(SetAttenuation, G, H)
    BY <1>2, <2>1, RunsOne DEF Step, SetAttenuation
  <2>3. G \in SUBSET Fact
    BY DEF Fact
  <2>4. Runs(Configure("POS", "RB"), F, G)
    BY <1>2, <2>3, ConfigureRuns, RunsNot, RunsCat DEF Configure
  <2>5. QED
    BY <2>2, <2>4, RunsCat DEF ConfigureAnalyzer
<1>3. QED
  BY <1>1, <1>2

LEMMA TuneRuns ==
  ASSUME NEW F \in SUBSET (Fact \ {"trace"})
  PROVE  Runs(<<"CF", "CONTS">>, F, F \cup {"f", "sweep"})
<1> DEFINE F1 == F \cup {"f"}
           F2 == F \cup {"f", "sweep"}
<1>1. Step("CF", F, F1) /\ Step("CONTS", F1, F2)
  BY DEF Step, Command, Mild, Fact, Wants, Post, Spoils, Gives, Changes
<1>2. QED
  BY <1>1, RunsTwo

LEMMA MeasurePeakRuns ==
  ASSUME NEW F \in SUBSET (Fact \ {"trace"}), NEW G, NEW H, NEW kind,
         Step("SWEEP", F \cup {"f", "sweep"}, G), Step("SWEEP", G, G), Step(kind, G, H)
  PROVE  Runs(MeasurePeak(kind), F, H)
<1>1. Runs(<<"CF", "CONTS">>, F, F \cup {"f", "sweep"})
  BY TuneRuns
<1>2. Runs(TwoSweeps, F \cup {"f", "sweep"}, G)
  BY RunsTwo DEF TwoSweeps
<1>3. Runs(<<kind>>, G, H)
  BY RunsOne DEF Step
<1>4. QED
  BY <1>1, <1>2, <1>3, RunsCat DEF MeasurePeak

\* A reading that nobody relies on.
LEMMA ProbeRuns ==
  ASSUME NEW F \in SUBSET (Fact \ {"trace"}), NEW kind \in {"probe", "ambient"}
  PROVE  Runs(MeasurePeak(kind), F, F)
<1> DEFINE F2 == F \cup {"f", "sweep"}
<1>1. Step("SWEEP", F2, F2) /\ Step(kind, F2, F2)
  BY DEF Step, Command, Mild, Fact, Wants, Post, Spoils, Gives, Changes
<1>2. Runs(MeasurePeak(kind), F, F2)
  BY <1>1, MeasurePeakRuns
<1>3. QED
  BY <1>2, RunsWeaker

LEMMA ProbeFloorRuns ==
  ASSUME NEW F \in SUBSET (Fact \ {"trace", "smp", "pos"}), NEW kind \in {"probe", "ambient"}
  PROVE  Runs(MeasureFloor(kind), F, F)
<1>1. Step("SMP", F, F) /\ Step("POS", F, F)
  BY DEF Step, Command, Mild, Fact, Wants, Post, Spoils, Gives, Changes
<1>2. Runs(<<"SMP">>, F, F) /\ Runs(<<"POS">>, F, F) /\ Runs(MeasurePeak(kind), F, F)
  BY <1>1, RunsOne, ProbeRuns DEF Step
<1>3. QED
  BY <1>2, RunsCat DEF MeasureFloor

LEMMA FloorRuns ==
  ASSUME NEW F \in SUBSET (Fact \ {"trace", "smp", "pos"}),
         {"tf", "span", "rbw", "cw", "units", "at", "level", "st", "off"} \subseteq F
  PROVE  Runs(MeasureFloor("floor"), F, F \cup {"f", "sweep", "pos"})
<1> DEFINE S == F \cup {"smp"}
           T == F \cup {"smp", "f", "sweep", "trace"}
           U == F \cup {"f", "sweep", "pos"}
<1>1. Step("SMP", F, S)
  BY DEF Step, Command, Mild, Fact, Wants, Post, Spoils, Gives, Changes
<1>2. Step("SWEEP", S \cup {"f", "sweep"}, T)
  BY DEF Step, Command, Mild, Fact, Wants, Post, Spoils, Gives, Changes
<1>3. Step("SWEEP", T, T)
  BY DEF Step, Command, Mild, Fact, Wants, Post, Spoils, Gives, Changes
<1>4. Step("floor", T, T)
  BY DEF Step, Command, Mild, Fact, Wants, Clean, Post, Spoils, Gives, Changes
<1>5. Step("POS", T, U)
  BY DEF Step, Command, Mild, Fact, Wants, Post, Spoils, Gives, Changes
<1>6. S \in SUBSET (Fact \ {"trace"})
  BY DEF Fact
<1> HIDE DEF S, T, U
<1>7. Runs(MeasurePeak("floor"), S, T)
  BY <1>2, <1>3, <1>4, <1>6, MeasurePeakRuns
<1>8. Runs(<<"SMP">>, F, S) /\ Runs(<<"POS">>, T, U)
  BY <1>1, <1>5, RunsOne DEF Step
<1>9. Runs(MeasureFloor("floor"), F, U)
  BY <1>7, <1>8, RunsCat DEF MeasureFloor
<1>10. QED
  BY <1>9 DEF U

\* A tone, of the reference or to be compared with it.
LEMMA ToneRuns ==
  ASSUME NEW F \in SUBSET (Fact \ {"trace"}),
         {"tf", "span", "rbw", "cw", "units", "at", "level", "st", "pos", "on"} \subseteq F,
         NEW kind \in {"tone", "again"},
         kind = "again" => {"peaked", "comparing"} \subseteq F
  PROVE  Runs(MeasurePeak(kind), F,
              IF kind = "tone" THEN (F \ {"unread"}) \cup {"taken"} ELSE F)
<1> DEFINE T == F \cup {"f", "sweep", "trace"}
           H == IF kind = "tone" THEN (F \ {"unread"}) \cup {"taken"} ELSE F
<1>1. Step("SWEEP", F \cup {"f", "sweep"}, T)
  BY DEF Step, Command, Mild, Fact, Wants, Post, Spoils, Gives, Changes
<1>2. Step("SWEEP", T, T)
  BY DEF Step, Command, Mild, Fact, Wants, Post, Spoils, Gives, Changes
<1>3. CASE kind = "tone"
  <2>1. Step(kind, T, H)
    BY <1>3 DEF Step, Command, Mild, Fact, Wants, Clean, Post, Spoils, Gives, Changes
  <2>2. QED
    BY <1>1, <1>2, <2>1, MeasurePeakRuns
<1>4. CASE kind = "again"
  <2>1. Step(kind, T, H)
    BY <1>4 DEF Step, Command, Mild, Fact, Wants, Clean, Post, Spoils, Gives, Changes
  <2>2. QED
    BY <1>1, <1>2, <2>1, MeasurePeakRuns
<1>5. QED
  BY <1>3, <1>4

(* The programs, point by point. *)

LEMMA TryingRuns ==
  ASSUME NEW C \in SUBSET (Command \ {"GUARD", "LADDER"}), {"TRY", "END"} \subseteq C,
         NEW steps \in Seq(C), NEW G \in SUBSET Fact,
         \A c \in C : Wants(c) \subseteq G /\ G \subseteq Post(c, G)
  PROVE  Runs(Trying(steps), G, G)
<1> DEFINE s == Trying(steps)
<1>1. /\ s \in Seq(C) /\ Len(s) = Len(steps) + 2 /\ s[1] = "TRY" /\ Len(steps) \in Nat
  BY DEF Trying
<1> HIDE DEF s
<1>2. Closed(s)
  <2> SUFFICES ASSUME NEW k \in 1..Len(s), s[k] = "END"
               PROVE  \E j \in 1..(k - 1) : s[j] = "TRY"
    BY DEF Closed
  <2>1. k # 1
    BY <1>1
  <2>2. 1 \in 1..(k - 1)
    BY <1>1, <2>1
  <2>3. QED
    BY <1>1, <2>2
<1>3. Runs(s, G, G)
  BY <1>1, <1>2, RunsConst
<1>4. QED
  BY <1>3 DEF s

\* A rung leaves what it found, and a tone.
LEMMA RungRuns ==
  ASSUME NEW q \in Point, NEW peak \in BOOLEAN, armed \in BOOLEAN,
         NEW F \in SUBSET (AtLadder \cup {"unread"}),
         {"tf", "level", IF armed THEN "direct" ELSE "padded"} \subseteq F,
         peak => "unread" \in F
  PROVE  Runs(Rung(q, peak), F, (F \ {"unread"}) \cup {"taken"})
<1> DEFINE C == F \cup {"sweep", "cw", "units", "rbw", "pos", "span", "st", "at"}
           C0 == (C \ {"pos"}) \cup {"off"}
           C1 == C0 \cup {"f", "sweep", "pos"}
           C2 == C \cup {"on"}
           V == C2 \ {"span", "rbw"}
           H == (F \ {"unread"}) \cup {"taken"}
<1>1. F \in SUBSET (Fact \ {"smp", "trace"})
  BY DEF Fact, AtLadder
<1>2. Runs(ConfigureAnalyzer, F, C)
  BY <1>1, ConfigureAnalyzerRuns
<1>3. Runs(<<"RF0">>, C, C0)
  <2>1. Step("RF0", C, C0)
    BY <1>1 DEF AtLadder, Step, Command, Mild, Fact, Wants, Post, Spoils, Gives, Changes
  <2>2. QED
    BY <2>1, RunsOne DEF Step
<1>4. Runs(MeasureFloor("floor"), C0, C1)
  <2>1. C0 \in SUBSET (Fact \ {"trace", "smp", "pos"})
    BY <1>1 DEF Fact
  <2>2. {"tf", "span", "rbw", "cw", "units", "at", "level", "st", "off"} \subseteq C0
    OBVIOUS
  <2>3. QED
    BY <2>1, <2>2, FloorRuns
<1>5. Runs(<<"RF1">>, C1, C2)
  <2>1. Step("RF1", C1, C2)
    BY <1>1 DEF AtLadder, Step, Command, Mild, Fact, Wants, Post, Spoils, Gives, Changes
  <2>2. QED
    BY <2>1, RunsOne DEF Step
<1>6. /\ C2 \in SUBSET (Fact \ {"trace", "smp"})
      /\ V \in SUBSET (Fact \ {"trace", "span", "rbw", "smp"})
  BY <1>1 DEF Fact
<1>7. Runs(AwaitSettled, C2, C2)
  <2>1. Step("OSB", C2, C2)
    BY <1>6 DEF Step, Command, Mild, Wants, Post, Spoils, Gives, Changes
  <2>2. QED
    BY <2>1, RunsOne DEF Step, AwaitSettled
<1>8. Runs(IF peak /\ q \in High THEN PeakPreselector(q) \o ConfigureAnalyzer ELSE <<>>, C2, C2)
  <2>1. CASE peak /\ q \in High
    <3>1. Runs(PeakPreselector(q), V, V)
      BY <1>6, <2>1, PeakPreselectorRuns
    <3>2. Runs(PeakPreselector(q), C2, V)
      BY <3>1, RunsWeaker
    <3>3. Runs(ConfigureAnalyzer, V,
               V \cup {"sweep", "cw", "units", "rbw", "pos", "span", "st", "at"})
      BY <1>6, ConfigureAnalyzerRuns
    <3>4. C2 = V \cup {"sweep", "cw", "units", "rbw", "pos", "span", "st", "at"}
      OBVIOUS
    <3>5. QED
      BY <2>1, <3>2, <3>3, <3>4, RunsCat
  <2>2. CASE ~(peak /\ q \in High)
    BY <1>6, <2>2, RunsNot
  <2>3. QED
    BY <2>1, <2>2
<1>9. Runs(MeasurePeak("tone"), C2, (C2 \ {"unread"}) \cup {"taken"})
  BY <1>6, ToneRuns
<1>10. Runs(<<"RF0">>, (C2 \ {"unread"}) \cup {"taken"}, H)
  <2>1. Step("RF0", (C2 \ {"unread"}) \cup {"taken"}, H)
    BY <1>1 DEF AtLadder, Step, Command, Mild, Fact, Wants, Post, Spoils, Gives, Changes
  <2>2. QED
    BY <2>1, RunsOne DEF Step
<1> HIDE DEF C, C0, C1, C2, V, H
<1>11. Runs(Rung(q, peak), F, H)
  BY <1>2, <1>3, <1>4, <1>5, <1>7, <1>8, <1>9, <1>10, RunsCat DEF Rung
<1>12. QED
  BY <1>11 DEF H

LEMMA ReferenceRuns ==
  ASSUME NEW q \in Point, armed \in BOOLEAN
  PROVE  Runs(AcquireReference(q),
              {"unread", "taking", IF armed THEN "direct" ELSE "padded"}, {})
<1> DEFINE F == {"unread", "taking", IF armed THEN "direct" ELSE "padded"}
           G == F \cup {"level", "tf"}
           H == (G \ {"unread"}) \cup {"taken"}
<1>1. F \in SUBSET (Fact \ {"trace"}) /\ G \in SUBSET (AtLadder \cup {"unread"})
      /\ H \in SUBSET AtLadder /\ H \in SUBSET Fact
  BY DEF Fact, AtLadder
<1>2. Runs(SetSource, F, G)
  BY <1>1, SetSourceRuns
<1>3. Runs(Rung(q, TRUE), G, H)
  BY <1>1, RungRuns
<1>4. Runs(<<"LADDER">>, H, H)
  BY <1>1, RunsOne DEF AtLadder, Command, Mild, Wants, Post, Spoils, Gives, Changes
<1>5. Runs(Trying(MeasureFloor("ambient")), H, H)
  <2> DEFINE S == {"TRY", "END", "SMP", "CF", "CONTS", "SWEEP", "ambient", "POS"}
  <2>1. S \in SUBSET (Command \ {"GUARD", "LADDER"})
    BY DEF Command, Mild
  <2>2. MeasureFloor("ambient") \in Seq(S)
    BY DEF MeasureFloor, MeasurePeak, TwoSweeps
  <2>a. \A c \in S : Wants(c) = {}
    BY DEF Mild, Wants
  <2>b. \A c \in S : Spoils(c) \subseteq {"trace", "smp", "pos"}
    BY DEF Spoils, Changes
  <2> HIDE DEF S, H
  <2>3. \A c \in S : Wants(c) \subseteq H /\ H \subseteq Post(c, H)
    BY <1>1, <2>a, <2>b DEF Post, AtLadder
  <2>4. QED
    BY <1>1, <2>1, <2>2, <2>3, TryingRuns DEF S
<1>6. Runs(<<"ROW">>, H, {})
  BY <1>1, RunsOne DEF Command, Mild, Wants, Post, Spoils, Gives, Changes
<1>7. q # 0
  BY DEF Point
<1> HIDE DEF F, G, H
<1>8. Runs(AcquireReference(q), F, {})
  BY <1>2, <1>3, <1>4, <1>5, <1>6, <1>7, RunsCat DEF AcquireReference
<1>9. QED
  BY <1>8 DEF F

\* Both passes that compare: what restores the preselector is left out for a row that
\* recorded no DAC, and then "peaked" asks for nothing.
LEMMA ReadBackRuns ==
  ASSUME NEW q \in Point, armed \in BOOLEAN
  PROVE  Runs(ReadBack(q),
              {"comparing", IF armed THEN "direct" ELSE "padded"}
                \cup (IF rows[q].dac = "none" THEN {"peaked"} ELSE {}), {})
<1> DEFINE D == {"comparing", IF armed THEN "direct" ELSE "padded"}
           Y == IF rows[q].dac = "none" THEN {"peaked"} ELSE {}
           F == D \cup Y
           C == F \cup {"sweep", "cw", "units", "rbw", "pos", "span", "st", "at"}
           S == C \cup {"level", "tf"}
           C0 == (S \ {"pos"}) \cup {"off"}
           C1 == C0 \cup {"f", "sweep", "pos"}
           C2 == S \cup {"on"}
           T == C2 \cup {"peaked"}
<1>1. D \in SUBSET {"comparing", "direct", "padded"} /\ Y \in SUBSET {"peaked"}
  OBVIOUS
<1>2. /\ F \in SUBSET (Fact \ {"trace", "smp"}) /\ C \in SUBSET (Fact \ {"trace"})
      /\ C0 \in SUBSET (Fact \ {"trace", "smp", "pos"}) /\ C2 \in SUBSET (Fact \ {"trace"})
      /\ T \in SUBSET (Fact \ {"trace"})
  BY <1>1 DEF Fact
<1>3. Runs(ConfigureAnalyzer, F, C)
  BY <1>2, ConfigureAnalyzerRuns
<1>4. Runs(SetSource, C, S)
  BY <1>2, SetSourceRuns
<1> HIDE DEF D, Y
<1>5. Runs(<<"RF0">>, S, C0)
  <2>1. Step("RF0", S, C0)
    BY <1>1 DEF Step, Command, Mild, Fact, Wants, Post, Spoils, Gives, Changes
  <2>2. QED
    BY <2>1, RunsOne DEF Step
<1>6. Runs(MeasureFloor("floor"), C0, C1)
  <2>1. {"tf", "span", "rbw", "cw", "units", "at", "level", "st", "off"} \subseteq C0
    OBVIOUS
  <2>2. QED
    BY <1>2, <2>1, FloorRuns
<1>7. Runs(<<"RF1">>, C1, C2)
  <2>1. Step("RF1", C1, C2)
    BY <1>1 DEF Step, Command, Mild, Fact, Wants, Post, Spoils, Gives, Changes
  <2>2. QED
    BY <2>1, RunsOne DEF Step
<1>8. Runs(AwaitSettled, C2, C2)
  <2>1. Step("OSB", C2, C2)
    BY <1>2 DEF Step, Command, Mild, Wants, Post, Spoils, Gives, Changes
  <2>2. QED
    BY <2>1, RunsOne DEF Step, AwaitSettled
<1>9. Runs(IF rows[q].dac = "none" THEN <<>> ELSE SetPreselectorDac, C2, T)
  <2>1. CASE rows[q].dac = "none"
    <3>1. C2 = T
      BY <2>1 DEF Y
    <3>2. QED
      BY <1>2, <2>1, <3>1, RunsNot
  <2>2. CASE rows[q].dac # "none"
    <3>1. Step("PSDAC", C2, T) /\ Step("TS", T, T)
      BY <1>1 DEF Step, Command, Mild, Fact, Wants, Post, Spoils, Gives, Changes
    <3>2. QED
      BY <2>2, <3>1, RunsTwo DEF SetPreselectorDac
  <2>3. QED
    BY <2>1, <2>2
<1>10. Runs(MeasurePeak("again"), T, T)
  <2>1. {"tf", "span", "rbw", "cw", "units", "at", "level", "st", "pos", "on"} \subseteq T
    OBVIOUS
  <2>2. {"peaked", "comparing"} \subseteq T
    BY DEF D
  <2>3. QED
    BY <1>2, <2>1, <2>2, ToneRuns
<1>11. Runs(<<"RF0">>, T, {})
  <2>1. Step("RF0", T, {})
    BY <1>2 DEF Step, Command, Mild, Wants, Post, Spoils, Gives, Changes
  <2>2. QED
    BY <2>1, RunsOne DEF Step
<1>12. q # 0
  BY DEF Point
<1> HIDE DEF F, C, S, C0, C1, C2, T
<1>13. Runs(ReadBack(q), F, {})
  BY <1>3, <1>4, <1>5, <1>6, <1>7, <1>8, <1>9, <1>10, <1>11, <1>12, RunsCat DEF ReadBack
<1>14. QED
  BY <1>13 DEF F, D, Y

\* The programs beside the campaign that a direct chain is armed for.
LEMMA CheckRuns ==
  ASSUME NEW q \in Point
  PROVE  Runs(CheckPath(q), {"at", "direct"}, {}) /\ Runs(ChainSweep(q), {"at", "direct"}, {})
<1> DEFINE F == {"at", "direct"}
           G == F \cup {"level", "tf"}
<1>1. Runs(SetSource, F, G)
  BY SetSourceRuns DEF Fact
<1>2. Step("RF0", G, G) /\ Step("RF1", G, G) /\ Step("OSB", G, G)
  BY DEF Step, Command, Mild, Fact, Wants, Post, Spoils, Gives, Changes
<1>3. Runs(<<"RF0">>, G, G) /\ Runs(<<"RF1">>, G, G) /\ Runs(AwaitSettled, G, G)
  BY <1>2, RunsOne DEF Step, AwaitSettled
<1>4. Runs(MeasurePeak("probe"), G, G) /\ Runs(MeasureFloor("probe"), G, G)
  BY ProbeRuns, ProbeFloorRuns DEF Fact
<1>5. q # 0
  BY DEF Point
<1> HIDE DEF G
<1>6. Runs(CheckPath(q), F, G)
  BY <1>1, <1>3, <1>4, <1>5, RunsCat DEF CheckPath
<1>7. Runs(ChainSweep(q), F, G)
  BY <1>1, <1>3, <1>4, <1>5, RunsCat DEF ChainSweep
<1>8. QED
  BY <1>6, <1>7, RunsWeaker

LEMMA SweepRuns ==
  ASSUME NEW q \in Point, armed
  PROVE  Runs(SteppedCwSweep(q), {"at", "direct", "unread"}, {})
<1> DEFINE F == {"at", "direct", "unread"}
           G == F \cup {"level", "tf"}
           T == G \cup {"on"}
<1>1. Runs(SetSource, F, G)
  BY SetSourceRuns DEF Fact
<1>2. T \in SUBSET (Fact \ {"trace", "span", "rbw", "smp"}) /\ {"on", "tf", "unread"} \subseteq T
  BY DEF Fact
<1>3. Step("RF1", G, T)
  BY DEF Step, Command, Mild, Fact, Wants, Post, Spoils, Gives, Changes
<1>4. /\ Step("OSB", T, T) /\ Step("CONTS", T, T) /\ Step("SWEEP", T, T)
      /\ Step("probe", T, T) /\ Step("MKCF", T, T) /\ Step("TS", T, T)
  BY DEF Step, Command, Mild, Fact, Wants, Post, Spoils, Gives, Changes
<1>5. Runs(<<"RF1">>, G, T) /\ Runs(AwaitSettled, T, T)
  BY <1>3, <1>4, RunsOne DEF Step, AwaitSettled
<1>6. Runs(Configure("POS", "RB"), T, {})
  <2>1. Runs(Configure("POS", "RB"), T,
             T \cup {"sweep", "cw", "units", "rbw", "pos", "span", "st", "at"})
    BY <1>2, ArmedConfigureRuns
  <2>2. QED
    BY <2>1, RunsWeaker
<1>7. ASSUME q \in High PROVE Runs(MeasureTrackedPeak(q), T, T)
  <2>1. Runs(<<"CONTS">>, T, T) /\ Runs(TwoSweeps, T, T) /\ Runs(PeakPreselector(q), T, T)
    BY <1>2, <1>4, <1>7, RunsOne, RunsTwo, PeakPreselectorRuns DEF Step, TwoSweeps
  <2>2. Runs(<<"probe", "MKCF">>, T, T) /\ Runs(<<"TS">>, T, T)
    BY <1>4, RunsOne, RunsTwo DEF Step
  <2>3. <<"probe", "MKCF", "TS">> = <<"probe", "MKCF">> \o <<"TS">>
    OBVIOUS
  <2> HIDE DEF T
  <2>4. QED
    BY <1>7, <2>1, <2>2, <2>3, RunsCat DEF MeasureTrackedPeak
<1>8. Runs(MeasurePeak("probe"), T, T)
  BY <1>2, ProbeRuns
<1>9. Runs(IF q \in High THEN MeasureTrackedPeak(q) \o Configure("POS", "RB")
           ELSE MeasurePeak("probe"), T, {})
  <2>1. CASE q \in High
    BY <1>6, <1>7, <2>1, RunsCat
  <2>2. CASE q \notin High
    BY <1>8, <2>2, RunsWeaker
  <2>3. QED
    BY <2>1, <2>2
<1>10. q # 0
  BY DEF Point
<1> HIDE DEF F, G, T
<1>11. Runs(SteppedCwSweep(q), F, {})
  BY <1>1, <1>5, <1>9, <1>10, RunsCat DEF SteppedCwSweep
<1>12. QED
  BY <1>11 DEF F

----------------------------------------------------------------------------
(* What is known of a state. *)

Reading == {"reference", "wall", "drift"}
Driving == {"check", "chain", "sweep"}

Setting ==
  {"level", "tf", "rf", "sweep", "trace", "det", "span", "rbw", "hold", "vavg", "units", "st", "at",
   "f", "yig"}
Word ==
  {"reset", "plan", "capped", "RF0", "RF1", "CONTS", "SNGLS", "fresh", "stale", "NRM", "POS", "SMP",
   "full", "zero", "wide", "auto", "coarse", "narrow", "clear", "max", "on", "off", "DBM", "V",
   "fixed", "stuck", "AT_FLOOR", "AT_PLAN"}
Value == 0..(N + 1) \cup Word
Device == [Setting -> Value]

Floor(b) == IF b THEN "AT_FLOOR" ELSE "AT_PLAN"
Cap(b) == IF b THEN "capped" ELSE "plan"

\* The fact x holds with the instruments as in d.
Holds(x, d) ==
  CASE x = "f"         -> d.f = p
    [] x = "tf"        -> d.tf = p
    [] x = "span"      -> d.span = "zero"
    [] x = "rbw"       -> d.rbw = rung
    [] x = "cw"        -> d.hold = "clear" /\ d.vavg = "off"
    [] x = "units"     -> d.units = "DBM"
    [] x = "at"        -> d.at = Floor(armed)
    [] x = "level"     -> d.level = Cap(armed)
    [] x = "st"        -> d.st # "stuck"
    [] x = "sweep"     -> d.sweep = "CONTS"
    [] x = "trace"     -> d.trace = "fresh"
    [] x = "smp"       -> d.det = "SMP"
    [] x = "pos"       -> d.det = "POS"
    [] x = "off"       -> d.rf = "RF0"
    [] x = "on"        -> d.rf = "RF1"
    [] x = "peaked"    -> d.yig = p \/ (prog \in {"wall", "drift"} /\ rows[p].dac = "none")
    [] x = "unread"    -> got["tone"] = NoRead
    [] x = "taken"     -> got["tone"] # NoRead
    [] x = "taking"    -> prog = "reference"
    [] x = "comparing" -> prog \in {"wall", "drift"}
    [] x = "direct"    -> armed
    [] x = "padded"    -> ~armed
    [] OTHER           -> FALSE
Known(d) == {x \in Fact : Holds(x, d)}

\* The settings that x is read off.
From(x) ==
  CASE x = "cw"             -> {"hold", "vavg"}
    [] x \in {"smp", "pos"} -> {"det"}
    [] x \in {"on", "off"}  -> {"rf"}
    [] x = "peaked"         -> {"yig"}
    [] x \in {"f", "tf", "span", "rbw", "units", "at", "level", "st", "sweep", "trace"} -> {x}
    [] OTHER                -> {}

\* What is known stays known, but for what is read off a setting that differs.
LEMMA KnownKept ==
  ASSUME NEW d, NEW e, NEW C, \A s \in Setting \ C : e[s] = d[s]
  PROVE  \A x \in Known(d) : From(x) \cap C = {} => x \in Known(e)
<1> SUFFICES ASSUME NEW x \in Fact, Holds(x, d), From(x) \cap C = {}
             PROVE  Holds(x, e)
  BY DEF Known
<1>1. \A s \in Setting : s \in From(x) => e[s] = d[s]
  OBVIOUS
<1>2. CASE x \in {"cw", "smp", "pos", "on", "off", "peaked"}
  BY <1>1, <1>2 DEF Holds, From, Setting
<1>3. CASE x \in {"f", "tf", "span", "rbw", "units"}
  BY <1>1, <1>3 DEF Holds, From, Setting
<1>4. CASE x \in {"at", "level", "st", "sweep", "trace"}
  BY <1>1, <1>4 DEF Holds, From, Setting
<1>5. CASE x \in {"unread", "taken", "taking", "comparing", "direct", "padded", "never"}
  BY <1>5 DEF Holds
<1>6. QED
  BY <1>2, <1>3, <1>4, <1>5 DEF Fact

\* The settings a command changes.
SetBy(c) ==
  CASE c = "L1"                    -> {"level"}
    [] c = "CF1"                   -> {"tf"}
    [] c \in {"RF1", "RF0"}        -> {"rf"}
    [] c = "CLRW_TRA"              -> {"hold", "vavg"}
    [] c = "AUNITS_DBM"            -> {"units"}
    [] c \in {"RB", "RB_COARSE"}   -> {"rbw"}
    [] c \in {"POS", "SMP"}        -> {"det"}
    [] c \in {"SP_0", "SP"}        -> {"span"}
    [] c = "ST"                    -> {"st"}
    [] c \in {"AT_FLOOR", "AT_PLAN"} -> {"at"}
    [] c = "CF"                    -> {"f"}
    [] c \in {"PSDAC", "PP"}       -> {"yig"}
    [] OTHER                       -> {}

LEMMA SetsOnly ==
  ASSUME NEW d \in Device, NEW c \in Command \cap Changes, NEW q, NEW r
  PROVE  /\ DOMAIN Sets(d, c, q, r) = Setting
         /\ \A s \in Setting \ SetBy(c) : Sets(d, c, q, r)[s] = d[s]
<1>1. CASE c \in {"L1", "CF1"}
  BY <1>1 DEF Sets, SetBy, Device
<1>2. CASE c \in {"RF1", "RF0"}
  BY <1>2 DEF Sets, SetBy, Device
<1>3. CASE c \in {"CLRW_TRA", "AUNITS_DBM"}
  BY <1>3 DEF Sets, SetBy, Device
<1>4. CASE c \in {"RB", "RB_COARSE"}
  BY <1>4 DEF Sets, SetBy, Device
<1>5. CASE c \in {"POS", "SMP"}
  BY <1>5 DEF Sets, SetBy, Device
<1>6. CASE c \in {"SP_0", "SP", "ST"}
  BY <1>6 DEF Sets, SetBy, Device
<1>7. CASE c \in {"AT_FLOOR", "AT_PLAN"}
  BY <1>7 DEF Sets, SetBy, Device
<1>8. CASE c \in {"CF", "PSDAC", "PP"}
  BY <1>8 DEF Sets, SetBy, Device
<1>9. QED
  BY <1>1, <1>2, <1>3, <1>4, <1>5, <1>6, <1>7, <1>8 DEF Command, Mild, Changes

LEMMA SpoiltOrGiven ==
  ASSUME NEW c \in Command \cap Changes, NEW G, NEW x \in Fact,
         From(x) \cap (SetBy(c) \cup {"trace"}) # {}
  PROVE  x \in Spoils(c) \cup Gives(c, G)
<1>1. CASE c \in {"L1", "CF1"}
  BY <1>1 DEF Changes, SetBy, From, Fact, Spoils, Gives
<1>2. CASE c \in {"RF1", "RF0"}
  BY <1>2 DEF Changes, SetBy, From, Fact, Spoils, Gives
<1>3. CASE c \in {"CLRW_TRA", "AUNITS_DBM"}
  BY <1>3 DEF Changes, SetBy, From, Fact, Spoils, Gives
<1>4. CASE c \in {"RB", "RB_COARSE"}
  BY <1>4 DEF Changes, SetBy, From, Fact, Spoils, Gives
<1>5. CASE c \in {"POS", "SMP"}
  BY <1>5 DEF Changes, SetBy, From, Fact, Spoils, Gives
<1>6. CASE c \in {"SP_0", "SP", "ST"}
  BY <1>6 DEF Changes, SetBy, From, Fact, Spoils, Gives
<1>7. CASE c \in {"AT_FLOOR", "AT_PLAN"}
  BY <1>7 DEF Changes, SetBy, From, Fact, Spoils, Gives
<1>8. CASE c \in {"CF", "PSDAC", "PP"}
  BY <1>8 DEF Changes, SetBy, From, Fact, Spoils, Gives
<1>9. QED
  BY <1>1, <1>2, <1>3, <1>4, <1>5, <1>6, <1>7, <1>8 DEF Command, Mild, Changes

LEMMA KnownIs ==
  ASSUME NEW d
  PROVE  /\ "f" \in Known(d) <=> d.f = p
         /\ "tf" \in Known(d) <=> d.tf = p
         /\ "span" \in Known(d) <=> d.span = "zero"
         /\ "rbw" \in Known(d) <=> d.rbw = rung
         /\ "cw" \in Known(d) <=> d.hold = "clear" /\ d.vavg = "off"
         /\ "units" \in Known(d) <=> d.units = "DBM"
         /\ "at" \in Known(d) <=> d.at = Floor(armed)
         /\ "level" \in Known(d) <=> d.level = Cap(armed)
         /\ "st" \in Known(d) <=> d.st # "stuck"
         /\ "sweep" \in Known(d) <=> d.sweep = "CONTS"
         /\ "trace" \in Known(d) <=> d.trace = "fresh"
         /\ "smp" \in Known(d) <=> d.det = "SMP"
         /\ "pos" \in Known(d) <=> d.det = "POS"
         /\ "off" \in Known(d) <=> d.rf = "RF0"
         /\ "on" \in Known(d) <=> d.rf = "RF1"
         /\ "peaked" \in Known(d) <=>
              d.yig = p \/ (prog \in {"wall", "drift"} /\ rows[p].dac = "none")
         /\ "unread" \in Known(d) <=> got["tone"] = NoRead
         /\ "taken" \in Known(d) <=> got["tone"] # NoRead
         /\ "taking" \in Known(d) <=> prog = "reference"
         /\ "comparing" \in Known(d) <=> prog \in {"wall", "drift"}
         /\ "direct" \in Known(d) <=> armed
         /\ "padded" \in Known(d) <=> ~armed
         /\ "never" \notin Known(d)
<1>1. /\ "f" \in Known(d) <=> d.f = p
      /\ "tf" \in Known(d) <=> d.tf = p
      /\ "span" \in Known(d) <=> d.span = "zero"
      /\ "rbw" \in Known(d) <=> d.rbw = rung
      /\ "cw" \in Known(d) <=> d.hold = "clear" /\ d.vavg = "off"
  BY DEF Known, Holds, Fact
<1>2. /\ "units" \in Known(d) <=> d.units = "DBM"
      /\ "at" \in Known(d) <=> d.at = Floor(armed)
      /\ "level" \in Known(d) <=> d.level = Cap(armed)
      /\ "st" \in Known(d) <=> d.st # "stuck"
      /\ "sweep" \in Known(d) <=> d.sweep = "CONTS"
      /\ "trace" \in Known(d) <=> d.trace = "fresh"
  BY DEF Known, Holds, Fact
<1>3. /\ "smp" \in Known(d) <=> d.det = "SMP"
      /\ "pos" \in Known(d) <=> d.det = "POS"
      /\ "off" \in Known(d) <=> d.rf = "RF0"
      /\ "on" \in Known(d) <=> d.rf = "RF1"
      /\ "peaked" \in Known(d) <=>
           d.yig = p \/ (prog \in {"wall", "drift"} /\ rows[p].dac = "none")
  BY DEF Known, Holds, Fact
<1>4. /\ "unread" \in Known(d) <=> got["tone"] = NoRead
      /\ "taken" \in Known(d) <=> got["tone"] # NoRead
      /\ "taking" \in Known(d) <=> prog = "reference"
      /\ "comparing" \in Known(d) <=> prog \in {"wall", "drift"}
  BY DEF Known, Holds, Fact
<1>5. ("direct" \in Known(d) <=> armed) /\ ("padded" \in Known(d) <=> ~armed)
  BY DEF Known, Holds, Fact
<1>6. "never" \notin Known(d)
  BY DEF Known, Holds, Fact
<1>7. QED
  BY <1>1, <1>2, <1>3, <1>4, <1>5, <1>6

\* What a command gives is so when it was obeyed.
LEMMA Given ==
  ASSUME NEW d \in Device, NEW c \in Command \cap Changes, NEW G, Wants(c) \subseteq Known(d),
         armed \in BOOLEAN
  PROVE  Gives(c, G) \subseteq Known([Sets(d, c, p, rung) EXCEPT !.trace = "stale"])
<1> DEFINE e == [Sets(d, c, p, rung) EXCEPT !.trace = "stale"]
<1> SUFFICES Gives(c, G) \subseteq Known(e)
  OBVIOUS
<1>1. CASE c \in {"L1", "CF1"}
  <2>1. IF c = "L1" THEN e.level = Cap(armed) ELSE e.tf = p
    BY <1>1 DEF Sets, Device, Setting, Cap
  <2> HIDE DEF e
  <2>2. QED
    BY <1>1, <2>1, KnownIs DEF Gives
<1>2. CASE c \in {"RF1", "RF0"}
  <2>1. e.rf = c
    BY <1>2 DEF Sets, Device, Setting
  <2> HIDE DEF e
  <2>2. QED
    BY <1>2, <2>1, KnownIs DEF Gives
<1>3. CASE c \in {"CLRW_TRA", "AUNITS_DBM"}
  <2>1. IF c = "CLRW_TRA" THEN e.hold = "clear" /\ e.vavg = "off" ELSE e.units = "DBM"
    BY <1>3 DEF Sets, Device, Setting
  <2> HIDE DEF e
  <2>2. QED
    BY <1>3, <2>1, KnownIs DEF Gives
<1>4. CASE c \in {"RB", "RB_COARSE"}
  <2>1. c = "RB" => e.rbw = rung
    BY <1>4 DEF Sets, Device, Setting
  <2> HIDE DEF e
  <2>2. QED
    BY <1>4, <2>1, KnownIs DEF Gives
<1>5. CASE c \in {"POS", "SMP"}
  <2>1. e.det = c
    BY <1>5 DEF Sets, Device, Setting
  <2> HIDE DEF e
  <2>2. QED
    BY <1>5, <2>1, KnownIs DEF Gives
<1>6. CASE c \in {"SP_0", "SP", "ST"}
  <2>1. (c = "SP_0" => e.span = "zero") /\ (c = "ST" => e.st = "fixed")
    BY <1>6 DEF Sets, Device, Setting
  <2> HIDE DEF e
  <2>2. QED
    BY <1>6, <2>1, KnownIs DEF Gives
<1>7. CASE c \in {"AT_FLOOR", "AT_PLAN"}
  <2>1. c = Floor(armed)
    BY <1>7 DEF Wants, Mild, Known, Holds, Floor
  <2>2. e.at = c
    BY <1>7 DEF Sets, Device, Setting
  <2> HIDE DEF e
  <2>3. QED
    BY <1>7, <2>1, <2>2, KnownIs DEF Gives
<1>8. CASE c \in {"CF", "PSDAC", "PP"}
  <2>1. c = "PP" => d.rf = "RF1" /\ d.tf = p
    BY <1>8 DEF Wants, Mild, Known, Holds
  <2>2. IF c = "CF" THEN e.f = p ELSE e.yig = p
    BY <1>8, <2>1 DEF Sets, Device, Setting
  <2> HIDE DEF e
  <2>3. QED
    BY <1>8, <2>2, KnownIs DEF Gives
<1>9. QED
  BY <1>1, <1>2, <1>3, <1>4, <1>5, <1>6, <1>7, <1>8 DEF Command, Mild, Changes

\* A command does to the instruments what an outline says of it.
LEMMA ObeysPost ==
  ASSUME NEW d \in Device, NEW c \in Command \ Decisions, armed \in BOOLEAN,
         Wants(c) \subseteq Known(d)
  PROVE  Post(c, Known(d)) \subseteq Known(Obeys(d, c, p, rung))
<1> DEFINE e == Obeys(d, c, p, rung)
<1>1. CASE c \in Changes
  <2>1. e = [Sets(d, c, p, rung) EXCEPT !.trace = "stale"]
    BY <1>1 DEF Obeys, Changes
  <2>2. Gives(c, Known(d)) \subseteq Known(e)
    BY <1>1, <2>1, Given
  <2>3. \A s \in Setting \ (SetBy(c) \cup {"trace"}) : e[s] = d[s]
    BY <1>1, <2>1, SetsOnly
  <2> HIDE DEF e
  <2>4. ASSUME NEW x \in Known(d), x \notin Spoils(c), x \notin Gives(c, Known(d))
        PROVE  x \in Known(e)
    <3>1. x \in Fact
      BY DEF Known
    <3>2. From(x) \cap (SetBy(c) \cup {"trace"}) = {}
      BY <1>1, <2>4, <3>1, SpoiltOrGiven
    <3>3. QED
      BY <2>3, <3>2, KnownKept
  <2>5. QED
    BY <2>2, <2>4 DEF Post, e
<1>2. CASE c = "CONTS"
  <2>1. e = [d EXCEPT !.sweep = "CONTS"]
    BY <1>2 DEF Obeys, Changes
  <2>2. e.sweep = "CONTS" /\ \A s \in Setting \ {"sweep"} : e[s] = d[s]
    BY <2>1 DEF Device, Setting
  <2> HIDE DEF e
  <2>3. \A x \in Fact \ {"sweep"} : From(x) \cap {"sweep"} = {}
    BY DEF From, Fact
  <2>4. \A x \in Known(d) : x = "sweep" \/ x \in Known(e)
    BY <2>2, <2>3, KnownKept DEF Known
  <2>5. Post(c, Known(d)) \subseteq Known(d) \cup {"sweep"} /\ "sweep" \in Known(e)
    BY <1>2, <2>2 DEF Post, Gives, Known, Holds, Fact
  <2>6. QED
    BY <2>4, <2>5 DEF e
<1>3. CASE c = "SWEEP"
  <2>1. e = [d EXCEPT !.trace = IF Completes(d) THEN "fresh" ELSE @]
    BY <1>3 DEF Obeys, Changes
  <2>2. /\ Completes(d) \/ d.trace = "fresh" => e.trace = "fresh"
        /\ \A s \in Setting \ {"trace"} : e[s] = d[s]
    BY <2>1 DEF Device, Setting
  <2> HIDE DEF e
  <2>3. \A x \in Fact \ {"trace"} : From(x) \cap {"trace"} = {}
    BY DEF From, Fact
  <2>4. \A x \in Known(d) : x = "trace" \/ x \in Known(e)
    BY <2>2, <2>3, KnownKept DEF Known
  <2>5. /\ Post(c, Known(d)) \subseteq Known(d) \cup {"trace"}
        /\ "trace" \in Post(c, Known(d)) => Completes(d) \/ d.trace = "fresh"
    BY <1>3 DEF Post, Gives, Known, Holds, Completes
  <2>6. e.trace = "fresh" => "trace" \in Known(e)
    BY DEF Known, Holds, Fact
  <2>7. QED
    BY <2>2, <2>4, <2>5, <2>6 DEF e
<1>4. CASE c \in {"OSB", "RL", "ambient", "probe", "TRY", "END", "NONE", "MKCF", "TS"}
  <2>1. e = d
    BY <1>4 DEF Obeys, Changes
  <2>2. Post(c, Known(d)) \subseteq Known(d)
    BY <1>4 DEF Post, Gives
  <2>3. QED
    BY <2>1, <2>2
<1>5. QED
  BY <1>1, <1>2, <1>3, <1>4 DEF Command, Mild, Decisions, Kinds, Changes

LEMMA NIsNat == N \in Nat
BY AnalyzerAssumption

LEMMA PointIsValue ==
  ASSUME NEW q \in 0..(N + 1)
  PROVE  q \in Value
BY DEF Value

LEMMA DeviceSet ==
  ASSUME NEW d \in Device, NEW s \in Setting, NEW v \in Value
  PROVE  [d EXCEPT ![s] = v] \in Device
BY DEF Device

LEMMA ObeysTyped ==
  ASSUME NEW d \in Device, NEW c, NEW q \in 0..N, NEW r \in {"wide", "narrow"}
  PROVE  Obeys(d, c, q, r) \in Device
<1>1. /\ 0 \in Value /\ q \in Value /\ Noise \in Value
  <2>1. 0 \in 0..(N + 1) /\ q \in 0..(N + 1) /\ Noise \in 0..(N + 1)
    BY NIsNat DEF Noise
  <2>2. QED
    BY <2>1, PointIsValue
<1>2. Word \subseteq Value
  BY DEF Value
<1>a. /\ \A w \in {"reset", "fresh", "stale", "CONTS", "SNGLS", "clear", "off"} : w \in Value
      /\ \A s \in {"level", "tf", "trace", "sweep", "hold", "vavg"} : s \in Setting
  BY <1>2 DEF Word, Setting
<1> HIDE DEF Value
<1>3. ASSUME c \in Changes PROVE Sets(d, c, q, r) \in Device
  <2>1. CASE c = "RST"
    <3>1. Sets(d, c, q, r) = [[d EXCEPT !["level"] = "reset"] EXCEPT !["tf"] = 0]
      BY <2>1 DEF Sets, Device, Setting
    <3>2. [d EXCEPT !["level"] = "reset"] \in Device
      BY <1>a, DeviceSet
    <3>3. [[d EXCEPT !["level"] = "reset"] EXCEPT !["tf"] = 0] \in Device
      BY <1>1, <1>a, <3>2, DeviceSet
    <3>4. QED
      BY <3>1, <3>3
  <2>2. CASE c = "IP"
    BY <1>1, <1>2, <2>2 DEF Sets, Preset, Device, Setting, Word
  <2>3. CASE c \in {"L1", "CF1", "RF1", "RF0"}
    BY <1>1, <1>2, <2>3, DeviceSet DEF Sets, Setting, Word
  <2>4. CASE c = "CLRW_TRA"
    <3>1. Sets(d, c, q, r) = [[d EXCEPT !["hold"] = "clear"] EXCEPT !["vavg"] = "off"]
      BY <2>4 DEF Sets, Device, Setting
    <3>2. [d EXCEPT !["hold"] = "clear"] \in Device
      BY <1>a, DeviceSet
    <3>3. [[d EXCEPT !["hold"] = "clear"] EXCEPT !["vavg"] = "off"] \in Device
      BY <1>a, <3>2, DeviceSet
    <3>4. QED
      BY <3>1, <3>3
  <2>5. CASE c \in {"MXMH_TRA", "VAVG", "VAVG_OFF", "AUNITS_DBM"}
    BY <1>2, <2>5, DeviceSet DEF Sets, Setting, Word
  <2>6. CASE c \in {"RB", "RB_AUTO", "RB_COARSE", "POS", "SMP"}
    BY <1>2, <2>6, DeviceSet DEF Sets, Setting, Word
  <2>7. CASE c \in {"SP_0", "SP", "ST", "ST_AUTO", "AT_FLOOR", "AT_PLAN"}
    BY <1>2, <2>7, DeviceSet DEF Sets, Setting, Word
  <2>8. CASE c \in {"CF", "PSDAC", "PP"}
    BY <1>1, <2>8, DeviceSet DEF Sets, Setting
  <2>9. QED
    BY <1>3, <2>1, <2>2, <2>3, <2>4, <2>5, <2>6, <2>7, <2>8 DEF Changes
<1>4. CASE c \in Changes
  <2>1. Obeys(d, c, q, r) = [Sets(d, c, q, r) EXCEPT !["trace"] = "stale"]
    BY <1>4 DEF Obeys, Changes
  <2>2. [Sets(d, c, q, r) EXCEPT !["trace"] = "stale"] \in Device
    BY <1>a, <1>3, <1>4, DeviceSet
  <2>3. QED
    BY <2>1, <2>2
<1>5. CASE c \in {"CONTS", "SNGLS"}
  <2>1. Obeys(d, c, q, r) = [d EXCEPT !["sweep"] = c]
    BY <1>5 DEF Obeys, Changes
  <2>2. c \in Value /\ "sweep" \in Setting
    BY <1>a, <1>5
  <2>3. [d EXCEPT !["sweep"] = c] \in Device
    BY <2>2, DeviceSet
  <2>4. QED
    BY <2>1, <2>3
<1>6. CASE c = "SWEEP"
  <2>1. Obeys(d, c, q, r) = [d EXCEPT !["trace"] = IF Completes(d) THEN "fresh" ELSE @]
    BY <1>6 DEF Obeys, Changes
  <2>2. d["trace"] \in Value
    BY DEF Device, Setting
  <2>3. (IF Completes(d) THEN "fresh" ELSE d["trace"]) \in Value
    BY <1>a, <2>2
  <2>4. [d EXCEPT !["trace"] = IF Completes(d) THEN "fresh" ELSE @] \in Device
    BY <1>a, <2>3, DeviceSet
  <2>5. QED
    BY <2>1, <2>4
<1>7. CASE c \notin Changes \cup {"CONTS", "SNGLS", "SWEEP"}
  BY <1>7 DEF Obeys
<1>8. QED
  BY <1>4, <1>5, <1>6, <1>7

\* Between the preset and the end of configure() no tone leaves the source.
Quiet ==
  {"SWEEP", "RST", "IP", "CONTS", "TS", "CLRW_TRA", "AUNITS_DBM", "RB", "RL", "POS", "SP_0", "ST",
   "AT_FLOOR", "AT_PLAN"}
LEMMA QuietKeeps ==
  ASSUME NEW d \in Device, NEW c \in Quiet, NEW q, NEW r
  PROVE  Obeys(d, c, q, r).rf = d.rf
<1>1. CASE c = "IP"
  BY <1>1 DEF Obeys, Changes, Sets, Preset, Device, Setting
<1>2. CASE c \in {"SWEEP", "CONTS", "TS", "RL"}
  BY <1>2 DEF Obeys, Changes, Device, Setting
<1>3. CASE c \in {"RST", "CLRW_TRA", "AUNITS_DBM", "RB", "POS"}
  BY <1>3 DEF Obeys, Changes, Sets, Device, Setting
<1>4. CASE c \in {"SP_0", "ST", "AT_FLOOR", "AT_PLAN"}
  BY <1>4 DEF Obeys, Changes, Sets, Device, Setting
<1>5. QED
  BY <1>1, <1>2, <1>3, <1>4 DEF Quiet

LEMMA FloorSet ==
  ASSUME NEW d \in Device, NEW q, NEW r
  PROVE  Obeys(d, "AT_FLOOR", q, r).at = "AT_FLOOR"
BY DEF Obeys, Changes, Sets, Device, Setting

\* On an armed chain an outline never leaves the attenuator but for its floor, or the
\* level but for its cap, nor keys the source before.
LEMMA ProtectedKept ==
  ASSUME NEW d \in Device, NEW c \in Command \ Decisions, armed, Wants(c) \subseteq Known(d)
  PROVE  LET e == Obeys(d, c, p, rung)
         IN /\ d.at = "AT_FLOOR" => e.at = "AT_FLOOR"
            /\ (d.rf = "RF1" => d.at = "AT_FLOOR" /\ d.level = "capped")
                 => (e.rf = "RF1" => e.at = "AT_FLOOR" /\ e.level = "capped")
<1>1. CASE c \in {"OSB", "RL", "ambient", "probe", "TRY", "END", "NONE", "MKCF", "TS", "CONTS",
                  "SWEEP"}
  BY <1>1 DEF Obeys, Changes, Device, Setting
<1>2. CASE c \in {"CF1", "CLRW_TRA", "AUNITS_DBM", "RB", "RB_COARSE", "POS"}
  BY <1>2 DEF Obeys, Changes, Sets, Device, Setting
<1>3. CASE c \in {"SMP", "SP_0", "SP", "ST", "CF", "PSDAC", "PP"}
  BY <1>3 DEF Obeys, Changes, Sets, Device, Setting
<1>4. CASE c \in {"L1", "RF0", "AT_FLOOR"}
  BY <1>4 DEF Obeys, Changes, Sets, Device, Setting
<1>5. CASE c = "RF1"
  <2>1. d.at = "AT_FLOOR" /\ d.level = "capped"
    BY <1>5, KnownIs DEF Wants, Mild, Floor, Cap
  <2>2. QED
    BY <1>5, <2>1 DEF Obeys, Changes, Sets, Device, Setting
<1>6. c # "AT_PLAN"
  BY KnownIs DEF Wants, Mild
<1>7. QED
  BY <1>1, <1>2, <1>3, <1>4, <1>5, <1>6 DEF Command, Mild, Decisions, Kinds

(* What is left to do. *)

LEMMA AfterIs ==
  ASSUME NEW C, NEW s \in Seq(C), NEW m, NEW k \in 1..Len(s), s[k] = m,
         \A j \in 1..(k - 1) : s[j] # m
  PROVE  After(s, m) = SubSeq(s, k + 1, Len(s))
<1> DEFINE at == CHOOSE i \in DOMAIN s : s[i] = m /\ \A j \in 1..(i - 1) : s[j] # m
<1>1. DOMAIN s = 1..Len(s) /\ Len(s) \in Nat
  OBVIOUS
<1>2. at \in DOMAIN s /\ s[at] = m /\ \A j \in 1..(at - 1) : s[j] # m
  <2>1. k \in DOMAIN s
    BY <1>1
  <2>2. QED
    BY <2>1
<1> HIDE DEF at
<1>3. at = k
  <2>1. ~(at < k) /\ ~(k < at)
    BY <1>1, <1>2
  <2>2. QED
    BY <1>1, <1>2, <2>1
<1>4. After(s, m) = SubSeq(s, at + 1, Len(s))
  BY DEF After, at
<1>5. QED
  BY <1>3, <1>4

\* What an except waits for is the next end of a bracket.
LEMMA FirstEnd ==
  ASSUME NEW C, NEW s \in Seq(C), Guarded(s)
  PROVE  \E k \in 1..Len(s) : s[k] = "END" /\ \A j \in 1..(k - 1) : s[j] \notin {"TRY", "END"}
<1>1. DOMAIN s = 1..Len(s) /\ Len(s) \in Nat
  OBVIOUS
<1>2. PICK i \in 1..Len(s) : s[i] = "END" /\ \A j \in 1..(i - 1) : s[j] # "TRY"
  BY <1>1 DEF Guarded
<1> DEFINE R == OpToRel(<, Nat)
           T == {n \in 1..Len(s) : s[n] = "END"}
<1>3. T \subseteq Nat /\ T # {}
  BY <1>1, <1>2
<1>4. PICK k \in T : \A n \in T : <<n, k>> \notin R
  <2> HIDE DEF R, T
  <2>1. IsWellFoundedOn(R, Nat)
    BY NatLessThanWellFounded DEF R
  <2>2. QED
    BY <1>3, <2>1, WFMin
<1>5. \A n \in T : ~(n < k)
  <2>1. \A n \in Nat, l \in Nat : n < l => <<n, l>> \in R
    BY DEF OpToRel
  <2>2. QED
    BY <1>3, <1>4, <2>1
<1>6. k <= i
  BY <1>2, <1>5
<1>7. QED
  BY <1>1, <1>2, <1>5, <1>6

LEMMA LeftOf ==
  ASSUME NEW C, NEW s \in Seq(C), NEW k \in 0..Len(s)
  PROVE  /\ SubSeq(s, k + 1, Len(s)) \in Seq(C)
         /\ Len(SubSeq(s, k + 1, Len(s))) = Len(s) - k
         /\ \A i \in 1..(Len(s) - k) : SubSeq(s, k + 1, Len(s))[i] = s[i + k]
OBVIOUS

\* The commands of the programs that take no acceptance reading.
Plain ==
  Quiet \cup
  {"L1", "CF1", "RF1", "RF0", "OSB", "LST", "RSS", "UP", "CF", "SMP", "probe", "SNGLS", "TDF_B",
   "TRA?", "VAVG", "MXMH_TRA", "SP", "RB_AUTO", "RB_COARSE", "ST_AUTO", "TRY", "END", "GUARD",
   "NONE", "MKCF", "PP", "PSDAC?"}

\* Such a program may run whatever is known.
Harmless(s) ==
  /\ s \in Seq(Plain)
  /\ \A i \in 1..Len(s) : s[i] = "GUARD" =>
       \E k \in (i + 1)..Len(s) : s[k] = "NONE" /\ \A j \in i..(k - 1) : s[j] # "NONE"

LEMMA HarmlessSteps ==
  ASSUME NEW C \in SUBSET (Plain \ {"GUARD"}), NEW s \in Seq(C)
  PROVE  Harmless(s)
<1>1. s \in Seq(Plain) /\ \A i \in 1..Len(s) : s[i] # "GUARD"
  OBVIOUS
<1>2. QED
  BY <1>1 DEF Harmless

LEMMA HarmlessLeft ==
  ASSUME NEW s, Harmless(s), NEW k \in 0..Len(s)
  PROVE  Harmless(SubSeq(s, k + 1, Len(s)))
<1> DEFINE t == SubSeq(s, k + 1, Len(s))
<1>1. s \in Seq(Plain) /\ Len(s) \in Nat /\ k \in Nat
  BY DEF Harmless
<1>2. t \in Seq(Plain) /\ Len(t) = Len(s) - k /\ \A i \in 1..Len(t) : t[i] = s[i + k]
  BY <1>1, LeftOf
<1> SUFFICES ASSUME NEW i \in 1..Len(t), t[i] = "GUARD"
             PROVE  \E l \in (i + 1)..Len(t) : t[l] = "NONE" /\ \A j \in i..(l - 1) : t[j] # "NONE"
  BY <1>2 DEF Harmless
<1> HIDE DEF t
<1>3. i + k \in 1..Len(s) /\ s[i + k] = "GUARD"
  BY <1>1, <1>2
<1>4. PICK m \in ((i + k) + 1)..Len(s) : s[m] = "NONE" /\ \A j \in (i + k)..(m - 1) : s[j] # "NONE"
  BY <1>3 DEF Harmless
<1>5. m - k \in (i + 1)..Len(t) /\ m - k \in 1..Len(t) /\ (m - k) + k = m
  BY <1>1, <1>2
<1>6. ASSUME NEW j \in i..((m - k) - 1) PROVE t[j] # "NONE"
  <2>1. j \in 1..Len(t) /\ j + k \in (i + k)..(m - 1)
    BY <1>1, <1>2, <1>5
  <2>2. QED
    BY <1>2, <1>4, <2>1
<1>7. t[m - k] = "NONE"
  BY <1>2, <1>4, <1>5
<1>8. QED
  BY <1>5, <1>6, <1>7

LEMMA HarmlessCat ==
  ASSUME NEW s, NEW t, Harmless(s), Harmless(t)
  PROVE  Harmless(s \o t)
<1> DEFINE u == s \o t
<1>1. s \in Seq(Plain) /\ t \in Seq(Plain) /\ Len(s) \in Nat /\ Len(t) \in Nat
  BY DEF Harmless
<1>2. /\ u \in Seq(Plain) /\ Len(u) = Len(s) + Len(t)
      /\ \A i \in 1..Len(s) : u[i] = s[i]
      /\ \A i \in 1..Len(t) : u[Len(s) + i] = t[i]
  BY <1>1
<1> SUFFICES ASSUME NEW i \in 1..Len(u), u[i] = "GUARD"
             PROVE  \E k \in (i + 1)..Len(u) : u[k] = "NONE" /\ \A j \in i..(k - 1) : u[j] # "NONE"
  BY <1>2 DEF Harmless
<1> HIDE DEF u
<1>3. CASE i <= Len(s)
  <2>1. i \in 1..Len(s) /\ s[i] = "GUARD"
    BY <1>1, <1>2, <1>3
  <2>2. PICK k \in (i + 1)..Len(s) : s[k] = "NONE" /\ \A j \in i..(k - 1) : s[j] # "NONE"
    BY <2>1 DEF Harmless
  <2>3. /\ k \in 1..Len(s) /\ k \in (i + 1)..Len(u)
        /\ \A j \in i..(k - 1) : j \in 1..Len(s)
    BY <1>1, <1>2, <2>1
  <2>4. QED
    BY <1>2, <2>2, <2>3
<1>4. CASE ~(i <= Len(s))
  <2> DEFINE h == i - Len(s)
  <2>1. h \in 1..Len(t) /\ Len(s) + h = i
    BY <1>1, <1>2, <1>4
  <2>2. t[h] = "GUARD"
    BY <1>2, <2>1
  <2> HIDE DEF h
  <2>3. PICK k \in (h + 1)..Len(t) : t[k] = "NONE" /\ \A j \in h..(k - 1) : t[j] # "NONE"
    BY <2>1, <2>2 DEF Harmless
  <2>4. k \in 1..Len(t) /\ Len(s) + k \in (i + 1)..Len(u) /\ u[Len(s) + k] = "NONE"
    BY <1>1, <1>2, <2>1, <2>3
  <2>5. ASSUME NEW j \in i..((Len(s) + k) - 1) PROVE u[j] # "NONE"
    <3>1. j - Len(s) \in h..(k - 1) /\ j - Len(s) \in 1..Len(t) /\ Len(s) + (j - Len(s)) = j
      BY <1>1, <2>1, <2>4
    <3>2. QED
      BY <1>2, <2>3, <3>1
  <2>6. QED
    BY <2>4, <2>5
<1>5. QED
  BY <1>3, <1>4

LEMMA HarmlessPeak ==
  ASSUME NEW q
  PROVE  Harmless(PeakPreselector(q))
<1> DEFINE s == <<"TRY", "GUARD", "END", "MKCF", "TS", "PP", "TS", "TRY", "PSDAC?", "END",
                  "NONE">>
<1>1. Harmless(<<>>) /\ Harmless(<<"CF", "SP", "RB_COARSE", "SWEEP">>)
  <2> DEFINE C == {"CF", "SP", "RB_COARSE", "SWEEP"}
  <2>1. <<>> \in Seq(C) /\ <<"CF", "SP", "RB_COARSE", "SWEEP">> \in Seq(C)
    OBVIOUS
  <2>2. C \subseteq Plain \ {"GUARD"}
    BY DEF Plain, Quiet
  <2> HIDE DEF C
  <2>3. QED
    BY <2>1, <2>2, HarmlessSteps
<1>2. /\ s \in Seq(Plain) /\ Len(s) = 11
      /\ s[1] = "TRY" /\ s[2] = "GUARD" /\ s[3] = "END" /\ s[4] = "MKCF" /\ s[5] = "TS"
      /\ s[6] = "PP" /\ s[7] = "TS" /\ s[8] = "TRY" /\ s[9] = "PSDAC?" /\ s[10] = "END"
      /\ s[11] = "NONE"
  BY DEF Plain, Quiet
<1> HIDE DEF s
<1>3. Harmless(s)
  <2>1. \A i \in 1..Len(s) : s[i] = "GUARD" => i = 2
    <3>1. \A i \in 1..Len(s) : i \in {1, 2, 3, 4, 5, 6, 7, 8, 9, 10, 11}
      BY <1>2
    <3>2. QED
      BY <1>2, <3>1
  <2>2. \A j \in 2..10 : s[j] # "NONE"
    <3>1. \A j \in 2..10 : j \in {2, 3, 4, 5, 6, 7, 8, 9, 10}
      OBVIOUS
    <3>2. QED
      BY <1>2, <3>1
  <2>3. 11 \in (2 + 1)..Len(s) /\ 11 - 1 = 10
    BY <1>2
  <2>4. QED
    BY <1>2, <2>1, <2>2, <2>3 DEF Harmless
<1>4. Harmless(<<"CF", "SP", "RB_COARSE", "SWEEP">> \o s)
  BY <1>1, <1>3, HarmlessCat
<1>5. QED
  BY <1>1, <1>4 DEF PeakPreselector, s

LEMMA HarmlessTrying ==
  ASSUME NEW s, Harmless(s)
  PROVE  Harmless(Trying(s))
<1> DEFINE C == {"TRY", "END"}
<1>1. <<"TRY">> \in Seq(C) /\ <<"END">> \in Seq(C)
  OBVIOUS
<1>2. C \subseteq Plain \ {"GUARD"}
  BY DEF Plain
<1> HIDE DEF C
<1>3. Harmless(<<"TRY">>) /\ Harmless(<<"END">>)
  BY <1>1, <1>2, HarmlessSteps
<1>4. QED
  BY <1>3, HarmlessCat DEF Trying

LEMMA HarmlessCalls ==
  /\ Harmless(SetSource) /\ Harmless(AwaitSettled) /\ Harmless(SourcePrepare) /\ Harmless(Prepare)
  /\ Harmless(Configure("POS", "RB")) /\ Harmless(MeasurePeak("probe"))
  /\ Harmless(MeasureFloor("probe")) /\ Harmless(MeasureAverage) /\ Harmless(TwoSweeps)
  /\ Harmless(SetAttenuation)
<1> DEFINE C1 == {"L1", "CF1", "OSB", "RST", "IP", "CONTS", "TS"}
           C2 == {"CF", "CONTS", "SWEEP", "SMP", "POS", "probe"}
           C3 == {"AT_FLOOR", "AT_PLAN"}
           C4 == {"CONTS", "CLRW_TRA", "AUNITS_DBM", "RB", "RL", "POS", "SP_0", "ST"}
<1>1. /\ SetSource \in Seq(C1) /\ AwaitSettled \in Seq(C1) /\ SourcePrepare \in Seq(C1)
      /\ Prepare \in Seq(C1)
  BY DEF SetSource, AwaitSettled, SourcePrepare, Prepare
<1>2. MeasurePeak("probe") \in Seq(C2) /\ TwoSweeps \in Seq(C2)
  BY DEF MeasurePeak, TwoSweeps
<1>3. MeasureFloor("probe") \in Seq(C2) /\ MeasureAverage \in Seq(C2)
  BY DEF MeasureFloor, MeasurePeak, TwoSweeps, MeasureAverage
<1>4. <<"AT_FLOOR">> \in Seq(C3) /\ <<"AT_PLAN">> \in Seq(C3) /\ <<>> \in Seq(C3)
  OBVIOUS
<1>5. <<"CONTS", "CLRW_TRA", "AUNITS_DBM", "RB", "RL", "POS", "SP_0", "ST">> \in Seq(C4)
  OBVIOUS
<1>6. \A C \in {C1, C2, C3, C4} : C \subseteq Plain \ {"GUARD"}
  BY DEF Plain, Quiet
<1> HIDE DEF C1, C2, C3, C4
<1>7. /\ Harmless(<<"CONTS", "CLRW_TRA", "AUNITS_DBM", "RB", "RL", "POS", "SP_0", "ST">>)
      /\ Harmless(<<"AT_FLOOR">>) /\ Harmless(<<"AT_PLAN">>) /\ Harmless(<<>>)
  BY <1>4, <1>5, <1>6, HarmlessSteps
<1>8. Harmless(Configure("POS", "RB")) /\ Harmless(SetAttenuation)
  BY <1>7, HarmlessCat DEF Configure, SetAttenuation
<1>9. QED
  BY <1>1, <1>2, <1>3, <1>4, <1>6, <1>8, HarmlessSteps

\* The programs that take no acceptance reading, and what is not tracked of the others.
LEMMA HarmlessScripts ==
  ASSUME NEW q, NEW g \in {"tracked", "panel"} \cup OneFrequency \cup Driving
  PROVE  Harmless(Script(g, q))
<1> DEFINE C1 == {"RF1", "RF0", "CONTS", "L1", "UP", "CF1", "probe", "AUNITS_DBM"}
           C2 == {"CF", "SP", "RB_COARSE", "probe", "MKCF", "TS", "RB_AUTO"}
           C3 == {"LST", "RSS", "CF1", "RF1", "SMP", "VAVG", "SP"}
           C4 == {"SNGLS", "TDF_B", "TRA?", "CONTS"}
           C5 == {"CONTS", "CLRW_TRA", "AUNITS_DBM", "RB_AUTO", "RL", "SMP", "SP_0", "ST"}
           C6 == {"CF", "SP", "ST_AUTO", "MXMH_TRA", "POS", "VAVG"}
           C7 == {"AT_FLOOR"}
<1>1. /\ <<>> \in Seq(C1) /\ <<"AUNITS_DBM">> \in Seq(C1)
      /\ \A c \in {"RF1", "RF0", "CONTS", "L1", "UP", "CF1", "probe"} : <<c>> \in Seq(C1)
  OBVIOUS
<1>2. /\ <<"CF", "SP", "RB_COARSE">> \in Seq(C2) /\ <<"probe", "MKCF", "TS">> \in Seq(C2)
      /\ <<"CF", "SP", "RB_AUTO">> \in Seq(C2)
  OBVIOUS
<1>3. ListSweep \in Seq(C3) /\ <<"CF1", "RF1">> \in Seq(C3) /\ <<"SMP", "VAVG", "SP">> \in Seq(C3)
  BY DEF ListSweep
<1>4. <<"SNGLS", "TDF_B", "TRA?", "CONTS">> \in Seq(C4) /\ <<"AT_FLOOR">> \in Seq(C7)
  OBVIOUS
<1>5. <<"CONTS", "CLRW_TRA", "AUNITS_DBM", "RB_AUTO", "RL", "SMP", "SP_0", "ST">> \in Seq(C5)
  OBVIOUS
<1>6. /\ <<"CF", "SP", "ST_AUTO", "MXMH_TRA">> \in Seq(C6)
      /\ <<"POS", "VAVG", "MXMH_TRA", "ST_AUTO", "SP">> \in Seq(C6)
  OBVIOUS
<1>7. /\ C1 \subseteq Plain \ {"GUARD"} /\ C2 \subseteq Plain \ {"GUARD"}
      /\ C3 \subseteq Plain \ {"GUARD"}
  BY DEF Plain, Quiet
<1>8. /\ C4 \subseteq Plain \ {"GUARD"} /\ C5 \subseteq Plain \ {"GUARD"}
      /\ C6 \subseteq Plain \ {"GUARD"} /\ C7 \subseteq Plain \ {"GUARD"}
  BY DEF Plain, Quiet
<1> HIDE DEF C1, C2, C3, C4, C5, C6, C7
<1>a. /\ Harmless(<<>>) /\ Harmless(<<"RF1">>) /\ Harmless(<<"RF0">>) /\ Harmless(<<"CONTS">>)
      /\ Harmless(<<"L1">>) /\ Harmless(<<"UP">>) /\ Harmless(<<"CF1">>) /\ Harmless(<<"probe">>)
      /\ Harmless(<<"AUNITS_DBM">>)
  BY <1>1, <1>7, HarmlessSteps
<1>b. /\ Harmless(<<"CF", "SP", "RB_COARSE">>) /\ Harmless(<<"probe", "MKCF", "TS">>)
      /\ Harmless(ListSweep) /\ Harmless(<<"CF1", "RF1">>)
      /\ Harmless(<<"CF", "SP", "RB_AUTO">>) /\ Harmless(<<"SMP", "VAVG", "SP">>)
  BY <1>2, <1>3, <1>7, HarmlessSteps
<1>c. Harmless(<<"SNGLS", "TDF_B", "TRA?", "CONTS">>) /\ Harmless(<<"AT_FLOOR">>)
  BY <1>4, <1>8, HarmlessSteps
<1>d. /\ Harmless(<<"CONTS", "CLRW_TRA", "AUNITS_DBM", "RB_AUTO", "RL", "SMP", "SP_0", "ST">>)
      /\ Harmless(<<"CF", "SP", "ST_AUTO", "MXMH_TRA">>)
      /\ Harmless(<<"POS", "VAVG", "MXMH_TRA", "ST_AUTO", "SP">>)
  BY <1>5, <1>6, <1>8, HarmlessSteps
<1>e. Harmless(ArmAndWait) /\ Harmless(ReadAndCalibrate)
  BY <1>a, <1>c, HarmlessCalls, HarmlessCat DEF ArmAndWait, ReadAndCalibrate
<1> DEFINE C == Configure("POS", "RB")
           M == MeasurePeak("probe")
<1>9. CASE g = "tracked"
  <2>1. Harmless(C \o <<"L1">> \o ListSweep \o <<"RF1">>)
    BY <1>a, <1>b, HarmlessCalls, HarmlessCat
  <2>2. Harmless((IF q = 1 THEN <<>> ELSE <<"UP">>) \o M)
    BY <1>a, HarmlessCalls, HarmlessCat
  <2>3. QED
    BY <1>9, <2>1, <2>2 DEF Script, TrackedSweep
<1>10. CASE g = "panel"
  <2>1. Harmless(PanelApply)
    BY <1>a, <1>c, <1>d, HarmlessCat DEF PanelApply, Configure
  <2>2. QED
    BY <1>a, <1>b, <1>e, <1>10, <2>1, HarmlessPeak, HarmlessCat DEF Script, SpectrumPanel
<1>11. CASE g = "localize"
  BY <1>a, <1>11, HarmlessCalls, HarmlessCat DEF Script, Localize
<1>12. CASE g = "walk"
  <2>1. Harmless(SourcePrepare \o Prepare \o C \o SetSource \o <<"RF1">>)
    BY <1>a, HarmlessCalls, HarmlessCat
  <2>2. QED
    BY <1>a, <1>12, <2>1, HarmlessCalls, HarmlessPeak, HarmlessCat DEF Script, NearfieldWalkaround
<1>13. CASE g = "screen"
  BY <1>a, <1>d, <1>e, <1>13, HarmlessCalls, HarmlessCat DEF Script, SweptScreen
<1>14. CASE g = "cavity"
  BY <1>a, <1>b, <1>e, <1>14, HarmlessCat DEF Script, CavityQ
<1>15. CASE g = "validate"
  <2> DEFINE V1 == Trying(SourcePrepare) \o Trying(<<"CF1">>) \o Trying(<<"L1">>)
                      \o Trying(<<"RF1">> \o AwaitSettled) \o Trying(<<"RF0">>) \o Trying(Prepare)
             V2 == Trying(C \o M)
             V3 == Trying(<<"CF1", "RF1">> \o PeakPreselector(q) \o <<"RF0">>)
  <2>1. Harmless(V1)
    <3>1. Harmless(<<"RF1">> \o AwaitSettled)
      BY <1>a, HarmlessCalls, HarmlessCat
    <3>2. QED
      BY <1>a, <3>1, HarmlessCalls, HarmlessTrying, HarmlessCat
  <2>2. Harmless(V2) /\ Harmless(Trying(M))
    BY HarmlessCalls, HarmlessTrying, HarmlessCat
  <2>3. Harmless(V3)
    BY <1>a, <1>b, HarmlessPeak, HarmlessTrying, HarmlessCat
  <2> HIDE DEF V1, V2, V3
  <2>4. Harmless(V1 \o V2 \o V3 \o Trying(M))
    BY <2>1, <2>2, <2>3, HarmlessCat
  <2>5. Script(g, q) = V1 \o V2 \o V3 \o Trying(M)
    BY <1>15 DEF Script, ValidateDevices, V1, V2, V3
  <2>6. QED
    BY <2>4, <2>5
<1>16. CASE g = "check"
  <2>1. Harmless(SourcePrepare \o Prepare \o C)
    BY HarmlessCalls, HarmlessCat
  <2>2. Harmless(SetSource \o <<"RF0">> \o M \o <<"RF1">> \o AwaitSettled)
    BY <1>a, HarmlessCalls, HarmlessCat
  <2>3. Harmless(SetSource \o <<"RF0">> \o M \o <<"RF1">> \o AwaitSettled \o M \o <<"RF0">>
                   \o AwaitSettled \o M)
    BY <1>a, <2>2, HarmlessCalls, HarmlessCat
  <2>4. QED
    BY <1>16, <2>1, <2>3 DEF Script, CheckPath
<1>17. CASE g = "chain"
  <2>1. Harmless(SourcePrepare \o Prepare \o C)
    BY HarmlessCalls, HarmlessCat
  <2>2. Harmless(SetSource \o <<"RF0">> \o MeasureFloor("probe") \o <<"RF1">> \o AwaitSettled
                   \o M \o <<"RF0">>)
    BY <1>a, HarmlessCalls, HarmlessCat
  <2>3. QED
    BY <1>17, <2>1, <2>2 DEF Script, ChainSweep
<1>18. CASE g = "sweep"
  <2>1. Harmless(MeasureTrackedPeak(q) \o C)
    BY <1>a, <1>b, HarmlessCalls, HarmlessPeak, HarmlessCat DEF MeasureTrackedPeak
  <2>2. Harmless(SetSource \o <<"RF1">> \o AwaitSettled
                   \o (IF q \in High THEN MeasureTrackedPeak(q) \o C ELSE M))
    BY <1>a, <2>1, HarmlessCalls, HarmlessCat
  <2>3. QED
    BY <1>18, <2>2, HarmlessCalls DEF Script, SteppedCwSweep
<1>19. QED
  BY <1>9, <1>10, <1>11, <1>12, <1>13, <1>14, <1>15, <1>16, <1>17, <1>18 DEF OneFrequency, Driving

\* A preamble, and what ends the one of a program that relies on the floor from then on.
Floors(s) == s # <<>> /\ s[Len(s)] = "AT_FLOOR"

LEMMA SeqIn ==
  ASSUME NEW C, NEW D, C \subseteq D, NEW s \in Seq(C)
  PROVE  s \in Seq(D)
OBVIOUS

LEMMA CatIn ==
  ASSUME NEW C, NEW s \in Seq(C), NEW t \in Seq(C)
  PROVE  /\ s \o t \in Seq(C) /\ Len(s \o t) = Len(s) + Len(t)
         /\ \A i \in 1..Len(s) : (s \o t)[i] = s[i]
         /\ \A i \in 1..Len(t) : (s \o t)[Len(s) + i] = t[i]
OBVIOUS

LEMMA CatAssociates ==
  ASSUME NEW C, NEW r \in Seq(C), NEW s \in Seq(C), NEW t \in Seq(C)
  PROVE  r \o (s \o t) = (r \o s) \o t
OBVIOUS

LEMMA EndsInLast ==
  ASSUME NEW C, NEW s \in Seq(C), NEW c \in C
  PROVE  s \o <<c>> # <<>> /\ (s \o <<c>>)[Len(s \o <<c>>)] = c
<1>1. <<c>> \in Seq(C) /\ Len(<<c>>) = 1 /\ <<c>>[1] = c /\ Len(s) \in Nat
  OBVIOUS
<1>2. Len(s \o <<c>>) = Len(s) + 1 /\ (s \o <<c>>)[Len(s) + 1] = c
  OBVIOUS
<1>3. QED
  BY <1>1, <1>2

LEMMA EndsInFloor ==
  ASSUME NEW C, NEW s \in Seq(C), NEW t \in Seq(C), "AT_FLOOR" \in C
  PROVE  Floors(s \o (t \o <<"AT_FLOOR">>))
<1>1. s \o t \in Seq(C) /\ <<"AT_FLOOR">> \in Seq(C)
  OBVIOUS
<1>2. s \o (t \o <<"AT_FLOOR">>) = (s \o t) \o <<"AT_FLOOR">>
  BY <1>1, CatAssociates
<1>3. QED
  BY <1>1, <1>2, EndsInLast DEF Floors

LEMMA PreambleQuiet ==
  ASSUME NEW g \in Reading \cup Driving
  PROVE  /\ Script(g, 0) \in Seq(Quiet)
         /\ armed /\ g \in Driving => Floors(Script(g, 0))
<1> DEFINE C1 == {"RST", "IP", "CONTS", "TS", "SWEEP"}
           C2 == {"CONTS", "CLRW_TRA", "AUNITS_DBM", "RB", "RL", "POS", "SP_0", "ST"}
           C3 == {"AT_FLOOR", "AT_PLAN"}
           X == SourcePrepare \o Prepare
           Y == <<"CONTS", "CLRW_TRA", "AUNITS_DBM", "RB", "RL", "POS", "SP_0", "ST">>
<1>1. /\ SweepIsLive \in Seq(C1) /\ X \in Seq(C1)
  BY DEF SweepIsLive, TwoSweeps, SourcePrepare, Prepare
<1>2. Y \in Seq(C2)
  OBVIOUS
<1>3. <<"AT_FLOOR">> \in Seq(C3) /\ <<"AT_PLAN">> \in Seq(C3) /\ <<>> \in Seq(C3)
  OBVIOUS
<1>4. C1 \subseteq Quiet /\ C2 \subseteq Quiet /\ C3 \subseteq Quiet
  BY DEF Quiet
<1>5. Configure("POS", "RB") = Y \o (IF armed THEN <<"AT_FLOOR">> ELSE <<>>)
  BY DEF Configure
<1> HIDE DEF C1, C2, C3, X, Y
<1>6. /\ SweepIsLive \in Seq(Quiet) /\ X \in Seq(Quiet) /\ Y \in Seq(Quiet)
      /\ <<"AT_FLOOR">> \in Seq(Quiet) /\ <<"AT_PLAN">> \in Seq(Quiet) /\ <<>> \in Seq(Quiet)
  BY <1>1, <1>2, <1>3, <1>4, SeqIn
<1>7. Configure("POS", "RB") \in Seq(Quiet) /\ SetAttenuation \in Seq(Quiet)
  BY <1>5, <1>6, CatIn DEF SetAttenuation
<1>8. ASSUME armed, NEW s \in Seq(Quiet) PROVE Floors(s \o Configure("POS", "RB"))
  <2>1. Configure("POS", "RB") = Y \o <<"AT_FLOOR">>
    BY <1>5, <1>8
  <2>2. QED
    BY <1>6, <1>8, <2>1, EndsInFloor DEF Quiet
<1>9. CASE g = "reference"
  <2>1. Script(g, 0) = SweepIsLive \o SourcePrepare \o Prepare \o ConfigureAnalyzer
    BY <1>9 DEF Script, AcquireReference
  <2>2. SourcePrepare \in Seq(Quiet) /\ Prepare \in Seq(Quiet)
    <3>1. SourcePrepare \in Seq({"RST"}) /\ Prepare \in Seq({"IP", "CONTS", "TS"})
      BY DEF SourcePrepare, Prepare
    <3>2. {"RST"} \subseteq Quiet /\ {"IP", "CONTS", "TS"} \subseteq Quiet
      BY DEF Quiet
    <3>3. QED
      BY <3>1, <3>2, SeqIn
  <2>3. ConfigureAnalyzer \in Seq(Quiet)
    BY <1>7, CatIn DEF ConfigureAnalyzer
  <2>4. SweepIsLive \o SourcePrepare \o Prepare \o ConfigureAnalyzer \in Seq(Quiet)
    BY <1>6, <2>2, <2>3, CatIn
  <2>5. QED
    BY <1>9, <2>1, <2>4 DEF Driving
<1>10. CASE g \in {"wall", "drift"}
  BY <1>6, <1>10 DEF Script, MeasureWall, ReferenceDrift, ReadBack, Driving
<1>11. CASE g \in {"check", "chain"}
  <2>1. Script(g, 0) = X \o Configure("POS", "RB")
    BY <1>11 DEF Script, CheckPath, ChainSweep, X
  <2>2. X \o Configure("POS", "RB") \in Seq(Quiet)
    BY <1>6, <1>7, CatIn
  <2>3. armed => Floors(X \o Configure("POS", "RB"))
    BY <1>6, <1>8
  <2>4. QED
    BY <2>1, <2>2, <2>3
<1>12. CASE g = "sweep"
  <2>1. Script(g, 0) = <<>> \o Configure("POS", "RB")
    BY <1>7, <1>12 DEF Script, SteppedCwSweep
  <2>2. QED
    BY <1>6, <1>7, <1>8, <2>1, CatIn
<1>13. QED
  BY <1>9, <1>10, <1>11, <1>12 DEF Reading, Driving

----------------------------------------------------------------------------
(* How a part goes on. *)

\* s may run where G is known.
Leads(s, G) == \E a : Outline(s, a) /\ a[0] \subseteq G

LEMMA LeadsWeaker ==
  ASSUME NEW s, NEW G, NEW H, Leads(s, G), G \subseteq H
  PROVE  Leads(s, H)
BY DEF Leads

LEMMA RunsLeads ==
  ASSUME NEW s, NEW G, NEW H, Runs(s, G, H)
  PROVE  Leads(s, G)
BY DEF Runs, Leads

LEMMA PostMonotone ==
  ASSUME NEW c, NEW G, NEW H, G \subseteq H
  PROVE  Post(c, G) \subseteq Post(c, H)
<1>1. Gives(c, G) \subseteq Gives(c, H)
  BY DEF Gives
<1>2. QED
  BY <1>1 DEF Post

\* One command on.
LEMMA LeadsOn ==
  ASSUME NEW s, NEW G, Leads(s, G), s # <<>>
  PROVE  /\ Head(s) \in Command /\ Wants(Head(s)) \subseteq G
         /\ Leads(Tail(s), Post(Head(s), G))
<1>1. PICK a : Outline(s, a) /\ a[0] \subseteq G
  BY DEF Leads
<1>2. s \in Seq(Command) /\ Len(s) \in Nat \ {0}
  BY <1>1 DEF Outline
<1>3. /\ 1 \in 1..Len(s) /\ 1 \in 0..Len(s) /\ s[1] = Head(s) /\ s[1] \in Command /\ 1 - 1 = 0
      /\ Tail(s) = SubSeq(s, 1 + 1, Len(s))
  BY <1>2
<1>4. Wants(s[1]) \subseteq a[0] /\ a[1] \subseteq Post(s[1], a[0])
  BY <1>1, <1>3 DEF Outline, Follows
<1>5. a[1] \subseteq Post(Head(s), G)
  BY <1>1, <1>3, <1>4, PostMonotone
<1> DEFINE b == [i \in 0..(Len(s) - 1) |-> a[i + 1]]
<1>6. Outline(Tail(s), b)
  BY <1>1, <1>3, OutlineLeft
<1>7. b[0] = a[1]
  BY <1>2
<1> HIDE DEF b
<1>8. Leads(Tail(s), Post(Head(s), G))
  BY <1>5, <1>6, <1>7 DEF Leads
<1>9. QED
  BY <1>1, <1>3, <1>4, <1>8

\* What is left when k commands are skipped, after which no more is written than before.
LEMMA LeadsSkip ==
  ASSUME NEW s, NEW a, NEW G, Outline(s, a), NEW k \in 1..Len(s), a[k] \subseteq G
  PROVE  Leads(SubSeq(s, k + 1, Len(s)), G)
<1> DEFINE b == [i \in 0..(Len(s) - k) |-> a[i + k]]
<1>1. s \in Seq(Command) /\ Len(s) \in Nat
  BY DEF Outline
<1>2. k \in 0..Len(s) /\ 0 \in 0..(Len(s) - k) /\ 0 + k = k
  BY <1>1
<1>3. Outline(SubSeq(s, k + 1, Len(s)), b)
  BY <1>2, OutlineLeft
<1>4. b[0] = a[k]
  BY <1>2
<1> HIDE DEF b
<1>5. QED
  BY <1>3, <1>4 DEF Leads

\* None is returned.
LEMMA LeadsBack ==
  ASSUME NEW s, NEW G, Leads(s, G), s # <<>>, Head(s) = "GUARD"
  PROVE  Leads(After(s, "NONE"), G)
<1>1. PICK a : Outline(s, a) /\ a[0] \subseteq G
  BY DEF Leads
<1>2. s \in Seq(Command) /\ Len(s) \in Nat \ {0} /\ 1 \in 1..Len(s) /\ s[1] = "GUARD"
  <2>1. s \in Seq(Command)
    BY <1>1 DEF Outline
  <2>2. QED
    BY <2>1
<1>3. PICK k \in (1 + 1)..Len(s) : /\ s[k] = "NONE" /\ \A j \in 1..(k - 1) : s[j] # "NONE"
                                   /\ a[k] \subseteq a[1 - 1]
  BY <1>1, <1>2 DEF Outline, Returns
<1>4. k \in 1..Len(s) /\ a[k] \subseteq G
  BY <1>1, <1>2, <1>3
<1>5. After(s, "NONE") = SubSeq(s, k + 1, Len(s))
  BY <1>2, <1>3, <1>4, AfterIs
<1>6. QED
  BY <1>1, <1>4, <1>5, LeadsSkip

\* An except takes over.
LEMMA LeadsOut ==
  ASSUME NEW s, NEW G, Leads(s, G), Guarded(s)
  PROVE  Leads(After(s, "END"), G)
<1>1. PICK a : Outline(s, a) /\ a[0] \subseteq G
  BY DEF Leads
<1>2. s \in Seq(Command) /\ Len(s) \in Nat
  BY <1>1 DEF Outline
<1>3. PICK k \in 1..Len(s) : s[k] = "END" /\ \A j \in 1..(k - 1) : s[j] \notin {"TRY", "END"}
  BY <1>2, FirstEnd
<1>4. 1 \in 1..k /\ 1 - 1 = 0
  BY <1>2
<1>5. a[k] \subseteq G
  BY <1>1, <1>3, <1>4 DEF Outline, Brackets
<1>6. After(s, "END") = SubSeq(s, k + 1, Len(s))
  BY <1>2, <1>3, AfterIs
<1>7. QED
  BY <1>1, <1>5, <1>6, LeadsSkip

\* The next rung is tried.
LEMMA LeadsUp ==
  ASSUME NEW s, NEW G, NEW H, Leads(s, G), s # <<>>, Head(s) = "LADDER",
         NEW q \in Point, armed \in BOOLEAN, (G \cap AtLadder) \ {"taken"} \subseteq H,
         (IF armed THEN "direct" ELSE "padded") \in H
  PROVE  Leads(Rung(q, FALSE) \o s, H)
<1>1. PICK a : Outline(s, a) /\ a[0] \subseteq G
  BY DEF Leads
<1>2. s \in Seq(Command) /\ Len(s) \in Nat \ {0} /\ 1 \in 1..Len(s) /\ s[1] = "LADDER" /\ 1 - 1 = 0
  <2>1. s \in Seq(Command)
    BY <1>1 DEF Outline
  <2>2. QED
    BY <2>1
<1>3. Wants("LADDER") \subseteq a[0] /\ a[0] \subseteq AtLadder
  BY <1>1, <1>2 DEF Outline, Follows
<1>4. {"tf", "level"} \subseteq a[0]
  BY <1>3 DEF Wants, Mild
<1> DEFINE F == (a[0] \ {"taken"}) \cup {IF armed THEN "direct" ELSE "padded"}
<1>5. /\ F \in SUBSET (AtLadder \cup {"unread"}) /\ F \subseteq H
      /\ {"tf", "level", IF armed THEN "direct" ELSE "padded"} \subseteq F
  BY <1>1, <1>3, <1>4 DEF AtLadder
<1>6. a[0] \subseteq (F \ {"unread"}) \cup {"taken"}
  BY <1>3 DEF AtLadder
<1> HIDE DEF F
<1>7. Runs(Rung(q, FALSE), F, (F \ {"unread"}) \cup {"taken"})
  BY <1>5, RungRuns
<1>8. Runs(Rung(q, FALSE), F, a[0])
  BY <1>6, <1>7, RunsWeaker
<1>9. Closed(s)
  <2> SUFFICES ASSUME NEW k \in 1..Len(s), s[k] = "END", \A j \in 1..(k - 1) : s[j] # "TRY"
               PROVE  FALSE
    BY DEF Closed
  <2>1. 1 \in 1..k
    BY <1>2
  <2>2. s[1] # "LADDER"
    BY <1>1, <2>1 DEF Outline, Brackets
  <2>3. QED
    BY <1>2, <2>2
<1>10. Runs(s, a[0], {})
  BY <1>1, <1>9 DEF Runs
<1>11. Runs(Rung(q, FALSE) \o s, F, {})
  BY <1>8, <1>10, RunsCat
<1>12. QED
  BY <1>5, <1>11, RunsLeads, LeadsWeaker

LEMMA HarmlessOn ==
  ASSUME NEW s, Harmless(s), s # <<>>
  PROVE  Head(s) \in Plain /\ Harmless(Tail(s))
<1>1. s \in Seq(Plain) /\ Len(s) \in Nat \ {0}
  BY DEF Harmless
<1>2. 1 \in 0..Len(s) /\ Tail(s) = SubSeq(s, 1 + 1, Len(s)) /\ Head(s) \in Plain
  BY <1>1
<1>3. QED
  BY <1>2, HarmlessLeft

LEMMA HarmlessBack ==
  ASSUME NEW s, Harmless(s), s # <<>>, Head(s) = "GUARD"
  PROVE  Harmless(After(s, "NONE"))
<1>1. s \in Seq(Plain) /\ Len(s) \in Nat \ {0} /\ 1 \in 1..Len(s) /\ s[1] = "GUARD"
  <2>1. s \in Seq(Plain)
    BY DEF Harmless
  <2>2. QED
    BY <2>1
<1>2. PICK k \in (1 + 1)..Len(s) : s[k] = "NONE" /\ \A j \in 1..(k - 1) : s[j] # "NONE"
  BY <1>1 DEF Harmless
<1>3. k \in 1..Len(s) /\ k \in 0..Len(s)
  BY <1>1, <1>2
<1>4. After(s, "NONE") = SubSeq(s, k + 1, Len(s))
  BY <1>1, <1>2, <1>3, AfterIs
<1>5. QED
  BY <1>3, <1>4, HarmlessLeft

LEMMA HarmlessOut ==
  ASSUME NEW s, Harmless(s), Guarded(s)
  PROVE  Harmless(After(s, "END"))
<1>1. s \in Seq(Plain) /\ Len(s) \in Nat
  BY DEF Harmless
<1>2. PICK k \in 1..Len(s) : s[k] = "END" /\ \A j \in 1..(k - 1) : s[j] \notin {"TRY", "END"}
  BY <1>1, FirstEnd
<1>3. k \in 0..Len(s) /\ After(s, "END") = SubSeq(s, k + 1, Len(s))
  BY <1>1, <1>2, AfterIs
<1>4. QED
  BY <1>3, HarmlessLeft

----------------------------------------------------------------------------
(* The invariant. *)

\* Where what is written in an outline is so: at the points of a program that accepts
\* readings, or that a direct chain is armed for.
Tracked == p # 0 /\ (prog \in Reading \/ (armed /\ prog \in Driving))
Before == p = 0 /\ prog \in Reading \cup Driving

RowType ==
  [rung : {"wide", "narrow"}, dac : {"none", "read"},
   floor : Device \cup {NoRead}, ref : Device \cup {NoRead}]

Types ==
  /\ dev \in Device /\ armed \in BOOLEAN
  /\ prog \in Reading \cup Driving \cup OneFrequency \cup {"tracked", "panel", "idle"}
  /\ p \in 0..N /\ rung \in {"wide", "narrow"} /\ dac \in {"none", "read"}
  /\ got \in [Kinds -> Device \cup {NoRead}]
  /\ rows \in [Point -> RowType \cup {NoRow}]

\* What is left to do may be done with what is known.
Planned ==
  /\ prog = "idle" => todo = <<>> /\ p = 0
  /\ p = 0 => got = Unread
  /\ Tracked => Leads(todo, Known(dev))
  /\ ~Tracked => Harmless(todo)
  /\ Before => todo \in Seq(Quiet)

\* No tone is left on, and the attenuator stays where an armed program put it.
Protected ==
  /\ armed => prog \in Reading \cup Driving \cup {"idle"}
  /\ prog = "idle" \/ Before => dev.rf = "RF0"
  /\ armed /\ prog \in Driving =>
       IF p = 0 /\ todo # <<>> THEN Floors(todo) ELSE dev.at = "AT_FLOOR"
  /\ InputProtected

\* A reading is of what it relied on, and what peaked the preselector stands.
Sound ==
  /\ \A k \in Kinds : got[k] # NoRead => Wants(k) \subseteq Known(got[k])
  /\ prog = "reference" /\ dac = "read" =>
       p # 0 /\ dev.yig = p /\ (got["tone"] # NoRead => got["tone"].yig = p)

\* The tone a row keeps was read as this chain reads.
RowOf(b, q, r) ==
  /\ r.ref.f = q /\ r.ref.tf = q /\ r.ref.span = "zero" /\ r.ref.rbw = r.rung
  /\ r.ref.det = "POS" /\ r.ref.hold = "clear" /\ r.ref.vavg = "off" /\ r.ref.units = "DBM"
  /\ r.ref.at = Floor(b) /\ r.ref.level = Cap(b)
  /\ r.dac = "none" \/ r.ref.yig = q
Chain(b) == \A q \in Point : rows[q] # NoRow => RowOf(b, q, rows[q])
Kept ==
  /\ \E b \in BOOLEAN : Chain(b)
  /\ prog \in Reading => Chain(armed)
  /\ prog \in {"wall", "drift"} => Held /\ (p # 0 => rung = rows[p].rung)

Inv == Types /\ Planned /\ Protected /\ Sound /\ Kept

\* What is known of a reading, or of the instruments, is read off the rest of the state.
Lasting == Fact \ {"unread", "taken"}

LEMMA KnownStays ==
  ASSUME UNCHANGED <<armed, prog, p, rung>>, rows' = rows \/ prog = "reference"
  PROVE  /\ \A x \in Lasting : x \in Known(dev)' <=> x \in Known(dev')
         /\ \A k \in Kinds : \A x \in Lasting : x \in Known(got[k])' <=> x \in Known(got'[k])
         /\ got' = got => Known(dev)' = Known(dev')
<1> USE DEF Known
<1>1. \A x \in Lasting : x \in Known(dev)' <=> x \in Known(dev')
  <2> SUFFICES ASSUME NEW x \in Lasting
               PROVE  Holds(x, dev)' <=> Holds(x, dev')
    BY DEF Lasting
  <2>1. QED
    BY DEF Holds, Lasting
<1>2. \A k \in Kinds : \A x \in Lasting : x \in Known(got[k])' <=> x \in Known(got'[k])
  <2> SUFFICES ASSUME NEW k \in Kinds, NEW x \in Lasting
               PROVE  Holds(x, got[k])' <=> Holds(x, got'[k])
    BY DEF Lasting
  <2>1. QED
    BY DEF Holds, Lasting
<1>3. ASSUME got' = got PROVE Known(dev)' = Known(dev')
  <2> SUFFICES ASSUME NEW x \in Fact
               PROVE  Holds(x, dev)' <=> Holds(x, dev')
    OBVIOUS
  <2>1. QED
    BY <1>3 DEF Holds
<1>4. QED
  BY <1>1, <1>2, <1>3

LEMMA KindsLast == \A k \in Kinds : Wants(k) \subseteq Lasting
BY DEF Kinds, Wants, Mild, Clean, Lasting, Fact

LEMMA InvInit == ProgramInit => Inv
<1> SUFFICES ASSUME ProgramInit
             PROVE  Inv
  OBVIOUS
<1> USE DEF ProgramInit
<1>1. dev \in Device
  BY PointIsValue, NIsNat DEF Device, Setting, Value, Word
<1>2. Types
  <2>1. got \in [Kinds -> Device \cup {NoRead}] /\ rows \in [Point -> RowType \cup {NoRow}]
    BY DEF Unread, NoRows
  <2>2. p \in 0..N
    BY NIsNat
  <2>3. armed \in BOOLEAN /\ prog = "idle" /\ rung = "wide" /\ dac = "none"
    OBVIOUS
  <2>4. QED
    BY <1>1, <2>1, <2>2, <2>3, Zenon DEF Types
<1>3. Planned
  <2>1. <<>> \in Seq(Plain \ {"GUARD"})
    OBVIOUS
  <2>2. Harmless(todo)
    BY <2>1, HarmlessSteps
  <2>3. QED
    BY <2>2 DEF Planned, Tracked, Before, Reading, Driving
<1>4. Protected
  BY DEF Protected, InputProtected, Before, Reading, Driving
<1>5. Sound
  BY DEF Sound, Unread
<1>6. Kept
  BY DEF Kept, Chain, NoRows, Reading
<1>7. QED
  BY <1>2, <1>3, <1>4, <1>5, <1>6 DEF Inv

----------------------------------------------------------------------------
(* The steps that are taken where no program runs, or begin and end one. *)

LEMMA IdleFacts ==
  ASSUME Inv, prog = "idle"
  PROVE  /\ ~Tracked /\ ~Before /\ p = 0 /\ todo = <<>> /\ got = Unread /\ dev.rf = "RF0"
         /\ Harmless(todo) /\ dev \in Device
BY DEF Inv, Types, Planned, Protected, Tracked, Before, Reading, Driving

\* What is idle before and after: only the instruments and the arming may differ.
LEMMA IdleKeeps ==
  ASSUME Inv, prog = "idle", UNCHANGED <<prog, p, todo, rung, dac, got, rows>>,
         dev' \in Device, armed' \in BOOLEAN, dev'.rf = "RF0"
  PROVE  Inv'
<1>1. /\ prog' = "idle" /\ ~Tracked' /\ ~Before' /\ p' = 0 /\ todo' = <<>> /\ got' = Unread
      /\ Harmless(todo')
  BY IdleFacts DEF Tracked, Before, Reading, Driving
<1>2. Types'
  BY DEF Inv, Types
<1>3. Planned'
  BY <1>1 DEF Planned, Unread, Kinds, NoRead
<1>4. Protected'
  BY <1>1 DEF Protected, InputProtected, Driving
<1>5. Sound'
  BY <1>1 DEF Sound, Unread
<1>6. Kept'
  BY <1>1 DEF Inv, Kept, Chain, Reading
<1>7. QED
  BY <1>2, <1>3, <1>4, <1>5, <1>6 DEF Inv

LEMMA ArmKeeps ==
  ASSUME Inv, ArmDirectChain
  PROVE  Inv'
<1>1. PICK now \in {dev.at, "AT_FLOOR"} : dev' = [dev EXCEPT !["at"] = now]
  BY DEF ArmDirectChain
<1>2. prog = "idle" /\ dev \in Device /\ dev.rf = "RF0"
  BY IdleFacts DEF ArmDirectChain
<1>3. dev.at \in Value /\ "AT_FLOOR" \in Value /\ "at" \in Setting
  BY <1>2 DEF Device, Value, Word, Setting
<1>4. dev' \in Device /\ dev'.rf = "RF0"
  BY <1>1, <1>2, <1>3 DEF Device
<1>5. QED
  BY <1>2, <1>4, IdleKeeps DEF ArmDirectChain

LEMMA NewProcessKeeps ==
  ASSUME Inv, NewProcess
  PROVE  Inv'
BY IdleFacts, IdleKeeps DEF NewProcess

LEMMA OtherHandKeeps ==
  ASSUME Inv, OtherHand
  PROVE  Inv'
<1>1. prog = "idle" /\ dev \in Device /\ dev.rf = "RF0" /\ armed \in BOOLEAN
  BY IdleFacts DEF OtherHand, Inv, Types
<1>2. PICK s \in {"st", "units", "hold", "sweep", "vavg"},
           v \in {"stuck", "V", "max", "SNGLS", "on"} :
        dev' = [dev EXCEPT ![s] = v]
  BY DEF OtherHand
<1>3. s \in Setting /\ v \in Value /\ s # "rf"
  BY DEF Setting, Value, Word
<1>4. dev' \in Device /\ dev'.rf = "RF0"
  BY <1>1, <1>2, <1>3 DEF Device
<1>5. QED
  BY <1>1, <1>4, IdleKeeps DEF OtherHand

\* What ends a program, in time or not, leaves no tone on and keeps its rows, if any, whole.
LEMMA IdlesKeeps ==
  ASSUME Inv, Idles, dev' \in Device, dev'.rf = "RF0", rows' \in {rows, NoRows}
  PROVE  Inv'
<1>1. /\ prog' = "idle" /\ p' = 0 /\ todo' = <<>> /\ got' = Unread /\ armed' = armed
      /\ rung' = "wide" /\ dac' = "none"
  BY DEF Idles
<1>2. ~Tracked' /\ ~Before'
  BY <1>1 DEF Tracked, Before, Reading, Driving
<1>3. Types'
  <2>1. got' \in [Kinds -> Device \cup {NoRead}]
    BY <1>1 DEF Unread
  <2>2. rows' \in [Point -> RowType \cup {NoRow}]
    BY DEF NoRows, Inv, Types
  <2>3. QED
    BY <1>1, <2>1, <2>2, NIsNat DEF Inv, Types
<1>4. Planned'
  <2>1. <<>> \in Seq(Plain \ {"GUARD"})
    OBVIOUS
  <2>2. Harmless(todo')
    BY <1>1, <2>1, HarmlessSteps
  <2>3. QED
    BY <1>1, <1>2, <2>2 DEF Planned, Unread, Kinds, NoRead
<1>5. Protected'
  BY <1>1, <1>2 DEF Protected, InputProtected, Driving
<1>6. Sound'
  BY <1>1 DEF Sound, Unread
<1>7. Kept'
  <2>1. \E b \in BOOLEAN : Chain(b)'
    BY DEF Inv, Kept, Chain, NoRows
  <2>2. QED
    BY <1>1, <2>1 DEF Kept, Reading
<1>8. QED
  BY <1>3, <1>4, <1>5, <1>6, <1>7 DEF Inv

LEMMA EndsKeeps ==
  ASSUME Inv, Ends
  PROVE  Inv'
<1>1. dev' = [dev EXCEPT !["rf"] = "RF0"] /\ Idles /\ rows' \in {rows, NoRows}
  BY DEF Ends
<1>2. dev \in Device /\ "RF0" \in Value /\ "rf" \in Setting
  BY DEF Inv, Types, Value, Word, Setting
<1>3. dev' \in Device /\ dev'.rf = "RF0"
  BY <1>1, <1>2 DEF Device
<1>4. QED
  BY <1>1, <1>3, IdlesKeeps

LEMMA CutShortKeeps ==
  ASSUME Inv, CutShort
  PROVE  Inv'
<1>1. /\ Idles /\ rows' \in {rows, NoRows}
      /\ \E s \in {dev.sweep, "CONTS"} : dev' = [[dev EXCEPT !["rf"] = "RF0"] EXCEPT !["sweep"] = s]
  BY DEF CutShort
<1>2. PICK s \in {dev.sweep, "CONTS"} : dev' = [[dev EXCEPT !["rf"] = "RF0"] EXCEPT !["sweep"] = s]
  BY <1>1
<1>3. /\ dev \in Device /\ {"RF0", "CONTS"} \subseteq Value /\ {"rf", "sweep"} \subseteq Setting
      /\ dev.sweep \in Value
  BY DEF Inv, Types, Device, Value, Word, Setting
<1>4. dev' \in Device /\ dev'.rf = "RF0"
  BY <1>2, <1>3 DEF Device
<1>5. QED
  BY <1>1, <1>4, IdlesKeeps

----------------------------------------------------------------------------
(* The steps of a running program. *)

\* What no step of a running program changes but the ones that begin or end it, and what
\* then remains to be shown.
LEMMA OnwardKeeps ==
  ASSUME Inv, UNCHANGED <<armed, prog, p, rung, rows>>, prog # "idle",
         dev' \in Device, dac' \in {"none", "read"}, got' \in [Kinds -> Device \cup {NoRead}],
         p = 0 => got' = Unread,
         Tracked => Leads(todo', Known(dev)'), ~Tracked => Harmless(todo'),
         Before => todo' \in Seq(Quiet) /\ dev'.rf = "RF0",
         armed /\ prog \in Driving =>
           IF p = 0 /\ todo' # <<>> THEN Floors(todo') ELSE dev'.at = "AT_FLOOR",
         armed /\ dev'.rf = "RF1" => dev'.at = "AT_FLOOR" /\ dev'.level = "capped",
         \A k \in Kinds : got'[k] # NoRead => Wants(k) \subseteq Known(got'[k]),
         prog = "reference" /\ dac' = "read" =>
           p # 0 /\ dev'.yig = p /\ (got'["tone"] # NoRead => got'["tone"].yig = p)
  PROVE  Inv'
<1>1. (Tracked' <=> Tracked) /\ (Before' <=> Before)
  BY DEF Tracked, Before
<1>2. Types'
  BY DEF Inv, Types
<1>3. Planned'
  BY <1>1 DEF Planned, Unread, Kinds, NoRead
<1>4. Protected'
  BY <1>1 DEF Inv, Protected, InputProtected
<1>5. Sound'
  <2>1. ASSUME NEW k \in Kinds, got'[k] # NoRead
        PROVE  Wants(k) \subseteq Known(got[k])'
    <3>1. Wants(k) \subseteq Known(got'[k]) /\ Wants(k) \subseteq Lasting
      BY <2>1, KindsLast
    <3>2. QED
      BY <3>1, KnownStays
  <2>2. QED
    BY <2>1 DEF Sound
<1>6. Kept'
  BY DEF Inv, Kept, Chain, Held
<1>7. QED
  BY <1>2, <1>3, <1>4, <1>5, <1>6 DEF Inv

\* What holds wherever a step is taken: what is ahead may be done with what is known, and
\* a preamble is quiet.
LEMMA AheadIs ==
  ASSUME Inv, todo # <<>>
  PROVE  /\ prog # "idle"
         /\ Tracked => /\ Head(todo) \in Command /\ Wants(Head(todo)) \subseteq Known(dev)
                       /\ Leads(Tail(todo), Post(Head(todo), Known(dev)))
         /\ ~Tracked => Head(todo) \in Plain /\ Harmless(Tail(todo))
         /\ Before => /\ ~Tracked /\ p = 0 /\ Head(todo) \in Quiet /\ Tail(todo) \in Seq(Quiet)
                      /\ dev.rf = "RF0" /\ got = Unread
BY LeadsOn, HarmlessOn DEF Inv, Planned, Protected, Before, Tracked

\* An acceptance read is ahead of a point that is tracked, and nothing of the sort, nor a
\* bracket, is in a preamble.
LEMMA PlainIs ==
  /\ Plain \cap (Kinds \cup {"LADDER", "ROW"}) = {}
  /\ Quiet \cap {"GUARD", "PSDAC?", "TRY", "END", "NONE"} = {}
BY DEF Plain, Quiet, Kinds

\* What the rest of a sequence ends in.
LEMMA Shorter ==
  ASSUME NEW C, NEW s \in Seq(C), NEW t \in Seq(C), Len(t) = Len(s) - 1,
         \A i \in 1..Len(t) : t[i] = s[i + 1]
  PROVE  /\ t = <<>> => Len(s) = 1
         /\ t # <<>> => t[Len(t)] = s[Len(s)]
<1>1. Len(s) \in Nat /\ Len(t) \in Nat
  OBVIOUS
<1>2. ASSUME t = <<>> PROVE Len(s) = 1
  <2>1. Len(t) = 0
    BY <1>2
  <2>2. QED
    BY <1>1, <2>1
<1>3. ASSUME t # <<>> PROVE t[Len(t)] = s[Len(s)]
  <2>1. Len(t) # 0
    BY <1>3
  <2>2. Len(t) \in 1..Len(t) /\ Len(t) + 1 = Len(s)
    BY <1>1, <2>1
  <2>3. QED
    BY <2>2
<1>4. QED
  BY <1>2, <1>3

LEMMA TailEnds ==
  ASSUME NEW C, NEW s \in Seq(C), s # <<>>
  PROVE  /\ Tail(s) = <<>> => Len(s) = 1
         /\ Tail(s) # <<>> => Tail(s)[Len(Tail(s))] = s[Len(s)]
<1>1. Tail(s) \in Seq(C) /\ Len(Tail(s)) = Len(s) - 1
  OBVIOUS
<1>2. \A i \in 1..Len(Tail(s)) : Tail(s)[i] = s[i + 1]
  BY <1>1
<1>3. QED
  BY <1>1, <1>2, Shorter

\* A preamble that floors the attenuator does so when all that is left of it is done.
LEMMA FloorsOn ==
  ASSUME NEW s \in Seq(Quiet), Floors(s)
  PROVE  /\ Tail(s) # <<>> => Floors(Tail(s))
         /\ Tail(s) = <<>> => Head(s) = "AT_FLOOR"
<1>1. s # <<>> /\ s[Len(s)] = "AT_FLOOR"
  BY DEF Floors
<1>2. Head(s) = s[1]
  BY <1>1
<1>3. Tail(s) # <<>> => Floors(Tail(s))
  BY <1>1, TailEnds DEF Floors
<1>4. Tail(s) = <<>> => Len(s) = 1
  BY <1>1, TailEnds
<1>5. QED
  BY <1>1, <1>2, <1>3, <1>4, Zenon

LEMMA SendsKeeps ==
  ASSUME Inv, Sends
  PROVE  Inv'
<1> DEFINE c == Head(todo)
<1>1. /\ todo # <<>> /\ c \notin Decisions /\ todo' = Tail(todo)
      /\ dev' = Obeys(dev, c, p, rung)
      /\ UNCHANGED <<armed, prog, p, rung, dac, got, rows>>
  BY DEF Sends
<1>2. /\ dev \in Device /\ armed \in BOOLEAN /\ p \in 0..N /\ rung \in {"wide", "narrow"}
      /\ dac \in {"none", "read"} /\ got \in [Kinds -> Device \cup {NoRead}]
      /\ p = 0 => got = Unread
  BY DEF Inv, Types, Planned
<1>3. /\ prog # "idle"
      /\ Tracked => /\ c \in Command /\ Wants(c) \subseteq Known(dev)
                    /\ Leads(todo', Post(c, Known(dev)))
      /\ ~Tracked => Harmless(todo')
      /\ Before => ~Tracked /\ p = 0 /\ c \in Quiet /\ todo' \in Seq(Quiet) /\ dev.rf = "RF0"
  BY <1>1, AheadIs
<1> HIDE DEF c
<1>4. dev' \in Device
  BY <1>1, <1>2, ObeysTyped
<1>5. Known(dev)' = Known(dev')
  BY <1>1, KnownStays
<1>6. ASSUME Tracked PROVE Post(c, Known(dev)) \subseteq Known(dev')
  BY <1>1, <1>2, <1>3, <1>6, ObeysPost
<1>7. Tracked => Leads(todo', Known(dev)')
  BY <1>3, <1>5, <1>6, LeadsWeaker
<1>8. Before => dev'.rf = "RF0"
  BY <1>1, <1>2, <1>3, QuietKeeps
<1>9. ASSUME armed, prog \in Driving
      PROVE  IF p = 0 /\ todo' # <<>> THEN Floors(todo') ELSE dev'.at = "AT_FLOOR"
  <2>1. CASE p = 0
    <3>1. Floors(todo) /\ todo \in Seq(Quiet)
      BY <1>1, <1>9, <2>1 DEF Inv, Protected, Planned, Before
    <3>2. Tail(todo) # <<>> => Floors(Tail(todo))
      BY <3>1, FloorsOn
    <3>3. Tail(todo) = <<>> => c = "AT_FLOOR"
      BY <3>1, FloorsOn DEF c
    <3>4. QED
      BY <1>1, <1>2, <2>1, <3>2, <3>3, FloorSet
  <2>2. CASE p # 0
    <3>1. Tracked /\ dev.at = "AT_FLOOR"
      BY <1>9, <2>2 DEF Inv, Protected, Tracked
    <3>2. QED
      BY <1>1, <1>2, <1>3, <1>9, <2>2, <3>1, ProtectedKept
  <2>3. QED
    BY <2>1, <2>2
<1>10. ASSUME armed, dev'.rf = "RF1"
       PROVE  dev'.at = "AT_FLOOR" /\ dev'.level = "capped"
  <2>1. Tracked
    BY <1>3, <1>8, <1>10 DEF Inv, Protected, Tracked, Before
  <2>2. dev.rf = "RF1" => dev.at = "AT_FLOOR" /\ dev.level = "capped"
    BY <1>10 DEF Inv, Protected, InputProtected
  <2>3. QED
    BY <1>1, <1>2, <1>3, <1>10, <2>1, <2>2, ProtectedKept
<1>11. \A k \in Kinds : got'[k] # NoRead => Wants(k) \subseteq Known(got'[k])
  BY <1>1 DEF Inv, Sound
<1>12. ASSUME prog = "reference", dac' = "read"
       PROVE  p # 0 /\ dev'.yig = p /\ (got'["tone"] # NoRead => got'["tone"].yig = p)
  <2>1. p # 0 /\ dev.yig = p /\ (got["tone"] # NoRead => got["tone"].yig = p)
    BY <1>1, <1>12 DEF Inv, Sound
  <2>2. Tracked /\ "peaked" \in Known(dev)
    BY <1>12, <2>1, KnownIs DEF Tracked, Reading
  <2>3. "peaked" \in Post(c, Known(dev))
    BY <2>2 DEF Post, Spoils
  <2>4. dev'.yig = p
    BY <1>6, <1>12, <2>2, <2>3, KnownIs
  <2>5. QED
    BY <1>1, <2>1, <2>4
<1>13. QED
  BY <1>1, <1>2, <1>3, <1>4, <1>7, <1>8, <1>9, <1>10, <1>11, <1>12, OnwardKeeps

LEMMA ReadsKeeps ==
  ASSUME Inv, Reads
  PROVE  Inv'
<1>1. PICK k \in Kinds : /\ Meets(k) /\ got' = [got EXCEPT ![k] = dev]
                         /\ UNCHANGED <<dev, armed, prog, p, rung, dac, rows>>
  BY DEF Reads
<1>2. todo # <<>> /\ Head(todo) = k /\ todo' = Tail(todo)
  BY <1>1 DEF Meets
<1>3. /\ prog # "idle" /\ Tracked /\ p # 0 /\ ~Before /\ Wants(k) \subseteq Known(dev)
      /\ Leads(todo', Post(k, Known(dev)))
  BY <1>2, AheadIs, PlainIs DEF Tracked, Before
<1>4. /\ dev \in Device /\ dac \in {"none", "read"} /\ got \in [Kinds -> Device \cup {NoRead}]
  BY DEF Inv, Types
<1>5. dev # NoRead
  BY <1>4 DEF Device, Setting, NoRead
<1>6. /\ got' \in [Kinds -> Device \cup {NoRead}] /\ got'[k] = dev
      /\ \A j \in Kinds \ {k} : got'[j] = got[j]
  BY <1>1, <1>4
<1>7. Leads(todo', Known(dev)')
  <2>1. Post(k, Known(dev)) \subseteq Known(dev)'
    <3> SUFFICES ASSUME NEW x \in Post(k, Known(dev))
                 PROVE  x \in Known(dev)'
      OBVIOUS
    <3>1. CASE x \in Lasting
      <4>1. x \in Known(dev)
        BY <3>1 DEF Post, Gives, Kinds, Lasting
      <4>2. QED
        BY <1>1, <3>1, <4>1, KnownStays
    <3>2. CASE x \notin Lasting
      <4>1. x \in {"unread", "taken"}
        <5>1. Known(dev) \subseteq Fact
          BY DEF Known
        <5>2. QED
          BY <3>2, <5>1 DEF Post, Gives, Kinds, Lasting
      <4>2. "tone" \in Kinds
        BY DEF Kinds
      <4>3. CASE k = "tone"
        <5>1. x = "taken"
          BY <4>1, <4>3 DEF Post, Spoils, Gives
        <5>2. got'["tone"] # NoRead
          BY <1>5, <1>6, <4>3
        <5>3. QED
          BY <5>1, <5>2 DEF Known, Holds, Fact
      <4>4. CASE k # "tone"
        <5>1. x \in Known(dev) /\ got'["tone"] = got["tone"]
          BY <1>6, <4>1, <4>2, <4>4 DEF Post, Gives, Kinds
        <5>2. QED
          BY <4>1, <5>1 DEF Known, Holds, Fact
      <4>5. QED
        BY <4>3, <4>4
    <3>3. QED
      BY <3>1, <3>2
  <2>2. QED
    BY <1>3, <2>1, LeadsWeaker
<1>8. \A j \in Kinds : got'[j] # NoRead => Wants(j) \subseteq Known(got'[j])
  BY <1>3, <1>6 DEF Inv, Sound
<1>9. ASSUME armed, prog \in Driving
      PROVE  dev'.at = "AT_FLOOR"
  BY <1>1, <1>3, <1>9 DEF Inv, Protected
<1>10. armed /\ dev'.rf = "RF1" => dev'.at = "AT_FLOOR" /\ dev'.level = "capped"
  BY <1>1 DEF Inv, Protected, InputProtected
<1>11. ASSUME prog = "reference", dac' = "read"
       PROVE  p # 0 /\ dev'.yig = p /\ (got'["tone"] # NoRead => got'["tone"].yig = p)
  <2>1. p # 0 /\ dev.yig = p /\ (got["tone"] # NoRead => got["tone"].yig = p)
    BY <1>1, <1>11 DEF Inv, Sound
  <2>2. "tone" \in Kinds
    BY DEF Kinds
  <2>3. QED
    BY <1>1, <1>6, <2>1, <2>2
<1>12. QED
  BY <1>1, <1>3, <1>4, <1>6, <1>7, <1>8, <1>9, <1>10, <1>11, OnwardKeeps

\* A step that changes neither the instruments nor what was read of them.
LEMMA SilentKeeps ==
  ASSUME Inv, todo # <<>>, UNCHANGED <<dev, armed, prog, p, rung, got, rows>>,
         dac' \in {"none", "read"}, ~Before,
         Tracked => Leads(todo', Known(dev)), ~Tracked => Harmless(todo'),
         prog = "reference" /\ dac' = "read" =>
           dac = "read" \/ (p # 0 /\ dev.yig = p /\ got["tone"] = NoRead)
  PROVE  Inv'
<1>1. /\ dev \in Device /\ got \in [Kinds -> Device \cup {NoRead}]
  BY DEF Inv, Types
<1>2. prog # "idle" /\ (p = 0 => got = Unread)
  BY AheadIs DEF Inv, Planned
<1>3. Tracked => Leads(todo', Known(dev)')
  BY KnownStays
<1>4. armed /\ prog \in Driving => p # 0 /\ dev.at = "AT_FLOOR"
  BY DEF Inv, Protected, Before
<1>5. armed /\ dev.rf = "RF1" => dev.at = "AT_FLOOR" /\ dev.level = "capped"
  BY DEF Inv, Protected, InputProtected
<1>6. \A k \in Kinds : got[k] # NoRead => Wants(k) \subseteq Known(got[k])
  BY DEF Inv, Sound
<1>7. ASSUME prog = "reference", dac' = "read"
      PROVE  p # 0 /\ dev.yig = p /\ (got["tone"] # NoRead => got["tone"].yig = p)
  BY <1>7 DEF Inv, Sound
<1>8. QED
  BY <1>1, <1>2, <1>3, <1>4, <1>5, <1>6, <1>7, OnwardKeeps

LEMMA GuardsKeeps ==
  ASSUME Inv, Guards
  PROVE  Inv'
<1>1. /\ todo # <<>> /\ Head(todo) = "GUARD" /\ todo' \in {Tail(todo), After(todo, "NONE")}
      /\ UNCHANGED <<dev, armed, prog, p, rung, dac, got, rows>>
  BY DEF Guards
<1>2. ~Before /\ dac \in {"none", "read"}
  BY <1>1, AheadIs, PlainIs DEF Inv, Types
<1>3. ASSUME Tracked PROVE Leads(todo', Known(dev))
  <2>1. Post("GUARD", Known(dev)) \subseteq Known(dev)
    BY DEF Post, Gives
  <2>2. Leads(Tail(todo), Known(dev))
    BY <1>1, <1>3, <2>1, AheadIs, LeadsWeaker
  <2>3. Leads(After(todo, "NONE"), Known(dev))
    BY <1>1, <1>3, LeadsBack DEF Inv, Planned
  <2>4. QED
    BY <1>1, <2>2, <2>3
<1>4. ASSUME ~Tracked PROVE Harmless(todo')
  BY <1>1, <1>4, AheadIs, HarmlessBack DEF Inv, Planned
<1>5. QED
  BY <1>1, <1>2, <1>3, <1>4, SilentKeeps

LEMMA CaughtKeeps ==
  ASSUME Inv, Caught
  PROVE  Inv'
<1>1. /\ todo # <<>> /\ Guarded(todo) /\ todo' = After(todo, "END")
      /\ UNCHANGED <<dev, armed, prog, p, rung, dac, got, rows>>
  BY DEF Caught, Raisable
<1>2. ~Before
  <2>1. PICK i \in DOMAIN todo : todo[i] = "END"
    BY <1>1 DEF Guarded
  <2>2. todo \notin Seq(Quiet)
    BY <2>1, PlainIs
  <2>3. QED
    BY <2>2 DEF Inv, Planned
<1>3. Tracked => Leads(todo', Known(dev))
  BY <1>1, LeadsOut DEF Inv, Planned
<1>4. ~Tracked => Harmless(todo')
  BY <1>1, HarmlessOut DEF Inv, Planned
<1>5. dac \in {"none", "read"}
  BY DEF Inv, Types
<1>6. QED
  BY <1>1, <1>2, <1>3, <1>4, <1>5, SilentKeeps

LEMMA PeakedKeeps ==
  ASSUME Inv, Peaked
  PROVE  Inv'
<1>1. /\ todo # <<>> /\ Head(todo) = "PSDAC?" /\ todo' = Tail(todo) /\ dac' = "read"
      /\ UNCHANGED <<dev, armed, prog, p, rung, got, rows>>
  BY DEF Peaked, Meets
<1>2. ~Before
  BY <1>1, AheadIs, PlainIs
<1>3. ASSUME Tracked
      PROVE  {"peaked", "unread"} \subseteq Known(dev) /\ Leads(todo', Known(dev))
  <2>1. Post("PSDAC?", Known(dev)) \subseteq Known(dev) /\ Wants("PSDAC?") = {"peaked", "unread"}
    BY DEF Post, Gives, Wants, Mild
  <2>2. QED
    BY <1>1, <1>3, <2>1, AheadIs, LeadsWeaker
<1>4. ~Tracked => Harmless(todo')
  BY <1>1, AheadIs
<1>5. ASSUME prog = "reference" PROVE p # 0 /\ dev.yig = p /\ got["tone"] = NoRead
  <2>1. p # 0 /\ Tracked
    BY <1>2, <1>5 DEF Before, Tracked, Reading
  <2>2. QED
    BY <1>3, <1>5, <2>1, KnownIs
<1>6. QED
  BY <1>1, <1>2, <1>3, <1>4, <1>5, SilentKeeps

LEMMA RowKeeps ==
  ASSUME Inv, Row
  PROVE  Inv'
<1>1. /\ todo # <<>> /\ Head(todo) = "ROW" /\ todo' = Tail(todo)
      /\ rows' = [rows EXCEPT ![p] = [rung |-> rung, dac |-> dac, floor |-> got["floor"],
                                      ref |-> got["tone"]]]
      /\ UNCHANGED <<dev, armed, prog, p, rung, dac, got>>
  BY DEF Row, Meets
<1>2. /\ Types /\ rows \in [Point -> RowType \cup {NoRow}] /\ p \in 0..N
      /\ got \in [Kinds -> Device \cup {NoRead}] /\ armed \in BOOLEAN
  BY DEF Inv, Types
<1>3. Tracked /\ ~Before /\ p # 0
  BY <1>1, AheadIs, PlainIs DEF Tracked, Before
<1>4. {"taking", "taken"} \subseteq Known(dev) /\ Leads(todo', Known(dev))
  <2>1. Post("ROW", Known(dev)) \subseteq Known(dev) /\ Wants("ROW") = {"taking", "taken"}
    BY DEF Post, Gives, Wants, Mild
  <2>2. QED
    BY <1>1, <1>3, <2>1, AheadIs, LeadsWeaker
<1>5. prog = "reference" /\ got["tone"] # NoRead
  BY <1>4, KnownIs
<1>6. /\ p \in Point /\ {"tone", "floor"} \subseteq Kinds
  BY <1>2, <1>3, NIsNat DEF Point, Kinds
<1> DEFINE row == [rung |-> rung, dac |-> dac, floor |-> got["floor"], ref |-> got["tone"]]
<1>7. row \in RowType
  BY <1>2, <1>6 DEF Types, RowType
<1>8. rows' \in [Point -> RowType \cup {NoRow}] /\ rows' = [rows EXCEPT ![p] = row]
  BY <1>1, <1>2, <1>7
<1>9. RowOf(armed, p, row)
  <2>1. {"f", "tf", "span", "rbw", "cw", "units", "at", "level", "pos"} \subseteq Known(got["tone"])
    <3>1. {"f", "tf", "span", "rbw", "cw", "units", "at", "level", "pos"} \subseteq Wants("tone")
      BY DEF Wants, Mild, Clean
    <3>2. QED
      BY <1>5, <1>6, <3>1 DEF Inv, Sound
  <2>2. row.dac = "none" \/ row.ref.yig = p
    BY <1>2, <1>5 DEF Inv, Sound, Types
  <2>3. row.ref = got["tone"] /\ row.rung = rung
    OBVIOUS
  <2> HIDE DEF row
  <2>4. QED
    BY <2>1, <2>2, <2>3, KnownIs DEF RowOf
<1> HIDE DEF row
<1>10. /\ prog' = "reference" /\ Tracked' /\ ~Before'
  BY <1>1, <1>3, <1>5 DEF Tracked, Before, Reading
<1>11. Types'
  BY <1>1, <1>2, <1>8 DEF Types
<1>12. Planned'
  <2>1. Known(dev)' = Known(dev)
    BY <1>1, <1>5, KnownStays
  <2>2. p' = 0 => got' = Unread
    BY <1>1, <1>3
  <2>3. Leads(todo', Known(dev)')
    BY <1>4, <2>1
  <2>4. QED
    BY <1>10, <2>2, <2>3 DEF Planned, Unread, Kinds, NoRead
<1>13. Protected'
  BY <1>1, <1>10 DEF Inv, Protected, InputProtected, Driving, Reading
<1>14. Sound'
  <2>1. ASSUME NEW k \in Kinds, got'[k] # NoRead
        PROVE  Wants(k) \subseteq Known(got[k])'
    <3>1. Wants(k) \subseteq Known(got'[k]) /\ Wants(k) \subseteq Lasting
      BY <1>1, <2>1, KindsLast DEF Inv, Sound
    <3>2. QED
      BY <1>1, <1>5, <3>1, KnownStays
  <2>2. QED
    BY <1>1, <2>1 DEF Inv, Sound
<1>15. Kept'
  <2>1. Chain(armed)
    BY <1>5 DEF Inv, Kept, Reading
  <2>2. Chain(armed)'
    <3> SUFFICES ASSUME NEW q \in Point, rows'[q] # NoRow
                 PROVE  RowOf(armed', q, rows'[q])
      BY DEF Chain, RowOf, Floor, Cap
    <3>1. CASE q = p
      BY <1>1, <1>2, <1>8, <1>9, <3>1
    <3>2. CASE q # p
      BY <1>1, <1>2, <1>8, <2>1, <3>2 DEF Chain
    <3>3. QED
      BY <3>1, <3>2
  <2>3. QED
    BY <1>1, <1>2, <1>10, <2>2 DEF Kept
<1>16. QED
  BY <1>11, <1>12, <1>13, <1>14, <1>15 DEF Inv

LEMMA LadderKeeps ==
  ASSUME Inv, Ladder
  PROVE  Inv'
<1>1. /\ todo # <<>> /\ Head(todo) = "LADDER"
      /\ UNCHANGED <<dev, armed, prog, p, dac, rows>>
  BY DEF Ladder
<1>2. Tracked /\ ~Before /\ p # 0 /\ p \in Point
  <2>1. Tracked /\ ~Before
    BY <1>1, AheadIs, PlainIs
  <2>2. QED
    BY <2>1, NIsNat DEF Tracked, Point, Inv, Types
<1>3. /\ {"taking", "tf", "level"} \subseteq Known(dev)
      /\ Leads(Tail(todo), Known(dev))
  <2>1. /\ Post("LADDER", Known(dev)) \subseteq Known(dev)
        /\ Wants("LADDER") = {"taking", "tf", "level"}
    BY DEF Post, Gives, Wants, Mild
  <2>2. QED
    BY <1>1, <1>2, <2>1, AheadIs, LeadsWeaker
<1>4. prog = "reference"
  BY <1>3, KnownIs
<1>5. dac \in {"none", "read"} /\ armed \in BOOLEAN
  BY DEF Inv, Types
<1>6. CASE todo' = Tail(todo) /\ UNCHANGED <<rung, got>>
  BY <1>1, <1>2, <1>3, <1>5, <1>6, SilentKeeps
<1>7. CASE /\ rung' = "narrow" /\ todo' = Rung(p, FALSE) \o todo /\ got' = Unread
  <2>1. prog' = "reference" /\ Tracked' /\ ~Before'
    BY <1>1, <1>2, <1>4 DEF Tracked, Before
  <2>2. Types'
    <3>1. got' \in [Kinds -> Device \cup {NoRead}]
      BY <1>7 DEF Unread
    <3>2. QED
      BY <1>1, <1>7, <3>1 DEF Inv, Types
  <2>3. Planned'
    <3>1. (Known(dev) \cap AtLadder) \ {"taken"} \subseteq Known(dev)'
      <4>1. ASSUME NEW x \in {"taking", "tf", "level", "direct", "padded"}, x \in Known(dev)
            PROVE  x \in Known(dev)'
        BY <1>1, <4>1 DEF Known, Holds, Fact
      <4>2. QED
        BY <4>1 DEF AtLadder
    <3>2. (IF armed THEN "direct" ELSE "padded") \in Known(dev)'
      BY <1>1, <1>5 DEF Known, Holds, Fact
    <3>3. Leads(Rung(p, FALSE) \o todo, Known(dev)')
      BY <1>1, <1>2, <1>5, <3>1, <3>2, LeadsUp DEF Inv, Planned
    <3>4. QED
      BY <1>7, <2>1, <3>3 DEF Planned
  <2>4. Protected'
    BY <1>1, <2>1 DEF Inv, Protected, InputProtected, Driving, Reading
  <2>5. Sound'
    BY <1>1, <1>7 DEF Inv, Sound, Unread, Kinds
  <2>6. Kept'
    BY <1>1, <2>1, <1>4 DEF Inv, Kept, Chain, Reading
  <2>7. QED
    BY <2>2, <2>3, <2>4, <2>5, <2>6 DEF Inv
<1>8. QED
  BY <1>6, <1>7 DEF Ladder

LEMMA SourcePanelKeeps ==
  ASSUME Inv, SourcePanel
  PROVE  Inv'
<1>1. /\ prog = "panel"
      /\ dev' = [[[dev EXCEPT !["rf"] = "RF1"] EXCEPT !["tf"] = p] EXCEPT !["trace"] = "stale"]
      /\ UNCHANGED <<armed, prog, p, todo, rung, dac, got, rows>>
  BY DEF SourcePanel
<1>2. ~Tracked /\ ~Before /\ ~armed
  BY <1>1 DEF Inv, Protected, Tracked, Before, Reading, Driving
<1>3. dev' \in Device
  <2>1. /\ "RF1" \in Value /\ "stale" \in Value /\ p \in Value
        /\ {"rf", "tf", "trace"} \subseteq Setting
    BY NIsNat DEF Inv, Types, Value, Word, Setting
  <2>2. [dev EXCEPT !["rf"] = "RF1"] \in Device
    BY <2>1, DeviceSet DEF Inv, Types
  <2>3. [[dev EXCEPT !["rf"] = "RF1"] EXCEPT !["tf"] = p] \in Device
    BY <2>1, <2>2, DeviceSet
  <2>4. QED
    BY <1>1, <2>1, <2>3, DeviceSet
<1>4. /\ dac \in {"none", "read"} /\ got \in [Kinds -> Device \cup {NoRead}]
      /\ p = 0 => got = Unread
      /\ \A k \in Kinds : got[k] # NoRead => Wants(k) \subseteq Known(got[k])
      /\ Harmless(todo)
  BY <1>2 DEF Inv, Types, Planned, Sound
<1>5. QED
  BY <1>1, <1>2, <1>3, <1>4, OnwardKeeps

\* A part is begun by a program that may run it.
LEMMA PartKeeps ==
  ASSUME Inv, NEW g \in Reading \cup Driving \cup OneFrequency \cup {"tracked", "panel"},
         NEW q \in 0..N, Part(g, q), prog' = g, UNCHANGED <<dev, armed>>, rows' \in {rows, NoRows},
         armed => g \in Reading \cup Driving, q = 0 => dev.rf = "RF0",
         q # 0 /\ armed /\ g \in Driving => dev.at = "AT_FLOOR",
         g \in Reading => Chain(armed)', g \in {"wall", "drift"} => Held /\ rows' = rows
  PROVE  Inv'
<1>1. /\ p' = q /\ todo' = Script(g, q) /\ dac' = "none" /\ got' = Unread
      /\ rung' = IF g \in {"wall", "drift"} /\ q # 0 THEN rows[q].rung ELSE "wide"
  BY DEF Part
<1>2. /\ dev \in Device /\ armed \in BOOLEAN /\ rows \in [Point -> RowType \cup {NoRow}]
  BY DEF Inv, Types
<1>3. q # 0 => q \in Point
  BY NIsNat DEF Point
<1>4. prog' # "idle"
  BY DEF Reading, Driving, OneFrequency
<1>5. Types'
  <2>1. got' \in [Kinds -> Device \cup {NoRead}]
    BY <1>1 DEF Unread
  <2>2. rows' \in [Point -> RowType \cup {NoRow}]
    BY <1>2 DEF NoRows
  <2>3. rung' \in {"wide", "narrow"}
    <3>1. ASSUME g \in {"wall", "drift"}, q # 0
          PROVE  rows[q].rung \in {"wide", "narrow"}
      <4>1. rows[q] \in RowType
        BY <1>2, <1>3, <3>1 DEF Held
      <4>2. QED
        BY <4>1 DEF RowType
    <3>2. QED
      BY <1>1, <3>1
  <2>4. /\ p' \in 0..N
        /\ prog' \in Reading \cup Driving \cup OneFrequency \cup {"tracked", "panel", "idle"}
    BY <1>1
  <2>5. QED
    BY <1>1, <1>2, <2>1, <2>2, <2>3, <2>4, Zenon DEF Types
<1>6. ASSUME q # 0, g \in Reading \/ (armed /\ g \in Driving)
      PROVE  Leads(todo', Known(dev)')
  <2> DEFINE pad == IF armed THEN "direct" ELSE "padded"
  <2>1. pad \in Known(dev)' /\ "unread" \in Known(dev)'
    BY <1>1, <1>2 DEF Known, Holds, Fact, Unread, Kinds
  <2>2. CASE g = "reference"
    <3>1. "taking" \in Known(dev)'
      BY <2>2 DEF Known, Holds, Fact
    <3>2. Leads(AcquireReference(q), {"unread", "taking", pad})
      BY <1>2, <1>3, <1>6, ReferenceRuns, RunsLeads
    <3>3. todo' = AcquireReference(q)
      BY <1>1, <2>2 DEF Script
    <3> HIDE DEF pad
    <3>4. QED
      BY <2>1, <3>1, <3>2, <3>3, LeadsWeaker
  <2>3. CASE g \in {"wall", "drift"}
    <3>1. "comparing" \in Known(dev)'
      BY <2>3 DEF Known, Holds, Fact
    <3>2. rows[q].dac = "none" => "peaked" \in Known(dev)'
      BY <1>1, <2>3 DEF Known, Holds, Fact
    <3>3. Leads(ReadBack(q),
                {"comparing", pad} \cup (IF rows[q].dac = "none" THEN {"peaked"} ELSE {}))
      BY <1>2, <1>3, <1>6, ReadBackRuns, RunsLeads
    <3>4. todo' = ReadBack(q)
      BY <1>1, <2>3 DEF Script, MeasureWall, ReferenceDrift
    <3> HIDE DEF pad
    <3>5. QED
      BY <2>1, <3>1, <3>2, <3>3, <3>4, LeadsWeaker
  <2>4. CASE g \in Driving
    <3>1. armed /\ dev.at = "AT_FLOOR"
      BY <1>6, <2>4 DEF Reading, Driving
    <3>2. {"at", "direct"} \subseteq Known(dev)'
      BY <3>1 DEF Known, Holds, Fact, Floor
    <3>3. CASE g \in {"check", "chain"}
      <4>1. Leads(todo', {"at", "direct"})
        BY <1>1, <1>3, <1>6, <3>3, CheckRuns, RunsLeads DEF Script
      <4>2. QED
        BY <3>2, <4>1, LeadsWeaker
    <3>4. CASE g = "sweep"
      <4>1. Leads(todo', {"at", "direct", "unread"})
        BY <1>1, <1>3, <1>6, <3>1, <3>4, SweepRuns, RunsLeads DEF Script
      <4>2. QED
        BY <2>1, <3>2, <4>1, LeadsWeaker
    <3>5. QED
      BY <2>4, <3>3, <3>4 DEF Driving
  <2>5. QED
    BY <1>6, <2>2, <2>3, <2>4 DEF Reading
<1>7. ASSUME ~(q # 0 /\ (g \in Reading \/ (armed /\ g \in Driving)))
      PROVE  Harmless(todo')
  <2>1. CASE g \in {"tracked", "panel"} \cup OneFrequency \cup Driving
    BY <1>1, <2>1, HarmlessScripts
  <2>2. CASE g \in Reading
    <3>1. q = 0
      BY <1>7, <2>2
    <3>2. todo' \in Seq(Quiet)
      BY <1>1, <2>2, <3>1, PreambleQuiet
    <3>3. Quiet \in SUBSET (Plain \ {"GUARD"})
      BY DEF Plain, Quiet
    <3>4. QED
      BY <3>2, <3>3, HarmlessSteps
  <2>3. QED
    BY <2>1, <2>2
<1>8. (Tracked' <=> q # 0 /\ (g \in Reading \/ (armed /\ g \in Driving)))
      /\ (Before' <=> q = 0 /\ g \in Reading \cup Driving)
  BY <1>1 DEF Tracked, Before
<1>9. Planned'
  <2>1. Before' => todo' \in Seq(Quiet)
    BY <1>1, <1>8, PreambleQuiet
  <2>2. p' = 0 => got' = Unread
    BY <1>1
  <2>3. QED
    BY <1>4, <1>6, <1>7, <1>8, <2>1, <2>2 DEF Planned, Unread, Kinds, NoRead
<1>10. Protected'
  <2>1. armed /\ g \in Driving /\ q = 0 => Floors(todo')
    BY <1>1, PreambleQuiet
  <2>2. armed /\ g \in Driving =>
          IF q = 0 /\ todo' # <<>> THEN Floors(todo') ELSE dev.at = "AT_FLOOR"
    BY <2>1 DEF Floors
  <2>3. QED
    BY <1>1, <1>4, <1>8, <2>2 DEF Inv, Protected, InputProtected
<1>11. Sound'
  BY <1>1 DEF Sound, Unread
<1>12. Kept'
  <2>1. \E b \in BOOLEAN : Chain(b)'
    BY DEF Inv, Kept, Chain, NoRows
  <2>2. QED
    BY <1>1, <2>1 DEF Kept, Held
<1>13. QED
  BY <1>5, <1>9, <1>10, <1>11, <1>12 DEF Inv

\* What may run, and what is armed, and what it compares with.
LEMMA MayRunIs ==
  ASSUME NEW g, MayRun(g)
  PROVE  /\ g \in Reading \cup Driving \cup OneFrequency \cup {"tracked", "panel"}
         /\ armed => g \in Reading \cup Driving
         /\ g \in {"wall", "drift"} => SameChain
BY DEF MayRun, cmd_coordinator, cmd_checkpath, cmd_chain, cmd_calibrate, cmd_wall, cmd_capture,
       cmd_sweep, cmd_localize, cmd_q, cmd_validate, cmd_walkaround, Panels,
       Reading, Driving, OneFrequency

LEMMA SameChainIs ==
  ASSUME Inv, SameChain
  PROVE  Held /\ Chain(armed)
<1>1. Held /\ armed = (rows[1].ref.at = "AT_FLOOR") /\ armed \in BOOLEAN
  BY DEF SameChain, Inv, Types
<1>2. PICK b \in BOOLEAN : Chain(b)
  BY DEF Inv, Kept
<1>3. CASE N = 0
  <2>1. Point = {}
    BY <1>3 DEF Point
  <2>2. QED
    BY <1>1, <2>1 DEF Chain
<1>4. CASE N # 0
  <2>1. 1 \in Point
    BY <1>4, NIsNat DEF Point
  <2>2. rows[1].ref.at = Floor(b)
    BY <1>1, <1>2, <2>1 DEF Chain, RowOf, Held
  <2>3. armed = b
    BY <1>1, <2>2 DEF Floor
  <2>4. QED
    BY <1>1, <1>2, <2>3
<1>5. QED
  BY <1>3, <1>4

LEMMA BeginKeeps ==
  ASSUME Inv, NEW g, Begin(g)
  PROVE  Inv'
<1>1. /\ prog = "idle" /\ MayRun(g) /\ prog' = g /\ UNCHANGED <<dev, armed>>
      /\ rows' = IF g = "reference" THEN NoRows ELSE rows
  BY DEF Begin
<1>2. PICK q \in IF g \in OneFrequency THEN Point ELSE {0} : Part(g, q)
  BY DEF Begin
<1>3. q \in 0..N /\ (q # 0 => g \in OneFrequency)
  BY <1>2, NIsNat DEF Point
<1>4. /\ g \in Reading \cup Driving \cup OneFrequency \cup {"tracked", "panel"}
      /\ armed => g \in Reading \cup Driving
      /\ g \in {"wall", "drift"} => SameChain
  BY <1>1, MayRunIs
<1>5. q = 0 => dev.rf = "RF0"
  BY <1>1, IdleFacts
<1>6. ~(q # 0 /\ g \in Driving)
  BY <1>3 DEF Driving, OneFrequency
<1>7. ASSUME g \in Reading
      PROVE  Chain(armed)'
  <2>1. CASE g = "reference"
    BY <1>1, <2>1 DEF Chain, NoRows
  <2>2. CASE g \in {"wall", "drift"}
    <3>1. Chain(armed)
      BY <1>4, <2>2, SameChainIs
    <3>2. QED
      BY <1>1, <2>2, <3>1 DEF Chain
  <2>3. QED
    BY <1>7, <2>1, <2>2 DEF Reading
<1>8. g \in {"wall", "drift"} => Held /\ rows' = rows
  BY <1>1, <1>4, SameChainIs
<1>9. QED
  BY <1>1, <1>2, <1>3, <1>4, <1>5, <1>6, <1>7, <1>8, PartKeeps

LEMMA NextPartKeeps ==
  ASSUME Inv, NextPart
  PROVE  Inv'
<1>1. /\ prog # "idle" /\ todo = <<>> /\ p < N /\ prog \notin OneFrequency
      /\ Part(prog, p + 1) /\ UNCHANGED <<dev, armed, prog, rows>>
  BY DEF NextPart
<1>2. p + 1 \in 0..N /\ p + 1 # 0
  BY <1>1, NIsNat DEF Inv, Types
<1>3. /\ prog \in Reading \cup Driving \cup OneFrequency \cup {"tracked", "panel"}
      /\ armed => prog \in Reading \cup Driving
      /\ armed /\ prog \in Driving => dev.at = "AT_FLOOR"
  BY <1>1 DEF Inv, Types, Protected
<1>4. prog \in Reading => Chain(armed)'
  BY <1>1 DEF Inv, Kept, Chain
<1>5. prog \in {"wall", "drift"} => Held
  BY DEF Inv, Kept
<1>6. QED
  BY <1>1, <1>2, <1>3, <1>4, <1>5, PartKeeps

LEMMA InvNext == Inv /\ [ProgramNext]_pvars => Inv'
<1> SUFFICES ASSUME Inv, [ProgramNext]_pvars
             PROVE  Inv'
  OBVIOUS
<1>1. CASE UNCHANGED pvars
  <2>1. /\ UNCHANGED <<dev, armed, prog, p, todo, rung, dac, got, rows>>
    BY <1>1 DEF pvars
  <2>2. CASE prog = "idle"
    BY <2>1, <2>2, IdleFacts, IdleKeeps DEF Inv, Types
  <2>3. CASE prog # "idle"
    <3>1. Known(dev)' = Known(dev)
      BY <2>1, KnownStays
    <3>2. QED
      BY <2>1, <2>3, <3>1, OnwardKeeps DEF Inv, Types, Planned, Protected, InputProtected, Sound
  <2>4. QED
    BY <2>2, <2>3
<1>2. QED
  BY <1>1, ArmKeeps, NewProcessKeeps, BeginKeeps, NextPartKeeps, EndsKeeps, SendsKeeps,
     ReadsKeeps, GuardsKeeps, PeakedKeeps, LadderKeeps, RowKeeps, CaughtKeeps, CutShortKeeps,
     SourcePanelKeeps, OtherHandKeeps
     DEF ProgramNext

LEMMA Invariant == ProgramSpec => []Inv
BY InvInit, InvNext, PTL DEF ProgramSpec

\* Every setting, point, reading and row is one that the program can mean (drivers.py,
\* loop.py).
THEOREM ProgramTypes == ProgramSpec => []Types
<1>1. Inv => Types
  BY DEF Inv
<1>2. QED
  BY <1>1, Invariant, PTL

\* An acceptance read is taken as its pass says, whatever ran before, wherever that broke
\* off and whatever another hand left (drivers.py configure, measure_peak, measure_floor).
THEOREM CleanReads == ProgramSpec => []ReadsAreClean
<1>1. ASSUME Inv PROVE ReadsAreClean
  <2> SUFFICES ASSUME NEW k \in Kinds, got[k] # NoRead
               PROVE  LET d == got[k]
                      IN /\ d.f = p /\ d.tf = p /\ d.span = "zero" /\ d.rbw = rung
                         /\ d.hold = "clear" /\ d.vavg = "off" /\ d.units = "DBM"
                         /\ d.trace = "fresh"
                         /\ IF k = "floor" THEN d.det = "SMP" /\ d.rf = "RF0"
                                           ELSE d.det = "POS" /\ d.rf = "RF1"
    BY DEF ReadsAreClean
  <2>1. Wants(k) \subseteq Known(got[k])
    BY <1>1 DEF Inv, Sound
  <2>2. Clean \subseteq Wants(k) /\ IF k = "floor" THEN {"smp", "off"} \subseteq Wants(k)
                                                   ELSE {"pos", "on"} \subseteq Wants(k)
    BY DEF Kinds, Wants, Mild
  <2>3. {"f", "tf", "span", "rbw", "cw", "units", "trace"} \subseteq Clean
    BY DEF Clean
  <2>4. QED
    BY <2>1, <2>2, <2>3, KnownIs
<1>2. QED
  BY <1>1, Invariant, PTL

\* The reading a point is compared by differs from its reference by the shield alone
\* (loop.py measure_wall, reference_drift).
THEOREM Comparisons == ProgramSpec => []PassesCompare
<1>1. ASSUME Inv PROVE PassesCompare
  <2> SUFFICES ASSUME got["again"] # NoRead, NEW s \in Comparable(p)
               PROVE  got["again"][s] = rows[p].ref[s]
    BY DEF PassesCompare
  <2> DEFINE d == got["again"]
  <2>1. Wants("again") \subseteq Known(d)
    BY <1>1 DEF Inv, Sound, Kinds
  <2>2. {"f", "tf", "span", "rbw", "cw", "units", "at", "level", "trace", "pos", "on", "peaked",
         "comparing"} \subseteq Known(d)
    BY <2>1 DEF Wants, Mild, Clean
  <2>3. prog \in {"wall", "drift"}
    BY <2>2, KnownIs
  <2>4. p \in Point
    <3>1. p # 0
      BY <1>1 DEF Inv, Planned, Unread, Kinds
    <3>2. QED
      BY <1>1, <3>1, NIsNat DEF Inv, Types, Point
  <2>5. RowOf(armed, p, rows[p]) /\ rung = rows[p].rung
    BY <1>1, <2>3, <2>4 DEF Inv, Kept, Held, Chain, Reading, Point
  <2>6. /\ d.f = p /\ d.tf = p /\ d.span = "zero" /\ d.rbw = rung /\ d.hold = "clear"
        /\ d.vavg = "off" /\ d.units = "DBM" /\ d.at = Floor(armed) /\ d.level = Cap(armed)
        /\ d.det = "POS" /\ (d.yig = p \/ rows[p].dac = "none")
    BY <2>2, KnownIs
  <2> HIDE DEF d
  <2>7. \A t \in {"f", "tf", "span", "rbw", "det", "hold", "vavg", "units", "at", "level"} :
          d[t] = rows[p].ref[t]
    BY <2>5, <2>6 DEF RowOf
  <2>8. rows[p].dac # "none" => d["yig"] = rows[p].ref["yig"]
    BY <2>5, <2>6 DEF RowOf
  <2>9. QED
    BY <2>7, <2>8 DEF Comparable, d
<1>2. QED
  BY <1>1, Invariant, PTL

\* On a direct chain the source never drives the analyzer harder than what was armed
\* (drivers.py arm_direct_chain, prepare, configure, set_power).
THEOREM ProtectedInput == ProgramSpec => []InputProtected
<1>1. Inv => InputProtected
  BY DEF Inv, Protected
<1>2. QED
  BY <1>1, Invariant, PTL

=============================================================================

---------------------------- MODULE BridgeVm_proofs ----------------------------
(***************************************************************************)
(* One qemu per disk, for every budget of attempts, polls and upsets.      *)
(***************************************************************************)
EXTENDS BridgeVm, TLAPS

\* The values that the argument is about.
MachineType ==
  /\ mode \in {"golden", "singleton"} /\ key \in {"yes", "no"} /\ pc \in Steps /\ at \in Units
  /\ vm \in [Instances -> {"off", "boot", "up"}] /\ ending \in [Instances -> {"yes", "no"}]
  /\ healed \in {"yes", "no"}

\* A launch that has looked has nothing to launch over, and a guest is launched
\* again only after it was stopped.
LaunchInv ==
  /\ MachineType
  /\ pc = "prepare" => vm[Of(at)] = "off" /\ ending[Of(at)] = "no"
  /\ pc = "heal" => healed = "yes"
  /\ OneQemuPerInstance

LEMMA LaunchInit == Init => LaunchInv
BY BringUpAssumption
   DEF Init, LaunchInv, MachineType, Steps, Launching, Units, Instances, OneQemuPerInstance

LEMMA LaunchNext == LaunchInv /\ [Next]_vars => LaunchInv'
<1> SUFFICES ASSUME LaunchInv, [Next]_vars PROVE LaunchInv'
  OBVIOUS
<1> USE DEF LaunchInv, MachineType, Steps, Launching, Units, Instances, Of,
            OneQemuPerInstance, command, tally, machine
<1>1. CASE Begin
  BY <1>1 DEF Begin
<1>2. CASE Look
  BY <1>2 DEF Look, Fails, Launched, Live
<1>3. CASE Prepare
  BY <1>3 DEF Prepare, Starts, Launched
<1>4. CASE Settle
  BY <1>4 DEF Settle, Second, First
<1>5. CASE Verify \/ Join \/ \E u \in Units : Poll(u)
  BY <1>5 DEF Verify, Join, Poll
<1>6. CASE Singleton
  BY <1>6 DEF Singleton
<1>7. CASE JoinGuest
  BY <1>7 DEF JoinGuest, Signals, SignalTimesOut
<1>8. CASE Heal
  BY <1>8 DEF Heal, Fails, Starts, Launched
<1>9. CASE Gate
  BY <1>9 DEF Gate, Signals, SignalTimesOut, Fails
<1>10. CASE FollowFxload
  BY <1>10 DEF FollowFxload
<1>11. CASE Attach
  BY <1>11 DEF Attach, AttachAdapter
<1>12. CASE AttachNext
  BY <1>12 DEF AttachNext
<1>13. CASE Killed
  BY <1>13 DEF Killed, Fails
<1>14. CASE \E u \in Units : ResetEnds(u) \/ Unplug(u) \/ Plug(u)
  BY <1>14 DEF ResetEnds, Unplug, Plug
<1>15. CASE \E i \in Instances : Provisions(i)
  BY <1>15 DEF Provisions
<1>16. CASE \E i \in Instances : Exits(i)
  BY <1>16 DEF Exits
<1>17. CASE \E i \in Instances : VmStop(i)
  BY <1>17 DEF VmStop, Stoppable
<1>18. CASE ResetsCollide \/ Fxload
  BY <1>18 DEF ResetsCollide, Fxload
<1>19. CASE UNCHANGED vars
  BY <1>19 DEF vars
<1>20. QED
  BY <1>1, <1>2, <1>3, <1>4, <1>5, <1>6, <1>7, <1>8, <1>9, <1>10, <1>11, <1>12,
     <1>13, <1>14, <1>15, <1>16, <1>17, <1>18, <1>19
     DEF Next, Command

\* instance_is_live before a launch: no qemu is started on the disk of one that
\* runs or has not exited, but by the singleton's self-heal.
THEOREM OneQemu == Spec => []OneQemuPerInstance
<1>1. LaunchInv => OneQemuPerInstance
  BY DEF LaunchInv
<1>2. QED
  BY <1>1, LaunchInit, LaunchNext, PTL DEF Spec

-----------------------------------------------------------------------------
\* The steps of ensure_singleton alone.
Attaching == {"begin", "join", "heal", "gate", "gate2", "attach", "fxload"}

\* A console says "current" only of a guest that came up, a guest was polled as
\* provisioned only if its console says something, and the singleton attaches to
\* a guest that is up unless it was launched again or could not be asked.
ConsoleInv ==
  /\ MachineType
  /\ console \in [Instances -> {"none", "past", "current"}]
  /\ provisioned \in [Units -> Nat] /\ verdict \in [Units -> Done \cup {"none", "polling"}]
  /\ pc = "heal" => healed = "yes"
  /\ pc = "gate2" => healed = "yes"
  /\ pc \in Attaching => mode = "singleton"
  /\ \A i \in Instances : console[i] = "current" => vm[i] # "boot"
  /\ \A u \in Units : provisioned[u] > 0 => console[Of(u)] # "none"
  /\ pc \in {"attach", "fxload"} => vm["one"] # "boot" \/ healed = "yes" \/ key = "no"

LEMMA ConsoleInit == Init => ConsoleInv
BY BringUpAssumption
   DEF Init, ConsoleInv, MachineType, Steps, Launching, Units, Instances, Attaching, Of, Done

LEMMA ConsoleNext == ConsoleInv /\ [Next]_vars => ConsoleInv'
<1> SUFFICES ASSUME ConsoleInv, [Next]_vars PROVE ConsoleInv'
  OBVIOUS
<1> USE DEF ConsoleInv, MachineType, Steps, Launching, Units, Instances, Of,
            Attaching, Done, command, tally, machine
<1>1. CASE Begin
  BY <1>1 DEF Begin
<1>2. CASE Look
  BY <1>2 DEF Look, Fails, Launched, Live
<1>3. CASE Prepare
  BY <1>3 DEF Prepare, Starts, Launched
<1>4. CASE Settle
  BY <1>4 DEF Settle, Second, First
<1>5. CASE Verify \/ Join \/ \E u \in Units : Poll(u)
  BY <1>5 DEF Verify, Join, Poll, Polled, Reattaches
<1>6. CASE Singleton
  BY <1>6 DEF Singleton
<1>7. CASE JoinGuest
  BY <1>7 DEF JoinGuest, Signals, SignalTimesOut
<1>8. CASE Heal
  BY <1>8 DEF Heal, Fails, Starts, Launched
<1>9. CASE Gate
  BY <1>9 DEF Gate, Signals, SignalTimesOut, Fails
<1>10. CASE FollowFxload
  BY <1>10 DEF FollowFxload
<1>11. CASE Attach
  BY <1>11 DEF Attach, AttachAdapter
<1>12. CASE AttachNext
  BY <1>12 DEF AttachNext
<1>13. CASE Killed
  BY <1>13 DEF Killed, Fails
<1>14. CASE \E u \in Units : ResetEnds(u) \/ Unplug(u) \/ Plug(u)
  BY <1>14 DEF ResetEnds, Unplug, Plug
<1>15. CASE \E i \in Instances : Provisions(i)
  BY <1>15 DEF Provisions
<1>16. CASE \E i \in Instances : Exits(i)
  BY <1>16 DEF Exits
<1>17. CASE \E i \in Instances : VmStop(i)
  BY <1>17 DEF VmStop, Stoppable
<1>18. CASE ResetsCollide \/ Fxload
  BY <1>18 DEF ResetsCollide, Fxload
<1>19. CASE UNCHANGED vars
  BY <1>19 DEF vars
<1>20. QED
  BY <1>1, <1>2, <1>3, <1>4, <1>5, <1>6, <1>7, <1>8, <1>9, <1>10, <1>11, <1>12,
     <1>13, <1>14, <1>15, <1>16, <1>17, <1>18, <1>19
     DEF Next, Command

LEMMA WedgedAfter ==
  ConsoleInv /\ [Next]_vars =>
    [\A u \in Units : verdict[u] # "wedged" /\ verdict'[u] = "wedged" =>
       \/ vm[Of(u)] # "boot" \/ console[Of(u)] = "past"
       \/ healed = "yes" \/ (mode = "singleton" /\ key = "no")]_vars
<1> SUFFICES ASSUME ConsoleInv, Next,
                    NEW u \in Units, verdict[u] # "wedged", verdict'[u] = "wedged"
             PROVE  \/ vm[Of(u)] # "boot" \/ console[Of(u)] = "past"
                    \/ healed = "yes" \/ (mode = "singleton" /\ key = "no")
  OBVIOUS
<1> USE DEF ConsoleInv, MachineType, Steps, Launching, Units, Instances,
            Attaching, Done, command, tally, machine
<1>1. CASE Begin \/ Look \/ Prepare \/ Settle \/ Verify \/ Join \/ Singleton \/ JoinGuest
           \/ Heal \/ Gate \/ FollowFxload \/ AttachNext \/ Killed \/ ResetsCollide \/ Fxload
  BY <1>1
     DEF Begin, Look, Fails, Prepare, Settle, Verify, Join, Singleton, JoinGuest,
         Heal, Gate, FollowFxload, AttachNext, Killed, ResetsCollide, Fxload
<1>2. ASSUME NEW w \in Units, Poll(w)
      PROVE  console[Of(u)] # "none"
  <2>1. u = w
    BY <1>2 DEF Poll
  <2>2. ~Answers(u) /\ IsWedged(u, tries'[u], provisioned'[u])
    BY <1>2, <2>1 DEF Poll
  <2>3. provisioned'[u] >= Grace
    BY <2>2 DEF IsWedged
  <2>4. CASE console[Of(u)] = "none"
    <3>1. provisioned'[u] = provisioned[u]
      BY <1>2, <2>1, <2>2, <2>4 DEF Poll
    <3>2. QED
      BY <2>3, <3>1, BringUpAssumption
  <2>5. QED
    BY <2>4
<1>3. CASE Attach
  BY <1>3 DEF Attach, Of
<1>4. CASE \E w \in Units : ResetEnds(w) \/ Unplug(w) \/ Plug(w)
  BY <1>4 DEF ResetEnds, Unplug, Plug
<1>5. CASE \E i \in Instances : Provisions(i) \/ Exits(i) \/ VmStop(i)
  BY <1>5 DEF Provisions, Exits, VmStop
<1>6. Of(u) \in Instances
  BY DEF Of
<1>7. QED
  BY <1>1, <1>2, <1>3, <1>4, <1>5, <1>6 DEF Next, Command

\* R6: the verdict "wedged" waits for the guest, on every path that asks for its
\* console or for its marker over SSH, whatever is replugged, killed or repeated; a
\* singleton without a key, which takes qemu's monitor for the guest, is excused.
THEOREM VerdictWaits == Spec => VerdictAfterProvisioning
BY ConsoleInit, ConsoleNext, WedgedAfter, PTL DEF Spec, VerdictAfterProvisioning

-----------------------------------------------------------------------------
\* While a command runs, an instrument without a verdict has polls left, and before
\* the polls nothing has a verdict.
BudgetInv ==
  /\ TypeOK
  /\ \A u \in Units : provisioned[u] <= polls[u]
  /\ pc # "idle" => \A u \in Units : verdict[u] \in Done \/ polls[u] < MaxPolls
  /\ pc \notin {"idle", "poll", "attach", "fxload"} => \A u \in Units : verdict[u] = "none"

LEMMA BudgetInit == Init => BudgetInv
BY BringUpAssumption
   DEF Init, BudgetInv, TypeOK, Steps, Launching, Units, Instances, Done

LEMMA BudgetNext == BudgetInv /\ [Next]_vars => BudgetInv'
<1> SUFFICES ASSUME BudgetInv, [Next]_vars PROVE BudgetInv'
  OBVIOUS
<1> USE BringUpAssumption
    DEF BudgetInv, TypeOK, Steps, Launching, Units, Instances, Of, Done,
        command, tally, machine
<1>1. CASE Begin
  BY <1>1 DEF Begin
<1>2. CASE Look
  BY <1>2 DEF Look, Fails, Launched, Live
<1>3. CASE Prepare
  BY <1>3 DEF Prepare, Starts, Launched, Claimed
<1>4. CASE Settle
  BY <1>4 DEF Settle, Second, First
<1>5. CASE Verify \/ Join
  <2>1. CASE Verify
    <3>1. verdict' \in [Units -> {"fell", "answered", "polling"}]
      BY <2>1 DEF Verify
    <3>2. /\ pc = "verify" /\ pc' = "poll"
          /\ UNCHANGED <<mode, key, at, pinned, prev, reads, before, tries, polls, provisioned,
                         usb, fx2, claim, machine, upsets>>
      BY <2>1 DEF Verify
    <3>3. \A u \in Units : verdict'[u] \in Done \/ polls'[u] < MaxPolls
      BY <3>1, <3>2, <2>1 DEF Verify
    <3>4. QED
      BY <3>1, <3>2, <3>3
  <2>2. CASE Join
    BY <2>2 DEF Join
  <2>3. QED
    BY <1>5, <2>1, <2>2
<1>6. ASSUME NEW u \in Units, Poll(u) PROVE BudgetInv'
  <2>1. CASE Answers(u)
    BY <1>6, <2>1 DEF Poll
  <2>2. CASE ~Answers(u)
    <3>1. /\ tries' \in [Units -> 0..Attempts]
          /\ claim' \in [Units -> {"none", "resetting", "stale", "live"}]
      BY <1>6, <2>2 DEF Poll, Reattaches, Claimed
    <3>2. /\ polls' = [polls EXCEPT ![u] = @ + 1] /\ polls[u] < MaxPolls
          /\ \/ provisioned' = [provisioned EXCEPT ![u] = @ + 1]
             \/ provisioned' = [provisioned EXCEPT ![u] = @]
      <4>1. polls' = [polls EXCEPT ![u] = @ + 1]
        BY <1>6, <2>2 DEF Poll, Polled
      <4>2. polls[u] < MaxPolls
        BY <1>6 DEF Poll
      <4>3. CASE console[Of(u)] # "none"
        BY <1>6, <2>2, <4>1, <4>2, <4>3 DEF Poll
      <4>4. CASE console[Of(u)] = "none"
        BY <1>6, <2>2, <4>1, <4>2, <4>4 DEF Poll
      <4>5. QED
        BY <4>1, <4>2, <4>3, <4>4
    <3>3. /\ polls' \in [Units -> 0..MaxPolls] /\ provisioned' \in [Units -> 0..MaxPolls]
          /\ \A w \in Units : provisioned'[w] <= polls'[w]
      BY <3>2
    <3>4. /\ verdict' \in [Units -> Done \cup {"none", "polling"}]
          /\ \A w \in Units \ {u} : verdict'[w] = verdict[w] /\ polls'[w] = polls[w]
          /\ verdict'[u] \in Done \/ polls'[u] # MaxPolls
      BY <1>6, <2>2 DEF Poll, Polled
    <3>5. \A w \in Units : verdict'[w] \in Done \/ polls'[w] < MaxPolls
      BY <1>6, <3>3, <3>4 DEF Poll
    <3>6. pc = "poll" /\ UNCHANGED <<command, usb, fx2, machine, upsets>>
      BY <1>6 DEF Poll
    <3>7. QED
      BY <3>1, <3>3, <3>4, <3>5, <3>6
  <2>3. QED
    BY <2>1, <2>2
<1>7. CASE Singleton
  BY <1>7 DEF Singleton
<1>8. CASE JoinGuest
  BY <1>8 DEF JoinGuest, Detached
<1>9. CASE Heal
  BY <1>9 DEF Heal, Fails, Starts, Launched, Claimed
<1>10. CASE Gate
  BY <1>10 DEF Gate, Fails
<1>11. CASE FollowFxload
  BY <1>11 DEF FollowFxload, Claimed
<1>12. CASE Attach
  BY <1>12 DEF Attach, AttachAdapter, Polled, Claimed
<1>13. CASE AttachNext
  BY <1>13 DEF AttachNext
<1>14. CASE Killed
  BY <1>14 DEF Killed, Upset, Fails
<1>15. CASE \E u \in Units : ResetEnds(u) \/ Unplug(u) \/ Plug(u)
  <2>1. ASSUME NEW u \in Units, ResetEnds(u) PROVE BudgetInv'
    BY <2>1 DEF ResetEnds
  <2>2. ASSUME NEW u \in Units, Unplug(u) PROVE BudgetInv'
    BY <2>2 DEF Unplug, Upset
  <2>3. ASSUME NEW u \in Units, Plug(u) PROVE BudgetInv'
    BY <2>3 DEF Plug, Upset
  <2>4. QED
    BY <1>15, <2>1, <2>2, <2>3
<1>16. CASE \E i \in Instances : Provisions(i) \/ Exits(i) \/ VmStop(i)
  <2>1. ASSUME NEW i \in Instances, Provisions(i) PROVE BudgetInv'
    BY <2>1 DEF Provisions
  <2>2. ASSUME NEW i \in Instances, Exits(i) PROVE BudgetInv'
    BY <2>2 DEF Exits
  <2>3. ASSUME NEW i \in Instances, VmStop(i) PROVE BudgetInv'
    <3>1. /\ claim' \in [Units -> {"none", "resetting", "stale", "live"}]
          /\ vm' \in [Instances -> {"off", "boot", "up"}]
          /\ ending' \in [Instances -> {"yes", "no"}] /\ upsets' \in 0..MaxUpsets
      BY <2>3 DEF VmStop, Upset, Detached
    <3>2. UNCHANGED <<command, tally, usb, fx2, console, healed>>
      BY <2>3 DEF VmStop
    <3>3. QED
      BY <3>1, <3>2
  <2>4. QED
    BY <1>16, <2>1, <2>2, <2>3
<1>17. CASE ResetsCollide \/ Fxload
  <2>1. CASE ResetsCollide
    BY <2>1 DEF ResetsCollide
  <2>2. CASE Fxload
    BY <2>2 DEF Fxload
  <2>3. QED
    BY <1>17, <2>1, <2>2
<1>18. CASE UNCHANGED vars
  BY <1>18 DEF vars
<1>19. QED
  BY <1>1, <1>2, <1>3, <1>4, <1>5, <1>6, <1>7, <1>8, <1>9, <1>10, <1>11, <1>12,
     <1>13, <1>14, <1>15, <1>16, <1>17, <1>18
     DEF Next, Command

\* Every variable keeps its type: no adapter is attached again more often than
\* wedge_after_attempts, and no instrument is polled beyond wait_timeout.
THEOREM TypeCorrect == Spec => []TypeOK
<1>1. BudgetInv => TypeOK
  BY DEF BudgetInv
<1>2. QED
  BY <1>1, BudgetInit, BudgetNext, PTL DEF Spec
=============================================================================

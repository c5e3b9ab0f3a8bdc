---------------------------- MODULE InstrumentLink ----------------------------
(***************************************************************************)
(* connection.AnalyzerLink and SourceLink: the life of the two links, "rx" *)
(* to the analyzer and "tx" to the source, with the liveness probe of      *)
(* control_plane, the soft recovery that Coordinator wires into them, and  *)
(* the two ways of using an instrument: through the link (read_via), or    *)
(* with the link's driver in hand, as loop.py does.                        *)
(*                                                                         *)
(* Each link has its own thread of calls, so the two interleave.  What is  *)
(* at the far end of a link changes at any moment:                         *)
(*   ok      the instrument answers                                        *)
(*   down    the bridge cannot be reached                                  *)
(*   silent  the bridge answers, the instrument does not                   *)
(*   wedged  the bridge answers, the USB adapter is hung                   *)
(***************************************************************************)
EXTENDS Naturals

CONSTANTS
  Recoverable,   \* the links with a recover_fn
  Discovery,     \* what discovery can return: "match", "absent", "mismatch", "error"
  Retries,       \* connect attempts of one ensure()
  FaultAfter,    \* consecutive failures that make a FAULT
  Budget,        \* replugs of one soft recovery
  MaxUpsets,     \* bound on the changes at the far ends
  MaxCount       \* bound on the counters of drops and reconnects, which stop there

Role == {"rx", "tx"}

ASSUME LinkAssumption ==
  /\ Recoverable \subseteq Role
  /\ Discovery \subseteq {"match", "absent", "mismatch", "error"}
  /\ Retries \in Nat \ {0}
  /\ FaultAfter \in Nat \ {0}
  /\ Budget \in Nat \ {0}
  /\ MaxUpsets \in Nat
  /\ MaxCount \in Nat

VARIABLES
  \* code state
  state, opened,    \* opened: links whose `analyzer` is not None
  consec, dropped, reconnects,
  pc,               \* what the link's thread is doing
  tries,            \* connects begun by the ensure() in progress, 0 outside one
  replugs,          \* replugs of the recovery in progress
  \* the far ends
  plant,
  stale,            \* opened links whose connection is lost
  rf,               \* the source's output
  upsets,
  \* history, read by the properties alone
  streak,           \* failures in a row
  verdict,          \* links whose last failure carried ADAPTER_WEDGED
  drops,            \* times a READY link was lost other than by close()
  direct            \* outcome of the last use with the driver in hand

lifecycle == <<state, opened, consec, dropped, reconnects, pc, tries, replugs>>
world == <<plant, stale, rf, upsets>>
history == <<streak, verdict, drops, direct>>
vars == <<state, opened, consec, dropped, reconnects, pc, tries, replugs,
          plant, stale, rf, upsets, streak, verdict, drops, direct>>

State == {"DISCONNECTED", "ABSENT", "FAILED", "INVALID", "READY", "FAULT"}

TypeOK ==
  /\ state \in [Role -> State]
  /\ opened \in SUBSET Role
  /\ consec \in [Role -> 0..FaultAfter]
  /\ dropped \in SUBSET Role
  /\ reconnects \in [Role -> 0..MaxCount]
  /\ pc \in [Role -> {"idle", "ensure", "dekey", "replug", "probe"}]
  /\ tries \in [Role -> 0..Retries]
  /\ replugs \in [Role -> 0..Budget]
  /\ plant \in [Role -> {"ok", "down", "silent", "wedged"}]
  /\ stale \in SUBSET opened
  /\ rf \in {"on", "off"}
  /\ upsets \in 0..MaxUpsets
  /\ streak \in [Role -> 0..FaultAfter]
  /\ verdict \in SUBSET Role
  /\ drops \in [Role -> 0..MaxCount]
  /\ direct \in [Role -> {"none", "ok", "failed"}]

Init ==
  /\ state = [r \in Role |-> "DISCONNECTED"]
  /\ opened = {} /\ dropped = {} /\ stale = {} /\ verdict = {}
  /\ consec = [r \in Role |-> 0]
  /\ reconnects = [r \in Role |-> 0]
  /\ pc = [r \in Role |-> "idle"]
  /\ tries = [r \in Role |-> 0]
  /\ replugs = [r \in Role |-> 0]
  /\ plant = [r \in Role |-> "ok"]
  /\ rf = "off"
  /\ upsets = 0
  /\ streak = [r \in Role |-> 0]
  /\ drops = [r \in Role |-> 0]
  /\ direct = [r \in Role |-> "none"]

-----------------------------------------------------------------------------
CappedAt(bound, n) == IF n > bound THEN bound ELSE n

\* The opened driver of r can talk to its instrument.
Works(r) == r \in opened \ stale /\ plant[r] = "ok"

\* Opening with the liveness probe.  The analyzer's idn() raises when nothing
\* answers; the source's swallows every exception and returns "", so that only
\* an unreachable bridge fails its probe.
Opens(r) == plant[r] = "ok" \/ (r = "tx" /\ plant[r] \in {"silent", "wedged"})

\* Back to the loop of the ensure() in progress, or to the caller (n = 0: no
\* ensure; n = Retries: attempts used up).
Resume(r, n) ==
  LET more == n \in 1..(Retries - 1)
  IN  /\ pc' = [pc EXCEPT ![r] = IF more THEN "ensure" ELSE "idle"]
      /\ tries' = [tries EXCEPT ![r] = IF more THEN n ELSE 0]

Set(r, st) == state' = [state EXCEPT ![r] = st]

Fault(r) ==
  /\ Set(r, "FAULT")
  /\ pc' = [pc EXCEPT ![r] = "idle"]
  /\ tries' = [tries EXCEPT ![r] = 0]

\* _bump_failure, with the link otherwise in state st, during attempt n.
Failed(r, n, st, isWedged) ==
  /\ consec' = [consec EXCEPT ![r] = CappedAt(FaultAfter, @ + 1)]
  /\ streak' = [streak EXCEPT ![r] = CappedAt(FaultAfter, @ + 1)]
  /\ verdict' = IF isWedged THEN verdict \cup {r} ELSE verdict \ {r}
  /\ IF ~isWedged /\ consec[r] + 1 < FaultAfter
     THEN Set(r, st) /\ Resume(r, n) /\ UNCHANGED replugs
     ELSE IF r \in Recoverable
     THEN /\ Set(r, st)
          /\ pc' = [pc EXCEPT ![r] = "dekey"]
          /\ tries' = [tries EXCEPT ![r] = n]
          /\ replugs' = [replugs EXCEPT ![r] = 0]
     ELSE Fault(r) /\ UNCHANGED replugs

\* A failure names the wedged adapter only if there is one to name.
Verdicts(r) == {v \in BOOLEAN : v => plant[r] = "wedged" /\ r \notin stale}

\* ensure and connect ---------------------------------------------------------

\* mutant: a link whose open failed is left for the operator
EnsureBegins_OnlyDisconnected(r) ==
  /\ pc[r] = "idle"
  /\ state[r] = "DISCONNECTED"
  /\ pc' = [pc EXCEPT ![r] = "ensure"]
  /\ UNCHANGED <<state, opened, consec, dropped, reconnects, tries, replugs, world, history>>

\* ensure() of a link that is neither READY nor at FAULT.
EnsureBegins(r) ==
  /\ pc[r] = "idle"
  /\ state[r] # "FAULT"
  /\ ~(state[r] = "READY" /\ r \in opened)
  /\ pc' = [pc EXCEPT ![r] = "ensure"]
  /\ UNCHANGED <<state, opened, consec, dropped, reconnects, tries, replugs, world, history>>

\* mutant: a READY link goes on counting from the failures before it
Ready_KeepsCounting(r) ==
  /\ Set(r, "READY")
  /\ opened' = opened \cup {r}
  /\ reconnects' = [reconnects EXCEPT ![r] =
                      IF r \in dropped THEN CappedAt(MaxCount, @ + 1) ELSE @]
  /\ dropped' = dropped \ {r}
  /\ streak' = [streak EXCEPT ![r] = 0]
  /\ verdict' = verdict \ {r}
  /\ Resume(r, 0)
  /\ UNCHANGED <<consec, replugs>>

Ready(r) ==
  /\ Set(r, "READY")
  /\ opened' = opened \cup {r}
  /\ reconnects' = [reconnects EXCEPT ![r] =
                      IF r \in dropped THEN CappedAt(MaxCount, @ + 1) ELSE @]
  /\ dropped' = dropped \ {r}
  /\ consec' = [consec EXCEPT ![r] = 0]
  /\ streak' = [streak EXCEPT ![r] = 0]
  /\ verdict' = verdict \ {r}
  /\ Resume(r, 0)
  /\ UNCHANGED replugs

\* Discovery finds no such instrument, or the wrong one: not a failure.
Unmatched(r, d) ==
  /\ d \in {"absent", "mismatch"}
  /\ opened' = opened \ {r}
  /\ Set(r, IF d = "absent" THEN "ABSENT" ELSE "INVALID")
  /\ Resume(r, tries[r] + 1)
  /\ UNCHANGED <<consec, replugs, streak, verdict, reconnects, dropped>>

\* One connect() of an ensure() loop: it starts by closing what was open.
Connect(r) ==
  /\ pc[r] = "ensure"
  /\ stale' = stale \ {r}
  /\ \E d \in Discovery :
       \/ d = "match" /\ Opens(r) /\ Ready(r)
       \/ /\ d = "match" /\ ~Opens(r)
          /\ opened' = opened \ {r}
          /\ \E v \in Verdicts(r) : Failed(r, tries[r] + 1, "FAILED", v)
          /\ UNCHANGED <<reconnects, dropped>>
       \/ /\ d = "error"
          /\ opened' = opened \ {r}
          /\ Failed(r, tries[r] + 1, "FAILED", FALSE)
          /\ UNCHANGED <<reconnects, dropped>>
       \/ Unmatched(r, d)
  /\ UNCHANGED <<plant, rf, upsets, drops, direct>>

\* Use ------------------------------------------------------------------------

\* An operation on the source may switch it.
Operated(r) == IF r = "tx" THEN rf' \in {"on", "off"} ELSE rf' = rf

\* read_via, read_sweep, write_via.
UseAnswers(r) ==
  /\ pc[r] = "idle" /\ state[r] = "READY"
  /\ Works(r)
  /\ Operated(r)
  /\ consec' = [consec EXCEPT ![r] = 0]
  /\ streak' = [streak EXCEPT ![r] = 0]
  /\ verdict' = verdict \ {r}
  /\ UNCHANGED <<state, opened, dropped, reconnects, pc, tries, replugs,
                 plant, stale, upsets, drops, direct>>

\* The operation raises: _on_drop.
UseDrops(r) ==
  /\ pc[r] = "idle" /\ state[r] = "READY"
  /\ ~Works(r)
  /\ opened' = opened \ {r}
  /\ stale' = stale \ {r}
  /\ dropped' = dropped \cup {r}
  /\ drops' = [drops EXCEPT ![r] = CappedAt(MaxCount, @ + 1)]
  /\ \E v \in Verdicts(r) : Failed(r, 0, "DISCONNECTED", v)
  /\ UNCHANGED <<reconnects, plant, rf, upsets, direct>>

\* The driver in hand: an exception goes to the caller, past the link.
DirectUse(r) ==
  /\ pc[r] = "idle" /\ r \in opened
  /\ direct' = [direct EXCEPT ![r] = IF Works(r) THEN "ok" ELSE "failed"]
  /\ IF Works(r) THEN Operated(r) ELSE rf' = rf
  /\ UNCHANGED <<lifecycle, plant, stale, upsets, streak, verdict, drops>>

Close(r) ==
  /\ pc[r] = "idle"
  /\ Set(r, "DISCONNECTED")
  /\ opened' = opened \ {r}
  /\ stale' = stale \ {r}
  /\ UNCHANGED <<consec, dropped, reconnects, pc, tries, replugs, plant, rf, upsets, history>>

\* recovery.soft_recover ------------------------------------------------------

\* dekey_fn: rf_off on the source's driver, if there is one; errors are ignored.
Dekey(r) ==
  /\ pc[r] = "dekey"
  /\ pc' = [pc EXCEPT ![r] = "replug"]
  /\ rf' = IF Works("tx") THEN "off" ELSE rf
  /\ UNCHANGED <<state, opened, consec, dropped, reconnects, tries, replugs,
                 plant, stale, upsets, history>>

\* replug_fn.  A USB reset clears some wedges, and not others.
Replug(r) ==
  /\ pc[r] = "replug"
  /\ pc' = [pc EXCEPT ![r] = "probe"]
  /\ replugs' = [replugs EXCEPT ![r] = @ + 1]
  /\ \/ UNCHANGED plant
     \/ plant[r] = "wedged" /\ plant' = [plant EXCEPT ![r] = "ok"]
  /\ UNCHANGED <<state, opened, consec, dropped, reconnects, tries, stale, rf, upsets, history>>

\* QMP fails: the exception is a failed recovery.
ReplugRaises(r) ==
  /\ pc[r] = "replug"
  /\ Fault(r)
  /\ UNCHANGED <<opened, consec, dropped, reconnects, replugs, world, history>>

\* What probe_alive can answer: it discovers, matches and opens, and swallows
\* what any of the three raises.
ProbeAlive(r) == {d = "match" /\ Opens(r) : d \in Discovery}

\* mutant: the budget is not looked at
ProbeFails_Endless(r) ==
  /\ pc[r] = "probe" /\ FALSE \in ProbeAlive(r)
  /\ pc' = [pc EXCEPT ![r] = "replug"]
  /\ replugs' = [replugs EXCEPT ![r] = 0]
  /\ UNCHANGED <<state, opened, consec, dropped, reconnects, tries, world, history>>

\* probe_alive finds nothing: once more, or FAULT when the budget is spent.
ProbeFails(r) ==
  /\ pc[r] = "probe" /\ FALSE \in ProbeAlive(r)
  /\ IF replugs[r] < Budget
     THEN pc' = [pc EXCEPT ![r] = "replug"] /\ UNCHANGED <<state, tries>>
     ELSE Fault(r)
  /\ UNCHANGED <<opened, consec, dropped, reconnects, replugs, world, history>>

\* Recovered: the streak is over, and the next ensure reconnects.
ProbeAnswers(r) ==
  /\ pc[r] = "probe" /\ TRUE \in ProbeAlive(r)
  /\ Set(r, "DISCONNECTED")
  /\ Resume(r, tries[r])
  /\ consec' = [consec EXCEPT ![r] = 0]
  /\ streak' = [streak EXCEPT ![r] = 0]
  /\ verdict' = verdict \ {r}
  /\ dropped' = dropped \cup {r}
  /\ drops' = [drops EXCEPT ![r] = CappedAt(MaxCount, @ + 1)]
  /\ UNCHANGED <<opened, reconnects, replugs, world, direct>>

\* The far ends ---------------------------------------------------------------

Upset(r) ==
  /\ upsets < MaxUpsets
  /\ upsets' = upsets + 1
  /\ \E p \in {"ok", "down", "silent", "wedged"} \ {plant[r]} :
       /\ plant' = [plant EXCEPT ![r] = p]
       /\ stale' = IF p = "down" /\ r \in opened THEN stale \cup {r} ELSE stale
  /\ UNCHANGED <<lifecycle, rf, history>>

\* The bridge's dead-man, when the source's connection is gone.
DeadMan ==
  /\ rf = "on"
  /\ "tx" \notin opened \ stale
  /\ plant["tx"] = "ok"
  /\ rf' = "off"
  /\ UNCHANGED <<lifecycle, plant, stale, upsets, history>>

-----------------------------------------------------------------------------
Recovery(r) ==
  Dekey(r) \/ Replug(r) \/ ReplugRaises(r) \/ ProbeFails(r) \/ ProbeAnswers(r)

Next ==
  \/ \E r \in Role :
       \/ EnsureBegins(r) \/ Connect(r)
       \/ UseAnswers(r) \/ UseDrops(r) \/ DirectUse(r) \/ Close(r)
       \/ Recovery(r)
       \/ Upset(r)
  \/ DeadMan

Spec == Init /\ [][Next]_vars

\* A call in progress goes on.
Progress == \A r \in Role : WF_vars(Connect(r)) /\ WF_vars(Recovery(r))

FairSpec == Spec /\ Progress

\* The caller keeps coming back, ensure() first: the loop of ProbeSweeper or of
\* a panel, which use the link.
Insists ==
  \A r \in Role :
    WF_vars(EnsureBegins(r)) /\ WF_vars(UseAnswers(r) \/ UseDrops(r))

LinkUserSpec == FairSpec /\ Insists

-----------------------------------------------------------------------------
\* READY and an opened driver go together, in every interleaving of drops,
\* recoveries and retries: nobody is handed a closed driver, and no driver is
\* left open behind a link that would open another.
ReadyIsOpen == \A r \in Role : state[r] = "READY" <=> r \in opened

\* A link at FAULT has failed FaultAfter times in a row with no success in
\* between, or has been told that the adapter is wedged.
FaultIsEarned ==
  \A r \in Role : state[r] = "FAULT" => streak[r] = FaultAfter \/ r \in verdict

\* Every reconnect counted comes after a loss of its own.
ReconnectsAreDrops == \A r \in Role : reconnects[r] <= drops[r]

\* Only close() takes a link out of FAULT; no ensure() opens it again.
FaultIsTerminal ==
  [][\A r \in Role :
       state[r] = "FAULT" /\ state'[r] # "FAULT" =>
         state'[r] = "DISCONNECTED" /\ pc[r] = "idle" /\ pc'[r] = "idle"]_vars

\* ensure() returns, recoveries included, whatever the far end does.
EnsureReturns == \A r \in Role : pc[r] # "idle" ~> pc[r] = "idle"

\* Used through the link, an instrument that answers again is READY again,
\* unless the link got to FAULT; discovery that does not see it leaves it ABSENT.
LinkComesBack ==
  \A r \in Role :
    <>[](plant[r] = "ok") => []<>(Works(r) \/ state[r] \in {"FAULT", "ABSENT"})

=============================================================================

--------------------------------- MODULE Bench ---------------------------------
(***************************************************************************)
(* The bench window of bench_gui.py: tabs (modes) that share the source    *)
(* through the arbiter of instrument_hub.py, each with a SourceEngine      *)
(* (sg_gui.py) on a thread of its own, and the GUI thread that switches    *)
(* the tabs, edits their settings and shuts the bench down.                *)
(*                                                                         *)
(* The analyzer is arbitrated in the same way and left out: what matters   *)
(* of an instrument here is who drives it and whether it radiates.  An     *)
(* engine's suspend() is one step, as it waits for no I/O; its acquiring   *)
(* and its writes, which do, are steps of their own.                       *)
(***************************************************************************)
EXTENDS Naturals

CONSTANTS
  Tabs,          \* number of tabs; mode m is the m-th
  Reapplying,    \* modes whose start() and resume() enqueue their settings
  Debounced,     \* modes whose edits are applied by a timer
  MaxSwitches,   \* bound: tabs chosen
  MaxEdits       \* bound: ticks of an RF box

Mode == 1..Tabs
Nobody == 0

ASSUME BenchAssumption ==
  /\ Tabs \in Nat \ {0}
  /\ Reapplying \subseteq Mode
  /\ Debounced \subseteq Mode
  /\ MaxSwitches \in Nat /\ MaxEdits \in Nat

VARIABLES
  \* the GUI thread
  task,        \* what it is doing: see Task
  at,          \* the mode it has got to in the list of modes
  active,      \* the tab shown
  passes,      \* shutdown() calls left; the last is the exit's
  wants,       \* modes whose RF box is ticked
  timer,       \* modes whose debounce timer runs
  \* the engines
  suspended,   \* modes whose engine's `suspended` is set
  have,        \* modes whose engine's _have_tx is set
  step,        \* where the engine's thread is
  queue,       \* the last apply in _cmds: "none", or RF "on" or "off"
  stopped,     \* modes whose stop event is set
  \* the hub
  owner,       \* Arbiter._owner
  prior,       \* Arbiter._suspended: the engine the owner preempted
  leased,      \* "held": the hub has the bridge's lease
  \* the far end
  rf,          \* the source's output
  armed,       \* "yes": the bridge's dead-man has this session's writes
  \* history, read by the properties alone
  switches,    \* tabs chosen so far
  edits,       \* ticks so far
  excuse,      \* what has separated a radiating source from its engine
  torn         \* how handoffs have crossed: an engine was suspended while it was
               \* "acquiring", or was "preempted"

bounds == <<switches, edits>>
gui == <<task, at, active, passes, wants, timer, bounds>>
engine == <<suspended, have, step, queue, stopped>>
hub == <<owner, prior, leased>>
plant == <<rf, armed>>
vars == <<task, at, active, passes, wants, timer, switches, edits, suspended, have,
          step, queue, stopped, owner, prior, leased, rf, armed, excuse, torn>>

\* start:   start() is at mode `at`       leave:  _on_tab() has done rf_off_safe
\* switch:  _on_tab() is at mode `at`             of mode `at`, not suspended it yet
\* stop:    shutdown() is at mode `at`    unlease: shutdown() is at hub.shutdown
Task == {"start", "switch", "leave", "idle", "stop", "unlease", "exit", "gone"}
Acquiring == {"acquire", "claim"}
Writing == {"on", "off"}

TypeOK ==
  /\ task \in Task
  /\ at \in Mode
  /\ active \in Mode
  /\ passes \in 0..3
  /\ wants \in SUBSET Mode
  /\ timer \in SUBSET Debounced
  /\ suspended \in SUBSET Mode
  /\ have \in SUBSET Mode
  /\ step \in [Mode -> {"down", "idle"} \cup Acquiring \cup Writing]
  /\ queue \in [Mode -> {"none"} \cup Writing]
  /\ stopped \in SUBSET Mode
  /\ owner \in Mode \cup {Nobody}
  /\ prior \in Mode \cup {Nobody}
  /\ leased \in {"held", "free"}
  /\ rf \in Writing
  /\ armed \in {"yes", "no"}
  /\ switches \in 0..MaxSwitches /\ edits \in 0..MaxEdits
  /\ excuse \in {"none", "overtaken", "preempted", "faulted"}
  /\ torn \in SUBSET {"acquiring", "preempted"}

Init ==
  /\ task = "start" /\ at = 1 /\ active = 1 /\ passes = 0
  /\ wants = {} /\ timer = {}
  /\ suspended = {} /\ have = {} /\ stopped = {}
  /\ step = [m \in Mode |-> "down"]
  /\ queue = [m \in Mode |-> "none"]
  /\ owner = Nobody /\ prior = Nobody /\ leased = "free"
  /\ rf = "off" /\ armed = "no"
  /\ switches = 0 /\ edits = 0 /\ excuse = "none" /\ torn = {}

-----------------------------------------------------------------------------
Goto(m, place) == step' = [step EXCEPT ![m] = place]

\* The GUI thread goes on to the next mode, or, after the last, to `done`.
Onward(loop, done) ==
  IF at < Tabs THEN at' = at + 1 /\ task' = loop ELSE at' = 1 /\ task' = done

\* A mode enqueues its settings.
Apply(m) ==
  queue' = IF m \in Reapplying
           THEN [queue EXCEPT ![m] = IF m \in wants THEN "on" ELSE "off"]
           ELSE queue

\* rf_off_safe: only an engine that has the source switches it off, and an
\* exception is swallowed.
RfOffSafe(m) ==
  \/ m \notin have /\ UNCHANGED <<plant, excuse>>
  \/ m \in have /\ rf' = "off" /\ armed' = "yes" /\ excuse' = "none"
  \/ /\ m \in have
     /\ excuse' = IF rf = "on" THEN "faulted" ELSE excuse
     /\ UNCHANGED plant

\* The engine of m is suspended, perhaps while its thread is still acquiring.
Torn(m) == IF step[m] \in Acquiring THEN {"acquiring"} ELSE {}

\* MUTANT: an engine that has nothing to release is not marked.
Suspend_EarlyReturn(m) ==
  /\ have' = have \ {m}
  /\ torn' = torn \cup Torn(m)
  /\ IF m \in have /\ owner = m
     THEN /\ owner' = prior
          /\ prior' = Nobody
          /\ suspended' = (suspended \cup {m}) \ {prior}
     ELSE UNCHANGED <<suspended, owner, prior>>

\* SourceEngine.suspend, and with it Arbiter.release, which resumes the engine
\* that was preempted.
Suspend(m) ==
  /\ have' = have \ {m}
  /\ torn' = torn \cup Torn(m)
  /\ IF m \in have /\ owner = m
     THEN /\ owner' = prior
          /\ prior' = Nobody
          /\ suspended' = (suspended \cup {m}) \ {prior}
     ELSE /\ suspended' = suspended \cup {m}
          /\ UNCHANGED <<owner, prior>>

\* The GUI thread ------------------------------------------------------------

\* start(): the mode is suspended before its thread runs.
Launch ==
  /\ task = "start"
  /\ suspended' = suspended \cup {at}
  /\ Goto(at, "idle")
  /\ Apply(at)
  /\ Onward("start", "switch")
  /\ UNCHANGED <<active, passes, wants, timer, bounds, have, stopped, hub, plant,
                 excuse, torn>>

\* The operator chooses tab t.
Switch(t) ==
  /\ task = "idle" /\ switches < MaxSwitches
  /\ t # active
  /\ active' = t
  /\ task' = "switch"
  /\ at' = 1
  /\ switches' = switches + 1
  /\ UNCHANGED <<passes, wants, timer, edits, engine, hub, plant, excuse, torn>>

\* MUTANT: the tab that is entered waits for the others to let go.
Enter_IfFree ==
  /\ task = "switch" /\ at = active
  /\ suspended' = IF owner = Nobody THEN suspended \ {at} ELSE suspended
  /\ Apply(at)
  /\ Onward("switch", "idle")
  /\ UNCHANGED <<active, passes, wants, timer, bounds, have, step, stopped, hub, plant,
                 excuse, torn>>

\* _on_tab at the tab that is entered: resume().
Enter ==
  /\ task = "switch" /\ at = active
  /\ suspended' = suspended \ {at}
  /\ Apply(at)
  /\ Onward("switch", "idle")
  /\ UNCHANGED <<active, passes, wants, timer, bounds, have, step, stopped, hub, plant,
                 excuse, torn>>

\* MUTANT: a tab that is left is suspended without rf_off_safe.
Leave_StaysHot ==
  /\ task = "switch" /\ at # active
  /\ task' = "leave"
  /\ UNCHANGED <<at, active, passes, wants, timer, bounds, engine, hub, plant, excuse,
                 torn>>

\* _on_tab at any other: suspend(), which is rf_off_safe and then the engine's.
Leave ==
  /\ task = "switch" /\ at # active
  /\ RfOffSafe(at)
  /\ task' = "leave"
  /\ UNCHANGED <<at, active, passes, wants, timer, bounds, engine, hub, torn>>

Park ==
  /\ task = "leave"
  /\ Suspend(at)
  /\ Onward("switch", "idle")
  /\ UNCHANGED <<active, passes, wants, timer, bounds, step, queue, stopped, leased, plant,
                 excuse>>

\* The operator ticks or clears the RF box of the tab shown.
Edit ==
  /\ task = "idle" /\ edits < MaxEdits
  /\ edits' = edits + 1
  /\ wants' = IF active \in wants THEN wants \ {active} ELSE wants \cup {active}
  /\ IF active \in Debounced
     THEN timer' = timer \cup {active} /\ UNCHANGED queue
     ELSE /\ queue' = [queue EXCEPT ![active] = IF active \in wants THEN "off" ELSE "on"]
          /\ UNCHANGED timer
  /\ UNCHANGED <<task, at, active, passes, switches, suspended, have, step, stopped, hub,
                 plant, excuse, torn>>

\* The debounce timer fires, whatever tab is shown by then.
TimerFires(m) ==
  /\ task = "idle" /\ m \in timer
  /\ timer' = timer \ {m}
  /\ queue' = [queue EXCEPT ![m] = IF m \in wants THEN "on" ELSE "off"]
  /\ UNCHANGED <<task, at, active, passes, wants, bounds, suspended, have, step, stopped,
                 hub, plant, excuse, torn>>

\* The window closes: shutdown() runs in closeEvent, when the event loop has
\* returned, and at exit.
Close ==
  /\ task = "idle"
  /\ passes' = 3
  /\ task' = "stop"
  /\ at' = 1
  /\ UNCHANGED <<active, wants, timer, bounds, engine, hub, plant, excuse, torn>>

\* SIGINT or SIGTERM, wherever the GUI thread is: shutdown() runs and the process
\* exits; at once if the exit's own shutdown() has begun.
Signal ==
  /\ task \notin {"exit", "gone"}
  /\ at' = 1
  /\ passes' = 1
  /\ task' = IF passes = 1 THEN "exit" ELSE "stop"
  /\ UNCHANGED <<active, wants, timer, bounds, engine, hub, plant, excuse, torn>>

\* MUTANT: stop() leaves the RF to the thread's `finally`.
StopMode_LeavesRf ==
  /\ task = "stop"
  /\ stopped' = stopped \cup {at}
  /\ Onward("stop", "unlease")
  /\ UNCHANGED <<active, passes, wants, timer, bounds, suspended, have, step, queue, hub,
                 plant, excuse, torn>>

\* shutdown(): stop() of the mode, which does not wait for its thread ...
StopMode ==
  /\ task = "stop"
  /\ stopped' = stopped \cup {at}
  /\ RfOffSafe(at)
  /\ Onward("stop", "unlease")
  /\ UNCHANGED <<active, passes, wants, timer, bounds, suspended, have, step, queue, hub, torn>>

\* ... and then hub.shutdown: a U, if the lease is held, which stands the
\* bridge's dead-man down.
Unlease ==
  /\ task = "unlease"
  /\ leased' = "free"
  /\ armed' = IF leased = "held" THEN "no" ELSE armed
  /\ passes' = passes - 1
  /\ task' = IF passes > 1 THEN "stop" ELSE "exit"
  /\ UNCHANGED <<at, active, wants, timer, bounds, engine, owner, prior, rf, excuse, torn>>

\* The process ends, its threads with it; the bridge's dead-man fires.
Exit ==
  /\ task = "exit"
  /\ task' = "gone"
  /\ step' = [m \in Mode |-> "down"]
  /\ rf' = IF armed = "yes" THEN "off" ELSE rf
  /\ armed' = "no"
  /\ leased' = "free"
  /\ UNCHANGED <<at, active, passes, wants, timer, bounds, suspended, have, queue, stopped,
                 owner, prior, excuse, torn>>

\* The engines' threads ------------------------------------------------------

Running(m) == step[m] = "idle" /\ m \notin stopped

\* step_once finds that the engine does not have the source: hub.acquire.
StepAcquires(m) ==
  /\ Running(m)
  /\ m \notin suspended \cup have
  /\ Goto(m, "acquire")
  /\ UNCHANGED <<gui, suspended, have, queue, stopped, hub, plant, excuse, torn>>

\* The link is not ready, or another client has the lease.
AcquireFails(m) ==
  /\ step[m] = "acquire"
  /\ Goto(m, "idle")
  /\ UNCHANGED <<gui, suspended, have, queue, stopped, hub, plant, excuse, torn>>

\* The lease is the hub's, and Arbiter.acquire finds the source free, or m's
\* already ...
Take(m) ==
  /\ step[m] = "acquire"
  /\ owner \in {m, Nobody}
  /\ owner' = m
  /\ leased' = "held"
  /\ Goto(m, "claim")
  /\ UNCHANGED <<gui, suspended, have, queue, stopped, prior, plant, excuse, torn>>

\* ... or another's: the owner is suspended, with no rf_off, and remembered.
Preempt(m) ==
  /\ step[m] = "acquire"
  /\ owner \notin {m, Nobody}
  /\ owner' = m
  /\ prior' = owner
  /\ leased' = "held"
  /\ have' = have \ {owner}
  /\ suspended' = IF owner \in have THEN (suspended \cup {owner}) \ {prior}
                                    ELSE suspended \cup {owner}
  /\ excuse' = IF owner \in have /\ rf = "on" THEN "preempted" ELSE excuse
  /\ torn' = torn \cup Torn(owner) \cup {"preempted"}
  /\ Goto(m, "claim")
  /\ UNCHANGED <<gui, queue, stopped, plant>>

\* The commands queued, of which the last apply counts.
Drain(m) ==
  /\ Goto(m, IF queue[m] = "none" THEN "idle" ELSE queue[m])
  /\ queue' = [queue EXCEPT ![m] = "none"]

\* hub.acquire has returned.
Claim(m) ==
  /\ step[m] = "claim"
  /\ have' = have \cup {m}
  /\ Drain(m)
  /\ UNCHANGED <<gui, suspended, stopped, hub, plant, excuse, torn>>

StepDrains(m) ==
  /\ Running(m)
  /\ m \in have \ suspended
  /\ queue[m] # "none"
  /\ Drain(m)
  /\ UNCHANGED <<gui, suspended, have, stopped, hub, plant, excuse, torn>>

\* m may radiate: nobody has taken the source from it or told it to stop.
Entitled(m) ==
  /\ m \in have \ (suspended \cup stopped)
  /\ ~(task = "leave" /\ at = m)

\* rf_on or rf_off of an apply.
Write(m) ==
  /\ step[m] \in Writing
  /\ rf' = step[m]
  /\ armed' = "yes"
  /\ excuse' = IF step[m] = "on" /\ ~Entitled(m) THEN "overtaken" ELSE "none"
  /\ Goto(m, "idle")
  /\ UNCHANGED <<gui, suspended, have, queue, stopped, hub, torn>>

\* The write raises, before the instrument obeyed or after.
WriteFails(m) ==
  /\ step[m] \in Writing
  /\ \/ UNCHANGED plant
     \/ rf' = step[m] /\ armed' = "yes"
  /\ excuse' = IF rf' = "off" THEN "none"
               ELSE IF step[m] = "off" THEN "faulted"
               ELSE IF Entitled(m) THEN excuse ELSE "overtaken"
  /\ Goto(m, "idle")
  /\ UNCHANGED <<gui, suspended, have, queue, stopped, hub, torn>>

\* run() sees the stop event: rf_off_safe, and the thread is done.
ThreadEnds(m) ==
  /\ step[m] = "idle" /\ m \in stopped
  /\ RfOffSafe(m)
  /\ Goto(m, "down")
  /\ UNCHANGED <<gui, suspended, have, queue, stopped, hub, torn>>

-----------------------------------------------------------------------------
Gui ==
  \/ Launch \/ Enter \/ Leave \/ Park
  \/ StopMode \/ Unlease \/ Exit

Engine(m) ==
  \/ StepAcquires(m) \/ AcquireFails(m) \/ Take(m) \/ Preempt(m) \/ Claim(m)
  \/ StepDrains(m) \/ Write(m) \/ WriteFails(m) \/ ThreadEnds(m)

Operator ==
  \/ Edit \/ Close \/ Signal
  \/ \E m \in Mode : Switch(m) \/ TimerFires(m)

Next == Gui \/ Operator \/ \E m \in Mode : Engine(m)

Spec == Init /\ [][Next]_vars

\* The threads run, and the lease is not refused for ever.
Fairness ==
  /\ WF_vars(Gui)
  /\ \A m \in Mode : WF_vars(Engine(m)) /\ SF_vars(Take(m) \/ Preempt(m))

FairSpec == Spec /\ Fairness

-----------------------------------------------------------------------------
\* A radiating source has an engine whose suspend or stop will switch it off,
\* or one of three things happened since it was switched on: the write came
\* after its engine had been told to stop, the arbiter took it over, a bus fault.
HotHasEngine == rf = "on" => have # {} \/ excuse # "none"

\* When the process is gone the source is off, but for the same excuses.
GoneIsCold == task = "gone" /\ rf = "on" => excuse # "none"

\* Once _on_tab is over, and if no handoffs have crossed, the tabs that are not
\* shown are suspended and have nothing.
OthersAreParked ==
  task = "idle" /\ torn = {} =>
    \A m \in Mode \ {active} : m \in suspended /\ m \notin have

\* Unless it was suspended while it was acquiring, an engine that goes on
\* believing it has the source is the arbiter's owner: preemption takes the
\* belief away with the ownership.
HaveIsOwned == "acquiring" \notin torn => \A m \in have : m = owner

\* On a tab that stays, and if no handoffs cross, the engine of the tab has the
\* source in the end.
ActiveDrives ==
  <>[](task = "idle" /\ torn = {}) => <>[](active \in have)
=============================================================================

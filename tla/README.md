# RF-SE bench: verification

TLA+ models of the bench-control software in this repository, the TLC runs that check them on small
instances, and theorems about them that TLAPS checks for every value of the constants.

The program measures RF shielding effectiveness with two instruments, an Anritsu 68369 source
("tx", GPIB pad 5) and an HP 8565E analyzer ("rx", pad 18). Each hangs off a GPIB adapter behind
a small TCP bridge (`gpib_bridge/ni_gpib_server.py`), which runs in a qemu guest that has the USB
adapters passed through (`gpib_bridge/vm.py`). Several clients share a bridge. What can go
wrong is physical: a source that radiates with nobody in charge of it, two programs that drive one
instrument, a campaign that passes a shield it has not measured.

`PROJECT.json` is the index of the project: the components, the runs, which definition stands for
which lines of the source (`map`), one mutant per checked property, the finding, the hazards
and the theorems.

## 1. The system

| Component (source) | State it keeps | Operations | What makes it correct |
|---|---|---|---|
| Lease table (`ni_gpib_server.py`, `LeaseRegistry`) | `_by_holder`: session -> (scope, expiry) | acquire, renew, release, permitted, lookup, snapshot; lazy expiry inside each | two sessions never own colliding scopes; no ownership without end |
| Bridge server (same file) | session table, worker semaphore, and per thread `controlled`, `keyed`, the bound pad | accept loop; A W Q L K U C and the readers R S X; the dead-man `_send_safe_state`; teardown | nothing radiates without a dead-man behind it; no lease or slot leaks; a report adds up |
| Linux GPIB backend (same file) | descriptors, bound address | write, query, fault classification, escalating `recover` | a reply says what is so; recovery is the last resort |
| Network transport (`drivers.py`) | socket, pad, `_lease_scope` | `_txn`, `_connect`, `reconnect`, `acquire`, `renew`, `release`, `_bus_op` | a reconnect takes up what was held and nothing else |
| Client lease (`control_lease.py`) | `_held`, `_releasing`, keepalive thread, last beat | `acquire`, `release`, `held`, the renewal tick, the heartbeat | belief in control is backed by the bridge; a release is final; a hung loop loses control, a patient operator does not |
| Instrument links (`connection.py`) | state, driver, failure and reconnect counters | `connect`, `ensure`, `read_via`, `_on_drop`, `_bump_failure`, `close` | READY means an open driver; FAULT is earned; a lost instrument comes back |
| Probe and soft recovery (`control_plane.py`, `recovery.py`) | none of their own | open with liveness probe; de-key, replug, probe again | bounded |
| Instrument hub and arbiter (`instrument_hub.py`, `bench_gui.py`) | the engine that drives each role, the one it preempted; the active tab | acquire, release, suspend, resume, tab switch, shutdown | one engine per instrument; no two modes key the source |
| Coordinator and campaign (`coordinator.py`, `loop.py`, `se_gui.py`) | the two links, the two leases, the rows of both passes, the operator's events | `take_control`, the passes, the shield prompt, `release_control` | control of both or of neither; RF off on every way out; PASS is true of the shield |
| Instrument drivers (`drivers.py`, `device_state.py`) | the persistent settings of two instruments | one sequence of commands per method | every read is taken in the settings it means; the two passes compare |
| Modes and panels (`point_op_mode.py`, `sa_gui.py`, `sg_gui.py`, `walkaround.py`) | settings, queues, engine threads, settling and reading state | start, stop, suspend, resume, operator edits | the panel and the instruments come to agree |
| Bridge VM bring-up (`gpib_bridge/vm.py`) | pid files, monitors, consoles; attempts and polls | launch, settle, attach, poll, verdict, stop | one qemu per disk; no verdict before the guest is there; the command returns |
| Telemetry (`telemetry.py`) | subscriber list, sockets | publish, accept, stop; two readers | nobody is skipped; the result arrives |
| Discovery and diagnosis (`discovery.py`, `roles.py`, `lease_diagnostics.py`) | what was heard | the `devices` command over R and S | the table names who is in control |
| Measurement numbers (`config.py`, `budget.py`, `freqstep.py`, `presets.py`, ...), agent | - | - | arithmetic, tables, HTTP |

How they interact. A panel or the campaign asks the hub or the coordinator for an instrument; these
hold one link per role; a link owns a driver, which owns a transport, which is a session at the
bridge, served by one thread there. Exclusion between clients is the lease at the bridge; inside a
client it is the arbiter. A client's lease is renewed by a keepalive thread that shares the transport
with whoever measures. Calls are synchronous; the concurrency is that of the bridge's threads, the
keepalive threads, the workers and engines of the modes, the GUI thread, and several such clients.

Hard behaviours: a check and the operation it licenses are separated by a lock's wait; a client dies
at any instant; a request is handled and its reply lost; a transport is replaced under a thread that
uses it; leases lapse; a recovery runs inside the retries of an `ensure()`; an operator stops at
the worst moment; an analyzer freezes and repeats its last trace; a setting that one program left
behind meets the next. `PROJECT.json` lists these at their lines under `hazards`.

## 2. The modules

| Module | Models | Composition |
|---|---|---|
| `LeaseScopes` | pads, the bus, when two scopes collide | shared by the next three and `SessionTable` |
| `ExclusiveControl` | abstract: a pad has one owner, who must give it up before another has it | implemented by `LeaseRegistry` and by `BridgeServer` |
| `LeaseRegistry` | the lease table with a clock and lazy expiry | the timed detail of the lease in `BridgeServer` |
| `BridgeServer` | accept loop, request loop, dead-man, teardown, the source's output | leases abstracted to "may lapse at any moment" |
| `ControlLease` | the client's lease, its keepalive threads and transport, against the bridge's table for one pad | the bridge's side abstracted to holder and served sessions |
| `InstrumentLink` | both links, probe, soft recovery, use through the link and with the driver in hand | - |
| `Bench` | the GUI thread, the engines' threads and the arbiter over one source; tab changes, edits, shutdown | the lease reduced to "held", the bridge to "the dead-man is armed" |
| `Campaign` | the operator's window, the worker, both leases with the heartbeat, both passes over what the shield lets through | the bridge reduced to lease, lapse and dead-man; the driver to levels |
| `Analyzer` | both drivers command by command under the thirteen programs that use them | the same passes as `Campaign`, in their commands |
| `PointOp` | point operation's panel, the two engines with their queues, both instruments | one tab of `Bench`, inside |
| `BridgeVm` | the bring-up command, qemus, guests, adapters | below the bridge |
| `GpibBackend` | bus operations, classification, the client's climb to `Z recover` | one part of `Observers` |
| `SessionTable` | sessions, leases and bindings as the `devices` command reads them | one part of `Observers` |
| `Telemetry` | the hub, its fan-out and two kinds of readers | one part of `Observers` |
| `Observers` | the three above, one at a time | they share no state |
| `MC*` | small instances for TLC | extend the module they instantiate |
| `*_proofs` | theorems and their proofs | extend the module they prove about |
| `SharedState_proofs` | theorems about what the bridge's threads and the hub share | extends `LeaseRegistry` and `Observers` |
| `Instruments_proofs` | theorems about the links' life and the programs that run over them | extends `InstrumentLink` and `Analyzer` |

### LeaseRegistry
`byHolder`, `clock`. Every method except `release` reads the clock *before* it takes the table's lock
(`now = time.monotonic()` then `with self._lock`), so `Enter(s)` is the reading and the method's body
is a second step that works with that possibly old `stamp`. A lease that has lapsed stays in the
table until some method expires it. `outcome` records the last answer, for the action properties.

### BridgeServer
One record of variables per connection: `pc` goes from the listen backlog through the request loop
(`idle`, and one value per operation that has passed its lease check) to the steps of the `finally`
block. The lease check and the bus operation are two steps, because the code releases the table's
lock before it waits for `_BUS_LOCK`; so are the dead-man's test for a successor and its write. What
is physical is in `hot` (outputs that are on). `bound` is the address a session's backend has, which the
lease check goes by, and `dev` the address of the device object, which the write goes to: `bind` sets
one and then makes the other, and may raise in between (`ni_gpib_server.py:355-360`). A transport has one
address and sends no other (`drivers.py:205`, `281`), so that the object is either the address's or none
(`DevIsBound`, proved); TLC has one pad, the proofs any. `keyer` and `excused` are history: who switched a pad
on, and which of the code's three ways out has relieved its dead-man since.

### ControlLease
Each client has its main thread (`main`), a link with or without a driver (`up`), a socket that may be
poisoned (`broken`), closed (`closed`) or in the middle of `reconnect()` (`swapping`), and one keepalive
thread per acquisition, each with an Event of its own (`told`: it is set), the latest of them in `_thread`
(`keep`). A request is lost, handled with its reply lost, or answered. A reconnect that fails leaves the
link READY over a transport that remembers its lease and has a closed socket, or a new one that has not
sent L (`drivers.py:195-236`), until a bus operation drops it or reconnects again. `release()` sends U
and forgets the lease in two steps with no lock over both (`drivers.py:334-338`): a reconnect in between
takes the lease back for nobody, until its TTL. `own` says whether the transport a tick resolved at its
start is still the link's. Old sessions stay in `serving` until the bridge's thread gets round to its
`finally`.

### InstrumentLink
`Connect` is one `connect()` attempt, `Failed` is `_bump_failure` with the hand-over to
`soft_recover`, whose steps `Dekey`, `Replug`, `ProbeFails`/`ProbeAnswers` are actions because the
other link's thread runs in between. `plant` is what is at the far end. `DirectUse` is a measurement
primitive that takes `link.analyzer` and calls the driver, past `read_via`.

### Bench
The GUI thread runs one loop over the modes at a time (`start`, `_on_tab`, `shutdown`); `task` and `at`
say which and how far. The engines' threads run in between: `StepAcquires`, then `Take` or `Preempt`
inside `hub.acquire`, then `Claim` when it has returned and the flag `_have_tx` goes up, then the
write. `suspend()` waits for nothing and is one step. `RfOffSafe` may fail without a sound. Each
mode's analyzer engine obeys the same protocol and is left out. Two variables are history: `excuse`
is why a radiating source may have no engine that will switch it off, `torn` how two handoffs have
crossed.

### Campaign
The worker's `pc` goes through `take_control`, the path check, the reference pass (floor, then tone,
on a ladder of RBWs), the shield prompt, the wall pass, `release_control`. A point is two steps, with
the source off and on, so that the analyzer can freeze, a signal rise or an operation fail between two
reads. `Reads` gives a level from what is physically there: the noise of the rung, an outside signal,
the tone through the empty frame or the shield if the preselector is on it, and the last level again
once the trace is frozen. The operator's two events are a set `flags`, and `_on_stop` is two steps
because it sets two. The heartbeat is fresh, stale or paused; a stale one stops the renewals, and the
leases lapse or, before that (45 s against 60 s), the source's session idles out, once: its dead-man
de-keys unless a rival holds the source by then, and whatever the worker sends on that session afterwards
raises (`deaf`). A walk sends the source nothing while it reads, so that its session idles out too when a
heartbeat is configured, and it reads on with the source off. A trailing read that fails is swallowed
(`loop.py:186-190`): the row then says `reversible` on the floor's word ("assumed", `ref_off2_dbm` None).
The repository ships a `heartbeat_timeout_s` that is off by default: the model is of a coordinator that
was given one.

### Analyzer
`dev` is every setting of the two instruments that outlives a command. A driver method is the sequence
of its commands, a program the sequence of its driver calls, so a step is one command and a fault can
come between any two. `TRY` and `END` bracket what an `except` catches. A read records the settings
it was taken in, which is what the properties are about.

### PointOp
The panel's model and timers, the two queues, both engines and both instruments. The source's engine
takes a batch of its queue and keeps the last, the analyzer's keeps a set of commands. A sweep
remembers what it saw when it began. `InPace` states one assumption of real time: a retry of the
preselector comes after the level ramp it is spaced by.

### BridgeVm
The command (`pc`), whether there is a key to ask a guest with (`key`), per instrument its adapter on the host's bus (`usb`), its controller (`fx2`) and
who has claimed it, per instance the guest, a qemu that was told to quit and is not gone (`ending`),
and what `qemu.log` says (`console`), which is appended to and so remembers earlier boots.

### Observers
`GpibBackend`: each backend call is a step under `_BUS_LOCK`; what a linux-gpib call leaves in its
registers is external and ranges over `Touch`; making a fresh handle may raise, with the old one kept
(`ReaddressFails`). `SessionTable`: an operation of a session is a W or Q, checked and then on the bus
(`cleared`), or a Z ping or recover, which nobody checks (`unasked`; `ni_gpib_server.py:688-706`, `826-827`); the report copies the sessions under
one lock and looks each up under another, one step per line. `Telemetry`: a message is two halves on
the wire, because `recv` may part them, and a reader takes one half at a time; `publish` writes to one
subscriber per step with the lock held. `stop()` sets `_stop` while the accept loop may sit in `accept()`,
so one more observer may come in before the list is closed (`telemetry.py:47-55`).

## 3. The runs

| Run | Instance | What it shows |
|---|---|---|
| `lease_table` | 3 sessions, 2 pads and the bus, TTLs -1 and 2, clock to 4 | no deadline runs past the longest TTL, a refusal names a lease that is alive, nobody else's lease grows; the table implements `ExclusiveControl` |
| `bridge` | 2 sessions, the source, leases on it or the bus, all operations, 1 bus fault, fair threads | no lease or slot leaks; whatever radiates has a dead-man or a named excuse; a controller leaves cold; a dead client's source goes off |
| `control` | 2 clients, 2 connections each, 1 acquisition each | belief in control is backed by the table unless a lapse or a loss came in between |
| `control_again` | 1 client, 3 connections, 2 acquisitions, fair keepalive | threads of two holds meet; the one that goes on is the one the next release stops; release leaves no tick in flight; a lost lease is taken up again |
| `link` | both links, recovery on the source's, 2 changes at the far ends, fair calls and an insistent caller | FAULT is earned; `ensure()` returns; an instrument that answers again is READY again, or at FAULT |
| `bench` | 2 tabs, 2 tab changes, 2 edits, fair threads | a radiating source has an engine that will switch it off, the process leaves it off, hidden tabs are parked, each but for a named excuse; the tab that stays gets the source |
| `campaign` | 3 points, 2 of them behind the preselector, 2 rungs, 3 shields, everything that can go wrong, one run of either job | nothing leased or keyed afterwards; PASS only of a shield that holds; the pause keeps control; a hung loop is de-keyed; Stop ends the run |
| `vm` | both modes, 2 attempts, 3 polls, 3 upsets (commands count) | no second qemu on a disk in use; no wedge verdict on a guest that still boots; the command ends |
| `point_op` | 2 frequencies, one high, 2 edits or tab changes, 1 fault or turned knob, fair threads | quiet queues mean applied settings; the readout converges; a stale level map is dropped |
| `analyzer` | 2 points, one high, 13 programs, 3 in a row, 2 faults | reads are taken in the settings they mean; wall reads match reference reads; direct chains stay protected |
| `observers` | 2 dashboards and a one-point campaign; 2 operators and the `devices` command over 2 pads; 2 backend clients and 3 upsets | nobody is skipped, the result arrives; reports add up but for leases that moved meanwhile, what reaches the bus under another's lease is late or a Z; replies are true, re-addressing suffices |
| `campaign_stop` | the same campaign with nothing going wrong | fails: Stop at the shield prompt starts the wall pass |

Bounds. Two sessions are enough for every race named above, since each is between a leaver and a
successor; the proofs then say the same for any number. Three are used for the lease table because a
conflict over the bus needs a bystander on another pad. Two acquisitions of one client are
what it takes for two keepalive threads to meet; three connections let the keepalive follow the link
twice. `FaultAfter = 2` and `Retries = 2` make every branch of the counting reachable within one
`ensure()`; `link` lets discovery match or find nothing, since a discovery that fails in between probes
that succeed can keep a recovery going for ever. Two tabs let a handoff go upwards and downwards, which
decides whether the new tab is resumed before the old one is suspended. Three points give `campaign` a
low one and two behind the preselector, so that a DAC of one point can be left for another; the
levels of the shields are chosen around the target, and one path is too weak to say; `Unbracketed` keeps
the trailing reads that may fail to one point. Three programs in
`analyzer` are what leaves something behind (with a fault), a reference, and a pass that compares to it.
Two edits in `point_op` are an edit before, in or after an absence of the tab (the return is free). Three upsets in `vm` are a
command, what stops or kills it, and the command again. The runs in which everybody may have
finished do not check for deadlock; those of the lease table, the links and point operation do.

Excuses are results too. `HotIsAccountedFor` names the code's ways out: a write that faulted after
the instrument obeyed, a dead-man that stood back for a successor, one whose write failed.
`QuietAfterRelease` excuses a release whose join ran out of its 5 s, `HeldIsBacked` the moment in
which U is sent and `_held` still true. `ReportsAddUp` excuses the sessions whose own lease moved while the
report was made. `IntrusionsAreNamed` names the two ways to the bus past a lease: a check that came before
the grant, and Z. `HotHasEngine` and `GoneIsCold`
excuse a source that was switched on by a write under way when its tab was left ("overtaken"), one
whose engine was "preempted", and one whose `rf_off_safe` met a fault ("faulted"). `IdleIsQuiet` excuses
a source that could not be told. `HungLoopDekeys` lets the dead-man stand back for a rival that took
the lapsed lease (`ni_gpib_server.py:676-678`). `PassIsTrue` excuses rows the code itself marks: a
reference that is not reversible or has no trailing read, a wall floor above the reference's. `PassesCompare` excuses a high-band row without a
recorded DAC. `OneQemuPerInstance` excuses the singleton's self-heal, `VerdictAfterProvisioning` also
the marks of an earlier boot and a singleton without an SSH key. `ReadoutConverges` excuses a lost command, `StaleMapIsDropped` a scale turned
at the front panel, which the poll does not compare. `ResultReaches` excuses the dashboard command, and
everybody once one subscriber stopped reading. `RepliesAreTrue` excuses builds without `iberr()`.

## 4. Where the code and its words part

One is a failing run. `campaign_stop`: `se_gui.py:389` says that Stop during the pause unwinds via
`CampaignAborted`; `_on_stop` (377-379) also sets the shield event, the worker takes it for an inserted
shield, starts the wall pass and keys the source for a point before it looks at `stop`.

The others are in the models, as steps the code takes or as excuses of the properties:

* Bridge. A client that keyed without a lease and dies while another session holds one leaves its
  source on: the dead-man stands back (`ni_gpib_server.py:676`; the docstring at 654 says it cannot).
  Z reaches the bus whoever holds a lease (by design: `ni_gpib_server.py:692`).
  `_bus_op` raises `AdapterNotAnswering` even when the verdict of `recover` was OK. Without `iberr()` a
  read that times out after exactly 19 or 110 bytes is classified as an adapter that is gone.
* Client lease. `acquire()` "NEVER raises" (`control_lease.py:78`), but on a transport whose reconnect failed
  the closed file raises `ValueError`, which is no `IOError`, and it goes on to the caller.
* Links. A recovery's de-key finds the driver torn down (`coordinator.py:281`; 291 says the source never
  radiates across a re-enumeration). A primitive that uses the driver directly never tells the link of a
  lost connection, which stays READY and does not reconnect (`coordinator.py:310`; 163 says it does).
* Bench. Two quick tab changes leave two engines acquiring, and the arbiter resumes one whose tab is
  parked (`bench_gui.py:126`; `BENCH_LIFECYCLE_STATE_MACHINE.md:84`).
* Campaign. A `shield_prompt` event left over from an earlier run enables the button of the next. The
  comment at `coordinator.py:387` counts on a guard in every read against frozen traces; `measure_peak`
  has none, and `health_every` is off by default. The walk never beats, so a configured heartbeat ends its tone. `check_path`, `chain_sweep`,
  `validate_devices` and `tracked_sweep` key the source without a `finally`. `ref_reversible` is
  flagged and gates nothing.
* Drivers. `nearfield_walkaround` above 2.9 GHz reads in the window `peak_preselector` zoomed to
  (`loop.py:428`). `measure_average`, an ambient bracket that raises and a `measure_floor` that raises
  leave the SAMPLE detector to the next program, which `configure` repairs; the scale per division it
  never asserts. `prepare` drops the attenuation floor of a direct chain until the next `configure`.
* Point operation. A sweep that began before the source settled clears SETTLING
  (`point_op_mode.py:566`). A batch whose operation raises is lost. A change of power does not
  arm SETTLING. The state poll compares no scale per division.
* Bring-up. The settling of the golden pair compares two reads without a pause, so the two resets
  overlap. The singleton gives its verdict right after the last attach. The self-heal does not wait for
  the old qemu to exit, and goes on whatever the guest answers. Without an SSH key the singleton takes a
  monitor that answers for a guest that is provisioned (`vm.py:1578-1580`, "weaker" in its docstring): it
  attaches to a guest that still boots, counts its attempts against it and gives the verdict. Marks of an earlier boot in `qemu.log`
  pass for the current one.
* Telemetry. `publish` holds the lock over blocking writes, so an observer that stops reading stops the
  campaign (`telemetry.py:10` says observers cannot). `cmd_dashboard` reads through a file object that
  raises for ever after one idle window (`cli.py:735`), and never leaves a stream that ended without a
  summary. The roster is sent once, before anybody may have joined.

## 5. Fairness

Safety needs none. `bridge` assumes weak fairness of each server thread's next step and of
noticing that its client is gone (`settimeout(idle_s)` bounds the wait), never of a client's action.
`control_again` assumes that keepalive threads run and that the bridge ends abandoned sessions.
`link` assumes that a call in progress goes on, and that the caller comes back, as the
loops of the sweepers and panels do. `bench` assumes that the GUI thread finishes the loop it is in,
that the engines' threads run, and that an engine which tries for ever is granted the lease some time.
`campaign` assumes that the worker runs, that clocks do (a heartbeat gets stale, a lease lapses, a
dead-man fires) and that `_on_stop` finishes; an operation that hangs need never return. `vm` assumes
that the command goes on, and nothing of hosts, guests and adapters. `point_op` assumes that timers fire
and engines run. `observers` assumes it of the hub's threads, of the campaign and of observers that
read. Nobody has to connect, edit, stop, fail or recover.

## 6. Proofs

All theorems are of `Spec` (`WatchSpec` for the observers, `ProgramSpec` for the programs) without fairness, for any constants that
satisfy the module's `ASSUME`, and the further assumptions a theorem names.

* `SharedState_proofs`. The lease table: types; exclusivity (inductive with the types, since `Acquire`
  expires and tests in one step); the deadline bound, which needs that no stamp is ahead of the clock;
  that a refusal names a lease in force (`RefusalsAreDue`) and nobody else's lease grows
  nor does one's own over a pad that another holds (`OthersLeasesAreSafe`), from what one method may do to
  the table and its answer; and the
  refinement of `ExclusiveControl`: a step changes the controller of a pad only from or to nobody.
  The backend (`BackendInv`): each reply is true when it is given, and a client that nothing upset since
  its operation began finds the bus well and needs no more than a fresh descriptor; `TrueReplies` and
  `ReaddressIsEnough` follow. The sessions (`SessionInv`): the leases exclude each other and belong to
  listed sessions, a checked operation under way collides with none but a late one, and the lines of a report
  show each session's lease of the moment unless that session's was granted or dropped since R; `ReportsAgree` and `IntrudersAreLate` follow. Telemetry
  (`TelemetryInv`): what a subscriber has read is a prefix of what it was told, and the rest is in its
  socket, half by half and in order (`StreamIsWhole`); so `NobodyMisses`.
* `BridgeServer_proofs`: types; exclusivity by way of `LeaseSteps` (how any step may change a lease);
  `HoldersAreServed` from the invariant that working threads are listed; that the dead-man knows every
  lease; the accounting of radiating pads, by showing that every step keeps each armed thread armed or
  writes an excuse (`KeepsArmed`); `ControllerLeavesCold`, from what the teardown still owes
  (`TeardownOwes`); the semaphore's accounting by the cardinality of the set of working threads; and the
  refinement of `ExclusiveControl` by the whole server.
* `ControlLease_proofs`: types; an invariant that ties `main`, `_thread`, the Events and the threads together
  (`ThreadsInv`), from which quiet release and the single keepalive follow (a join that timed out leaves
  a thread, and `StartKeepalive` a new Event, so the old one stays set); the memory of a lease;
  and `BackedInv`, which adds to `HeldIsBacked` that the session in the table is still served.
* `Instruments_proofs`. The links: types together with the ranges of the counters by phase (`CountersInv`);
  READY and driver, earned FAULT and counted reconnects together (`LinkInv`: they need each other); and
  that nothing but `close()` leads out of FAULT, which needs that no recovery runs at FAULT.
  The programs, whose invariant has to say what is known between any two commands of any of them. A
  `Fact` is a setting being the one a read needs, or where the program stands; `Wants(c)` is what a
  command relies on, `Post(c, G)` what is known after it, and an `Outline` of a sequence of commands
  writes facts between them so that each command finds what it wants, whoever jumps to an `END` or a
  `NONE` knows what is written there, and a further rung of the reference leaves what the first left.
  `Runs(s, G, H)` says that a sequence has an outline from `G` to `H`; outlines that meet make one
  (`RunsCat`), so each driver call has a lemma, and each point of a program is put together from them
  (`ReferenceRuns`, `ReadBackRuns`, `CheckRuns`, `SweepRuns`). `ObeysPost` ties outlines to what the
  instruments do. The invariant (`Inv`) says that what is left of a tracked point has an outline from what
  is known (`Leads`), that other programs hold no acceptance read (`Harmless`), that a preamble sends no
  tone and on a direct chain ends in the floor, that readings were what they wanted to be, and that the
  rows of a reference are of one chain; from it follow `ReadsAreClean`, `PassesCompare` and `InputProtected`.
* `Bench_proofs`: types; `OwnedInv`, which also speaks of the engine between the grant and its flag;
  `HotInv`, that some engine with the flag up has neither been stopped nor left, together with the
  armed dead-man, which carries over the end of the process; and `ParkInv`, the loop invariant of `_on_tab`.
* `Campaign_proofs`: `ControlInv` says where the leases may be and where the source may radiate for each
  place of the worker; `IdleIsQuiet` and `PauseKeepsControl` follow. `RowsInv` has the rows that each
  pass relies on, and with it the types of the whole. `PassInv` ties each row to the shield: a
  reference that the code calls reversible stands at a level the frame lets through, behind a
  preselector peaked for its point (which needs that the pass goes upwards), and a wall row that passes
  means that level is the target above the leak, if the sweep is alive. `PassTells` concludes `PassIsTrue` for a positive guard and target
  and a health check after the last point (`LastIsChecked`: `HealthEvery` divides the number of points);
  `LivePassTells` drops that assumption for a sweep that did not freeze, which is what a
  campaign without health checks, the shipped default, still has.
* `BridgeVm_proofs`: `LaunchInv` carries what `instance_is_live` saw to the launch; `ConsoleInv` relates
  polls, console and guest, from which the verdict's property follows; `BudgetInv` bounds attempts, polls
  and reads.
* `PointOp_proofs`: types; and `Follows`, that the end of each queue, or its instrument, has what the
  panel shows, with a lemma on what a batch leaves of a queue.

Each invariant and each action property that a passing run checks is proved. Only
model-checked: everything under fairness (`DeadManFires`, `ControlHeals`, `EnsureReturns`,
`LinkComesBack`, `ActiveDrives`, `HungLoopDekeys`, `StopEndsTheRun`, `BringUpEnds`, `ReadoutConverges`,
`StaleMapIsDropped`, `ResultReaches`), since TLAPS does not prove liveness under fairness or ENABLED;
and the failing run, which is a counterexample. Conversely the type
invariants, exclusivity and a few lemmas of standing (`ReadyIsOpen`, `ReconnectsAreDrops`,
`FaultIsTerminal`, `DeadManKnowsLeases`, `MemoryMeansHeld`, `HaveIsOwned`) are proved and in no run.

## 7. Not modelled

* The numbers: plans, budgets, presets, statistics and calibration are floating-point arithmetic; the
  models take points and levels as given.
* `_probe_device` holds the bridge for every client while it probes; the models let others run.
* The fallback of the sweep-time query: an `ST?` that raises shortens the dwell after a sweep to its floor
  (`drivers.py:1084-1087`); the models take the dwell to be long enough.
* Discovery beacons and the negotiation of roles; `ensure_bridge` and the `both` mode of the bring-up, two
  bring-up commands at once, and the preparation of disk images.
* The hub's `acquire_both`, the step sweep and the panels' watchdog; range mode's own readout.
* The agent, widgets, plots, HTTP, printing, argument parsing, and the scripts under `tools/`.

Next worth doing: two bring-up commands that look at one instance at once; the beacons.

------------------------------- MODULE BridgeVm -------------------------------
(***************************************************************************)
(* Bringing the bridge up (gpib_bridge/vm.py): the command that starts one *)
(* or two qemus, passes the two USB adapters through and waits for the     *)
(* instruments, against hosts, guests and adapters that go their own way.  *)
(*   golden     one qemu per instrument, launched one after the other and  *)
(*              polled by two threads                                      *)
(*   singleton  one qemu with empty controllers; the adapters are attached *)
(*              over QMP, one after the other                              *)
(* The analyzer's adapter (the B) starts cold: its firmware is loaded by   *)
(* the guest, after which qemu holds on to a device that is gone until the *)
(* adapter is attached again.  The source's (the HS) needs no firmware.    *)
(***************************************************************************)
EXTENDS Integers, FiniteSets

CONSTANTS
  Modes,         \* --vm-mode: "golden", "singleton"
  Keys,          \* "yes" and "no": there is an SSH key to ask the singleton's guest with, or none
  Attempts,      \* wedge_after_attempts
  MaxPolls,      \* polls within wait_timeout
  Grace,         \* polls within wedge_grace_s
  MaxSettle,     \* reads within stagger_seconds
  MaxUpsets      \* bound: adapters replugged, commands killed or repeated, vm-stops

ASSUME BringUpAssumption ==
  /\ Modes \subseteq {"golden", "singleton"} /\ Keys \subseteq {"yes", "no"}
  /\ {Attempts, MaxPolls, Grace, MaxSettle} \subseteq Nat \ {0} /\ MaxUpsets \in Nat

Units == {"analyzer", "source"}
Instances == Units \cup {"one"}

VARIABLES
  \* the command
  mode, key, pc,
  at,        \* the instrument whose qemu is launched, or whose adapter is attached
  pinned,    \* instruments whose adapter was on the bus when the command read it
  prev, reads,   \* _await_host_settle: the last identity read, the reads done
  before,    \* the first adapter was on the bus before the second launch: "yes", "no"
  verdict,   \* per instrument: "none", "polling", "answered", "wedged", "silent", "fell"
  tries, polls, provisioned,   \* of _poll_ready and _attach_and_verify
  \* the host and the guests
  usb,       \* per instrument, its adapter on the host's bus: "absent", "cold", "ready"
  fx2,       \* per instrument, its adapter's controller: "ok", "wedged"
  claim,     \* per instrument: "none", "resetting", "stale" (the guest holds a dead device), "live"
  vm,        \* per instance: "off", "boot", "up" once the guest is provisioned
  ending,    \* per instance: "yes" while a qemu that was told to quit has not exited
  console,   \* per instance, the provisioning marks in qemu.log: "none", "past", "current"
  healed,    \* "yes" once a running guest was stopped to be launched again
  upsets

command == <<mode, key, pc, at, pinned, prev, reads, before>>
tally == <<verdict, tries, polls, provisioned>>
machine == <<vm, ending, console, healed>>
vars == <<command, tally, usb, fx2, claim, machine, upsets>>

Done == {"answered", "wedged", "silent", "fell"}
Launching == {"look", "prepare"}
Steps == Launching \cup {"idle", "settle", "verify", "poll", "begin", "join", "heal", "gate", "gate2", "attach", "fxload"}

TypeOK ==
  /\ mode \in Modes /\ key \in Keys /\ pc \in Steps /\ at \in Units /\ pinned \subseteq Units
  /\ prev \in {"absent", "cold", "ready"} /\ reads \in 0..MaxSettle /\ before \in {"yes", "no"}
  /\ verdict \in [Units -> Done \cup {"none", "polling"}]
  /\ tries \in [Units -> 0..Attempts] /\ polls \in [Units -> 0..MaxPolls]
  /\ provisioned \in [Units -> 0..MaxPolls]
  /\ usb \in [Units -> {"absent", "cold", "ready"}] /\ fx2 \in [Units -> {"ok", "wedged"}]
  /\ claim \in [Units -> {"none", "resetting", "stale", "live"}]
  /\ vm \in [Instances -> {"off", "boot", "up"}] /\ ending \in [Instances -> {"yes", "no"}]
  /\ console \in [Instances -> {"none", "past", "current"}]
  /\ healed \in {"yes", "no"} /\ upsets \in 0..MaxUpsets

Init ==
  /\ mode \in Modes /\ key \in Keys /\ pc = "idle" /\ at = "source" /\ pinned = {}
  /\ prev = "absent" /\ reads = 0 /\ before = "no"
  /\ verdict = [u \in Units |-> "none"]
  /\ tries = [u \in Units |-> 0] /\ polls = [u \in Units |-> 0]
  /\ provisioned = [u \in Units |-> 0]
  /\ usb \in [Units -> {"absent", "cold", "ready"}] /\ usb["source"] # "cold"
  /\ fx2 = [u \in Units |-> "ok"] /\ claim = [u \in Units |-> "none"]
  /\ vm = [i \in Instances |-> "off"] /\ ending = [i \in Instances |-> "no"]
  /\ console = [i \in Instances |-> "none"] /\ healed = "no" /\ upsets = 0

-----------------------------------------------------------------------------
(* What the command can see *)

Of(u) == IF mode = "golden" THEN u ELSE "one"
Present(u) == usb[u] # "absent"

\* bridge_reachable, source_reachable: the instrument answers at its port.
Answers(u) ==
  vm[Of(u)] = "up" /\ claim[u] = "live" /\ usb[u] = "ready" /\ fx2[u] = "ok"

\* mutant: an instance is live while its pid file is there
Live_ByPidfile(i) == vm[i] # "off"

\* instance_is_live: the pid file, the monitor or the forwarded port, which a
\* qemu that is quitting holds on to.
Live(i) == vm[i] # "off" \/ ending[i] = "yes"

\* The order of the launches: the port-pinned analyzer first.
First == IF "analyzer" \in pinned THEN "analyzer" ELSE "source"
Second == IF First = "analyzer" THEN "source" ELSE "analyzer"

-----------------------------------------------------------------------------
(* Claiming an adapter *)

\* device_del and device_add, or the claim of a qemu that starts.
Claimed(u, c) == [c EXCEPT ![u] = IF Present(u) THEN "resetting" ELSE "none"]
Detached(i, c) == [u \in Units |-> IF Of(u) = i THEN "none" ELSE c[u]]

\* The host's reset of the adapter is over, and the guest sees the adapter, or
\* a cold one that it has yet to load.
ResetEnds(u) ==
  /\ claim[u] = "resetting"
  /\ claim' = [claim EXCEPT ![u] = CASE usb[u] = "ready" -> "live"
                                     [] usb[u] = "cold" -> "stale"
                                     [] OTHER -> "none"]
  /\ UNCHANGED <<command, tally, usb, fx2, machine, upsets>>

\* Two resets at once: both controllers may wedge, or an adapter leave the bus.
ResetsCollide ==
  /\ \A u \in Units : claim[u] = "resetting"
  /\ \/ fx2' = [u \in Units |-> "wedged"] /\ UNCHANGED <<usb, claim>>
     \/ \E u \in Units : /\ usb' = [usb EXCEPT ![u] = "absent"]
                         /\ claim' = [claim EXCEPT ![u] = "none"]
                         /\ UNCHANGED fx2
  /\ UNCHANGED <<command, tally, machine, upsets>>

\* The guest loads the firmware: the adapter comes back under another id, and
\* the guest's device stays dead.
Fxload ==
  /\ vm[Of("analyzer")] = "up" /\ claim["analyzer"] = "stale" /\ usb["analyzer"] = "cold"
  /\ usb' = [usb EXCEPT !["analyzer"] = "ready"]
  /\ UNCHANGED <<command, tally, fx2, claim, machine, upsets>>

Provisions(i) ==
  /\ vm[i] = "boot"
  /\ vm' = [vm EXCEPT ![i] = "up"] /\ console' = [console EXCEPT ![i] = "current"]
  /\ UNCHANGED <<command, tally, usb, fx2, claim, ending, healed, upsets>>

Exits(i) ==
  /\ ending[i] = "yes" /\ ending' = [ending EXCEPT ![i] = "no"]
  /\ UNCHANGED <<command, tally, usb, fx2, claim, vm, console, healed, upsets>>

-----------------------------------------------------------------------------
(* Launching *)

Fails == pc' = "idle" /\ verdict' = [u \in Units |-> "none"]

\* What _launch_one calls reachable: the instance's every instrument.
InstanceAnswers == \A u \in Units : Of(u) = Of(at) => Answers(u)

\* Where it leads.
Launched == IF mode = "singleton" THEN (IF pc = "heal" THEN "gate2" ELSE "gate")
            ELSE IF at = First THEN "settle" ELSE "verify"

\* _ensure_vm_addresses: the specs are pinned to the adapters found on the bus.
Begin ==
  /\ pc = "idle" /\ upsets < MaxUpsets /\ upsets' = upsets + 1
  /\ pinned' = {u \in Units : Present(u)}
  /\ verdict' = [u \in Units |-> "none"]
  /\ tries' = [u \in Units |-> 0] /\ polls' = [u \in Units |-> 0]
  /\ provisioned' = [u \in Units |-> 0] /\ reads' = 0 /\ prev' = "absent" /\ before' = "no"
  /\ IF mode = "golden" THEN pc' = "look" /\ at' = (IF "analyzer" \in pinned' THEN "analyzer" ELSE "source")
                        ELSE pc' = "begin" /\ at' = "source"
  /\ UNCHANGED <<mode, key, usb, fx2, claim, machine>>

\* _launch_one: an instance that answers or is live is joined, and without any
\* adapter there is nothing to launch for.
Look ==
  /\ pc = "look"
  /\ \/ InstanceAnswers /\ pc' = Launched /\ UNCHANGED verdict
     \/ ~InstanceAnswers /\ (\A u \in Units : ~Present(u)) /\ Fails
     \/ /\ ~InstanceAnswers /\ \E u \in Units : Present(u)
        /\ pc' = (IF Live(Of(at)) THEN Launched ELSE "prepare") /\ UNCHANGED verdict
  /\ prev' = usb[at]
  /\ UNCHANGED <<mode, key, at, pinned, reads, before, tries, polls, provisioned,
                 usb, fx2, claim, machine, upsets>>

\* The assets are prepared and qemu starts, appending to qemu.log; with adapters
\* on its command line it claims them.
Starts(i) ==
  /\ vm' = [vm EXCEPT ![i] = "boot"]
  /\ console' = [console EXCEPT ![i] = IF @ = "none" THEN "none" ELSE "past"]
  /\ claim' = IF mode = "golden" THEN Claimed(i, claim) ELSE claim

Prepare ==
  /\ pc = "prepare"
  /\ Starts(Of(at)) /\ pc' = Launched /\ prev' = usb[at]
  /\ UNCHANGED <<mode, key, at, pinned, reads, before, tally, usb, fx2, ending, healed, upsets>>

\* _await_host_settle: until the adapter reads the same twice, with no pause
\* before the second read; then the second launch.
Settle ==
  /\ pc = "settle"
  /\ LET settled == \/ Answers(at)
                    \/ at = "analyzer" /\ usb[at] = "ready"
                    \/ Present(at) /\ usb[at] = prev
     IN  IF settled \/ reads = MaxSettle
         THEN /\ pc' = "look" /\ at' = Second
              /\ before' = (IF Present(at) THEN "yes" ELSE "no") /\ UNCHANGED <<prev, reads>>
         ELSE prev' = usb[at] /\ reads' = reads + 1 /\ UNCHANGED <<pc, at, before>>
  /\ UNCHANGED <<mode, key, pinned, tally, usb, fx2, claim, machine, upsets>>

\* The second launch knocked the first adapter off the bus, or both are polled.
Verify ==
  /\ pc = "verify"
  /\ pc' = "poll"
  /\ verdict' = [u \in Units |->
       IF u = First /\ before = "yes" /\ ~Present(u) THEN "fell"
       ELSE IF Answers(u) THEN "answered" ELSE "polling"]
  /\ UNCHANGED <<mode, key, at, pinned, prev, reads, before, tries, polls, provisioned,
                 usb, fx2, claim, machine, upsets>>

-----------------------------------------------------------------------------
(* _poll_ready, one thread per instrument of the golden pair *)

\* reattach_analyzer_b, reattach_source_hs: a pinned adapter that is on the bus,
\* the analyzer's once its firmware is loaded, on a qemu whose monitor answers.
Reattaches(u) ==
  tries[u] < Attempts /\ u \in pinned /\ usb[u] = "ready" /\ vm[Of(u)] # "off"

\* mutant: the verdict once the attempts are spent, wherever the guest is
IsWedged_AtOnce(u, tried, online) == tried >= Attempts /\ Present(u)

\* R6: present but silent, past the attempts, and past the grace of a guest whose
\* console says it was provisioned
IsWedged(u, tried, online) == tried >= Attempts /\ online >= Grace /\ Present(u)

\* mutant: polls are not counted
Polled_Forgotten(u) == polls

Polled(u) == [polls EXCEPT ![u] = @ + 1]

Poll(u) ==
  /\ pc = "poll" /\ verdict[u] = "polling"
  /\ IF Answers(u)
     THEN verdict' = [verdict EXCEPT ![u] = "answered"] /\ UNCHANGED <<tries, polls, provisioned, claim>>
     ELSE /\ tries' = [tries EXCEPT ![u] = IF Reattaches(u) THEN @ + 1 ELSE @]
          /\ claim' = IF Reattaches(u) THEN Claimed(u, claim) ELSE claim
          /\ provisioned' = [provisioned EXCEPT ![u] = IF console[Of(u)] # "none" THEN @ + 1 ELSE @]
          /\ polls' = Polled(u)
          /\ verdict' = [verdict EXCEPT ![u] =
               IF IsWedged(u, tries'[u], provisioned'[u]) THEN "wedged"
               ELSE IF polls'[u] = MaxPolls THEN "silent" ELSE "polling"]
  /\ UNCHANGED <<command, usb, fx2, machine, upsets>>

\* The threads are joined: one instrument is enough to return.
Join ==
  /\ pc = "poll" /\ \A u \in Units : verdict[u] \in Done
  /\ pc' = "idle"
  /\ UNCHANGED <<mode, key, at, pinned, prev, reads, before, tally, usb, fx2, claim, machine, upsets>>

-----------------------------------------------------------------------------
(* ensure_singleton *)

\* Both answer: reused.  A live qemu is joined, anything else is a cold boot.
Singleton ==
  /\ pc = "begin"
  /\ IF \A u \in Units : Answers(u)
     THEN pc' = "idle" /\ verdict' = [u \in Units |-> "answered"]
     ELSE pc' = (IF Live("one") THEN "join" ELSE "look") /\ UNCHANGED verdict
  /\ UNCHANGED <<mode, key, at, pinned, prev, reads, before, tries, polls, provisioned,
                 usb, fx2, claim, machine, upsets>>

\* await_guest_provisioned: the guest's marker, read over SSH.  Without a key it is
\* qemu's monitor that has to answer: that of a guest that still boots does, and
\* that of a qemu that is quitting may.
Signals(i) ==
  IF key = "yes" THEN vm[i] = "up" ELSE vm[i] # "off" \/ ending[i] = "yes"
SignalTimesOut(i) ==
  IF key = "yes" THEN vm[i] # "up" ELSE vm[i] = "off"

\* The joined guest is provisioned, or it is told to quit, and not waited for.
JoinGuest ==
  /\ pc = "join"
  /\ \/ Signals("one") /\ pc' = "attach" /\ UNCHANGED <<claim, machine>>
     \/ /\ SignalTimesOut("one") /\ pc' = "heal" /\ healed' = "yes"
        /\ ending' = [ending EXCEPT !["one"] = "yes"] /\ vm' = [vm EXCEPT !["one"] = "off"]
        /\ claim' = Detached("one", claim) /\ UNCHANGED console
  /\ UNCHANGED <<mode, key, at, pinned, prev, reads, before, tally, usb, fx2, upsets>>

\* The relaunch does not ask whether an instance is live.
Heal ==
  /\ pc = "heal"
  /\ IF \A u \in Units : ~Present(u)
     THEN Fails /\ UNCHANGED <<claim, machine>>
     ELSE pc' = Launched /\ Starts("one") /\ UNCHANGED <<verdict, ending, healed>>
  /\ UNCHANGED <<mode, key, at, pinned, prev, reads, before, tries, polls, provisioned, usb, fx2, upsets>>

\* The same before the adapters are attached; the signal of a guest launched again
\* is waited for, and its absence ignored.
Gate ==
  /\ pc \in {"gate", "gate2"}
  /\ \/ (Signals("one") \/ pc = "gate2") /\ pc' = "attach" /\ UNCHANGED verdict
     \/ SignalTimesOut("one") /\ pc = "gate" /\ Fails
  /\ UNCHANGED <<mode, key, at, pinned, prev, reads, before, tries, polls, provisioned,
                 usb, fx2, claim, machine, upsets>>

\* attach_adapter: the adapter is claimed, and the analyzer's waits for firmware.
AttachAdapter(u) ==
  /\ tries' = [tries EXCEPT ![u] = @ + 1]
  /\ claim' = IF u \in pinned /\ vm["one"] # "off" THEN Claimed(u, claim) ELSE claim
  /\ pc' = IF u = "analyzer" /\ claim'[u] = "resetting" THEN "fxload" ELSE "attach"

\* The firmware is there and the adapter is claimed once more, or it is not in time.
FollowFxload ==
  /\ pc = "fxload"
  /\ \/ usb["analyzer"] = "ready" /\ claim' = Claimed("analyzer", claim)
     \/ usb["analyzer"] # "ready" /\ UNCHANGED claim
  /\ pc' = "attach"
  /\ UNCHANGED <<mode, key, at, pinned, prev, reads, before, tally, usb, fx2, machine, upsets>>

\* _attach_and_verify on the source, then on the analyzer: the verdict is given
\* as soon as the last attempt returns.
Attach ==
  /\ pc = "attach" /\ verdict[at] \notin Done
  /\ \/ /\ tries[at] = 0 /\ ~Answers(at)
        /\ AttachAdapter(at) /\ UNCHANGED <<verdict, polls>>
     \/ /\ Answers(at)
        /\ verdict' = [verdict EXCEPT ![at] = "answered"] /\ UNCHANGED <<pc, tries, polls, claim>>
     \/ /\ tries[at] > 0 /\ ~Answers(at)
        /\ polls' = Polled(at)
        /\ IF (tries[at] >= Attempts /\ Present(at)) \/ polls'[at] = MaxPolls
           THEN /\ verdict' = [verdict EXCEPT ![at] = "wedged"]
                /\ UNCHANGED <<pc, tries, claim>>
           ELSE /\ UNCHANGED verdict
                /\ IF tries[at] < Attempts THEN AttachAdapter(at) ELSE UNCHANGED <<pc, tries, claim>>
  /\ UNCHANGED <<mode, key, at, pinned, prev, reads, before, provisioned, usb, fx2, machine, upsets>>

AttachNext ==
  /\ pc = "attach" /\ verdict[at] \in Done
  /\ IF at = "source" THEN at' = "analyzer" /\ UNCHANGED pc ELSE pc' = "idle" /\ UNCHANGED at
  /\ UNCHANGED <<mode, key, pinned, prev, reads, before, tally, usb, fx2, claim, machine, upsets>>

-----------------------------------------------------------------------------
(* The rest of the world *)

Upset == upsets < MaxUpsets /\ upsets' = upsets + 1

\* The command is killed.
Killed ==
  /\ pc # "idle" /\ Upset /\ Fails
  /\ UNCHANGED <<mode, key, at, pinned, prev, reads, before, tries, polls, provisioned,
                 usb, fx2, claim, machine>>

\* stop_instance, without force, passes over an instance that answers.
Stoppable(i) == vm[i] # "off" /\ \E u \in Units : Of(u) = i /\ ~Answers(u)

\* A bare `vm-stop` from another terminal: the instance is told to quit, and its
\* pid file removed.
VmStop(i) ==
  /\ Upset /\ Stoppable(i)
  /\ vm' = [vm EXCEPT ![i] = "off"] /\ ending' = [ending EXCEPT ![i] = "yes"]
  /\ claim' = Detached(i, claim)
  /\ UNCHANGED <<command, tally, usb, fx2, console, healed>>

Unplug(u) ==
  /\ Upset /\ Present(u)
  /\ usb' = [usb EXCEPT ![u] = "absent"] /\ claim' = [claim EXCEPT ![u] = "none"]
  /\ UNCHANGED <<command, tally, fx2, machine>>

Plug(u) ==
  /\ Upset /\ ~Present(u)
  /\ usb' = [usb EXCEPT ![u] = IF u = "analyzer" THEN "cold" ELSE "ready"]
  /\ fx2' = [fx2 EXCEPT ![u] = "ok"]
  /\ UNCHANGED <<command, tally, claim, machine>>

Command ==
  \/ Look \/ Prepare \/ Settle \/ Verify \/ (\E u \in Units : Poll(u)) \/ Join
  \/ Singleton \/ JoinGuest \/ Heal \/ Gate \/ FollowFxload \/ Attach \/ AttachNext
Next ==
  \/ Begin \/ Command \/ Killed
  \/ \E u \in Units : ResetEnds(u) \/ Unplug(u) \/ Plug(u)
  \/ \E i \in Instances : Provisions(i) \/ Exits(i) \/ VmStop(i)
  \/ ResetsCollide \/ Fxload

\* The command goes on; nothing is promised of guests and adapters.
Spec == Init /\ [][Next]_vars /\ WF_vars(Command)

-----------------------------------------------------------------------------
(* Properties *)

\* No second qemu on the disk of one that runs or is still exiting, unless the
\* singleton stopped a guest to launch it again.
OneQemuPerInstance ==
  \A i \in Instances : vm[i] # "off" /\ ending[i] = "yes" => healed = "yes"

\* A guest that is still provisioning is not called wedged, unless the marks of an
\* earlier boot are in its log, or the singleton went on without its answer: after
\* its self-heal, or for want of a key to ask it with.
VerdictAfterProvisioning ==
  [][\A u \in Units : verdict[u] # "wedged" /\ verdict'[u] = "wedged" =>
       \/ vm[Of(u)] # "boot" \/ console[Of(u)] = "past"
       \/ healed = "yes" \/ (mode = "singleton" /\ key = "no")]_vars

\* However hosts, guests and adapters behave, the command returns or raises.
BringUpEnds == (pc # "idle") ~> (pc = "idle")
=============================================================================

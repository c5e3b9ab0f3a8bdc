----------------------------- MODULE BridgeServer -----------------------------
(***************************************************************************)
(* The GPIB bridge of gpib_bridge/ni_gpib_server.py: an accept loop, one   *)
(* thread per connection running serve_connection, the lease table and the *)
(* session table the threads share, and the instruments behind the bus.    *)
(*                                                                         *)
(* A thread's lease check and the bus operation it licenses are two steps: *)
(* the operation waits for _BUS_LOCK with no lock of the table held.  The  *)
(* same goes for the dead-man's check and its write.  A bus operation is   *)
(* one step, since _BUS_LOCK serialises them.                              *)
(*                                                                         *)
(* Time is left to LeaseRegistry: here a lease may lapse at any moment, so *)
(* a renewal (K) changes nothing, and neither do the readers (R, X, S, T). *)
(***************************************************************************)
EXTENDS LeaseScopes, FiniteSets

CONSTANTS
  Session,    \* connections, each with its client and its server thread
  SafePad,    \* the pads with a safe-state command (default: the source's)
  NoScope,    \* no lease
  NoOne,      \* not a session
  Asked,      \* the scopes clients ask leases on
  Ops,        \* the bus operations they send: "writeOn", "writeOff", "query"
  MaxConns,   \* worker slots of the accept loop's semaphore
  MaxFaults   \* bound on the bus faults that happen

ASSUME BridgeAssumption ==
  /\ IsFiniteSet(Session)
  /\ SafePad \subseteq Pad
  /\ Asked \subseteq Scope
  /\ Ops \subseteq {"writeOn", "writeOff", "query"}
  /\ NoScope \notin Scope
  /\ NoOne \notin Session
  /\ MaxConns \in Nat \ {0}
  /\ MaxFaults \in Nat

VARIABLES
  \* code state
  pc,          \* where the connection and its thread are
  alive,       \* the sessions whose client still sends
  bound,       \* backend.address: the pad of the last A, which the lease is checked for
  dev,         \* the pad of backend._dev, which the bytes go to
  lease,       \* _LEASES: the scope s holds, or NoScope
  controlled,  \* serve_connection's `controlled`
  keyed,       \* serve_connection's `keyed`
  unsafed,     \* pads _send_safe_state has still to treat
  registered,  \* _SESSIONS
  slots,       \* free permits of the semaphore
  \* the instruments
  hot,         \* the safe-state pads whose output is on
  faults,      \* bus faults so far
  \* history, read by the properties alone
  keyer,       \* keyer[p]: the session whose write turned p on last
  excused      \* excused[p]: what has relieved the dead-man of p since then

code == <<pc, alive, bound, dev, lease, controlled, keyed, unsafed, registered, slots>>
plant == <<hot, faults, keyer, excused>>
vars == <<pc, alive, bound, dev, lease, controlled, keyed, unsafed, registered, slots,
          hot, faults, keyer, excused>>

\* serving: a thread is in the request loop; exiting: it is in `finally`.
Serving == {"auth", "idle", "writeOn", "writeOff", "query"}
Exiting == {"safing", "safeWrite", "unregister", "close"}
PC == {"new", "backlog", "accepted", "gone"} \cup Serving \cup Exiting
Excuse == {"keyerReleased", "otherReleased", "deferred", "faulted"}

TypeOK ==
  /\ pc \in [Session -> PC]
  /\ alive \in SUBSET Session
  /\ bound \in [Session -> Pad \cup {NoPad}]
  /\ dev \in [Session -> Pad \cup {NoPad}]
  /\ lease \in [Session -> Scope \cup {NoScope}]
  /\ controlled \in [Session -> SUBSET Scope]
  /\ keyed \in [Session -> SUBSET SafePad]
  /\ unsafed \in [Session -> SUBSET SafePad]
  /\ registered \in SUBSET Session
  /\ slots \in Nat
  /\ hot \in SUBSET SafePad
  /\ faults \in 0..MaxFaults
  /\ keyer \in [SafePad -> Session \cup {NoOne}]
  /\ excused \in [SafePad -> SUBSET Excuse]

Init ==
  /\ pc = [s \in Session |-> "new"]
  /\ alive = {}
  /\ bound = [s \in Session |-> NoPad]
  /\ dev = [s \in Session |-> NoPad]
  /\ lease = [s \in Session |-> NoScope]
  /\ controlled = [s \in Session |-> {}]
  /\ keyed = [s \in Session |-> {}]
  /\ unsafed = [s \in Session |-> {}]
  /\ registered = {}
  /\ slots = MaxConns
  /\ hot = {}
  /\ faults = 0
  /\ keyer = [p \in SafePad |-> NoOne]
  /\ excused = [p \in SafePad |-> {}]

-----------------------------------------------------------------------------
\* LeaseRegistry.check: no other session's lease collides with the target.
Permitted(s, target) ==
  \A h \in Session \ {s} : lease[h] # NoScope => ~ScopesConflict(target, lease[h])

Covered(scopes) == IF Bus \in scopes THEN SafePad ELSE scopes \cap SafePad

\* The pads _send_safe_state treats at teardown.  BUS among the controlled
\* scopes makes them all of the configured ones.
DeadManPads(s) == Covered(controlled[s]) \cup (keyed[s] \cap SafePad)

Goto(s, l) == pc' = [pc EXCEPT ![s] = l]

\* The accept loop and the start of a worker --------------------------------

Connect(s) ==
  /\ pc[s] = "new"
  /\ Goto(s, "backlog")
  /\ alive' = alive \cup {s}
  /\ UNCHANGED <<bound, dev, lease, controlled, keyed, unsafed, registered, slots, plant>>

\* One thread accepts: it takes the next connection only when the one before
\* has got its worker slot.
Accept(s) ==
  /\ pc[s] = "backlog"
  /\ \A t \in Session : pc[t] # "accepted"
  /\ Goto(s, "accepted")
  /\ UNCHANGED <<alive, bound, dev, lease, controlled, keyed, unsafed, registered, slots, plant>>

StartWorker(s) ==
  /\ pc[s] = "accepted"
  /\ slots > 0
  /\ slots' = slots - 1
  /\ registered' = registered \cup {s}
  /\ Goto(s, "auth")
  /\ UNCHANGED <<alive, bound, dev, lease, controlled, keyed, unsafed, plant>>

\* H with the right token (or a bridge without one).
Authenticate(s) ==
  /\ pc[s] = "auth" /\ s \in alive
  /\ Goto(s, "idle")
  /\ UNCHANGED <<alive, bound, dev, lease, controlled, keyed, unsafed, registered, slots, plant>>

\* The request loop ----------------------------------------------------------

\* A: the address is set first, then the device object is made for it.
Bind(s, p) ==
  /\ pc[s] = "idle" /\ s \in alive
  /\ bound' = [bound EXCEPT ![s] = p]
  /\ dev' = [dev EXCEPT ![s] = p]
  /\ UNCHANGED <<pc, alive, lease, controlled, keyed, unsafed, registered, slots, plant>>

\* Making the object raises: the address is the new one and the object the old.
BindFault(s, p) ==
  /\ pc[s] = "idle" /\ s \in alive
  /\ bound' = [bound EXCEPT ![s] = p]
  /\ UNCHANGED <<pc, alive, dev, lease, controlled, keyed, unsafed, registered, slots, plant>>

\* L, granted.  A refused L changes nothing.
Acquire(s, sc) ==
  /\ pc[s] = "idle" /\ s \in alive
  /\ Permitted(s, sc)
  /\ lease' = [lease EXCEPT ![s] = sc]
  /\ controlled' = [controlled EXCEPT ![s] = @ \cup {sc}]
  /\ UNCHANGED <<pc, alive, bound, dev, keyed, unsafed, registered, slots, plant>>

\* The TTL runs out and somebody looks at the table.
Lapse(s) ==
  /\ lease[s] # NoScope
  /\ lease' = [lease EXCEPT ![s] = NoScope]
  /\ UNCHANGED <<pc, alive, bound, dev, controlled, keyed, unsafed, registered, slots, plant>>

\* U: the clean handoff.  The session's dead-man forgets every pad.
Release(s) ==
  /\ pc[s] = "idle" /\ s \in alive
  /\ lease' = [lease EXCEPT ![s] = NoScope]
  /\ controlled' = [controlled EXCEPT ![s] = {}]
  /\ keyed' = [keyed EXCEPT ![s] = {}]
  /\ excused' = [p \in SafePad |->
       excused[p] \cup IF p \in hot \cap DeadManPads(s)
                       THEN {IF keyer[p] = s THEN "keyerReleased" ELSE "otherReleased"}
                       ELSE {}]
  /\ UNCHANGED <<pc, alive, bound, dev, unsafed, registered, slots, hot, faults, keyer>>

\* W or Q, up to the lease check.  A refused one changes nothing.
CheckOp(s, op) ==
  /\ pc[s] = "idle" /\ s \in alive
  /\ Permitted(s, bound[s])
  /\ Goto(s, op)
  /\ UNCHANGED <<alive, bound, dev, lease, controlled, keyed, unsafed, registered, slots, plant>>

\* What a write that reaches pad p does to its output, and to the history.
Switch(s, p, on) ==
  IF on
  THEN /\ hot' = hot \cup {p}
       /\ keyer' = [keyer EXCEPT ![p] = s]
       /\ excused' = [excused EXCEPT ![p] = {}]
  ELSE /\ hot' = hot \ {p}
       /\ keyer' = [keyer EXCEPT ![p] = NoOne]
       /\ excused' = [excused EXCEPT ![p] = {}]

\* mutant: a write does not arm the dead-man
BusWrite_Unarmed(s) ==
  /\ pc[s] \in {"writeOn", "writeOff"} /\ dev[s] # NoPad
  /\ Goto(s, "idle")
  /\ IF dev[s] \in SafePad THEN Switch(s, dev[s], pc[s] = "writeOn")
                          ELSE UNCHANGED <<hot, keyer, excused>>
  /\ UNCHANGED <<alive, bound, dev, lease, controlled, keyed, unsafed, registered, slots, faults>>

\* backend.write under _BUS_LOCK, to the device object; then keyed.add, of the
\* address: any write arms the dead-man for a safe-state pad.
BusWrite(s) ==
  /\ pc[s] \in {"writeOn", "writeOff"} /\ dev[s] # NoPad
  /\ Goto(s, "idle")
  /\ IF dev[s] \in SafePad THEN Switch(s, dev[s], pc[s] = "writeOn")
                          ELSE UNCHANGED <<hot, keyer, excused>>
  /\ keyed' = [keyed EXCEPT ![s] = @ \cup ({bound[s]} \cap SafePad)]
  /\ UNCHANGED <<alive, bound, dev, lease, controlled, unsafed, registered, slots, faults>>

\* There is no device object: the write raises before the bus.
NoDevice(s) ==
  /\ pc[s] \in {"writeOn", "writeOff"} /\ dev[s] = NoPad
  /\ Goto(s, "idle")
  /\ UNCHANGED <<alive, bound, dev, lease, controlled, keyed, unsafed, registered, slots, plant>>

\* backend.write raises GpibFault: keyed.add is jumped over, whether the
\* instrument acted on the bytes or not.
BusWriteFault(s) ==
  /\ pc[s] \in {"writeOn", "writeOff"} /\ dev[s] # NoPad
  /\ faults < MaxFaults
  /\ faults' = faults + 1
  /\ Goto(s, "idle")
  /\ \/ UNCHANGED <<hot, keyer, excused>>
     \/ /\ pc[s] = "writeOn" /\ dev[s] \in SafePad
        /\ hot' = hot \cup {dev[s]}
        /\ keyer' = [keyer EXCEPT ![dev[s]] = s]
        /\ excused' = [excused EXCEPT ![dev[s]] = {"faulted"}]
     \/ /\ pc[s] = "writeOff" /\ dev[s] \in SafePad
        /\ Switch(s, dev[s], FALSE)
  /\ UNCHANGED <<alive, bound, dev, lease, controlled, keyed, unsafed, registered, slots>>

\* backend.query, answered or failed.
BusQuery(s) ==
  /\ pc[s] = "query"
  /\ Goto(s, "idle")
  /\ UNCHANGED <<alive, bound, dev, lease, controlled, keyed, unsafed, registered, slots, plant>>

\* Teardown ------------------------------------------------------------------

\* The client process dies or its link partitions.
Crash(s) ==
  /\ s \in alive
  /\ alive' = alive \ {s}
  /\ UNCHANGED <<pc, bound, dev, lease, controlled, keyed, unsafed, registered, slots, plant>>

\* mutant: teardown goes by the lease still held, not by what was controlled
Break_LiveLeaseOnly(s) ==
  /\ pc[s] \in {"auth", "idle"}
  /\ Goto(s, "safing")
  /\ unsafed' = [unsafed EXCEPT ![s] = Covered({lease[s]})]
  /\ controlled' = [controlled EXCEPT ![s] = {}]
  /\ keyed' = [keyed EXCEPT ![s] = {}]
  /\ UNCHANGED <<alive, bound, dev, lease, registered, slots, plant>>

\* mutant: the lease goes back ahead of the dead-man
Break_ReleasesFirst(s) ==
  /\ pc[s] \in {"auth", "idle"}
  /\ Goto(s, "safing")
  /\ unsafed' = [unsafed EXCEPT ![s] = DeadManPads(s)]
  /\ controlled' = [controlled EXCEPT ![s] = {}]
  /\ keyed' = [keyed EXCEPT ![s] = {}]
  /\ lease' = [lease EXCEPT ![s] = NoScope]
  /\ UNCHANGED <<alive, bound, dev, registered, slots, plant>>

\* The loop ends: C, end of file, idle timeout, socket error, an over-long
\* frame, a wrong token, a verb before H.  _send_safe_state is the last to
\* read `controlled` and `keyed`.
Break(s) ==
  /\ pc[s] \in {"auth", "idle"}
  /\ Goto(s, "safing")
  /\ unsafed' = [unsafed EXCEPT ![s] = DeadManPads(s)]
  /\ controlled' = [controlled EXCEPT ![s] = {}]
  /\ keyed' = [keyed EXCEPT ![s] = {}]
  /\ UNCHANGED <<alive, bound, dev, lease, registered, slots, plant>>

\* The pads are treated in ascending order.
NextUnsafed(s, p) == p \in unsafed[s] /\ \A q \in unsafed[s] : p <= q

\* _LEASES.check for the next pad: another session's control makes the
\* dead-man skip it.
SafeCheck(s, p) ==
  /\ pc[s] = "safing"
  /\ NextUnsafed(s, p)
  /\ IF Permitted(s, p)
     THEN Goto(s, "safeWrite") /\ UNCHANGED <<unsafed, excused>>
     ELSE /\ unsafed' = [unsafed EXCEPT ![s] = @ \ {p}]
          /\ excused' = IF p \in hot THEN [excused EXCEPT ![p] = @ \cup {"deferred"}]
                        ELSE excused
          /\ UNCHANGED pc
  /\ UNCHANGED <<alive, bound, dev, lease, controlled, keyed, registered, slots,
                 hot, faults, keyer>>

\* backend.bind, which rebinds the device object, and the command under _BUS_LOCK.
SafeWrite(s, p) ==
  /\ pc[s] = "safeWrite"
  /\ NextUnsafed(s, p)
  /\ Goto(s, "safing")
  /\ unsafed' = [unsafed EXCEPT ![s] = @ \ {p}]
  /\ bound' = [bound EXCEPT ![s] = p]
  /\ dev' = [dev EXCEPT ![s] = p]
  /\ Switch(s, p, FALSE)
  /\ UNCHANGED <<alive, lease, controlled, keyed, registered, slots, faults>>

\* The bind or the write fails: logged, and the pad is left as it is.
SafeWriteFault(s, p) ==
  /\ pc[s] = "safeWrite"
  /\ NextUnsafed(s, p)
  /\ faults < MaxFaults
  /\ faults' = faults + 1
  /\ Goto(s, "safing")
  /\ unsafed' = [unsafed EXCEPT ![s] = @ \ {p}]
  /\ bound' = [bound EXCEPT ![s] = p]
  /\ \E d \in {dev[s], p} : dev' = [dev EXCEPT ![s] = d]
  /\ excused' = IF p \in hot THEN [excused EXCEPT ![p] = @ \cup {"faulted"}] ELSE excused
  /\ UNCHANGED <<alive, lease, controlled, keyed, registered, slots, hot, keyer>>

\* mutant: `finally` does not release the lease
ExitRelease_Forgotten(s) ==
  /\ pc[s] = "safing"
  /\ unsafed[s] = {}
  /\ Goto(s, "unregister")
  /\ UNCHANGED <<alive, bound, dev, lease, controlled, keyed, unsafed, registered, slots, plant>>

\* _LEASES.release, once the dead-man is through.
ExitRelease(s) ==
  /\ pc[s] = "safing"
  /\ unsafed[s] = {}
  /\ Goto(s, "unregister")
  /\ lease' = [lease EXCEPT ![s] = NoScope]
  /\ UNCHANGED <<alive, bound, dev, controlled, keyed, unsafed, registered, slots, plant>>

Unregister(s) ==
  /\ pc[s] = "unregister"
  /\ Goto(s, "close")
  /\ registered' = registered \ {s}
  /\ UNCHANGED <<alive, bound, dev, lease, controlled, keyed, unsafed, slots, plant>>

\* mutant: the worker slot is not given back
FreeSlot_Leaked(s) ==
  /\ pc[s] = "close"
  /\ Goto(s, "gone")
  /\ alive' = alive \ {s}
  /\ bound' = [bound EXCEPT ![s] = NoPad]
  /\ dev' = [dev EXCEPT ![s] = NoPad]
  /\ UNCHANGED <<lease, controlled, keyed, unsafed, registered, slots, plant>>

\* backend.close; _serve_and_close's finally closes the socket, frees the slot.
FreeSlot(s) ==
  /\ pc[s] = "close"
  /\ Goto(s, "gone")
  /\ alive' = alive \ {s}
  /\ bound' = [bound EXCEPT ![s] = NoPad]
  /\ dev' = [dev EXCEPT ![s] = NoPad]
  /\ slots' = slots + 1
  /\ UNCHANGED <<lease, controlled, keyed, unsafed, registered, plant>>

-----------------------------------------------------------------------------
\* Every client's transport has one address, and sends no other with A.
Address(s, p) == bound[s] \in {NoPad, p} /\ (Bind(s, p) \/ BindFault(s, p))

Client(s) ==
  \/ Connect(s) \/ Authenticate(s) \/ Release(s) \/ Crash(s)
  \/ \E p \in Pad : Address(s, p)
  \/ \E sc \in Asked : Acquire(s, sc)
  \/ \E op \in Ops : CheckOp(s, op)

Bench(s) == BusWrite(s) \/ NoDevice(s) \/ BusWriteFault(s) \/ BusQuery(s)

DeadMan(s) ==
  \E p \in SafePad : SafeCheck(s, p) \/ SafeWrite(s, p) \/ SafeWriteFault(s, p)

Exit(s) == ExitRelease(s) \/ Unregister(s) \/ FreeSlot(s)

Server(s) == Accept(s) \/ StartWorker(s) \/ Lapse(s) \/ Break(s)

Next == \E s \in Session : Client(s) \/ Bench(s) \/ DeadMan(s) \/ Exit(s) \/ Server(s)

Spec == Init /\ [][Next]_vars

\* The threads run: a worker whose client is silent for idle_s leaves its loop,
\* bus operations return, `finally` runs to its end, and the accept loop goes on.
\* Nothing makes a client connect, send or die.
Fairness ==
  \A s \in Session :
    /\ WF_vars(Accept(s)) /\ WF_vars(StartWorker(s))
    /\ WF_vars(s \notin alive /\ Break(s))
    /\ WF_vars(Bench(s)) /\ WF_vars(DeadMan(s)) /\ WF_vars(Exit(s))

FairSpec == Spec /\ Fairness

-----------------------------------------------------------------------------
\* Two sessions never hold colliding leases.
TableExclusive ==
  \A s, t \in Session :
    /\ s # t
    /\ lease[s] # NoScope
    /\ lease[t] # NoScope
    => ~ScopesConflict(lease[s], lease[t])

\* A lease is held only by a listed session whose thread can still give it
\* back: no exit path of serve_connection leaks a lease, and a holder never
\* disappears from the session table before its lease does.
HoldersAreServed ==
  \A s \in Session :
    lease[s] # NoScope => /\ s \in registered
                          /\ pc[s] \in Serving \cup {"safing", "safeWrite"}

\* The dead-man knows every lease its session can be holding: `controlled` is
\* kept by the thread, the lease by the registry, and re-scoping, lapses and U
\* never let the second outgrow the first.
DeadManKnowsLeases ==
  \A s \in Session :
    lease[s] # NoScope /\ pc[s] \in Serving => lease[s] \in controlled[s]

\* Some thread will still send p its safe-state command.
Armed(s, p) ==
  \/ pc[s] \in Serving /\ p \in DeadManPads(s)
  \/ pc[s] \in {"safing", "safeWrite"} /\ p \in unsafed[s]

\* A radiating pad always has a dead-man behind it, but for the cases the
\* history names: a U by an armed session, a dead-man that stood back for
\* another controller, a bus fault.
HotIsAccountedFor ==
  \A p \in hot : excused[p] # {} \/ \E s \in Session : Armed(s, p)

\* Worker slots are neither lost nor doubled, whatever way a thread ends.
Working(s) == pc[s] \in Serving \cup Exiting
SlotsAccounted ==
  slots + Cardinality({s \in Session : Working(s)}) = MaxConns

\* A controller that exits with its lease still live does not leave its own
\* RF on behind it: the dead-man comes before the release, so no successor can
\* make it stand back (a fault of the bus excepted).
ControllerLeavesCold ==
  [][\A s \in Session :
       /\ pc'[s] \in Exiting /\ pc'[s] # pc[s]
       /\ lease[s] # NoScope /\ lease'[s] = NoScope
       => \A p \in Covered({lease[s]}) \cap hot : keyer[p] # s \/ excused[p] # {}]_vars

\* The bridge as a whole implements exclusive control of the pads.
controller ==
  [p \in Pad |->
     IF \E s \in Session : lease[s] \in {p, Bus}
     THEN CHOOSE s \in Session : lease[s] \in {p, Bus} ELSE NoOne]

Abstract == INSTANCE ExclusiveControl WITH owner <- controller

ImplementsExclusiveControl == Abstract!Spec

\* A client that dies with a pad armed and radiating gets it switched off, or
\* another session has control of it (or armed it) by then, or the bus failed.
DeadManFires ==
  \A s \in Session, p \in SafePad :
    (s \notin alive /\ p \in hot /\ Armed(s, p)) ~>
      \/ p \notin hot
      \/ "faulted" \in excused[p]
      \/ \E t \in Session \ {s} : lease[t] \in {p, Bus} \/ Armed(t, p)

=============================================================================

----------------------------- MODULE ControlLease -----------------------------
(***************************************************************************)
(* The client's side of a lease: control_lease.ControlLease over a link of *)
(* connection.AnalyzerLink and its drivers.NetworkTransport, several       *)
(* clients contending for one pad of the bridge.                           *)
(*                                                                         *)
(* In each client three activities share the transport: the thread that    *)
(* acquires and releases, the threads that use the instrument (their       *)
(* failures drop or reconnect the transport), and the keepalive thread,    *)
(* one per acquisition.  _txn_lock makes a request and its reply one step. *)
(* A request may be lost, or handled and its reply lost: the caller gets   *)
(* an exception and the socket is poisoned from then on, so that later     *)
(* requests still reach the bridge and all raise.  On a socket that is     *)
(* closed nothing is even sent.                                            *)
(***************************************************************************)
EXTENDS Naturals

CONSTANTS
  Client,
  NoOne,         \* not a session
  MaxSessions,   \* bound on the connections one client opens
  MaxHolds       \* bound on the times one client acquires

ASSUME ControlLeaseAssumption ==
  /\ MaxSessions \in Nat \ {0}
  /\ MaxHolds \in Nat
  /\ NoOne \notin Client \X (1..MaxSessions)

Session == Client \X (1..MaxSessions)
Hold == 1..MaxHolds

VARIABLES
  \* the bridge, for the one pad
  holder,     \* the session in _LEASES
  serving,    \* sessions whose thread has not released yet
  \* each client's link and transport
  sess,       \* number of its latest connection
  up,         \* clients whose link has a driver, hence a transport
  broken,     \* clients whose open socket is poisoned
  closed,     \* clients whose transport has only a socket that it closed itself
  swapping,   \* clients inside NetworkTransport.reconnect
  mem,        \* clients whose transport remembers a lease (_lease_scope)
  \* each client's ControlLease
  held, releasing,
  keep,       \* the hold whose thread and Event are in _thread and _stop, or 0
  holds,      \* acquisitions so far
  main,       \* where acquire() or release() is
  thread,     \* thread[c][h]: where the keepalive thread of c's h-th hold is
  told,       \* <<c, h>>: the Event of that thread is set
  own,        \* <<c, h>>: in a tick, whose transport is the link's still
  \* history, read by the properties alone
  late,       \* clients whose join timed out
  upset       \* clients hit by a lapse or a lost connection since their last L

bridge == <<holder, serving>>
link == <<sess, up, swapping, closed>>
control == <<held, releasing, keep, holds, main, told>>
vars == <<holder, serving, sess, up, broken, closed, swapping, mem, held, releasing,
          keep, holds, main, thread, told, own, late, upset>>

MidTick == {"renew", "retry", "relock"}

TypeOK ==
  /\ holder \in Session \cup {NoOne}
  /\ serving \in SUBSET Session
  /\ sess \in [Client -> 1..MaxSessions]
  /\ up \in SUBSET Client
  /\ broken \in SUBSET Client
  /\ closed \in SUBSET Client
  /\ swapping \in SUBSET Client
  /\ mem \in SUBSET Client
  /\ held \in SUBSET Client
  /\ releasing \in SUBSET Client
  /\ keep \in [Client -> 0..MaxHolds]
  /\ holds \in [Client -> 0..MaxHolds]
  /\ main \in [Client -> {"idle", "start", "join", "unlease", "forget"}]
  /\ thread \in [Client -> [Hold -> {"off", "wait"} \cup MidTick]]
  /\ told \in SUBSET (Client \X Hold)
  /\ own \in SUBSET (Client \X Hold)
  /\ late \in SUBSET Client
  /\ upset \in SUBSET Client

\* Every client's link is READY.
Init ==
  /\ holder = NoOne
  /\ sess = [c \in Client |-> 1]
  /\ serving = {<<c, 1>> : c \in Client}
  /\ up = Client
  /\ broken = {} /\ closed = {} /\ swapping = {} /\ mem = {} /\ held = {}
  /\ releasing = {} /\ told = {} /\ own = {} /\ late = {} /\ upset = {}
  /\ keep = [c \in Client |-> 0] /\ holds = [c \in Client |-> 0]
  /\ main = [c \in Client |-> "idle"]
  /\ thread = [c \in Client |-> [h \in Hold |-> "off"]]

-----------------------------------------------------------------------------
Cur(c) == <<c, sess[c]>>
Free(s) == holder \in {NoOne, s}

\* One _txn of c.  seen: the bridge handled it; answered: the reply came back.
Txn(c, seen, answered) ==
  /\ c \in up \ swapping
  /\ seen => Cur(c) \in serving /\ c \notin closed
  /\ answered => seen /\ c \notin broken
  /\ broken' = IF answered \/ c \in closed THEN broken ELSE broken \cup {c}

\* What an L leaves in the lease table.
Lease(c, seen) == IF seen /\ Free(Cur(c)) THEN Cur(c) ELSE holder

Stopped(c, h) == <<c, h>> \in told

\* What _stop_keepalive sets, if it finds an Event.
Registered(c) == {p \in {c} \X Hold : p[2] = keep[c]}

At(c, h, l) == thread' = [thread EXCEPT ![c][h] = l]
TickGoesOn(c, h, l) == At(c, h, l) /\ own' = own
TickEnds(c, h) ==
  /\ At(c, h, IF Stopped(c, h) THEN "off" ELSE "wait")
  /\ own' = own \ {<<c, h>>}

\* acquire ------------------------------------------------------------------

\* A reconnect between L's reply and the assignment that remembers it leaves
\* what a re-assertion that was refused leaves: one step.
AcquireGranted(c) ==
  /\ c \notin held /\ main[c] = "idle" /\ holds[c] < MaxHolds
  /\ Free(Cur(c))
  /\ Txn(c, TRUE, TRUE)
  /\ holder' = Cur(c)
  /\ mem' = mem \cup {c}
  /\ held' = held \cup {c}
  /\ releasing' = releasing \ {c}
  /\ holds' = [holds EXCEPT ![c] = @ + 1]
  /\ main' = [main EXCEPT ![c] = "start"]
  /\ upset' = upset \ {c}
  /\ UNCHANGED <<serving, link, keep, thread, told, own, late>>

\* mutant: one Event for all threads, cleared for each new one
StartKeepalive_OneEvent(c) ==
  /\ main[c] = "start"
  /\ main' = [main EXCEPT ![c] = "idle"]
  /\ \/ /\ c \in up
        /\ told' = told \ ({c} \X Hold)
        /\ keep' = [keep EXCEPT ![c] = holds[c]]
        /\ At(c, holds[c], "wait")
     \/ /\ c \notin up
        /\ told' = told \cup Registered(c)
        /\ keep' = [keep EXCEPT ![c] = 0]
        /\ UNCHANGED thread
  /\ UNCHANGED <<bridge, link, broken, mem, held, releasing, holds, own, late, upset>>

\* _start_keepalive stops a thread that is registered still, looks the transport
\* up once more (none by now: no thread) and gives the new thread its own Event.
StartKeepalive(c) ==
  /\ main[c] = "start"
  /\ main' = [main EXCEPT ![c] = "idle"]
  /\ told' = told \cup Registered(c)
  /\ \/ /\ c \in up
        /\ keep' = [keep EXCEPT ![c] = holds[c]]
        /\ At(c, holds[c], "wait")
     \/ /\ c \notin up
        /\ keep' = [keep EXCEPT ![c] = 0]
        /\ UNCHANGED thread
  /\ UNCHANGED <<bridge, link, broken, mem, held, releasing, holds, own, late, upset>>

\* The link lost its driver after the caller's ensure(): acquire takes it for a
\* simulated one, with nothing to lease.
AcquireUnconnected(c) ==
  /\ c \notin held /\ main[c] = "idle" /\ holds[c] < MaxHolds
  /\ c \notin up
  /\ held' = held \cup {c}
  /\ holds' = [holds EXCEPT ![c] = @ + 1]
  /\ UNCHANGED <<bridge, link, broken, mem, releasing, keep, main, thread, told,
                 own, late, upset>>

\* L raises for want of an answer: acquire returns (False, who), and a lease
\* the bridge may have granted has no keepalive.  A refused L changes nothing.
\* (On a closed socket the ValueError goes on to acquire's caller.)
AcquireLost(c, seen) ==
  /\ c \notin held /\ main[c] = "idle"
  /\ Txn(c, seen, FALSE)
  /\ holder' = Lease(c, seen)
  /\ upset' = upset \cup {c}
  /\ UNCHANGED <<serving, link, mem, control, thread, own, late>>

\* release ------------------------------------------------------------------

\* Set the keepalive thread's Event, if there is one, and wait for the thread.
Release(c) ==
  /\ c \in held /\ main[c] = "idle"
  /\ releasing' = releasing \cup {c}
  /\ told' = told \cup Registered(c)
  /\ keep' = [keep EXCEPT ![c] = 0]
  /\ main' = [main EXCEPT ![c] = IF keep[c] # 0 THEN "join" ELSE "unlease"]
  /\ UNCHANGED <<bridge, link, broken, mem, held, holds, thread, own, late, upset>>

\* mutant: the join is not waited for
Joined_Always(c) ==
  /\ main[c] = "join"
  /\ main' = [main EXCEPT ![c] = "unlease"]
  /\ UNCHANGED <<bridge, link, broken, mem, held, releasing, keep, holds,
                 thread, told, own, late, upset>>

Joined(c) ==
  /\ main[c] = "join"
  /\ thread[c][holds[c]] = "off"
  /\ main' = [main EXCEPT ![c] = "unlease"]
  /\ UNCHANGED <<bridge, link, broken, mem, held, releasing, keep, holds,
                 thread, told, own, late, upset>>

\* join(timeout=JOIN_TIMEOUT_S) returns with the tick still going: it waits for
\* a slow reply, or for the transport behind a long bus operation.
JoinTimedOut(c) ==
  /\ main[c] = "join"
  /\ thread[c][holds[c]] \in MidTick
  /\ main' = [main EXCEPT ![c] = "unlease"]
  /\ late' = late \cup {c}
  /\ UNCHANGED <<bridge, link, broken, mem, held, releasing, keep, holds,
                 thread, told, own, upset>>

\* U, if the link has a transport ...
Unlease(c) ==
  /\ main[c] = "unlease"
  /\ main' = [main EXCEPT ![c] = "forget"]
  /\ \/ \E seen, answered \in BOOLEAN :
          /\ Txn(c, seen, answered)
          /\ holder' = IF seen /\ holder = Cur(c) THEN NoOne ELSE holder
          /\ upset' = IF answered THEN upset ELSE upset \cup {c}
     \/ c \notin up /\ UNCHANGED <<holder, broken, upset>>
  /\ UNCHANGED <<serving, link, mem, held, releasing, keep, holds, thread, told,
                 own, late>>

\* ... and, outside the transport's lock, whatever came of it, the transport
\* forgets the lease and _held falls.  A reconnect that comes between the two
\* takes the lease back, and nobody renews it.
Forget(c) ==
  /\ main[c] = "forget"
  /\ main' = [main EXCEPT ![c] = "idle"]
  /\ mem' = mem \ {c}
  /\ held' = held \ {c}
  /\ UNCHANGED <<bridge, link, broken, releasing, keep, holds, thread, told, own,
                 late, upset>>

\* The keepalive thread -----------------------------------------------------

\* mutant: the transport is captured once, at the first connection
TickStart_Captured(c, h) ==
  /\ thread[c][h] = "wait" /\ ~Stopped(c, h)
  /\ c \notin releasing
  /\ c \in up
  /\ At(c, h, "renew")
  /\ own' = IF sess[c] = 1 THEN own \cup {<<c, h>>} ELSE own \ {<<c, h>>}
  /\ UNCHANGED <<bridge, link, broken, mem, control, late, upset>>

\* stop.wait ran out.  A tick that finds the release begun, the main loop
\* stalled or no transport does nothing at all.
TickStart(c, h) ==
  /\ thread[c][h] = "wait" /\ ~Stopped(c, h)
  /\ c \notin releasing
  /\ c \in up
  /\ At(c, h, "renew")
  /\ own' = own \cup {<<c, h>>}
  /\ UNCHANGED <<bridge, link, broken, mem, control, late, upset>>

\* K on the link's transport.
TickRenew(c, h) ==
  /\ thread[c][h] = "renew" /\ <<c, h>> \in own
  /\ \E seen, answered \in BOOLEAN :
       /\ Txn(c, seen, answered)
       /\ IF answered /\ holder = Cur(c) THEN TickEnds(c, h)
          ELSE TickGoesOn(c, h, "retry")
       /\ upset' = IF answered THEN upset ELSE upset \cup {c}
  /\ UNCHANGED <<bridge, link, mem, control, late>>

\* After a failed K: has release() begun?
TickRecheck(c, h) ==
  /\ thread[c][h] = "retry"
  /\ IF c \in releasing THEN TickEnds(c, h) ELSE TickGoesOn(c, h, "relock")
  /\ UNCHANGED <<bridge, link, broken, mem, control, late, upset>>

\* L on the link's transport, its failure ignored.
TickRelock(c, h) ==
  /\ thread[c][h] = "relock" /\ <<c, h>> \in own
  /\ \E seen, answered \in BOOLEAN :
       /\ Txn(c, seen, answered)
       /\ holder' = Lease(c, seen)
       /\ mem' = IF answered /\ Free(Cur(c)) THEN mem \cup {c} ELSE mem
       /\ upset' = IF ~answered THEN upset \cup {c}
                   ELSE IF Free(Cur(c)) THEN upset \ {c} ELSE upset
  /\ TickEnds(c, h)
  /\ UNCHANGED <<serving, link, control, late>>

\* The transport of this tick is closed by now: K raises, and so does L.
TickOnClosed(c, h) ==
  /\ thread[c][h] \in {"renew", "relock"} /\ <<c, h>> \notin own
  /\ IF thread[c][h] = "renew" THEN TickGoesOn(c, h, "retry") ELSE TickEnds(c, h)
  /\ UNCHANGED <<bridge, link, broken, mem, control, late, upset>>

ThreadStops(c, h) ==
  /\ thread[c][h] = "wait" /\ Stopped(c, h)
  /\ At(c, h, "off")
  /\ UNCHANGED <<bridge, link, broken, mem, control, own, late, upset>>

\* The link and the transport -------------------------------------------------

\* A bus operation raised: the link tears its driver down.
LinkDrops(c) ==
  /\ c \in up \ swapping
  /\ up' = up \ {c}
  /\ broken' = broken \ {c}
  /\ closed' = closed \ {c}
  /\ mem' = mem \ {c}
  /\ own' = own \ ({c} \X Hold)
  /\ upset' = upset \cup {c}
  /\ UNCHANGED <<bridge, sess, swapping, control, thread, late>>

\* ensure() opens a fresh transport, which has no lease to remember.
LinkReopens(c) ==
  /\ c \notin up /\ sess[c] < MaxSessions
  /\ up' = up \cup {c}
  /\ sess' = [sess EXCEPT ![c] = @ + 1]
  /\ serving' = serving \cup {<<c, sess[c] + 1>>}
  /\ UNCHANGED <<holder, swapping, closed, broken, mem, control, thread, own, late, upset>>

\* NetworkTransport.reconnect, under _txn_lock: the old socket is closed ...
SwapBegins(c) ==
  /\ c \in up \ swapping
  /\ swapping' = swapping \cup {c}
  /\ closed' = closed \cup {c}
  /\ broken' = broken \ {c}
  /\ upset' = upset \cup {c}
  /\ UNCHANGED <<bridge, sess, up, mem, control, thread, own, late>>

\* ... and _connect makes the new one, sending L again if there is a lease to
\* remember, a refusal ignored.
SwapEnds(c) ==
  /\ c \in swapping /\ sess[c] < MaxSessions
  /\ LET new == <<c, sess[c] + 1>>
     IN  /\ sess' = [sess EXCEPT ![c] = @ + 1]
         /\ serving' = serving \cup {new}
         /\ holder' = IF c \in mem /\ Free(new) THEN new ELSE holder
         /\ upset' = IF c \in mem /\ Free(new) THEN upset \ {c} ELSE upset
  /\ swapping' = swapping \ {c}
  /\ closed' = closed \ {c}
  /\ UNCHANGED <<up, broken, mem, control, thread, own, late>>

\* _connect raises: nobody accepts, and the transport is left with the socket it
\* closed; or the connection is made and H, A or T fails on it, before L.  Either
\* way the link keeps its driver, READY, until a bus operation drops it, and the
\* transport its memory of the lease.
SwapFails(c) ==
  /\ c \in swapping
  /\ swapping' = swapping \ {c}
  /\ \/ UNCHANGED <<sess, serving, closed, broken>>
     \/ /\ sess[c] < MaxSessions
        /\ sess' = [sess EXCEPT ![c] = @ + 1]
        /\ serving' = serving \cup {<<c, sess[c] + 1>>}
        /\ closed' = closed \ {c}
        /\ broken' \in {broken, broken \cup {c}}
  /\ UNCHANGED <<holder, up, mem, control, thread, own, late, upset>>

\* The bridge -----------------------------------------------------------------

\* The TTL runs out.
Lapse ==
  /\ holder # NoOne
  /\ holder' = NoOne
  /\ upset' = upset \cup {holder[1]}
  /\ UNCHANGED <<serving, link, broken, mem, control, thread, own, late>>

\* mutant: the exit drops whatever lease there is on the pad
SessionExit_DropsPad(s) ==
  /\ s \in serving
  /\ s # Cur(s[1]) \/ s[1] \notin up \/ s[1] \in closed \cup broken
  /\ serving' = serving \ {s}
  /\ holder' = NoOne
  /\ UNCHANGED <<link, broken, mem, control, thread, own, late, upset>>

\* The bridge's idle timeout, or a time-out of somebody's bus operation, leaves c
\* with a useless socket.
SocketBreaks(c) ==
  /\ c \in up \ (closed \cup broken)
  /\ broken' = broken \cup {c}
  /\ upset' = upset \cup {c}
  /\ UNCHANGED <<bridge, link, mem, control, thread, own, late>>

\* A session whose socket is closed or gone silent ends: its `finally`
\* releases its lease, some time after.
SessionExit(s) ==
  /\ s \in serving
  /\ s # Cur(s[1]) \/ s[1] \notin up \/ s[1] \in closed \cup broken
  /\ serving' = serving \ {s}
  /\ holder' = IF holder = s THEN NoOne ELSE holder
  /\ UNCHANGED <<link, broken, mem, control, thread, own, late, upset>>

-----------------------------------------------------------------------------
Main(c) ==
  \/ AcquireGranted(c) \/ StartKeepalive(c) \/ AcquireUnconnected(c)
  \/ \E seen \in BOOLEAN : AcquireLost(c, seen)
  \/ Release(c) \/ Joined(c) \/ JoinTimedOut(c)
  \/ Unlease(c) \/ Forget(c)

Keepalive(c, h) ==
  \/ TickStart(c, h) \/ TickRenew(c, h) \/ TickRecheck(c, h) \/ TickRelock(c, h)
  \/ TickOnClosed(c, h) \/ ThreadStops(c, h)

Transport(c) ==
  \/ LinkDrops(c) \/ LinkReopens(c) \/ SwapBegins(c) \/ SwapEnds(c) \/ SwapFails(c)
  \/ SocketBreaks(c)

Next ==
  \/ \E c \in Client :
       \/ Main(c)
       \/ \E h \in Hold : Keepalive(c, h)
       \/ Transport(c)
  \/ Lapse
  \/ \E s \in Session : SessionExit(s)

Spec == Init /\ [][Next]_vars

\* The keepalive thread and the bridge's threads run.
Fairness ==
  /\ \A c \in Client : \A h \in Hold : WF_vars(Keepalive(c, h))
  /\ \A s \in Session : WF_vars(SessionExit(s))

FairSpec == Spec /\ Fairness

-----------------------------------------------------------------------------
\* A client that believes it has control has it, unless its lease lapsed or its
\* connection was lost since its last L: neither a refused or unanswered
\* request, nor the end of its own older sessions, nor a leftover keepalive
\* tick parts the belief from the bridge's table.  held() stays true through
\* release() until the transport has forgotten the lease.
HeldIsBacked == \A c \in held \ upset : main[c] # "forget" => holder = Cur(c)

\* Once release() has returned no keepalive thread is in the middle of a tick,
\* so none can send a late L, but for a join that ran out of time.
QuietAfterRelease ==
  \A c \in Client \ (held \cup late) : \A h \in Hold : thread[c][h] \notin MidTick

\* A transport remembers a lease, to ask for it again, only for a client that
\* wants it: a reconnect never takes control nobody asked for.
MemoryMeansHeld == \A c \in mem : c \in held \cup late

\* A keepalive thread whose Event is not set is the one in _thread, so that there
\* is one at most and the next release() stops it; and its client believes it
\* has control.
OneKeepalive ==
  \A c \in Client : \A h \in Hold :
    thread[c][h] # "off" /\ ~Stopped(c, h) => h = keep[c] /\ c \in held

\* While a connected client with a keepalive believes it has control, a lost
\* lease is got back or is a rival's: the keepalive follows the link to every
\* new transport.
ControlHeals ==
  \A c \in Client :
    <>[](keep[c] # 0 /\ c \notin releasing /\ c \in up \ (broken \cup closed)) =>
      []<>(holder = Cur(c) \/ (holder # NoOne /\ holder[1] # c))
=============================================================================

----------------------------- MODULE SessionTable -----------------------------
(***************************************************************************)
(* Who is connected to whom: SessionRegistry of ni_gpib_server.py, which   *)
(* the S verb joins with the lease table, and the `devices` command of     *)
(* cli.py, which finds the bridges by UDP, asks each device for its leases *)
(* (R) and sessions (S), and reads its identity when the bus looks free.   *)
(*                                                                         *)
(* All devices are behind one bridge.  The tables have a lock each and a   *)
(* report takes them in turn, so the lease table moves under it.           *)
(***************************************************************************)
EXTENDS LeaseScopes, FiniteSets

CONSTANTS
  Operator,   \* sessions of the programs that work with the bench
  Query,      \* the devices command: one session per device it asks, in turn
  NoScope,    \* no lease
  Absent      \* not shown

Connected == Operator \cup {Query}

ASSUME SessionAssumption ==
  Query \notin Operator /\ NoScope \notin Scope \cup {Absent} /\ Absent \notin Scope

VARIABLES
  lease,     \* _LEASES: the scope s holds, or NoScope
  listed,    \* _by_sid
  bound,     \* backend.address
  cleared,   \* the sessions whose W or Q has passed the lease check, ahead of the bus
  late,      \* history: late[s]: who was granted a lease since that check
  unasked,   \* the sessions whose Z is ahead of the bus: nobody checks it
  at,        \* where the devices command is with its device
  ahead,     \* the devices it has still to ask
  seen,      \* the holders R named; none is "no active leases"
  pending,   \* sessions copied by S whose line is still to be made
  shown,     \* shown[s]: what the lines of the S report say of s
  handed     \* history: the sessions whose lease was granted or dropped since R

svars == <<lease, listed, bound, cleared, late, unasked, at, ahead, seen, pending, shown, handed>>
tables == <<lease, listed, bound, cleared, late, unasked>>
query == <<at, ahead, seen, pending, shown>>

NotShown == [s \in Connected |-> Absent]

SessionInit ==
  /\ lease = [s \in Connected |-> NoScope]
  /\ listed = {} /\ cleared = {} /\ unasked = {}
  /\ bound = [s \in Connected |-> NoPad]
  /\ late = [s \in Connected |-> {}]
  /\ at = "discover" /\ ahead = {} /\ seen = {} /\ pending = {}
  /\ shown = NotShown /\ handed = {}

-----------------------------------------------------------------------------
\* The bridge ----------------------------------------------------------------

\* mutant: a lease on the bus does not cover its pads
Permitted_SameScopeOnly(s, target) == \A h \in Connected \ {s} : lease[h] # target

\* LeaseRegistry.check and the test of acquire.
Permitted(s, target) ==
  \A h \in Connected \ {s} : lease[h] # NoScope => ~ScopesConflict(target, lease[h])

\* A session has one request on its way at a time.
MayAsk(s) == s \in listed \ (cleared \cup unasked)

\* A connection is listed from its first moment, and binds its pad.
Arrives(s, p) ==
  /\ s \notin listed
  /\ listed' = listed \cup {s}
  /\ bound' = [bound EXCEPT ![s] = p]
  /\ UNCHANGED <<lease, cleared, late, unasked>>

\* mutant: the bus operations are not arbitrated
Checked_Open(s) ==
  /\ MayAsk(s)
  /\ cleared' = cleared \cup {s}
  /\ late' = [late EXCEPT ![s] = {}]
  /\ UNCHANGED <<lease, listed, bound, unasked>>

\* The lease check of W and Q ...
Checked(s) ==
  /\ MayAsk(s)
  /\ Permitted(s, bound[s])
  /\ cleared' = cleared \cup {s}
  /\ late' = [late EXCEPT ![s] = {}]
  /\ UNCHANGED <<lease, listed, bound, unasked>>

\* ... and the operation itself, which waits for _BUS_LOCK alone.
OnBus(s) ==
  /\ s \in cleared
  /\ cleared' = cleared \ {s}
  /\ late' = [late EXCEPT ![s] = {}]
  /\ UNCHANGED <<lease, listed, bound, unasked>>

\* Z ping and Z recover, un-arbitrated on purpose: no check comes before the bus ...
Heals(s) ==
  /\ MayAsk(s)
  /\ unasked' = unasked \cup {s}
  /\ UNCHANGED <<lease, listed, bound, cleared, late>>

\* ... and whoever holds a lease, the poll or the clear is done.
HealsOnBus(s) ==
  /\ s \in unasked
  /\ unasked' = unasked \ {s}
  /\ UNCHANGED <<lease, listed, bound, cleared, late>>

\* C or a lost connection: the lease first, the listing once it is gone.
Teardown(s) ==
  /\ MayAsk(s)
  /\ lease[s] = NoScope
  /\ listed' = listed \ {s}
  /\ bound' = [bound EXCEPT ![s] = NoPad]
  /\ UNCHANGED <<lease, cleared, late, unasked>>

-----------------------------------------------------------------------------
\* The programs at work ------------------------------------------------------

Acquire(s, sc) ==
  /\ MayAsk(s)
  /\ lease[s] # sc /\ Permitted(s, sc)
  /\ lease' = [lease EXCEPT ![s] = sc]
  /\ late' = [t \in Connected |-> IF t \in cleared THEN late[t] \cup {s} ELSE late[t]]
  /\ handed' = IF at \in {"sessions", "lines"} THEN handed \cup {s} ELSE {}
  /\ UNCHANGED <<listed, bound, cleared, unasked, query>>

\* U, a lapse that somebody's look at the table notices, or teardown.
GivesUp(s) ==
  /\ lease[s] # NoScope
  /\ lease' = [lease EXCEPT ![s] = NoScope]
  /\ handed' = IF at \in {"sessions", "lines"} THEN handed \cup {s} ELSE {}
  /\ UNCHANGED <<listed, bound, cleared, late, unasked, query>>

AtWork(s) ==
  /\ \/ \E p \in Pad : Arrives(s, p)
     \/ Checked(s) \/ OnBus(s) \/ Heals(s) \/ HealsOnBus(s) \/ Teardown(s)
  /\ UNCHANGED <<query, handed>>

-----------------------------------------------------------------------------
\* The devices command -------------------------------------------------------

Goes(from, to) == at = from /\ at' = to

\* discover(): the beacons that answered within the window, any of which a
\* lost datagram leaves out; no answer ends the command.
Discover ==
  /\ Goes("discover", "next")
  /\ ahead' \in SUBSET Pad \ {{}}
  /\ UNCHANGED <<tables, seen, pending, shown, handed>>

\* _connect: A binds the pad.  X, the identity, is wording here.
Connects(p) ==
  /\ Goes("next", "leases")
  /\ p \in ahead /\ ahead' = ahead \ {p}
  /\ Arrives(Query, p)
  /\ UNCHANGED <<seen, pending, shown, handed>>

\* R: any live lease of the bridge, on whatever pad.
AsksLeases ==
  /\ Goes("leases", "sessions")
  /\ seen' = {s \in Connected : lease[s] # NoScope}
  /\ handed' = {}
  /\ UNCHANGED <<tables, ahead, pending, shown>>

\* S: the sessions are copied under the one lock ...
AsksSessions ==
  /\ Goes("sessions", "lines")
  /\ pending' = listed /\ shown' = NotShown
  /\ UNCHANGED <<tables, ahead, seen, handed>>

\* ... and each is then looked up in the lease table under the other.
Line(s) ==
  /\ Goes("lines", "lines")
  /\ s \in pending /\ pending' = pending \ {s}
  /\ shown' = [shown EXCEPT ![s] = lease[s]]
  /\ UNCHANGED <<tables, ahead, seen, handed>>

\* The two reports are complete, and will be printed as they are.
Reported == pending = {} /\ seen' = {} /\ shown' = NotShown /\ handed' = {}

\* A bus that R called free is asked for the identity; the server decides anew.
SkipsIdn ==
  /\ Goes("lines", "closing") /\ seen # {} /\ Reported
  /\ UNCHANGED <<tables, ahead, pending>>

SendsIdn ==
  /\ Goes("lines", "idn") /\ seen = {} /\ Reported
  /\ Checked(Query)
  /\ UNCHANGED <<ahead, pending>>

\* "(read err: ... locked by session ...)" takes the identity's place.
IdnRefused ==
  /\ Goes("lines", "closing") /\ seen = {} /\ Reported
  /\ ~Permitted(Query, bound[Query])
  /\ UNCHANGED <<tables, ahead, pending>>

IdnRead ==
  /\ Goes("idn", "closing")
  /\ OnBus(Query)
  /\ UNCHANGED <<ahead, seen, pending, shown, handed>>

\* t.close(); the rows are printed once the last device has been asked.
Closes ==
  /\ Goes("closing", IF ahead = {} THEN "discover" ELSE "next")
  /\ Teardown(Query)
  /\ UNCHANGED <<ahead, seen, pending, shown, handed>>

-----------------------------------------------------------------------------
Devices ==
  \/ Discover \/ AsksLeases \/ AsksSessions
  \/ SkipsIdn \/ SendsIdn \/ IdnRefused \/ IdnRead \/ Closes
  \/ \E p \in Pad : Connects(p)
  \/ \E s \in Connected : Line(s)

SessionNext ==
  \/ Devices
  \/ \E s \in Operator : AtWork(s) \/ GivesUp(s) \/ \E sc \in Scope : Acquire(s, sc)

\* _print_clients_section: who the lines say controls something.
Controls == {s \in Connected : shown[s] \in Scope}

-----------------------------------------------------------------------------
\* What `devices` prints, asked of two tables in turn while both move, is wrong only
\* about sessions whose own lease was granted or dropped meanwhile: every other one
\* that R named is shown in control, no other is shown so, and two that are shown
\* in control of one device are not both others.
ReportsAddUp ==
  at = "lines" /\ pending = {} =>
    /\ Controls \ handed = seen \ handed
    /\ \A s, t \in Controls \ handed : s # t => ~ScopesConflict(shown[s], shown[t])

\* What reaches the bus under somebody else's lease is a W or Q, the identity read of
\* `devices` included, that was checked before that lease was granted, or an
\* operator's Z; the devices command never gets there by asking for nothing.
IntrusionsAreNamed ==
  [][\A s \in (cleared \cup unasked) \ (cleared \cup unasked)' :
       \A h \in Connected \ {s} :
         lease[h] # NoScope /\ ScopesConflict(bound[s], lease[h]) =>
           \/ s \in cleared /\ h \in late[s]
           \/ s \in unasked \cap Operator]_svars
=============================================================================

---------------------------- MODULE LeaseRegistry ----------------------------
(***************************************************************************)
(* LeaseRegistry of gpib_bridge/ni_gpib_server.py: the process-wide lease  *)
(* table, called by one thread per connected session.                      *)
(*                                                                         *)
(* Every method but release reads time.monotonic() BEFORE it takes the     *)
(* table's lock, so other threads, and time, can move between the reading  *)
(* and the method's body.  Enter(s) is the reading; the operation that     *)
(* follows is the body, atomic under the lock, and works with that stamp.  *)
(***************************************************************************)
EXTENDS LeaseScopes, Integers

CONSTANTS
  Session,    \* session ids, one per connection
  Ttl,        \* the lease durations clients ask for, negative ones included
  MaxTtl,     \* the longest of them
  NoOne,      \* not a session
  MaxClock    \* bound on the clock: Tick stops there

ASSUME RegistryAssumption ==
  /\ MaxTtl \in Nat
  /\ Ttl \subseteq {t \in Int : t <= MaxTtl}
  /\ NoOne \notin Session
  /\ MaxClock \in Nat

NoLease == [scope |-> Bus, expiry |-> 0, held |-> FALSE]
Lease == [scope : Scope, expiry : Nat, held : BOOLEAN]

VARIABLES
  clock,     \* time.monotonic()
  byHolder,  \* _by_holder: byHolder[h].held iff h is a key of the dict
  stamp,     \* stamp[s]: the `now` of s's call in progress
  inCall,    \* the sessions whose thread is between Enter and the method body
  outcome    \* the last answered call, <<session, answer>>; <<>> if the last step was not one

vars == <<clock, byHolder, stamp, inCall, outcome>>

TypeOK ==
  /\ clock \in Nat
  /\ byHolder \in [Session -> Lease]
  /\ stamp \in [Session -> Nat]
  /\ inCall \in SUBSET Session
  /\ outcome \in {<<>>} \cup (Session \X {"ok", "busy", "lost"})

Init ==
  /\ clock = 0
  /\ byHolder = [s \in Session |-> NoLease]
  /\ stamp = [s \in Session |-> 0]
  /\ inCall = {}
  /\ outcome = <<>>

-----------------------------------------------------------------------------
\* mutant: one tick too early
Lapsed_Early(l, now) == now + 1 >= l.expiry

Lapsed(l, now) == now >= l.expiry

\* now + max(0.0, float(ttl))
Deadline(now, ttl) == now + (IF ttl < 0 THEN 0 ELSE ttl)

\* mutant: a method that forgets to call _expire
Expire_Forgotten(now) == byHolder

\* _expire: every method but release first drops the lapsed entries.
Expire(now) ==
  [h \in Session |-> IF byHolder[h].held /\ Lapsed(byHolder[h], now)
                     THEN NoLease ELSE byHolder[h]]

\* Another session than s has, in table, a lease colliding with scope sc.
Blocked(table, s, sc) ==
  \E h \in Session \ {s} : table[h].held /\ ScopesConflict(sc, table[h].scope)

Tick ==
  /\ clock < MaxClock
  /\ clock' = clock + 1
  /\ outcome' = <<>>
  /\ UNCHANGED <<byHolder, stamp, inCall>>

\* `now = time.monotonic()`, ahead of `with self._lock`.
Enter(s) ==
  /\ s \notin inCall
  /\ inCall' = inCall \cup {s}
  /\ stamp' = [stamp EXCEPT ![s] = clock]
  /\ outcome' = <<>>
  /\ UNCHANGED <<clock, byHolder>>

Answer(s, a) ==
  /\ s \in inCall
  /\ inCall' = inCall \ {s}
  /\ stamp' = [stamp EXCEPT ![s] = 0]
  /\ outcome' = <<s, a>>
  /\ UNCHANGED clock

AcquireGranted(s, sc, ttl) ==
  LET live == Expire(stamp[s])
  IN  /\ ~Blocked(live, s, sc)
      /\ byHolder' = [live EXCEPT ![s] = [scope |-> sc, held |-> TRUE,
                                          expiry |-> Deadline(stamp[s], ttl)]]
      /\ Answer(s, "ok")

AcquireRefused(s, sc) ==
  /\ Blocked(Expire(stamp[s]), s, sc)
  /\ byHolder' = Expire(stamp[s])
  /\ Answer(s, "busy")

\* mutant: a renewal adds to the deadline instead of restarting it
Renewed_Accumulates(s, ttl) ==
  LET live == Expire(stamp[s])
  IN  /\ live[s].held
      /\ byHolder' = [live EXCEPT ![s].expiry = Deadline(@, ttl)]
      /\ Answer(s, "ok")

Renewed(s, ttl) ==
  LET live == Expire(stamp[s])
  IN  /\ live[s].held
      /\ byHolder' = [live EXCEPT ![s].expiry = Deadline(stamp[s], ttl)]
      /\ Answer(s, "ok")

RenewFailed(s) ==
  /\ ~Expire(stamp[s])[s].held
  /\ byHolder' = Expire(stamp[s])
  /\ Answer(s, "lost")

\* check, for a bus operation on pad p (NoPad: the session bound none).
CheckPad(s, p) ==
  /\ byHolder' = Expire(stamp[s])
  /\ Answer(s, IF Blocked(byHolder', s, p) THEN "busy" ELSE "ok")

\* scope_for and report: readers, which expire the table as they look.
Look(s) ==
  /\ byHolder' = Expire(stamp[s])
  /\ Answer(s, "ok")

\* release reads no clock and never fails; it needs no Enter.
Release(s) ==
  /\ s \notin inCall
  /\ byHolder' = [byHolder EXCEPT ![s] = NoLease]
  /\ outcome' = <<s, "ok">>
  /\ UNCHANGED <<clock, stamp, inCall>>

Next ==
  \/ Tick
  \/ \E s \in Session :
       \/ Enter(s)
       \/ \E sc \in Scope, ttl \in Ttl : AcquireGranted(s, sc, ttl)
       \/ \E sc \in Scope : AcquireRefused(s, sc)
       \/ \E ttl \in Ttl : Renewed(s, ttl)
       \/ RenewFailed(s)
       \/ \E p \in Pad \cup {NoPad} : CheckPad(s, p)
       \/ Look(s)
       \/ Release(s)

Spec == Init /\ [][Next]_vars

-----------------------------------------------------------------------------
\* The class docstring's EXCLUSIVE: the table never holds two colliding
\* leases, whatever stale `now` the threads bring to it.
TableExclusive ==
  \A g, h \in Session :
    /\ g # h
    /\ byHolder[g].held
    /\ byHolder[h].held
    => ~ScopesConflict(byHolder[g].scope, byHolder[h].scope)

\* A dead holder blocks the others no longer than the longest TTL from now:
\* a call that was delayed between its clock reading and the lock cannot push
\* a deadline further out.
BoundedOwnership ==
  /\ \A h \in Session : byHolder[h].held => byHolder[h].expiry <= clock + MaxTtl
  /\ \A s \in inCall : stamp[s] <= clock

\* Leases at deadlines the clock has passed never refuse anyone who read the
\* clock after the deadline, although entries are dropped only when somebody looks.
RefusalNamesALiveLease ==
  [][\A s \in Session :
       outcome' = <<s, "busy">> /\ s \in inCall =>
         \E h \in Session \ {s} : /\ byHolder[h].held
                                  /\ stamp[s] < byHolder[h].expiry
                                  /\ byHolder'[h] = byHolder[h]]_vars

\* Whatever its stamp, a call changes nobody else's lease but by dropping it at or
\* after its deadline, and the lease it grants, extends or moves for its own session
\* collides with none that is alive by the clock: a renewal that comes after a lapse
\* never brings control back over a pad that another session has been granted.
OnlyOwnLeaseGrows ==
  [][\A s \in Session :
       s \in inCall \ inCall' =>
         \A h \in Session \ {s} :
           /\ \/ byHolder'[h] = byHolder[h]
              \/ byHolder[h].expiry <= clock /\ ~byHolder'[h].held
           /\ /\ byHolder'[s].held /\ byHolder[h].held
              /\ ScopesConflict(byHolder'[s].scope, byHolder[h].scope)
              => byHolder[h].expiry <= clock]_vars

\* h's entry is still live by the clock, whether or not anybody looked.
Live(h) == byHolder[h].held /\ clock < byHolder[h].expiry
Covers(h, p) == Live(h) /\ byHolder[h].scope \in {p, Bus}

\* Refinement: the controller of a pad is the session with a live lease over it.
controller ==
  [p \in Pad |-> IF \E h \in Session : Covers(h, p)
                 THEN CHOOSE h \in Session : Covers(h, p) ELSE NoOne]

Abstract == INSTANCE ExclusiveControl WITH owner <- controller

\* The lease table with lazy expiry, late clock readings and re-scoping
\* implements exclusive control of each pad.
ImplementsExclusiveControl == Abstract!Spec
=============================================================================

----------------------------- MODULE LeaseScopes -----------------------------
(***************************************************************************)
(* Lease scopes of the GPIB bridge: one instrument pad, or the whole bus.  *)
(* A pad is the integer GPIB address of a device.                          *)
(***************************************************************************)
EXTENDS Naturals

CONSTANTS
  Pad,       \* GPIB addresses of the instruments behind the adapter
  Bus,       \* the scope string "BUS"
  NoPad      \* Python's None: a session that has not bound a pad yet

ASSUME ScopeAssumption ==
  /\ Pad \subseteq Nat
  /\ Bus \notin Pad
  /\ NoPad \notin Pad
  /\ NoPad # Bus

Scope == Pad \cup {Bus}

\* mutant: a lease on BUS is not seen to cover the pad asked for
ScopesConflict_OneSided(a, b) == a = Bus \/ a = b

\* BUS collides with everything, a pad only with itself or BUS; an unbound
\* target (NoPad) collides with BUS alone.
ScopesConflict(a, b) == a = Bus \/ b = Bus \/ a = b
=============================================================================

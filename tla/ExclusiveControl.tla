--------------------------- MODULE ExclusiveControl ---------------------------
(***************************************************************************)
(* What the bridge's lease table promises, without clocks or scopes: each  *)
(* pad has at most one controller, control is taken only of pads that      *)
(* nobody else controls, and it never passes from one session to another   *)
(* without the pad being free in between.                                  *)
(***************************************************************************)
CONSTANTS
  Session,
  Pad,
  NoOne     \* not a session

VARIABLE owner    \* owner[p]: the session in control of pad p, or NoOne

TypeOK == owner \in [Pad -> Session \cup {NoOne}]

Init == owner = [p \in Pad |-> NoOne]

\* s takes the pads P (free, or already its own) and gives up its others.
Take(s, P) ==
  /\ \A p \in P : owner[p] \in {NoOne, s}
  /\ owner' = [p \in Pad |-> IF p \in P THEN s
                             ELSE IF owner[p] = s THEN NoOne ELSE owner[p]]

\* The pads P become free: a release, a lapse, a disconnect.
GiveUp(P) == owner' = [p \in Pad |-> IF p \in P THEN NoOne ELSE owner[p]]

Next ==
  \/ \E s \in Session, P \in SUBSET Pad : Take(s, P)
  \/ \E P \in SUBSET Pad : GiveUp(P)

Spec == Init /\ [][Next]_owner
=============================================================================

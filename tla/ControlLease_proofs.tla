------------------------- MODULE ControlLease_proofs -------------------------
(***************************************************************************)
(* Theorems about the client's lease, for any number of clients,           *)
(* connections and acquisitions.                                           *)
(***************************************************************************)
EXTENDS ControlLease, TLAPS

LEMMA TypeInit == Init => TypeOK
BY ControlLeaseAssumption DEF Init, TypeOK, Session, Hold

\* A step inside a tick moves the thread on, or ends the tick.
TickMoves(c, h) ==
  \/ \E l \in MidTick : TickGoesOn(c, h, l)
  \/ TickEnds(c, h)

LEMMA Ticks ==
  ASSUME NEW c \in Client, NEW h \in Hold,
         TickRenew(c, h) \/ TickRecheck(c, h) \/ TickOnClosed(c, h)
  PROVE  TickMoves(c, h) /\ thread[c][h] \in MidTick
<1>1. CASE TickRenew(c, h)
  BY <1>1, Zenon DEF TickRenew, TickMoves, MidTick
<1>2. CASE TickRecheck(c, h)
  BY <1>2, Zenon DEF TickRecheck, TickMoves, MidTick
<1>3. CASE TickOnClosed(c, h)
  BY <1>3, Zenon DEF TickOnClosed, TickMoves, MidTick
<1>4. QED
  BY <1>1, <1>2, <1>3

LEMMA TickTypes ==
  ASSUME TypeOK, NEW c \in Client, NEW h \in Hold, TickMoves(c, h)
  PROVE  /\ thread' \in [Client -> [Hold -> {"off", "wait"} \cup MidTick]]
         /\ own' \subseteq own
<1>1. CASE \E l \in MidTick : TickGoesOn(c, h, l)
  BY <1>1 DEF TypeOK, TickGoesOn, At
<1>2. CASE TickEnds(c, h)
  BY <1>2 DEF TypeOK, TickEnds, At
<1>3. QED
  BY <1>1, <1>2 DEF TickMoves

LEMMA RegisteredType ==
  ASSUME NEW c \in Client
  PROVE  Registered(c) \in SUBSET (Client \X Hold)
BY DEF Registered

LEMMA TypeNext == TypeOK /\ [Next]_vars => TypeOK'
<1> SUFFICES ASSUME TypeOK, [Next]_vars
             PROVE  TypeOK'
  OBVIOUS
<1> USE ControlLeaseAssumption DEF Session, Hold, MidTick, bridge, link, control
<1>1. ASSUME NEW c \in Client, AcquireGranted(c)
      PROVE  TypeOK'
  <2>1. /\ holder' = Cur(c)
        /\ broken' = broken
        /\ mem' = mem \cup {c}
        /\ held' = held \cup {c}
        /\ releasing' = releasing \ {c}
        /\ main' = [main EXCEPT ![c] = "start"]
        /\ upset' = upset \ {c}
        /\ UNCHANGED <<serving, link, keep, thread, told, own, late>>
    BY <1>1 DEF AcquireGranted, Txn
  <2>2. holds' \in [Client -> 0..MaxHolds]
    BY <1>1 DEF AcquireGranted, TypeOK
  <2>3. Cur(c) \in Session
    BY DEF TypeOK, Cur
  <2>4. QED
    BY <2>1, <2>2, <2>3 DEF TypeOK
<1>2. ASSUME NEW c \in Client, StartKeepalive(c)
      PROVE  TypeOK'
  <2>1. Registered(c) \in SUBSET (Client \X Hold)
    BY Zenon, RegisteredType
  <2>2. CASE c \notin up
    <3>1. /\ main' = [main EXCEPT ![c] = "idle"]
          /\ told' = told \cup Registered(c)
          /\ keep' = [keep EXCEPT ![c] = 0]
          /\ UNCHANGED <<holder, serving, sess, up, swapping, closed, broken, mem,
                         held, releasing, holds, thread, own, late, upset>>
      BY <1>2, <2>2 DEF StartKeepalive
    <3>2. told' \in SUBSET (Client \X Hold)
      BY <2>1, <3>1 DEF TypeOK
    <3>3. QED
      BY <3>1, <3>2 DEF TypeOK
  <2>3. CASE c \in up
    <3>1. /\ thread' = [thread EXCEPT ![c] = [@ EXCEPT ![holds[c]] = "wait"]]
          /\ keep' = [keep EXCEPT ![c] = holds[c]]
      BY <1>2, <2>3 DEF StartKeepalive, At
    <3>2. /\ main' = [main EXCEPT ![c] = "idle"]
          /\ told' = told \cup Registered(c)
          /\ UNCHANGED <<holder, serving, sess, up, swapping, closed, broken, mem,
                         held, releasing, holds, own, late, upset>>
      BY <1>2, <2>3 DEF StartKeepalive
    <3>3. thread' \in [Client -> [Hold -> {"off", "wait"} \cup MidTick]]
      BY <3>1 DEF TypeOK
    <3>4. QED
      BY <2>1, <3>1, <3>2, <3>3 DEF TypeOK
  <2>4. QED
    BY <2>2, <2>3
<1>3. ASSUME NEW c \in Client, AcquireUnconnected(c)
      PROVE  TypeOK'
  <2>1. holds' \in [Client -> 0..MaxHolds]
    BY <1>3 DEF AcquireUnconnected, TypeOK
  <2>2. /\ held' = held \cup {c}
        /\ UNCHANGED <<bridge, link, broken, mem, releasing, keep, main, thread,
                       told, own, late, upset>>
    BY <1>3 DEF AcquireUnconnected
  <2>3. QED
    BY <2>1, <2>2 DEF TypeOK
<1>4. ASSUME NEW c \in Client, NEW seen \in BOOLEAN, AcquireLost(c, seen)
      PROVE  TypeOK'
  BY <1>4 DEF AcquireLost, TypeOK, Txn, Cur, Free, Lease
<1>5. ASSUME NEW c \in Client, Release(c)
      PROVE  TypeOK'
  <2>1. Registered(c) \in SUBSET (Client \X Hold)
    BY Zenon, RegisteredType
  <2>2. QED
    BY <1>5, <2>1 DEF Release, TypeOK
<1>6. ASSUME NEW c \in Client, Joined(c)
      PROVE  TypeOK'
  BY <1>6 DEF Joined, TypeOK
<1>7. ASSUME NEW c \in Client, JoinTimedOut(c)
      PROVE  TypeOK'
  BY <1>7 DEF JoinTimedOut, TypeOK
<1>8. ASSUME NEW c \in Client, Unlease(c)
      PROVE  TypeOK'
  BY <1>8 DEF Unlease, TypeOK, Txn, Cur
<1>8a. ASSUME NEW c \in Client, Forget(c)
      PROVE  TypeOK'
  BY <1>8a DEF Forget, TypeOK
<1>9. ASSUME NEW c \in Client, NEW h \in Hold, TickStart(c, h)
      PROVE  TypeOK'
  <2>1. thread' \in [Client -> [Hold -> {"off", "wait"} \cup MidTick]]
    BY <1>9 DEF TickStart, TypeOK, At
  <2>2. /\ own' = own \cup {<<c, h>>}
        /\ UNCHANGED <<bridge, link, broken, mem, control, late, upset>>
    BY <1>9 DEF TickStart
  <2>3. own' \in SUBSET (Client \X Hold)
    BY <2>2 DEF TypeOK
  <2>4. QED
    BY <2>1, <2>2, <2>3 DEF TypeOK
<1>10. ASSUME NEW c \in Client, NEW h \in Hold, TickRenew(c, h)
      PROVE  TypeOK'
  <2>1. /\ thread' \in [Client -> [Hold -> {"off", "wait"} \cup MidTick]]
        /\ own' \subseteq own
    BY <1>10, Ticks, TickTypes
  <2>2. /\ broken' \subseteq broken \cup {c}
        /\ upset' \subseteq upset \cup {c}
        /\ UNCHANGED <<bridge, link, mem, control, late>>
    BY <1>10 DEF TickRenew, Txn
  <2>3. QED
    BY <2>1, <2>2 DEF TypeOK
<1>11. ASSUME NEW c \in Client, NEW h \in Hold, TickRecheck(c, h)
      PROVE  TypeOK'
  <2>1. /\ thread' \in [Client -> [Hold -> {"off", "wait"} \cup MidTick]]
        /\ own' \subseteq own
    BY <1>11, Ticks, TickTypes
  <2>2. UNCHANGED <<bridge, link, broken, mem, control, late, upset>>
    BY <1>11 DEF TickRecheck
  <2>3. QED
    BY <2>1, <2>2 DEF TypeOK
<1>12. ASSUME NEW c \in Client, NEW h \in Hold, TickRelock(c, h)
      PROVE  TypeOK'
  <2>1. /\ thread' \in [Client -> [Hold -> {"off", "wait"} \cup MidTick]]
        /\ own' \subseteq own
    BY <1>12, TickTypes DEF TickRelock, TickMoves
  <2>2. /\ broken' \subseteq broken \cup {c}
        /\ upset' \subseteq upset \cup {c}
        /\ mem' \subseteq mem \cup {c}
        /\ holder' \in {holder, Cur(c)}
        /\ UNCHANGED <<serving, link, control, late>>
    BY <1>12 DEF TickRelock, Txn, Lease
  <2>3. Cur(c) \in Session
    BY DEF TypeOK, Cur
  <2>4. QED
    BY <2>1, <2>2, <2>3 DEF TypeOK
<1>13. ASSUME NEW c \in Client, NEW h \in Hold, TickOnClosed(c, h)
      PROVE  TypeOK'
  <2>1. /\ thread' \in [Client -> [Hold -> {"off", "wait"} \cup MidTick]]
        /\ own' \subseteq own
    BY <1>13, Ticks, TickTypes
  <2>2. UNCHANGED <<bridge, link, broken, mem, control, late, upset>>
    BY <1>13 DEF TickOnClosed
  <2>3. QED
    BY <2>1, <2>2 DEF TypeOK
<1>14. ASSUME NEW c \in Client, NEW h \in Hold, ThreadStops(c, h)
      PROVE  TypeOK'
  BY <1>14 DEF ThreadStops, TypeOK, At
<1>15. ASSUME NEW c \in Client, LinkDrops(c)
      PROVE  TypeOK'
  BY <1>15 DEF LinkDrops, TypeOK
<1>16. ASSUME NEW c \in Client, LinkReopens(c)
      PROVE  TypeOK'
  BY <1>16 DEF LinkReopens, TypeOK
<1>17. ASSUME NEW c \in Client, SwapBegins(c)
      PROVE  TypeOK'
  BY <1>17 DEF SwapBegins, TypeOK
<1>18. ASSUME NEW c \in Client, SwapEnds(c)
      PROVE  TypeOK'
  <2>1. sess[c] + 1 \in 1..MaxSessions /\ <<c, sess[c] + 1>> \in Session
    BY <1>18 DEF SwapEnds, TypeOK
  <2>2. /\ sess' = [sess EXCEPT ![c] = sess[c] + 1]
        /\ serving' = serving \cup {<<c, sess[c] + 1>>}
        /\ holder' \in {holder, <<c, sess[c] + 1>>}
        /\ upset' \subseteq upset
        /\ swapping' \subseteq swapping
        /\ closed' \subseteq closed
        /\ UNCHANGED <<up, broken, mem, control, thread, own, late>>
    BY <1>18 DEF SwapEnds
  <2>3. QED
    BY <2>1, <2>2 DEF TypeOK
<1>19. ASSUME NEW c \in Client, SwapFails(c)
      PROVE  TypeOK'
  <2>1. /\ sess' \in [Client -> 1..MaxSessions]
        /\ serving' \in SUBSET Session
    <3>1. CASE UNCHANGED <<sess, serving>>
      BY <3>1 DEF TypeOK
    <3>2. CASE /\ sess[c] < MaxSessions
               /\ sess' = [sess EXCEPT ![c] = @ + 1]
               /\ serving' = serving \cup {<<c, sess[c] + 1>>}
      <4>1. sess[c] + 1 \in 1..MaxSessions
        BY <3>2 DEF TypeOK
      <4>2. QED
        BY <3>2, <4>1 DEF TypeOK
    <3>3. QED
      BY <1>19, <3>1, <3>2, Zenon DEF SwapFails
  <2>2. /\ broken' \subseteq broken \cup {c}
        /\ closed' \subseteq closed
        /\ swapping' \subseteq swapping
        /\ UNCHANGED <<holder, up, mem, control, thread, own, late, upset>>
    BY <1>19 DEF SwapFails
  <2>3. QED
    BY <2>1, <2>2 DEF TypeOK
<1>20. ASSUME NEW c \in Client, SocketBreaks(c)
      PROVE  TypeOK'
  BY <1>20 DEF SocketBreaks, TypeOK
<1>21. CASE Lapse
  BY <1>21 DEF Lapse, TypeOK
<1>22. ASSUME NEW s \in Session, SessionExit(s)
      PROVE  TypeOK'
  BY <1>22 DEF SessionExit, Cur, TypeOK
<1>23. CASE UNCHANGED vars
  BY <1>23 DEF vars, TypeOK
<1>24. QED
  BY <1>1, <1>2, <1>3, <1>4, <1>5, <1>6, <1>7, <1>8, <1>8a, <1>9, <1>10, <1>11,
     <1>12, <1>13, <1>14, <1>15, <1>16, <1>17, <1>18, <1>19, <1>20, <1>21,
     <1>22, <1>23
     DEF Next, Main, Keepalive, Transport

\* Every variable of the clients and of the pad's lease keeps its type.
THEOREM TypeCorrect == Spec => []TypeOK
BY TypeInit, TypeNext, PTL DEF Spec

-----------------------------------------------------------------------------
(* The keepalive threads. *)

\* Every thread but the one in _thread has its Event set, and unless a join ran
\* out of time it is out of its tick before U is due.
ThreadsInv ==
  /\ \A c \in Client : keep[c] # 0 => keep[c] = holds[c] /\ c \in held /\ main[c] = "idle"
  /\ \A c \in Client : main[c] # "idle" => c \in held
  /\ \A c \in Client : \A h \in Hold : thread[c][h] # "off" => h <= holds[c]
  /\ \A c \in Client : \A h \in Hold :
       thread[c][h] # "off" /\ <<c, h>> \notin told => h = keep[c]
  /\ \A c \in Client \ late : \A h \in Hold :
       thread[c][h] \in MidTick =>
         h = holds[c] /\ c \in held /\ (keep[c] = h \/ main[c] = "join")

LEMMA ThreadsInit == Init => ThreadsInv
BY DEF Init, ThreadsInv, MidTick

LEMMA ThreadsNext == TypeOK /\ ThreadsInv /\ [Next]_vars => ThreadsInv'
<1> SUFFICES ASSUME TypeOK, ThreadsInv, [Next]_vars
             PROVE  ThreadsInv'
  OBVIOUS
<1> USE ControlLeaseAssumption DEF TypeOK, Hold, MidTick, bridge, link, control
<1>1. ASSUME NEW c \in Client, AcquireGranted(c)
      PROVE  ThreadsInv'
  BY <1>1 DEF AcquireGranted, ThreadsInv, Txn, Cur, Free
<1>2. ASSUME NEW c \in Client, StartKeepalive(c)
      PROVE  ThreadsInv'
  <2>a. /\ main[c] = "start" /\ main' = [main EXCEPT ![c] = "idle"]
        /\ told' = told \cup Registered(c)
        /\ UNCHANGED <<held, holds, late>>
    BY <1>2 DEF StartKeepalive
  <2>b. keep[c] = 0 /\ c \in held
    BY <2>a DEF ThreadsInv
  <2>1. CASE c \notin up
    <3>1. keep' = [keep EXCEPT ![c] = 0] /\ thread' = thread
      BY <1>2, <2>1 DEF StartKeepalive
    <3>2. keep' = keep
      BY <2>b, <3>1
    <3>3. QED
      BY <2>a, <3>1, <3>2 DEF ThreadsInv
  <2>2. CASE c \in up
    <3>1. /\ thread' = [thread EXCEPT ![c] = [@ EXCEPT ![holds[c]] = "wait"]]
          /\ keep' = [keep EXCEPT ![c] = holds[c]]
      BY <1>2, <2>2 DEF StartKeepalive, At
    <3>2. \A d \in Client, h \in Hold :
            \/ thread'[d][h] = thread[d][h] /\ ~(d = c /\ h = holds[c])
            \/ d = c /\ h = holds[c] /\ thread'[d][h] = "wait"
      BY <3>1
    <3>3. \A d \in Client : \A h \in Hold : thread'[d][h] # "off" => h <= holds'[d]
      <4> SUFFICES ASSUME NEW d \in Client, NEW h \in Hold, thread'[d][h] # "off"
                   PROVE  h <= holds[d]
        BY <2>a
      <4>1. CASE d = c /\ h = holds[c]
        BY <4>1
      <4>2. CASE thread'[d][h] = thread[d][h]
        BY <4>2 DEF ThreadsInv
      <4>3. QED
        BY <3>2, <4>1, <4>2
    <3>4. \A d \in Client : \A h \in Hold :
            thread'[d][h] # "off" /\ <<d, h>> \notin told' => h = keep'[d]
      <4> SUFFICES ASSUME NEW d \in Client, NEW h \in Hold,
                          thread'[d][h] # "off", <<d, h>> \notin told'
                   PROVE  h = keep'[d]
        OBVIOUS
      <4>1. CASE d = c /\ h = holds[c]
        BY <3>1, <4>1
      <4>2. CASE thread'[d][h] = thread[d][h] /\ ~(d = c /\ h = holds[c])
        <5>1. h = keep[d] /\ <<d, h>> \notin told
          BY <2>a, <4>2 DEF ThreadsInv
        <5>2. d # c
          BY <2>b, <5>1
        <5>3. QED
          BY <3>1, <5>1, <5>2
      <4>3. QED
        BY <3>2, <4>1, <4>2
    <3>5. \A d \in Client \ late' : \A h \in Hold :
            thread'[d][h] \in MidTick =>
              h = holds'[d] /\ d \in held' /\ (keep'[d] = h \/ main'[d] = "join")
      <4> SUFFICES ASSUME NEW d \in Client \ late', NEW h \in Hold, thread'[d][h] \in MidTick
                   PROVE  h = holds[d] /\ d \in held /\ (keep'[d] = h \/ main'[d] = "join")
        BY <2>a
      <4>1. thread[d][h] \in MidTick
        BY <3>2
      <4>2. h = holds[d] /\ d \in held /\ (keep[d] = h \/ main[d] = "join")
        BY <2>a, <4>1 DEF ThreadsInv
      <4>3. d # c
        BY <2>a, <2>b, <4>2
      <4>4. QED
        BY <2>a, <3>1, <4>2, <4>3
    <3>6. QED
      BY <2>a, <2>b, <3>1, <3>3, <3>4, <3>5 DEF ThreadsInv
  <2>3. QED
    BY <2>1, <2>2
<1>3. ASSUME NEW c \in Client, AcquireUnconnected(c)
      PROVE  ThreadsInv'
  BY <1>3 DEF AcquireUnconnected, ThreadsInv
<1>4. ASSUME NEW c \in Client, NEW seen \in BOOLEAN, AcquireLost(c, seen)
      PROVE  ThreadsInv'
  BY <1>4 DEF AcquireLost, ThreadsInv, Txn, Cur, Free, Lease
<1>5. ASSUME NEW c \in Client, Release(c)
      PROVE  ThreadsInv'
  <2>1. /\ c \in held /\ main[c] = "idle"
        /\ told' = told \cup Registered(c)
        /\ keep' = [keep EXCEPT ![c] = 0]
        /\ main' = [main EXCEPT ![c] = IF keep[c] # 0 THEN "join" ELSE "unlease"]
        /\ UNCHANGED <<held, holds, thread, late>>
    BY <1>5 DEF Release
  <2>2. \A d \in Client : \A h \in Hold :
          thread'[d][h] # "off" /\ <<d, h>> \notin told' => h = keep'[d]
    <3> SUFFICES ASSUME NEW d \in Client, NEW h \in Hold,
                        thread[d][h] # "off", <<d, h>> \notin told'
                 PROVE  h = keep'[d]
      BY <2>1
    <3>1. h = keep[d]
      BY <2>1 DEF ThreadsInv
    <3>2. d # c
      BY <2>1, <3>1 DEF Registered
    <3>3. QED
      BY <2>1, <3>1, <3>2
  <2>3. \A d \in Client \ late' : \A h \in Hold :
          thread'[d][h] \in MidTick =>
            h = holds'[d] /\ d \in held' /\ (keep'[d] = h \/ main'[d] = "join")
    <3> SUFFICES ASSUME NEW d \in Client \ late, NEW h \in Hold, thread[d][h] \in MidTick
                 PROVE  h = holds[d] /\ d \in held /\ (keep'[d] = h \/ main'[d] = "join")
      BY <2>1
    <3>1. h = holds[d] /\ d \in held /\ (keep[d] = h \/ main[d] = "join")
      BY DEF ThreadsInv
    <3>2. CASE d = c
      BY <2>1, <3>1, <3>2
    <3>3. CASE d # c
      BY <2>1, <3>1, <3>3
    <3>4. QED
      BY <3>1, <3>2, <3>3
  <2>4. QED
    BY <2>1, <2>2, <2>3 DEF ThreadsInv
<1>6. ASSUME NEW c \in Client, Joined(c)
      PROVE  ThreadsInv'
  BY <1>6 DEF Joined, ThreadsInv
<1>7. ASSUME NEW c \in Client, JoinTimedOut(c)
      PROVE  ThreadsInv'
  BY <1>7 DEF JoinTimedOut, ThreadsInv
<1>8. ASSUME NEW c \in Client, Unlease(c)
      PROVE  ThreadsInv'
  BY <1>8 DEF Unlease, ThreadsInv, Txn, Cur
<1>8a. ASSUME NEW c \in Client, Forget(c)
      PROVE  ThreadsInv'
  BY <1>8a DEF Forget, ThreadsInv
<1>9. ASSUME NEW c \in Client, NEW h \in Hold, TickStart(c, h)
      PROVE  ThreadsInv'
  BY <1>9 DEF TickStart, ThreadsInv, At, Stopped
<1>10. ASSUME NEW c \in Client, NEW h \in Hold, TickRenew(c, h)
      PROVE  ThreadsInv'
  <2>1. TickMoves(c, h) /\ thread[c][h] \in MidTick
    BY <1>10, Ticks
  <2>2. CASE \E l \in MidTick : TickGoesOn(c, h, l)
    BY <1>10, <2>1, <2>2 DEF TickRenew, ThreadsInv, TickGoesOn, At, Txn
  <2>3. CASE TickEnds(c, h)
    BY <1>10, <2>1, <2>3 DEF TickRenew, ThreadsInv, At, TickEnds, Stopped, Txn
  <2>4. QED
    BY <2>1, <2>2, <2>3 DEF TickMoves
<1>11. ASSUME NEW c \in Client, NEW h \in Hold, TickRecheck(c, h)
      PROVE  ThreadsInv'
  <2>1. TickMoves(c, h) /\ thread[c][h] \in MidTick
    BY <1>11, Ticks
  <2>2. CASE \E l \in MidTick : TickGoesOn(c, h, l)
    BY <1>11, <2>1, <2>2 DEF TickRecheck, ThreadsInv, TickGoesOn, At
  <2>3. CASE TickEnds(c, h)
    BY <1>11, <2>1, <2>3 DEF TickRecheck, ThreadsInv, At, TickEnds, Stopped
  <2>4. QED
    BY <2>1, <2>2, <2>3 DEF TickMoves
<1>12. ASSUME NEW c \in Client, NEW h \in Hold, TickRelock(c, h)
      PROVE  ThreadsInv'
  BY <1>12 DEF TickRelock, ThreadsInv, Txn, Cur, Free, Lease, At, TickEnds, Stopped
<1>13. ASSUME NEW c \in Client, NEW h \in Hold, TickOnClosed(c, h)
      PROVE  ThreadsInv'
  <2>1. TickMoves(c, h) /\ thread[c][h] \in MidTick
    BY <1>13, Ticks
  <2>2. CASE \E l \in MidTick : TickGoesOn(c, h, l)
    BY <1>13, <2>1, <2>2 DEF TickOnClosed, ThreadsInv, TickGoesOn, At
  <2>3. CASE TickEnds(c, h)
    BY <1>13, <2>1, <2>3 DEF TickOnClosed, ThreadsInv, At, TickEnds, Stopped
  <2>4. QED
    BY <2>1, <2>2, <2>3 DEF TickMoves
<1>14. ASSUME NEW c \in Client, NEW h \in Hold, ThreadStops(c, h)
      PROVE  ThreadsInv'
  BY <1>14 DEF ThreadStops, ThreadsInv, At, Stopped
<1>15. ASSUME NEW c \in Client, LinkDrops(c)
      PROVE  ThreadsInv'
  BY <1>15 DEF LinkDrops, ThreadsInv
<1>16. ASSUME NEW c \in Client, LinkReopens(c)
      PROVE  ThreadsInv'
  BY <1>16 DEF LinkReopens, ThreadsInv
<1>17. ASSUME NEW c \in Client, SwapBegins(c)
      PROVE  ThreadsInv'
  BY <1>17 DEF SwapBegins, ThreadsInv
<1>18. ASSUME NEW c \in Client, SwapEnds(c)
      PROVE  ThreadsInv'
  BY <1>18 DEF SwapEnds, ThreadsInv, Free, Cur
<1>19. ASSUME NEW c \in Client, SwapFails(c)
      PROVE  ThreadsInv'
  BY <1>19 DEF SwapFails, ThreadsInv
<1>20. ASSUME NEW c \in Client, SocketBreaks(c)
      PROVE  ThreadsInv'
  BY <1>20 DEF SocketBreaks, ThreadsInv
<1>21. CASE Lapse
  BY <1>21 DEF Lapse, ThreadsInv
<1>22. ASSUME NEW s \in Session, SessionExit(s)
      PROVE  ThreadsInv'
  BY <1>22 DEF SessionExit, Cur, ThreadsInv
<1>23. CASE UNCHANGED vars
  BY <1>23 DEF vars, ThreadsInv
<1>24. QED
  BY <1>1, <1>2, <1>3, <1>4, <1>5, <1>6, <1>7, <1>8, <1>8a, <1>9, <1>10, <1>11,
     <1>12, <1>13, <1>14, <1>15, <1>16, <1>17, <1>18, <1>19, <1>20, <1>21,
     <1>22, <1>23
     DEF Next, Main, Keepalive, Transport

LEMMA Threads == Spec => [](TypeOK /\ ThreadsInv)
BY TypeInit, TypeNext, ThreadsInit, ThreadsNext, PTL DEF Spec

\* release() joins the keepalive before it hands the lease back, for any number
\* of holds: nothing of a released client is still ticking, unless a join timed out.
THEOREM QuietRelease == Spec => []QuietAfterRelease
<1>1. ThreadsInv => QuietAfterRelease
  BY DEF ThreadsInv, QuietAfterRelease
<1>2. QED
  BY <1>1, Threads, PTL

\* However often a client acquires and releases, and whatever joins run out of
\* time, the only thread whose Event is not set is the one the next release() stops.
THEOREM SingleKeepalive == Spec => []OneKeepalive
<1>1. TypeOK /\ ThreadsInv => OneKeepalive
  BY DEF TypeOK, ThreadsInv, OneKeepalive, Stopped, Hold
<1>2. QED
  BY <1>1, Threads, PTL

-----------------------------------------------------------------------------
(* The transport's memory of the lease. *)

LEMMA MemoryNext == TypeOK /\ ThreadsInv /\ MemoryMeansHeld /\ [Next]_vars => MemoryMeansHeld'
<1> SUFFICES ASSUME TypeOK, ThreadsInv, MemoryMeansHeld, [Next]_vars
             PROVE  MemoryMeansHeld'
  OBVIOUS
<1> USE DEF TypeOK, MidTick, bridge, link, control
<1>1. ASSUME NEW c \in Client, AcquireGranted(c)
      PROVE  MemoryMeansHeld'
  BY <1>1 DEF AcquireGranted, MemoryMeansHeld, Txn, Cur, Free
<1>2. ASSUME NEW c \in Client, StartKeepalive(c)
      PROVE  MemoryMeansHeld'
  BY <1>2 DEF StartKeepalive, MemoryMeansHeld, At
<1>3. ASSUME NEW c \in Client, AcquireUnconnected(c)
      PROVE  MemoryMeansHeld'
  BY <1>3 DEF AcquireUnconnected, MemoryMeansHeld
<1>4. ASSUME NEW c \in Client, NEW seen \in BOOLEAN, AcquireLost(c, seen)
      PROVE  MemoryMeansHeld'
  BY <1>4 DEF AcquireLost, MemoryMeansHeld, Txn, Cur, Free, Lease
<1>5. ASSUME NEW c \in Client, Release(c)
      PROVE  MemoryMeansHeld'
  BY <1>5 DEF Release, MemoryMeansHeld
<1>6. ASSUME NEW c \in Client, Joined(c)
      PROVE  MemoryMeansHeld'
  BY <1>6 DEF Joined, MemoryMeansHeld
<1>7. ASSUME NEW c \in Client, JoinTimedOut(c)
      PROVE  MemoryMeansHeld'
  BY <1>7 DEF JoinTimedOut, MemoryMeansHeld
<1>8. ASSUME NEW c \in Client, Unlease(c)
      PROVE  MemoryMeansHeld'
  BY <1>8 DEF Unlease, MemoryMeansHeld, Txn, Cur
<1>8a. ASSUME NEW c \in Client, Forget(c)
      PROVE  MemoryMeansHeld'
  BY <1>8a DEF Forget, MemoryMeansHeld
<1>9. ASSUME NEW c \in Client, NEW h \in Hold, TickStart(c, h)
      PROVE  MemoryMeansHeld'
  BY <1>9 DEF TickStart, MemoryMeansHeld, At
<1>10. ASSUME NEW c \in Client, NEW h \in Hold, TickRenew(c, h)
      PROVE  MemoryMeansHeld'
  BY <1>10 DEF TickRenew, MemoryMeansHeld, Txn, Cur, At, TickEnds
<1>11. ASSUME NEW c \in Client, NEW h \in Hold, TickRecheck(c, h)
      PROVE  MemoryMeansHeld'
  BY <1>11 DEF TickRecheck, MemoryMeansHeld, At, TickEnds
<1>12. ASSUME NEW c \in Client, NEW h \in Hold, TickRelock(c, h)
      PROVE  MemoryMeansHeld'
  <2>1. c \in held \cup late
    BY <1>12 DEF TickRelock, ThreadsInv
  <2>2. QED
    BY <1>12, <2>1 DEF TickRelock, MemoryMeansHeld
<1>13. ASSUME NEW c \in Client, NEW h \in Hold, TickOnClosed(c, h)
      PROVE  MemoryMeansHeld'
  BY <1>13 DEF TickOnClosed, MemoryMeansHeld, At, TickEnds
<1>14. ASSUME NEW c \in Client, NEW h \in Hold, ThreadStops(c, h)
      PROVE  MemoryMeansHeld'
  BY <1>14 DEF ThreadStops, MemoryMeansHeld, At
<1>15. ASSUME NEW c \in Client, LinkDrops(c)
      PROVE  MemoryMeansHeld'
  BY <1>15 DEF LinkDrops, MemoryMeansHeld
<1>16. ASSUME NEW c \in Client, LinkReopens(c)
      PROVE  MemoryMeansHeld'
  BY <1>16 DEF LinkReopens, MemoryMeansHeld
<1>17. ASSUME NEW c \in Client, SwapBegins(c)
      PROVE  MemoryMeansHeld'
  BY <1>17 DEF SwapBegins, MemoryMeansHeld
<1>18. ASSUME NEW c \in Client, SwapEnds(c)
      PROVE  MemoryMeansHeld'
  BY <1>18 DEF SwapEnds, MemoryMeansHeld, Free, Cur
<1>19. ASSUME NEW c \in Client, SwapFails(c)
      PROVE  MemoryMeansHeld'
  BY <1>19 DEF SwapFails, MemoryMeansHeld
<1>20. ASSUME NEW c \in Client, SocketBreaks(c)
      PROVE  MemoryMeansHeld'
  BY <1>20 DEF SocketBreaks, MemoryMeansHeld
<1>21. CASE Lapse
  BY <1>21 DEF Lapse, MemoryMeansHeld
<1>22. ASSUME NEW s \in Session, SessionExit(s)
      PROVE  MemoryMeansHeld'
  BY <1>22 DEF SessionExit, Cur, MemoryMeansHeld
<1>23. CASE UNCHANGED vars
  BY <1>23 DEF vars, MemoryMeansHeld
<1>24. QED
  BY <1>1, <1>2, <1>3, <1>4, <1>5, <1>6, <1>7, <1>8, <1>8a, <1>9, <1>10, <1>11,
     <1>12, <1>13, <1>14, <1>15, <1>16, <1>17, <1>18, <1>19, <1>20, <1>21,
     <1>22, <1>23
     DEF Next, Main, Keepalive, Transport

\* A reconnect asks again only for a lease its client still wants, unless a
\* join timed out.
THEOREM MemoryIsWanted == Spec => []MemoryMeansHeld
<1>1. Init => MemoryMeansHeld
  BY DEF Init, MemoryMeansHeld
<1>2. QED
  BY <1>1, MemoryNext, Threads, PTL DEF Spec

-----------------------------------------------------------------------------
(* Belief and table. *)

BackedInv ==
  /\ swapping \subseteq up \cap closed
  /\ broken \cap closed = {}
  /\ Client \ (up \ closed) \subseteq upset
  /\ \A c \in held \ upset :
       /\ main[c] # "forget" => holder = Cur(c)
       /\ c \in up \ (broken \cup closed)

LEMMA BackedNext == TypeOK /\ BackedInv /\ [Next]_vars => BackedInv'
<1> SUFFICES ASSUME TypeOK, BackedInv, [Next]_vars
             PROVE  BackedInv'
  OBVIOUS
<1> USE ControlLeaseAssumption DEF TypeOK, Session, bridge, link, control
<1>1. ASSUME NEW c \in Client, AcquireGranted(c)
      PROVE  BackedInv'
  BY <1>1 DEF AcquireGranted, BackedInv, Cur, Txn, Free
<1>2. ASSUME NEW c \in Client, StartKeepalive(c)
      PROVE  BackedInv'
  BY <1>2 DEF StartKeepalive, BackedInv, Cur, At
<1>3. ASSUME NEW c \in Client, AcquireUnconnected(c)
      PROVE  BackedInv'
  BY <1>3 DEF AcquireUnconnected, BackedInv, Cur
<1>4. ASSUME NEW c \in Client, NEW seen \in BOOLEAN, AcquireLost(c, seen)
      PROVE  BackedInv'
  BY <1>4 DEF AcquireLost, BackedInv, Cur, Txn, Free, Lease
<1>5. ASSUME NEW c \in Client, Release(c)
      PROVE  BackedInv'
  BY <1>5 DEF Release, BackedInv, Cur
<1>6. ASSUME NEW c \in Client, Joined(c)
      PROVE  BackedInv'
  BY <1>6 DEF Joined, BackedInv, Cur
<1>7. ASSUME NEW c \in Client, JoinTimedOut(c)
      PROVE  BackedInv'
  BY <1>7 DEF JoinTimedOut, BackedInv, Cur
<1>8. ASSUME NEW c \in Client, Unlease(c)
      PROVE  BackedInv'
  BY <1>8 DEF Unlease, BackedInv, Cur, Txn
<1>8a. ASSUME NEW c \in Client, Forget(c)
      PROVE  BackedInv'
  BY <1>8a DEF Forget, BackedInv, Cur
<1>9. ASSUME NEW c \in Client, NEW h \in Hold, TickStart(c, h)
      PROVE  BackedInv'
  BY <1>9 DEF TickStart, BackedInv, Cur, At
<1>10. ASSUME NEW c \in Client, NEW h \in Hold, TickRenew(c, h)
      PROVE  BackedInv'
  BY <1>10 DEF TickRenew, BackedInv, Cur, Txn, At, TickEnds
<1>11. ASSUME NEW c \in Client, NEW h \in Hold, TickRecheck(c, h)
      PROVE  BackedInv'
  BY <1>11 DEF TickRecheck, BackedInv, Cur, At, TickEnds
<1>12. ASSUME NEW c \in Client, NEW h \in Hold, TickRelock(c, h)
      PROVE  BackedInv'
  BY <1>12 DEF TickRelock, BackedInv, Cur, Txn, Free, Lease, At, TickEnds
<1>13. ASSUME NEW c \in Client, NEW h \in Hold, TickOnClosed(c, h)
      PROVE  BackedInv'
  BY <1>13 DEF TickOnClosed, BackedInv, Cur, At, TickEnds
<1>14. ASSUME NEW c \in Client, NEW h \in Hold, ThreadStops(c, h)
      PROVE  BackedInv'
  BY <1>14 DEF ThreadStops, BackedInv, Cur, At
<1>15. ASSUME NEW c \in Client, LinkDrops(c)
      PROVE  BackedInv'
  BY <1>15 DEF LinkDrops, BackedInv, Cur
<1>16. ASSUME NEW c \in Client, LinkReopens(c)
      PROVE  BackedInv'
  BY <1>16 DEF LinkReopens, BackedInv, Cur
<1>17. ASSUME NEW c \in Client, SwapBegins(c)
      PROVE  BackedInv'
  BY <1>17 DEF SwapBegins, BackedInv, Cur
<1>18. ASSUME NEW c \in Client, SwapEnds(c)
      PROVE  BackedInv'
  <2>a. /\ swapping' = swapping \ {c} /\ c \in swapping
        /\ upset' = upset \/ upset' = upset \ {c}
        /\ closed' = closed \ {c}
        /\ UNCHANGED <<up, held, main, broken>>
    BY <1>18 DEF SwapEnds
  <2>b. /\ swapping' \subseteq up' \cap closed'
        /\ broken' \cap closed' = {}
        /\ Client \ (up' \ closed') \subseteq upset'
    BY <1>18, <2>a DEF BackedInv, SwapEnds
  <2> SUFFICES ASSUME NEW d \in held \ upset'
               PROVE  /\ main[d] # "forget" => holder' = <<d, sess'[d]>>
                      /\ d \in up \ (broken \cup closed')
    BY <2>a, <2>b DEF BackedInv, Cur
  <2>1. d \in Client /\ sess[d] \in 1..MaxSessions
    OBVIOUS
  <2>2. CASE d = c
    <3>1. c \in up /\ c \in upset /\ c \notin broken
      BY <1>18, <2>2 DEF SwapEnds, BackedInv
    <3>2. c \in mem /\ Free(<<c, sess[c] + 1>>)
      BY <1>18, <2>2, <3>1 DEF SwapEnds
    <3>3. QED
      BY <1>18, <2>a, <2>2, <3>1, <3>2 DEF SwapEnds
  <2>3. CASE d # c
    <3>1. /\ d \notin upset
          /\ main[d] # "forget" => holder = <<d, sess[d]>>
          /\ d \in up \ (broken \cup closed)
      BY <1>18, <2>3 DEF SwapEnds, BackedInv, Cur
    <3>2. sess'[d] = sess[d] /\ closed' \subseteq closed
      BY <1>18, <2>1, <2>3, <2>a DEF SwapEnds
    <3>3. ASSUME main[d] # "forget"
          PROVE  holder' = holder
      <4>1. holder # <<c, sess[c] + 1>> /\ holder # NoOne
        BY <2>1, <2>3, <3>1, <3>3
      <4>2. QED
        BY <1>18, <4>1 DEF SwapEnds, Free
    <3>4. QED
      BY <3>1, <3>2, <3>3
  <2>4. QED
    BY <2>2, <2>3
<1>19. ASSUME NEW c \in Client, SwapFails(c)
      PROVE  BackedInv'
  BY <1>19 DEF SwapFails, BackedInv, Cur
<1>20. ASSUME NEW c \in Client, SocketBreaks(c)
      PROVE  BackedInv'
  BY <1>20 DEF SocketBreaks, BackedInv, Cur
<1>21. CASE Lapse
  BY <1>21 DEF Lapse, BackedInv, Cur
<1>22. ASSUME NEW s \in Session, SessionExit(s)
      PROVE  BackedInv'
  BY <1>22 DEF SessionExit, Cur, BackedInv
<1>23. CASE UNCHANGED vars
  BY <1>23 DEF vars, BackedInv, Cur
<1>24. QED
  BY <1>1, <1>2, <1>3, <1>4, <1>5, <1>6, <1>7, <1>8, <1>8a, <1>9, <1>10, <1>11,
     <1>12, <1>13, <1>14, <1>15, <1>16, <1>17, <1>18, <1>19, <1>20, <1>21,
     <1>22, <1>23
     DEF Next, Main, Keepalive, Transport

\* A client that believes it has control is the holder in the bridge's table
\* unless a lapse or a lost connection came between.
THEOREM BeliefIsBacked == Spec => []HeldIsBacked
<1>1. Init => BackedInv
  BY DEF Init, BackedInv
<1>2. BackedInv => HeldIsBacked
  BY DEF BackedInv, HeldIsBacked
<1>3. QED
  BY <1>1, <1>2, BackedNext, TypeInit, TypeNext, PTL DEF Spec
=============================================================================
